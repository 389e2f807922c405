------------------------------ MODULE JobQueue ------------------------------
(***************************************************************************)
(* The Postgres task queue of packages/core/queue.py and the claim loop    *)
(* around it in apps/worker/run.py.                                        *)
(*                                                                         *)
(* A task is a row of queue_tasks.  A run is one execution of run_once: a  *)
(* worker that claimed a row, and the coroutine that works on it until its *)
(* outcome is written.  Several runs may carry the same worker id, because *)
(* the id is stable across restarts and an older process may outlive its   *)
(* lease.  Every action is one database transaction.                       *)
(*                                                                         *)
(* Time is abstract.  A lease is a number of remaining ticks, renewed to   *)
(* LeaseTicks and lapsed at 0; a run_after in the future is due = FALSE    *)
(* until DueNow.  Priorities (claim_task's after_others) are Rank.         *)
(***************************************************************************)
EXTENDS Naturals, FiniteSets

CONSTANTS
  Tasks,         \* rows of queue_tasks
  Runs,          \* executions of run_once
  Workers,       \* worker ids
  WorkerOf,      \* the id a run presents
  Rank,          \* a task's position in after_others, 0 when it yields to none
  Cancellable,   \* tasks of a kind the owner may cancel
  Releasable,    \* tasks a handler may hand back with release_task
  MaxAttempts,   \* claim_task's limit on attempts
  FailLimit,     \* RetryPolicy.max_attempts
  LeaseTicks,    \* lease length; run.py renews once a tick
  MaxDeferrals,  \* crawler/defer.py's bound on handing one task back
  NoClaim,       \* the claim of a run that holds nothing
  NoWorker       \* locked_by IS NULL

ASSUME QueueAssumption ==
  /\ WorkerOf \in [Runs -> Workers]
  /\ Rank \in [Tasks -> Nat]
  /\ Cancellable \subseteq Tasks
  /\ Releasable \subseteq Tasks
  /\ MaxAttempts \in Nat \ {0}
  /\ FailLimit \in Nat \ {0}
  /\ LeaseTicks \in Nat \ {0}
  /\ MaxDeferrals \in Nat
  /\ NoWorker \notin Workers
  /\ NoClaim \notin [task : Tasks, attempt : Nat]

VARIABLES
  status,     \* QueueTask.status, or "absent" before the row exists
  attempts,   \* QueueTask.attempts
  lockedBy,   \* QueueTask.locked_by
  lease,      \* ticks left of lease_expires_at; 0 is NULL or lapsed
  due,        \* run_after <= now
  deferrals,  \* payload_json["deferrals"]
  claim       \* the ClaimedTask token each run holds

taskVars == <<status, attempts, lockedBy, lease, due, deferrals>>
queueVars == <<status, attempts, lockedBy, lease, due, deferrals, claim>>

Finished == {"done", "failed", "cancelled"}
Statuses == {"absent", "pending", "running"} \cup Finished
Claims == [task : Tasks, attempt : Nat]

TypeOK ==
  /\ status \in [Tasks -> Statuses]
  /\ attempts \in [Tasks -> 0..MaxAttempts]
  /\ lockedBy \in [Tasks -> Workers \cup {NoWorker}]
  /\ lease \in [Tasks -> 0..LeaseTicks]
  /\ due \in [Tasks -> BOOLEAN]
  /\ deferrals \in [Tasks -> 0..MaxDeferrals]
  /\ claim \in [Runs -> Claims \cup {NoClaim}]

QueueInit ==
  /\ status = [t \in Tasks |-> "absent"]
  /\ attempts = [t \in Tasks |-> 0]
  /\ lockedBy = [t \in Tasks |-> NoWorker]
  /\ lease = [t \in Tasks |-> 0]
  /\ due = [t \in Tasks |-> FALSE]
  /\ deferrals = [t \in Tasks |-> 0]
  /\ claim = [r \in Runs |-> NoClaim]

-----------------------------------------------------------------------------
(* What a claim sees, and what its token must match.                       *)

\* Mutant: a lease is no protection from another worker's claim.
RunnableUnderLease(t) == status[t] = "running" \/ (status[t] = "pending" /\ due[t])

\* Pending and due, or running under a lease that has lapsed.
Runnable(t) ==
  \/ status[t] = "pending" /\ due[t]
  \/ status[t] = "running" /\ lease[t] = 0

\* Mutant: parks by the counter alone, whatever became of the task.
SpentWhateverStatus == {t \in Tasks : attempts[t] >= MaxAttempts}

\* Runnable rows with no attempt left: every claim parks all of them first.
Exhausted == {t \in Tasks : Runnable(t) /\ attempts[t] >= MaxAttempts}

\* Mutant: the claim forgets the attempt limit.
ReadyUnlimited == {t \in Tasks : Runnable(t)}

Ready == {t \in Tasks : Runnable(t) /\ attempts[t] < MaxAttempts}

\* Mutant: the worker id and the lease alone name the claim.
OwnsByWorker(r) ==
  /\ claim[r] # NoClaim
  /\ LET t == claim[r].task IN
     status[t] = "running" /\ lockedBy[t] = WorkerOf[r] /\ lease[t] > 0

\* _claim_predicates: the row still is this exact claim, under a live lease.
Owns(r) ==
  /\ claim[r] # NoClaim
  /\ LET t == claim[r].task IN
     /\ status[t] = "running"
     /\ lockedBy[t] = WorkerOf[r]
     /\ attempts[t] = claim[r].attempt
     /\ lease[t] > 0

Held(r) == claim[r].task

-----------------------------------------------------------------------------
(* Producers, and time.                                                    *)

Enqueue(t, now) ==
  /\ status[t] = "absent"
  /\ status' = [status EXCEPT ![t] = "pending"]
  /\ due' = [due EXCEPT ![t] = now]
  /\ UNCHANGED <<attempts, lockedBy, lease, deferrals, claim>>

Cancel(t) ==
  /\ t \in Cancellable
  /\ status[t] = "pending"
  /\ status' = [status EXCEPT ![t] = "cancelled"]
  /\ UNCHANGED <<attempts, lockedBy, lease, due, deferrals, claim>>

DueNow(t) ==
  /\ status[t] = "pending" /\ ~due[t]
  /\ due' = [due EXCEPT ![t] = TRUE]
  /\ UNCHANGED <<status, attempts, lockedBy, lease, deferrals, claim>>

LeaseTick(t) ==
  /\ status[t] = "running" /\ lease[t] > 0
  /\ lease' = [lease EXCEPT ![t] = @ - 1]
  /\ UNCHANGED <<status, attempts, lockedBy, due, deferrals, claim>>

-----------------------------------------------------------------------------
(* claim_task and the commit run_once makes right after it.  The first     *)
(* statement fails every exhausted row; the second takes one ready row,    *)
(* a yielding one only when nothing ahead of it is ready.                  *)

ParkedStatus == [t \in Tasks |-> IF t \in Exhausted THEN "failed" ELSE status[t]]
ParkedLocks == [t \in Tasks |-> IF t \in Exhausted THEN NoWorker ELSE lockedBy[t]]
ParkedLeases == [t \in Tasks |-> IF t \in Exhausted THEN 0 ELSE lease[t]]

ClaimTask(r, t) ==
  /\ claim[r] = NoClaim
  /\ t \in Ready
  /\ \A u \in Ready : Rank[t] <= Rank[u]
  /\ status' = [ParkedStatus EXCEPT ![t] = "running"]
  /\ lockedBy' = [ParkedLocks EXCEPT ![t] = WorkerOf[r]]
  /\ lease' = [ParkedLeases EXCEPT ![t] = LeaseTicks]
  /\ attempts' = [attempts EXCEPT ![t] = @ + 1]
  /\ claim' = [claim EXCEPT ![r] = [task |-> t, attempt |-> attempts[t] + 1]]
  /\ UNCHANGED <<due, deferrals>>

\* Mutant: claim_task returned nothing, so nothing is committed.
ClaimNothingRollsBack(r) ==
  /\ claim[r] = NoClaim
  /\ Ready = {} /\ Exhausted # {}
  /\ UNCHANGED queueVars

\* Nothing to take: run_once still commits the rows the first statement parked.
ClaimNothing(r) ==
  /\ claim[r] = NoClaim
  /\ Ready = {} /\ Exhausted # {}
  /\ status' = ParkedStatus
  /\ lockedBy' = ParkedLocks
  /\ lease' = ParkedLeases
  /\ UNCHANGED <<attempts, due, deferrals, claim>>

-----------------------------------------------------------------------------
(* What a run writes about its task.  Each is _update_claim under Owns;    *)
(* refused, the run ends in ClaimOwnershipLost and writes nothing.         *)

EndRun(r) == claim' = [claim EXCEPT ![r] = NoClaim]

\* The renewer's own transaction, on a session of its own.
RenewLease(r) ==
  /\ Owns(r)
  /\ lease' = [lease EXCEPT ![Held(r)] = LeaseTicks]
  /\ UNCHANGED <<status, attempts, lockedBy, due, deferrals, claim>>

CompleteTask(r) ==
  /\ Owns(r)
  /\ status' = [status EXCEPT ![Held(r)] = "done"]
  /\ lockedBy' = [lockedBy EXCEPT ![Held(r)] = NoWorker]
  /\ lease' = [lease EXCEPT ![Held(r)] = 0]
  /\ EndRun(r)
  /\ UNCHANGED <<attempts, due, deferrals>>

\* limit is FailLimit, or 0 for a payload that can never succeed.
Retrying(r, limit) == claim[r].attempt < limit

FailTask(r, limit) ==
  /\ Owns(r)
  /\ status' = [status EXCEPT ![Held(r)] =
                  IF Retrying(r, limit) THEN "pending" ELSE "failed"]
  /\ due' = [due EXCEPT ![Held(r)] = IF Retrying(r, limit) THEN FALSE ELSE @]
  /\ lockedBy' = [lockedBy EXCEPT ![Held(r)] = NoWorker]
  /\ lease' = [lease EXCEPT ![Held(r)] = 0]
  /\ EndRun(r)
  /\ UNCHANGED <<attempts, deferrals>>

\* Handing the task back gives the claim's attempt back.
GiveBack(r) ==
  /\ Owns(r)
  /\ status' = [status EXCEPT ![Held(r)] = "pending"]
  /\ lockedBy' = [lockedBy EXCEPT ![Held(r)] = NoWorker]
  /\ lease' = [lease EXCEPT ![Held(r)] = 0]
  /\ attempts' = [attempts EXCEPT ![Held(r)] = @ - 1]
  /\ EndRun(r)

ReleaseTask(r) ==
  /\ claim[r] # NoClaim /\ Held(r) \in Releasable
  /\ GiveBack(r)
  /\ UNCHANGED <<due, deferrals>>

\* defer_if_host_busy, for a later run_after and at most MaxDeferrals times.
DeferTask(r) ==
  /\ claim[r] # NoClaim /\ deferrals[Held(r)] < MaxDeferrals
  /\ GiveBack(r)
  /\ due' = [due EXCEPT ![Held(r)] = FALSE]
  /\ deferrals' = [deferrals EXCEPT ![Held(r)] = @ + 1]

\* A refused write, a refused renewal, or the renewer's local deadline.
ClaimOwnershipLost(r) ==
  /\ claim[r] # NoClaim /\ ~Owns(r)
  /\ EndRun(r)
  /\ UNCHANGED taskVars

\* The process dies: the lease it took stays on the row.
Crash(r) ==
  /\ claim[r] # NoClaim
  /\ EndRun(r)
  /\ UNCHANGED taskVars

-----------------------------------------------------------------------------
RunStep(r) ==
  \/ \E t \in Tasks : ClaimTask(r, t)
  \/ ClaimNothing(r)
  \/ RenewLease(r)
  \/ CompleteTask(r)
  \/ \E limit \in {0, FailLimit} : FailTask(r, limit)
  \/ ReleaseTask(r)
  \/ DeferTask(r)
  \/ ClaimOwnershipLost(r)
  \/ Crash(r)

TaskStep(t) ==
  \/ \E now \in BOOLEAN : Enqueue(t, now)
  \/ Cancel(t)
  \/ DueNow(t)
  \/ LeaseTick(t)

QueueNext ==
  \/ \E r \in Runs : RunStep(r)
  \/ \E t \in Tasks : TaskStep(t)

QueueSpec == QueueInit /\ [][QueueNext]_queueVars

(***************************************************************************)
(* Fairness.  A worker's loop polls every second, so a claim that stays    *)
(* possible is made; clocks advance; and a run's handler ends within its   *)
(* time limit (run.py, TIME_LIMITS), so a run does not go on renewing for  *)
(* ever: it writes an outcome, or it is lost.  Nothing is assumed of       *)
(* crashes, of deferrals or of the owner's cancellations.                  *)
(***************************************************************************)
Settle(r) ==
  \/ CompleteTask(r)
  \/ \E limit \in {0, FailLimit} : FailTask(r, limit)
  \/ ReleaseTask(r)
  \/ DeferTask(r)
  \/ ClaimOwnershipLost(r)
  \/ Crash(r)

QueueFairness ==
  /\ \A t \in Tasks : WF_queueVars(DueNow(t)) /\ WF_queueVars(LeaseTick(t))
  /\ \A r \in Runs :
       /\ WF_queueVars(\E t \in Tasks : ClaimTask(r, t))
       /\ WF_queueVars(ClaimNothing(r))
       /\ WF_queueVars(Settle(r))

FairQueueSpec == QueueSpec /\ QueueFairness

-----------------------------------------------------------------------------
(* Properties.                                                             *)

\* No two live executions carry the same (task, attempt) token, although
\* handing a task back lowers attempts and two runs may share a worker id.
\* renew_lease's docstring: the attempt is the claim generation.
TokensDistinct ==
  \A r, s \in Runs :
    r # s /\ claim[r] # NoClaim /\ claim[s] # NoClaim /\ Held(r) = Held(s)
      => claim[r].attempt # claim[s].attempt

\* What makes the tokens distinct: none is ahead of its row's counter, so the
\* next claim's attempt is new.
TokensBehindCounter ==
  \A r \in Runs :
    claim[r] # NoClaim =>
      /\ status[Held(r)] # "absent"
      /\ claim[r].attempt \in 1..attempts[Held(r)]

TokenInv == TokensDistinct /\ TokensBehindCounter

\* Two executions never both hold the exclusive ownership that queue.py says
\* an unexpired lease is.
OneOwner ==
  \A r, s \in Runs : Owns(r) /\ Owns(s) /\ Held(r) = Held(s) => r = s

\* "The statuses a task does not leave" (queue.py, FINISHED_STATUSES): neither
\* a late worker nor a claim parking exhausted rows rewrites an outcome.
FinishedStays ==
  [][\A t \in Tasks : status[t] \in Finished => status'[t] = status[t]]_queueVars

\* Every queued task ends, whatever crashes, retries and deferrals happen on
\* the way: attempts are consumed by crashes and deferrals are bounded.
\* release_task alone is unbounded, so the tasks it may hand back are left out.
EveryTaskFinishes ==
  \A t \in Tasks \ Releasable : status[t] # "absent" ~> status[t] \in Finished

(***************************************************************************)
(* The queue implements TaskOwnership: an execution owns a task while its  *)
(* token matches the row under a live lease, and only then does its        *)
(* outcome reach the row.                                                  *)
(***************************************************************************)
OwnerOf(t) ==
  LET owners == {r \in Runs : Owns(r) /\ Held(r) = t} IN
  IF owners = {} THEN NoWorker ELSE CHOOSE r \in owners : TRUE

PhaseOf(t) ==
  CASE status[t] = "absent" -> "absent"
    [] status[t] \in {"pending", "running"} -> "open"
    [] OTHER -> "closed"

Ownership == INSTANCE TaskOwnership WITH
  phase <- [t \in Tasks |-> PhaseOf(t)],
  owner <- [t \in Tasks |-> OwnerOf(t)],
  engaged <- [r \in Runs |-> IF claim[r] = NoClaim THEN NoClaim ELSE Held(r)],
  Nobody <- NoWorker,
  NoTask <- NoClaim

ImplementsOwnership == Ownership!Spec
=============================================================================
