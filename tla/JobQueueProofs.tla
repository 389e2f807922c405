--------------------------- MODULE JobQueueProofs ---------------------------
(***************************************************************************)
(* Proofs about JobQueue, for any tasks, runs, worker ids and limits.      *)
(*                                                                         *)
(* TypeOK is not inductive: giving an attempt back lowers a counter, which *)
(* stays a number only because the token that does it is at least 1.  The  *)
(* inductive invariant is TypeOK with TokenInv, and TokenInv needs both    *)
(* its parts: a token is new because no token is ahead of its counter, and *)
(* none is ahead after a GiveBack because no two are equal.                *)
(*                                                                         *)
(* The last part shows that the queue implements TaskOwnership: every step *)
(* takes, gives up or settles the ownership of tasks as it allows, or      *)
(* changes none of it.                                                     *)
(***************************************************************************)
EXTENDS JobQueue, TLAPS

QueueInv == TypeOK /\ TokenInv

LEMMA InitQueueInv == QueueInit => QueueInv
BY QueueAssumption DEF QueueInit, QueueInv, TypeOK, TokenInv, TokensDistinct,
  TokensBehindCounter, Statuses, Finished

-----------------------------------------------------------------------------
(* Each kind of step keeps the types.                                      *)

LEMMA ClaimKeepsTypes ==
  ASSUME QueueInv, NEW r \in Runs, NEW t \in Tasks, ClaimTask(r, t)
  PROVE  TypeOK'
<1>1. attempts[t] + 1 \in 1..MaxAttempts
  BY QueueAssumption DEF QueueInv, TypeOK, ClaimTask, Ready
<1>2. [task |-> t, attempt |-> attempts[t] + 1] \in Claims
  BY <1>1 DEF Claims
<1>3. claim' \in [Runs -> Claims \cup {NoClaim}] /\ attempts' \in [Tasks -> 0..MaxAttempts]
  BY <1>1, <1>2 DEF QueueInv, TypeOK, ClaimTask
<1>4. /\ ParkedStatus \in [Tasks -> Statuses]
      /\ ParkedLocks \in [Tasks -> Workers \cup {NoWorker}]
      /\ ParkedLeases \in [Tasks -> 0..LeaseTicks]
  BY QueueAssumption DEF QueueInv, TypeOK, ParkedStatus, ParkedLocks, ParkedLeases,
    Statuses, Finished
<1>5. /\ status' \in [Tasks -> Statuses]
      /\ lockedBy' \in [Tasks -> Workers \cup {NoWorker}]
      /\ lease' \in [Tasks -> 0..LeaseTicks]
  BY <1>4, QueueAssumption DEF ClaimTask, Statuses, Finished
<1> QED BY <1>3, <1>5 DEF QueueInv, TypeOK, ClaimTask

LEMMA ParkingKeepsTypes ==
  ASSUME QueueInv, NEW r \in Runs, ClaimNothing(r)
  PROVE  TypeOK'
BY QueueAssumption DEF QueueInv, TypeOK, ClaimNothing, ParkedStatus, ParkedLocks,
  ParkedLeases, Statuses, Finished

\* A run that owns its task holds a token of a known task, equal to its counter.
LEMMA OwnerToken ==
  ASSUME QueueInv, NEW r \in Runs, claim[r] # NoClaim
  PROVE  /\ claim[r] \in Claims /\ Held(r) \in Tasks
         /\ claim[r].attempt \in 1..attempts[Held(r)]
         /\ status[Held(r)] # "absent"
         /\ Owns(r) => claim[r].attempt = attempts[Held(r)] /\ status[Held(r)] = "running"
BY DEF QueueInv, TypeOK, TokenInv, TokensBehindCounter, Claims, Held, Owns

LEMMA OutcomeKeepsTypes ==
  ASSUME QueueInv, NEW r \in Runs,
         \/ RenewLease(r) \/ CompleteTask(r) \/ ReleaseTask(r) \/ DeferTask(r)
         \/ \E limit \in {0, FailLimit} : FailTask(r, limit)
         \/ ClaimOwnershipLost(r) \/ Crash(r)
  PROVE  TypeOK'
<1> claim[r] # NoClaim
  BY DEF RenewLease, CompleteTask, ReleaseTask, DeferTask, FailTask, ClaimOwnershipLost,
    Crash, Owns
<1> Held(r) \in Tasks /\ (Owns(r) => attempts[Held(r)] \in 1..MaxAttempts)
  BY OwnerToken DEF QueueInv, TypeOK, Claims
<1>1. CASE RenewLease(r)
  BY <1>1, QueueAssumption DEF RenewLease, QueueInv, TypeOK
<1>2. CASE CompleteTask(r)
  BY <1>2, QueueAssumption DEF CompleteTask, EndRun, QueueInv, TypeOK, Statuses, Finished
<1>3. CASE \E limit \in {0, FailLimit} : FailTask(r, limit)
  <2> PICK limit \in {0, FailLimit} : FailTask(r, limit)
    BY <1>3
  <2>1. due' \in [Tasks -> BOOLEAN]
    BY DEF FailTask, QueueInv, TypeOK
  <2>2. status' \in [Tasks -> Statuses]
    BY DEF FailTask, QueueInv, TypeOK, Statuses, Finished
  <2>3. lockedBy' \in [Tasks -> Workers \cup {NoWorker}] /\ lease' \in [Tasks -> 0..LeaseTicks]
    BY QueueAssumption DEF FailTask, QueueInv, TypeOK
  <2>4. claim' \in [Runs -> Claims \cup {NoClaim}]
    BY DEF FailTask, EndRun, QueueInv, TypeOK
  <2>5. attempts' = attempts /\ deferrals' = deferrals
    BY DEF FailTask
  <2> QED BY <2>1, <2>2, <2>3, <2>4, <2>5 DEF QueueInv, TypeOK
<1>4. CASE ReleaseTask(r)
  BY <1>4, QueueAssumption DEF ReleaseTask, GiveBack, EndRun, QueueInv, TypeOK, Statuses
<1>5. CASE DeferTask(r)
  BY <1>5, QueueAssumption DEF DeferTask, GiveBack, EndRun, QueueInv, TypeOK, Statuses
<1>6. CASE ClaimOwnershipLost(r) \/ Crash(r)
  BY <1>6 DEF ClaimOwnershipLost, Crash, EndRun, taskVars, QueueInv, TypeOK
<1> QED BY <1>1, <1>2, <1>3, <1>4, <1>5, <1>6

LEMMA TaskStepKeepsTypes ==
  ASSUME QueueInv, NEW t \in Tasks, TaskStep(t)
  PROVE  TypeOK'
<1>1. CASE \E now \in BOOLEAN : Enqueue(t, now)
  BY <1>1 DEF Enqueue, QueueInv, TypeOK, Statuses
<1>2. CASE Cancel(t)
  BY <1>2 DEF Cancel, QueueInv, TypeOK, Statuses, Finished
<1>3. CASE DueNow(t)
  BY <1>3 DEF DueNow, QueueInv, TypeOK
<1>4. CASE LeaseTick(t)
  BY <1>4, QueueAssumption DEF LeaseTick, QueueInv, TypeOK
<1> QED BY <1>1, <1>2, <1>3, <1>4 DEF TaskStep

-----------------------------------------------------------------------------
(* Tokens.                                                                 *)

\* A step that changes no token and no counter, and brings no row back to
\* absent, keeps them apart.
LEMMA TokensUndisturbed ==
  ASSUME QueueInv, UNCHANGED <<claim, attempts>>,
         \A t \in Tasks : status'[t] = "absent" => status[t] = "absent"
  PROVE  TokenInv'
BY DEF QueueInv, TypeOK, TokenInv, TokensDistinct, TokensBehindCounter, Held, Claims

\* So does one that only ends a run.
LEMMA TokenDropped ==
  ASSUME QueueInv, NEW r \in Runs, EndRun(r), attempts' = attempts,
         \A t \in Tasks : status'[t] = "absent" => status[t] = "absent"
  PROVE  TokenInv'
BY DEF QueueInv, TypeOK, TokenInv, TokensDistinct, TokensBehindCounter, Held, Claims, EndRun

\* The claim's token is one more than its counter was, and no token of the
\* task was more than that.
LEMMA ClaimTokenIsNew ==
  ASSUME QueueInv, NEW r \in Runs, NEW t \in Tasks, ClaimTask(r, t)
  PROVE  TokenInv'
<1>1. /\ claim' = [claim EXCEPT ![r] = [task |-> t, attempt |-> attempts[t] + 1]]
      /\ attempts' = [attempts EXCEPT ![t] = @ + 1]
      /\ status' = [ParkedStatus EXCEPT ![t] = "running"]
  BY DEF ClaimTask
<1>2. attempts \in [Tasks -> 0..MaxAttempts] /\ MaxAttempts \in Nat
  BY QueueAssumption DEF QueueInv, TypeOK
<1>3. [task |-> t, attempt |-> attempts[t] + 1] # NoClaim
  BY <1>2, QueueAssumption
<1>4. ASSUME NEW s \in Runs, claim'[s] # NoClaim, s # r
      PROVE  /\ claim'[s] = claim[s]
             /\ Held(s) \in Tasks
             /\ claim[s].attempt \in 1..attempts[Held(s)]
             /\ status[Held(s)] # "absent"
             /\ attempts'[Held(s)] = IF Held(s) = t THEN attempts[t] + 1 ELSE attempts[Held(s)]
  <2>1. claim'[s] = claim[s]
    BY <1>1, <1>4 DEF QueueInv, TypeOK
  <2> QED BY <1>1, <1>2, <1>4, <2>1, OwnerToken
<1>5. claim'[r] = [task |-> t, attempt |-> attempts[t] + 1] /\ attempts'[t] = attempts[t] + 1
  BY <1>1, <1>2 DEF QueueInv, TypeOK
<1>6. \A u \in Tasks : status'[u] = "absent" => status[u] = "absent"
  BY <1>1 DEF ParkedStatus, QueueInv, TypeOK
<1>7. TokensBehindCounter'
  <2> SUFFICES ASSUME NEW s \in Runs, claim'[s] # NoClaim
               PROVE  /\ status'[claim'[s].task] # "absent"
                      /\ claim'[s].attempt \in 1..attempts'[claim'[s].task]
    BY DEF TokensBehindCounter, Held
  <2>1. CASE s = r
    <3>1. status'[t] = "running"
      BY <1>1 DEF ParkedStatus
    <3> QED BY <2>1, <3>1, <1>2, <1>5
  <2>2. CASE s # r
    BY <2>2, <1>2, <1>4, <1>6 DEF Held
  <2> QED BY <2>1, <2>2
<1>8. TokensDistinct'
  <2> SUFFICES ASSUME NEW s \in Runs, NEW u \in Runs, s # u,
                      claim'[s] # NoClaim, claim'[u] # NoClaim,
                      claim'[s].task = claim'[u].task
               PROVE  claim'[s].attempt # claim'[u].attempt
    BY DEF TokensDistinct, Held
  <2>1. CASE s # r /\ u # r
    BY <2>1, <1>4 DEF Held, QueueInv, TokenInv, TokensDistinct
  <2>2. CASE s = r
    BY <2>2, <1>2, <1>4, <1>5 DEF Held
  <2>3. CASE u = r
    BY <2>3, <1>2, <1>4, <1>5 DEF Held
  <2> QED BY <2>1, <2>2, <2>3
<1> QED BY <1>7, <1>8 DEF TokenInv

\* Giving back lowers the counter under the owner's own token, which goes:
\* every other token of the task differs from it, so is below.
LEMMA GiveBackKeepsTokens ==
  ASSUME QueueInv, NEW r \in Runs, GiveBack(r)
  PROVE  TokenInv'
<1> claim[r] # NoClaim
  BY DEF GiveBack, Owns
<1>1. /\ Held(r) \in Tasks
      /\ claim[r].attempt = attempts[Held(r)]
      /\ attempts[Held(r)] \in Nat \ {0}
  BY OwnerToken, QueueAssumption DEF GiveBack, QueueInv, TypeOK
<1>2. attempts' = [attempts EXCEPT ![Held(r)] = @ - 1]
  BY DEF GiveBack
<1>3. ASSUME NEW s \in Runs, claim'[s] # NoClaim
      PROVE  /\ s # r /\ claim'[s] = claim[s] /\ Held(s) \in Tasks
             /\ status[Held(s)] # "absent"
             /\ claim[s].attempt \in 1..attempts[Held(s)]
  BY <1>3, OwnerToken DEF GiveBack, EndRun, QueueInv, TypeOK
<1>4. TokensDistinct'
  BY <1>3 DEF TokensDistinct, Held, QueueInv, TokenInv
<1>5. TokensBehindCounter'
  <2> SUFFICES ASSUME NEW s \in Runs, claim'[s] # NoClaim
               PROVE  /\ status'[claim[s].task] # "absent"
                      /\ claim[s].attempt \in 1..attempts'[claim[s].task]
    BY <1>3 DEF TokensBehindCounter, Held
  <2>1. status'[claim[s].task] # "absent"
    BY <1>3 DEF GiveBack, Held, QueueInv, TypeOK
  <2>2. CASE Held(s) = Held(r)
    <3>1. claim[s].attempt # claim[r].attempt
      BY <1>3, <2>2 DEF QueueInv, TokenInv, TokensDistinct
    <3>2. attempts'[Held(s)] = attempts[Held(r)] - 1
      BY <1>1, <1>2, <2>2 DEF QueueInv, TypeOK
    <3>3. claim[s].attempt \in 1..attempts[Held(r)]
      BY <1>3, <2>2
    <3> QED BY <1>1, <2>1, <3>1, <3>2, <3>3 DEF Held
  <2>3. CASE Held(s) # Held(r)
    BY <1>2, <1>3, <2>1, <2>3 DEF Held, QueueInv, TypeOK
  <2> QED BY <2>2, <2>3
<1> QED BY <1>4, <1>5 DEF TokenInv

LEMMA StepKeepsQueueInv == QueueInv /\ [QueueNext]_queueVars => QueueInv'
<1> SUFFICES ASSUME QueueInv, [QueueNext]_queueVars PROVE QueueInv'
  OBVIOUS
<1>1. ASSUME NEW r \in Runs, NEW t \in Tasks, ClaimTask(r, t) PROVE QueueInv'
  BY <1>1, ClaimKeepsTypes, ClaimTokenIsNew DEF QueueInv
<1>2. ASSUME NEW r \in Runs, ClaimNothing(r) PROVE QueueInv'
  BY <1>2, ParkingKeepsTypes, TokensUndisturbed
    DEF QueueInv, ClaimNothing, ParkedStatus
<1>3. ASSUME NEW r \in Runs, RenewLease(r) PROVE QueueInv'
  BY <1>3, OutcomeKeepsTypes, TokensUndisturbed DEF QueueInv, RenewLease
<1>4. ASSUME NEW r \in Runs, CompleteTask(r) PROVE QueueInv'
  <2>1. \A t \in Tasks : status'[t] = "absent" => status[t] = "absent"
    BY <1>4 DEF CompleteTask, QueueInv, TypeOK
  <2> QED BY <1>4, <2>1, OutcomeKeepsTypes, TokenDropped DEF QueueInv, CompleteTask
<1>5. ASSUME NEW r \in Runs, NEW limit \in {0, FailLimit}, FailTask(r, limit) PROVE QueueInv'
  <2>1. \A t \in Tasks : status'[t] = "absent" => status[t] = "absent"
    BY <1>5 DEF FailTask, QueueInv, TypeOK
  <2> QED BY <1>5, <2>1, OutcomeKeepsTypes, TokenDropped DEF QueueInv, FailTask
<1>6. ASSUME NEW r \in Runs, ReleaseTask(r) \/ DeferTask(r) PROVE QueueInv'
  BY <1>6, OutcomeKeepsTypes, GiveBackKeepsTokens DEF QueueInv, ReleaseTask, DeferTask
<1>7. ASSUME NEW r \in Runs, ClaimOwnershipLost(r) \/ Crash(r) PROVE QueueInv'
  BY <1>7, OutcomeKeepsTypes, TokenDropped DEF QueueInv, ClaimOwnershipLost, Crash, taskVars
<1>8. ASSUME NEW t \in Tasks, TaskStep(t) PROVE QueueInv'
  <2>1. UNCHANGED <<claim, attempts>>
    BY <1>8 DEF TaskStep, Enqueue, Cancel, DueNow, LeaseTick
  <2>2. \A u \in Tasks : status'[u] = "absent" => status[u] = "absent"
    BY <1>8 DEF TaskStep, Enqueue, Cancel, DueNow, LeaseTick, QueueInv, TypeOK
  <2> QED BY <1>8, <2>1, <2>2, TaskStepKeepsTypes, TokensUndisturbed DEF QueueInv
<1>9. CASE UNCHANGED queueVars
  BY <1>9 DEF queueVars, QueueInv, TypeOK, TokenInv, TokensDistinct, TokensBehindCounter, Held
<1> QED
  BY <1>1, <1>2, <1>3, <1>4, <1>5, <1>6, <1>7, <1>8, <1>9 DEF QueueNext, RunStep

-----------------------------------------------------------------------------
(* The theorems.                                                           *)

THEOREM QueueInvariant == QueueSpec => []QueueInv
BY InitQueueInv, StepKeepsQueueInv, PTL DEF QueueSpec

\* Type correctness of the queue's rows and claims.
THEOREM TypeCorrect == QueueSpec => []TypeOK
<1>1. QueueInv => TypeOK
  BY DEF QueueInv
<1> QED BY <1>1, QueueInvariant, PTL

\* No two executions carry one token, and none is ahead of its row's counter.
THEOREM TokensUnique == QueueSpec => []TokenInv
<1>1. QueueInv => TokenInv
  BY DEF QueueInv
<1> QED BY <1>1, QueueInvariant, PTL

\* A live lease is exclusive: at most one execution's writes are accepted,
\* even among executions that present one worker id.
THEOREM ExclusiveOwner == QueueSpec => []OneOwner
<1>1. TokenInv => OneOwner
  BY DEF TokenInv, TokensDistinct, OneOwner, Owns, Held
<1> QED BY <1>1, TokensUnique, PTL

\* A finished row is written no more.
LEMMA FinishedRowStays ==
  ASSUME QueueInv, [QueueNext]_queueVars, NEW t \in Tasks, status[t] \in Finished
  PROVE  status'[t] = status[t] /\ attempts'[t] = attempts[t]
<1>1. status \in [Tasks -> Statuses] /\ attempts \in [Tasks -> 0..MaxAttempts] /\ ~Runnable(t)
  BY DEF QueueInv, TypeOK, Runnable, Finished
<1>2. ASSUME NEW r \in Runs, NEW u \in Tasks, ClaimTask(r, u)
      PROVE  status'[t] = status[t] /\ attempts'[t] = attempts[t]
  BY <1>1, <1>2 DEF ClaimTask, ParkedStatus, Exhausted, Ready
<1>3. ASSUME NEW r \in Runs, ClaimNothing(r)
      PROVE  status'[t] = status[t] /\ attempts'[t] = attempts[t]
  BY <1>1, <1>3 DEF ClaimNothing, ParkedStatus, Exhausted
<1>4. ASSUME NEW r \in Runs, Owns(r) PROVE Held(r) # t
  BY <1>4 DEF Owns, Held, Finished
<1>5. ASSUME NEW r \in Runs,
             \/ RenewLease(r) \/ CompleteTask(r) \/ ReleaseTask(r) \/ DeferTask(r)
             \/ \E limit \in {0, FailLimit} : FailTask(r, limit)
             \/ ClaimOwnershipLost(r) \/ Crash(r)
      PROVE  status'[t] = status[t] /\ attempts'[t] = attempts[t]
  BY <1>1, <1>4, <1>5 DEF RenewLease, CompleteTask, ReleaseTask, DeferTask, GiveBack,
    FailTask, ClaimOwnershipLost, Crash, taskVars
<1>6. ASSUME NEW u \in Tasks, TaskStep(u)
      PROVE  status'[t] = status[t] /\ attempts'[t] = attempts[t]
  BY <1>1, <1>6 DEF TaskStep, Enqueue, Cancel, DueNow, LeaseTick, Finished
<1>7. CASE UNCHANGED queueVars
  BY <1>7 DEF queueVars
<1> QED BY <1>2, <1>3, <1>5, <1>6, <1>7 DEF QueueNext, RunStep

\* An outcome, once written, is never rewritten.
THEOREM OutcomesStay == QueueSpec => FinishedStays
<1>1. QueueInv /\ [QueueNext]_queueVars
        => [\A t \in Tasks : status[t] \in Finished => status'[t] = status[t]]_queueVars
  BY FinishedRowStays
<1> QED BY <1>1, QueueInvariant, PTL DEF QueueSpec, FinishedStays

-----------------------------------------------------------------------------
(* The queue implements TaskOwnership.  Every step is one of its steps, or *)
(* changes neither a phase, an owner nor an engagement.  That an owner is  *)
(* well defined is OneOwner.  "Nobody" is no run and "no task" no task.    *)

Mine(r, t) == Owns(r) /\ Held(r) = t

PhaseMap == [t \in Tasks |-> PhaseOf(t)]
OwnerMap == [t \in Tasks |-> OwnerOf(t)]
EngagedMap == [r \in Runs |-> IF claim[r] = NoClaim THEN NoClaim ELSE Held(r)]

\* An owner is the one run whose token matches the row.
OwnersAre ==
  \A t \in Tasks :
    /\ OwnerOf(t) \in Runs \cup {NoWorker}
    /\ \A r \in Runs : OwnerOf(t) = r <=> Mine(r, t)

LEMMA OwnersKnown == NoWorker \notin Runs /\ QueueInv => OwnersAre
<1> SUFFICES ASSUME NoWorker \notin Runs, QueueInv, NEW t \in Tasks
             PROVE  /\ OwnerOf(t) \in Runs \cup {NoWorker}
                    /\ \A r \in Runs : OwnerOf(t) = r <=> Mine(r, t)
  BY DEF OwnersAre
<1> DEFINE owners == {r \in Runs : Owns(r) /\ Held(r) = t}
<1>1. \A r, s \in owners : r = s
  BY DEF QueueInv, TokenInv, TokensDistinct, Owns, Held
<1>2. OwnerOf(t) = IF owners = {} THEN NoWorker ELSE CHOOSE r \in owners : TRUE
  BY DEF OwnerOf
<1>3. CASE owners = {}
  BY <1>2, <1>3 DEF Mine
<1>4. CASE owners # {}
  <2>1. OwnerOf(t) \in owners
    BY <1>2, <1>4
  <2> QED BY <1>1, <2>1 DEF Mine
<1> QED BY <1>3, <1>4

\* A task whose row keeps its claim's columns, and that no run takes up or
\* drops, keeps its owner.
LEMMA SameOwner ==
  ASSUME NoWorker \notin Runs, OwnersAre, OwnersAre', NEW t \in Tasks,
         \A r \in Runs : Mine(r, t)' <=> Mine(r, t)
  PROVE  OwnerOf(t)' = OwnerOf(t)
BY DEF OwnersAre

\* Nobody owns it: the row is not running, or its lease has lapsed.
LEMMA NoOwner ==
  ASSUME OwnersAre, NEW t \in Tasks, status[t] # "running" \/ ~(lease[t] > 0)
  PROVE  OwnerOf(t) = NoWorker
BY DEF OwnersAre, Mine, Owns, Held

LEMMA NoOwnerNext ==
  ASSUME OwnersAre', NEW t \in Tasks, status'[t] # "running" \/ ~(lease'[t] > 0)
  PROVE  OwnerOf(t)' = NoWorker
BY DEF OwnersAre, Mine, Owns, Held

\* Rows other than the one written, and claims other than the run's, stay.
LEMMA ElsewhereSame ==
  ASSUME NoWorker \notin Runs, QueueInv, OwnersAre, OwnersAre', NEW t \in Tasks,
         status'[t] = status[t], attempts'[t] = attempts[t], lockedBy'[t] = lockedBy[t],
         (lease'[t] > 0) <=> (lease[t] > 0),
         \A r \in Runs : claim'[r] = claim[r] \/ ~(Mine(r, t) \/ Mine(r, t)')
  PROVE  OwnerOf(t)' = OwnerOf(t)
<1>1. ASSUME NEW r \in Runs PROVE Mine(r, t)' <=> Mine(r, t)
  <2>1. CASE claim'[r] = claim[r]
    BY <2>1 DEF Mine, Owns, Held
  <2>2. CASE ~(Mine(r, t) \/ Mine(r, t)')
    BY <2>2
  <2> QED BY <2>1, <2>2
<1> QED BY <1>1, SameOwner

\* What a claim parks, nobody owns.
LEMMA ExhaustedIsUnowned ==
  ASSUME QueueInv, OwnersAre
  PROVE  /\ Exhausted \subseteq Ownership!Unowned
         /\ \A t \in Tasks : (IF t \in Exhausted THEN "closed" ELSE PhaseOf(t))
              = IF ParkedStatus[t] = "absent" THEN "absent"
                ELSE IF ParkedStatus[t] \in {"pending", "running"} THEN "open" ELSE "closed"
<1>1. ASSUME NEW t \in Exhausted PROVE t \in Tasks /\ OwnerOf(t) = NoWorker /\ PhaseOf(t) = "open"
  <2>1. t \in Tasks /\ status[t] \in {"pending", "running"}
        /\ (status[t] # "running" \/ ~(lease[t] > 0))
    BY DEF Exhausted, Runnable, QueueInv, TypeOK
  <2> QED BY <2>1, NoOwner DEF PhaseOf
<1> QED BY <1>1 DEF Ownership!Unowned, PhaseOf, ParkedStatus

LEMMA ClaimIsGrant ==
  ASSUME NoWorker \notin Runs, NoClaim \notin Tasks, QueueInv, QueueInv', OwnersAre, OwnersAre',
         NEW r \in Runs, NEW t \in Tasks, ClaimTask(r, t)
  PROVE  \E T \in SUBSET Tasks : Ownership!Grant(t, r, T)
<1>1. /\ status \in [Tasks -> Statuses] /\ attempts \in [Tasks -> 0..MaxAttempts]
      /\ lease \in [Tasks -> 0..LeaseTicks] /\ lockedBy \in [Tasks -> Workers \cup {NoWorker}]
      /\ claim \in [Runs -> Claims \cup {NoClaim}]
  BY DEF QueueInv, TypeOK
<1>2. /\ t \notin Exhausted /\ status[t] \in {"pending", "running"}
      /\ status[t] # "running" \/ ~(lease[t] > 0)
  BY <1>1, QueueAssumption DEF ClaimTask, Ready, Exhausted, Runnable
<1>3. t \in Ownership!Unowned \ Exhausted
  BY <1>2, NoOwner DEF Ownership!Unowned, PhaseOf
<1>4. /\ status' = [ParkedStatus EXCEPT ![t] = "running"]
      /\ claim' = [claim EXCEPT ![r] = [task |-> t, attempt |-> attempts[t] + 1]]
      /\ claim[r] = NoClaim /\ ParkedStatus[t] = status[t]
  BY <1>2 DEF ClaimTask, ParkedStatus
<1>5. ASSUME NEW u \in Tasks
      PROVE  PhaseOf(u)' = IF u \in Exhausted THEN "closed" ELSE PhaseOf(u)
  <2>1. CASE u = t
    BY <1>2, <1>4, <2>1 DEF PhaseOf, ParkedStatus
  <2>2. CASE u # t
    BY <1>4, <2>2, ExhaustedIsUnowned DEF PhaseOf, ParkedStatus
  <2> QED BY <2>1, <2>2
<1>6. ASSUME NEW u \in Tasks PROVE OwnerOf(u)' = IF u = t THEN r ELSE OwnerOf(u)
  <2>1. CASE u = t
    <3>1. claim'[r] = [task |-> t, attempt |-> attempts[t] + 1] /\ claim'[r] # NoClaim
      BY <1>1, <1>4, QueueAssumption
    <3>2. Mine(r, t)'
      BY <1>1, <3>1, QueueAssumption DEF ClaimTask, ParkedStatus, ParkedLocks, ParkedLeases,
        Mine, Owns, Held
    <3> QED BY <2>1, <3>2 DEF OwnersAre
  <2>2. CASE u # t /\ u \in Exhausted
    <3>1. status'[u] = "failed"
      BY <1>4, <2>2 DEF ParkedStatus
    <3>2. OwnerOf(u) = NoWorker
      BY <2>2, ExhaustedIsUnowned DEF Ownership!Unowned
    <3> QED BY <2>2, <3>1, <3>2, NoOwnerNext
  <2>3. CASE u # t /\ u \notin Exhausted
    <3>1. /\ status'[u] = status[u] /\ attempts'[u] = attempts[u] /\ lockedBy'[u] = lockedBy[u]
          /\ lease'[u] = lease[u]
      BY <1>1, <2>3 DEF ClaimTask, ParkedStatus, ParkedLocks, ParkedLeases
    <3>2. ASSUME NEW s \in Runs PROVE claim'[s] = claim[s] \/ ~(Mine(s, u) \/ Mine(s, u)')
      <4>1. s = r => claim'[s].task = t
        BY <1>1, <1>4
      <4> QED BY <1>1, <1>4, <2>3, <4>1 DEF Mine, Owns, Held
    <3> QED BY <2>3, <3>1, <3>2, ElsewhereSame
  <2> QED BY <2>1, <2>2, <2>3
<1>7. ASSUME NEW s \in Runs
      PROVE  (IF claim'[s] = NoClaim THEN NoClaim ELSE claim'[s].task)
               = IF s = r THEN t ELSE IF claim[s] = NoClaim THEN NoClaim ELSE claim[s].task
  BY <1>1, <1>4, QueueAssumption
<1>8. PICK T \in SUBSET Tasks : T = Exhausted
  BY DEF Exhausted
<1>9. Ownership!Grant(t, r, T)
  BY <1>3, <1>4, <1>5, <1>6, <1>7, <1>8, ExhaustedIsUnowned
    DEF Ownership!Grant, Ownership!GivenUp, Held
<1> QED BY <1>9

LEMMA ParkingIsGiveUp ==
  ASSUME NoWorker \notin Runs, QueueInv, QueueInv', OwnersAre, OwnersAre',
         NEW r \in Runs, ClaimNothing(r)
  PROVE  Ownership!GiveUp(Exhausted)
<1>1. status' = ParkedStatus /\ lockedBy' = ParkedLocks /\ lease' = ParkedLeases
      /\ attempts' = attempts /\ claim' = claim /\ Exhausted # {}
  BY DEF ClaimNothing
<1>2. ASSUME NEW u \in Tasks
      PROVE  PhaseOf(u)' = IF u \in Exhausted THEN "closed" ELSE PhaseOf(u)
  BY <1>1, ExhaustedIsUnowned DEF PhaseOf, ParkedStatus
<1>3. ASSUME NEW u \in Tasks PROVE OwnerOf(u)' = OwnerOf(u)
  <2>1. CASE u \in Exhausted
    <3>1. status'[u] = "failed" /\ OwnerOf(u) = NoWorker
      BY <1>1, <2>1, ExhaustedIsUnowned DEF ParkedStatus, Ownership!Unowned
    <3> QED BY <3>1, NoOwnerNext
  <2>2. CASE u \notin Exhausted
    <3>1. status'[u] = status[u] /\ lockedBy'[u] = lockedBy[u] /\ lease'[u] = lease[u]
      BY <1>1, <2>2 DEF ParkedStatus, ParkedLocks, ParkedLeases
    <3> QED BY <1>1, <3>1, ElsewhereSame
  <2> QED BY <2>1, <2>2
<1> QED BY <1>1, <1>2, <1>3, ExhaustedIsUnowned DEF Ownership!GiveUp, Ownership!GivenUp, Held

\* The owner's word about its task: nobody owns the task after it.
LEMMA OutcomeFrees ==
  ASSUME NoWorker \notin Runs, QueueInv, OwnersAre, OwnersAre', NEW r \in Runs, Owns(r), EndRun(r),
         NEW st, st # "running", status' = [status EXCEPT ![Held(r)] = st],
         \A t \in Tasks \ {Held(r)} :
           lease'[t] = lease[t] /\ attempts'[t] = attempts[t] /\ lockedBy'[t] = lockedBy[t]
  PROVE  /\ Held(r) \in Tasks /\ OwnerOf(Held(r)) = r /\ EngagedMap[r] = Held(r)
         /\ \A t \in Tasks : OwnerOf(t)' = IF t = Held(r) THEN NoWorker ELSE OwnerOf(t)
         /\ EngagedMap' = [EngagedMap EXCEPT ![r] = NoClaim]
         /\ \A t \in Tasks \ {Held(r)} : PhaseOf(t)' = PhaseOf(t)
<1>1. /\ status \in [Tasks -> Statuses] /\ claim \in [Runs -> Claims \cup {NoClaim}]
      /\ claim[r] # NoClaim /\ Held(r) \in Tasks
  BY OwnerToken DEF QueueInv, TypeOK, Owns
<1>2. OwnerOf(Held(r)) = r /\ EngagedMap[r] = Held(r)
  BY <1>1 DEF OwnersAre, Mine, EngagedMap
<1>3. ASSUME NEW t \in Tasks PROVE OwnerOf(t)' = IF t = Held(r) THEN NoWorker ELSE OwnerOf(t)
  <2>1. CASE t = Held(r)
    BY <1>1, <2>1, NoOwnerNext
  <2>2. CASE t # Held(r)
    <3>1. ASSUME NEW s \in Runs PROVE claim'[s] = claim[s] \/ ~(Mine(s, t) \/ Mine(s, t)')
      BY <1>1, <2>2 DEF EndRun, Mine, Owns, Held
    <3> QED BY <1>1, <2>2, <3>1, ElsewhereSame
  <2> QED BY <2>1, <2>2
<1>4. EngagedMap' = [EngagedMap EXCEPT ![r] = NoClaim]
  BY <1>1 DEF EngagedMap, EndRun, Held
<1>5. \A t \in Tasks \ {Held(r)} : PhaseOf(t)' = PhaseOf(t)
  BY <1>1 DEF PhaseOf
<1> QED BY <1>1, <1>2, <1>3, <1>4, <1>5

LEMMA OutcomeIsTheOwners ==
  ASSUME NoWorker \notin Runs, QueueInv, OwnersAre, OwnersAre', NEW r \in Runs,
         \/ CompleteTask(r) \/ GiveBack(r)
         \/ \E limit \in {0, FailLimit} : FailTask(r, limit)
  PROVE  \E t \in Tasks : Ownership!Close(t, r) \/ Ownership!Return(t, r)
<1>1. PICK t \in Tasks : Owns(r) /\ t = Held(r) /\ status[t] = "running"
  BY OwnerToken DEF CompleteTask, FailTask, GiveBack, Owns
<1>2. PICK st \in {"pending", "done", "failed"} :
        status' = [status EXCEPT ![t] = st] /\ EndRun(r)
  BY <1>1 DEF CompleteTask, FailTask, GiveBack
<1>3. \A u \in Tasks \ {t} :
        lease'[u] = lease[u] /\ attempts'[u] = attempts[u] /\ lockedBy'[u] = lockedBy[u]
  BY <1>1 DEF CompleteTask, FailTask, GiveBack, QueueInv, TypeOK
<1>4. /\ OwnerOf(t) = r /\ EngagedMap[r] = t
      /\ \A u \in Tasks : OwnerOf(u)' = IF u = t THEN NoWorker ELSE OwnerOf(u)
      /\ EngagedMap' = [EngagedMap EXCEPT ![r] = NoClaim]
      /\ \A u \in Tasks \ {t} : PhaseOf(u)' = PhaseOf(u)
  BY <1>1, <1>2, <1>3, OutcomeFrees
<1>5. PhaseOf(t) = "open" /\ PhaseOf(t)' = IF st = "pending" THEN "open" ELSE "closed"
  BY <1>1, <1>2 DEF PhaseOf, QueueInv, TypeOK
<1>6. /\ PhaseMap' = [PhaseMap EXCEPT ![t] = IF st = "pending" THEN "open" ELSE "closed"]
      /\ OwnerMap' = [OwnerMap EXCEPT ![t] = NoWorker]
      /\ st = "pending" => PhaseMap' = PhaseMap
  BY <1>4, <1>5 DEF PhaseMap, OwnerMap
<1>7. OwnerMap[t] = r
  BY <1>4 DEF OwnerMap
<1>8. CASE st = "pending"
  <2>1. Ownership!Return(t, r)
    BY <1>4, <1>6, <1>7, <1>8 DEF Ownership!Return, PhaseMap, OwnerMap, EngagedMap
  <2> QED BY <2>1
<1>9. CASE st # "pending"
  <2>1. Ownership!Close(t, r)
    BY <1>4, <1>6, <1>7, <1>9 DEF Ownership!Close, PhaseMap, OwnerMap, EngagedMap
  <2> QED BY <2>1
<1> QED BY <1>8, <1>9

\* A run gone without a word leaves its task to nobody.
LEMMA GoneIsVanished ==
  ASSUME NoWorker \notin Runs, NoClaim \notin Tasks, QueueInv, OwnersAre, OwnersAre',
         NEW r \in Runs, ClaimOwnershipLost(r) \/ Crash(r)
  PROVE  Ownership!Vanish(r)
<1>1. /\ claim \in [Runs -> Claims \cup {NoClaim}] /\ claim[r] # NoClaim
      /\ claim' = [claim EXCEPT ![r] = NoClaim] /\ Held(r) \in Tasks
      /\ UNCHANGED taskVars
  BY OwnerToken DEF QueueInv, TypeOK, ClaimOwnershipLost, Crash, EndRun
<1>2. ASSUME NEW t \in Tasks
      PROVE  OwnerOf(t)' = IF OwnerOf(t) = r THEN NoWorker ELSE OwnerOf(t)
  <2>1. ASSUME NEW s \in Runs, s # r PROVE Mine(s, t)' <=> Mine(s, t)
    BY <1>1, <2>1 DEF Mine, Owns, Held, taskVars
  <2>2. ~Mine(r, t)'
    BY <1>1 DEF Mine, Owns
  <2> QED BY <2>1, <2>2 DEF OwnersAre
<1>3. \A t \in Tasks : PhaseOf(t)' = PhaseOf(t)
  BY <1>1 DEF PhaseOf, taskVars
<1>4. EngagedMap' = [EngagedMap EXCEPT ![r] = NoClaim] /\ EngagedMap[r] # NoClaim
  BY <1>1 DEF EngagedMap, Held
<1> QED BY <1>2, <1>3, <1>4 DEF Ownership!Vanish, EngagedMap

LEMMA TaskStepIsMapped ==
  ASSUME NoWorker \notin Runs, QueueInv, OwnersAre, OwnersAre', NEW t \in Tasks, TaskStep(t)
  PROVE  \/ Ownership!Offer(t) \/ Ownership!GiveUp({t}) \/ Ownership!Lapse(t)
         \/ UNCHANGED Ownership!vars
<1>1. /\ status \in [Tasks -> Statuses] /\ lease \in [Tasks -> 0..LeaseTicks]
      /\ UNCHANGED <<attempts, lockedBy, claim>>
  BY DEF QueueInv, TypeOK, TaskStep, Enqueue, Cancel, DueNow, LeaseTick
<1>2. EngagedMap' = EngagedMap
  BY <1>1 DEF EngagedMap, Held
<1>3. ASSUME NEW u \in Tasks, status'[u] = status[u], (lease'[u] > 0) <=> (lease[u] > 0)
      PROVE  OwnerOf(u)' = OwnerOf(u) /\ PhaseOf(u)' = PhaseOf(u)
  BY <1>1, <1>3, ElsewhereSame DEF PhaseOf
<1>4. ASSUME NEW now \in BOOLEAN, Enqueue(t, now) PROVE Ownership!Offer(t)
  <2>1. lease' = lease /\ status' = [status EXCEPT ![t] = "pending"] /\ status[t] = "absent"
    BY <1>4 DEF Enqueue
  <2>2. OwnerOf(t) = NoWorker /\ OwnerOf(t)' = NoWorker
    BY <1>1, <2>1, NoOwner, NoOwnerNext
  <2>3. OwnerMap' = OwnerMap
    BY <1>1, <1>3, <2>1, <2>2 DEF OwnerMap
  <2>4. PhaseMap[t] = "absent" /\ PhaseMap' = [PhaseMap EXCEPT ![t] = "open"]
    BY <1>1, <1>3, <2>1 DEF PhaseMap, PhaseOf
  <2> QED BY <1>2, <2>3, <2>4 DEF Ownership!Offer, PhaseMap, OwnerMap, EngagedMap
<1>5. ASSUME Cancel(t) PROVE Ownership!GiveUp({t})
  <2>1. lease' = lease /\ status' = [status EXCEPT ![t] = "cancelled"] /\ status[t] = "pending"
    BY <1>5 DEF Cancel
  <2>2. OwnerOf(t) = NoWorker /\ OwnerOf(t)' = NoWorker
    BY <1>1, <2>1, NoOwner, NoOwnerNext
  <2>3. OwnerMap' = OwnerMap
    BY <1>1, <1>3, <2>1, <2>2 DEF OwnerMap
  <2>4. PhaseOf(t) = "open" /\ PhaseMap' = [u \in Tasks |-> IF u \in {t} THEN "closed" ELSE PhaseMap[u]]
    BY <1>1, <1>3, <2>1 DEF PhaseMap, PhaseOf
  <2>5. {t} \subseteq Ownership!Unowned
    BY <2>2, <2>4 DEF Ownership!Unowned
  <2> QED BY <1>2, <2>3, <2>4, <2>5
    DEF Ownership!GiveUp, Ownership!GivenUp, PhaseMap, OwnerMap, EngagedMap
<1>6. ASSUME DueNow(t) PROVE UNCHANGED Ownership!vars
  <2>1. PhaseMap' = PhaseMap /\ OwnerMap' = OwnerMap
    BY <1>3, <1>6 DEF DueNow, PhaseMap, OwnerMap
  <2> QED BY <1>2, <2>1 DEF Ownership!vars, PhaseMap, OwnerMap, EngagedMap
<1>7. ASSUME LeaseTick(t) PROVE Ownership!Lapse(t) \/ UNCHANGED Ownership!vars
  <2>1. status' = status /\ lease[t] > 0 /\ lease' = [lease EXCEPT ![t] = @ - 1]
    BY <1>7 DEF LeaseTick
  <2>2. PhaseMap' = PhaseMap
    BY <2>1 DEF PhaseMap, PhaseOf
  <2>3. \A u \in Tasks \ {t} : OwnerOf(u)' = OwnerOf(u)
    BY <1>1, <1>3, <2>1
  <2>4. CASE OwnerOf(t)' = OwnerOf(t)
    <3>1. OwnerMap' = OwnerMap
      BY <2>3, <2>4 DEF OwnerMap
    <3> QED BY <1>2, <2>2, <3>1 DEF Ownership!vars, PhaseMap, OwnerMap, EngagedMap
  <2>5. CASE OwnerOf(t)' # OwnerOf(t)
    <3>1. ~(lease'[t] > 0)
      BY <1>1, <1>3, <2>1, <2>5
    <3>2. OwnerOf(t)' = NoWorker
      BY <3>1, NoOwnerNext
    <3>3. OwnerMap[t] # NoWorker
      BY <2>5, <3>2 DEF OwnerMap
    <3>4. OwnerMap' = [OwnerMap EXCEPT ![t] = NoWorker]
      BY <2>3, <3>2 DEF OwnerMap
    <3> QED BY <1>2, <2>2, <3>3, <3>4 DEF Ownership!Lapse, PhaseMap, OwnerMap, EngagedMap
  <2> QED BY <2>4, <2>5
<1> QED BY <1>4, <1>5, <1>6, <1>7 DEF TaskStep

LEMMA RenewalIsStutter ==
  ASSUME NoWorker \notin Runs, QueueInv, OwnersAre, OwnersAre', NEW r \in Runs, RenewLease(r)
  PROVE  UNCHANGED Ownership!vars
<1>1. ASSUME NEW u \in Tasks PROVE (lease'[u] > 0) <=> (lease[u] > 0)
  BY QueueAssumption DEF RenewLease, Owns, Held, QueueInv, TypeOK
<1>2. ASSUME NEW u \in Tasks PROVE OwnerOf(u)' = OwnerOf(u) /\ PhaseOf(u)' = PhaseOf(u)
  BY <1>1, ElsewhereSame DEF RenewLease, PhaseOf
<1>3. EngagedMap' = EngagedMap
  BY DEF EngagedMap, Held, RenewLease
<1> QED BY <1>2, <1>3 DEF Ownership!vars, EngagedMap

LEMMA StepIsMapped ==
  ASSUME NoWorker \notin Runs, NoClaim \notin Tasks
  PROVE  QueueInv /\ QueueInv' /\ OwnersAre /\ OwnersAre' /\ [QueueNext]_queueVars
           => [Ownership!Next]_(Ownership!vars)
<1> SUFFICES ASSUME QueueInv, QueueInv', OwnersAre, OwnersAre', [QueueNext]_queueVars
             PROVE  [Ownership!Next]_(Ownership!vars)
  OBVIOUS
<1>1. ASSUME NEW r \in Runs, RunStep(r) PROVE [Ownership!Next]_(Ownership!vars)
  <2>1. ASSUME NEW t \in Tasks, ClaimTask(r, t) PROVE Ownership!Next
    BY <2>1, ClaimIsGrant DEF Ownership!Next
  <2>2. ASSUME ClaimNothing(r) PROVE Ownership!Next
    BY <2>2, ParkingIsGiveUp DEF Ownership!Next, Exhausted
  <2>3. ASSUME \/ CompleteTask(r) \/ ReleaseTask(r) \/ DeferTask(r)
               \/ \E limit \in {0, FailLimit} : FailTask(r, limit)
        PROVE  Ownership!Next
    BY <2>3, OutcomeIsTheOwners DEF ReleaseTask, DeferTask, Ownership!Next
  <2>4. ASSUME ClaimOwnershipLost(r) \/ Crash(r) PROVE Ownership!Next
    BY <2>4, GoneIsVanished DEF Ownership!Next
  <2> QED BY <1>1, <2>1, <2>2, <2>3, <2>4, RenewalIsStutter DEF RunStep
<1>2. ASSUME NEW t \in Tasks, TaskStep(t) PROVE [Ownership!Next]_(Ownership!vars)
  BY <1>2, TaskStepIsMapped DEF Ownership!Next
<1>3. ASSUME UNCHANGED queueVars PROVE UNCHANGED Ownership!vars
  BY <1>3 DEF queueVars, Ownership!vars, PhaseOf, OwnerOf, Owns, Held
<1> QED BY <1>1, <1>2, <1>3 DEF QueueNext

LEMMA InitIsMapped == QueueInit => Ownership!Init
BY DEF QueueInit, Ownership!Init, PhaseOf, OwnerOf, Owns, Held

\* JobQueue's ImplementsOwnership: leases, tokens, retries, releases and
\* deferrals amount to a task having one owner at a time, and only the owner
\* saying what became of it.
THEOREM QueueImplementsOwnership ==
  ASSUME NoWorker \notin Runs, NoClaim \notin Tasks
  PROVE  QueueSpec => ImplementsOwnership
<1>1. QueueInv => OwnersAre
  BY OwnersKnown
<1> QED BY <1>1, InitIsMapped, StepIsMapped, QueueInvariant, PTL
  DEF QueueSpec, ImplementsOwnership, Ownership!Spec
=============================================================================
