----------------------------- MODULE CrawlTicks -----------------------------
(***************************************************************************)
(* The dispatching crawl: a tick that reschedules itself                   *)
(* (apps/worker/crawl_job.py), opens a crawl run, queues one task per      *)
(* company that is owed a poll (packages/crawler/dispatch.py), and the     *)
(* company tasks that fold their outcome into the run and close it         *)
(* (apps/worker/crawl_company_job.py, packages/crawler/runs.py).           *)
(*                                                                         *)
(* JobQueue gives the tasks and the claims.  A handler's writes and the    *)
(* completion of its task are one transaction, so they happen only under   *)
(* the claim; what a tick reads, it reads before.  Time is two facts per   *)
(* company: its next_due_at has come, and its poll interval has passed.    *)
(***************************************************************************)
EXTENDS JobQueue, FiniteSetsExt, Functions

CONSTANTS
  Companies,    \* rows of companies with a verified board
  CrawlRuns,    \* rows of crawl_runs there is room for
  Limit,        \* crawler_dispatch_batch
  Backlogs,     \* what crawler_max_backlog may be set to
  MaxFaults,    \* bound on crashes, errors, deferrals, and leases lapsing under a run
  NoRun, NoCompany

ASSUME CrawlAssumption ==
  /\ IsFiniteSet(Tasks) /\ IsFiniteSet(Companies) /\ IsFiniteSet(CrawlRuns)
  /\ Limit \in Nat \ {0} /\ Backlogs \subseteq Nat \ {0} /\ MaxFaults \in Nat
  /\ NoRun \notin CrawlRuns /\ NoCompany \notin Companies

VARIABLES
  job,       \* the kind and payload of a task
  owed,      \* the companies a tick has read as due
  place,     \* where an execution is
  run,       \* crawl_runs: status, companies_total, companies reported
  pollDue,   \* company_crawl_states.next_due_at has come, or is NULL
  elapsed,   \* is_due: poll_interval_s has passed since last_polled_at
  swept,     \* history: a repeating tick was queued
  lost,      \* history: the company tasks of a run that ended without a report
  maxBacklog, \* crawler_max_backlog
  faults

crawlVars == <<job, owed, place, run, pollDue, elapsed, swept>>
vars == <<queueVars, crawlVars, lost, maxBacklog, faults>>

Jobs ==
  [kind : {"none", "tick", "seeds", "company"},
   company : Companies \cup {NoCompany}, run : CrawlRuns \cup {NoRun}, force : BOOLEAN]
Job(kind, c, k, force) == [kind |-> kind, company |-> c, run |-> k, force |-> force]
NoJob == Job("none", NoCompany, NoRun, FALSE)
Total == 0..Cardinality(Companies)

CrawlTypeOK ==
  /\ TypeOK
  /\ job \in [Tasks -> Jobs]
  /\ owed \in [Runs -> SUBSET Companies]
  /\ place \in [Runs -> {"idle", "claimed", "sweeping"}]
  /\ run \in [CrawlRuns -> [status : {"absent", "running", "completed"},
                            total : Total, reported : Total]]
  /\ pollDue \in [Companies -> BOOLEAN] /\ elapsed \in [Companies -> BOOLEAN]
  /\ swept \in BOOLEAN /\ lost \in [CrawlRuns -> Total] /\ maxBacklog \in Backlogs /\ faults \in 0..MaxFaults

CrawlInit ==
  /\ QueueInit
  /\ job = [t \in Tasks |-> NoJob]
  /\ owed = [r \in Runs |-> {}]
  /\ place = [r \in Runs |-> "idle"]
  /\ run = [k \in CrawlRuns |-> [status |-> "absent", total |-> 0, reported |-> 0]]
  /\ pollDue = [c \in Companies |-> TRUE]
  /\ elapsed = [c \in Companies |-> TRUE]
  /\ swept = FALSE /\ lost = [k \in CrawlRuns |-> 0]
  /\ maxBacklog \in Backlogs /\ faults = 0

Unfinished(kinds) ==
  {t \in Tasks : status[t] \in {"pending", "running"} /\ job[t].kind \in kinds}

-----------------------------------------------------------------------------
(* The owner, and the clock.                                               *)

\* request_crawl: a sweep of the companies, or of the seed file.
RequestCrawl(t, kind, force) ==
  /\ Unfinished({"tick", "seeds"}) = {}
  /\ Enqueue(t, TRUE)
  /\ job' = [job EXCEPT ![t] = Job(kind, NoCompany, NoRun, force)]
  /\ swept' = (swept \/ kind = "tick")
  /\ UNCHANGED <<owed, place, run, pollDue, elapsed, faults>>

IntervalPasses(c) ==
  /\ ~elapsed[c]
  /\ elapsed' = [elapsed EXCEPT ![c] = TRUE]
  /\ UNCHANGED <<queueVars, job, owed, place, run, pollDue, swept, faults>>

\* next_due_at is never earlier than an interval after the last poll.
NextDue(c) ==
  /\ ~pollDue[c] /\ elapsed[c]
  /\ pollDue' = [pollDue EXCEPT ![c] = TRUE]
  /\ UNCHANGED <<queueVars, job, owed, place, run, elapsed, swept, faults>>

-----------------------------------------------------------------------------
(* The tick.                                                               *)

Fault == faults < MaxFaults /\ faults' = faults + 1

\* Neither kind of crawl task can be cancelled; a company's can.
CancelCompany(t) ==
  /\ job[t].kind = "company" /\ Cancel(t) /\ Fault
  /\ UNCHANGED crawlVars

Leave(r) ==
  /\ place' = [place EXCEPT ![r] = "idle"]
  /\ owed' = [owed EXCEPT ![r] = {}]

\* Mutant: the batch is not cut to the room the backlog leaves.
RoomForBatch == Limit

\* How many companies a tick may still queue.
Room == LET backlog == Cardinality(Unfinished({"company"})) IN
        IF backlog >= maxBacklog THEN 0 ELSE Min({Limit, maxBacklog - backlog})

\* due_for_dispatch: what is owed, or with force everything, cut to the room.
Sweep(r) ==
  /\ place[r] = "claimed" /\ claim[r] # NoClaim /\ job[Held(r)].kind = "tick"
  /\ LET due_ == {c \in Companies : job[Held(r)].force \/ pollDue[c]} IN
     \E s \in SUBSET due_ :
       /\ Cardinality(s) = Min({Room, Cardinality(due_)})
       /\ owed' = [owed EXCEPT ![r] = s]
  /\ place' = [place EXCEPT ![r] = "sweeping"]
  /\ UNCHANGED <<queueVars, job, run, pollDue, elapsed, swept, faults>>

\* Mutant: the guard counts the running tick, which is the caller's own.
NeedsSuccessorCountingOwn == Unfinished({"tick"}) = {}

\* _schedule_next_tick's guard: a waiting tick is all this ever needs.
NeedsSuccessor == {t \in Unfinished({"tick"}) : status[t] = "pending"} = {}

\* _claim: the companies' next poll moves out by one interval.
ClaimedCompanies(s) == pollDue' = [c \in Companies |-> pollDue[c] /\ c \notin s]

\* dispatch: a task for each company of the batch, under the run opened for
\* it; beside them the next tick, and the sweeping task is done.
Dispatched(r, task, next, k) ==
  /\ IsInjective(task)
  /\ Cardinality(next) = IF NeedsSuccessor THEN 1 ELSE 0
  /\ status' = [t \in Tasks |-> IF t = Held(r) THEN "done"
                                ELSE IF t \in next \cup Range(task) THEN "pending"
                                ELSE status[t]]
  /\ due' = [t \in Tasks |-> IF t \in next THEN FALSE
                             ELSE IF t \in Range(task) THEN TRUE ELSE due[t]]
  /\ job' = [t \in Tasks |->
       IF t \in next THEN Job("tick", NoCompany, NoRun, FALSE)
       ELSE IF t \in Range(task)
       THEN Job("company", CHOOSE c \in owed[r] : task[c] = t, k, job[Held(r)].force)
       ELSE job[t]]
  /\ run' = IF k = NoRun THEN run ELSE
       [run EXCEPT ![k] = [status |-> "running", total |-> Cardinality(owed[r]), reported |-> 0]]

\* The run, a task for each company, their claim, the next tick and the
\* completion become visible together.
CommitTick(r) ==
  /\ place[r] = "sweeping" /\ Owns(r)
  /\ LET absent == {t \in Tasks : status[t] = "absent"} IN
     \E task \in [owed[r] -> absent] :
     \E next \in SUBSET (absent \ Range(task)) :
     \E k \in IF owed[r] = {} THEN {NoRun} ELSE {k \in CrawlRuns : run[k].status = "absent"} :
       Dispatched(r, task, next, k)
  /\ ClaimedCompanies(owed[r])
  /\ lockedBy' = [lockedBy EXCEPT ![Held(r)] = NoWorker]
  /\ lease' = [lease EXCEPT ![Held(r)] = 0]
  /\ EndRun(r) /\ Leave(r)
  /\ UNCHANGED <<attempts, deferrals, elapsed, swept, faults>>

\* The seed file's cycle: it opens and closes a run of its own, and polls
\* every board that is due; an unreachable one is not stamped.
CommitSeeds(r) ==
  /\ place[r] = "claimed" /\ claim[r] # NoClaim /\ job[Held(r)].kind = "seeds"
  /\ CompleteTask(r) /\ Leave(r)
  /\ LET tried == {c \in Companies : job[Held(r)].force \/ elapsed[c]} IN
     \E reached \in SUBSET tried :
       /\ elapsed' = [c \in Companies |-> elapsed[c] /\ c \notin reached]
       /\ pollDue' = [c \in Companies |-> pollDue[c] /\ c \notin tried]
  /\ UNCHANGED <<job, run, swept, faults>>

-----------------------------------------------------------------------------
(* A company's task.                                                       *)

\* Mutant: closed as soon as anything was reported.
FoldedEarly(k) ==
  [run[k] EXCEPT !.reported = @ + 1, !.status = "completed"]

\* fold_into_run and close_if_complete.
Folded(k) ==
  LET n == run[k].reported + 1 IN
  [run[k] EXCEPT !.reported = n, !.status = IF n >= run[k].total THEN "completed" ELSE @]

\* A board that is not due is not asked; one that answers, well or badly, is
\* stamped; one that cannot be reached is only put off.
Report(r) ==
  /\ place[r] = "claimed" /\ claim[r] # NoClaim /\ job[Held(r)].kind = "company"
  /\ CompleteTask(r) /\ Leave(r)
  /\ LET j == job[Held(r)]
         c == j.company
         asked == j.force \/ elapsed[c]
     IN /\ \E answered \in BOOLEAN :
             elapsed' = [elapsed EXCEPT ![c] = @ /\ ~(asked /\ answered)]
        /\ pollDue' = [pollDue EXCEPT ![c] = @ /\ ~asked]
        /\ run' = [run EXCEPT ![j.run] = Folded(j.run)]
  /\ UNCHANGED <<job, swept, faults>>

\* defer_if_host_busy, before anything is fetched.
Defer(r) ==
  /\ place[r] = "claimed" /\ claim[r] # NoClaim /\ job[Held(r)].kind = "company"
  /\ DeferTask(r) /\ Leave(r)
  /\ Fault
  /\ UNCHANGED <<job, run, pollDue, elapsed, swept>>

-----------------------------------------------------------------------------
Claim(r) ==
  /\ place[r] = "idle"
  /\ \E t \in Tasks : ClaimTask(r, t)
  /\ place' = [place EXCEPT ![r] = "claimed"]
  /\ UNCHANGED <<job, owed, run, pollDue, elapsed, swept, faults>>

ParkSpentTasks(r) ==
  /\ place[r] = "idle" /\ ClaimNothing(r)
  /\ UNCHANGED <<crawlVars, faults>>

\* An error, the time limit, a board that is no longer crawlable.
HandlerError(r) ==
  /\ place[r] # "idle" /\ FailTask(r, FailLimit)
  /\ Fault
  /\ Leave(r) /\ UNCHANGED <<job, run, pollDue, elapsed, swept>>

LoseClaim(r) ==
  /\ ClaimOwnershipLost(r)
  /\ Leave(r) /\ UNCHANGED <<job, run, pollDue, elapsed, swept, faults>>

Die(r) ==
  /\ Crash(r) /\ Fault
  /\ Leave(r) /\ UNCHANGED <<job, run, pollDue, elapsed, swept>>

\* A lease that lapses under an execution still there is a fault.
Lapse(t) ==
  /\ LeaseTick(t) /\ UNCHANGED crawlVars
  /\ IF \E r \in Runs : Owns(r) /\ Held(r) = t THEN Fault ELSE UNCHANGED faults

ComeDue(t) == DueNow(t) /\ UNCHANGED <<crawlVars, faults>>

\* prune_finished, once no execution holds a claim of the row.
Prune(t) ==
  /\ status[t] \in Finished
  /\ \A r \in Runs : claim[r] # NoClaim => Held(r) # t
  /\ status' = [status EXCEPT ![t] = "absent"]
  /\ attempts' = [attempts EXCEPT ![t] = 0]
  /\ deferrals' = [deferrals EXCEPT ![t] = 0]
  /\ due' = [due EXCEPT ![t] = FALSE]
  /\ job' = [job EXCEPT ![t] = NoJob]
  /\ UNCHANGED <<lockedBy, lease, claim, owed, place, run, pollDue, elapsed, swept, faults>>

\* A company task that fails for good, is parked or is cancelled.
CountLost ==
  lost' = [k \in CrawlRuns |-> lost[k] +
             Cardinality({t \in Unfinished({"company"}) :
                            job[t].run = k /\ status'[t] \in {"failed", "cancelled"}})]

CrawlStep ==
  \/ \E t \in Tasks : \E force \in BOOLEAN :
       RequestCrawl(t, "tick", force) \/ RequestCrawl(t, "seeds", force)
  \/ \E t \in Tasks : CancelCompany(t) \/ Lapse(t) \/ ComeDue(t) \/ Prune(t)
  \/ \E c \in Companies : IntervalPasses(c) \/ NextDue(c)
  \/ \E r \in Runs : \/ Claim(r) \/ ParkSpentTasks(r)
                     \/ Sweep(r) \/ CommitTick(r) \/ CommitSeeds(r)
                     \/ Report(r) \/ Defer(r)
                     \/ HandlerError(r) \/ LoseClaim(r) \/ Die(r)

CrawlNext == CrawlStep /\ CountLost /\ UNCHANGED maxBacklog

CrawlSpec == CrawlInit /\ [][CrawlNext]_vars

-----------------------------------------------------------------------------
(* Properties.                                                             *)

\* routers/crawl.py: "the one-crawl-at-a-time guard": redelivered ticks,
\* successors and crawls asked for by hand never make two crawl tasks wait or
\* run at once.
OneCrawlAtATime == Cardinality(Unfinished({"tick", "seeds"})) <= 1

\* dispatch.py, max_backlog: no tick, late or redelivered, queues more company
\* tasks than the backlog has room for, though it counted before it commits.
BacklogBounded == Cardinality(Unfinished({"company"})) <= maxBacklog

\* The two bounds the queue is asked to keep.
QueueBounded == OneCrawlAtATime /\ BacklogBounded

ReportsStillDue(k) == Cardinality({t \in Unfinished({"company"}) : job[t].run = k})

\* close_if_complete: "finished once every dispatched company has reported".
\* Every company of a run has reported once, still has its one task, or lost
\* it; so no redelivery is counted twice, a run that lost nothing and is open
\* has a task that will report, and a completed run has none.
ReportsAddUp ==
  \A k \in CrawlRuns :
    /\ run[k].status # "absent" =>
         run[k].reported + ReportsStillDue(k) + lost[k] = run[k].total
    /\ run[k].status = "completed" => ReportsStillDue(k) = 0

\* The queue carries the schedule: once a repeating tick was queued there is a
\* crawl task waiting or running, unless one was lost to all its attempts.
SweepGoesOn ==
  [][swept /\ Unfinished({"tick", "seeds"}) # {} /\ Unfinished({"tick", "seeds"})' = {}
       => \E t \in Unfinished({"tick", "seeds"}) :
            status'[t] = "failed" \/ job[t].kind = "seeds"]_vars
=============================================================================
