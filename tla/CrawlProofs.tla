---------------------------- MODULE CrawlProofs ----------------------------
(***************************************************************************)
(* Proofs about CrawlTicks, for any companies, crawl runs, batch size,     *)
(* backlog and number of faults.                                           *)
(*                                                                         *)
(* One crawl at a time carries the rest: a tick that sweeps under a live   *)
(* claim is the only crawl task there is, so nothing is queued between its *)
(* count of the backlog and its commit, and a tick redelivered meanwhile   *)
(* takes the claim of the first away.  The reports add up because each     *)
(* task of a run that leaves the queue is counted exactly once, as         *)
(* reported or as lost.                                                    *)
(***************************************************************************)
EXTENDS CrawlTicks, JobQueueProofs, FiniteSetTheorems

RunRows == [status : {"absent", "running", "completed"}, total : Total, reported : Nat]

CrawlTypes ==
  /\ job \in [Tasks -> Jobs]
  /\ owed \in [Runs -> SUBSET Companies]
  /\ place \in [Runs -> {"idle", "claimed", "sweeping"}]
  /\ run \in [CrawlRuns -> RunRows]
  /\ pollDue \in [Companies -> BOOLEAN] /\ elapsed \in [Companies -> BOOLEAN]
  /\ swept \in BOOLEAN /\ lost \in [CrawlRuns -> Nat] /\ maxBacklog \in Backlogs /\ faults \in 0..MaxFaults

Open(t) == status[t] \in {"pending", "running"}
Crawling(t) == Open(t) /\ job[t].kind \in {"tick", "seeds"}
CompanyTasks == Unfinished({"company"})
TasksOf(k) == {t \in CompanyTasks : job[t].run = k}

\* No two crawl tasks wait or run.
OneCrawl == \A t, u \in Tasks : Crawling(t) /\ Crawling(u) => t = u

\* What sweeps is a tick, and what one will queue under its claim fits.
SweepInv ==
  \A r \in Runs : place[r] = "sweeping" =>
    /\ claim[r] # NoClaim /\ job[Held(r)].kind = "tick"
    /\ Owns(r) => Cardinality(owed[r]) + Cardinality(CompanyTasks) <= maxBacklog

BoundInv == OneCrawl /\ SweepInv /\ BacklogBounded

\* A run that is not open yet has no task and has lost none.
CountInv ==
  /\ ReportsAddUp
  /\ \A k \in CrawlRuns : run[k].status = "absent" => TasksOf(k) = {} /\ lost[k] = 0 /\ run[k].reported = 0

-----------------------------------------------------------------------------
(* Counting.                                                               *)

LEMMA LeastOfTwo ==
  ASSUME NEW x \in Nat, NEW y \in Nat
  PROVE  Min({x, y}) \in Nat /\ Min({x, y}) <= x /\ Min({x, y}) <= y
<1>1. \E z \in {x, y} : \A w \in {x, y} : z <= w
  OBVIOUS
<1>2. Min({x, y}) \in {x, y} /\ \A w \in {x, y} : Min({x, y}) <= w
  BY <1>1 DEF Min
<1> QED BY <1>2

\* What is split in two counts as its parts.
LEMMA PartsCount ==
  ASSUME NEW A, NEW B, NEW C, IsFiniteSet(A), A = B \cup C, B \cap C = {}
  PROVE  /\ IsFiniteSet(B) /\ IsFiniteSet(C)
         /\ Cardinality(B) \in Nat /\ Cardinality(C) \in Nat
         /\ Cardinality(A) = Cardinality(B) + Cardinality(C)
<1>1. B \in SUBSET A /\ C \in SUBSET A
  OBVIOUS
<1>2. IsFiniteSet(B) /\ IsFiniteSet(C)
  BY <1>1, FS_Subset
<1>3. Cardinality(B) \in Nat /\ Cardinality(C) \in Nat
  BY <1>2, FS_CardinalityType
<1>4. Cardinality(A) = Cardinality(B) + Cardinality(C) - Cardinality({})
  BY <1>2, FS_Union
<1> QED BY <1>2, <1>3, <1>4, FS_EmptySet

\* An injection's range has as many elements as its domain.
LEMMA RangeCounts ==
  ASSUME NEW S, NEW T, IsFiniteSet(S), NEW f \in [S -> T], IsInjective(f)
  PROVE  IsFiniteSet(Range(f)) /\ Cardinality(Range(f)) = Cardinality(S)
<1>1. f \in Surjection(S, Range(f))
  BY DEF Surjection, Range
<1>2. f \in Injection(S, Range(f))
  BY <1>1 DEF Injection, IsInjective, Range
<1> QED BY <1>1, <1>2, FS_Surjection

\* Tasks are few, so any of them can be counted.
LEMMA TasksAreCounted ==
  ASSUME NEW S \in SUBSET Tasks
  PROVE  IsFiniteSet(S) /\ Cardinality(S) \in Nat
BY CrawlAssumption, FS_Subset, FS_CardinalityType

-----------------------------------------------------------------------------
(* What a tick commits, its tasks named.                                   *)

TickWrites(r, new, next, k) ==
  /\ new \cap next = {} /\ \A t \in new \cup next : status[t] = "absent"
  /\ Cardinality(new) = Cardinality(owed[r])
  /\ Cardinality(next) = IF NeedsSuccessor THEN 1 ELSE 0
  /\ k = NoRun => owed[r] = {}
  /\ k # NoRun => run[k].status = "absent"
  /\ status' = [t \in Tasks |-> IF t = Held(r) THEN "done"
                                ELSE IF t \in next \cup new THEN "pending" ELSE status[t]]
  /\ job' \in [Tasks -> Jobs]
  /\ \A t \in next : job'[t].kind = "tick"
  /\ \A t \in new : job'[t].kind = "company" /\ job'[t].run = k
  /\ \A t \in Tasks \ (new \cup next) : job'[t] = job[t]
  /\ run' = IF k = NoRun THEN run ELSE
              [run EXCEPT ![k] = [status |-> "running", total |-> Cardinality(owed[r]), reported |-> 0]]

LEMMA TickCommits ==
  ASSUME QueueInv, CrawlTypes, NEW r \in Runs, CommitTick(r)
  PROVE  \E new, next \in SUBSET Tasks : \E k \in CrawlRuns \cup {NoRun} : TickWrites(r, new, next, k)
<1> DEFINE absent == {t \in Tasks : status[t] = "absent"}
<1>1. PICK task, next, k :
       /\ task \in [owed[r] -> absent] /\ next \in SUBSET (absent \ Range(task))
       /\ k \in IF owed[r] = {} THEN {NoRun} ELSE {j \in CrawlRuns : run[j].status = "absent"}
       /\ Dispatched(r, task, next, k)
  BY DEF CommitTick
<1> DEFINE new == Range(task)
<1>2. owed[r] \subseteq Companies /\ IsFiniteSet(owed[r])
  BY CrawlAssumption, FS_Subset DEF CrawlTypes
<1>3. Cardinality(new) = Cardinality(owed[r])
  BY <1>1, <1>2, RangeCounts DEF Dispatched
<1>4. new \subseteq absent /\ next \subseteq absent /\ new \cap next = {}
  BY <1>1 DEF Range
<1>5. Held(r) \in Tasks /\ job[Held(r)].force \in BOOLEAN
  BY OwnerToken DEF CommitTick, Owns, CrawlTypes, Jobs
<1>6. k \in CrawlRuns \cup {NoRun} /\ (k = NoRun => owed[r] = {})
      /\ (k # NoRun => run[k].status = "absent")
  BY <1>1, CrawlAssumption
<1>7. ASSUME NEW t \in new
      PROVE  job'[t].kind = "company" /\ job'[t].run = k /\ job'[t] \in Jobs
  <2>1. (CHOOSE c \in owed[r] : task[c] = t) \in Companies
    BY <1>1, <1>2, <1>7 DEF Range
  <2>2. job'[t] = Job("company", CHOOSE c \in owed[r] : task[c] = t, k, job[Held(r)].force)
    BY <1>1, <1>4, <1>7 DEF Dispatched
  <2> QED BY <1>5, <1>6, <2>1, <2>2 DEF Job, Jobs
<1>8. ASSUME NEW t \in next
      PROVE  job'[t].kind = "tick" /\ job'[t] \in Jobs
  BY <1>1, <1>4, <1>8 DEF Dispatched, Job, Jobs
<1>9. \A t \in Tasks \ (new \cup next) : job'[t] = job[t]
  BY <1>1 DEF Dispatched
<1>10. job' \in [Tasks -> Jobs]
  <2>1. \A t \in Tasks : job'[t] \in Jobs
    BY <1>7, <1>8, <1>9 DEF CrawlTypes
  <2>2. DOMAIN job' = Tasks /\ job' = [t \in DOMAIN job' |-> job'[t]]
    BY <1>1 DEF Dispatched
  <2> QED BY <2>1, <2>2
<1>11. new \in SUBSET Tasks /\ next \in SUBSET Tasks
  BY <1>4
<1>12. TickWrites(r, new, next, k)
  <2> HIDE DEF new
  <2> QED BY <1>1, <1>3, <1>4, <1>6, <1>7, <1>8, <1>9, <1>10, <1>11 DEF Dispatched, TickWrites, new
<1> QED BY <1>6, <1>11, <1>12

-----------------------------------------------------------------------------
(* The queue.                                                              *)

\* A crawl takes the steps of the queue, but for a tick's commit and the
\* pruning.
LEMMA StepsTheCrawlQueue ==
  ASSUME [CrawlNext]_vars, \A t \in Tasks : ~Prune(t), \A r \in Runs : ~CommitTick(r)
  PROVE  [QueueNext]_queueVars
<1>1. CASE UNCHANGED vars
  BY <1>1 DEF vars
<1>2. ASSUME NEW t \in Tasks, NEW kind, NEW force, RequestCrawl(t, kind, force) PROVE QueueNext
  BY <1>2 DEF RequestCrawl, QueueNext, TaskStep
<1>3. ASSUME NEW t \in Tasks, CancelCompany(t) \/ Lapse(t) \/ ComeDue(t) PROVE QueueNext
  BY <1>3 DEF CancelCompany, Lapse, ComeDue, QueueNext, TaskStep
<1>4. ASSUME NEW c \in Companies, IntervalPasses(c) \/ NextDue(c) PROVE UNCHANGED queueVars
  BY <1>4 DEF IntervalPasses, NextDue
<1>5. ASSUME NEW r \in Runs, Sweep(r) PROVE UNCHANGED queueVars
  BY <1>5 DEF Sweep
<1>6. ASSUME NEW r \in Runs, Claim(r) \/ ParkSpentTasks(r) \/ HandlerError(r) PROVE QueueNext
  BY <1>6 DEF Claim, ParkSpentTasks, HandlerError, QueueNext, RunStep
<1>7. ASSUME NEW r \in Runs, CommitSeeds(r) \/ Report(r) \/ Defer(r) \/ LoseClaim(r) \/ Die(r) PROVE QueueNext
  BY <1>7 DEF CommitSeeds, Report, Defer, LoseClaim, Die, QueueNext, RunStep
<1> QED BY <1>1, <1>2, <1>3, <1>4, <1>5, <1>6, <1>7 DEF CrawlNext, CrawlStep

LEMMA PruningKeepsQueue ==
  ASSUME QueueInv, NEW t \in Tasks, Prune(t)
  PROVE  QueueInv'
<1>1. TypeOK'
  BY QueueAssumption DEF QueueInv, TypeOK, Prune, Statuses
<1>2. ASSUME NEW r \in Runs, claim[r] # NoClaim
      PROVE  status'[Held(r)] = status[Held(r)] /\ attempts'[Held(r)] = attempts[Held(r)]
  BY <1>2, OwnerToken DEF Prune, QueueInv, TypeOK
<1>3. TokenInv'
  BY <1>2 DEF QueueInv, TypeOK, TokenInv, TokensDistinct, TokensBehindCounter, Held, Claims, Prune
<1> QED BY <1>1, <1>3 DEF QueueInv

LEMMA CommitKeepsQueue ==
  ASSUME QueueInv, CrawlTypes, NEW r \in Runs, CommitTick(r)
  PROVE  QueueInv'
<1>1. PICK new \in SUBSET Tasks, next \in SUBSET Tasks, k \in CrawlRuns \cup {NoRun} :
        TickWrites(r, new, next, k)
  BY TickCommits
<1>2. /\ status' = [t \in Tasks |-> IF t = Held(r) THEN "done"
                                    ELSE IF t \in next \cup new THEN "pending" ELSE status[t]]
      /\ EndRun(r) /\ UNCHANGED <<attempts, deferrals>>
  BY <1>1 DEF TickWrites, CommitTick
<1>3. due' \in [Tasks -> BOOLEAN]
  <2>1. PICK task, after, j : Dispatched(r, task, after, j)
    BY DEF CommitTick
  <2> QED BY <2>1 DEF Dispatched, QueueInv, TypeOK
<1>4. TypeOK'
  <2>1. status' \in [Tasks -> Statuses]
    BY <1>2 DEF QueueInv, TypeOK, Statuses, Finished
  <2>2. lockedBy' \in [Tasks -> Workers \cup {NoWorker}]
    BY DEF CommitTick, QueueInv, TypeOK
  <2>3. lease' \in [Tasks -> 0..LeaseTicks]
    <3>1. 0 \in 0..LeaseTicks
      BY QueueAssumption
    <3>2. lease' = [lease EXCEPT ![Held(r)] = 0]
      BY DEF CommitTick
    <3> QED BY <3>1, <3>2 DEF QueueInv, TypeOK
  <2>4. claim' \in [Runs -> Claims \cup {NoClaim}]
    BY <1>2 DEF EndRun, QueueInv, TypeOK
  <2> QED BY <1>2, <1>3, <2>1, <2>2, <2>3, <2>4 DEF QueueInv, TypeOK
<1>5. \A t \in Tasks : status'[t] = "absent" => status[t] = "absent"
  BY <1>2
<1>6. TokenInv'
  BY <1>2, <1>5, TokenDropped
<1> QED BY <1>4, <1>6 DEF QueueInv

LEMMA StepKeepsCrawlQueue ==
  ASSUME QueueInv, CrawlTypes, [CrawlNext]_vars
  PROVE  QueueInv'
BY StepsTheCrawlQueue, StepKeepsQueueInv, PruningKeepsQueue, CommitKeepsQueue

-----------------------------------------------------------------------------
(* Types.                                                                  *)

LEMMA FoldedIs ==
  ASSUME CrawlTypes, NEW k \in CrawlRuns
  PROVE  /\ run[k].reported \in Nat /\ run[k].total \in Nat /\ run[k].total \in Total
         /\ run[k].status \in {"absent", "running", "completed"}
         /\ Folded(k) = [status |-> IF run[k].reported + 1 >= run[k].total THEN "completed" ELSE run[k].status,
                         total |-> run[k].total, reported |-> run[k].reported + 1]
<1>1. run[k] \in RunRows
  BY DEF CrawlTypes
<1>2. PICK b : b = run[k]
  OBVIOUS
<1>3. Folded(k) = [b EXCEPT !.reported = b.reported + 1,
                            !.status = IF b.reported + 1 >= b.total THEN "completed" ELSE @]
  BY <1>2 DEF Folded
<1>4. b = [status |-> b.status, total |-> b.total, reported |-> b.reported]
  BY <1>1, <1>2 DEF RunRows
<1>5. Folded(k) = [status |-> IF b.reported + 1 >= b.total THEN "completed" ELSE b.status,
                   total |-> b.total, reported |-> b.reported + 1]
  BY <1>3, <1>4
<1>6. Total \subseteq Nat
  BY DEF Total
<1> QED BY <1>1, <1>2, <1>5, <1>6 DEF RunRows

\* A task's place, its owner's list and the faults are kept by what ends it.
LEMMA LeavingKeepsCrawl ==
  ASSUME CrawlTypes, NEW r \in Runs, Leave(r)
  PROVE  owed' \in [Runs -> SUBSET Companies] /\ place' \in [Runs -> {"idle", "claimed", "sweeping"}]
BY DEF CrawlTypes, Leave

LEMMA FaultsAreFew ==
  ASSUME CrawlTypes, Fault \/ UNCHANGED faults
  PROVE  faults' \in 0..MaxFaults
BY CrawlAssumption DEF CrawlTypes, Fault

LEMMA LostIsCounted ==
  ASSUME CrawlTypes, CountLost
  PROVE  lost' \in [CrawlRuns -> Nat]
<1>1. ASSUME NEW k \in CrawlRuns
      PROVE  lost[k] + Cardinality({t \in Unfinished({"company"}) :
                                      job[t].run = k /\ status'[t] \in {"failed", "cancelled"}}) \in Nat
  <2>1. {t \in Unfinished({"company"}) : job[t].run = k /\ status'[t] \in {"failed", "cancelled"}} \in SUBSET Tasks
    BY DEF Unfinished
  <2>2. lost[k] \in Nat
    BY DEF CrawlTypes
  <2> QED BY <2>1, <2>2, TasksAreCounted
<1> QED BY <1>1 DEF CountLost

LEMMA ReportKeepsCrawlTypes ==
  ASSUME CrawlTypes, NEW r \in Runs, Report(r)
  PROVE  /\ run' \in [CrawlRuns -> RunRows]
         /\ pollDue' \in [Companies -> BOOLEAN] /\ elapsed' \in [Companies -> BOOLEAN]
<1> PICK k : k = job[Held(r)].run
  OBVIOUS
<1> PICK c : c = job[Held(r)].company
  OBVIOUS
<1>1. run' = [run EXCEPT ![k] = Folded(k)]
  BY DEF Report
<1>2. run' \in [CrawlRuns -> RunRows]
  <2>1. k \in CrawlRuns => Folded(k) \in RunRows
    BY FoldedIs DEF RunRows
  <2>2. CASE k \in CrawlRuns
    BY <1>1, <2>1, <2>2 DEF CrawlTypes
  <2>3. CASE k \notin CrawlRuns
    BY <1>1, <2>3 DEF CrawlTypes
  <2> QED BY <2>2, <2>3
<1>4. pollDue' \in [Companies -> BOOLEAN] /\ elapsed' \in [Companies -> BOOLEAN]
  <2>1. \E a, b \in BOOLEAN : /\ elapsed' = [elapsed EXCEPT ![c] = @ /\ a]
                              /\ pollDue' = [pollDue EXCEPT ![c] = @ /\ b]
    <3> PICK asked \in BOOLEAN : asked = (job[Held(r)].force \/ elapsed[c])
      OBVIOUS
    <3>1. PICK answered \in BOOLEAN : elapsed' = [elapsed EXCEPT ![c] = @ /\ ~(asked /\ answered)]
      BY DEF Report
    <3>2. pollDue' = [pollDue EXCEPT ![c] = @ /\ ~asked]
      BY DEF Report
    <3> QED BY <3>1, <3>2
  <2> QED BY <2>1 DEF CrawlTypes
<1> QED BY <1>2, <1>4

LEMMA OwedIsCounted ==
  ASSUME CrawlTypes, NEW r \in Runs
  PROVE  IsFiniteSet(owed[r]) /\ Cardinality(owed[r]) \in Nat /\ Cardinality(owed[r]) \in Total
<1>1. owed[r] \in SUBSET Companies
  BY DEF CrawlTypes
<1>2. IsFiniteSet(owed[r]) /\ Cardinality(owed[r]) <= Cardinality(Companies)
  BY <1>1, CrawlAssumption, FS_Subset
<1>3. Cardinality(owed[r]) \in Nat /\ Cardinality(Companies) \in Nat
  BY <1>2, CrawlAssumption, FS_CardinalityType
<1> QED BY <1>2, <1>3 DEF Total

LEMMA CommitKeepsCrawlTypes ==
  ASSUME QueueInv, CrawlTypes, NEW r \in Runs, CommitTick(r)
  PROVE  job' \in [Tasks -> Jobs] /\ run' \in [CrawlRuns -> RunRows] /\ pollDue' \in [Companies -> BOOLEAN]
<1>1. PICK new \in SUBSET Tasks, next \in SUBSET Tasks, k \in CrawlRuns \cup {NoRun} :
        TickWrites(r, new, next, k)
  BY TickCommits
<1>2. run' = IF k = NoRun THEN run ELSE
               [run EXCEPT ![k] = [status |-> "running", total |-> Cardinality(owed[r]), reported |-> 0]]
  BY <1>1 DEF TickWrites
<1>3. [status |-> "running", total |-> Cardinality(owed[r]), reported |-> 0] \in RunRows
  BY OwedIsCounted DEF RunRows
<1>4. run' \in [CrawlRuns -> RunRows]
  BY <1>2, <1>3 DEF CrawlTypes
<1>5. pollDue' \in [Companies -> BOOLEAN]
  BY DEF CommitTick, ClaimedCompanies
<1> QED BY <1>1, <1>4, <1>5 DEF TickWrites

LEMMA StepKeepsCrawlTypes ==
  ASSUME QueueInv, CrawlTypes, [CrawlNext]_vars
  PROVE  CrawlTypes'
<1>1. CASE UNCHANGED vars
  BY <1>1 DEF vars, crawlVars, CrawlTypes
<1>2. CASE CrawlNext
  <2>1. CountLost /\ maxBacklog' = maxBacklog /\ lost' \in [CrawlRuns -> Nat]
    BY <1>2, LostIsCounted DEF CrawlNext
  <2>2. ASSUME NEW t \in Tasks, NEW kind \in {"tick", "seeds"}, NEW force \in BOOLEAN, RequestCrawl(t, kind, force)
        PROVE  CrawlTypes'
    <3>1. Job(kind, NoCompany, NoRun, force) \in Jobs
      BY DEF Job, Jobs
    <3>2. swept' \in BOOLEAN
      BY <2>2 DEF RequestCrawl, CrawlTypes
    <3>3. job' \in [Tasks -> Jobs]
      BY <2>2, <3>1 DEF RequestCrawl, CrawlTypes
    <3> QED BY <2>1, <2>2, <3>2, <3>3 DEF RequestCrawl, CrawlTypes
  <2>3. ASSUME NEW t \in Tasks, CancelCompany(t) \/ Lapse(t) \/ ComeDue(t) PROVE CrawlTypes'
    <3>1. UNCHANGED crawlVars /\ (Fault \/ UNCHANGED faults)
      BY <2>3 DEF CancelCompany, Lapse, ComeDue
    <3> QED BY <2>1, <3>1, FaultsAreFew DEF crawlVars, CrawlTypes
  <2>4. ASSUME NEW t \in Tasks, Prune(t) PROVE CrawlTypes'
    <3>1. NoJob \in Jobs
      BY DEF NoJob, Job, Jobs
    <3> QED BY <2>1, <2>4, <3>1 DEF Prune, CrawlTypes
  <2>5. ASSUME NEW c \in Companies, IntervalPasses(c) \/ NextDue(c) PROVE CrawlTypes'
    BY <2>1, <2>5 DEF IntervalPasses, NextDue, CrawlTypes
  <2>6. ASSUME NEW r \in Runs, Claim(r) \/ ParkSpentTasks(r) PROVE CrawlTypes'
    BY <2>1, <2>6 DEF Claim, ParkSpentTasks, crawlVars, CrawlTypes
  <2>7. ASSUME NEW r \in Runs, Sweep(r) PROVE CrawlTypes'
    BY <2>1, <2>7 DEF Sweep, CrawlTypes
  <2>8. ASSUME NEW r \in Runs, HandlerError(r) \/ LoseClaim(r) \/ Die(r) \/ Defer(r) PROVE CrawlTypes'
    <3>1. Leave(r) /\ UNCHANGED <<job, run, pollDue, elapsed, swept>> /\ (Fault \/ UNCHANGED faults)
      BY <2>8 DEF HandlerError, LoseClaim, Die, Defer
    <3> QED BY <2>1, <3>1, LeavingKeepsCrawl, FaultsAreFew DEF CrawlTypes
  <2>9. ASSUME NEW r \in Runs, CommitTick(r) PROVE CrawlTypes'
    <3>1. Leave(r) /\ UNCHANGED <<elapsed, swept, faults>>
      BY <2>9 DEF CommitTick
    <3> QED BY <2>1, <2>9, <3>1, LeavingKeepsCrawl, CommitKeepsCrawlTypes DEF CrawlTypes
  <2>10. ASSUME NEW r \in Runs, CommitSeeds(r) PROVE CrawlTypes'
    <3>1. Leave(r) /\ UNCHANGED <<job, run, swept, faults>>
      BY <2>10 DEF CommitSeeds
    <3>2. elapsed' \in [Companies -> BOOLEAN] /\ pollDue' \in [Companies -> BOOLEAN]
      BY <2>10 DEF CommitSeeds, CrawlTypes
    <3> QED BY <2>1, <3>1, <3>2, LeavingKeepsCrawl DEF CrawlTypes
  <2>11. ASSUME NEW r \in Runs, Report(r) PROVE CrawlTypes'
    <3>1. Leave(r) /\ UNCHANGED <<job, swept, faults>>
      BY <2>11 DEF Report
    <3> QED BY <2>1, <2>11, <3>1, LeavingKeepsCrawl, ReportKeepsCrawlTypes DEF CrawlTypes
  <2> QED BY <1>2, <2>2, <2>3, <2>4, <2>5, <2>6, <2>7, <2>8, <2>9, <2>10, <2>11 DEF CrawlNext, CrawlStep
<1> QED BY <1>1, <1>2

-----------------------------------------------------------------------------
(* What a step opens, and whose claim is live after it.                    *)

\* Tasks are opened by a request and by a tick's commit alone; no other step
\* changes what an open task is for.
LEMMA RestOpensNothing ==
  ASSUME QueueInv, [CrawlNext]_vars, NEW t \in Tasks, Open(t)', \A r \in Runs : ~CommitTick(r),
         \A u \in Tasks : \A force \in BOOLEAN : ~RequestCrawl(u, "tick", force) /\ ~RequestCrawl(u, "seeds", force)
  PROVE  Open(t) /\ job'[t] = job[t]
<1> USE DEF Open
<1>1. /\ TypeOK /\ \A r \in Runs : Owns(r) => Held(r) \in Tasks /\ status[Held(r)] = "running"
  BY OwnerToken DEF QueueInv, Owns
<1>2. CASE UNCHANGED vars
  BY <1>2 DEF vars, queueVars, crawlVars
<1>3. ASSUME NEW u \in Tasks, CancelCompany(u) \/ Lapse(u) \/ ComeDue(u) PROVE Open(t) /\ job'[t] = job[t]
  BY <1>1, <1>3 DEF CancelCompany, Lapse, ComeDue, Cancel, LeaseTick, DueNow, crawlVars, TypeOK
<1>4. ASSUME NEW u \in Tasks, Prune(u) PROVE Open(t) /\ job'[t] = job[t]
  <2>1. status'[u] = "absent"
    BY <1>1, <1>4 DEF Prune, TypeOK
  <2>2. u # t
    BY <2>1
  <2> QED BY <1>1, <1>4, <2>2 DEF Prune, TypeOK
<1>5. ASSUME NEW c \in Companies, IntervalPasses(c) \/ NextDue(c) PROVE Open(t) /\ job'[t] = job[t]
  BY <1>5 DEF IntervalPasses, NextDue, queueVars
<1>6. ASSUME NEW r \in Runs, NEW u \in Tasks, ClaimTask(r, u) PROVE Open(t)
  BY <1>1, <1>6 DEF ClaimTask, Ready, Runnable, Exhausted, ParkedStatus, TypeOK
<1>7. ASSUME NEW r \in Runs, ClaimNothing(r) PROVE Open(t)
  BY <1>1, <1>7 DEF ClaimNothing, Exhausted, Runnable, ParkedStatus, TypeOK
<1>8. ASSUME NEW r \in Runs, Claim(r) \/ ParkSpentTasks(r) PROVE Open(t) /\ job'[t] = job[t]
  BY <1>6, <1>7, <1>8 DEF Claim, ParkSpentTasks, crawlVars
<1>9. ASSUME NEW r \in Runs, CompleteTask(r) \/ FailTask(r, FailLimit) \/ DeferTask(r) PROVE Open(t)
  BY <1>1, <1>9 DEF CompleteTask, FailTask, DeferTask, GiveBack, TypeOK
<1>10. ASSUME NEW r \in Runs, CommitSeeds(r) \/ Report(r) \/ Defer(r) \/ HandlerError(r)
       PROVE  Open(t) /\ job'[t] = job[t]
  BY <1>9, <1>10 DEF CommitSeeds, Report, Defer, HandlerError
<1>11. ASSUME NEW r \in Runs, Sweep(r) \/ LoseClaim(r) \/ Die(r) PROVE Open(t) /\ job'[t] = job[t]
  BY <1>11 DEF Sweep, LoseClaim, Die, ClaimOwnershipLost, Crash, taskVars, queueVars
<1> QED BY <1>2, <1>3, <1>4, <1>5, <1>8, <1>10, <1>11 DEF CrawlNext, CrawlStep

\* A claim that was lost is not regained.
LEMMA ClaimsAreNotRegained ==
  ASSUME QueueInv, [QueueNext]_queueVars, NEW s \in Runs, claim'[s] = claim[s], Owns(s)'
  PROVE  Owns(s)
<1>1. TypeOK /\ claim[s] # NoClaim /\ Held(s) \in Tasks /\ claim[s].attempt <= attempts[Held(s)]
      /\ claim[s].attempt \in Nat /\ attempts[Held(s)] \in Nat
  BY OwnerToken DEF QueueInv, TypeOK, Owns, Claims
<1> PICK t \in Tasks : t = Held(s)
  BY <1>1
<1> PICK n \in Nat : n = claim[s].attempt
  BY <1>1
<1>2. status'[t] = "running" /\ lockedBy'[t] = WorkerOf[s] /\ attempts'[t] = n /\ lease'[t] > 0
  BY DEF Owns, Held
<1>3. status[t] = "running" /\ lockedBy[t] = WorkerOf[s] /\ attempts[t] = n /\ lease[t] > 0 => Owns(s)
  BY <1>1 DEF Owns, Held
<1>4. n <= attempts[t] /\ attempts[t] \in Nat /\ lease[t] \in 0..LeaseTicks
  BY <1>1 DEF TypeOK
<1>5. ASSUME NEW r \in Runs, NEW u \in Tasks, ClaimTask(r, u) PROVE Owns(s)
  <2>1. u # t
    BY <1>1, <1>2, <1>4, <1>5 DEF ClaimTask, TypeOK
  <2> QED BY <1>1, <1>2, <1>3, <1>5, <2>1 DEF ClaimTask, ParkedStatus, ParkedLocks, ParkedLeases, TypeOK
<1>6. ASSUME NEW r \in Runs, ClaimNothing(r) PROVE Owns(s)
  BY <1>1, <1>2, <1>3, <1>6 DEF ClaimNothing, ParkedStatus, ParkedLocks, ParkedLeases, TypeOK
<1>7. ASSUME NEW r \in Runs, RenewLease(r) PROVE Owns(s)
  <2>1. Held(r) = t => lease[t] > 0
    BY <1>7 DEF RenewLease, Owns, Held
  <2> QED BY <1>1, <1>2, <1>3, <1>7, <2>1 DEF RenewLease, TypeOK
<1>8. ASSUME NEW r \in Runs, CompleteTask(r) \/ \E limit \in {0, FailLimit} : FailTask(r, limit) PROVE Owns(s)
  <2>1. Held(r) # t
    BY <1>1, <1>2, <1>8 DEF CompleteTask, FailTask, TypeOK
  <2> QED BY <1>1, <1>2, <1>3, <1>8, <2>1 DEF CompleteTask, FailTask, TypeOK
<1>9. ASSUME NEW r \in Runs, ReleaseTask(r) \/ DeferTask(r) PROVE Owns(s)
  <2>1. Held(r) # t
    BY <1>1, <1>2, <1>9 DEF ReleaseTask, DeferTask, GiveBack, TypeOK
  <2> QED BY <1>1, <1>2, <1>3, <1>9, <2>1 DEF ReleaseTask, DeferTask, GiveBack, TypeOK
<1>10. ASSUME NEW r \in Runs, ClaimOwnershipLost(r) \/ Crash(r) PROVE Owns(s)
  BY <1>2, <1>3, <1>10 DEF ClaimOwnershipLost, Crash, taskVars
<1>11. ASSUME NEW u \in Tasks, TaskStep(u) PROVE Owns(s)
  <2>1. CASE \E now \in BOOLEAN : Enqueue(u, now)
    BY <1>1, <1>2, <1>3, <2>1 DEF Enqueue, TypeOK
  <2>2. CASE Cancel(u) \/ DueNow(u)
    BY <1>1, <1>2, <1>3, <2>2 DEF Cancel, DueNow, TypeOK
  <2>3. CASE LeaseTick(u)
    BY <1>1, <1>2, <1>3, <1>4, <2>3 DEF LeaseTick, TypeOK
  <2> QED BY <1>11, <2>1, <2>2, <2>3 DEF TaskStep
<1>12. CASE UNCHANGED queueVars
  BY <1>2, <1>3, <1>12 DEF queueVars
<1> QED BY <1>5, <1>6, <1>7, <1>8, <1>9, <1>10, <1>11, <1>12 DEF QueueNext, RunStep

LEMMA CrawlClaimsAreNotRegained ==
  ASSUME QueueInv, CrawlTypes, [CrawlNext]_vars, NEW s \in Runs, claim'[s] = claim[s], Owns(s)'
  PROVE  Owns(s)
<1>1. TypeOK /\ claim[s] # NoClaim /\ Held(s) \in Tasks
  BY OwnerToken DEF QueueInv, Owns
<1>2. ASSUME NEW t \in Tasks, Prune(t) PROVE Owns(s)
  BY <1>1, <1>2 DEF Prune, TypeOK, Owns, Held
<1>3. ASSUME NEW r \in Runs, CommitTick(r) PROVE Owns(s)
  <2>1. PICK new \in SUBSET Tasks, next \in SUBSET Tasks, k \in CrawlRuns \cup {NoRun} :
          TickWrites(r, new, next, k)
    BY <1>3, TickCommits
  <2>2. status' = [t \in Tasks |-> IF t = Held(r) THEN "done"
                                   ELSE IF t \in next \cup new THEN "pending" ELSE status[t]]
    BY <2>1 DEF TickWrites
  <2>3. status'[Held(s)] = "running" /\ lockedBy'[Held(s)] = WorkerOf[s]
        /\ attempts'[Held(s)] = claim[s].attempt /\ lease'[Held(s)] > 0
    BY DEF Owns, Held
  <2>4. Held(s) # Held(r) /\ status[Held(s)] = "running"
    BY <1>1, <2>2, <2>3
  <2>5. lockedBy[Held(s)] = WorkerOf[s] /\ attempts[Held(s)] = claim[s].attempt /\ lease[Held(s)] > 0
    BY <1>1, <1>3, <2>3, <2>4 DEF CommitTick, TypeOK
  <2> QED BY <1>1, <2>4, <2>5 DEF Owns, Held
<1> QED BY <1>2, <1>3, StepsTheCrawlQueue, ClaimsAreNotRegained

-----------------------------------------------------------------------------
(* The bounds of the queue.                                                *)

LEMMA HeldJobStays ==
  ASSUME QueueInv, CrawlTypes, [CrawlNext]_vars, NEW r \in Runs, claim[r] # NoClaim
  PROVE  job'[Held(r)] = job[Held(r)]
<1>1. Held(r) \in Tasks /\ status[Held(r)] # "absent"
  BY OwnerToken
<1>2. ASSUME NEW t \in Tasks, NEW kind, NEW force, RequestCrawl(t, kind, force) PROVE job'[Held(r)] = job[Held(r)]
  BY <1>1, <1>2 DEF RequestCrawl, Enqueue, CrawlTypes
<1>3. ASSUME NEW t \in Tasks, Prune(t) PROVE job'[Held(r)] = job[Held(r)]
  BY <1>1, <1>3 DEF Prune, CrawlTypes
<1>4. ASSUME NEW s \in Runs, CommitTick(s) PROVE job'[Held(r)] = job[Held(r)]
  BY <1>1, <1>4, TickCommits DEF TickWrites
<1>5. CASE UNCHANGED vars
  BY <1>5 DEF vars, crawlVars
<1>6. ASSUME NEW t \in Tasks, CancelCompany(t) \/ Lapse(t) \/ ComeDue(t) PROVE job' = job
  BY <1>6 DEF CancelCompany, Lapse, ComeDue, crawlVars
<1>7. ASSUME NEW c \in Companies, IntervalPasses(c) \/ NextDue(c) PROVE job' = job
  BY <1>7 DEF IntervalPasses, NextDue
<1>8. ASSUME NEW s \in Runs,
             \/ Claim(s) \/ ParkSpentTasks(s) \/ Sweep(s) \/ CommitSeeds(s) \/ Report(s) \/ Defer(s)
             \/ HandlerError(s) \/ LoseClaim(s) \/ Die(s)
      PROVE  job' = job
  BY <1>8 DEF Claim, ParkSpentTasks, Sweep, CommitSeeds, Report, Defer, HandlerError, LoseClaim, Die, crawlVars
<1> QED BY <1>2, <1>3, <1>4, <1>5, <1>6, <1>7, <1>8 DEF CrawlNext, CrawlStep

\* What sweeps after a step swept before it, unless that was the sweep.
LEMMA SweepersStay ==
  ASSUME QueueInv, CrawlTypes, [CrawlNext]_vars, NEW s \in Runs, place'[s] = "sweeping", ~Sweep(s)
  PROVE  place[s] = "sweeping" /\ claim'[s] = claim[s] /\ owed'[s] = owed[s]
<1> DEFINE Stays == place[s] = "sweeping" /\ claim'[s] = claim[s] /\ owed'[s] = owed[s]
<1>1. TypeOK
  BY DEF QueueInv
<1>2. CASE UNCHANGED vars
  BY <1>2 DEF vars, crawlVars, queueVars
<1>3. ASSUME NEW r \in Runs, Leave(r), EndRun(r) PROVE Stays
  BY <1>1, <1>3 DEF Leave, EndRun, CrawlTypes, TypeOK
<1>4. ASSUME NEW r \in Runs, CommitTick(r) \/ CommitSeeds(r) \/ Report(r) \/ Defer(r) \/ HandlerError(r)
                             \/ LoseClaim(r) \/ Die(r)
      PROVE  Leave(r) /\ EndRun(r)
  BY <1>4 DEF CommitTick, CommitSeeds, Report, Defer, HandlerError, LoseClaim, Die, CompleteTask,
    DeferTask, GiveBack, FailTask, ClaimOwnershipLost, Crash
<1>5. ASSUME NEW r \in Runs, Claim(r) PROVE Stays
  BY <1>1, <1>5 DEF Claim, ClaimTask, CrawlTypes, TypeOK
<1>6. ASSUME NEW r \in Runs, ParkSpentTasks(r) PROVE Stays
  BY <1>6 DEF ParkSpentTasks, ClaimNothing, crawlVars
<1>7. ASSUME NEW r \in Runs, Sweep(r) PROVE Stays
  BY <1>7 DEF Sweep, queueVars, CrawlTypes
<1>8. ASSUME NEW t \in Tasks, CancelCompany(t) \/ Lapse(t) \/ ComeDue(t) \/ Prune(t) PROVE Stays
  BY <1>8 DEF CancelCompany, Lapse, ComeDue, Prune, Cancel, LeaseTick, DueNow, crawlVars
<1>9. ASSUME NEW c \in Companies, IntervalPasses(c) \/ NextDue(c) PROVE Stays
  BY <1>9 DEF IntervalPasses, NextDue, queueVars
<1>10. ASSUME NEW t \in Tasks, NEW kind, NEW force, RequestCrawl(t, kind, force) PROVE Stays
  BY <1>10 DEF RequestCrawl, Enqueue
<1> QED BY <1>2, <1>3, <1>4, <1>5, <1>6, <1>7, <1>8, <1>9, <1>10 DEF CrawlNext, CrawlStep

\* Only a tick's commit queues companies.
LEMMA RestQueuesNothing ==
  ASSUME QueueInv, CrawlTypes, [CrawlNext]_vars, \A r \in Runs : ~CommitTick(r), NEW t \in Tasks,
         t \in CompanyTasks'
  PROVE  t \in CompanyTasks /\ job'[t] = job[t]
<1>1. Open(t)' /\ job'[t].kind = "company"
  BY DEF CompanyTasks, Unfinished, Open
<1>2. ASSUME NEW u \in Tasks, NEW force \in BOOLEAN,
             RequestCrawl(u, "tick", force) \/ RequestCrawl(u, "seeds", force)
      PROVE  Open(t) /\ job'[t] = job[t]
  <2> PICK kind \in {"tick", "seeds"} : RequestCrawl(u, kind, force)
    BY <1>2
  <2>1. u # t
    <3>1. job'[u] = Job(kind, NoCompany, NoRun, force)
      BY DEF RequestCrawl, CrawlTypes
    <3>2. job'[u].kind = kind
      BY <3>1 DEF Job
    <3> QED BY <1>1, <3>2
  <2> QED BY <1>1, <2>1 DEF RequestCrawl, Enqueue, CrawlTypes, QueueInv, TypeOK, Open
<1>3. Open(t) /\ job'[t] = job[t]
  BY <1>1, <1>2, RestOpensNothing
<1> QED BY <1>1, <1>3 DEF CompanyTasks, Unfinished, Open

\* A tick that commits under its claim is the one crawl task.
LEMMA SweeperCrawls ==
  ASSUME QueueInv, SweepInv, NEW r \in Runs, place[r] = "sweeping", Owns(r)
  PROVE  Held(r) \in Tasks /\ Crawling(Held(r)) /\ job[Held(r)].kind = "tick"
BY OwnerToken DEF SweepInv, Crawling, Open, Owns

LEMMA StepKeepsOneCrawl ==
  ASSUME QueueInv, CrawlTypes, BoundInv, [CrawlNext]_vars
  PROVE  OneCrawl'
<1>1. ASSUME NEW u \in Tasks, NEW kind, NEW force, RequestCrawl(u, kind, force) PROVE OneCrawl'
  <2>1. \A t \in Tasks : ~Crawling(t)
    BY <1>1 DEF RequestCrawl, Unfinished, Crawling, Open
  <2>2. \A t \in Tasks : t # u => status'[t] = status[t] /\ job'[t] = job[t]
    BY <1>1 DEF RequestCrawl, Enqueue, CrawlTypes, QueueInv, TypeOK
  <2> QED BY <2>1, <2>2 DEF OneCrawl, Crawling, Open
<1>2. ASSUME NEW r \in Runs, CommitTick(r) PROVE OneCrawl'
  <2>1. PICK new \in SUBSET Tasks, next \in SUBSET Tasks, k \in CrawlRuns \cup {NoRun} :
          TickWrites(r, new, next, k)
    BY <1>2, TickCommits
  <2>2. Held(r) \in Tasks /\ Crawling(Held(r))
    BY <1>2, SweeperCrawls DEF CommitTick, BoundInv
  <2>3. ASSUME NEW t \in Tasks, Crawling(t)' PROVE t \in next
    <3>1. t # Held(r)
      BY <2>1, <2>3 DEF TickWrites, Crawling, Open
    <3>2. t \notin new
      BY <2>1, <2>3 DEF TickWrites, Crawling
    <3>3. t \notin next => Crawling(t)
      BY <2>1, <2>3, <3>1, <3>2 DEF TickWrites, Crawling, Open
    <3> QED BY <2>2, <3>1, <3>3 DEF BoundInv, OneCrawl
  <2>4. next = {} \/ \E x : next = {x}
    <3>1. Cardinality(next) = 0 \/ Cardinality(next) = 1
      BY <2>1 DEF TickWrites
    <3> QED BY <3>1, TasksAreCounted, FS_EmptySet, FS_Singleton
  <2> QED BY <2>3, <2>4 DEF OneCrawl
<1>3. CASE /\ \A r \in Runs : ~CommitTick(r)
           /\ \A u \in Tasks : \A force \in BOOLEAN :
                ~RequestCrawl(u, "tick", force) /\ ~RequestCrawl(u, "seeds", force)
  <2>1. \A t \in Tasks : Crawling(t)' => Crawling(t)
    BY <1>3, RestOpensNothing DEF Crawling, Open
  <2> QED BY <2>1 DEF BoundInv, OneCrawl
<1> QED BY <1>1, <1>2, <1>3

LEMMA CompanyTasksAreCounted ==
  ASSUME TRUE
  PROVE  /\ CompanyTasks \in SUBSET Tasks /\ IsFiniteSet(CompanyTasks) /\ Cardinality(CompanyTasks) \in Nat
         /\ CompanyTasks' \in SUBSET Tasks /\ IsFiniteSet(CompanyTasks') /\ Cardinality(CompanyTasks)' \in Nat
BY TasksAreCounted DEF CompanyTasks, Unfinished

\* A tick takes no more than its count of the backlog leaves room for.
LEMMA SweepFits ==
  ASSUME CrawlTypes, BacklogBounded, NEW r \in Runs, Sweep(r)
  PROVE  Cardinality(owed'[r]) + Cardinality(CompanyTasks) <= maxBacklog
<1> PICK n \in Nat : n = Cardinality(CompanyTasks)
  BY CompanyTasksAreCounted
<1> PICK m \in Nat : m = maxBacklog
  BY CrawlAssumption DEF CrawlTypes
<1>1. n <= m
  BY DEF BacklogBounded, CompanyTasks
<1>2. Room \in Nat /\ n + Room <= m
  <2>1. Room = IF n >= m THEN 0 ELSE Min({Limit, m - n})
    BY DEF Room, CompanyTasks
  <2>2. CASE n >= m
    BY <1>1, <2>1, <2>2
  <2>3. CASE ~(n >= m)
    <3>1. m - n \in Nat /\ Limit \in Nat
      BY <2>3, CrawlAssumption
    <3>2. Min({Limit, m - n}) \in Nat /\ Min({Limit, m - n}) <= m - n
      BY <3>1, LeastOfTwo
    <3> QED BY <2>1, <2>3, <3>2
  <2> QED BY <2>2, <2>3
<1>3. PICK due_ \in SUBSET Companies, s \in SUBSET Companies :
        Cardinality(s) = Min({Room, Cardinality(due_)}) /\ owed' = [owed EXCEPT ![r] = s]
  <2>1. {c \in Companies : job[Held(r)].force \/ pollDue[c]} \in SUBSET Companies
    OBVIOUS
  <2> QED BY <2>1 DEF Sweep
<1>4. owed'[r] = s
  BY <1>3 DEF CrawlTypes
<1>5. Cardinality(due_) \in Nat
  BY CrawlAssumption, FS_Subset, FS_CardinalityType
<1>6. Cardinality(s) <= Room /\ Cardinality(s) \in Nat
  BY <1>2, <1>3, <1>5, LeastOfTwo
<1> QED BY <1>2, <1>4, <1>6

LEMMA StepKeepsBounds ==
  ASSUME QueueInv, CrawlTypes, BoundInv, [CrawlNext]_vars
  PROVE  BoundInv'
<1>1. OneCrawl'
  BY StepKeepsOneCrawl
<1>2. maxBacklog' = maxBacklog /\ maxBacklog \in Nat
  BY CrawlAssumption DEF CrawlNext, vars, CrawlTypes
<1>3. ASSUME \A r \in Runs : ~CommitTick(r)
      PROVE  Cardinality(CompanyTasks') <= Cardinality(CompanyTasks)
  <2>1. CompanyTasks' \subseteq CompanyTasks
    <3> SUFFICES ASSUME NEW t \in CompanyTasks' PROVE t \in CompanyTasks
      OBVIOUS
    <3>1. t \in Tasks
      BY CompanyTasksAreCounted
    <3> QED BY <1>3, <3>1, RestQueuesNothing
  <2> QED BY <2>1, CompanyTasksAreCounted, FS_Subset
<1>4. ASSUME NEW r \in Runs, CommitTick(r)
      PROVE  Cardinality(CompanyTasks') <= maxBacklog
  <2>1. PICK new \in SUBSET Tasks, next \in SUBSET Tasks, k \in CrawlRuns \cup {NoRun} :
          TickWrites(r, new, next, k)
    BY <1>4, TickCommits
  <2>2. CompanyTasks' \subseteq CompanyTasks \cup new
    BY <2>1 DEF CompanyTasks, Unfinished, TickWrites
  <2>3. IsFiniteSet(CompanyTasks \cup new) /\ Cardinality(CompanyTasks \cup new) <= maxBacklog
    <3>1. /\ IsFiniteSet(CompanyTasks \cup new)
          /\ Cardinality(CompanyTasks \cup new) =
               Cardinality(CompanyTasks) + Cardinality(new) - Cardinality(CompanyTasks \cap new)
      BY CompanyTasksAreCounted, TasksAreCounted, FS_Union
    <3>2. CompanyTasks \cap new = {}
      BY <2>1 DEF CompanyTasks, Unfinished, TickWrites
    <3>3. Cardinality(new) = Cardinality(owed[r])
      BY <2>1 DEF TickWrites
    <3>4. Cardinality(owed[r]) + Cardinality(CompanyTasks) <= maxBacklog
      BY <1>4 DEF CommitTick, BoundInv, SweepInv
    <3> QED BY <1>2, <3>1, <3>2, <3>3, <3>4, FS_EmptySet, CompanyTasksAreCounted, OwedIsCounted
  <2>4. Cardinality(CompanyTasks') <= Cardinality(CompanyTasks \cup new)
    BY <2>2, <2>3, FS_Subset
  <2> QED BY <1>2, <2>3, <2>4, CompanyTasksAreCounted, FS_CardinalityType
<1>5. BacklogBounded'
  <2>1. Cardinality(CompanyTasks) <= maxBacklog
    BY DEF BoundInv, BacklogBounded, CompanyTasks
  <2>2. Cardinality(CompanyTasks') <= maxBacklog
    BY <1>2, <1>3, <1>4, <2>1, CompanyTasksAreCounted
  <2> QED BY <1>2, <2>2 DEF BacklogBounded, CompanyTasks
<1>6. SweepInv'
  <2> SUFFICES ASSUME NEW s \in Runs, place'[s] = "sweeping"
               PROVE  /\ claim'[s] # NoClaim /\ job'[claim'[s].task].kind = "tick"
                      /\ Owns(s)' => Cardinality(owed'[s]) + Cardinality(CompanyTasks') <= maxBacklog'
    BY DEF SweepInv, Held
  <2>1. CASE Sweep(s)
    <3>1. claim'[s] = claim[s] /\ claim[s] # NoClaim /\ job' = job /\ job[claim[s].task].kind = "tick"
          /\ status' = status
      BY <2>1 DEF Sweep, queueVars, Held
    <3>2. CompanyTasks' = CompanyTasks
      BY <3>1 DEF CompanyTasks, Unfinished
    <3>3. Cardinality(owed'[s]) + Cardinality(CompanyTasks) <= maxBacklog
      BY <2>1, SweepFits DEF BoundInv
    <3> QED BY <1>2, <3>1, <3>2, <3>3
  <2>2. CASE ~Sweep(s)
    <3>1. place[s] = "sweeping" /\ claim'[s] = claim[s] /\ owed'[s] = owed[s]
      BY <2>2, SweepersStay
    <3>2. claim[s] # NoClaim /\ job[Held(s)].kind = "tick"
      BY <3>1 DEF BoundInv, SweepInv
    <3>3. job'[claim'[s].task].kind = "tick"
      BY <3>1, <3>2, HeldJobStays DEF Held
    <3>4. ASSUME Owns(s)' PROVE Cardinality(owed'[s]) + Cardinality(CompanyTasks') <= maxBacklog'
      <4>1. Owns(s)
        BY <3>1, <3>4, CrawlClaimsAreNotRegained
      <4>2. \A r \in Runs : ~CommitTick(r)
        <5> SUFFICES ASSUME NEW r \in Runs, CommitTick(r) PROVE FALSE
          OBVIOUS
        <5>1. Held(s) \in Tasks /\ Crawling(Held(s))
          BY <3>1, <4>1, SweeperCrawls DEF BoundInv
        <5>2. Held(r) \in Tasks /\ Crawling(Held(r))
          BY SweeperCrawls DEF CommitTick, BoundInv
        <5>3. Held(s) = Held(r)
          BY <5>1, <5>2 DEF BoundInv, OneCrawl
        <5>4. status'[Held(s)] = "done"
          BY <5>1, <5>3, TickCommits DEF TickWrites
        <5> QED BY <3>1, <3>4, <5>4 DEF Owns, Held
      <4>3. Cardinality(owed[s]) + Cardinality(CompanyTasks) <= maxBacklog
        BY <3>1, <4>1 DEF BoundInv, SweepInv
      <4> QED BY <1>2, <1>3, <3>1, <4>2, <4>3, CompanyTasksAreCounted, OwedIsCounted
    <3> QED BY <3>1, <3>2, <3>3, <3>4
  <2> QED BY <2>1, <2>2
<1> QED BY <1>1, <1>5, <1>6 DEF BoundInv

-----------------------------------------------------------------------------
(* The reports of a run.                                                   *)

LostOf(k) == {t \in CompanyTasks : job[t].run = k /\ status'[t] \in {"failed", "cancelled"}}

LEMMA TasksOfAreCounted ==
  ASSUME NEW k
  PROVE  /\ TasksOf(k) \in SUBSET Tasks /\ IsFiniteSet(TasksOf(k)) /\ Cardinality(TasksOf(k)) \in Nat
         /\ ReportsStillDue(k) = Cardinality(TasksOf(k))
<1>1. TasksOf(k) \in SUBSET Tasks
  BY DEF TasksOf, CompanyTasks, Unfinished
<1> QED BY <1>1, TasksAreCounted DEF TasksOf, CompanyTasks, ReportsStillDue

LEMMA TasksOfAreCountedNext ==
  ASSUME NEW k
  PROVE  /\ TasksOf(k)' \in SUBSET Tasks /\ IsFiniteSet(TasksOf(k)') /\ Cardinality(TasksOf(k))' \in Nat
         /\ ReportsStillDue(k)' = Cardinality(TasksOf(k))'
<1>1. TasksOf(k)' \in SUBSET Tasks
  BY DEF TasksOf, CompanyTasks, Unfinished
<1> QED BY <1>1, TasksAreCounted DEF TasksOf, CompanyTasks, ReportsStillDue

LEMMA CountInvIs ==
  CountInv <=>
    \A k \in CrawlRuns :
      /\ run[k].status # "absent" => run[k].reported + Cardinality(TasksOf(k)) + lost[k] = run[k].total
      /\ run[k].status = "completed" => Cardinality(TasksOf(k)) = 0
      /\ run[k].status = "absent" => TasksOf(k) = {} /\ lost[k] = 0 /\ run[k].reported = 0
BY TasksOfAreCounted DEF CountInv, ReportsAddUp

LEMMA CountInvIsNext ==
  ASSUME \A k \in CrawlRuns :
           /\ run'[k].status # "absent" =>
                run'[k].reported + Cardinality(TasksOf(k)') + lost'[k] = run'[k].total
           /\ run'[k].status = "completed" => Cardinality(TasksOf(k)') = 0
           /\ run'[k].status = "absent" => TasksOf(k)' = {} /\ lost'[k] = 0 /\ run'[k].reported = 0
  PROVE  CountInv'
BY TasksOfAreCountedNext DEF CountInv, ReportsAddUp

\* A company task that leaves the queue without reporting is counted as lost.
LEMMA CountStays ==
  ASSUME CrawlTypes, CountInv, CountLost, UNCHANGED run,
         \A t \in CompanyTasks' : t \in CompanyTasks /\ job'[t] = job[t],
         \A t \in CompanyTasks : t \in CompanyTasks' \/ status'[t] \in {"failed", "cancelled"}
  PROVE  CountInv'
<1> SUFFICES ASSUME NEW k \in CrawlRuns
             PROVE /\ run'[k].status # "absent" =>
                        run'[k].reported + Cardinality(TasksOf(k)') + lost'[k] = run'[k].total
                   /\ run'[k].status = "completed" => Cardinality(TasksOf(k)') = 0
                   /\ run'[k].status = "absent" => TasksOf(k)' = {} /\ lost'[k] = 0 /\ run'[k].reported = 0
  BY CountInvIsNext
<1>1. TasksOf(k) = TasksOf(k)' \cup LostOf(k)
  BY DEF TasksOf, LostOf
<1>2. TasksOf(k)' \cap LostOf(k) = {}
  BY DEF TasksOf, LostOf, CompanyTasks, Unfinished
<1>3. /\ Cardinality(TasksOf(k)) = Cardinality(TasksOf(k)') + Cardinality(LostOf(k))
      /\ Cardinality(LostOf(k)) \in Nat /\ Cardinality(TasksOf(k)') \in Nat
  BY <1>1, <1>2, PartsCount, TasksOfAreCounted
<1>4. lost'[k] = lost[k] + Cardinality(LostOf(k)) /\ lost[k] \in Nat
  BY DEF CountLost, LostOf, CompanyTasks, CrawlTypes
<1>5. run'[k] = run[k] /\ run[k].reported \in Nat
  BY FoldedIs
<1>6. TasksOf(k) = {} => TasksOf(k)' = {} /\ Cardinality(LostOf(k)) = 0
  BY <1>1, FS_EmptySet
<1> QED BY <1>3, <1>4, <1>5, <1>6, CountInvIs

\* A report moves one task of its run from those still due to those reported.
LEMMA ReportCounts ==
  ASSUME QueueInv, CrawlTypes, CountInv, CountLost, NEW r \in Runs, Report(r)
  PROVE  CountInv'
<1> PICK u : u = Held(r)
  OBVIOUS
<1> PICK j : j = job[u].run
  OBVIOUS
<1>1. /\ u \in Tasks /\ status[u] = "running" /\ job[u].kind = "company" /\ job' = job
      /\ status' = [status EXCEPT ![u] = "done"]
      /\ run' = [run EXCEPT ![j] = Folded(j)]
  BY OwnerToken DEF Report, CompleteTask
<1>2. u \in CompanyTasks /\ CompanyTasks' = CompanyTasks \ {u}
  BY <1>1 DEF CompanyTasks, Unfinished, QueueInv, TypeOK
<1> SUFFICES ASSUME NEW k \in CrawlRuns
             PROVE /\ run'[k].status # "absent" =>
                        run'[k].reported + Cardinality(TasksOf(k)') + lost'[k] = run'[k].total
                   /\ run'[k].status = "completed" => Cardinality(TasksOf(k)') = 0
                   /\ run'[k].status = "absent" => TasksOf(k)' = {} /\ lost'[k] = 0 /\ run'[k].reported = 0
  BY CountInvIsNext
<1>3. LostOf(k) = {}
  BY <1>1 DEF LostOf, CompanyTasks, Unfinished, QueueInv, TypeOK
<1>4. lost'[k] = lost[k] /\ lost[k] \in Nat
  BY <1>3, FS_EmptySet DEF CountLost, LostOf, CompanyTasks, CrawlTypes
<1>5. TasksOf(k)' = TasksOf(k) \ {u}
  BY <1>1, <1>2 DEF TasksOf
<1>6. CASE k # j
  <2>1. u \notin TasksOf(k)
    BY <1>6 DEF TasksOf
  <2>2. TasksOf(k)' = TasksOf(k) /\ run'[k] = run[k]
    BY <1>1, <1>5, <1>6, <2>1 DEF CrawlTypes
  <2> QED BY <1>4, <2>2, CountInvIs
<1>7. CASE k = j
  <2>1. u \in TasksOf(k)
    BY <1>2, <1>7 DEF TasksOf
  <2> PICK n \in Nat : n = Cardinality(TasksOf(k)')
    BY TasksOfAreCountedNext
  <2>2. Cardinality(TasksOf(k)) = n + 1 /\ TasksOf(k) # {}
    <3> PICK A : A = TasksOf(k)
      OBVIOUS
    <3>1. IsFiniteSet(A) /\ Cardinality(A) \in Nat /\ u \in A
      BY <2>1, TasksOfAreCounted
    <3>2. Cardinality(A \ {u}) = Cardinality(A) - 1
      BY <3>1, FS_RemoveElement
    <3>3. n = Cardinality(A \ {u})
      BY <1>5
    <3> QED BY <3>1, <3>2, <3>3
  <2>3. /\ run[k].status # "absent" /\ run[k].status # "completed"
        /\ run[k].reported + n + 1 + lost[k] = run[k].total
    BY <1>4, <2>2, CountInvIs, FoldedIs
  <2>4. run'[k] = Folded(k)
    BY <1>1, <1>7 DEF CrawlTypes
  <2>5. /\ run'[k].reported = run[k].reported + 1 /\ run'[k].total = run[k].total
        /\ run'[k].status # "absent"
        /\ run'[k].status = "completed" => run[k].reported + 1 >= run[k].total
    BY <2>3, <2>4, FoldedIs
  <2>6. run[k].reported \in Nat /\ run[k].total \in Nat
    BY FoldedIs
  <2> QED BY <1>4, <2>3, <2>5, <2>6
<1> QED BY <1>6, <1>7

\* A tick's commit opens a run with one task for each of its companies.
LEMMA CommitCounts ==
  ASSUME QueueInv, CrawlTypes, BoundInv, CountInv, CountLost, NEW r \in Runs, CommitTick(r)
  PROVE  CountInv'
<1>1. PICK new \in SUBSET Tasks, next \in SUBSET Tasks, j \in CrawlRuns \cup {NoRun} :
        TickWrites(r, new, next, j)
  BY TickCommits
<1>2. Held(r) \in Tasks /\ Crawling(Held(r)) /\ job[Held(r)].kind = "tick"
  BY SweeperCrawls DEF CommitTick, BoundInv
<1>3. \A t \in CompanyTasks : t # Held(r) /\ t \notin new \cup next /\ status'[t] = status[t] /\ job'[t] = job[t]
  BY <1>1, <1>2 DEF CompanyTasks, Unfinished, TickWrites
<1>4. CompanyTasks' = CompanyTasks \cup new
  <2>1. ASSUME NEW t \in Tasks, t \in CompanyTasks' PROVE t \in CompanyTasks \cup new
    <3>1. t # Held(r) /\ t \notin next
      BY <1>1, <1>2, <2>1 DEF CompanyTasks, Unfinished, TickWrites
    <3> QED BY <1>1, <2>1, <3>1 DEF CompanyTasks, Unfinished, TickWrites
  <2>2. ASSUME NEW t \in CompanyTasks PROVE t \in CompanyTasks'
    BY <1>3, <2>2 DEF CompanyTasks, Unfinished
  <2>3. ASSUME NEW t \in new PROVE t \in CompanyTasks'
    <3>1. t # Held(r)
      BY <1>1, <1>2, <2>3 DEF TickWrites, Crawling, Open
    <3> QED BY <1>1, <2>3, <3>1 DEF CompanyTasks, Unfinished, TickWrites
  <2> QED BY <2>1, <2>2, <2>3, CompanyTasksAreCounted
<1> SUFFICES ASSUME NEW k \in CrawlRuns
             PROVE /\ run'[k].status # "absent" =>
                        run'[k].reported + Cardinality(TasksOf(k)') + lost'[k] = run'[k].total
                   /\ run'[k].status = "completed" => Cardinality(TasksOf(k)') = 0
                   /\ run'[k].status = "absent" => TasksOf(k)' = {} /\ lost'[k] = 0 /\ run'[k].reported = 0
  BY CountInvIsNext
<1>5. LostOf(k) = {}
  BY <1>3 DEF LostOf, CompanyTasks, Unfinished
<1>6. lost'[k] = lost[k] /\ lost[k] \in Nat
  BY <1>5, FS_EmptySet DEF CountLost, LostOf, CompanyTasks, CrawlTypes
<1>7. CASE k # j
  <2>1. TasksOf(k)' = TasksOf(k)
    BY <1>1, <1>3, <1>4, <1>7 DEF TasksOf, TickWrites
  <2>2. run'[k] = run[k]
    BY <1>1, <1>7 DEF TickWrites, CrawlTypes
  <2> QED BY <1>6, <2>1, <2>2, CountInvIs
<1>8. CASE k = j
  <2>1. k # NoRun /\ run[k].status = "absent"
    BY <1>1, <1>8, CrawlAssumption DEF TickWrites
  <2>2. TasksOf(k) = {} /\ lost[k] = 0
    BY <2>1, CountInvIs
  <2>3. TasksOf(k)' = new
    BY <1>1, <1>3, <1>4, <1>8, <2>2 DEF TasksOf, TickWrites
  <2>4. run'[k] = [status |-> "running", total |-> Cardinality(owed[r]), reported |-> 0]
        /\ Cardinality(new) = Cardinality(owed[r])
    BY <1>1, <1>8, <2>1 DEF TickWrites, CrawlTypes
  <2> QED BY <1>6, <2>2, <2>3, <2>4, OwedIsCounted
<1> QED BY <1>7, <1>8

\* How a task ends: a company's by its report, a tick by its commit, and
\* otherwise only by failing, or a company's by being cancelled.
LEMMA TasksEndOpenly ==
  ASSUME QueueInv, CrawlTypes, [CrawlNext]_vars, \A r \in Runs : ~CommitTick(r),
         NEW t \in Tasks, Open(t), job[t].kind \in {"tick", "company"}
  PROVE  /\ job'[t] = job[t]
         /\ \/ Open(t)' \/ status'[t] = "failed"
            \/ job[t].kind = "company" /\ (status'[t] = "cancelled" \/ \E r \in Runs : Report(r))
<1> DEFINE Same == status'[t] = status[t] /\ job'[t] = job[t]
           Kept == /\ job'[t] = job[t]
                   /\ \/ Open(t)' \/ status'[t] = "failed"
                      \/ job[t].kind = "company" /\ (status'[t] = "cancelled" \/ \E r \in Runs : Report(r))
<1>1. /\ TypeOK /\ \A r \in Runs : claim[r] # NoClaim => Held(r) \in Tasks
      /\ t \in Tasks /\ Open(t)
  BY OwnerToken DEF QueueInv
<1>2. Same => Kept
  BY <1>1 DEF Open
<1>3. ASSUME UNCHANGED vars PROVE Same
  BY <1>3 DEF vars, queueVars, crawlVars
<1>4. ASSUME NEW u \in Tasks, NEW kind, NEW force, RequestCrawl(u, kind, force) PROVE Same
  BY <1>1, <1>4 DEF RequestCrawl, Enqueue, CrawlTypes, TypeOK, Open
<1>5. ASSUME NEW u \in Tasks, CancelCompany(u) PROVE Kept
  BY <1>1, <1>5 DEF CancelCompany, Cancel, crawlVars, TypeOK, Open
<1>6. ASSUME NEW u \in Tasks, Lapse(u) \/ ComeDue(u) PROVE Same
  BY <1>6 DEF Lapse, ComeDue, LeaseTick, DueNow, crawlVars
<1>7. ASSUME NEW u \in Tasks, Prune(u) PROVE Same
  BY <1>1, <1>7 DEF Prune, CrawlTypes, TypeOK, Open, Finished
<1>8. ASSUME NEW c \in Companies, IntervalPasses(c) \/ NextDue(c) PROVE Same
  BY <1>8 DEF IntervalPasses, NextDue, queueVars
<1>9. ASSUME NEW r \in Runs, Sweep(r) \/ LoseClaim(r) \/ Die(r) PROVE Same
  BY <1>9 DEF Sweep, LoseClaim, Die, ClaimOwnershipLost, Crash, taskVars, queueVars
<1>10. ASSUME NEW r \in Runs, Claim(r) PROVE Kept
  BY <1>1, <1>10 DEF Claim, ClaimTask, ParkedStatus, TypeOK, Open
<1>11. ASSUME NEW r \in Runs, ParkSpentTasks(r) PROVE Kept
  BY <1>1, <1>11 DEF ParkSpentTasks, ClaimNothing, ParkedStatus, crawlVars, TypeOK, Open
<1>12. ASSUME NEW r \in Runs, HandlerError(r) \/ Defer(r) PROVE Kept
  BY <1>1, <1>12 DEF HandlerError, Defer, FailTask, DeferTask, GiveBack, TypeOK, Open
<1>13. ASSUME NEW r \in Runs, CommitSeeds(r) PROVE Same
  <2>1. Held(r) # t /\ status' = [status EXCEPT ![Held(r)] = "done"]
    BY <1>1, <1>13 DEF CommitSeeds, CompleteTask
  <2> QED BY <1>1, <1>13, <2>1 DEF CommitSeeds, TypeOK
<1>14. ASSUME NEW r \in Runs, Report(r) PROVE Kept
  <2>1. job[Held(r)].kind = "company" /\ status' = [status EXCEPT ![Held(r)] = "done"] /\ job' = job
    BY <1>14 DEF Report, CompleteTask
  <2> QED BY <1>1, <1>14, <2>1 DEF Open, TypeOK
<1> QED
  BY <1>2, <1>3, <1>4, <1>5, <1>6, <1>7, <1>8, <1>9, <1>10, <1>11, <1>12, <1>13, <1>14 DEF CrawlNext, CrawlStep

LEMMA StepKeepsCounts ==
  ASSUME QueueInv, CrawlTypes, BoundInv, CountInv, [CrawlNext]_vars
  PROVE  CountInv'
<1>1. CASE UNCHANGED vars
  BY <1>1 DEF vars, queueVars, crawlVars, CountInv, ReportsAddUp, ReportsStillDue, TasksOf, CompanyTasks, Unfinished
<1>2. CASE CrawlNext /\ \E r \in Runs : Report(r) \/ CommitTick(r)
  BY <1>2, ReportCounts, CommitCounts DEF CrawlNext
<1>3. CASE CrawlNext /\ \A r \in Runs : ~CommitTick(r) /\ ~Report(r)
  <2>1. \A t \in CompanyTasks' : t \in CompanyTasks /\ job'[t] = job[t]
    BY <1>3, RestQueuesNothing, CompanyTasksAreCounted
  <2>2. \A t \in CompanyTasks : t \in CompanyTasks' \/ status'[t] \in {"failed", "cancelled"}
    BY <1>3, TasksEndOpenly, CompanyTasksAreCounted DEF CompanyTasks, Unfinished, Open
  <2>3. run' = run
    BY <1>3 DEF CrawlNext, CrawlStep, RequestCrawl, CancelCompany, Lapse, ComeDue, Prune, IntervalPasses,
      NextDue, Claim, ParkSpentTasks, Sweep, CommitSeeds, Defer, HandlerError, LoseClaim, Die, crawlVars
  <2> QED BY <1>3, <2>1, <2>2, <2>3, CountStays DEF CrawlNext
<1> QED BY <1>1, <1>2, <1>3

-----------------------------------------------------------------------------
CrawlInv == QueueInv /\ CrawlTypes /\ BoundInv /\ CountInv

LEMMA InitCrawlInv == CrawlInit => CrawlInv
<1> SUFFICES ASSUME CrawlInit PROVE CrawlInv
  OBVIOUS
<1>1. QueueInv
  BY InitQueueInv DEF CrawlInit
<1>2. CrawlTypes
  <2>1. NoJob \in Jobs
    BY DEF NoJob, Job, Jobs
  <2>2. 0 \in Total
    BY CrawlAssumption, FS_CardinalityType DEF Total
  <2>3. [status |-> "absent", total |-> 0, reported |-> 0] \in RunRows
    BY <2>2 DEF RunRows
  <2>4. run \in [CrawlRuns -> RunRows] /\ lost \in [CrawlRuns -> Nat] /\ job \in [Tasks -> Jobs]
    BY <2>1, <2>3 DEF CrawlInit
  <2>5. faults \in 0..MaxFaults
    BY CrawlAssumption DEF CrawlInit
  <2> QED BY <2>4, <2>5 DEF CrawlInit, CrawlTypes
<1>3. CompanyTasks = {} /\ \A t \in Tasks : ~Crawling(t)
  BY DEF CrawlInit, QueueInit, CompanyTasks, Unfinished, Crawling, Open
<1>4. BoundInv
  <2>1. Cardinality(CompanyTasks) = 0 /\ maxBacklog \in Nat
    BY <1>2, <1>3, FS_EmptySet, CrawlAssumption DEF CrawlTypes
  <2> QED BY <1>3, <2>1 DEF BoundInv, OneCrawl, SweepInv, BacklogBounded, CompanyTasks, CrawlInit
<1>5. CountInv
  <2>1. \A k : TasksOf(k) = {}
    BY <1>3 DEF TasksOf
  <2> QED BY <2>1, CountInvIs DEF CrawlInit
<1> QED BY <1>1, <1>2, <1>4, <1>5 DEF CrawlInv

LEMMA StepKeepsCrawlInv == CrawlInv /\ [CrawlNext]_vars => CrawlInv'
BY StepKeepsCrawlQueue, StepKeepsCrawlTypes, StepKeepsBounds, StepKeepsCounts DEF CrawlInv

\* The crawl's inductive invariant: the queue's own, the types, the bounds and
\* the count of reports.
THEOREM CrawlIsHeld == CrawlSpec => []CrawlInv
BY InitCrawlInv, StepKeepsCrawlInv, PTL DEF CrawlSpec

\* Every company of a run has reported once, still has its one task or lost
\* it, whatever is redelivered, handed back, cancelled or parked; a run is
\* closed exactly when nothing of it is to come (crawler/runs.py).
THEOREM RunsAddUp == CrawlSpec => []ReportsAddUp
<1>1. CrawlInv => ReportsAddUp
  BY DEF CrawlInv, CountInv
<1> QED BY <1>1, CrawlIsHeld, PTL

\* One crawl task waits or runs at a time, and no tick fills the queue past
\* the backlog it is held to (routers/crawl.py, crawler/dispatch.py).
THEOREM BoundsAreKept == CrawlSpec => []QueueBounded
<1>1. CrawlInv => QueueBounded
  <2> SUFFICES ASSUME CrawlInv PROVE OneCrawlAtATime /\ BacklogBounded
    BY DEF QueueBounded
  <2> DEFINE crawls == Unfinished({"tick", "seeds"})
  <2>1. \A t, u \in crawls : t = u
    BY DEF CrawlInv, BoundInv, OneCrawl, Crawling, Open, Unfinished
  <2>2. crawls \in SUBSET Tasks /\ (crawls = {} \/ \E t \in crawls : crawls = {t})
    BY <2>1 DEF Unfinished
  <2>3. Cardinality(crawls) \in {0, 1}
    <3> HIDE DEF crawls
    <3> QED BY <2>2, FS_EmptySet, FS_Singleton
  <2> QED BY <2>3 DEF OneCrawlAtATime, CrawlInv, BoundInv
<1> QED BY <1>1, CrawlIsHeld, PTL

\* Type correctness: no run counts more reports or losses than it has
\* companies.
THEOREM CrawlTypeCorrect == CrawlSpec => []CrawlTypeOK
<1>1. CrawlInv => CrawlTypeOK
  <2> SUFFICES ASSUME CrawlInv PROVE CrawlTypeOK
    OBVIOUS
  <2>1. ASSUME NEW k \in CrawlRuns
        PROVE  lost[k] \in Total /\ run[k].reported \in Total
    <3>1. run[k].reported \in Nat /\ run[k].total \in Total /\ lost[k] \in Nat /\ Cardinality(TasksOf(k)) \in Nat
      BY FoldedIs, TasksOfAreCounted DEF CrawlInv, CrawlTypes
    <3>2. Cardinality(Companies) \in Nat
      BY CrawlAssumption, FS_CardinalityType
    <3>3. CASE run[k].status = "absent"
      BY <3>2, <3>3, CountInvIs DEF CrawlInv, Total
    <3>4. CASE run[k].status # "absent"
      <4>1. run[k].reported + Cardinality(TasksOf(k)) + lost[k] = run[k].total
        BY <3>4, CountInvIs DEF CrawlInv
      <4> QED BY <3>1, <3>2, <4>1 DEF Total
    <3> QED BY <3>3, <3>4
  <2> QED BY <2>1 DEF CrawlInv, CrawlTypes, CrawlTypeOK, QueueInv, RunRows
<1> QED BY <1>1, CrawlIsHeld, PTL

-----------------------------------------------------------------------------
(* The sweep goes on.                                                      *)

\* A tick that commits leaves a tick waiting: the one it queues, or the one
\* that is why it queues none.
LEMMA CommitLeavesTick ==
  ASSUME QueueInv, CrawlTypes, NEW r \in Runs, CommitTick(r)
  PROVE  Unfinished({"tick", "seeds"})' # {}
<1>1. PICK new \in SUBSET Tasks, next \in SUBSET Tasks, k \in CrawlRuns \cup {NoRun} :
        TickWrites(r, new, next, k)
  BY TickCommits
<1>2. Held(r) \in Tasks /\ status[Held(r)] = "running"
  BY OwnerToken DEF CommitTick, Owns
<1>3. CASE NeedsSuccessor
  <2>1. Cardinality(next) = 1
    BY <1>1, <1>3 DEF TickWrites
  <2>2. PICK t \in next : TRUE
    BY <2>1, FS_EmptySet
  <2>3. status'[t] = "pending" /\ job'[t].kind = "tick"
    BY <1>1, <1>2, <2>2 DEF TickWrites
  <2> QED BY <2>3 DEF Unfinished
<1>4. CASE ~NeedsSuccessor
  <2>1. PICK t \in Tasks : status[t] = "pending" /\ job[t].kind = "tick"
    BY <1>4 DEF NeedsSuccessor, Unfinished
  <2>2. status'[t] = "pending" /\ job'[t].kind = "tick"
    BY <1>1, <1>2, <2>1 DEF TickWrites
  <2> QED BY <2>2 DEF Unfinished
<1> QED BY <1>3, <1>4

LEMMA SweepEndsOnlyByFailing ==
  ASSUME QueueInv, CrawlTypes, [CrawlNext]_vars,
         Unfinished({"tick", "seeds"}) # {}, Unfinished({"tick", "seeds"})' = {}
  PROVE  \E t \in Unfinished({"tick", "seeds"}) : status'[t] = "failed" \/ job[t].kind = "seeds"
<1> PICK t \in Unfinished({"tick", "seeds"}) : TRUE
  OBVIOUS
<1>1. t \in Tasks /\ Open(t) /\ job[t].kind \in {"tick", "seeds"}
  BY DEF Unfinished, Open
<1>2. CASE job[t].kind = "tick"
  <2>1. \A r \in Runs : ~CommitTick(r)
    BY CommitLeavesTick
  <2>2. job'[t] = job[t] /\ (Open(t)' \/ status'[t] = "failed")
    BY <1>1, <1>2, <2>1, TasksEndOpenly
  <2> QED BY <1>1, <1>2, <2>2 DEF Unfinished, Open
<1> QED BY <1>1, <1>2

\* Once a repeating tick was queued, the queue is left without a crawl task
\* only where one fails for good or a seed-file cycle ends (crawl_job.py,
\* _schedule_next_tick).
THEOREM SweepIsCarried == CrawlSpec => SweepGoesOn
<1>1. CrawlInv /\ [CrawlNext]_vars
        => [swept /\ Unfinished({"tick", "seeds"}) # {} /\ Unfinished({"tick", "seeds"})' = {}
              => \E t \in Unfinished({"tick", "seeds"}) :
                   status'[t] = "failed" \/ job[t].kind = "seeds"]_vars
  BY SweepEndsOnlyByFailing DEF CrawlInv
<1> QED BY <1>1, CrawlIsHeld, PTL DEF CrawlSpec, SweepGoesOn
=============================================================================
