---------------------------- MODULE ApplyLedger ----------------------------
(***************************************************************************)
(* Applying to a job: the apply handler (apps/worker/apply_job.py) as a    *)
(* worker runs it from the queue, the application's state machine          *)
(* (packages/core/state.py), the ledger of submit attempts                 *)
(* (packages/core/submissions.py) and the owner's routes                   *)
(* (apps/api/routers/applications.py).                                     *)
(*                                                                         *)
(* JobQueue gives the tasks and the claims.  A run holds one database      *)
(* session: it reads the application once, works on that copy, and writes  *)
(* at its commits, so what it writes may be older than what the owner has  *)
(* said meanwhile.  A run that moved the application to running holds the  *)
(* row's lock until it commits.  Each action is one transaction, or what   *)
(* a run does between two commits.                                         *)
(***************************************************************************)
EXTENDS JobQueue

CONSTANTS
  Apps,              \* applications of one candidate
  JobOf,             \* the job an application is for (find_existing's match)
  AutoSubmit,        \* AUTO_SUBMIT and the profile's opt-in
  StaleSteps,        \* a run may go on acting after its lease has lapsed
  MarkWhileRunning,  \* the owner may mark submitted while a run is going on
  MaxFaults,         \* bound on crashes, and on leases lapsing under a run
  NoApp

Jobs == {JobOf[a] : a \in Apps}

ASSUME ApplyAssumption ==
  /\ IsFiniteSet(Runs)
  /\ JobOf \in [Apps -> Jobs]
  /\ AutoSubmit \in BOOLEAN
  /\ StaleSteps \in BOOLEAN
  /\ MarkWhileRunning \in BOOLEAN
  /\ MaxFaults \in Nat
  /\ NoApp \notin Apps

VARIABLES
  appStatus,   \* Application.status, or "absent"
  approved,    \* review_json["owner_approved"]
  taskApp,     \* payload_json["application_id"] of a task
  fence,       \* AppliedPosting.state of an application's row, or "none"
  pc,          \* where a run is
  target,      \* the application a run works on
  copy,        \* the run's in-memory status and owner_approved
  locks,       \* the run's open transaction has written its application
  prior,       \* _submit's prior_fence_state
  faults,
  \* History, never read by an action:
  clicks,      \* submit clicks that reached the employer, per job
  approvals,   \* the owner's approvals, per job
  settled,     \* times the owner settled an attempt nobody could vouch for
  unresolved   \* a click happened that the owner has not since disowned

ledgerVars == <<fence, clicks, approvals, settled, unresolved>>
runVars == <<pc, target, copy, locks, prior>>
appVars == <<appStatus, approved, taskApp>>
historyVars == <<clicks, approvals, settled, unresolved>>
vars == <<queueVars, appVars, ledgerVars, runVars, faults>>

AppStatuses ==
  {"absent", "queued", "running", "needs_review", "submitted", "failed"}
Terminal == {"submitted", "failed"}
FenceStates == {"none", "attempting", "uncertain", "submitted", "released"}
Places ==
  {"idle", "claimed", "flush", "pipeline", "submit", "armed", "clicked",
   "write", "ack", "failing", "marking", "parking"}
Copies == [status : AppStatuses, approved : BOOLEAN]

ApplicationTypes ==
  /\ appStatus \in [Apps -> AppStatuses]
  /\ approved \in [Apps -> BOOLEAN]
  /\ taskApp \in [Tasks -> Apps \cup {NoApp}]

LedgerTypes ==
  /\ fence \in [Apps -> FenceStates]
  /\ clicks \in [Jobs -> Nat]
  /\ approvals \in [Jobs -> Nat]
  /\ settled \in [Jobs -> Nat]
  /\ unresolved \in [Jobs -> BOOLEAN]

RunTypes ==
  /\ pc \in [Runs -> Places]
  /\ target \in [Runs -> Apps \cup {NoApp}]
  /\ copy \in [Runs -> Copies]
  /\ locks \in [Runs -> BOOLEAN]
  /\ prior \in [Runs -> {"none", "released"}]

ApplyTypeOK ==
  TypeOK /\ ApplicationTypes /\ LedgerTypes /\ RunTypes /\ faults \in 0..MaxFaults

NoCopy == [status |-> "absent", approved |-> FALSE]

ApplyInit ==
  /\ QueueInit
  /\ appStatus = [a \in Apps |-> "absent"]
  /\ approved = [a \in Apps |-> FALSE]
  /\ taskApp = [t \in Tasks |-> NoApp]
  /\ fence = [a \in Apps |-> "none"]
  /\ pc = [r \in Runs |-> "idle"]
  /\ target = [r \in Runs |-> NoApp]
  /\ copy = [r \in Runs |-> NoCopy]
  /\ locks = [r \in Runs |-> FALSE]
  /\ prior = [r \in Runs |-> "none"]
  /\ faults = 0
  /\ clicks = [j \in Jobs |-> 0]
  /\ approvals = [j \in Jobs |-> 0]
  /\ settled = [j \in Jobs |-> 0]
  /\ unresolved = [j \in Jobs |-> FALSE]

-----------------------------------------------------------------------------
(* Locks and the ledger.                                                   *)

\* Nobody else's open transaction has written the application's row.
RowFree(a) == \A s \in Runs : locks[s] => target[s] # a
RowFreeFor(r) == \A s \in Runs \ {r} : locks[s] => target[s] # target[r]

\* Rows find_existing matches for a: those of its job.
JobRows(j) == {a \in Apps : JobOf[a] = j /\ fence[a] # "none"}

\* Mutant: the ledger is asked for the application's own row only.
OthersRowsUnseen(a) == {}

OthersRows(a) == JobRows(JobOf[a]) \ {a}

\* submissions.blocking: what stops the owner approving.
Blocked(a) == OthersRows(a) # {} \/ fence[a] = "submitted"

\* The application's status as a run's own transaction sees it.
Seen(r) == IF locks[r] THEN copy[r].status ELSE appStatus[target[r]]

\* A run acts while it owns its task; cancelled otherwise, unless StaleSteps.
Acts(r, place) == pc[r] = place /\ claim[r] # NoClaim /\ (StaleSteps \/ Owns(r))

\* adapter.submit is under way, before or after its click.
Submitting(r) == Acts(r, "armed") \/ Acts(r, "clicked")

Goto(r, place) == pc' = [pc EXCEPT ![r] = place]
Unlock(r) == locks' = [locks EXCEPT ![r] = FALSE]
SetApp(a, s) == appStatus' = [appStatus EXCEPT ![a] = s]
SetFence(a, s) == fence' = [fence EXCEPT ![a] = s]
SetCopy(r, s) == copy' = [copy EXCEPT ![r].status = s]
WriteReview(r) == approved' = [approved EXCEPT ![target[r]] = copy[r].approved]

-----------------------------------------------------------------------------
(* run_once's claim, and the ways a run ends without an outcome.           *)

Reset(r) ==
  /\ Goto(r, "idle")
  /\ target' = [target EXCEPT ![r] = NoApp]
  /\ copy' = [copy EXCEPT ![r] = NoCopy]
  /\ Unlock(r)
  /\ prior' = [prior EXCEPT ![r] = "none"]

Claim(r) ==
  /\ pc[r] = "idle"
  /\ \E t \in Tasks :
       /\ ClaimTask(r, t)
       /\ target' = [target EXCEPT ![r] = taskApp[t]]
  /\ Goto(r, "claimed")
  /\ UNCHANGED <<appVars, ledgerVars, copy, locks, prior, faults>>

ParkSpentTasks(r) ==
  /\ pc[r] = "idle" /\ ClaimNothing(r)
  /\ UNCHANGED <<appVars, ledgerVars, runVars, faults>>

Renew(r) ==
  /\ RenewLease(r)
  /\ UNCHANGED <<appVars, ledgerVars, runVars, faults>>

LoseClaim(r) ==
  /\ ClaimOwnershipLost(r)
  /\ Reset(r)
  /\ UNCHANGED <<appVars, ledgerVars, faults>>

Die(r) ==
  /\ faults < MaxFaults
  /\ faults' = faults + 1
  /\ \/ Crash(r)
     \/ pc[r] \in {"marking", "parking"} /\ UNCHANGED queueVars
  /\ Reset(r)
  /\ UNCHANGED <<appVars, ledgerVars>>

-----------------------------------------------------------------------------
(* handle_apply: read the application, put it into running, work the form. *)

\* Mutant: a running application is somebody else's, so the task is dropped.
ReadApplicationOfRunning(r) ==
  /\ Acts(r, "claimed")
  /\ copy' = [copy EXCEPT ![r] = [status |-> appStatus[target[r]],
                                  approved |-> approved[target[r]]]]
  /\ Goto(r, IF appStatus[target[r]] \in Terminal \cup {"running"} THEN "ack" ELSE "flush")
  /\ UNCHANGED <<queueVars, appVars, ledgerVars, target, locks, prior, faults>>

\* session.get, and begin_work's decision.  A running row is resumed as it is.
ReadApplication(r) ==
  /\ Acts(r, "claimed")
  /\ LET a == target[r] IN
     /\ copy' = [copy EXCEPT ![r] =
                   [status |-> appStatus[a], approved |-> approved[a]]]
     /\ Goto(r, IF appStatus[a] \in Terminal THEN "ack"
                ELSE IF appStatus[a] = "running" THEN "pipeline"
                ELSE "flush")
  /\ UNCHANGED <<queueVars, appVars, ledgerVars, target, locks, prior, faults>>

\* begin_work's transition reaches the row, unconditionally, and is not yet
\* committed: the row stays locked.
BeginWork(r) ==
  /\ Acts(r, "flush") /\ RowFreeFor(r)
  /\ SetCopy(r, "running")
  /\ locks' = [locks EXCEPT ![r] = TRUE]
  /\ Goto(r, "pipeline")
  /\ UNCHANGED <<queueVars, appVars, ledgerVars, target, prior, faults>>

\* _decide parks: a required question unanswered, or no authority to send.
ParkForReview(r) ==
  /\ Acts(r, "pipeline")
  /\ SetCopy(r, "needs_review") /\ Goto(r, "write")
  /\ UNCHANGED <<queueVars, appVars, ledgerVars, target, locks, prior, faults>>

\* Posting closed, unsupported site, captcha, a site error before the form.
RefuseSite(r) ==
  /\ Acts(r, "pipeline")
  /\ SetCopy(r, "failed") /\ Goto(r, "write")
  /\ UNCHANGED <<queueVars, appVars, ledgerVars, target, locks, prior, faults>>

\* Anything else a handler can raise, and the time limit, which stops it
\* anywhere: rolled back, then _fail.
HandlerError(r) ==
  /\ \E place \in Places \ {"idle", "failing", "marking", "parking"} : Acts(r, place)
  /\ Unlock(r) /\ Goto(r, "failing")
  /\ UNCHANGED <<queueVars, appVars, ledgerVars, target, copy, prior, faults>>

\* Mutant: the approval gate is left out.
DecideWithoutApproval(r) ==
  /\ Acts(r, "pipeline")
  /\ Goto(r, "submit")
  /\ UNCHANGED <<queueVars, appVars, ledgerVars, target, copy, locks, prior, faults>>

\* _decide sends: the owner approved this form, or auto-submit is on.
DecideToSubmit(r) ==
  /\ Acts(r, "pipeline")
  /\ copy[r].approved \/ AutoSubmit
  /\ Goto(r, "submit")
  /\ UNCHANGED <<queueVars, appVars, ledgerVars, target, copy, locks, prior, faults>>

-----------------------------------------------------------------------------
(* _submit, up to its commit before the click.  Under the candidate's      *)
(* lock and the row's it reads the status again and the ledger.            *)

\* The owner, or another run, moved the application on: return quietly, with
\* the row locked and the run's review, flushed before the read, in it.
MovedOn(r) ==
  /\ Acts(r, "submit") /\ RowFreeFor(r)
  /\ Seen(r) # "running"
  /\ SetCopy(r, Seen(r)) /\ locks' = [locks EXCEPT ![r] = TRUE]
  /\ Goto(r, "write")
  /\ UNCHANGED <<queueVars, appVars, ledgerVars, target, prior, faults>>

\* A park _submit commits itself: a conflict, an earlier attempt of its own
\* nobody vouched for, or a job already recorded as sent.
ParkOnFence(r) ==
  /\ Acts(r, "submit") /\ RowFreeFor(r)
  /\ Seen(r) = "running"
  /\ LET a == target[r] IN
     /\ \/ OthersRows(a) # {} /\ UNCHANGED fence
        \/ /\ OthersRows(a) = {}
           /\ fence[a] \in {"attempting", "uncertain"}
           /\ SetFence(a, "uncertain")
        \/ OthersRows(a) = {} /\ fence[a] = "submitted" /\ UNCHANGED fence
     /\ SetApp(a, "needs_review")
  /\ WriteReview(r)
  /\ SetCopy(r, "needs_review") /\ Unlock(r) /\ Goto(r, "ack")
  /\ UNCHANGED <<queueVars, taskApp, historyVars, target, prior, faults>>

\* Mutant: only a submitted row stops a retry of the click.
ArmOverAttempt(r) ==
  /\ Acts(r, "submit") /\ RowFreeFor(r)
  /\ Seen(r) = "running"
  /\ LET a == target[r] IN
     /\ OthersRows(a) = {} /\ fence[a] # "submitted"
     /\ prior' = [prior EXCEPT ![r] = fence[a]]
     /\ SetFence(a, "attempting")
     /\ SetApp(a, "running")
  /\ WriteReview(r)
  /\ Unlock(r) /\ Goto(r, "armed")
  /\ UNCHANGED <<queueVars, taskApp, historyVars, target, copy, faults>>

\* Mutant: the fence is not committed before the click.
ArmUnfenced(r) ==
  /\ Acts(r, "submit") /\ RowFreeFor(r)
  /\ Seen(r) = "running"
  /\ OthersRows(target[r]) = {} /\ fence[target[r]] \in {"none", "released"}
  /\ SetApp(target[r], "running")
  /\ WriteReview(r)
  /\ Unlock(r) /\ Goto(r, "armed")
  /\ UNCHANGED <<queueVars, taskApp, ledgerVars, target, copy, prior, faults>>

\* The fence is durable before the employer is contacted.
Arm(r) ==
  /\ Acts(r, "submit") /\ RowFreeFor(r)
  /\ Seen(r) = "running"
  /\ LET a == target[r] IN
     /\ OthersRows(a) = {} /\ fence[a] \in {"none", "released"}
     /\ prior' = [prior EXCEPT ![r] = fence[a]]
     /\ SetFence(a, "attempting")
     /\ SetApp(a, "running")
  /\ WriteReview(r)
  /\ Unlock(r) /\ Goto(r, "armed")
  /\ UNCHANGED <<queueVars, taskApp, historyVars, target, copy, faults>>

-----------------------------------------------------------------------------
(* adapter.submit, and what _submit makes of it.  The session still holds  *)
(* the fence row it wrote; a row deleted since makes its update an error.  *)

Click(r) ==
  /\ Acts(r, "armed")
  /\ LET j == JobOf[target[r]] IN
     /\ clicks' = [clicks EXCEPT ![j] = @ + 1]
     /\ unresolved' = [unresolved EXCEPT ![j] = TRUE]
  /\ Goto(r, "clicked")
  /\ UNCHANGED <<queueVars, appVars, fence, approvals, settled, target, copy, locks,
                 prior, faults>>

\* ManualCompletionRequired or SiteError before the click: the fence goes back
\* to what it was, committed, and handle_apply fails the application.
RefuseBeforeClick(r) ==
  /\ Acts(r, "armed")
  /\ LET a == target[r] IN
     \/ /\ prior[r] = "released" /\ fence[a] = "none"
        /\ Goto(r, "failing") /\ UNCHANGED <<fence, copy>>
     \/ /\ ~(prior[r] = "released" /\ fence[a] = "none")
        /\ SetFence(a, prior[r])
        /\ SetCopy(r, "failed") /\ Goto(r, "write")
  /\ UNCHANGED <<queueVars, appVars, historyVars, target, locks, prior, faults>>

Confirmed(r) ==
  /\ Acts(r, "clicked") /\ fence[target[r]] # "none" /\ RowFreeFor(r)
  /\ SetFence(target[r], "submitted")
  /\ SetApp(target[r], "submitted")
  /\ SetCopy(r, "submitted") /\ Goto(r, "ack")
  /\ UNCHANGED <<queueVars, approved, taskApp, historyVars, target, locks, prior, faults>>

\* Mutant: no confirmation is taken for a refusal, and the row deleted.
UnconfirmedForgets(r) ==
  /\ Submitting(r) /\ fence[target[r]] # "none" /\ RowFreeFor(r)
  /\ SetFence(target[r], "none")
  /\ SetApp(target[r], "needs_review")
  /\ WriteReview(r)
  /\ SetCopy(r, "needs_review") /\ Goto(r, "ack")
  /\ UNCHANGED <<queueVars, taskApp, historyVars, target, locks, prior, faults>>

\* Any other exception, before the click or after, or no confirmation shown.
Unconfirmed(r) ==
  /\ Submitting(r) /\ fence[target[r]] # "none" /\ RowFreeFor(r)
  /\ SetFence(target[r], "uncertain")
  /\ SetApp(target[r], "needs_review")
  /\ WriteReview(r)
  /\ SetCopy(r, "needs_review") /\ Goto(r, "ack")
  /\ UNCHANGED <<queueVars, taskApp, historyVars, target, locks, prior, faults>>

FenceGone(r) ==
  /\ Submitting(r) /\ fence[target[r]] = "none"
  /\ Goto(r, "failing")
  /\ UNCHANGED <<queueVars, appVars, ledgerVars, target, copy, locks, prior, faults>>

-----------------------------------------------------------------------------
(* _process: the outcome and the task's end in one commit.                 *)

Acknowledge(r) ==
  /\ pc[r] = "ack" /\ CompleteTask(r)
  /\ Reset(r)
  /\ UNCHANGED <<appVars, ledgerVars, faults>>

\* Status and review go to the row as the run's copy has them, whatever is
\* there.  (A refused site may leave the review alone: nothing reads approved
\* of a failed application before another run has written it.)
WriteOutcome(r) ==
  /\ pc[r] = "write" /\ RowFreeFor(r) /\ CompleteTask(r)
  /\ SetApp(target[r], copy[r].status)
  /\ WriteReview(r)
  /\ Reset(r)
  /\ UNCHANGED <<taskApp, ledgerVars, faults>>

FailRun(r) ==
  /\ pc[r] = "failing" /\ FailTask(r, FailLimit)
  /\ IF Retrying(r, FailLimit)
       THEN Reset(r)
       ELSE Goto(r, "marking") /\ UNCHANGED <<target, copy, locks, prior>>
  /\ UNCHANGED <<appVars, ledgerVars, faults>>

\* _mark_application_failed, in a transaction of its own after the task's:
\* park_failed reads the application, and what it writes may come late.
ReadToPark(r) ==
  /\ pc[r] = "marking"
  /\ IF appStatus[target[r]] \in Terminal
       THEN Reset(r)
       ELSE Goto(r, "parking") /\ UNCHANGED <<target, copy, locks, prior>>
  /\ UNCHANGED <<queueVars, appVars, ledgerVars, faults>>

ParkFailed(r) ==
  /\ pc[r] = "parking" /\ RowFreeFor(r)
  /\ SetApp(target[r], "failed")
  /\ Reset(r)
  /\ UNCHANGED <<queueVars, approved, taskApp, ledgerVars, faults>>

-----------------------------------------------------------------------------
(* The owner's routes.  Each takes the candidate's lock and the row's.     *)

NewTask(a) ==
  \E t \in Tasks : Enqueue(t, TRUE) /\ taskApp' = [taskApp EXCEPT ![t] = a]

CreateApplication(a) ==
  /\ appStatus[a] = "absent"
  /\ JobRows(JobOf[a]) = {}
  /\ SetApp(a, "queued")
  /\ NewTask(a)
  /\ UNCHANGED <<approved, ledgerVars, runVars, faults>>

\* Mutant: the decision is committed and no task queued.
ApproveWithoutTask(a) ==
  /\ RowFree(a) /\ appStatus[a] = "needs_review" /\ ~Blocked(a)
  /\ approvals' = [approvals EXCEPT ![JobOf[a]] = @ + 1]
  /\ approved' = [approved EXCEPT ![a] = TRUE]
  /\ SetApp(a, "running")
  /\ UNCHANGED <<queueVars, taskApp, fence, settled, clicks, unresolved, runVars, faults>>

\* Approving releases this application's own uncertain fence for one attempt.
Approve(a) ==
  /\ RowFree(a) /\ appStatus[a] = "needs_review" /\ ~Blocked(a)
  /\ LET j == JobOf[a] IN
     /\ IF fence[a] = "uncertain"
          THEN SetFence(a, "released") /\ settled' = [settled EXCEPT ![j] = @ + 1]
          ELSE UNCHANGED <<fence, settled>>
     /\ approvals' = [approvals EXCEPT ![j] = @ + 1]
  /\ approved' = [approved EXCEPT ![a] = TRUE]
  /\ SetApp(a, "running")
  /\ NewTask(a)
  /\ UNCHANGED <<clicks, unresolved, runVars, faults>>

Reject(a) ==
  /\ RowFree(a) /\ appStatus[a] = "needs_review"
  /\ SetApp(a, "failed")
  /\ UNCHANGED <<queueVars, approved, taskApp, ledgerVars, runVars, faults>>

\* record_manual: its own row first, else the job's, else a new one.
ManualRow(a) ==
  IF fence[a] # "none" \/ OthersRows(a) = {} THEN a
  ELSE CHOOSE b \in OthersRows(a) : TRUE

MarkSubmitted(a) ==
  /\ RowFree(a)
  /\ appStatus[a] \in {"needs_review", "failed", "submitted"}
       \cup (IF MarkWhileRunning THEN {"running"} ELSE {})
  /\ SetFence(ManualRow(a), "submitted")
  /\ SetApp(a, "submitted")
  /\ UNCHANGED <<queueVars, approved, taskApp, historyVars, runVars, faults>>

MarkNotSubmitted(a) ==
  /\ RowFree(a)
  /\ appStatus[a] \notin {"absent", "running", "submitted"}
  /\ fence[a] \notin {"none", "submitted"}
  /\ LET j == JobOf[a] IN
     /\ settled' = [settled EXCEPT ![j] = @ + 1]
     /\ unresolved' = [unresolved EXCEPT ![j] = FALSE]
  /\ SetFence(a, "none")
  /\ UNCHANGED <<queueVars, appVars, clicks, approvals, runVars, faults>>

-----------------------------------------------------------------------------
(* Time.  A lease that lapses under a run still there is a fault: renewals *)
(* failed, or the process was suspended.                                   *)

Lapse(t) ==
  /\ LeaseTick(t)
  /\ IF lease[t] = 1 /\ \E r \in Runs : Owns(r) /\ Held(r) = t
       THEN faults < MaxFaults /\ faults' = faults + 1
       ELSE UNCHANGED faults
  /\ UNCHANGED <<appVars, ledgerVars, runVars>>

ComeDue(t) ==
  /\ DueNow(t)
  /\ UNCHANGED <<appVars, ledgerVars, runVars, faults>>

Work(r) ==
  \/ ReadApplication(r) \/ BeginWork(r)
  \/ ParkForReview(r) \/ RefuseSite(r) \/ HandlerError(r) \/ DecideToSubmit(r)
  \/ MovedOn(r) \/ ParkOnFence(r) \/ Arm(r)
  \/ Click(r) \/ RefuseBeforeClick(r)
  \/ Confirmed(r) \/ Unconfirmed(r) \/ FenceGone(r)
  \/ Acknowledge(r) \/ WriteOutcome(r) \/ FailRun(r)
  \/ ReadToPark(r) \/ ParkFailed(r)
  \/ LoseClaim(r)

Owner(a) ==
  \/ CreateApplication(a) \/ Approve(a) \/ Reject(a)
  \/ MarkSubmitted(a) \/ MarkNotSubmitted(a)

ApplyNext ==
  \/ \E r \in Runs : Claim(r) \/ ParkSpentTasks(r) \/ Renew(r) \/ Work(r) \/ Die(r)
  \/ \E a \in Apps : Owner(a)
  \/ \E t \in Tasks : Lapse(t) \/ ComeDue(t)

ApplySpec == ApplyInit /\ [][ApplyNext]_vars

\* A worker polls, acts and is rescheduled; clocks advance.  Nothing is
\* assumed of the owner or of faults.
ApplyFairness ==
  /\ \A r \in Runs : WF_vars(Claim(r)) /\ WF_vars(ParkSpentTasks(r)) /\ WF_vars(Work(r))
  /\ \A t \in Tasks : WF_vars(Lapse(t)) /\ WF_vars(ComeDue(t))

FairApplySpec == ApplySpec /\ ApplyFairness

-----------------------------------------------------------------------------
(* Properties.                                                             *)

\* Runs past the commit of their fence and not yet at the click.
ArmedFor(j) == {r \in Runs : pc[r] = "armed" /\ JobOf[target[r]] = j}

\* The ledger would let a run of this job arm: no row, or a released one.
MayArm(j) == JobRows(j) = {} \/ \E a \in JobRows(j) : fence[a] = "released"

\* submissions.py: "One durable submit attempt per candidate/job, across
\* retries and profiles."  Counting clicks made, attempts under way and the
\* attempt the ledger still allows, a job never exceeds one, and one more for
\* each time the owner settled an attempt nobody could vouch for: however many
\* workers, stale leases, crashes and redelivered tasks there are.
ClickBudget ==
  \A j \in Jobs :
    clicks[j] + Cardinality(ArmedFor(j)) + (IF MayArm(j) THEN 1 ELSE 0)
      <= 1 + settled[j]

(***************************************************************************)
(* The ledger implements SendOnce: a row that is not released stands for   *)
(* the permission taken, and a run between the commit of its fence and the *)
(* click for the attempt under way.  However stale a run's copy, whoever   *)
(* wrote the row last, an attempt begins only on a permission, a click     *)
(* ends an attempt, and a permission comes back only before the click or   *)
(* from the owner.                                                         *)
(***************************************************************************)
Sending == INSTANCE SendOnce WITH
  Senders <- Runs,
  allowed <- [j \in Jobs |-> MayArm(j)],
  underway <- [j \in Jobs |-> ArmedFor(j)],
  sent <- clicks

ImplementsSendOnce == Sending!Spec

\* Two applications for one job never both have a ledger row, although a row
\* is written by either one's run and by the owner, and the row a run holds in
\* its session may have been deleted since.
OneRowPerJob ==
  \A a, b \in Apps :
    JobOf[a] = JobOf[b] /\ fence[a] # "none" /\ fence[b] # "none" => a = b

\* "The ledger keeps evidence" (submissions.py, forget_unsent): after a click
\* that the owner has not disowned, the job has a row, so that it cannot be
\* applied to afresh.
EvidenceKept == \A j \in Jobs : unresolved[j] => JobRows(j) # {}

\* No click without its fence in the database, "durable before the click":
\* nothing removes the row between the commit and the click.
ClickIsFenced ==
  [][\A j \in Jobs : clicks'[j] # clicks[j] => JobRows(j) # {}]_vars

\* With auto-submit off nothing is sent for a job before the owner approved
\* an application for it (applications.py, review_application).
ClickApproved == AutoSubmit \/ \A j \in Jobs : clicks[j] > 0 => approvals[j] > 0

\* An application nobody is asked about is being worked on, or about to be:
\* it has a task that is not finished, or a run that is failing it.
Unattended(a) ==
  /\ appStatus[a] \in {"queued", "running"}
  /\ \A t \in Tasks : taskApp[t] = a => status[t] \notin {"pending", "running"}
  /\ \A r \in Runs : pc[r] \in {"marking", "parking"} => target[r] # a

\* A task of the application that used its last attempt and failed.
SpentTask(a) ==
  \E t \in Tasks : taskApp[t] = a /\ status[t] = "failed" /\ attempts[t] = MaxAttempts

\* Queued and running applications have work (create_application: "a queued
\* application always has a task"), unless a run was lost on the last attempt.
WorkHasTask == \A a \in Apps : Unattended(a) => SpentTask(a)

\* A worker that keeps polling brings every application to rest, through
\* retries, timeouts and refused writes, unless it spends a task on it.
ComesToRest ==
  \A a \in Apps :
    appStatus[a] \in {"queued", "running"}
      ~> appStatus[a] \in {"needs_review", "submitted", "failed"} \/ SpentTask(a)

\* What documents and comments say, and the code does not always keep.

\* run.py, _mark_application_failed: "Out of retries - the application must
\* not sit in `running` forever."
NoneStuckInRunning == \A a \in Apps : ~(Unattended(a) /\ appStatus[a] = "running")

\* state.py: "submitted (terminal, success)".
SubmittedIsTerminal ==
  [][\A a \in Apps : appStatus[a] = "submitted" => appStatus'[a] = "submitted"]_vars

\* applications.py, review_application: nothing reaches an employer without
\* passing the approval gate: with auto-submit off, one approval, one click.
ClickPerApproval == AutoSubmit \/ \A j \in Jobs : clicks[j] <= approvals[j]
=============================================================================
