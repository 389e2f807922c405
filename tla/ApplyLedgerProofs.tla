------------------------- MODULE ApplyLedgerProofs -------------------------
(***************************************************************************)
(* Proofs about ApplyLedger, for any applications, jobs, tasks and bounds, *)
(* any finite pool of runs, stale runs or not: the queue and the ledger,   *)
(* one send to an attempt, the evidence of a click, the approval before    *)
(* it, and the work behind an application.                                 *)
(*                                                                         *)
(* The evidence can be lost.  A run whose lease has lapsed may still be    *)
(* before its click when the owner settles its attempt for it: the row is  *)
(* then gone, or released, under a run that will click or refuse.  What    *)
(* holds for any pool of runs is that nothing else removes it, and that    *)
(* one run alone never lets the owner do so.                               *)
(***************************************************************************)
EXTENDS ApplyLedger, JobQueueProofs, FiniteSetTheorems

-----------------------------------------------------------------------------
(* The queue inside: every step is one of the queue's, or leaves it alone. *)

LEMMA StepsTheQueue == [ApplyNext]_vars => [QueueNext]_queueVars
<1> SUFFICES ASSUME [ApplyNext]_vars PROVE QueueNext \/ UNCHANGED queueVars
  OBVIOUS
<1>1. ASSUME NEW r \in Runs, Claim(r) \/ ParkSpentTasks(r) \/ Renew(r) \/ Die(r) \/ LoseClaim(r)
      PROVE  QueueNext \/ UNCHANGED queueVars
  BY <1>1 DEF Claim, ParkSpentTasks, Renew, Die, LoseClaim, QueueNext, RunStep
<1>2. ASSUME NEW r \in Runs, Acknowledge(r) \/ WriteOutcome(r) \/ FailRun(r)
      PROVE  QueueNext \/ UNCHANGED queueVars
  BY <1>2 DEF Acknowledge, WriteOutcome, FailRun, QueueNext, RunStep
<1>3. ASSUME NEW r \in Runs,
             \/ ReadApplication(r) \/ BeginWork(r)
             \/ ParkForReview(r) \/ RefuseSite(r) \/ HandlerError(r) \/ DecideToSubmit(r)
             \/ MovedOn(r) \/ ParkOnFence(r) \/ Arm(r)
             \/ Click(r) \/ RefuseBeforeClick(r)
             \/ Confirmed(r) \/ Unconfirmed(r) \/ FenceGone(r)
             \/ ReadToPark(r) \/ ParkFailed(r)
      PROVE  UNCHANGED queueVars
  BY <1>3 DEF ReadApplication, BeginWork, ParkForReview, RefuseSite, HandlerError,
    DecideToSubmit, MovedOn, ParkOnFence, Arm, Click, RefuseBeforeClick, Confirmed,
    Unconfirmed, FenceGone, ReadToPark, ParkFailed
<1>4. ASSUME NEW a \in Apps, Owner(a) PROVE QueueNext \/ UNCHANGED queueVars
  BY <1>4 DEF Owner, CreateApplication, Approve, NewTask, Reject, MarkSubmitted,
    MarkNotSubmitted, QueueNext, TaskStep
<1>5. ASSUME NEW t \in Tasks, Lapse(t) \/ ComeDue(t) PROVE QueueNext
  BY <1>5 DEF Lapse, ComeDue, QueueNext, TaskStep
<1> QED BY <1>1, <1>2, <1>3, <1>4, <1>5 DEF ApplyNext, Work, vars

\* The composition is a queue: what is proved of JobQueue holds of it.
THEOREM RunsTheQueue == ApplySpec => QueueSpec
<1>1. ApplyInit => QueueInit
  BY DEF ApplyInit
<1> QED BY <1>1, StepsTheQueue, PTL DEF ApplySpec, QueueSpec

\* So a run's claim is exclusive here too.
THEOREM ExclusiveRuns == ApplySpec => []QueueInv
BY RunsTheQueue, QueueInvariant, PTL

-----------------------------------------------------------------------------
(* Types, and that a run at work has a known application.                  *)

TargetsKnown ==
  /\ \A t \in Tasks : status[t] # "absent" => taskApp[t] \in Apps
  /\ \A r \in Runs : pc[r] # "idle" => target[r] \in Apps

Base == QueueInv /\ ApplyTypeOK /\ TargetsKnown

\* A run creates no task.
LEMMA RunsCreateNoTask ==
  ASSUME QueueInv, NEW r \in Runs, RunStep(r)
  PROVE  \A t \in Tasks : status[t] = "absent" => status'[t] = "absent"
<1> USE DEF QueueInv, TypeOK
<1>1. ASSUME NEW t \in Tasks, ClaimTask(r, t)
      PROVE  \A u \in Tasks : status[u] = "absent" => status'[u] = "absent"
  BY <1>1 DEF ClaimTask, ParkedStatus, Exhausted, Ready, Runnable
<1>2. CASE ClaimNothing(r)
  BY <1>2 DEF ClaimNothing, ParkedStatus, Exhausted, Runnable
<1>3. CASE RenewLease(r) \/ ClaimOwnershipLost(r) \/ Crash(r)
  BY <1>3 DEF RenewLease, ClaimOwnershipLost, Crash, taskVars
<1>4. ASSUME CompleteTask(r) \/ ReleaseTask(r) \/ DeferTask(r)
             \/ \E limit \in {0, FailLimit} : FailTask(r, limit)
      PROVE  \A u \in Tasks : status[u] = "absent" => status'[u] = "absent"
  <2>1. Owns(r)
    BY <1>4 DEF CompleteTask, ReleaseTask, DeferTask, GiveBack, FailTask
  <2>2. status[Held(r)] = "running"
    BY <2>1 DEF Owns, Held
  <2> QED BY <1>4, <2>2 DEF CompleteTask, ReleaseTask, DeferTask, GiveBack, FailTask
<1> QED BY <1>1, <1>2, <1>3, <1>4 DEF RunStep

\* Steps of a run that write nothing, and only move it.
LEMMA QuietStepKeepsBase ==
  ASSUME Base, NEW r \in Runs,
         \/ ReadApplication(r) \/ BeginWork(r) \/ ParkForReview(r) \/ RefuseSite(r)
         \/ HandlerError(r) \/ DecideToSubmit(r) \/ MovedOn(r) \/ FenceGone(r)
  PROVE  ApplyTypeOK' /\ TargetsKnown'
<1>1. /\ pc[r] # "idle" /\ target[r] \in Apps
      /\ UNCHANGED <<queueVars, appVars, ledgerVars, target, prior, faults>>
  BY DEF Base, TargetsKnown, ReadApplication, BeginWork, ParkForReview, RefuseSite,
    HandlerError, DecideToSubmit, MovedOn, FenceGone, Acts, Submitting
<1>2. /\ pc' \in [Runs -> Places] /\ locks' \in [Runs -> BOOLEAN]
      /\ \A s \in Runs : pc'[s] # "idle" => s = r \/ pc'[s] = pc[s]
  BY DEF Base, ApplyTypeOK, RunTypes, Places, ReadApplication, BeginWork, ParkForReview,
    RefuseSite, HandlerError, DecideToSubmit, MovedOn, FenceGone, Goto, Unlock
<1>3. Seen(r) \in AppStatuses /\ appStatus[target[r]] \in AppStatuses
      /\ approved[target[r]] \in BOOLEAN
  BY <1>1 DEF Base, ApplyTypeOK, ApplicationTypes, RunTypes, Copies, Seen
<1>4. copy' \in [Runs -> Copies]
  <2>1. CASE ReadApplication(r)
    BY <2>1, <1>3 DEF Base, ApplyTypeOK, RunTypes, Copies, ReadApplication
  <2>2. CASE HandlerError(r) \/ DecideToSubmit(r) \/ FenceGone(r)
    BY <2>2 DEF Base, ApplyTypeOK, RunTypes, HandlerError, DecideToSubmit, FenceGone
  <2>3. ASSUME NEW st \in AppStatuses, SetCopy(r, st) PROVE copy' \in [Runs -> Copies]
    BY <2>3 DEF Base, ApplyTypeOK, RunTypes, Copies, SetCopy
  <2>4. {"running", "needs_review", "failed"} \subseteq AppStatuses
    BY DEF AppStatuses
  <2> QED BY <1>3, <2>1, <2>2, <2>3, <2>4 DEF BeginWork, ParkForReview, RefuseSite, MovedOn
<1>5. ApplyTypeOK'
  BY <1>1, <1>2, <1>4 DEF Base, ApplyTypeOK, TypeOK, ApplicationTypes, LedgerTypes, RunTypes,
    queueVars, appVars, ledgerVars
<1>6. TargetsKnown'
  BY <1>1, <1>2 DEF Base, TargetsKnown, queueVars, appVars
<1> QED BY <1>5, <1>6

\* _submit's writes to the application and to the ledger.
LEMMA SubmitStepKeepsBase ==
  ASSUME Base, NEW r \in Runs,
         \/ ParkOnFence(r) \/ Arm(r) \/ Click(r)
         \/ RefuseBeforeClick(r) \/ Confirmed(r) \/ Unconfirmed(r)
  PROVE  ApplyTypeOK' /\ TargetsKnown'
<1>1. /\ pc[r] # "idle" /\ target[r] \in Apps
      /\ UNCHANGED <<queueVars, taskApp, approvals, settled, target, faults>>
  BY DEF Base, TargetsKnown, ParkOnFence, Arm, Click, RefuseBeforeClick, Confirmed,
    Unconfirmed, Acts, Submitting, historyVars, appVars
<1>2. /\ pc' \in [Runs -> Places] /\ locks' \in [Runs -> BOOLEAN]
      /\ \A s \in Runs : pc'[s] # "idle" => s = r \/ pc'[s] = pc[s]
  BY DEF Base, ApplyTypeOK, RunTypes, Places, ParkOnFence, Arm, Click, RefuseBeforeClick,
    Confirmed, Unconfirmed, Goto, Unlock
<1>3. copy[r].approved \in BOOLEAN
  BY DEF Base, ApplyTypeOK, RunTypes, Copies
<1>4. copy' \in [Runs -> Copies]
  <2>1. ASSUME NEW st \in AppStatuses, SetCopy(r, st) PROVE copy' \in [Runs -> Copies]
    BY <2>1 DEF Base, ApplyTypeOK, RunTypes, Copies, SetCopy
  <2>2. {"submitted", "needs_review", "failed"} \subseteq AppStatuses
    BY DEF AppStatuses
  <2>3. CASE UNCHANGED copy
    BY <2>3 DEF Base, ApplyTypeOK, RunTypes
  <2> QED
    BY <2>1, <2>2, <2>3 DEF ParkOnFence, Arm, Click, RefuseBeforeClick, Confirmed, Unconfirmed
<1>5. appStatus' \in [Apps -> AppStatuses]
  BY DEF Base, ApplyTypeOK, ApplicationTypes, AppStatuses, ParkOnFence, Arm, Click,
    RefuseBeforeClick, Confirmed, Unconfirmed, SetApp, appVars
<1>6. approved' \in [Apps -> BOOLEAN]
  BY <1>3 DEF Base, ApplyTypeOK, ApplicationTypes, ParkOnFence, Arm, Click,
    RefuseBeforeClick, Confirmed, Unconfirmed, WriteReview, appVars
<1>7. fence' \in [Apps -> FenceStates] /\ prior' \in [Runs -> {"none", "released"}]
  <2>1. prior[r] \in FenceStates /\ fence \in [Apps -> FenceStates]
        /\ prior \in [Runs -> {"none", "released"}]
    BY DEF Base, ApplyTypeOK, LedgerTypes, RunTypes, FenceStates
  <2> QED BY <2>1 DEF FenceStates, ParkOnFence, Arm, Click, RefuseBeforeClick, Confirmed,
    Unconfirmed, SetFence
<1>8. clicks' \in [Jobs -> Nat]
  BY DEF Base, ApplyTypeOK, LedgerTypes, ParkOnFence, Arm, Click, RefuseBeforeClick,
    Confirmed, Unconfirmed, historyVars
<1>9. unresolved' \in [Jobs -> BOOLEAN]
  BY DEF Base, ApplyTypeOK, LedgerTypes, ParkOnFence, Arm, Click, RefuseBeforeClick,
    Confirmed, Unconfirmed, historyVars
<1>10. ApplyTypeOK'
  BY <1>1, <1>2, <1>4, <1>5, <1>6, <1>7, <1>8, <1>9
    DEF Base, ApplyTypeOK, TypeOK, ApplicationTypes, LedgerTypes, RunTypes, queueVars
<1>11. TargetsKnown'
  BY <1>1, <1>2 DEF Base, TargetsKnown, queueVars
<1> QED BY <1>10, <1>11

LEMMA ResetKeepsRuns ==
  ASSUME RunTypes, NEW r \in Runs, Reset(r)
  PROVE  /\ RunTypes'
         /\ \A s \in Runs : pc'[s] # "idle" => pc'[s] = pc[s] /\ target'[s] = target[s]
BY DEF RunTypes, Reset, Goto, Unlock, Places, Copies, NoCopy, AppStatuses

\* Claims, and what ends a run.
LEMMA BoundaryStepKeepsBase ==
  ASSUME Base, TypeOK', NEW r \in Runs,
         \/ Claim(r) \/ ParkSpentTasks(r) \/ Renew(r) \/ Die(r) \/ LoseClaim(r)
         \/ Acknowledge(r) \/ WriteOutcome(r) \/ FailRun(r)
         \/ ReadToPark(r) \/ ParkFailed(r)
  PROVE  ApplyTypeOK' /\ TargetsKnown'
<1>1. UNCHANGED <<taskApp, ledgerVars>>
  BY DEF Claim, ParkSpentTasks, Renew, Die, LoseClaim, Acknowledge, WriteOutcome, FailRun,
    ReadToPark, ParkFailed, appVars
<1>2. \A t \in Tasks : status'[t] # "absent" => status[t] # "absent"
  <2>1. RunStep(r) \/ UNCHANGED queueVars
    BY DEF Claim, ParkSpentTasks, Renew, Die, LoseClaim, Acknowledge, WriteOutcome, FailRun,
      ReadToPark, ParkFailed, RunStep
  <2> QED BY <2>1, RunsCreateNoTask DEF Base, queueVars
<1>3. faults' \in 0..MaxFaults
  BY ApplyAssumption DEF Base, ApplyTypeOK, Claim, ParkSpentTasks, Renew, Die, LoseClaim,
    Acknowledge, WriteOutcome, FailRun, ReadToPark, ParkFailed
<1>4. ApplicationTypes'
  <2>1. copy[r].status \in AppStatuses /\ copy[r].approved \in BOOLEAN
    BY DEF Base, ApplyTypeOK, RunTypes, Copies
  <2>2. appStatus' \in [Apps -> AppStatuses]
    BY <2>1 DEF Base, ApplyTypeOK, ApplicationTypes, AppStatuses, Claim, ParkSpentTasks, Renew,
      Die, LoseClaim, Acknowledge, WriteOutcome, FailRun, ReadToPark, ParkFailed, SetApp, appVars
  <2>3. approved' \in [Apps -> BOOLEAN]
    BY <2>1 DEF Base, ApplyTypeOK, ApplicationTypes, Claim, ParkSpentTasks, Renew,
      Die, LoseClaim, Acknowledge, WriteOutcome, FailRun, ReadToPark, ParkFailed, WriteReview,
      appVars
  <2> QED BY <1>1, <2>2, <2>3 DEF Base, ApplyTypeOK, ApplicationTypes
<1>5. /\ RunTypes'
      /\ \A s \in Runs : pc'[s] # "idle" => target'[s] \in Apps
  <2>1. CASE Claim(r)
    <3>1. PICK t \in Tasks : ClaimTask(r, t) /\ target' = [target EXCEPT ![r] = taskApp[t]]
      BY <2>1 DEF Claim
    <3>2. taskApp[t] \in Apps
      BY <3>1 DEF Base, TargetsKnown, ClaimTask, Ready, Runnable
    <3> QED BY <2>1, <3>1, <3>2 DEF Claim, Goto, Base, ApplyTypeOK, RunTypes, Places,
      TargetsKnown
  <2>2. CASE ParkSpentTasks(r) \/ Renew(r)
    BY <2>2 DEF ParkSpentTasks, Renew, runVars, Base, ApplyTypeOK, RunTypes, TargetsKnown
  <2>3. CASE Reset(r)
    BY <2>3, ResetKeepsRuns DEF Base, ApplyTypeOK, TargetsKnown
  <2>4. ASSUME NEW place \in {"marking", "parking"}, pc[r] # "idle", Goto(r, place),
               UNCHANGED <<target, copy, locks, prior>>
        PROVE  RunTypes' /\ \A s \in Runs : pc'[s] # "idle" => target'[s] \in Apps
    BY <2>4 DEF Goto, Base, ApplyTypeOK, RunTypes, Places, TargetsKnown
  <2> QED BY <2>1, <2>2, <2>3, <2>4 DEF Die, LoseClaim, Acknowledge, WriteOutcome, FailRun,
    ReadToPark, ParkFailed
<1>6. ApplyTypeOK'
  BY <1>1, <1>3, <1>4, <1>5 DEF Base, ApplyTypeOK, LedgerTypes, ledgerVars
<1> QED BY <1>1, <1>2, <1>5, <1>6 DEF Base, TargetsKnown

\* The owner's routes.
LEMMA OwnerStepKeepsBase ==
  ASSUME Base, TypeOK', NEW a \in Apps, Owner(a)
  PROVE  ApplyTypeOK' /\ TargetsKnown'
<1>1. UNCHANGED <<runVars, faults>>
  BY DEF Owner, CreateApplication, Approve, Reject, MarkSubmitted, MarkNotSubmitted
<1>2. /\ taskApp' \in [Tasks -> Apps \cup {NoApp}]
      /\ \A t \in Tasks : status'[t] # "absent" => taskApp'[t] \in Apps
  <2>1. CASE NewTask(a)
    <3>1. PICK t \in Tasks : Enqueue(t, TRUE) /\ taskApp' = [taskApp EXCEPT ![t] = a]
      BY <2>1 DEF NewTask
    <3> QED BY <3>1 DEF Enqueue, Base, TargetsKnown, QueueInv, TypeOK, ApplyTypeOK,
      ApplicationTypes
  <2>2. CASE UNCHANGED <<queueVars, taskApp>>
    BY <2>2 DEF queueVars, Base, TargetsKnown, ApplyTypeOK, ApplicationTypes
  <2> QED BY <2>1, <2>2 DEF Owner, CreateApplication, Approve, Reject, MarkSubmitted,
    MarkNotSubmitted, appVars
<1>3. appStatus' \in [Apps -> AppStatuses] /\ approved' \in [Apps -> BOOLEAN]
  BY DEF Base, ApplyTypeOK, ApplicationTypes, AppStatuses, Owner, CreateApplication, Approve,
    Reject, MarkSubmitted, MarkNotSubmitted, SetApp, appVars
<1>4. fence' \in [Apps -> FenceStates]
  BY DEF Base, ApplyTypeOK, LedgerTypes, FenceStates, Owner, CreateApplication, Approve,
    Reject, MarkSubmitted, MarkNotSubmitted, SetFence, ledgerVars
<1>5. clicks' \in [Jobs -> Nat] /\ approvals' \in [Jobs -> Nat] /\ settled' \in [Jobs -> Nat]
  <2>1. clicks \in [Jobs -> Nat] /\ approvals \in [Jobs -> Nat] /\ settled \in [Jobs -> Nat]
    BY DEF Base, ApplyTypeOK, LedgerTypes
  <2>j. JobOf[a] \in Jobs
    BY DEF Jobs
  <2>2. CASE Approve(a)
    <3>1. /\ clicks' = clicks
          /\ approvals' = [approvals EXCEPT ![JobOf[a]] = @ + 1]
          /\ settled' \in {settled, [settled EXCEPT ![JobOf[a]] = @ + 1]}
      BY <2>2 DEF Approve
    <3> QED BY <2>1, <2>j, <3>1
  <2>3. CASE MarkNotSubmitted(a)
    <3>1. /\ clicks' = clicks /\ approvals' = approvals
          /\ settled' = [settled EXCEPT ![JobOf[a]] = @ + 1]
      BY <2>3 DEF MarkNotSubmitted
    <3> QED BY <2>1, <2>j, <3>1
  <2>4. CASE CreateApplication(a) \/ Reject(a) \/ MarkSubmitted(a)
    BY <2>1, <2>4 DEF CreateApplication, Reject, MarkSubmitted, ledgerVars, historyVars
  <2> QED BY <2>2, <2>3, <2>4 DEF Owner
<1>6. unresolved' \in [Jobs -> BOOLEAN]
  <2>1. unresolved \in [Jobs -> BOOLEAN]
    BY DEF Base, ApplyTypeOK, LedgerTypes
  <2>2. CASE MarkNotSubmitted(a)
    BY <2>1, <2>2, Zenon DEF MarkNotSubmitted
  <2>3. CASE UNCHANGED unresolved
    BY <2>1, <2>3
  <2> QED BY <2>2, <2>3 DEF Owner, CreateApplication, Approve, Reject, MarkSubmitted,
    ledgerVars, historyVars
<1> QED BY <1>1, <1>2, <1>3, <1>4, <1>5, <1>6 DEF Base, ApplyTypeOK, TargetsKnown, RunTypes,
  runVars, ApplicationTypes, LedgerTypes

LEMMA TimeStepKeepsBase ==
  ASSUME Base, TypeOK', NEW t \in Tasks, Lapse(t) \/ ComeDue(t)
  PROVE  ApplyTypeOK' /\ TargetsKnown'
<1>1. UNCHANGED <<appVars, ledgerVars, runVars, status>>
  BY DEF Lapse, ComeDue, LeaseTick, DueNow
<1>2. faults' \in 0..MaxFaults
  BY ApplyAssumption DEF Base, ApplyTypeOK, Lapse, ComeDue
<1> QED BY <1>1, <1>2 DEF Base, ApplyTypeOK, ApplicationTypes, LedgerTypes, RunTypes,
  TargetsKnown, appVars, ledgerVars, runVars

LEMMA StepKeepsBase == Base /\ [ApplyNext]_vars => Base'
<1> SUFFICES ASSUME Base, [ApplyNext]_vars PROVE Base'
  OBVIOUS
<1>1. QueueInv' /\ TypeOK'
  BY StepsTheQueue, StepKeepsQueueInv DEF Base, QueueInv
<1>2. ASSUME NEW r \in Runs,
             Claim(r) \/ ParkSpentTasks(r) \/ Renew(r) \/ Work(r) \/ Die(r)
      PROVE  ApplyTypeOK' /\ TargetsKnown'
  BY <1>1, <1>2, QuietStepKeepsBase, SubmitStepKeepsBase, BoundaryStepKeepsBase DEF Work
<1>3. UNCHANGED vars => ApplyTypeOK' /\ TargetsKnown'
  BY DEF vars, queueVars, appVars, ledgerVars, runVars, Base, TargetsKnown, ApplyTypeOK,
    TypeOK, ApplicationTypes, LedgerTypes, RunTypes
<1> QED BY <1>1, <1>2, <1>3, OwnerStepKeepsBase, TimeStepKeepsBase DEF ApplyNext, Base

LEMMA InitBase == ApplyInit => Base
<1> SUFFICES ASSUME ApplyInit PROVE Base
  OBVIOUS
<1>1. QueueInv
  BY InitQueueInv DEF ApplyInit
<1>2. ApplicationTypes /\ LedgerTypes
  BY DEF ApplyInit, ApplicationTypes, LedgerTypes, AppStatuses, FenceStates
<1>3. RunTypes
  BY DEF ApplyInit, RunTypes, Places, Copies, NoCopy, AppStatuses
<1>4. TargetsKnown /\ faults \in 0..MaxFaults
  BY ApplyAssumption DEF ApplyInit, QueueInit, TargetsKnown
<1> QED BY <1>1, <1>2, <1>3, <1>4 DEF Base, ApplyTypeOK, QueueInv

\* Type correctness of applications, ledger and runs, with the queue's.
THEOREM ApplyTypeCorrect == ApplySpec => []ApplyTypeOK
<1>1. Base => ApplyTypeOK
  BY DEF Base
<1> QED BY <1>1, InitBase, StepKeepsBase, PTL DEF ApplySpec

-----------------------------------------------------------------------------
(* One row per job.                                                        *)

LEMMA StepKeepsOneRow == Base /\ OneRowPerJob /\ [ApplyNext]_vars => OneRowPerJob'
<1> SUFFICES ASSUME Base, OneRowPerJob, [ApplyNext]_vars PROVE OneRowPerJob'
  OBVIOUS
<1> fence \in [Apps -> FenceStates] /\ prior \in [Runs -> {"none", "released"}]
  BY DEF Base, ApplyTypeOK, LedgerTypes, RunTypes
\* A row of a is written only where it was, or where the job has no other.
<1>1. ASSUME NEW a \in Apps, NEW st, SetFence(a, st), fence[a] # "none" \/ OthersRows(a) = {}
      PROVE  OneRowPerJob'
  BY <1>1 DEF OneRowPerJob, SetFence, OthersRows, JobRows
<1>2. ASSUME NEW a \in Apps, SetFence(a, "none")
      PROVE  OneRowPerJob'
  BY <1>2 DEF OneRowPerJob, SetFence
<1>3. CASE UNCHANGED fence
  BY <1>3 DEF OneRowPerJob
<1>4. ASSUME NEW r \in Runs, ParkOnFence(r) \/ Arm(r) \/ Confirmed(r) \/ Unconfirmed(r)
      PROVE  OneRowPerJob'
  <2>1. target[r] \in Apps
    BY <1>4 DEF Base, TargetsKnown, ParkOnFence, Arm, Confirmed, Unconfirmed, Acts, Submitting
  <2> QED BY <1>1, <1>3, <1>4, <2>1 DEF ParkOnFence, Arm, Confirmed, Unconfirmed
<1>5. ASSUME NEW r \in Runs, RefuseBeforeClick(r) PROVE OneRowPerJob'
  <2>1. target[r] \in Apps
    BY <1>5 DEF Base, TargetsKnown, RefuseBeforeClick, Acts
  <2> QED BY <1>1, <1>2, <1>3, <1>5, <2>1 DEF RefuseBeforeClick
<1>6. ASSUME NEW a \in Apps, Approve(a) \/ MarkNotSubmitted(a) PROVE OneRowPerJob'
  BY <1>1, <1>2, <1>3, <1>6 DEF Approve, MarkNotSubmitted
<1>7. ASSUME NEW a \in Apps, MarkSubmitted(a) PROVE OneRowPerJob'
  <2>1. ManualRow(a) \in Apps
        /\ (fence[ManualRow(a)] # "none" \/ OthersRows(ManualRow(a)) = {})
    BY DEF ManualRow, OthersRows, JobRows
  <2> QED BY <1>1, <1>7, <2>1 DEF MarkSubmitted
<1>8. ASSUME NEW r \in Runs,
             \/ Claim(r) \/ ParkSpentTasks(r) \/ Renew(r) \/ Die(r) \/ LoseClaim(r)
             \/ ReadApplication(r) \/ BeginWork(r) \/ ParkForReview(r) \/ RefuseSite(r)
             \/ HandlerError(r) \/ DecideToSubmit(r) \/ MovedOn(r) \/ Click(r) \/ FenceGone(r)
             \/ Acknowledge(r) \/ WriteOutcome(r) \/ FailRun(r) \/ ReadToPark(r) \/ ParkFailed(r)
      PROVE  UNCHANGED fence
  BY <1>8 DEF Claim, ParkSpentTasks, Renew, Die, LoseClaim, ReadApplication, BeginWork,
    ParkForReview, RefuseSite, HandlerError, DecideToSubmit, MovedOn, Click, FenceGone,
    Acknowledge, WriteOutcome, FailRun, ReadToPark, ParkFailed, ledgerVars
<1>9. ASSUME NEW a \in Apps, CreateApplication(a) \/ Reject(a) PROVE UNCHANGED fence
  BY <1>9 DEF CreateApplication, Reject, ledgerVars
<1>10. ASSUME NEW t \in Tasks, Lapse(t) \/ ComeDue(t) PROVE UNCHANGED fence
  BY <1>10 DEF Lapse, ComeDue, ledgerVars
<1>11. CASE UNCHANGED vars
  BY <1>3, <1>11 DEF vars, ledgerVars
<1> QED BY <1>3, <1>4, <1>5, <1>6, <1>7, <1>8, <1>9, <1>10, <1>11 DEF ApplyNext, Work, Owner

\* No job ever has two rows, whoever writes them.
THEOREM OneRow == ApplySpec => []OneRowPerJob
<1>1. ApplyInit => OneRowPerJob
  BY DEF ApplyInit, OneRowPerJob
<1> QED BY <1>1, InitBase, StepKeepsBase, StepKeepsOneRow, PTL DEF ApplySpec

-----------------------------------------------------------------------------
(* The click budget.  Arming takes the attempt the ledger allows and adds  *)
(* an armed run; the click takes the armed run; a refusal gives both back; *)
(* only the owner's settling adds to what the ledger allows.               *)

LEMMA FewerOrMore ==
  ASSUME NEW S, IsFiniteSet(S), NEW T, NEW x
  PROVE  /\ Cardinality(S) \in Nat
         /\ T \subseteq S => Cardinality(T) \in Nat /\ Cardinality(T) <= Cardinality(S)
         /\ x \in S /\ T \subseteq S \ {x} =>
              Cardinality(T) \in Nat /\ Cardinality(T) + 1 <= Cardinality(S)
         /\ T \subseteq S \cup {x} =>
              Cardinality(T) \in Nat /\ Cardinality(T) <= Cardinality(S) + 1
<1>1. Cardinality(S) \in Nat
  BY FS_CardinalityType
<1>2. ASSUME NEW U, IsFiniteSet(U), T \subseteq U
      PROVE  Cardinality(T) \in Nat /\ Cardinality(T) <= Cardinality(U)
  BY <1>2, FS_Subset, FS_CardinalityType
<1>3. x \in S => IsFiniteSet(S \ {x}) /\ Cardinality(S \ {x}) = Cardinality(S) - 1
  BY FS_RemoveElement
<1>4. /\ IsFiniteSet(S \cup {x})
      /\ Cardinality(S \cup {x}) \in {Cardinality(S), Cardinality(S) + 1}
  BY FS_AddElement
<1>5. ASSUME x \in S, T \subseteq S \ {x}
      PROVE  Cardinality(T) \in Nat /\ Cardinality(T) + 1 <= Cardinality(S)
  <2>1. Cardinality(T) \in Nat /\ Cardinality(T) <= Cardinality(S \ {x})
    BY <1>2, <1>3, <1>5
  <2> QED BY <1>1, <1>3, <1>5, <2>1
<1>6. ASSUME T \subseteq S \cup {x}
      PROVE  Cardinality(T) \in Nat /\ Cardinality(T) <= Cardinality(S) + 1
  <2>1. Cardinality(T) \in Nat /\ Cardinality(T) <= Cardinality(S \cup {x})
    BY <1>2, <1>4, <1>6
  <2> QED BY <1>1, <1>4, <2>1
<1> QED BY <1>1, <1>2, <1>5, <1>6

LEMMA ArmedFinite == \A j : IsFiniteSet(ArmedFor(j))
BY FS_Subset, ApplyAssumption DEF ArmedFor

\* The budget of one job, as ClickBudget states it of all.
Within(j) ==
  clicks[j] + Cardinality(ArmedFor(j)) + (IF MayArm(j) THEN 1 ELSE 0) <= 1 + settled[j]

\* A step that arms nobody and clicks nothing, and either does not widen what
\* the ledger allows or is the owner's settling.
LEMMA WithinKept ==
  ASSUME Base, Base', NEW j \in Jobs, Within(j),
         ArmedFor(j)' \subseteq ArmedFor(j),
         clicks'[j] = clicks[j],
         \/ settled'[j] = settled[j] /\ (MayArm(j)' => MayArm(j))
         \/ settled'[j] = settled[j] + 1
  PROVE  Within(j)'
<1> DEFINE n == Cardinality(ArmedFor(j))
<1>1. n \in Nat /\ n' \in Nat /\ n' <= n
  BY ArmedFinite, FewerOrMore
<1>2. clicks[j] \in Nat /\ settled[j] \in Nat
  BY DEF Base, ApplyTypeOK, LedgerTypes
<1> HIDE DEF n
<1>3. clicks[j] + n + (IF MayArm(j) THEN 1 ELSE 0) <= 1 + settled[j]
  BY DEF Within, n
<1>4. clicks'[j] + n' + (IF MayArm(j)' THEN 1 ELSE 0) <= 1 + settled'[j]
  BY <1>1, <1>2, <1>3
<1> QED BY <1>4 DEF Within, n

\* What a write to one row does to what the ledger allows.
LEMMA ClosedRowAllowsLess ==
  ASSUME fence \in [Apps -> FenceStates], NEW a \in Apps,
         NEW st \in FenceStates \ {"none", "released"}, SetFence(a, st), NEW j
  PROVE  MayArm(j)' => MayArm(j)
BY DEF MayArm, JobRows, SetFence

LEMMA OtherJobsAllowTheSame ==
  ASSUME fence \in [Apps -> FenceStates], NEW a \in Apps, NEW st, SetFence(a, st),
         NEW j, j # JobOf[a]
  PROVE  MayArm(j)' => MayArm(j)
BY DEF MayArm, JobRows, SetFence

LEMMA SameFenceAllowsTheSame ==
  ASSUME fence' = fence, NEW j
  PROVE  MayArm(j)' => MayArm(j)
BY DEF MayArm, JobRows

LEMMA ArmKeepsBudget ==
  ASSUME Base, Base', NEW r \in Runs, Arm(r), NEW j \in Jobs, Within(j)
  PROVE  Within(j)'
<1> DEFINE a == target[r]
           n == Cardinality(ArmedFor(j))
<1>1. /\ a \in Apps /\ OthersRows(a) = {} /\ fence[a] \in {"none", "released"}
      /\ SetFence(a, "attempting")
      /\ UNCHANGED <<clicks, settled, target>>
      /\ pc' = [pc EXCEPT ![r] = "armed"]
  BY DEF Arm, Base, TargetsKnown, Acts, historyVars, Goto
<1>2. fence \in [Apps -> FenceStates] /\ pc \in [Runs -> Places]
  BY DEF Base, ApplyTypeOK, LedgerTypes, RunTypes
<1>3. CASE j # JobOf[a]
  <2>1. ArmedFor(j)' \subseteq ArmedFor(j)
    BY <1>1, <1>2, <1>3 DEF ArmedFor
  <2>2. MayArm(j)' => MayArm(j)
    BY <1>1, <1>2, <1>3, OtherJobsAllowTheSame
  <2> QED BY <1>1, <2>1, <2>2, WithinKept
<1>4. CASE j = JobOf[a]
  <2>1. ArmedFor(j)' \subseteq ArmedFor(j) \cup {r}
    BY <1>1, <1>2 DEF ArmedFor
  <2>2. MayArm(j) /\ ~MayArm(j)'
    BY <1>1, <1>2, <1>4 DEF MayArm, OthersRows, JobRows, SetFence
  <2>3. n \in Nat /\ n' \in Nat /\ n' <= n + 1
    BY <2>1, ArmedFinite, FewerOrMore
  <2>4. clicks[j] \in Nat /\ settled[j] \in Nat
    BY DEF Base, ApplyTypeOK, LedgerTypes
  <2>5. clicks[j] + n + (IF MayArm(j) THEN 1 ELSE 0) <= 1 + settled[j]
    BY DEF Within
  <2> HIDE DEF n
  <2>6. clicks'[j] + n' + (IF MayArm(j)' THEN 1 ELSE 0) <= 1 + settled'[j]
    BY <1>1, <2>2, <2>3, <2>4, <2>5
  <2> QED BY <2>6 DEF Within, n
<1> QED BY <1>3, <1>4

LEMMA ClickKeepsBudget ==
  ASSUME Base, Base', NEW r \in Runs, Click(r), NEW j \in Jobs, Within(j)
  PROVE  Within(j)'
<1> DEFINE n == Cardinality(ArmedFor(j))
<1>1. /\ pc[r] = "armed" /\ target[r] \in Apps
      /\ clicks' = [clicks EXCEPT ![JobOf[target[r]]] = @ + 1]
      /\ UNCHANGED <<fence, settled, target>>
      /\ pc' = [pc EXCEPT ![r] = "clicked"]
  BY DEF Click, Base, TargetsKnown, Acts, Goto
<1>2. pc \in [Runs -> Places]
  BY DEF Base, ApplyTypeOK, RunTypes
<1>3. clicks \in [Jobs -> Nat] /\ settled \in [Jobs -> Nat]
  BY DEF Base, ApplyTypeOK, LedgerTypes
<1>4. MayArm(j)' => MayArm(j)
  BY <1>1, SameFenceAllowsTheSame
<1>5. CASE j # JobOf[target[r]]
  <2>1. ArmedFor(j)' \subseteq ArmedFor(j)
    BY <1>1, <1>2 DEF ArmedFor
  <2>2. clicks'[j] = clicks[j]
    BY <1>1, <1>3, <1>5
  <2> QED BY <1>1, <1>4, <2>1, <2>2, WithinKept
<1>6. CASE j = JobOf[target[r]]
  <2>1. r \in ArmedFor(j) /\ ArmedFor(j)' \subseteq ArmedFor(j) \ {r}
    BY <1>1, <1>2, <1>6 DEF ArmedFor
  <2>2. n \in Nat /\ n' \in Nat /\ n' + 1 <= n
    BY <2>1, ArmedFinite, FewerOrMore
  <2>3. clicks'[j] = clicks[j] + 1
    BY <1>1, <1>3, <1>6
  <2>4. clicks[j] + n + (IF MayArm(j) THEN 1 ELSE 0) <= 1 + settled[j]
    BY DEF Within
  <2> HIDE DEF n
  <2>5. clicks'[j] + n' + (IF MayArm(j)' THEN 1 ELSE 0) <= 1 + settled'[j]
    BY <1>1, <1>3, <1>4, <2>2, <2>3, <2>4
  <2> QED BY <2>5 DEF Within, n
<1> QED BY <1>5, <1>6

LEMMA RefusalKeepsBudget ==
  ASSUME Base, Base', NEW r \in Runs, RefuseBeforeClick(r), NEW j \in Jobs, Within(j)
  PROVE  Within(j)'
<1> DEFINE n == Cardinality(ArmedFor(j))
<1>1. /\ pc[r] = "armed" /\ target[r] \in Apps
      /\ UNCHANGED <<clicks, settled, target>>
      /\ pc' \in {[pc EXCEPT ![r] = place] : place \in {"failing", "write"}}
      /\ fence' = fence \/ SetFence(target[r], prior[r])
  BY DEF RefuseBeforeClick, Base, TargetsKnown, Acts, Goto, historyVars
<1>2. fence \in [Apps -> FenceStates] /\ pc \in [Runs -> Places]
  BY DEF Base, ApplyTypeOK, LedgerTypes, RunTypes
<1>3. clicks \in [Jobs -> Nat] /\ settled \in [Jobs -> Nat]
  BY DEF Base, ApplyTypeOK, LedgerTypes
<1>4. CASE j # JobOf[target[r]]
  <2>1. ArmedFor(j)' \subseteq ArmedFor(j)
    BY <1>1, <1>2 DEF ArmedFor
  <2>2. MayArm(j)' => MayArm(j)
    BY <1>1, <1>2, <1>4, OtherJobsAllowTheSame, SameFenceAllowsTheSame
  <2> QED BY <1>1, <2>1, <2>2, WithinKept
<1>5. CASE j = JobOf[target[r]]
  <2>1. r \in ArmedFor(j) /\ ArmedFor(j)' \subseteq ArmedFor(j) \ {r}
    BY <1>1, <1>2, <1>5 DEF ArmedFor
  <2>2. n \in Nat /\ n' \in Nat /\ n' + 1 <= n
    BY <2>1, ArmedFinite, FewerOrMore
  <2>3. clicks[j] + n + (IF MayArm(j) THEN 1 ELSE 0) <= 1 + settled[j]
    BY DEF Within
  <2>4. /\ clicks'[j] = clicks[j] /\ settled'[j] = settled[j]
        /\ clicks[j] \in Nat /\ settled[j] \in Nat
    BY <1>1, <1>3
  <2> HIDE DEF n
  <2>5. clicks'[j] + n' + (IF MayArm(j)' THEN 1 ELSE 0) <= 1 + settled'[j]
    BY <2>2, <2>3, <2>4
  <2> QED BY <2>5 DEF Within, n
<1> QED BY <1>4, <1>5

\* Steps of a run that leave the ledger alone and do not click.
LEMMA LedgerFreeRunStepKeepsBudget ==
  ASSUME Base, Base', NEW r \in Runs,
         \/ Claim(r) \/ ParkSpentTasks(r) \/ Renew(r) \/ Die(r) \/ LoseClaim(r)
         \/ ReadApplication(r) \/ BeginWork(r) \/ ParkForReview(r) \/ RefuseSite(r)
         \/ HandlerError(r) \/ DecideToSubmit(r) \/ MovedOn(r) \/ FenceGone(r)
         \/ Acknowledge(r) \/ WriteOutcome(r) \/ FailRun(r) \/ ReadToPark(r) \/ ParkFailed(r),
         NEW j \in Jobs, Within(j)
  PROVE  Within(j)'
<1>1. pc \in [Runs -> Places] /\ target \in [Runs -> Apps \cup {NoApp}]
  BY DEF Base, ApplyTypeOK, RunTypes
<1>2. UNCHANGED ledgerVars
  BY DEF Claim, ParkSpentTasks, Renew, Die, LoseClaim, ReadApplication, BeginWork, ParkForReview,
    RefuseSite, HandlerError, DecideToSubmit, MovedOn, FenceGone, Acknowledge, WriteOutcome,
    FailRun, ReadToPark, ParkFailed
<1>3. \A s \in Runs : pc'[s] = "armed" => pc[s] = "armed" /\ target'[s] = target[s]
  <2>1. CASE Claim(r)
    <3>1. /\ pc' = [pc EXCEPT ![r] = "claimed"]
          /\ \E t \in Tasks : target' = [target EXCEPT ![r] = taskApp[t]]
      BY <2>1 DEF Claim, Goto
    <3> QED BY <1>1, <3>1
  <2>2. CASE Reset(r)
    BY <1>1, <2>2 DEF Reset, Goto
  <2>3. ASSUME UNCHANGED target, NEW place \in Places \ {"armed"}, Goto(r, place)
        PROVE  \A s \in Runs : pc'[s] = "armed" => pc[s] = "armed" /\ target'[s] = target[s]
    BY <1>1, <2>3 DEF Goto
  <2>4. CASE UNCHANGED <<pc, target>>
    BY <2>4
  <2>5. ASSUME \/ ReadApplication(r) \/ BeginWork(r) \/ ParkForReview(r) \/ RefuseSite(r)
               \/ HandlerError(r) \/ DecideToSubmit(r) \/ MovedOn(r) \/ FenceGone(r)
        PROVE  UNCHANGED target /\ \E place \in Places \ {"armed"} : Goto(r, place)
    BY <2>5 DEF ReadApplication, BeginWork, ParkForReview, RefuseSite, HandlerError,
      DecideToSubmit, MovedOn, FenceGone, Places
  <2>6. ASSUME \/ Die(r) \/ LoseClaim(r) \/ Acknowledge(r) \/ WriteOutcome(r) \/ FailRun(r)
               \/ ReadToPark(r) \/ ParkFailed(r)
        PROVE  \/ Reset(r)
               \/ UNCHANGED target /\ \E place \in Places \ {"armed"} : Goto(r, place)
    BY <2>6 DEF Die, LoseClaim, Acknowledge, WriteOutcome, FailRun, ReadToPark, ParkFailed, Places
  <2>7. ASSUME ParkSpentTasks(r) \/ Renew(r) PROVE UNCHANGED <<pc, target>>
    BY <2>7 DEF ParkSpentTasks, Renew, runVars
  <2> QED BY <2>1, <2>2, <2>3, <2>4, <2>5, <2>6, <2>7
<1>4. ArmedFor(j)' \subseteq ArmedFor(j)
  BY <1>3 DEF ArmedFor
<1> QED BY <1>2, <1>4, SameFenceAllowsTheSame, WithinKept DEF ledgerVars

\* _submit's writes to rows that it closes.
LEMMA ClosingStepKeepsBudget ==
  ASSUME Base, Base', NEW r \in Runs,
         ParkOnFence(r) \/ Confirmed(r) \/ Unconfirmed(r), NEW j \in Jobs, Within(j)
  PROVE  Within(j)'
<1>1. /\ target[r] \in Apps
      /\ UNCHANGED <<clicks, settled, target>>
      /\ pc' = [pc EXCEPT ![r] = "ack"]
      /\ \/ fence' = fence
         \/ SetFence(target[r], "uncertain") \/ SetFence(target[r], "submitted")
  BY DEF ParkOnFence, Confirmed, Unconfirmed, Submitting, Acts, Base, TargetsKnown, Goto,
    historyVars
<1>2. fence \in [Apps -> FenceStates] /\ pc \in [Runs -> Places]
  BY DEF Base, ApplyTypeOK, LedgerTypes, RunTypes
<1>3. ArmedFor(j)' \subseteq ArmedFor(j)
  BY <1>1, <1>2 DEF ArmedFor
<1>4. MayArm(j)' => MayArm(j)
  BY <1>1, <1>2, SameFenceAllowsTheSame, ClosedRowAllowsLess DEF FenceStates
<1> QED BY <1>1, <1>3, <1>4, WithinKept

LEMMA OwnerStepKeepsBudget ==
  ASSUME Base, Base', NEW a \in Apps, Owner(a), NEW j \in Jobs, Within(j)
  PROVE  Within(j)'
<1>1. UNCHANGED <<clicks, runVars>>
  BY DEF Owner, CreateApplication, Approve, Reject, MarkSubmitted, MarkNotSubmitted, ledgerVars,
    historyVars
<1>2. ArmedFor(j)' \subseteq ArmedFor(j)
  BY <1>1 DEF ArmedFor, runVars
<1>3. fence \in [Apps -> FenceStates] /\ settled \in [Jobs -> Nat]
  BY DEF Base, ApplyTypeOK, LedgerTypes
<1>4. CASE UNCHANGED <<fence, settled>>
  BY <1>1, <1>2, <1>4, SameFenceAllowsTheSame, WithinKept
<1>5. ASSUME NEW st, SetFence(a, st), settled' = [settled EXCEPT ![JobOf[a]] = @ + 1]
      PROVE  Within(j)'
  <2>1. CASE j = JobOf[a]
    BY <1>1, <1>2, <1>3, <1>5, <2>1, WithinKept
  <2>2. CASE j # JobOf[a]
    BY <1>1, <1>2, <1>3, <1>5, <2>2, OtherJobsAllowTheSame, WithinKept
  <2> QED BY <2>1, <2>2
<1>6. CASE MarkSubmitted(a)
  <2>1. ManualRow(a) \in Apps
    BY DEF ManualRow, OthersRows, JobRows
  <2>2. SetFence(ManualRow(a), "submitted") /\ settled' = settled
    BY <1>6 DEF MarkSubmitted, historyVars
  <2>3. MayArm(j)' => MayArm(j)
    BY <1>3, <2>1, <2>2, ClosedRowAllowsLess DEF FenceStates
  <2> QED BY <1>1, <1>2, <2>2, <2>3, WithinKept
<1> QED BY <1>4, <1>5, <1>6 DEF Owner, CreateApplication, Approve, Reject, MarkNotSubmitted,
  ledgerVars

LEMMA StepKeepsBudget == Base /\ ClickBudget /\ [ApplyNext]_vars => ClickBudget'
<1> SUFFICES ASSUME Base, ClickBudget, [ApplyNext]_vars, NEW j \in Jobs PROVE Within(j)'
  BY DEF ClickBudget, Within
<1>1. Base'
  BY StepKeepsBase
<1>2. Within(j)
  BY DEF ClickBudget, Within
<1>3. ASSUME NEW r \in Runs,
             Claim(r) \/ ParkSpentTasks(r) \/ Renew(r) \/ Work(r) \/ Die(r)
      PROVE  Within(j)'
  BY <1>1, <1>2, <1>3, ArmKeepsBudget, ClickKeepsBudget, RefusalKeepsBudget,
    LedgerFreeRunStepKeepsBudget, ClosingStepKeepsBudget DEF Work
<1>4. CASE (\E t \in Tasks : Lapse(t) \/ ComeDue(t)) \/ UNCHANGED vars
  <2>1. UNCHANGED <<ledgerVars, runVars>>
    BY <1>4 DEF Lapse, ComeDue, vars
  <2>2. ArmedFor(j)' \subseteq ArmedFor(j) /\ fence' = fence /\ clicks' = clicks
        /\ settled' = settled
    BY <2>1 DEF ArmedFor, ledgerVars, runVars
  <2> QED BY <1>1, <1>2, <2>2, SameFenceAllowsTheSame, WithinKept
<1> QED BY <1>1, <1>2, <1>3, <1>4, OwnerStepKeepsBudget DEF ApplyNext

\* However many runs, tasks, crashes, retries and stale leases there are, the
\* attempts made, under way and still allowed for a job are at most one, and
\* one more for each attempt the owner settled.
THEOREM AttemptsAreBudgeted == ApplySpec => []ClickBudget
<1>1. ApplyInit => ClickBudget
  <2> SUFFICES ASSUME ApplyInit, NEW j \in Jobs PROVE Within(j)
    BY DEF ClickBudget, Within
  <2>1. ArmedFor(j) = {}
    BY DEF ApplyInit, ArmedFor
  <2>2. clicks[j] = 0 /\ settled[j] = 0
    BY DEF ApplyInit
  <2> QED BY <2>1, <2>2, FS_EmptySet DEF Within
<1> QED BY <1>1, InitBase, StepKeepsBase, StepKeepsBudget, PTL DEF ApplySpec

\* At most one submit click per job, and one more for each attempt the owner
\* settled.
THEOREM OneClick == ApplySpec => [](\A j \in Jobs : clicks[j] <= 1 + settled[j])
<1>1. Base /\ ClickBudget => \A j \in Jobs : clicks[j] <= 1 + settled[j]
  <2> SUFFICES ASSUME Base, ClickBudget, NEW j \in Jobs PROVE clicks[j] <= 1 + settled[j]
    OBVIOUS
  <2>1. Cardinality(ArmedFor(j)) \in Nat /\ clicks[j] \in Nat /\ settled[j] \in Nat
    BY ArmedFinite, FS_CardinalityType DEF Base, ApplyTypeOK, LedgerTypes
  <2> QED BY <2>1 DEF ClickBudget
<1>2. ApplySpec => []Base
  BY InitBase, StepKeepsBase, PTL DEF ApplySpec
<1> QED BY <1>1, <1>2, AttemptsAreBudgeted, PTL

-----------------------------------------------------------------------------
(* The ledger implements SendOnce.  A run's step touches one job, its      *)
(* target's; what it does there is read off the row it writes and off      *)
(* whether the run was, or comes to be, between its fence and its click.   *)

AllowedMap == [j \in Jobs |-> MayArm(j)]
UnderwayMap == [j \in Jobs |-> ArmedFor(j)]

\* What the mapping makes of a write to one row.
LEMMA OneRowWritten ==
  ASSUME fence \in [Apps -> FenceStates], NEW a \in Apps, NEW st, SetFence(a, st)
  PROVE  \A k \in Jobs \ {JobOf[a]} : MayArm(k)' <=> MayArm(k)
BY DEF MayArm, JobRows, SetFence

LEMMA NoRowWritten ==
  ASSUME UNCHANGED fence
  PROVE  \A k \in Jobs : MayArm(k)' <=> MayArm(k)
BY DEF MayArm, JobRows

\* With one row per job, a row that stands and is not released is all there is.
LEMMA ClosedRow ==
  ASSUME fence \in [Apps -> FenceStates], OneRowPerJob', NEW a \in Apps,
         NEW st \in FenceStates \ {"none", "released"}, SetFence(a, st)
  PROVE  ~MayArm(JobOf[a])'
<1>1. \A b \in JobRows(JobOf[a])' : b = a
  BY DEF OneRowPerJob, JobRows, SetFence
<1> QED BY <1>1 DEF MayArm, JobRows, SetFence

LEMMA OpenRow ==
  ASSUME fence \in [Apps -> FenceStates], OneRowPerJob, NEW a \in Apps,
         fence[a] # "none",
         NEW st \in {"none", "released"}, SetFence(a, st)
  PROVE  MayArm(JobOf[a])'
<1>1. CASE st = "none"
  <2>1. JobRows(JobOf[a])' = {}
    BY <1>1 DEF OneRowPerJob, JobRows, SetFence
  <2> QED BY <2>1 DEF MayArm
<1>2. CASE st = "released"
  <2>1. a \in JobRows(JobOf[a])' /\ fence'[a] = "released"
    BY <1>2 DEF JobRows, SetFence
  <2> QED BY <2>1 DEF MayArm
<1> QED BY <1>1, <1>2

\* The run leaves the set of attempts under way, if it was in it.
LEMMA RunLeaves ==
  ASSUME NEW r \in Runs,
         \A s \in Runs \ {r} : pc'[s] = pc[s] /\ target'[s] = target[s],
         pc'[r] # "armed"
  PROVE  \A k \in Jobs : ArmedFor(k)' = ArmedFor(k) \ {r}
BY DEF ArmedFor

\* Three things a step can be, told from what it leaves of each job.
LEMMA IsStutter ==
  ASSUME UNCHANGED <<clicks, settled>>,
         \A k \in Jobs : MayArm(k)' <=> MayArm(k),
         \A k \in Jobs : ArmedFor(k)' = ArmedFor(k)
  PROVE  UNCHANGED Sending!vars
<1>1. AllowedMap' = AllowedMap
  BY Zenon DEF AllowedMap, MayArm
<1>2. UnderwayMap' = UnderwayMap
  BY DEF UnderwayMap
<1> QED BY <1>1, <1>2 DEF Sending!vars, AllowedMap, UnderwayMap

LEMMA AllowedBecomes ==
  ASSUME NEW j \in Jobs, NEW b \in BOOLEAN, MayArm(j)' <=> b,
         \A k \in Jobs \ {j} : MayArm(k)' <=> MayArm(k)
  PROVE  AllowedMap' = [AllowedMap EXCEPT ![j] = b]
<1>1. CASE b
  BY <1>1, Zenon DEF AllowedMap, MayArm
<1>2. CASE ~b
  BY <1>2, Zenon DEF AllowedMap, MayArm
<1> QED BY <1>1, <1>2

LEMMA IsWithdraw ==
  ASSUME UNCHANGED <<clicks, settled>>, NEW j \in Jobs,
         \A k \in Jobs \ {j} : MayArm(k)' <=> MayArm(k),
         ~MayArm(j)',
         \A k \in Jobs : ArmedFor(k)' = ArmedFor(k)
  PROVE  Sending!Withdraw(j)
<1>1. AllowedMap' = [AllowedMap EXCEPT ![j] = FALSE]
  BY AllowedBecomes
<1>2. UnderwayMap' = UnderwayMap
  BY DEF UnderwayMap
<1> QED BY <1>1, <1>2 DEF Sending!Withdraw, AllowedMap, UnderwayMap

LEMMA IsDrop ==
  ASSUME UNCHANGED <<clicks, settled>>, NEW r \in Runs, NEW j \in Jobs,
         r \in ArmedFor(j),
         \A k \in Jobs \ {j} : MayArm(k)' <=> MayArm(k),
         \A k \in Jobs : ArmedFor(k)' = ArmedFor(k) \ {r}
  PROVE  Sending!Drop(r, j)
<1>1. \E again \in BOOLEAN : AllowedMap' = [AllowedMap EXCEPT ![j] = again]
  <2>1. MayArm(j)' => AllowedMap' = [AllowedMap EXCEPT ![j] = TRUE]
    BY AllowedBecomes
  <2>2. ~MayArm(j)' => AllowedMap' = [AllowedMap EXCEPT ![j] = FALSE]
    BY AllowedBecomes
  <2> QED BY <2>1, <2>2
<1>2. UnderwayMap' = [UnderwayMap EXCEPT ![j] = @ \ {r}]
  BY DEF UnderwayMap, ArmedFor
<1> QED BY <1>1, <1>2 DEF Sending!Drop, AllowedMap, UnderwayMap

\* Arm takes the permission.
LEMMA ArmIsBegin ==
  ASSUME Base, OneRowPerJob', NEW r \in Runs, Arm(r)
  PROVE  \E j \in Jobs : Sending!Begin(r, j)
<1>a. PICK a \in Apps : a = target[r]
  BY DEF Arm, Base, TargetsKnown, Acts
<1>3. PICK j \in Jobs : j = JobOf[a]
  BY DEF Jobs
<1>1. /\ pc[r] = "submit"
      /\ OthersRows(a) = {} /\ fence[a] \in {"none", "released"}
      /\ SetFence(a, "attempting")
      /\ UNCHANGED <<clicks, settled, target>>
      /\ pc' = [pc EXCEPT ![r] = "armed"]
  BY <1>a DEF Arm, Acts, historyVars, Goto
<1>2. fence \in [Apps -> FenceStates] /\ pc \in [Runs -> Places]
  BY DEF Base, ApplyTypeOK, LedgerTypes, RunTypes
<1>4. MayArm(j)
  BY <1>1, <1>2, <1>3 DEF MayArm, OthersRows, JobRows
<1>5. ~MayArm(j)'
  BY <1>1, <1>2, <1>3, ClosedRow DEF FenceStates
<1>6. \A k \in Jobs \ {j} : MayArm(k)' <=> MayArm(k)
  BY <1>1, <1>2, <1>3, OneRowWritten
<1>7. AllowedMap' = [AllowedMap EXCEPT ![j] = FALSE]
  BY <1>5, <1>6, AllowedBecomes
<1>8. UnderwayMap' = [UnderwayMap EXCEPT ![j] = @ \cup {r}]
  BY <1>1, <1>2, <1>3, <1>a DEF UnderwayMap, ArmedFor
<1>9. \A k \in Jobs : r \notin ArmedFor(k)
  BY <1>1 DEF ArmedFor
<1>10. Sending!Begin(r, j)
  BY <1>1, <1>4, <1>7, <1>8, <1>9 DEF Sending!Begin, AllowedMap, UnderwayMap
<1> QED BY <1>10

LEMMA ClickIsSend ==
  ASSUME Base, NEW r \in Runs, Click(r)
  PROVE  \E j \in Jobs : Sending!Send(r, j)
<1> DEFINE j == JobOf[target[r]]
<1>1. /\ pc[r] = "armed" /\ target[r] \in Apps
      /\ clicks' = [clicks EXCEPT ![j] = @ + 1]
      /\ UNCHANGED <<fence, settled, target>>
      /\ pc' = [pc EXCEPT ![r] = "clicked"]
  BY DEF Click, Base, TargetsKnown, Acts, Goto
<1>2. pc \in [Runs -> Places]
  BY DEF Base, ApplyTypeOK, RunTypes
<1>3. j \in Jobs /\ r \in ArmedFor(j)
  BY <1>1 DEF Jobs, ArmedFor
<1>4. AllowedMap' = AllowedMap
  <2>1. \A k \in Jobs : MayArm(k)' <=> MayArm(k)
    BY <1>1, NoRowWritten
  <2> QED BY <2>1, Zenon DEF AllowedMap, MayArm
<1>5. UnderwayMap' = [UnderwayMap EXCEPT ![j] = @ \ {r}]
  BY <1>1, <1>2 DEF UnderwayMap, ArmedFor
<1>6. Sending!Send(r, j)
  <2> HIDE DEF j
  <2> QED BY <1>1, <1>3, <1>4, <1>5 DEF Sending!Send, AllowedMap, UnderwayMap
<1> QED BY <1>3, <1>6

\* A run that ends its attempt before the click, whatever it writes.
LEMMA UnsentIsDrop ==
  ASSUME Base, NEW r \in Runs, pc[r] = "armed", pc' \in [Runs -> Places],
         \A s \in Runs \ {r} : pc'[s] = pc[s] /\ target'[s] = target[s],
         pc'[r] # "armed",
         UNCHANGED <<clicks, settled>>,
         UNCHANGED fence \/ \E st \in FenceStates : SetFence(target[r], st)
  PROVE  \E j \in Jobs : Sending!Drop(r, j)
<1> DEFINE j == JobOf[target[r]]
<1>1. target[r] \in Apps /\ fence \in [Apps -> FenceStates]
  BY DEF Base, TargetsKnown, ApplyTypeOK, LedgerTypes
<1>2. j \in Jobs /\ r \in ArmedFor(j)
  BY <1>1 DEF Jobs, ArmedFor
<1>3. \A k \in Jobs \ {j} : MayArm(k)' <=> MayArm(k)
  BY <1>1, NoRowWritten, OneRowWritten
<1>4. \A k \in Jobs : ArmedFor(k)' = ArmedFor(k) \ {r}
  BY RunLeaves
<1>5. Sending!Drop(r, j)
  <2> HIDE DEF j
  <2> QED BY <1>2, <1>3, <1>4, IsDrop
<1> QED BY <1>2, <1>5

\* A run that was not armed, and does not come to be, leaves the attempts.
LEMMA AttemptsLeftAlone ==
  ASSUME NEW r \in Runs, pc[r] # "armed",
         \A s \in Runs \ {r} : pc'[s] = pc[s] /\ target'[s] = target[s],
         pc'[r] # "armed"
  PROVE  \A k \in Jobs : ArmedFor(k)' = ArmedFor(k)
BY DEF ArmedFor

\* A step that leaves the attempts, and any row it writes standing and not
\* released.
LEMMA OtherwiseWithdraws ==
  ASSUME Base, OneRowPerJob',
         \A k \in Jobs : ArmedFor(k)' = ArmedFor(k),
         UNCHANGED <<clicks, settled>>,
         \/ UNCHANGED fence
         \/ \E a \in Apps : \E st \in FenceStates \ {"none", "released"} : SetFence(a, st)
  PROVE  (\E j \in Jobs : Sending!Withdraw(j)) \/ UNCHANGED Sending!vars
<1>1. fence \in [Apps -> FenceStates]
  BY DEF Base, ApplyTypeOK, LedgerTypes
<1>3. CASE UNCHANGED fence
  BY <1>3, NoRowWritten, IsStutter
<1>4. ASSUME NEW a \in Apps, NEW st \in FenceStates \ {"none", "released"}, SetFence(a, st)
      PROVE  \E j \in Jobs : Sending!Withdraw(j)
  <2>1. PICK j \in Jobs : j = JobOf[a]
    BY DEF Jobs
  <2>2. ~MayArm(j)'
    BY <1>1, <1>4, <2>1, ClosedRow
  <2>3. \A k \in Jobs \ {j} : MayArm(k)' <=> MayArm(k)
    BY <1>1, <1>4, <2>1, OneRowWritten
  <2>4. Sending!Withdraw(j)
    BY <2>2, <2>3, IsWithdraw
  <2> QED BY <2>4
<1> QED BY <1>3, <1>4

\* The owner's word on an attempt.
LEMMA IsSettle ==
  ASSUME Base, OneRowPerJob, NEW a \in Apps, fence[a] # "none",
         NEW st \in {"none", "released"}, SetFence(a, st),
         settled' = [settled EXCEPT ![JobOf[a]] = @ + 1],
         UNCHANGED <<clicks, pc, target>>
  PROVE  \E j \in Jobs : Sending!Settle(j)
<1>1. fence \in [Apps -> FenceStates]
  BY DEF Base, ApplyTypeOK, LedgerTypes
<1>2. PICK j \in Jobs : j = JobOf[a]
  BY DEF Jobs
<1>3. MayArm(j)'
  BY <1>1, <1>2, OpenRow
<1>4. \A k \in Jobs \ {j} : MayArm(k)' <=> MayArm(k)
  BY <1>1, <1>2, OneRowWritten
<1>5. AllowedMap' = [AllowedMap EXCEPT ![j] = TRUE]
  BY <1>3, <1>4, AllowedBecomes
<1>6. UnderwayMap' = UnderwayMap
  BY DEF UnderwayMap, ArmedFor
<1>7. Sending!Settle(j)
  BY <1>2, <1>5, <1>6 DEF Sending!Settle, AllowedMap, UnderwayMap
<1> QED BY <1>7

LEMMA OwnerStepIsMapped ==
  ASSUME Base, OneRowPerJob, OneRowPerJob', NEW a \in Apps, Owner(a)
  PROVE  [Sending!Next]_(Sending!vars)
<1>1. UNCHANGED <<clicks, pc, target>>
  BY DEF Owner, CreateApplication, Approve, Reject, MarkSubmitted, MarkNotSubmitted, runVars,
    ledgerVars, historyVars
<1>2. \A k \in Jobs : ArmedFor(k)' = ArmedFor(k)
  BY <1>1 DEF ArmedFor
<1>3. CASE UNCHANGED <<fence, settled>>
  BY <1>1, <1>2, <1>3, OtherwiseWithdraws DEF Sending!Next
<1>4. CASE MarkSubmitted(a)
  <2>1. PICK b \in Apps : b = ManualRow(a)
    BY DEF ManualRow, OthersRows, JobRows
  <2>2. SetFence(b, "submitted") /\ UNCHANGED <<clicks, settled>>
    BY <1>4, <2>1 DEF MarkSubmitted, historyVars
  <2>3. "submitted" \in FenceStates \ {"none", "released"}
    BY DEF FenceStates
  <2> QED BY <1>2, <2>2, <2>3, OtherwiseWithdraws DEF Sending!Next
<1>5. CASE Approve(a) /\ fence[a] = "uncertain"
  <2>1. SetFence(a, "released") /\ settled' = [settled EXCEPT ![JobOf[a]] = @ + 1]
    BY <1>5 DEF Approve
  <2> QED BY <1>1, <1>5, <2>1, IsSettle DEF Sending!Next
<1>6. CASE MarkNotSubmitted(a)
  <2>1. /\ SetFence(a, "none") /\ settled' = [settled EXCEPT ![JobOf[a]] = @ + 1]
        /\ fence[a] # "none"
    BY <1>6 DEF MarkNotSubmitted
  <2> QED BY <1>1, <2>1, IsSettle DEF Sending!Next
<1>7. CASE CreateApplication(a) \/ Reject(a) \/ (Approve(a) /\ fence[a] # "uncertain")
  <2>1. UNCHANGED <<fence, settled>>
    BY <1>7 DEF CreateApplication, Reject, Approve, ledgerVars
  <2> QED BY <1>3, <2>1
<1> QED BY <1>4, <1>5, <1>6, <1>7 DEF Owner

\* The ways a run can leave the place before its click, other than the click.
LEMMA ArmedStepIsMapped ==
  ASSUME Base, NEW r \in Runs, pc[r] = "armed", Base',
         \/ HandlerError(r) \/ RefuseBeforeClick(r) \/ Unconfirmed(r) \/ FenceGone(r)
         \/ LoseClaim(r) \/ Die(r)
  PROVE  \E j \in Jobs : Sending!Drop(r, j)
<1>1. fence' \in [Apps -> FenceStates] /\ prior \in [Runs -> {"none", "released"}]
      /\ pc \in [Runs -> Places] /\ pc' \in [Runs -> Places] /\ target \in [Runs -> Apps \cup {NoApp}]
  BY DEF Base, ApplyTypeOK, LedgerTypes, RunTypes
<1>2. UNCHANGED <<clicks, settled>>
  BY DEF HandlerError, RefuseBeforeClick, Unconfirmed, FenceGone, LoseClaim, Die, ledgerVars,
    historyVars
<1>3. /\ \A s \in Runs \ {r} : pc'[s] = pc[s] /\ target'[s] = target[s]
      /\ pc'[r] # "armed"
  BY <1>1 DEF HandlerError, RefuseBeforeClick, Unconfirmed, FenceGone, LoseClaim, Die, Goto, Reset
<1>4. UNCHANGED fence \/ \E st \in FenceStates : SetFence(target[r], st)
  BY <1>1 DEF HandlerError, RefuseBeforeClick, Unconfirmed, FenceGone, LoseClaim, Die, ledgerVars,
    FenceStates
<1> QED BY <1>1, <1>2, <1>3, <1>4, UnsentIsDrop

LEMMA RunStepIsMapped ==
  ASSUME Base, Base', OneRowPerJob', NEW r \in Runs,
         Claim(r) \/ ParkSpentTasks(r) \/ Renew(r) \/ Work(r) \/ Die(r)
  PROVE  [Sending!Next]_(Sending!vars)
<1>t. /\ pc \in [Runs -> Places] /\ pc' \in [Runs -> Places]
      /\ target \in [Runs -> Apps \cup {NoApp}]
      /\ pc[r] # "idle" => target[r] \in Apps
  BY DEF Base, ApplyTypeOK, RunTypes, TargetsKnown
<1>1. CASE Arm(r)
  BY <1>1, ArmIsBegin DEF Sending!Next
<1>2. CASE Click(r)
  BY <1>2, ClickIsSend DEF Sending!Next
<1>3. CASE ParkSpentTasks(r) \/ Renew(r)
  <2>1. UNCHANGED <<clicks, settled, fence, pc, target>>
    BY <1>3 DEF ParkSpentTasks, Renew, ledgerVars, runVars
  <2>2. \A k \in Jobs : ArmedFor(k)' = ArmedFor(k)
    BY <2>1 DEF ArmedFor
  <2> QED BY <2>1, <2>2, OtherwiseWithdraws DEF Sending!Next
<1>4. CASE /\ pc[r] = "armed"
           /\ \/ HandlerError(r) \/ RefuseBeforeClick(r) \/ Unconfirmed(r) \/ FenceGone(r)
              \/ LoseClaim(r) \/ Die(r)
  BY <1>4, ArmedStepIsMapped DEF Sending!Next
<1>5. ASSUME pc[r] # "armed",
             \/ HandlerError(r) \/ FenceGone(r) \/ LoseClaim(r) \/ Die(r) \/ Claim(r)
             \/ ReadApplication(r) \/ BeginWork(r) \/ ParkForReview(r) \/ RefuseSite(r)
             \/ DecideToSubmit(r) \/ MovedOn(r)
             \/ Acknowledge(r) \/ WriteOutcome(r) \/ FailRun(r) \/ ReadToPark(r) \/ ParkFailed(r)
      PROVE  [Sending!Next]_(Sending!vars)
  <2>1. UNCHANGED <<clicks, settled, fence>>
    BY <1>5 DEF HandlerError, FenceGone, LoseClaim, Die, Claim, ReadApplication, BeginWork,
      ParkForReview, RefuseSite, DecideToSubmit, MovedOn, Acknowledge, WriteOutcome, FailRun,
      ReadToPark, ParkFailed, ledgerVars
  <2>2. \A s \in Runs \ {r} : pc'[s] = pc[s] /\ target'[s] = target[s]
    BY <1>5, <1>t DEF HandlerError, FenceGone, LoseClaim, Die, Claim, ReadApplication, BeginWork,
      ParkForReview, RefuseSite, DecideToSubmit, MovedOn, Acknowledge, WriteOutcome, FailRun,
      ReadToPark, ParkFailed, Goto, Reset
  <2>3. pc'[r] # "armed"
    BY <1>5, <1>t DEF HandlerError, FenceGone, LoseClaim, Die, Claim, ReadApplication, BeginWork,
      ParkForReview, RefuseSite, DecideToSubmit, MovedOn, Acknowledge, WriteOutcome, FailRun,
      ReadToPark, ParkFailed, Goto, Reset, Terminal
  <2>4. \A k \in Jobs : ArmedFor(k)' = ArmedFor(k)
    BY <1>5, <2>2, <2>3, AttemptsLeftAlone
  <2> QED BY <2>1, <2>4, OtherwiseWithdraws DEF Sending!Next
<1>6. ASSUME pc[r] # "armed", ParkOnFence(r) \/ Confirmed(r) \/ Unconfirmed(r)
      PROVE  [Sending!Next]_(Sending!vars)
  <2>1. PICK a \in Apps : a = target[r]
    BY <1>6, <1>t DEF ParkOnFence, Confirmed, Unconfirmed, Acts, Submitting
  <2>2. UNCHANGED <<clicks, settled>>
    BY <1>6 DEF ParkOnFence, Confirmed, Unconfirmed, historyVars
  <2>3. /\ \A s \in Runs \ {r} : pc'[s] = pc[s] /\ target'[s] = target[s]
        /\ pc'[r] # "armed"
    BY <1>6, <1>t DEF ParkOnFence, Confirmed, Unconfirmed, Goto
  <2>4. \A k \in Jobs : ArmedFor(k)' = ArmedFor(k)
    BY <1>6, <2>3, AttemptsLeftAlone
  <2>5. UNCHANGED fence \/ \E st \in FenceStates \ {"none", "released"} : SetFence(a, st)
    BY <1>6, <2>1 DEF ParkOnFence, Confirmed, Unconfirmed, FenceStates
  <2> QED BY <2>2, <2>4, <2>5, OtherwiseWithdraws DEF Sending!Next
<1>7. CASE RefuseBeforeClick(r)
  BY <1>4, <1>7 DEF RefuseBeforeClick, Acts
<1>8. ASSUME \/ Claim(r) \/ ReadApplication(r) \/ BeginWork(r) \/ ParkForReview(r)
             \/ RefuseSite(r) \/ DecideToSubmit(r) \/ MovedOn(r) \/ ParkOnFence(r)
             \/ Confirmed(r)
             \/ Acknowledge(r) \/ WriteOutcome(r) \/ FailRun(r) \/ ReadToPark(r) \/ ParkFailed(r)
      PROVE  pc[r] # "armed"
  BY <1>8 DEF Claim, ReadApplication, BeginWork, ParkForReview, RefuseSite, DecideToSubmit,
    MovedOn, ParkOnFence, Confirmed, Acknowledge, WriteOutcome, FailRun, ReadToPark, ParkFailed,
    Acts
<1> QED BY <1>1, <1>2, <1>3, <1>4, <1>5, <1>6, <1>7, <1>8 DEF Work

LEMMA StepIsSendStep ==
  Base /\ Base' /\ OneRowPerJob /\ OneRowPerJob' /\ [ApplyNext]_vars
    => [Sending!Next]_(Sending!vars)
<1> SUFFICES ASSUME Base, Base', OneRowPerJob, OneRowPerJob', [ApplyNext]_vars
             PROVE  [Sending!Next]_(Sending!vars)
  OBVIOUS
<1>1. ASSUME NEW t \in Tasks, Lapse(t) \/ ComeDue(t) PROVE [Sending!Next]_(Sending!vars)
  <2>1. UNCHANGED <<clicks, settled, fence, pc, target>>
    BY <1>1 DEF Lapse, ComeDue, ledgerVars, runVars
  <2>2. \A k \in Jobs : ArmedFor(k)' = ArmedFor(k)
    BY <2>1 DEF ArmedFor
  <2> QED BY <2>1, <2>2, OtherwiseWithdraws DEF Sending!Next
<1>2. CASE UNCHANGED vars
  <2>1. UNCHANGED <<clicks, settled, fence, pc, target>>
    BY <1>2 DEF vars, ledgerVars, runVars
  <2>2. \A k \in Jobs : ArmedFor(k)' = ArmedFor(k)
    BY <2>1 DEF ArmedFor
  <2> QED BY <2>1, <2>2, OtherwiseWithdraws DEF Sending!Next
<1> QED BY <1>1, <1>2, RunStepIsMapped, OwnerStepIsMapped DEF ApplyNext

LEMMA InitIsSendInit == ApplyInit => Sending!Init
<1> SUFFICES ASSUME ApplyInit PROVE Sending!Init
  OBVIOUS
<1>1. \A j \in Jobs : MayArm(j) /\ ArmedFor(j) = {}
  BY DEF ApplyInit, MayArm, JobRows, ArmedFor
<1>2. [j \in Jobs |-> MayArm(j)] = [j \in Jobs |-> TRUE]
  BY <1>1, Zenon DEF MayArm
<1>3. [j \in Jobs |-> ArmedFor(j)] = [j \in Jobs |-> {}]
  BY <1>1
<1> QED BY <1>2, <1>3 DEF Sending!Init, ApplyInit

\* ApplyLedger's ImplementsSendOnce: however many workers there are, however
\* stale what they hold and wherever they die, an attempt begins only on a
\* permission, every click ends an attempt, and a permission once taken comes
\* back only unsent, or from the owner.
THEOREM LedgerSendsOnce == ApplySpec => ImplementsSendOnce
<1>1. ApplySpec => []Base
  BY InitBase, StepKeepsBase, PTL DEF ApplySpec
<1> QED BY <1>1, OneRow, InitIsSendInit, StepIsSendStep, PTL
  DEF ApplySpec, ImplementsSendOnce, Sending!Spec

-----------------------------------------------------------------------------
(* The row behind a click.                                                 *)

\* The owner settles no attempt that a run is about to click for.
SettlesOnlyWhatIsOver == \A j \in Jobs : settled'[j] # settled[j] => ArmedFor(j) = {}

ArmedIsSole ==
  \A r, s \in Runs :
    pc[r] = "armed" /\ pc[s] = "armed" /\ JobOf[target[r]] = JobOf[target[s]] => r = s

ArmedIsFenced ==
  \A r \in Runs : pc[r] = "armed" => fence[target[r]] \notin {"none", "released"}

\* A run that would delete its row on a refusal has nothing clicked behind it.
ArmedAfresh ==
  \A r \in Runs : pc[r] = "armed" /\ prior[r] = "none" => ~unresolved[JobOf[target[r]]]

\* The inductive invariant, with OneRowPerJob and Base.
EvidenceInv == ArmedIsSole /\ ArmedIsFenced /\ ArmedAfresh /\ EvidenceKept

\* A run gets to be armed by Arm alone, and armed it keeps what it works on.
LEMMA ArmedWereArmed ==
  ASSUME Base, [ApplyNext]_vars, NEW s \in Runs, pc'[s] = "armed", ~Arm(s)
  PROVE  pc[s] = "armed" /\ target'[s] = target[s] /\ prior'[s] = prior[s]
<1>1. /\ pc \in [Runs -> Places] /\ target \in [Runs -> Apps \cup {NoApp}]
      /\ prior \in [Runs -> {"none", "released"}]
  BY DEF Base, ApplyTypeOK, RunTypes
<1>2. CASE UNCHANGED <<pc, target, prior>>
  BY <1>2
<1>3. ASSUME NEW r \in Runs, Reset(r) PROVE pc[s] = "armed" /\ target'[s] = target[s] /\ prior'[s] = prior[s]
  BY <1>1, <1>3 DEF Reset, Goto
<1>4. ASSUME NEW r \in Runs, NEW place \in Places \ {"armed"}, Goto(r, place),
             UNCHANGED <<target, prior>>
      PROVE  pc[s] = "armed" /\ target'[s] = target[s] /\ prior'[s] = prior[s]
  BY <1>1, <1>4 DEF Goto
<1>5. ASSUME NEW r \in Runs, Claim(r)
      PROVE  pc[s] = "armed" /\ target'[s] = target[s] /\ prior'[s] = prior[s]
  <2>1. /\ pc' = [pc EXCEPT ![r] = "claimed"] /\ prior' = prior
        /\ \E t \in Tasks : target' = [target EXCEPT ![r] = taskApp[t]]
    BY <1>5 DEF Claim, Goto
  <2> QED BY <1>1, <2>1
<1>6. ASSUME NEW r \in Runs, Arm(r)
      PROVE  pc[s] = "armed" /\ target'[s] = target[s] /\ prior'[s] = prior[s]
  <2>1. r # s
    BY <1>6
  <2>2. /\ pc' = [pc EXCEPT ![r] = "armed"] /\ target' = target
        /\ \E st : prior' = [prior EXCEPT ![r] = st]
    BY <1>6 DEF Arm, Goto
  <2> QED BY <1>1, <2>1, <2>2
<1>7. ASSUME NEW r \in Runs,
             \/ ReadApplication(r) \/ BeginWork(r) \/ ParkForReview(r) \/ RefuseSite(r)
             \/ HandlerError(r) \/ DecideToSubmit(r) \/ MovedOn(r) \/ FenceGone(r)
             \/ ParkOnFence(r) \/ Click(r) \/ RefuseBeforeClick(r) \/ Confirmed(r)
             \/ Unconfirmed(r)
      PROVE  UNCHANGED <<target, prior>> /\ \E place \in Places \ {"armed"} : Goto(r, place)
  BY <1>7 DEF ReadApplication, BeginWork, ParkForReview, RefuseSite, HandlerError,
    DecideToSubmit, MovedOn, FenceGone, ParkOnFence, Click, RefuseBeforeClick, Confirmed,
    Unconfirmed, Places
<1>8. ASSUME NEW r \in Runs,
             \/ Die(r) \/ LoseClaim(r) \/ Acknowledge(r) \/ WriteOutcome(r) \/ FailRun(r)
             \/ ReadToPark(r) \/ ParkFailed(r)
      PROVE  \/ Reset(r)
             \/ UNCHANGED <<target, prior>> /\ \E place \in Places \ {"armed"} : Goto(r, place)
  BY <1>8 DEF Die, LoseClaim, Acknowledge, WriteOutcome, FailRun, ReadToPark, ParkFailed, Places
<1>9. ASSUME NEW r \in Runs, ParkSpentTasks(r) \/ Renew(r) PROVE UNCHANGED <<pc, target, prior>>
  BY <1>9 DEF ParkSpentTasks, Renew, runVars
<1>10. ASSUME NEW a \in Apps, Owner(a) PROVE UNCHANGED <<pc, target, prior>>
  BY <1>10 DEF Owner, CreateApplication, Approve, Reject, MarkSubmitted, MarkNotSubmitted, runVars
<1>11. ASSUME NEW t \in Tasks, Lapse(t) \/ ComeDue(t) PROVE UNCHANGED <<pc, target, prior>>
  BY <1>11 DEF Lapse, ComeDue, runVars
<1>12. CASE UNCHANGED vars
  BY <1>12, <1>2 DEF vars, runVars
<1> QED BY <1>2, <1>3, <1>4, <1>5, <1>6, <1>7, <1>8, <1>9, <1>10, <1>11, <1>12
  DEF ApplyNext, Work

\* Nothing but a run's click adds to the clicks.
LEMMA OnlyClicksCount ==
  ASSUME ApplyNext, \A r \in Runs : ~Click(r)
  PROVE  clicks' = clicks
<1>1. ASSUME NEW r \in Runs,
             Claim(r) \/ ParkSpentTasks(r) \/ Renew(r) \/ Work(r) \/ Die(r)
      PROVE  clicks' = clicks
  BY <1>1 DEF Work, Claim, ParkSpentTasks, Renew, Die, LoseClaim, ReadApplication, BeginWork,
    ParkForReview, RefuseSite, HandlerError, DecideToSubmit, MovedOn, FenceGone, Acknowledge,
    WriteOutcome, FailRun, ReadToPark, ParkFailed, ParkOnFence, Arm, RefuseBeforeClick,
    Confirmed, Unconfirmed, ledgerVars, historyVars
<1>2. ASSUME NEW a \in Apps, Owner(a) PROVE clicks' = clicks
  BY <1>2 DEF Owner, CreateApplication, Approve, Reject, MarkSubmitted, MarkNotSubmitted,
    ledgerVars, historyVars
<1>3. ASSUME NEW t \in Tasks, Lapse(t) \/ ComeDue(t) PROVE clicks' = clicks
  BY <1>3 DEF Lapse, ComeDue, ledgerVars
<1> QED BY <1>1, <1>2, <1>3 DEF ApplyNext

\* A step that arms nobody and disturbs no row and no click.
LEMMA QuietLedgerKeepsEvidence ==
  ASSUME Base, [ApplyNext]_vars, EvidenceInv, \A r \in Runs : ~Arm(r),
         fence' = fence, unresolved' = unresolved
  PROVE  EvidenceInv'
<1>1. \A s \in Runs : pc'[s] = "armed" =>
        pc[s] = "armed" /\ target'[s] = target[s] /\ prior'[s] = prior[s]
  BY ArmedWereArmed
<1> QED BY <1>1 DEF EvidenceInv, ArmedIsSole, ArmedIsFenced, ArmedAfresh, EvidenceKept, JobRows

\* Neither does one that closes a row, or releases one of a job nobody is armed for.
LEMMA RowKeptKeepsEvidence ==
  ASSUME Base, [ApplyNext]_vars, EvidenceInv, \A r \in Runs : ~Arm(r), unresolved' = unresolved,
         NEW a \in Apps, NEW st \in FenceStates \ {"none"}, SetFence(a, st),
         st = "released" => ArmedFor(JobOf[a]) = {}
  PROVE  EvidenceInv'
<1>1. \A s \in Runs : pc'[s] = "armed" =>
        pc[s] = "armed" /\ target'[s] = target[s] /\ prior'[s] = prior[s]
  BY ArmedWereArmed
<1>2. fence \in [Apps -> FenceStates]
  BY DEF Base, ApplyTypeOK, LedgerTypes
<1>3. \A j \in Jobs : JobRows(j) \subseteq JobRows(j)'
  BY <1>2 DEF JobRows, SetFence
<1>4. EvidenceKept'
  BY <1>3 DEF EvidenceInv, EvidenceKept
<1>5. ArmedIsFenced'
  <2> SUFFICES ASSUME NEW s \in Runs, pc'[s] = "armed"
               PROVE  fence'[target'[s]] \notin {"none", "released"}
    BY DEF ArmedIsFenced
  <2>1. pc[s] = "armed" /\ target'[s] = target[s] /\ target[s] \in Apps
        /\ fence[target[s]] \notin {"none", "released"}
    BY <1>1 DEF EvidenceInv, ArmedIsFenced, Base, TargetsKnown
  <2>2. st = "released" => target[s] # a
    BY <2>1 DEF ArmedFor
  <2> QED BY <1>2, <2>1, <2>2 DEF SetFence
<1> QED BY <1>1, <1>4, <1>5 DEF EvidenceInv, ArmedIsSole, ArmedAfresh

\* Arming: the job had no row but a released one of this application, so no
\* run was armed for it; and with no row at all nothing had been clicked.
LEMMA ArmKeepsEvidence ==
  ASSUME Base, [ApplyNext]_vars, EvidenceInv, NEW r \in Runs, Arm(r)
  PROVE  EvidenceInv'
<1> DEFINE a == target[r]
<1>1. /\ a \in Apps /\ OthersRows(a) = {} /\ fence[a] \in {"none", "released"}
      /\ fence' = [fence EXCEPT ![a] = "attempting"]
      /\ prior' = [prior EXCEPT ![r] = fence[a]]
      /\ pc' = [pc EXCEPT ![r] = "armed"]
      /\ UNCHANGED <<unresolved, target>>
  BY DEF Arm, Base, TargetsKnown, Acts, historyVars, Goto, SetFence
<1>2. /\ pc \in [Runs -> Places] /\ fence \in [Apps -> FenceStates]
      /\ prior \in [Runs -> {"none", "released"}] /\ JobOf[a] \in Jobs
  BY <1>1 DEF Base, ApplyTypeOK, LedgerTypes, RunTypes, Jobs
<1>3. \A s \in Runs : pc[s] = "armed" => target[s] \in Apps /\ JobOf[target[s]] # JobOf[a]
  <2> SUFFICES ASSUME NEW s \in Runs, pc[s] = "armed", JobOf[target[s]] = JobOf[a] PROVE FALSE
    BY DEF Base, TargetsKnown
  <2>1. target[s] \in Apps /\ fence[target[s]] \notin {"none", "released"}
    BY DEF EvidenceInv, ArmedIsFenced, Base, TargetsKnown
  <2> QED BY <1>1, <2>1 DEF OthersRows, JobRows
<1>4. ArmedIsSole'
  BY <1>1, <1>2, <1>3 DEF EvidenceInv, ArmedIsSole
<1>5. ArmedIsFenced'
  <2> SUFFICES ASSUME NEW s \in Runs, pc'[s] = "armed"
               PROVE  fence'[target[s]] \notin {"none", "released"}
    BY <1>1 DEF ArmedIsFenced
  <2>1. CASE s = r
    BY <1>1, <1>2, <2>1
  <2>2. CASE s # r
    BY <1>1, <1>2, <1>3, <2>2 DEF EvidenceInv, ArmedIsFenced
  <2> QED BY <2>1, <2>2
<1>6. ArmedAfresh'
  <2>1. fence[a] = "none" => ~unresolved[JobOf[a]]
    BY <1>1, <1>2 DEF EvidenceInv, EvidenceKept, OthersRows, JobRows
  <2> QED BY <1>1, <1>2, <2>1 DEF EvidenceInv, ArmedAfresh
<1>7. EvidenceKept'
  <2>1. \A j \in Jobs : JobRows(j) \subseteq JobRows(j)'
    BY <1>1, <1>2 DEF JobRows
  <2> QED BY <1>1, <2>1 DEF EvidenceInv, EvidenceKept
<1> QED BY <1>4, <1>5, <1>6, <1>7 DEF EvidenceInv

\* The click: it has its row, and nobody else is armed for the job.
LEMMA ClickKeepsEvidence ==
  ASSUME Base, [ApplyNext]_vars, EvidenceInv, NEW r \in Runs, Click(r)
  PROVE  EvidenceInv'
<1> DEFINE j == JobOf[target[r]]
<1>1. /\ pc[r] = "armed" /\ target[r] \in Apps /\ j \in Jobs
      /\ pc' = [pc EXCEPT ![r] = "clicked"]
      /\ unresolved' = [unresolved EXCEPT ![j] = TRUE]
      /\ UNCHANGED <<fence, target, prior>>
  BY DEF Click, Base, TargetsKnown, Acts, Goto, Jobs
<1>2. pc \in [Runs -> Places] /\ unresolved \in [Jobs -> BOOLEAN]
  BY DEF Base, ApplyTypeOK, LedgerTypes, RunTypes
<1>3. \A s \in Runs : pc'[s] = "armed" => pc[s] = "armed" /\ s # r
  BY <1>1, <1>2
<1>4. ArmedIsSole' /\ ArmedIsFenced'
  BY <1>1, <1>3 DEF EvidenceInv, ArmedIsSole, ArmedIsFenced
<1>5. ArmedAfresh'
  <2> SUFFICES ASSUME NEW s \in Runs, pc'[s] = "armed", prior[s] = "none"
               PROVE  ~unresolved'[JobOf[target[s]]]
    BY <1>1 DEF ArmedAfresh
  <2>1. JobOf[target[s]] # j /\ JobOf[target[s]] \in Jobs
    BY <1>1, <1>3 DEF EvidenceInv, ArmedIsSole, Base, TargetsKnown, Jobs
  <2>2. ~unresolved[JobOf[target[s]]]
    BY <1>3 DEF EvidenceInv, ArmedAfresh
  <2> QED BY <1>1, <1>2, <2>1, <2>2
<1>6. EvidenceKept'
  <2>1. target[r] \in JobRows(j)
    BY <1>1 DEF EvidenceInv, ArmedIsFenced, JobRows
  <2>2. \A i \in Jobs : JobRows(i)' = JobRows(i)
    BY <1>1 DEF JobRows
  <2>3. \A i \in Jobs : i # j => unresolved'[i] = unresolved[i]
    BY <1>1, <1>2
  <2> QED BY <2>1, <2>2, <2>3 DEF EvidenceInv, EvidenceKept
<1> QED BY <1>4, <1>5, <1>6 DEF EvidenceInv

\* A refusal puts the row back to what it was: gone only if it was made for
\* this attempt, and then nothing was clicked.
LEMMA RefusalKeepsEvidence ==
  ASSUME Base, [ApplyNext]_vars, EvidenceInv, NEW r \in Runs, RefuseBeforeClick(r)
  PROVE  EvidenceInv'
<1> DEFINE a == target[r]
<1>1. /\ pc[r] = "armed" /\ a \in Apps /\ fence[a] \notin {"none", "released"}
      /\ UNCHANGED <<unresolved, target, prior>>
      /\ pc' = [pc EXCEPT ![r] = "write"]
      /\ fence' = [fence EXCEPT ![a] = prior[r]]
  BY DEF RefuseBeforeClick, Base, TargetsKnown, Acts, Goto, historyVars, SetFence,
    EvidenceInv, ArmedIsFenced
<1>2. /\ pc \in [Runs -> Places] /\ fence \in [Apps -> FenceStates]
      /\ prior \in [Runs -> {"none", "released"}] /\ unresolved \in [Jobs -> BOOLEAN]
  BY DEF Base, ApplyTypeOK, LedgerTypes, RunTypes
<1>3. \A s \in Runs : pc'[s] = "armed" => pc[s] = "armed" /\ s # r
  BY <1>1, <1>2
<1>4. \A s \in Runs : pc'[s] = "armed" => JobOf[target[s]] # JobOf[a]
  BY <1>1, <1>3 DEF EvidenceInv, ArmedIsSole
<1>5. ArmedIsSole' /\ ArmedAfresh'
  BY <1>1, <1>3 DEF EvidenceInv, ArmedIsSole, ArmedAfresh
<1>6. ArmedIsFenced'
  <2> SUFFICES ASSUME NEW s \in Runs, pc'[s] = "armed"
               PROVE  fence'[target[s]] \notin {"none", "released"}
    BY <1>1 DEF ArmedIsFenced
  <2>1. target[s] # a /\ target[s] \in Apps
    BY <1>3, <1>4 DEF Base, TargetsKnown
  <2> QED BY <1>1, <1>2, <1>3, <2>1 DEF EvidenceInv, ArmedIsFenced
<1>7. EvidenceKept'
  <2> SUFFICES ASSUME NEW j \in Jobs, unresolved[j] PROVE JobRows(j)' # {}
    BY <1>1 DEF EvidenceKept
  <2>1. PICK b \in Apps : b \in JobRows(j)
    BY DEF EvidenceInv, EvidenceKept, JobRows
  <2>2. CASE b # a
    BY <1>1, <1>2, <2>1, <2>2 DEF JobRows
  <2>3. CASE b = a
    <3>1. prior[r] = "released"
      BY <1>1, <1>2, <2>1, <2>3 DEF EvidenceInv, ArmedAfresh, JobRows
    <3> QED BY <1>1, <1>2, <2>1, <2>3, <3>1 DEF JobRows
  <2> QED BY <2>2, <2>3
<1> QED BY <1>5, <1>6, <1>7 DEF EvidenceInv

\* The owner disowns the click and removes its row, with no run armed for it.
LEMMA DisowningKeepsEvidence ==
  ASSUME Base, [ApplyNext]_vars, EvidenceInv, NEW a \in Apps, MarkNotSubmitted(a),
         ArmedFor(JobOf[a]) = {}
  PROVE  EvidenceInv'
<1> DEFINE j == JobOf[a]
<1>1. /\ fence' = [fence EXCEPT ![a] = "none"]
      /\ unresolved' = [unresolved EXCEPT ![j] = FALSE]
      /\ UNCHANGED <<pc, target, prior>>
      /\ j \in Jobs
  BY DEF MarkNotSubmitted, SetFence, runVars, Jobs
<1>2. fence \in [Apps -> FenceStates] /\ unresolved \in [Jobs -> BOOLEAN]
  BY DEF Base, ApplyTypeOK, LedgerTypes
<1>3. \A s \in Runs : pc[s] = "armed" =>
        target[s] \in Apps /\ JobOf[target[s]] \in Jobs /\ JobOf[target[s]] # j
  BY DEF ArmedFor, Base, TargetsKnown, Jobs
<1>4. ArmedIsSole'
  BY <1>1 DEF EvidenceInv, ArmedIsSole
<1>5. ArmedIsFenced'
  BY <1>1, <1>2, <1>3 DEF EvidenceInv, ArmedIsFenced
<1>6. ArmedAfresh'
  BY <1>1, <1>2, <1>3 DEF EvidenceInv, ArmedAfresh
<1>7. EvidenceKept'
  <2>1. \A i \in Jobs \ {j} : JobRows(i)' = JobRows(i) /\ unresolved'[i] = unresolved[i]
    BY <1>1, <1>2 DEF JobRows
  <2>2. ~unresolved'[j]
    BY <1>1, <1>2
  <2> QED BY <2>1, <2>2 DEF EvidenceInv, EvidenceKept
<1> QED BY <1>4, <1>5, <1>6, <1>7 DEF EvidenceInv

LEMMA StepKeepsEvidence ==
  Base /\ EvidenceInv /\ [ApplyNext /\ SettlesOnlyWhatIsOver]_vars => EvidenceInv'
<1> SUFFICES ASSUME Base, EvidenceInv, [ApplyNext /\ SettlesOnlyWhatIsOver]_vars
             PROVE  EvidenceInv'
  OBVIOUS
<1> [ApplyNext]_vars
  OBVIOUS
<1>1. ASSUME NEW r \in Runs, Arm(r) \/ Click(r) \/ RefuseBeforeClick(r)
      PROVE  EvidenceInv'
  BY <1>1, ArmKeepsEvidence, ClickKeepsEvidence, RefusalKeepsEvidence
<1>2. ASSUME \A r \in Runs : ~Arm(r), NEW r \in Runs,
             ParkOnFence(r) \/ Confirmed(r) \/ Unconfirmed(r)
      PROVE  EvidenceInv'
  <2>1. /\ target[r] \in Apps /\ unresolved' = unresolved
        /\ fence' = fence \/ SetFence(target[r], "uncertain") \/ SetFence(target[r], "submitted")
    BY <1>2 DEF ParkOnFence, Confirmed, Unconfirmed, Submitting, Acts, Base, TargetsKnown,
      historyVars
  <2> QED BY <1>2, <2>1, QuietLedgerKeepsEvidence, RowKeptKeepsEvidence DEF FenceStates
<1>3. ASSUME \A r \in Runs : ~Arm(r), NEW r \in Runs,
             \/ Claim(r) \/ ParkSpentTasks(r) \/ Renew(r) \/ Die(r) \/ LoseClaim(r)
             \/ ReadApplication(r) \/ BeginWork(r) \/ ParkForReview(r) \/ RefuseSite(r)
             \/ HandlerError(r) \/ DecideToSubmit(r) \/ MovedOn(r) \/ FenceGone(r)
             \/ Acknowledge(r) \/ WriteOutcome(r) \/ FailRun(r) \/ ReadToPark(r) \/ ParkFailed(r)
      PROVE  EvidenceInv'
  <2>1. UNCHANGED ledgerVars
    BY <1>3 DEF Claim, ParkSpentTasks, Renew, Die, LoseClaim, ReadApplication, BeginWork,
      ParkForReview, RefuseSite, HandlerError, DecideToSubmit, MovedOn, FenceGone, Acknowledge,
      WriteOutcome, FailRun, ReadToPark, ParkFailed
  <2> QED BY <1>3, <2>1, QuietLedgerKeepsEvidence DEF ledgerVars
<1>4. ASSUME \A r \in Runs : ~Arm(r), NEW a \in Apps, Owner(a), SettlesOnlyWhatIsOver
      PROVE  EvidenceInv'
  <2>1. JobOf[a] \in Jobs /\ settled \in [Jobs -> Nat]
    BY DEF Jobs, Base, ApplyTypeOK, LedgerTypes
  <2>2. CASE MarkNotSubmitted(a)
    <3>1. settled'[JobOf[a]] # settled[JobOf[a]]
      BY <2>1, <2>2 DEF MarkNotSubmitted
    <3> QED BY <1>4, <2>1, <2>2, <3>1, DisowningKeepsEvidence DEF SettlesOnlyWhatIsOver
  <2>3. CASE Approve(a)
    <3>1. CASE fence' = fence
      BY <1>4, <2>3, <3>1, QuietLedgerKeepsEvidence DEF Approve
    <3>2. CASE fence' # fence
      <4>1. /\ SetFence(a, "released") /\ settled' = [settled EXCEPT ![JobOf[a]] = @ + 1]
            /\ unresolved' = unresolved
        BY <2>3, <3>2 DEF Approve
      <4>2. ArmedFor(JobOf[a]) = {}
        BY <1>4, <2>1, <4>1 DEF SettlesOnlyWhatIsOver
      <4> QED BY <1>4, <4>1, <4>2, RowKeptKeepsEvidence DEF FenceStates
    <3> QED BY <3>1, <3>2
  <2>4. CASE MarkSubmitted(a)
    <3>1. ManualRow(a) \in Apps
      BY DEF ManualRow, OthersRows, JobRows
    <3>2. SetFence(ManualRow(a), "submitted") /\ unresolved' = unresolved
      BY <2>4 DEF MarkSubmitted, historyVars
    <3> QED BY <1>4, <3>1, <3>2, RowKeptKeepsEvidence DEF FenceStates
  <2>5. CASE CreateApplication(a) \/ Reject(a)
    BY <1>4, <2>5, QuietLedgerKeepsEvidence DEF CreateApplication, Reject, ledgerVars
  <2> QED BY <1>4, <2>2, <2>3, <2>4, <2>5 DEF Owner
<1>5. ASSUME \A r \in Runs : ~Arm(r),
             (\E t \in Tasks : Lapse(t) \/ ComeDue(t)) \/ UNCHANGED vars
      PROVE  EvidenceInv'
  BY <1>5, QuietLedgerKeepsEvidence DEF Lapse, ComeDue, vars, ledgerVars
<1>6. (\E a \in Apps : Owner(a)) => SettlesOnlyWhatIsOver \/ UNCHANGED vars
  OBVIOUS
<1> QED BY <1>1, <1>2, <1>3, <1>4, <1>5, <1>6 DEF ApplyNext, Work

LEMMA InitEvidence == ApplyInit => EvidenceInv
BY DEF ApplyInit, EvidenceInv, ArmedIsSole, ArmedIsFenced, ArmedAfresh, EvidenceKept

LEMMA EvidenceInvariant == ApplySpec /\ [][SettlesOnlyWhatIsOver]_vars => []EvidenceInv
BY InitBase, InitEvidence, StepKeepsBase, StepKeepsEvidence, PTL DEF ApplySpec

\* As long as the owner settles no attempt that a run is about to click for, a
\* click nobody has disowned keeps its row, whatever runs refuse or delete.
THEOREM EvidenceStays == ApplySpec /\ [][SettlesOnlyWhatIsOver]_vars => []EvidenceKept
<1>1. EvidenceInv => EvidenceKept
  BY DEF EvidenceInv
<1> QED BY <1>1, EvidenceInvariant, PTL

\* And every click finds the row that was committed for it.
THEOREM ClicksAreFenced == ApplySpec /\ [][SettlesOnlyWhatIsOver]_vars => ClickIsFenced
<1>1. Base /\ EvidenceInv /\ [ApplyNext]_vars
        => [\A j \in Jobs : clicks'[j] # clicks[j] => JobRows(j) # {}]_vars
  <2> SUFFICES ASSUME Base, EvidenceInv, ApplyNext, NEW j \in Jobs, clicks'[j] # clicks[j]
               PROVE  JobRows(j) # {}
    OBVIOUS
  <2>1. PICK r \in Runs : Click(r)
    BY OnlyClicksCount
  <2>2. j = JobOf[target[r]] /\ pc[r] = "armed" /\ target[r] \in Apps
    BY <2>1 DEF Click, Acts, Base, TargetsKnown, ApplyTypeOK, LedgerTypes
  <2> QED BY <2>2 DEF EvidenceInv, ArmedIsFenced, JobRows
<1> QED BY <1>1, InitBase, StepKeepsBase, EvidenceInvariant, PTL DEF ApplySpec, ClickIsFenced

-----------------------------------------------------------------------------
(* One run alone: a worker that runs one application at a time.            *)

OneRun == \A r, s \in Runs : r = s

\* An armed run's application is not one the owner is asked about.
ArmedIsShown ==
  \A r \in Runs : pc[r] = "armed" => appStatus[target[r]] \in {"running", "submitted"}

Alone == Base /\ OneRowPerJob /\ EvidenceInv /\ ArmedIsShown

\* So there is nothing for the owner to settle.
LEMMA NothingToSettle ==
  ASSUME OneRun, Alone, ApplyNext
  PROVE  SettlesOnlyWhatIsOver
<1> SUFFICES ASSUME NEW j \in Jobs, settled'[j] # settled[j], NEW r \in Runs,
                    pc[r] = "armed", JobOf[target[r]] = j
             PROVE  FALSE
  BY DEF SettlesOnlyWhatIsOver, ArmedFor
<1>1. /\ target[r] \in Apps /\ fence[target[r]] \notin {"none", "released"}
      /\ appStatus[target[r]] \in {"running", "submitted"}
  BY DEF Alone, Base, TargetsKnown, EvidenceInv, ArmedIsFenced, ArmedIsShown
<1>2. \A s \in Runs : settled' # settled =>
        ~(Claim(s) \/ ParkSpentTasks(s) \/ Renew(s) \/ Work(s) \/ Die(s))
  BY DEF Work, Claim, ParkSpentTasks, Renew, Die, LoseClaim, ReadApplication, BeginWork,
    ParkForReview, RefuseSite, HandlerError, DecideToSubmit, MovedOn, FenceGone, Acknowledge,
    WriteOutcome, FailRun, ReadToPark, ParkFailed, ParkOnFence, Arm, Click, RefuseBeforeClick,
    Confirmed, Unconfirmed, ledgerVars, historyVars
<1>3. \A t \in Tasks : settled' # settled => ~(Lapse(t) \/ ComeDue(t))
  BY DEF Lapse, ComeDue, ledgerVars
<1>4. PICK a \in Apps : Owner(a)
  BY <1>2, <1>3 DEF ApplyNext
<1>5. /\ settled \in [Jobs -> Nat]
      /\ ~CreateApplication(a) /\ ~Reject(a) /\ ~MarkSubmitted(a)
  BY DEF CreateApplication, Reject, MarkSubmitted, ledgerVars, historyVars, Alone, Base,
    ApplyTypeOK, LedgerTypes
<1>6. /\ fence[a] # "none" /\ JobOf[a] = j
      /\ appStatus[a] \notin {"running", "submitted"}
  BY <1>4, <1>5 DEF Owner, Approve, MarkNotSubmitted
<1>7. a = target[r]
  BY <1>1, <1>6 DEF Alone, OneRowPerJob
<1> QED BY <1>1, <1>6, <1>7

LEMMA StepKeepsArmedIsShown ==
  ASSUME OneRun, Alone, [ApplyNext]_vars
  PROVE  ArmedIsShown'
<1> SUFFICES ASSUME NEW s \in Runs, pc'[s] = "armed"
             PROVE  appStatus'[target'[s]] \in {"running", "submitted"}
  BY DEF ArmedIsShown
<1> pc \in [Runs -> Places] /\ appStatus \in [Apps -> AppStatuses]
  BY DEF Alone, Base, ApplyTypeOK, RunTypes, ApplicationTypes
<1>1. CASE Arm(s)
  BY <1>1 DEF Arm, SetApp, Alone, Base, TargetsKnown, Acts
<1>2. CASE ~Arm(s)
  <2>1. /\ pc[s] = "armed" /\ target'[s] = target[s] /\ target[s] \in Apps
        /\ appStatus[target[s]] \in {"running", "submitted"}
    BY <1>2, ArmedWereArmed DEF Alone, Base, TargetsKnown, ArmedIsShown
  <2>2. ASSUME NEW r \in Runs,
               Claim(r) \/ ParkSpentTasks(r) \/ Renew(r) \/ Work(r) \/ Die(r)
        PROVE  UNCHANGED appStatus
    <3>1. r = s
      BY DEF OneRun
    <3>2. ~(ParkOnFence(r) \/ Confirmed(r) \/ Unconfirmed(r) \/ WriteOutcome(r)
            \/ ParkFailed(r))
      BY <3>1 DEF ParkOnFence, Confirmed, Unconfirmed, WriteOutcome, ParkFailed, Goto, Reset
    <3> QED BY <1>2, <2>2, <3>1, <3>2 DEF Work, Claim, ParkSpentTasks, Renew, Die, LoseClaim,
      ReadApplication, BeginWork, ParkForReview, RefuseSite, HandlerError, DecideToSubmit,
      MovedOn, FenceGone, Acknowledge, FailRun, ReadToPark, Click, RefuseBeforeClick, appVars
  <2>3. ASSUME NEW a \in Apps, Owner(a) PROVE appStatus'[target[s]] \in {"running", "submitted"}
    BY <2>1, <2>3 DEF Owner, CreateApplication, Approve, Reject, MarkSubmitted,
      MarkNotSubmitted, SetApp, appVars
  <2>4. ASSUME NEW t \in Tasks, Lapse(t) \/ ComeDue(t) PROVE UNCHANGED appStatus
    BY <2>4 DEF Lapse, ComeDue, appVars
  <2>5. UNCHANGED vars => UNCHANGED appStatus
    BY DEF vars, appVars
  <2> QED BY <2>1, <2>2, <2>3, <2>4, <2>5 DEF ApplyNext
<1> QED BY <1>1, <1>2

LEMMA AloneInvariant ==
  ASSUME OneRun
  PROVE  ApplySpec => []Alone /\ [][SettlesOnlyWhatIsOver]_vars
<1>1. ApplyInit => Alone
  BY InitBase, InitEvidence DEF ApplyInit, Alone, OneRowPerJob, ArmedIsShown
<1>2. Alone /\ [ApplyNext]_vars => Alone' /\ [SettlesOnlyWhatIsOver]_vars
  <2> SUFFICES ASSUME Alone, [ApplyNext]_vars
               PROVE  Alone' /\ [SettlesOnlyWhatIsOver]_vars
    OBVIOUS
  <2>1. [ApplyNext /\ SettlesOnlyWhatIsOver]_vars
    BY NothingToSettle
  <2>2. Base' /\ OneRowPerJob' /\ EvidenceInv' /\ ArmedIsShown'
    BY <2>1, StepKeepsBase, StepKeepsOneRow, StepKeepsEvidence, StepKeepsArmedIsShown DEF Alone
  <2> QED BY <2>1, <2>2 DEF Alone
<1> QED BY <1>1, <1>2, PTL DEF ApplySpec

\* A worker that runs one application at a time keeps the evidence of every
\* click nobody has disowned, and no row goes from under its click.
THEOREM OneRunKeepsEvidence ==
  ASSUME OneRun
  PROVE  ApplySpec => []EvidenceKept /\ ClickIsFenced
BY AloneInvariant, EvidenceStays, ClicksAreFenced, PTL

-----------------------------------------------------------------------------
(* The approval before a click.                                            *)

\* An approval on the row, or in a run's copy, was the owner's; past the gate
\* a run without auto-submit has one.
ApprovalInv ==
  /\ \A a \in Apps : approved[a] => approvals[JobOf[a]] > 0
  /\ \A r \in Runs :
       /\ copy[r].approved => pc[r] # "idle" /\ approvals[JobOf[target[r]]] > 0
       /\ pc[r] \in {"submit", "armed"} => copy[r].approved \/ AutoSubmit
  /\ ClickApproved

\* A run's step leaves the other runs where they are.
LEMMA OthersUntouched ==
  ASSUME Base, NEW r \in Runs, NEW s \in Runs, r # s,
         Claim(r) \/ ParkSpentTasks(r) \/ Renew(r) \/ Work(r) \/ Die(r)
  PROVE  /\ pc'[s] = pc[s] /\ target'[s] = target[s] /\ copy'[s] = copy[s]
         /\ locks'[s] = locks[s]
<1>1. /\ pc \in [Runs -> Places] /\ target \in [Runs -> Apps \cup {NoApp}]
      /\ copy \in [Runs -> Copies] /\ locks \in [Runs -> BOOLEAN]
  BY DEF Base, ApplyTypeOK, RunTypes
<1>2. CASE Reset(r)
  BY <1>1, <1>2 DEF Reset, Goto, Unlock
<1>3. CASE Claim(r)
  <2>1. /\ pc' = [pc EXCEPT ![r] = "claimed"] /\ copy' = copy /\ locks' = locks
        /\ \E t \in Tasks : target' = [target EXCEPT ![r] = taskApp[t]]
    BY <1>3 DEF Claim, Goto
  <2> QED BY <1>1, <2>1
<1>4. CASE ~Reset(r) /\ ~Claim(r)
  <2>1. /\ target' = target
        /\ pc' = pc \/ \E place : pc' = [pc EXCEPT ![r] = place]
    BY <1>4 DEF Work, ParkSpentTasks, Renew, Die, LoseClaim,
      ReadApplication, BeginWork, ParkForReview, RefuseSite, HandlerError, DecideToSubmit,
      MovedOn, FenceGone, Acknowledge, WriteOutcome, FailRun, ReadToPark, ParkFailed,
      ParkOnFence, Arm, Click, RefuseBeforeClick, Confirmed, Unconfirmed, Goto, runVars
  <2>2. /\ copy' = copy \/ (\E st : SetCopy(r, st)) \/ \E c : copy' = [copy EXCEPT ![r] = c]
        /\ locks' = locks \/ \E b : locks' = [locks EXCEPT ![r] = b]
    BY <1>4 DEF Work, ParkSpentTasks, Renew, Die, LoseClaim,
      ReadApplication, BeginWork, ParkForReview, RefuseSite, HandlerError, DecideToSubmit,
      MovedOn, FenceGone, Acknowledge, WriteOutcome, FailRun, ReadToPark, ParkFailed,
      ParkOnFence, Arm, Click, RefuseBeforeClick, Confirmed, Unconfirmed, Unlock, runVars
  <2> QED BY <1>1, <2>1, <2>2 DEF SetCopy
<1> QED BY <1>2, <1>3, <1>4

\* What a step does to the approvals in one run's hands.
LEMMA CopiesAreRead ==
  ASSUME Base, ApprovalInv, [ApplyNext]_vars, NEW s \in Runs
  PROVE  /\ copy'[s].approved =>
              /\ pc[s] # "idle" /\ pc'[s] # "idle" /\ target'[s] = target[s]
              /\ copy[s].approved \/ approved[target[s]]
         /\ pc'[s] \in {"submit", "armed"} => copy'[s].approved \/ AutoSubmit
<1>1. /\ pc \in [Runs -> Places] /\ target \in [Runs -> Apps \cup {NoApp}]
      /\ copy \in [Runs -> Copies]
  BY DEF Base, ApplyTypeOK, RunTypes
<1>2. /\ copy[s].approved => pc[s] # "idle"
      /\ pc[s] \in {"submit", "armed"} => copy[s].approved \/ AutoSubmit
  BY DEF ApprovalInv
<1>3. CASE UNCHANGED <<pc, target, copy>>
  BY <1>2, <1>3
<1>4. ASSUME NEW r \in Runs, Reset(r)
      PROVE  s = r => ~copy'[s].approved /\ pc'[s] = "idle"
  BY <1>1, <1>4 DEF Reset, NoCopy, Goto
<1>6. CASE Claim(s)
  <2>1. pc[s] = "idle" /\ copy' = copy /\ pc' = [pc EXCEPT ![s] = "claimed"]
    BY <1>6 DEF Claim, Goto
  <2> QED BY <1>1, <1>2, <2>1
<1>7. CASE ReadApplication(s)
  <2>1. /\ pc[s] = "claimed" /\ target' = target
        /\ copy'[s].approved = approved[target[s]]
        /\ pc'[s] \in {"ack", "pipeline", "flush"}
    BY <1>1, <1>7 DEF ReadApplication, Acts, Goto
  <2> QED BY <2>1
<1>8. ASSUME \/ BeginWork(s) \/ ParkForReview(s) \/ RefuseSite(s)
             \/ HandlerError(s) \/ DecideToSubmit(s) \/ MovedOn(s) \/ FenceGone(s)
             \/ ParkOnFence(s) \/ Arm(s) \/ Click(s) \/ RefuseBeforeClick(s) \/ Confirmed(s)
             \/ Unconfirmed(s)
      PROVE  /\ pc[s] # "idle" /\ pc'[s] # "idle" /\ target' = target
             /\ copy'[s].approved = copy[s].approved
             /\ pc'[s] \in {"submit", "armed"} => copy[s].approved \/ AutoSubmit
  <2>1. /\ pc[s] # "idle" /\ target' = target
        /\ \E place \in Places \ {"idle"} :
             /\ pc' = [pc EXCEPT ![s] = place]
             /\ place \in {"submit", "armed"} => copy[s].approved \/ AutoSubmit
    BY <1>2, <1>8 DEF BeginWork, ParkForReview, RefuseSite, HandlerError, DecideToSubmit,
      MovedOn, FenceGone, ParkOnFence, Arm, Click, RefuseBeforeClick, Confirmed, Unconfirmed,
      Acts, Submitting, Goto, Places
  <2>2. copy' = copy \/ \E st : SetCopy(s, st)
    BY <1>8 DEF BeginWork, ParkForReview, RefuseSite, HandlerError, DecideToSubmit,
      MovedOn, FenceGone, ParkOnFence, Arm, Click, RefuseBeforeClick, Confirmed, Unconfirmed
  <2>3. copy'[s].approved = copy[s].approved
    BY <1>1, <2>2 DEF SetCopy, Copies
  <2> QED BY <1>1, <2>1, <2>3
<1>9. ASSUME \/ Die(s) \/ LoseClaim(s) \/ Acknowledge(s) \/ WriteOutcome(s) \/ FailRun(s)
             \/ ReadToPark(s) \/ ParkFailed(s)
      PROVE  \/ Reset(s)
             \/ /\ UNCHANGED <<target, copy>> /\ pc[s] # "idle"
                /\ \E place \in {"marking", "parking"} : pc' = [pc EXCEPT ![s] = place]
  BY <1>9 DEF Die, LoseClaim, Acknowledge, WriteOutcome, FailRun, ReadToPark, ParkFailed, Goto
<1>10. CASE Die(s) \/ LoseClaim(s) \/ Acknowledge(s) \/ WriteOutcome(s) \/ FailRun(s)
            \/ ReadToPark(s) \/ ParkFailed(s)
  BY <1>1, <1>4, <1>9, <1>10
<1>11. ASSUME \/ ParkSpentTasks(s) \/ Renew(s) \/ (\E a \in Apps : Owner(a))
              \/ (\E t \in Tasks : Lapse(t) \/ ComeDue(t)) \/ UNCHANGED vars
       PROVE  UNCHANGED <<pc, target, copy>>
  BY <1>11 DEF ParkSpentTasks, Renew, runVars, Owner, CreateApplication, Approve, Reject,
    MarkSubmitted, MarkNotSubmitted, Lapse, ComeDue, vars
<1>12. ASSUME NEW r \in Runs, r # s,
              Claim(r) \/ ParkSpentTasks(r) \/ Renew(r) \/ Work(r) \/ Die(r)
       PROVE  /\ copy'[s].approved =>
                   /\ pc[s] # "idle" /\ pc'[s] # "idle" /\ target'[s] = target[s]
                   /\ copy[s].approved \/ approved[target[s]]
              /\ pc'[s] \in {"submit", "armed"} => copy'[s].approved \/ AutoSubmit
  BY <1>2, <1>12, OthersUntouched
<1> QED BY <1>2, <1>3, <1>6, <1>7, <1>8, <1>10, <1>11, <1>12 DEF ApplyNext, Work

LEMMA StepKeepsApproval ==
  ASSUME Base, ApprovalInv, [ApplyNext]_vars
  PROVE  ApprovalInv'
<1>1. /\ approved \in [Apps -> BOOLEAN] /\ approvals \in [Jobs -> Nat]
      /\ clicks \in [Jobs -> Nat] /\ approvals' \in [Jobs -> Nat]
      /\ \A a \in Apps : JobOf[a] \in Jobs
  BY StepKeepsBase DEF Base, ApplyTypeOK, ApplicationTypes, LedgerTypes, Jobs
<1> DEFINE
      NotFewer == \A j \in Jobs : approvals'[j] >= approvals[j]
      Sourced ==
        \A a \in Apps : approved'[a] =>
          \/ approved[a]
          \/ \E r \in Runs : target[r] = a /\ copy[r].approved
          \/ approvals'[JobOf[a]] > 0
      ClickedNow ==
        \A j \in Jobs : clicks'[j] > 0 =>
          clicks[j] > 0 \/ \E r \in Runs : pc[r] = "armed" /\ JobOf[target[r]] = j
<1>2. NotFewer /\ Sourced
  <2>1. ASSUME NEW a \in Apps, Approve(a) PROVE NotFewer /\ Sourced
    <3>1. /\ approvals' = [approvals EXCEPT ![JobOf[a]] = @ + 1]
          /\ approved' = [approved EXCEPT ![a] = TRUE]
      BY <2>1 DEF Approve
    <3> QED BY <1>1, <3>1
  <2>2. ASSUME NEW r \in Runs, WriteReview(r), approvals' = approvals PROVE NotFewer /\ Sourced
    BY <1>1, <2>2 DEF WriteReview
  <2>3. CASE UNCHANGED <<approved, approvals>>
    BY <1>1, <2>3
  <2>4. ASSUME NEW r \in Runs,
               Claim(r) \/ ParkSpentTasks(r) \/ Renew(r) \/ Work(r) \/ Die(r)
        PROVE  approvals' = approvals /\ (approved' = approved \/ WriteReview(r))
    BY <2>4 DEF Work, Claim, ParkSpentTasks, Renew, Die, LoseClaim, ReadApplication, BeginWork,
      ParkForReview, RefuseSite, HandlerError, DecideToSubmit, MovedOn, FenceGone, Acknowledge,
      WriteOutcome, FailRun, ReadToPark, ParkFailed, ParkOnFence, Arm, Click, RefuseBeforeClick,
      Confirmed, Unconfirmed, ledgerVars, historyVars, appVars
  <2>5. ASSUME NEW a \in Apps, Owner(a), ~Approve(a) PROVE UNCHANGED <<approved, approvals>>
    BY <2>5 DEF Owner, CreateApplication, Reject, MarkSubmitted, MarkNotSubmitted, ledgerVars,
      historyVars, appVars
  <2>6. ASSUME (\E t \in Tasks : Lapse(t) \/ ComeDue(t)) \/ UNCHANGED vars
        PROVE  UNCHANGED <<approved, approvals>>
    BY <2>6 DEF Lapse, ComeDue, vars, appVars, ledgerVars
  <2> QED BY <2>1, <2>2, <2>3, <2>4, <2>5, <2>6 DEF ApplyNext
<1>3. ClickedNow
  <2>1. ASSUME NEW r \in Runs, Click(r) PROVE ClickedNow
    BY <1>1, <2>1 DEF Click, Acts
  <2>2. UNCHANGED vars => clicks' = clicks
    BY DEF vars, ledgerVars
  <2> QED BY <1>1, <2>1, <2>2, OnlyClicksCount
<1>4. \A r \in Runs : copy[r].approved => approvals'[JobOf[target[r]]] > 0
  <2> SUFFICES ASSUME NEW r \in Runs, copy[r].approved PROVE approvals'[JobOf[target[r]]] > 0
    OBVIOUS
  <2>1. pc[r] # "idle" /\ approvals[JobOf[target[r]]] > 0
    BY DEF ApprovalInv
  <2>2. target[r] \in Apps
    BY <2>1 DEF Base, TargetsKnown
  <2> QED BY <1>1, <1>2, <2>1, <2>2
<1>5. \A a \in Apps : approved'[a] => approvals'[JobOf[a]] > 0
  BY <1>1, <1>2, <1>4 DEF ApprovalInv
<1>6. \A a \in Apps : approved[a] => approvals'[JobOf[a]] > 0
  BY <1>1, <1>2 DEF ApprovalInv
<1>7. ASSUME NEW r \in Runs
      PROVE  /\ copy'[r].approved => pc'[r] # "idle" /\ approvals'[JobOf[target'[r]]] > 0
             /\ pc'[r] \in {"submit", "armed"} => copy'[r].approved \/ AutoSubmit
  BY <1>4, <1>6, CopiesAreRead DEF Base, TargetsKnown
<1>8. ClickApproved'
  <2> SUFFICES ASSUME ~AutoSubmit, NEW j \in Jobs, clicks'[j] > 0 PROVE approvals'[j] > 0
    BY DEF ClickApproved
  <2>1. CASE clicks[j] > 0
    BY <1>1, <1>2, <2>1 DEF ApprovalInv, ClickApproved
  <2>2. ASSUME NEW r \in Runs, pc[r] = "armed", JobOf[target[r]] = j PROVE approvals'[j] > 0
    BY <1>4, <2>2 DEF ApprovalInv
  <2> QED BY <1>3, <2>1, <2>2
<1> QED BY <1>5, <1>7, <1>8 DEF ApprovalInv

\* With auto-submit off nothing is sent for a job before the owner approved an
\* application for it: an approval a run carries was the owner's, whoever
\* wrote the row meanwhile.
THEOREM ClicksAreApproved == ApplySpec => []ClickApproved
<1>1. ApplyInit => ApprovalInv
  BY DEF ApplyInit, ApprovalInv, NoCopy, ClickApproved
<1>2. ApprovalInv => ClickApproved
  BY DEF ApprovalInv
<1> QED BY <1>1, <1>2, InitBase, StepKeepsBase, StepKeepsApproval, PTL DEF ApplySpec

-----------------------------------------------------------------------------
(* The work behind an application.  It is carried by a task that nobody is *)
(* about to end without having settled the application, or a task of it    *)
(* has used its last attempt.                                              *)

RunsHoldTheirTask ==
  \A r \in Runs :
    /\ claim[r] # NoClaim =>
         /\ pc[r] \notin {"idle", "marking", "parking"}
         /\ taskApp[Held(r)] = target[r]
         /\ OneRun => status[Held(r)] = "running"
    /\ pc[r] \in {"marking", "parking"} => SpentTask(target[r])

RunsKnowTheirStatus ==
  \A r \in Runs :
    /\ pc[r] \in {"pipeline", "submit"} =>
         IF locks[r] THEN copy[r].status = "running"
         ELSE appStatus[target[r]] \notin {"absent", "queued"}
    /\ pc[r] = "write" => copy[r].status \notin {"absent", "queued", "running"}

TasksOfApplications == \A t \in Tasks : status[t] # "absent" => appStatus[taskApp[t]] # "absent"

Live(t) == status[t] \in {"pending", "running"}

Carries(t) == Live(t) /\ \A r \in Runs : Owns(r) /\ Held(r) = t => pc[r] # "ack"

Carried(a) == SpentTask(a) \/ \E t \in Tasks : taskApp[t] = a /\ Carries(t)

AtWork(a) == appStatus[a] \in {"queued", "running"}

\* The inductive invariant, with Base.
WorkInv ==
  /\ RunsHoldTheirTask /\ RunsKnowTheirStatus /\ TasksOfApplications
  /\ \A a \in Apps : AtWork(a) => Carried(a)

\* What becomes of a task that is waiting or running.
LEMMA TaskFate ==
  ASSUME Base, Base', [ApplyNext]_vars, NEW t \in Tasks, Live(t)
  PROVE  \/ Live(t)'
         \/ \E r \in Runs : (Acknowledge(r) \/ WriteOutcome(r)) /\ Owns(r) /\ Held(r) = t
         \/ /\ status'[t] = "failed"
            /\ attempts'[t] = MaxAttempts \/ attempts'[t] >= FailLimit
<1>1. /\ status \in [Tasks -> Statuses] /\ attempts \in [Tasks -> 0..MaxAttempts]
      /\ attempts' \in [Tasks -> 0..MaxAttempts]
  BY DEF Base, QueueInv, TypeOK
<1>2. ASSUME NEW r \in Runs, NEW u \in Tasks, ClaimTask(r, u)
      PROVE  Live(t)' \/ (status'[t] = "failed" /\ attempts'[t] = MaxAttempts)
  <2>1. CASE t = u
    BY <1>1, <1>2, <2>1 DEF ClaimTask, ParkedStatus, Live
  <2>2. CASE t # u
    <3>1. status'[t] = ParkedStatus[t] /\ attempts'[t] = attempts[t]
      BY <1>1, <1>2, <2>2 DEF ClaimTask, ParkedStatus
    <3> QED BY <1>1, <3>1, QueueAssumption DEF ParkedStatus, Exhausted, Live
  <2> QED BY <2>1, <2>2
<1>3. ASSUME NEW r \in Runs, ClaimNothing(r)
      PROVE  Live(t)' \/ (status'[t] = "failed" /\ attempts'[t] = MaxAttempts)
  <2>1. status'[t] = ParkedStatus[t] /\ attempts'[t] = attempts[t]
    BY <1>3 DEF ClaimNothing
  <2> QED BY <1>1, <2>1, QueueAssumption DEF ParkedStatus, Exhausted, Live
<1>4. ASSUME NEW r \in Runs, FailTask(r, FailLimit)
      PROVE  Live(t)' \/ (status'[t] = "failed" /\ attempts'[t] >= FailLimit)
  <2>1. claim[r] # NoClaim /\ attempts[Held(r)] = claim[r].attempt /\ Held(r) \in Tasks
    BY <1>4, OwnerToken DEF FailTask, Owns, Held, Base
  <2>2. CASE t = Held(r)
    BY <1>1, <1>4, <2>1, <2>2, QueueAssumption DEF FailTask, Retrying, Live
  <2>3. CASE t # Held(r)
    BY <1>1, <1>4, <2>3 DEF FailTask, Live
  <2> QED BY <2>2, <2>3
<1>5. ASSUME NEW r \in Runs, CompleteTask(r)
      PROVE  Live(t)' \/ (Owns(r) /\ Held(r) = t)
  BY <1>1, <1>5 DEF CompleteTask, Live
<1>6. ASSUME status' = status PROVE Live(t)'
  BY <1>6 DEF Live
<1>7. ASSUME NEW u \in Tasks, NEW now, Enqueue(u, now) PROVE Live(t)'
  BY <1>1, <1>7 DEF Enqueue, Live
<1>8. ASSUME NEW r \in Runs,
             Claim(r) \/ ParkSpentTasks(r) \/ Renew(r) \/ Work(r) \/ Die(r)
      PROVE  \/ (\E u \in Tasks : ClaimTask(r, u)) \/ ClaimNothing(r) \/ FailTask(r, FailLimit)
             \/ (Acknowledge(r) \/ WriteOutcome(r)) /\ CompleteTask(r)
             \/ status' = status
  BY <1>8 DEF Claim, ParkSpentTasks, Renew, RenewLease, Work, Die, LoseClaim, Crash,
    ClaimOwnershipLost, taskVars, queueVars, ReadApplication, BeginWork,
    ParkForReview, RefuseSite, HandlerError, DecideToSubmit, MovedOn, FenceGone, Acknowledge,
    WriteOutcome, FailRun, ReadToPark, ParkFailed, ParkOnFence, Arm, Click, RefuseBeforeClick,
    Confirmed, Unconfirmed
<1>9. ASSUME NEW a \in Apps, Owner(a)
      PROVE  status' = status \/ \E u \in Tasks : \E now : Enqueue(u, now)
  BY <1>9 DEF Owner, CreateApplication, Approve, Reject, MarkSubmitted, MarkNotSubmitted,
    NewTask, queueVars
<1>10. ASSUME (\E u \in Tasks : Lapse(u) \/ ComeDue(u)) \/ UNCHANGED vars PROVE status' = status
  BY <1>10 DEF Lapse, ComeDue, LeaseTick, DueNow, vars, queueVars
<1> QED BY <1>2, <1>3, <1>4, <1>5, <1>6, <1>7, <1>8, <1>9, <1>10 DEF ApplyNext

\* A run comes to own a task by claiming it, and nobody else's step makes it.
LEMMA OwnersClaimed ==
  ASSUME Base, [ApplyNext]_vars, NEW s \in Runs, Owns(s)', ~Claim(s)
  PROVE  Owns(s) /\ claim'[s] = claim[s]
<1>1. /\ status \in [Tasks -> Statuses] /\ attempts \in [Tasks -> 0..MaxAttempts]
      /\ lease \in [Tasks -> 0..LeaseTicks] /\ lockedBy \in [Tasks -> Workers \cup {NoWorker}]
      /\ claim \in [Runs -> Claims \cup {NoClaim}]
  BY DEF Base, QueueInv, TypeOK
<1> USE DEF Held
<1>2. ASSUME NEW r \in Runs, NEW u \in Tasks, ClaimTask(r, u), r # s
      PROVE  Owns(s) /\ claim'[s] = claim[s]
  <2>1. claim'[s] = claim[s] /\ claim[s] # NoClaim
    BY <1>1, <1>2 DEF ClaimTask, Owns
  <2>2. /\ Held(s) \in Tasks /\ claim[s].attempt \in 1..attempts[Held(s)]
        /\ status[Held(s)] # "absent"
    BY <2>1, OwnerToken DEF Base
  <2>3. Held(s) # u
    <3> SUFFICES ASSUME Held(s) = u PROVE FALSE
      OBVIOUS
    <3>1. attempts'[u] = attempts[u] + 1
      BY <1>1, <1>2 DEF ClaimTask
    <3> QED BY <1>1, <2>1, <2>2, <3>1 DEF Owns
  <2>4. /\ status'[Held(s)] = ParkedStatus[Held(s)] /\ lockedBy'[Held(s)] = ParkedLocks[Held(s)]
        /\ lease'[Held(s)] = ParkedLeases[Held(s)] /\ attempts'[Held(s)] = attempts[Held(s)]
    BY <1>1, <1>2, <2>2, <2>3 DEF ClaimTask, ParkedStatus, ParkedLocks, ParkedLeases
  <2> QED BY <2>1, <2>2, <2>4 DEF Owns, ParkedStatus, ParkedLocks, ParkedLeases
<1>3. ASSUME NEW r \in Runs, ClaimNothing(r) PROVE Owns(s) /\ claim'[s] = claim[s]
  <2>1. claim' = claim /\ attempts' = attempts /\ claim[s] # NoClaim
    BY <1>3 DEF ClaimNothing, Owns
  <2>2. Held(s) \in Tasks
    BY <2>1, OwnerToken DEF Base
  <2> QED BY <1>3, <2>1, <2>2 DEF Owns, ClaimNothing, ParkedStatus, ParkedLocks, ParkedLeases
<1>4. ASSUME NEW r \in Runs, CompleteTask(r) \/ FailTask(r, FailLimit)
      PROVE  Owns(s) /\ claim'[s] = claim[s]
  <2>1. Owns(r) /\ Held(r) \in Tasks /\ claim' = [claim EXCEPT ![r] = NoClaim]
    BY <1>4, OwnerToken DEF CompleteTask, FailTask, EndRun, Base, Owns
  <2>2. r # s /\ claim'[s] = claim[s] /\ claim[s] # NoClaim
    BY <1>1, <2>1 DEF Owns
  <2>3. Held(s) \in Tasks
    BY <2>2, OwnerToken DEF Base
  <2>4. status'[Held(r)] # "running"
    BY <1>1, <1>4, <2>1 DEF CompleteTask, FailTask
  <2>5. Held(s) # Held(r)
    BY <2>2, <2>4 DEF Owns
  <2> QED BY <1>1, <1>4, <2>1, <2>2, <2>3, <2>5 DEF CompleteTask, FailTask, Owns
<1>5. ASSUME NEW r \in Runs, Crash(r) \/ ClaimOwnershipLost(r)
      PROVE  Owns(s) /\ claim'[s] = claim[s]
  BY <1>1, <1>5 DEF Crash, ClaimOwnershipLost, EndRun, taskVars, Owns
<1>6. ASSUME NEW r \in Runs, RenewLease(r) PROVE Owns(s) /\ claim'[s] = claim[s]
  BY <1>1, <1>6 DEF RenewLease, Owns
<1>7. ASSUME NEW u \in Tasks, LeaseTick(u) \/ DueNow(u) \/ \E now : Enqueue(u, now)
      PROVE  Owns(s) /\ claim'[s] = claim[s]
  <2>1. claim' = claim /\ attempts' = attempts /\ lockedBy' = lockedBy /\ claim[s] # NoClaim
    BY <1>7 DEF LeaseTick, DueNow, Enqueue, Owns
  <2>2. Held(s) \in Tasks /\ status[Held(s)] # "absent"
    BY <2>1, OwnerToken DEF Base
  <2> QED BY <1>1, <1>7, <2>1, <2>2 DEF LeaseTick, DueNow, Enqueue, Owns
<1>8. ASSUME UNCHANGED queueVars PROVE Owns(s) /\ claim'[s] = claim[s]
  BY <1>8 DEF queueVars, Owns
<1>9. Owns(s) /\ claim'[s] = claim[s]
  <2>1. ASSUME NEW r \in Runs, r # s \/ ~Claim(r),
               Claim(r) \/ ParkSpentTasks(r) \/ Renew(r) \/ Work(r) \/ Die(r)
        PROVE  \/ r # s /\ \E u \in Tasks : ClaimTask(r, u)
               \/ ClaimNothing(r) \/ FailTask(r, FailLimit) \/ CompleteTask(r)
               \/ Crash(r) \/ ClaimOwnershipLost(r) \/ RenewLease(r) \/ UNCHANGED queueVars
    BY <2>1 DEF Claim, ParkSpentTasks, Renew, Work, Die, LoseClaim, ReadApplication, BeginWork,
      ParkForReview, RefuseSite, HandlerError, DecideToSubmit, MovedOn, FenceGone, Acknowledge,
      WriteOutcome, FailRun, ReadToPark, ParkFailed, ParkOnFence, Arm, Click, RefuseBeforeClick,
      Confirmed, Unconfirmed
  <2>2. ASSUME NEW a \in Apps, Owner(a)
        PROVE  UNCHANGED queueVars \/ \E u \in Tasks : \E now : Enqueue(u, now)
    BY <2>2 DEF Owner, CreateApplication, Approve, Reject, MarkSubmitted, MarkNotSubmitted,
      NewTask
  <2>3. ASSUME NEW u \in Tasks, Lapse(u) \/ ComeDue(u) PROVE LeaseTick(u) \/ DueNow(u)
    BY <2>3 DEF Lapse, ComeDue
  <2> QED BY <1>2, <1>3, <1>4, <1>5, <1>6, <1>7, <1>8, <2>1, <2>2, <2>3 DEF ApplyNext, vars
<1> QED BY <1>9

\* Where an application's status can go.
LEMMA StatusFate ==
  ASSUME Base, RunsKnowTheirStatus, [ApplyNext]_vars, NEW a \in Apps,
         appStatus'[a] # appStatus[a]
  PROVE  \/ CreateApplication(a) \/ Approve(a)
         \/ \E r \in Runs : Arm(r) /\ target[r] = a
         \/ appStatus'[a] \notin {"absent", "queued", "running"}
<1> appStatus \in [Apps -> AppStatuses]
  BY DEF Base, ApplyTypeOK, ApplicationTypes
<1>1. ASSUME NEW r \in Runs, WriteOutcome(r) PROVE appStatus'[a] \notin {"absent", "queued", "running"}
  <2>1. appStatus' = [appStatus EXCEPT ![target[r]] = copy[r].status]
    BY <1>1 DEF WriteOutcome, SetApp
  <2>2. copy[r].status \notin {"absent", "queued", "running"}
    BY <1>1 DEF WriteOutcome, RunsKnowTheirStatus
  <2> QED BY <2>1, <2>2
<1>2. ASSUME NEW r \in Runs, NEW st \in {"needs_review", "submitted", "failed"}, NEW b, SetApp(b, st)
      PROVE  appStatus'[a] \notin {"absent", "queued", "running"}
  BY <1>2 DEF SetApp
<1>3. ASSUME NEW r \in Runs, Arm(r) PROVE target[r] = a
  BY <1>3 DEF Arm, SetApp
<1>4. ASSUME NEW r \in Runs,
             Claim(r) \/ ParkSpentTasks(r) \/ Renew(r) \/ Work(r) \/ Die(r)
      PROVE  \/ appStatus' = appStatus \/ WriteOutcome(r) \/ Arm(r)
             \/ \E st \in {"needs_review", "submitted", "failed"} : \E b : SetApp(b, st)
  BY <1>4 DEF Work, Claim, ParkSpentTasks, Renew, Die, LoseClaim, ReadApplication, BeginWork,
    ParkForReview, RefuseSite, HandlerError, DecideToSubmit, MovedOn, FenceGone, Acknowledge,
    FailRun, ReadToPark, ParkFailed, ParkOnFence, Click, RefuseBeforeClick,
    Confirmed, Unconfirmed, appVars
<1>5. ASSUME NEW b \in Apps, Owner(b)
      PROVE  \/ CreateApplication(a) \/ Approve(a)
             \/ appStatus'[a] \notin {"absent", "queued", "running"}
  BY <1>5 DEF Owner, CreateApplication, Approve, Reject, MarkSubmitted, MarkNotSubmitted, SetApp,
    appVars
<1>6. ASSUME (\E t \in Tasks : Lapse(t) \/ ComeDue(t)) \/ UNCHANGED vars
      PROVE  appStatus' = appStatus
  BY <1>6 DEF Lapse, ComeDue, vars, appVars
<1> QED BY <1>1, <1>2, <1>3, <1>4, <1>5, <1>6 DEF ApplyNext

LEMMA StepKeepsKnownStatus ==
  ASSUME Base, RunsKnowTheirStatus, [ApplyNext]_vars
  PROVE  RunsKnowTheirStatus'
<1>1. /\ pc \in [Runs -> Places] /\ target \in [Runs -> Apps \cup {NoApp}]
      /\ copy \in [Runs -> Copies] /\ locks \in [Runs -> BOOLEAN]
      /\ appStatus \in [Apps -> AppStatuses]
  BY DEF Base, ApplyTypeOK, RunTypes, ApplicationTypes
<1>2. \A a \in Apps : appStatus[a] \notin {"absent", "queued"} =>
        appStatus'[a] \notin {"absent", "queued"}
  BY <1>1, StatusFate DEF CreateApplication, Approve, Arm, SetApp
<1> SUFFICES ASSUME NEW s \in Runs
             PROVE  /\ pc'[s] \in {"pipeline", "submit"} =>
                         IF locks'[s] THEN copy'[s].status = "running"
                         ELSE appStatus'[target'[s]] \notin {"absent", "queued"}
                    /\ pc'[s] = "write" => copy'[s].status \notin {"absent", "queued", "running"}
  BY DEF RunsKnowTheirStatus
<1> DEFINE
      Knows ==
        /\ pc'[s] \in {"pipeline", "submit"} =>
             IF locks'[s] THEN copy'[s].status = "running"
             ELSE appStatus'[target'[s]] \notin {"absent", "queued"}
        /\ pc'[s] = "write" => copy'[s].status \notin {"absent", "queued", "running"}
<1>3. /\ pc[s] \in {"pipeline", "submit"} =>
           IF locks[s] THEN copy[s].status = "running"
           ELSE /\ appStatus[target[s]] \notin {"absent", "queued"}
                /\ appStatus'[target[s]] \notin {"absent", "queued"}
      /\ pc[s] = "write" => copy[s].status \notin {"absent", "queued", "running"}
  BY <1>2 DEF RunsKnowTheirStatus, Base, TargetsKnown
<1>4. ASSUME pc'[s] = pc[s], target'[s] = target[s], copy'[s] = copy[s], locks'[s] = locks[s]
      PROVE  Knows
  BY <1>3, <1>4
<1>5. ASSUME pc'[s] \notin {"pipeline", "submit", "write"} PROVE Knows
  BY <1>5
<1>6. CASE ReadApplication(s)
  <2>1. /\ pc'[s] \in {"ack", "pipeline", "flush"} /\ target' = target /\ appStatus' = appStatus
        /\ pc'[s] = "pipeline" => appStatus[target[s]] = "running"
        /\ copy'[s].status = appStatus[target[s]]
    BY <1>1, <1>6 DEF ReadApplication, Goto, Terminal, appVars
  <2> QED BY <2>1
<1>7. CASE BeginWork(s)
  <2>1. locks'[s] /\ copy'[s].status = "running" /\ pc'[s] = "pipeline"
    BY <1>1, <1>7 DEF BeginWork, SetCopy, Goto, Copies
  <2> QED BY <2>1
<1>8. CASE DecideToSubmit(s)
  <2>1. pc[s] = "pipeline" /\ pc'[s] = "submit" /\ UNCHANGED <<target, copy, locks>>
    BY <1>1, <1>8 DEF DecideToSubmit, Goto, Acts
  <2> QED BY <1>3, <2>1
<1>9. CASE MovedOn(s)
  <2>1. pc[s] = "submit" /\ Seen(s) # "running" /\ copy'[s].status = Seen(s) /\ pc'[s] = "write"
    BY <1>1, <1>9 DEF MovedOn, Acts, SetCopy, Goto, Copies
  <2> QED BY <1>3, <2>1 DEF Seen
<1>10. CASE ParkForReview(s) \/ RefuseSite(s)
  <2>1. pc'[s] = "write" /\ copy'[s].status \in {"needs_review", "failed"}
    BY <1>1, <1>10 DEF ParkForReview, RefuseSite, SetCopy, Goto, Copies
  <2> QED BY <2>1
<1>11. CASE RefuseBeforeClick(s)
  <2>1. \/ pc'[s] = "failing"
        \/ pc'[s] = "write" /\ copy'[s].status = "failed"
    BY <1>1, <1>11 DEF RefuseBeforeClick, SetCopy, Goto, Copies
  <2> QED BY <2>1
<1>12. CASE \/ Claim(s) \/ HandlerError(s) \/ FenceGone(s) \/ ParkOnFence(s) \/ Arm(s) \/ Click(s)
            \/ Confirmed(s) \/ Unconfirmed(s) \/ Die(s) \/ LoseClaim(s) \/ Acknowledge(s)
            \/ WriteOutcome(s) \/ FailRun(s) \/ ReadToPark(s) \/ ParkFailed(s)
  <2>1. \E place \in Places \ {"pipeline", "submit", "write"} : Goto(s, place)
    BY <1>12 DEF Claim, HandlerError, FenceGone, ParkOnFence, Arm, Click, Confirmed, Unconfirmed,
      Die, LoseClaim, Acknowledge, WriteOutcome, FailRun, ReadToPark, ParkFailed, Reset, Places
  <2> QED BY <1>1, <1>5, <2>1 DEF Goto
<1>13. ASSUME \/ ParkSpentTasks(s) \/ Renew(s) \/ (\E a \in Apps : Owner(a))
              \/ (\E t \in Tasks : Lapse(t) \/ ComeDue(t)) \/ UNCHANGED vars
       PROVE  UNCHANGED <<pc, target, copy, locks>>
  BY <1>13 DEF ParkSpentTasks, Renew, runVars, Owner, CreateApplication, Approve, Reject,
    MarkSubmitted, MarkNotSubmitted, Lapse, ComeDue, vars
<1>14. ASSUME NEW r \in Runs, r # s,
              Claim(r) \/ ParkSpentTasks(r) \/ Renew(r) \/ Work(r) \/ Die(r)
       PROVE  Knows
  BY <1>4, <1>14, OthersUntouched
<1>15. ASSUME UNCHANGED <<pc, target, copy, locks>> PROVE Knows
  BY <1>4, <1>15
<1>16. ASSUME Claim(s) \/ ParkSpentTasks(s) \/ Renew(s) \/ Work(s) \/ Die(s) PROVE Knows
  BY <1>4, <1>6, <1>7, <1>8, <1>9, <1>10, <1>11, <1>12, <1>13, <1>16, Zenon DEF Work
<1>17. Knows
  BY <1>13, <1>14, <1>15, <1>16 DEF ApplyNext
<1> QED BY <1>17 DEF Knows

\* A task's application is there, and stays the task's.
LEMMA StepKeepsTaskApps ==
  ASSUME Base, RunsKnowTheirStatus, TasksOfApplications, [ApplyNext]_vars
  PROVE  /\ TasksOfApplications'
         /\ \A t \in Tasks : status[t] # "absent" =>
              taskApp'[t] = taskApp[t] /\ status'[t] # "absent"
<1>1. /\ status \in [Tasks -> Statuses] /\ taskApp \in [Tasks -> Apps \cup {NoApp}]
      /\ \A t \in Tasks : status[t] # "absent" => taskApp[t] \in Apps
  BY DEF Base, QueueInv, TypeOK, ApplyTypeOK, ApplicationTypes, TargetsKnown
<1>2. \A a \in Apps : appStatus[a] # "absent" => appStatus'[a] # "absent"
  BY StatusFate DEF CreateApplication, Approve, Arm, SetApp, Base, ApplyTypeOK, ApplicationTypes
<1>3. ASSUME NEW a \in Apps, NewTask(a)
      PROVE  \E u \in Tasks :
               /\ status[u] = "absent"
               /\ \A t \in Tasks : t # u => status'[t] = status[t] /\ taskApp'[t] = taskApp[t]
               /\ status'[u] # "absent" /\ taskApp'[u] = a
  BY <1>1, <1>3 DEF NewTask, Enqueue
<1>4. ASSUME NEW a \in Apps, CreateApplication(a) \/ Approve(a)
      PROVE  NewTask(a) /\ appStatus'[a] # "absent"
  BY <1>4 DEF CreateApplication, Approve, SetApp, Base, ApplyTypeOK, ApplicationTypes
<1>5. CASE \E a \in Apps : CreateApplication(a) \/ Approve(a)
  BY <1>1, <1>2, <1>3, <1>4, <1>5 DEF TasksOfApplications
<1>6. ASSUME ~\E a \in Apps : CreateApplication(a) \/ Approve(a)
      PROVE  /\ taskApp' = taskApp
             /\ \A t \in Tasks : (status[t] = "absent") <=> (status'[t] = "absent")
  <2>1. ASSUME NEW r \in Runs,
               Claim(r) \/ ParkSpentTasks(r) \/ Renew(r) \/ Work(r) \/ Die(r)
        PROVE  taskApp' = taskApp /\ (RunStep(r) \/ status' = status)
    BY <2>1 DEF Work, Claim, ParkSpentTasks, Renew, Die, LoseClaim, ReadApplication, BeginWork,
      ParkForReview, RefuseSite, HandlerError, DecideToSubmit, MovedOn, FenceGone, Acknowledge,
      WriteOutcome, FailRun, ReadToPark, ParkFailed, ParkOnFence, Arm, Click, RefuseBeforeClick,
      Confirmed, Unconfirmed, appVars, queueVars, RunStep
  <2>2. ASSUME NEW a \in Apps, Owner(a) PROVE UNCHANGED <<taskApp, status>>
    BY <1>6, <2>2 DEF Owner, Reject, MarkSubmitted, MarkNotSubmitted, queueVars, appVars
  <2>3. ASSUME (\E t \in Tasks : Lapse(t) \/ ComeDue(t)) \/ UNCHANGED vars
        PROVE  UNCHANGED <<taskApp, status>>
    BY <2>3 DEF Lapse, ComeDue, LeaseTick, DueNow, vars, appVars, queueVars
  <2>4. ASSUME NEW r \in Runs, RunStep(r)
        PROVE  \A t \in Tasks : (status[t] = "absent") <=> (status'[t] = "absent")
    <3>1. \A t \in Tasks : status[t] = "absent" => status'[t] = "absent"
      BY <2>4, RunsCreateNoTask DEF Base
    <3>2. \A t \in Tasks : status'[t] = "absent" => status[t] = "absent"
      BY <1>1, <2>4 DEF RunStep, ClaimTask, ClaimNothing, ParkedStatus, RenewLease, CompleteTask,
        FailTask, ReleaseTask, DeferTask, GiveBack, ClaimOwnershipLost, Crash, taskVars
    <3> QED BY <3>1, <3>2
  <2> QED BY <2>1, <2>2, <2>3, <2>4 DEF ApplyNext
<1>7. CASE ~\E a \in Apps : CreateApplication(a) \/ Approve(a)
  BY <1>1, <1>2, <1>6, <1>7 DEF TasksOfApplications
<1> QED BY <1>5, <1>7

LEMMA SpentStays ==
  ASSUME Base, RunsKnowTheirStatus, TasksOfApplications, [ApplyNext]_vars, NEW a, SpentTask(a)
  PROVE  SpentTask(a)'
<1>1. PICK t \in Tasks : taskApp[t] = a /\ status[t] = "failed" /\ attempts[t] = MaxAttempts
  BY DEF SpentTask
<1>2. status'[t] = status[t] /\ attempts'[t] = attempts[t] /\ taskApp'[t] = taskApp[t]
  BY <1>1, StepsTheQueue, FinishedRowStays, StepKeepsTaskApps DEF Finished, Base
<1> QED BY <1>1, <1>2 DEF SpentTask

\* With the code's limits a failed task that is not retried has no attempt left.
LEMMA FailureSpends ==
  ASSUME Base, Base', RunsHoldTheirTask, FailLimit >= MaxAttempts, NEW r \in Runs, FailRun(r),
         ~Retrying(r, FailLimit)
  PROVE  SpentTask(target[r])'
<1>1. /\ claim[r] # NoClaim /\ Held(r) \in Tasks /\ claim[r].attempt = attempts[Held(r)]
      /\ attempts' = attempts /\ attempts[Held(r)] \in 0..MaxAttempts
      /\ status' = [status EXCEPT ![Held(r)] = "failed"]
      /\ UNCHANGED <<taskApp, target>>
  BY OwnerToken DEF FailRun, FailTask, Owns, Base, QueueInv, TypeOK, appVars
<1>2. attempts[Held(r)] = MaxAttempts
  BY <1>1, QueueAssumption DEF Retrying
<1>3. taskApp[Held(r)] = target[r]
  BY <1>1 DEF RunsHoldTheirTask
<1>4. status'[Held(r)] = "failed"
  BY <1>1 DEF Base, QueueInv, TypeOK
<1> QED BY <1>1, <1>2, <1>3, <1>4 DEF SpentTask

LEMMA StepKeepsHeldTasks ==
  ASSUME Base, Base', RunsHoldTheirTask, RunsKnowTheirStatus, TasksOfApplications,
         FailLimit >= MaxAttempts, [ApplyNext]_vars
  PROVE  RunsHoldTheirTask'
<1>1. /\ pc \in [Runs -> Places] /\ target \in [Runs -> Apps \cup {NoApp}]
      /\ claim \in [Runs -> Claims \cup {NoClaim}]
      /\ status \in [Tasks -> Statuses] /\ taskApp \in [Tasks -> Apps \cup {NoApp}]
  BY DEF Base, QueueInv, TypeOK, ApplyTypeOK, RunTypes, ApplicationTypes
<1>2. ASSUME NEW s \in Runs, pc'[s] \in {"marking", "parking"}
      PROVE  SpentTask(target[s])'
  <2>1. ASSUME target'[s] = target[s], SpentTask(target[s])
        PROVE  SpentTask(target[s])'
    <3>1. \A a : SpentTask(a) => SpentTask(a)'
      BY SpentStays
    <3> QED BY <2>1, <3>1 DEF SpentTask
  <2>2. CASE FailRun(s)
    <3>1. ~Retrying(s, FailLimit) /\ target' = target
      BY <1>1, <1>2, <2>2 DEF FailRun, Reset, Goto
    <3> QED BY <2>2, <3>1, FailureSpends
  <2>3. CASE ~FailRun(s)
    <3>1. pc[s] \in {"marking", "parking"} /\ target'[s] = target[s]
      <4>1. ASSUME NEW r \in Runs, r # s,
                   Claim(r) \/ ParkSpentTasks(r) \/ Renew(r) \/ Work(r) \/ Die(r)
            PROVE  pc'[s] = pc[s] /\ target'[s] = target[s]
        BY <4>1, OthersUntouched
      <4>2. CASE Reset(s)
        BY <1>1, <1>2, <4>2 DEF Reset, Goto
      <4>3. ASSUME NEW place \in Places \ {"marking", "parking"}, Goto(s, place) PROVE FALSE
        BY <1>1, <1>2, <4>3 DEF Goto
      <4>4. ASSUME Claim(s) \/ ReadApplication(s) \/ BeginWork(s) \/ ParkForReview(s)
                   \/ RefuseSite(s) \/ HandlerError(s) \/ DecideToSubmit(s) \/ MovedOn(s)
                   \/ FenceGone(s) \/ ParkOnFence(s) \/ Arm(s) \/ Click(s)
                   \/ RefuseBeforeClick(s) \/ Confirmed(s) \/ Unconfirmed(s)
            PROVE  \E place \in Places \ {"marking", "parking"} : Goto(s, place)
        BY <4>4 DEF Claim, ReadApplication, BeginWork, ParkForReview, RefuseSite, HandlerError,
          DecideToSubmit, MovedOn, FenceGone, ParkOnFence, Arm, Click, RefuseBeforeClick,
          Confirmed, Unconfirmed, Places
      <4>5. ASSUME Die(s) \/ LoseClaim(s) \/ Acknowledge(s) \/ WriteOutcome(s) \/ ParkFailed(s)
                   \/ ReadToPark(s)
            PROVE  Reset(s) \/ (pc[s] = "marking" /\ target' = target)
        BY <4>5 DEF Die, LoseClaim, Acknowledge, WriteOutcome, ParkFailed, ReadToPark
      <4>6. ASSUME \/ ParkSpentTasks(s) \/ Renew(s) \/ (\E a \in Apps : Owner(a))
                   \/ (\E t \in Tasks : Lapse(t) \/ ComeDue(t)) \/ UNCHANGED vars
            PROVE  pc' = pc /\ target' = target
        BY <4>6 DEF ParkSpentTasks, Renew, runVars, Owner, CreateApplication, Approve, Reject,
          MarkSubmitted, MarkNotSubmitted, Lapse, ComeDue, vars
      <4>7. CASE Claim(s) \/ ParkSpentTasks(s) \/ Renew(s) \/ Work(s) \/ Die(s)
        BY <1>2, <2>3, <4>2, <4>3, <4>4, <4>5, <4>6, <4>7, Zenon DEF Work
      <4> QED BY <1>2, <4>1, <4>6, <4>7 DEF ApplyNext
    <3>2. SpentTask(target[s])
      BY <3>1 DEF RunsHoldTheirTask
    <3> QED BY <2>1, <3>1, <3>2
  <2> QED BY <2>2, <2>3
<1>3. ASSUME NEW s \in Runs, claim'[s] # NoClaim
      PROVE  /\ pc'[s] \notin {"idle", "marking", "parking"}
             /\ taskApp'[claim'[s].task] = target'[s]
             /\ OneRun => status'[claim'[s].task] = "running"
  <2> USE DEF Held
  <2>1. ASSUME claim'[s] = claim[s], pc'[s] \notin {"idle", "marking", "parking"},
               target'[s] = target[s]
        PROVE  taskApp'[claim'[s].task] = target'[s]
    BY <1>3, <2>1, OwnerToken, StepKeepsTaskApps DEF RunsHoldTheirTask, Base
  <2>2. CASE Claim(s)
    <3>1. PICK t \in Tasks : ClaimTask(s, t) /\ target' = [target EXCEPT ![s] = taskApp[t]]
      BY <2>2 DEF Claim
    <3>2. claim'[s].task = t /\ status'[t] = "running" /\ taskApp' = taskApp
          /\ target'[s] = taskApp[t] /\ pc'[s] = "claimed"
      BY <1>1, <2>2, <3>1 DEF Claim, ClaimTask, Goto, appVars, ParkedStatus
    <3> QED BY <3>2
  <2>3. CASE ~Claim(s)
    <3>1. claim'[s] = claim[s]
      <4>1. ASSUME NEW r \in Runs, r # s,
                   Claim(r) \/ ParkSpentTasks(r) \/ Renew(r) \/ Work(r) \/ Die(r)
            PROVE  claim'[s] = claim[s]
        <5>1. claim' = claim \/ (\E t \in Tasks : ClaimTask(r, t)) \/ EndRun(r)
          BY <4>1 DEF Claim, ParkSpentTasks, ClaimNothing, Renew, RenewLease, Work, Die, Crash,
            LoseClaim, ClaimOwnershipLost, ReadApplication, BeginWork, ParkForReview, RefuseSite,
            HandlerError, DecideToSubmit, MovedOn, FenceGone, Acknowledge, WriteOutcome,
            CompleteTask, FailRun, FailTask, ReadToPark, ParkFailed, ParkOnFence, Arm, Click,
            RefuseBeforeClick, Confirmed, Unconfirmed, queueVars
        <5> QED BY <1>1, <4>1, <5>1 DEF ClaimTask, EndRun
      <4>2. ASSUME ParkSpentTasks(s) \/ Renew(s) \/ Work(s) \/ Die(s)
            PROVE  claim'[s] = claim[s]
        <5>1. claim' = claim \/ EndRun(s)
          BY <4>2 DEF ParkSpentTasks, ClaimNothing, Renew, RenewLease, Work, Die, Crash,
            LoseClaim, ClaimOwnershipLost, ReadApplication, BeginWork, ParkForReview, RefuseSite,
            HandlerError, DecideToSubmit, MovedOn, FenceGone, Acknowledge, WriteOutcome,
            CompleteTask, FailRun, FailTask, ReadToPark, ParkFailed, ParkOnFence, Arm, Click,
            RefuseBeforeClick, Confirmed, Unconfirmed, queueVars
        <5> QED BY <1>1, <1>3, <5>1 DEF EndRun
      <4>3. ASSUME \/ (\E a \in Apps : Owner(a))
                   \/ (\E t \in Tasks : Lapse(t) \/ ComeDue(t)) \/ UNCHANGED vars
            PROVE  claim' = claim
        BY <4>3 DEF Owner, CreateApplication, Approve, Reject, MarkSubmitted, MarkNotSubmitted,
          NewTask, Enqueue, Lapse, ComeDue, LeaseTick, DueNow, vars, queueVars
      <4> QED BY <2>3, <4>1, <4>2, <4>3 DEF ApplyNext
    <3>2. pc[s] \notin {"idle", "marking", "parking"} /\ Held(s) \in Tasks
          /\ status[Held(s)] # "absent" /\ (OneRun => status[Held(s)] = "running")
      BY <1>3, <3>1, OwnerToken DEF RunsHoldTheirTask, Base
    <3>3. pc'[s] \notin {"idle", "marking", "parking"} /\ target'[s] = target[s]
      <4>1. ASSUME NEW r \in Runs, r # s,
                   Claim(r) \/ ParkSpentTasks(r) \/ Renew(r) \/ Work(r) \/ Die(r)
            PROVE  pc'[s] = pc[s] /\ target'[s] = target[s]
        BY <4>1, OthersUntouched
      <4>2. ASSUME NEW place \in Places \ {"idle", "marking", "parking"}, Goto(s, place),
                   target' = target
            PROVE  pc'[s] \notin {"idle", "marking", "parking"} /\ target'[s] = target[s]
        BY <1>1, <4>2 DEF Goto
      <4>3. ASSUME ReadApplication(s) \/ BeginWork(s) \/ ParkForReview(s)
                   \/ RefuseSite(s) \/ HandlerError(s) \/ DecideToSubmit(s) \/ MovedOn(s)
                   \/ FenceGone(s) \/ ParkOnFence(s) \/ Arm(s) \/ Click(s)
                   \/ RefuseBeforeClick(s) \/ Confirmed(s) \/ Unconfirmed(s)
            PROVE  /\ target' = target
                   /\ \E place \in Places \ {"idle", "marking", "parking"} : Goto(s, place)
        BY <4>3 DEF ReadApplication, BeginWork, ParkForReview, RefuseSite, HandlerError,
          DecideToSubmit, MovedOn, FenceGone, ParkOnFence, Arm, Click, RefuseBeforeClick,
          Confirmed, Unconfirmed, Places
      <4>4. ASSUME Die(s) \/ LoseClaim(s) \/ Acknowledge(s) \/ WriteOutcome(s) \/ FailRun(s)
                   \/ ReadToPark(s) \/ ParkFailed(s)
            PROVE  FALSE
        <5>1. ~EndRun(s)
          BY <1>1, <1>3 DEF EndRun
        <5>2. pc[s] \notin {"marking", "parking"}
          BY <3>2
        <5> QED BY <4>4, <5>1, <5>2 DEF Die, LoseClaim, Acknowledge, WriteOutcome, FailRun,
          ReadToPark, ParkFailed, Crash, ClaimOwnershipLost, CompleteTask, FailTask
      <4>5. ASSUME \/ ParkSpentTasks(s) \/ Renew(s) \/ (\E a \in Apps : Owner(a))
                   \/ (\E t \in Tasks : Lapse(t) \/ ComeDue(t)) \/ UNCHANGED vars
            PROVE  pc' = pc /\ target' = target
        BY <4>5 DEF ParkSpentTasks, Renew, runVars, Owner, CreateApplication, Approve, Reject,
          MarkSubmitted, MarkNotSubmitted, Lapse, ComeDue, vars
      <4>6. CASE ParkSpentTasks(s) \/ Renew(s) \/ Work(s) \/ Die(s)
        BY <3>2, <4>2, <4>3, <4>4, <4>5, <4>6, Zenon DEF Work
      <4> QED BY <2>3, <3>2, <4>1, <4>5, <4>6 DEF ApplyNext
    <3>4. ASSUME OneRun PROVE status'[Held(s)] = "running"
      <4>1. ASSUME NEW r \in Runs,
                   Claim(r) \/ ParkSpentTasks(r) \/ Renew(r) \/ Work(r) \/ Die(r)
            PROVE  status' = status
        <5>1. r = s /\ claim[s] # NoClaim /\ ~EndRun(s)
          BY <1>1, <1>3, <3>1, <3>4 DEF OneRun, EndRun
        <5> QED BY <4>1, <5>1 DEF Claim, ClaimTask, ParkSpentTasks, ClaimNothing, Renew,
            RenewLease, Work, Die, Crash,
            LoseClaim, ClaimOwnershipLost, ReadApplication, BeginWork, ParkForReview, RefuseSite,
            HandlerError, DecideToSubmit, MovedOn, FenceGone, Acknowledge, WriteOutcome,
            CompleteTask, FailRun, FailTask, ReadToPark, ParkFailed, ParkOnFence, Arm, Click,
            RefuseBeforeClick, Confirmed, Unconfirmed, queueVars
      <4>2. ASSUME \/ (\E a \in Apps : Owner(a))
                   \/ (\E t \in Tasks : Lapse(t) \/ ComeDue(t)) \/ UNCHANGED vars
            PROVE  status' = status \/ \E u \in Tasks : \E now : Enqueue(u, now)
        BY <4>2 DEF Owner, CreateApplication, Approve, Reject, MarkSubmitted, MarkNotSubmitted,
          NewTask, Lapse, ComeDue, LeaseTick, DueNow, vars, queueVars
      <4> QED BY <1>1, <3>2, <3>4, <4>1, <4>2 DEF ApplyNext, Enqueue
    <3> QED BY <2>1, <3>1, <3>3, <3>4
  <2> QED BY <2>2, <2>3
<1> QED BY <1>2, <1>3 DEF RunsHoldTheirTask, Held

\* A run acts only under its lease, or there is no other run.
NoOvertaking == ~StaleSteps \/ OneRun

\* A run comes to its end without settling the application only by finding
\* or putting it where nothing is to be done.
LEMMA EndsAreSettled ==
  ASSUME Base, [ApplyNext]_vars, NEW s \in Runs, pc'[s] = "ack", claim[s] # NoClaim,
         RunsHoldTheirTask
  PROVE  \/ pc[s] = "ack"
         \/ target[s] \in Apps /\ appStatus'[target[s]] \notin {"queued", "running"}
<1>1. /\ pc \in [Runs -> Places] /\ appStatus \in [Apps -> AppStatuses]
      /\ pc[s] # "idle" /\ target[s] \in Apps
  BY DEF Base, ApplyTypeOK, RunTypes, ApplicationTypes, RunsHoldTheirTask, TargetsKnown
<1>2. ASSUME NEW r \in Runs, r # s,
             Claim(r) \/ ParkSpentTasks(r) \/ Renew(r) \/ Work(r) \/ Die(r)
      PROVE  pc[s] = "ack"
  BY <1>2, OthersUntouched
<1>3. ASSUME NEW place \in Places \ {"ack"}, Goto(s, place) PROVE FALSE
  BY <1>1, <1>3 DEF Goto
<1>4. CASE ReadApplication(s)
  BY <1>1, <1>4 DEF ReadApplication, Goto, Terminal, appVars
<1>5. CASE ParkOnFence(s) \/ Confirmed(s) \/ Unconfirmed(s)
  BY <1>1, <1>5 DEF ParkOnFence, Confirmed, Unconfirmed, SetApp
<1>6. ASSUME \/ Claim(s) \/ BeginWork(s) \/ ParkForReview(s) \/ RefuseSite(s) \/ HandlerError(s)
             \/ DecideToSubmit(s) \/ MovedOn(s) \/ FenceGone(s) \/ Arm(s) \/ Click(s)
             \/ RefuseBeforeClick(s) \/ Die(s) \/ LoseClaim(s) \/ Acknowledge(s)
             \/ WriteOutcome(s) \/ FailRun(s) \/ ReadToPark(s) \/ ParkFailed(s)
      PROVE  \E place \in Places \ {"ack"} : Goto(s, place)
  BY <1>6 DEF Claim, BeginWork, ParkForReview, RefuseSite, HandlerError,
    DecideToSubmit, MovedOn, FenceGone, Arm, Click, RefuseBeforeClick, Die, LoseClaim,
    Acknowledge, WriteOutcome, FailRun, ReadToPark, ParkFailed, Reset, Places
<1>7. ASSUME \/ ParkSpentTasks(s) \/ Renew(s) \/ (\E a \in Apps : Owner(a))
             \/ (\E t \in Tasks : Lapse(t) \/ ComeDue(t)) \/ UNCHANGED vars
      PROVE  pc' = pc
  BY <1>7 DEF ParkSpentTasks, Renew, runVars, Owner, CreateApplication, Approve, Reject,
    MarkSubmitted, MarkNotSubmitted, Lapse, ComeDue, vars
<1>8. CASE Claim(s) \/ ParkSpentTasks(s) \/ Renew(s) \/ Work(s) \/ Die(s)
  BY <1>1, <1>3, <1>4, <1>5, <1>6, <1>7, <1>8, Zenon DEF Work
<1> QED BY <1>2, <1>7, <1>8 DEF ApplyNext

\* What carries an application goes on carrying it, is spent, or settles it.
LEMMA CarriersLast ==
  ASSUME Base, Base', WorkInv, FailLimit >= MaxAttempts, [ApplyNext]_vars,
         NEW a \in Apps, NEW t \in Tasks, taskApp[t] = a, Carries(t), AtWork(a)'
  PROVE  Carried(a)'
<1>1. taskApp'[t] = a
  BY StepKeepsTaskApps DEF WorkInv, Carries, Live
<1>2. ASSUME NEW r \in Runs, Owns(r), Held(r) = t
      PROVE  target[r] = a /\ claim[r] # NoClaim /\ pc[r] # "ack"
  BY <1>2 DEF WorkInv, RunsHoldTheirTask, Owns, Carries
<1>3. CASE Live(t)'
  <2>1. ASSUME NEW r \in Runs, Owns(r)', claim'[r].task = t, pc'[r] = "ack" PROVE FALSE
    <3>1. ~Claim(r)
      BY <2>1 DEF Claim, Goto, Base, ApplyTypeOK, RunTypes
    <3>2. Owns(r) /\ Held(r) = t
      BY <2>1, <3>1, OwnersClaimed DEF Held
    <3>3. appStatus'[a] \notin {"queued", "running"}
      BY <1>2, <2>1, <3>2, EndsAreSettled DEF WorkInv
    <3> QED BY <3>3 DEF AtWork
  <2> QED BY <1>1, <1>3, <2>1 DEF Carried, Carries, Held
<1>4. ASSUME NEW r \in Runs, Acknowledge(r) \/ WriteOutcome(r), Owns(r), Held(r) = t
      PROVE  FALSE
  <2>1. ~Acknowledge(r)
    BY <1>2, <1>4 DEF Acknowledge
  <2>2. appStatus'[a] = copy[r].status /\ copy[r].status \notin {"queued", "running"}
    BY <1>2, <1>4, <2>1 DEF WriteOutcome, SetApp, WorkInv, RunsKnowTheirStatus, Base, ApplyTypeOK,
      ApplicationTypes
  <2> QED BY <2>2 DEF AtWork
<1>5. ASSUME status'[t] = "failed", attempts'[t] = MaxAttempts \/ attempts'[t] >= FailLimit
      PROVE  Carried(a)'
  <2>1. attempts'[t] \in 0..MaxAttempts
    BY DEF Base, QueueInv, TypeOK
  <2>2. attempts'[t] = MaxAttempts
    BY <1>5, <2>1, QueueAssumption
  <2> QED BY <1>1, <1>5, <2>2 DEF Carried, SpentTask
<1>6. Live(t)
  BY DEF Carries
<1> QED BY <1>3, <1>4, <1>5, <1>6, TaskFate

\* The owner's routes that put an application to work queue a task for it.
LEMMA OwnersQueueWork ==
  ASSUME Base, Base', [ApplyNext]_vars, NEW a \in Apps, CreateApplication(a) \/ Approve(a)
  PROVE  Carried(a)'
<1>1. PICK t \in Tasks : Enqueue(t, TRUE) /\ taskApp' = [taskApp EXCEPT ![t] = a]
  BY DEF CreateApplication, Approve, NewTask
<1>2. status'[t] = "pending" /\ taskApp'[t] = a
  BY <1>1 DEF Enqueue, Base, QueueInv, TypeOK, ApplyTypeOK, ApplicationTypes
<1>3. ASSUME NEW r \in Runs PROVE ~(Owns(r)' /\ Held(r)' = t)
  BY <1>2 DEF Owns, Held
<1> QED BY <1>2, <1>3 DEF Carried, Carries, Live

\* A run arms only while its task is open and nobody has come to its end.
LEMMA ArmingIsCarried ==
  ASSUME Base, Base', WorkInv, NoOvertaking, [ApplyNext]_vars,
         NEW r \in Runs, Arm(r)
  PROVE  Carried(target[r])'
<1> DEFINE t == Held(r)
<1>1. /\ claim[r] # NoClaim /\ t \in Tasks /\ taskApp[t] = target[r]
      /\ OneRun \/ Owns(r)
  BY OwnerToken DEF Arm, Acts, NoOvertaking, Base, WorkInv, RunsHoldTheirTask
<1>2. status[t] = "running"
  BY <1>1 DEF Owns, Held, WorkInv, RunsHoldTheirTask
<1>3. /\ UNCHANGED <<queueVars, taskApp, target>> /\ pc'[r] = "armed"
  BY DEF Arm, Goto, Base, ApplyTypeOK, RunTypes
<1>4. ASSUME NEW s \in Runs, Owns(s), Held(s) = t PROVE s = r
  <2>1. CASE OneRun
    BY <2>1 DEF OneRun
  <2>2. CASE Owns(r)
    BY <1>4, <2>2 DEF Base, QueueInv, TokenInv, TokensDistinct, Owns, Held
  <2> QED BY <1>1, <2>1, <2>2
<1>5. claim' = claim /\ status' = status /\ attempts' = attempts /\ lockedBy' = lockedBy
      /\ lease' = lease
  BY <1>3 DEF queueVars, taskVars
<1>6. \A s \in Runs : (Owns(s)' => Owns(s)) /\ claim'[s].task = claim[s].task
  BY <1>5 DEF Owns
<1>7. ASSUME NEW s \in Runs, Owns(s)', claim'[s].task = t PROVE pc'[s] # "ack"
  BY <1>3, <1>4, <1>6, <1>7 DEF Held
<1>8. status'[t] = "running" /\ taskApp'[t] = target'[r] /\ t' = t
  BY <1>1, <1>2, <1>3, <1>5 DEF Held
<1>9. Carries(t)'
  BY <1>7, <1>8 DEF Carries, Live, Held
<1> QED BY <1>1, <1>8, <1>9 DEF Carried

LEMMA StepKeepsCarried ==
  ASSUME Base, Base', WorkInv, FailLimit >= MaxAttempts, NoOvertaking, [ApplyNext]_vars,
         NEW a \in Apps, AtWork(a)'
  PROVE  Carried(a)'
<1>1. CASE AtWork(a)
  <2>1. Carried(a)
    BY <1>1 DEF WorkInv
  <2>2. SpentTask(a) => SpentTask(a)'
    BY SpentStays DEF WorkInv
  <2>3. ASSUME NEW t \in Tasks, taskApp[t] = a, Carries(t) PROVE Carried(a)'
    BY <2>3, CarriersLast
  <2> QED BY <2>1, <2>2, <2>3 DEF Carried
<1>2. CASE ~AtWork(a)
  <2>1. appStatus'[a] # appStatus[a] /\ appStatus'[a] \in {"queued", "running"}
    BY <1>2 DEF AtWork
  <2>2. \/ CreateApplication(a) \/ Approve(a)
        \/ \E r \in Runs : Arm(r) /\ target[r] = a
    BY <2>1, StatusFate DEF WorkInv
  <2>3. ASSUME NEW r \in Runs, Arm(r), target[r] = a PROVE Carried(a)'
    <3>1. Carried(target[r])'
      BY <2>3, ArmingIsCarried
    <3>2. target'[r] = a
      BY <2>3 DEF Arm
    <3> QED BY <3>1, <3>2 DEF Carried, SpentTask
  <2> QED BY <2>2, <2>3, OwnersQueueWork
<1> QED BY <1>1, <1>2

LEMMA StepKeepsWorkInv ==
  ASSUME FailLimit >= MaxAttempts, NoOvertaking
  PROVE  Base /\ Base' /\ WorkInv /\ [ApplyNext]_vars => WorkInv'
<1> SUFFICES ASSUME Base, Base', WorkInv, [ApplyNext]_vars PROVE WorkInv'
  OBVIOUS
<1>1. RunsHoldTheirTask'
  BY StepKeepsHeldTasks DEF WorkInv
<1>2. RunsKnowTheirStatus'
  BY StepKeepsKnownStatus DEF WorkInv
<1>3. TasksOfApplications'
  BY StepKeepsTaskApps DEF WorkInv
<1>4. \A a \in Apps : AtWork(a)' => Carried(a)'
  BY StepKeepsCarried
<1> QED BY <1>1, <1>2, <1>3, <1>4 DEF WorkInv

LEMMA InitWorkInv == ApplyInit => WorkInv
BY DEF ApplyInit, QueueInit, WorkInv, RunsHoldTheirTask, RunsKnowTheirStatus, TasksOfApplications,
  AtWork

\* ApplyLedger's WorkHasTask: an application in queued or running has an open
\* task, a run about to fail it, or a task that spent its last attempt.  The
\* code's two limits are one constant (queue.py, DEFAULT_MAX_ATTEMPTS), which
\* is the first hypothesis; the second is that no run acts on a lapsed lease
\* beside another.
THEOREM WorkIsCarried ==
  ASSUME FailLimit >= MaxAttempts, NoOvertaking
  PROVE  ApplySpec => []WorkHasTask
<1>1. ApplyInit => Base /\ WorkInv
  BY InitBase, InitWorkInv
<1>2. Base /\ WorkInv /\ [ApplyNext]_vars => (Base /\ WorkInv)'
  BY StepKeepsBase, StepKeepsWorkInv
<1>3. WorkInv => WorkHasTask
  BY DEF WorkInv, WorkHasTask, Unattended, Carried, Carries, Live, AtWork
<1> QED BY <1>1, <1>2, <1>3, PTL DEF ApplySpec
=============================================================================
