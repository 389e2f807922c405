------------------------------- MODULE Doorbell -------------------------------
(***************************************************************************)
(* Telling the owner that an application waits on them                     *)
(* (packages/core/notify.py), for one application.                         *)
(*                                                                         *)
(* An execution of one of its tasks (apps/worker/run.py) parks it.  Most   *)
(* parks are committed with the task's end, under the claim; those that    *)
(* _submit makes are committed by themselves, and the task is completed    *)
(* later, if the claim still holds.  So a parked application may have an   *)
(* open task, be run again, and be approved by the owner, whose new task   *)
(* runs beside the old one.  Only after the commit that ends its task does *)
(* an execution look whether the park was announced, deliver, and record a *)
(* `notified` event.                                                       *)
(*                                                                         *)
(* Events carry the clock their transaction began with, not that of its    *)
(* commit; the latest of each kind is all that is ever asked for. Sessions *)
(* keep objects over a commit (expire_on_commit=False) while something     *)
(* refers to them, so the status looked at is the execution's copy or the  *)
(* row's. Row locks, which ApplyLedger models, are left out: they only     *)
(* take interleavings away.                                                *)
(***************************************************************************)
EXTENDS Naturals

CONSTANTS
  Executions,  \* executions that can overlap
  MaxParks,    \* bound: parks of the application in one way
  MaxGiven,    \* bound: tasks the application is given
  MaxClock     \* bound: transactions begun

ASSUME DoorbellAssumption ==
  MaxParks \in Nat \ {0} /\ MaxGiven \in Nat \ {0} /\ MaxClock \in Nat \ {0}

VARIABLES
  appStatus,  \* applications.status with its failure_reason
  given,      \* how many apply tasks it was given
  openTasks,  \* those that are pending or running
  holder,     \* the executions that still own their task's claim
  taskOf,     \* the task an execution claimed
  step,       \* where it is
  began,      \* the clock at the beginning of its transaction
  copy,       \* the status it holds in memory
  about,      \* the park it rings for: the last one of its copy's kind
  clock,
  parkedAt,   \* application_events, by kind: the latest transition into it,
  toldAt,     \* and the latest `notified` event about it
  parks,      \* history: how often the application came to wait, in each way
  heard,      \* history: the parks a `notified` event was written for
  again,      \* history: the park it rings for was told when it looked
  rang        \* history: how often a task rang

runOwnVars == <<taskOf, began, copy, about, again>>
eventVars == <<clock, parkedAt, toldAt, heard, rang>>
doorbellVars == <<appStatus, given, openTasks, holder, step, parks, runOwnVars, eventVars>>

\* needs_owner: the states that wait on a person.  "manual" is failed with
\* manual_completion_required, "failed" any other failure.
Waiting == {"needs_review", "manual"}
Over == {"manual", "failed", "submitted"}
AppStatuses == {"queued", "running", "needs_review"} \cup Over
AtWork == {"claimed", "working", "closing"}
Steps == AtWork \cup {"idle", "failing", "ended", "ringing", "rung"}
Clock == 0..MaxClock
ParkNumbers == 0..MaxParks

DoorbellTypeOK ==
  /\ appStatus \in AppStatuses /\ given \in 1..MaxGiven /\ openTasks \subseteq 1..given
  /\ holder \subseteq Executions /\ taskOf \in [Executions -> 0..MaxGiven]
  /\ step \in [Executions -> Steps] /\ began \in [Executions -> Clock]
  /\ copy \in [Executions -> AppStatuses] /\ about \in [Executions -> ParkNumbers]
  /\ clock \in Clock
  /\ parkedAt \in [Waiting -> Clock] /\ toldAt \in [Waiting -> Clock]
  /\ parks \in [Waiting -> ParkNumbers] /\ heard \subseteq Waiting \X ParkNumbers
  /\ again \in [Executions -> BOOLEAN]
  /\ rang \in [1..MaxGiven -> Nat]

DoorbellInit ==
  /\ appStatus = "queued" /\ given = 1 /\ openTasks = {1} /\ holder = {}
  /\ taskOf = [r \in Executions |-> 0] /\ step = [r \in Executions |-> "idle"]
  /\ began = [r \in Executions |-> 0] /\ copy = [r \in Executions |-> "queued"]
  /\ about = [r \in Executions |-> 0] /\ clock = 0
  /\ parkedAt = [s \in Waiting |-> 0] /\ toldAt = [s \in Waiting |-> 0]
  /\ parks = [s \in Waiting |-> 0] /\ heard = {} /\ again = [r \in Executions |-> FALSE]
  /\ rang = [t \in 1..MaxGiven |-> 0]

GotoPlace(r, p) == step' = [step EXCEPT ![r] = p]
HoldCopy(r, s) == copy' = [copy EXCEPT ![r] = s]
Later(a, b) == IF a > b THEN a ELSE b

\* A transaction takes the clock when it begins.
BeginTransaction(r) ==
  /\ clock < MaxClock /\ clock' = clock + 1
  /\ began' = [began EXCEPT ![r] = clock']

\* transition, committed: each one into a state that waits is a park of its
\* own.  Its transaction began with the run, or after a commit made since.
WriteStatus(r, s) ==
  /\ appStatus' = s
  /\ IF s \in Waiting
       THEN /\ parks[s] < MaxParks /\ parks' = [parks EXCEPT ![s] = @ + 1]
            /\ \E at \in began[r]..clock : parkedAt' = [parkedAt EXCEPT ![s] = Later(@, at)]
       ELSE UNCHANGED <<parks, parkedAt>>

\* The execution is over, and what it held in memory is gone.
LeaveRun(r) ==
  /\ GotoPlace(r, "idle") /\ taskOf' = [taskOf EXCEPT ![r] = 0]
  /\ began' = [began EXCEPT ![r] = 0] /\ HoldCopy(r, "queued")
  /\ about' = [about EXCEPT ![r] = 0] /\ again' = [again EXCEPT ![r] = FALSE]

-----------------------------------------------------------------------------
(* The execution, up to the commit that ends its task.                     *)

TakeTask(r, t) ==
  /\ step[r] = "idle" /\ t \in openTasks /\ \A q \in holder : taskOf[q] # t
  /\ GotoPlace(r, "claimed") /\ holder' = holder \cup {r} /\ taskOf' = [taskOf EXCEPT ![r] = t]
  /\ UNCHANGED <<appStatus, given, openTasks, parks, began, copy, about, again, eventVars>>

\* The lease is given up, or lapses under the execution, which works on until
\* it notices; or the task is put back to be tried again.
RunLosesClaim(r) ==
  /\ r \in holder /\ holder' = holder \ {r}
  /\ UNCHANGED <<appStatus, given, openTasks, step, parks, runOwnVars, eventVars>>

\* ClaimOwnershipLost: what is not committed is not kept, and nothing is announced.
GiveUpRun(r) ==
  /\ step[r] \in AtWork /\ r \notin holder /\ LeaveRun(r)
  /\ UNCHANGED <<appStatus, given, openTasks, holder, parks, eventVars>>

RunDies(r) ==
  /\ step[r] # "idle" /\ LeaveRun(r) /\ holder' = holder \ {r}
  /\ UNCHANGED <<appStatus, given, openTasks, parks, eventVars>>

\* begin_work: a queued, parked or running application is taken up, and one
\* that is over left as it is.  Nothing is committed.
OpenApplication(r) ==
  /\ step[r] = "claimed" /\ appStatus \notin Over
  /\ BeginTransaction(r) /\ HoldCopy(r, "running") /\ GotoPlace(r, "working")
  /\ UNCHANGED <<appStatus, given, openTasks, holder, parks, taskOf, about, again, parkedAt, toldAt,
                 heard, rang>>

FindItOver(r) ==
  /\ step[r] = "claimed" /\ appStatus \in Over
  /\ HoldCopy(r, appStatus) /\ GotoPlace(r, "closing")
  /\ UNCHANGED <<appStatus, given, openTasks, holder, parks, taskOf, began, about, again, eventVars>>

\* _submit reads the row again and finds that it is no longer running.
LeaveAsFound(r) ==
  /\ step[r] = "working" /\ appStatus # "running"
  /\ HoldCopy(r, appStatus) /\ GotoPlace(r, "closing")
  /\ UNCHANGED <<appStatus, given, openTasks, holder, parks, taskOf, began, about, again, eventVars>>

\* The fence is committed before the click, and the status with it.
CommitAttempt(r) ==
  /\ step[r] = "working" /\ appStatus' = "running"
  /\ UNCHANGED <<given, openTasks, holder, step, parks, runOwnVars, eventVars>>

\* What _submit commits by itself: a park, or the confirmation.  The task is
\* still open, and the claim is not asked.
CommitAlone(r, s) ==
  /\ step[r] = "working" /\ s \in {"needs_review", "submitted"}
  /\ WriteStatus(r, s) /\ HoldCopy(r, s) /\ GotoPlace(r, "closing")
  /\ UNCHANGED <<given, openTasks, holder, taskOf, began, about, again, clock, toldAt, heard, rang>>

EndsTask(r) ==
  /\ r \in holder /\ holder' = holder \ {r} /\ openTasks' = openTasks \ {taskOf[r]}

\* Any other outcome is committed with the task's completion.
CommitEnd(r, s) ==
  /\ step[r] = "working" /\ s \in Waiting \cup {"failed"}
  /\ WriteStatus(r, s) /\ HoldCopy(r, s) /\ EndsTask(r) /\ GotoPlace(r, "ended")
  /\ UNCHANGED <<given, taskOf, began, about, again, clock, toldAt, heard, rang>>

\* Mutant: the task is completed whoever owns it by now.
CloseUnfenced(r) ==
  /\ step[r] = "closing" /\ GotoPlace(r, "ended")
  /\ holder' = holder \ {r} /\ openTasks' = openTasks \ {taskOf[r]}
  /\ UNCHANGED <<appStatus, given, parks, runOwnVars, eventVars>>

CloseTask(r) ==
  /\ step[r] = "closing" /\ EndsTask(r) /\ GotoPlace(r, "ended")
  /\ UNCHANGED <<appStatus, given, parks, runOwnVars, eventVars>>

\* An error with no retry left: the task's failure is committed first.
FailTaskForGood(r) ==
  /\ step[r] \in AtWork /\ EndsTask(r) /\ GotoPlace(r, "failing")
  /\ UNCHANGED <<appStatus, given, parks, runOwnVars, eventVars>>

\* park_failed, later; what it read before it writes may be old.
FailApplication(r) ==
  /\ step[r] = "failing" /\ GotoPlace(r, "ended")
  /\ \/ appStatus \in Over /\ HoldCopy(r, appStatus) /\ UNCHANGED appStatus
     \/ HoldCopy(r, "failed") /\ appStatus' = "failed"
  /\ UNCHANGED <<given, openTasks, holder, parks, taskOf, began, about, again, eventVars>>

-----------------------------------------------------------------------------
(* notify_if_parked.                                                       *)

\* An announcement since the last transition into this status.
Announced(s) == toldAt[s] > 0 /\ toldAt[s] >= parkedAt[s]

Unheard(s) == s \in Waiting /\ ~Announced(s)

Look(r) ==
  /\ step[r] = "ended" /\ BeginTransaction(r)
  /\ \E s \in {copy[r], appStatus} :
       /\ Unheard(s) /\ HoldCopy(r, s)
       /\ about' = [about EXCEPT ![r] = parks[s]]
       /\ again' = [again EXCEPT ![r] = <<s, parks[s]>> \in heard]
  /\ GotoPlace(r, "ringing")
  /\ UNCHANGED <<appStatus, given, openTasks, holder, parks, taskOf, parkedAt, toldAt, heard, rang>>

StayQuiet(r) ==
  /\ step[r] = "ended" /\ LeaveRun(r)
  /\ \E s \in {copy[r], appStatus} : ~Unheard(s)
  /\ UNCHANGED <<appStatus, given, openTasks, holder, parks, eventVars>>

Deliver(r) ==
  /\ step[r] = "ringing" /\ GotoPlace(r, "rung")
  /\ rang' = [rang EXCEPT ![taskOf[r]] = @ + 1]
  /\ UNCHANGED <<appStatus, given, openTasks, holder, parks, runOwnVars, clock, parkedAt, toldAt, heard>>

RecordNotified(r) ==
  /\ step[r] = "rung" /\ LeaveRun(r)
  /\ toldAt' = [toldAt EXCEPT ![copy[r]] = Later(@, began[r])]
  /\ heard' = heard \cup {<<copy[r], about[r]>>}
  /\ UNCHANGED <<appStatus, given, openTasks, holder, parks, clock, parkedAt, rang>>

-----------------------------------------------------------------------------
(* The owner's routes.                                                     *)

\* review_application: approval sets it running and queues a task, whether or
\* not the task that parked it is completed.
Approve ==
  /\ appStatus = "needs_review" /\ given < MaxGiven
  /\ appStatus' = "running" /\ given' = given + 1 /\ openTasks' = openTasks \cup {given'}
  /\ UNCHANGED <<holder, step, parks, runOwnVars, eventVars>>

\* Rejected, or marked as sent by hand.
SettleByHand(s) ==
  /\ \/ appStatus = "needs_review" /\ s \in {"failed", "submitted"}
     \/ appStatus \in {"failed", "manual"} /\ s = "submitted"
  /\ appStatus' = s
  /\ UNCHANGED <<given, openTasks, holder, step, parks, runOwnVars, eventVars>>

DoorbellNext ==
  \/ \E r \in Executions :
       \/ \E t \in 1..given : TakeTask(r, t)
       \/ RunLosesClaim(r) \/ GiveUpRun(r) \/ RunDies(r)
       \/ OpenApplication(r) \/ FindItOver(r) \/ LeaveAsFound(r) \/ CommitAttempt(r)
       \/ \E s \in AppStatuses : CommitAlone(r, s) \/ CommitEnd(r, s)
       \/ CloseTask(r) \/ FailTaskForGood(r) \/ FailApplication(r)
       \/ Look(r) \/ StayQuiet(r) \/ Deliver(r) \/ RecordNotified(r)
  \/ Approve \/ \E s \in AppStatuses : SettleByHand(s)

DoorbellSpec == DoorbellInit /\ [][DoorbellNext]_doorbellVars

-----------------------------------------------------------------------------
(* Properties.                                                             *)

\* notify_if_parked: "Idempotent, because the queue is at-least-once: a
\* `notified` event is written after delivery and a re-run of the same task
\* finds it and stays quiet."  However often a task is redelivered, it rings
\* once at most; no bell is for a park that was not committed; and none rings
\* for a park whose ringing was on record when its execution looked.  So a
\* park rings twice only where two tasks of the application end at once (the
\* owner approved what _submit had parked before its task was completed), and
\* each looked before the other had written its event.
OneRingPerPark ==
  /\ \A t \in 1..MaxGiven : rang[t] <= 1
  /\ \A r \in Executions :
       step[r] = "ringing" => about[r] \in 1..parks[copy[r]] /\ ~again[r]
=============================================================================
