------------------------------- MODULE Reminders -------------------------------
(***************************************************************************)
(* The owner's tasks and their local reminders: idle workers ring what is  *)
(* due (packages/tracking/reminders.py), the owner edits tasks             *)
(* (apps/api/routers/tracking.py), and routed mail creates one             *)
(* (packages/tracking/tasks.py).                                           *)
(*                                                                         *)
(* A reminder is known by its number: a moved one is a new one.  An edit   *)
(* reads the row, and writes in its commit only the columns that differ    *)
(* from what it read, which is how the ORM updates.                        *)
(***************************************************************************)
EXTENDS Naturals, FiniteSets, FiniteSetsExt

CONSTANTS
  Rows,        \* rows of application_tasks there is room for
  Ringers,
  RingLimit,       \* ring_due's limit
  MaxMoves,    \* bound: reminders a row may be given, one after the other
  MaxEdits,    \* bound: edits the owner makes in all
  MaxDeaths,   \* bound: workers that die inside ring_due
  NoRow

ASSUME ReminderAssumption ==
  /\ IsFiniteSet(Rows) /\ IsFiniteSet(Ringers) /\ NoRow \notin Rows
  /\ RingLimit \in Nat \ {0} /\ MaxMoves \in Nat \ {0} /\ MaxEdits \in Nat /\ MaxDeaths \in Nat

VARIABLES
  exists,     \* the row is there
  reminder,   \* which reminder it has, 0 for none
  isDue,        \* reminder_at has come
  reminded,   \* reminded_at is set
  done,       \* completed_at is set
  byMail,     \* source = 'inbox'
  picked,     \* the rows a worker has locked, or is to deliver
  carried,    \* the reminder it read of each of those rows
  stage,      \* where a worker is in ring_due
  edit,       \* the owner's PATCH: the row, what it read, what it asks for
  edits,
  deaths,
  rung        \* history: <<row, reminder>> delivered, and by whom

rowVars == <<exists, reminder, isDue, reminded, done, byMail>>
reminderVars == <<rowVars, picked, carried, stage, edit, edits, deaths, rung>>

NoEdit == [row |-> NoRow, sawReminded |-> FALSE, sawReminder |-> 0, moves |-> FALSE, completed |-> "unsent"]

ReminderTypeOK ==
  /\ exists \in [Rows -> BOOLEAN] /\ isDue \in [Rows -> BOOLEAN]
  /\ reminded \in [Rows -> BOOLEAN] /\ done \in [Rows -> BOOLEAN]
  /\ byMail \in [Rows -> BOOLEAN] /\ reminder \in [Rows -> 0..MaxMoves]
  /\ picked \in [Ringers -> SUBSET Rows] /\ carried \in [Ringers -> [Rows -> 0..MaxMoves]]
  /\ stage \in [Ringers -> {"idle", "locked", "ringing"}]
  /\ edit.row \in Rows \cup {NoRow} /\ edits \in 0..MaxEdits /\ deaths \in 0..MaxDeaths
  /\ rung \subseteq (Rows \X (1..MaxMoves) \X Ringers)
  /\ \A t \in Rows : isDue[t] => reminder[t] # 0

ReminderInit ==
  /\ exists = [t \in Rows |-> FALSE] /\ reminder = [t \in Rows |-> 0]
  /\ isDue = [t \in Rows |-> FALSE] /\ reminded = [t \in Rows |-> FALSE]
  /\ done = [t \in Rows |-> FALSE] /\ byMail = [t \in Rows |-> FALSE]
  /\ picked = [w \in Ringers |-> {}] /\ stage = [w \in Ringers |-> "idle"]
  /\ carried = [w \in Ringers |-> [t \in Rows |-> 0]]
  /\ edit = NoEdit /\ edits = 0 /\ deaths = 0 /\ rung = {}

\* A row is locked from the update of a transaction to its commit.
LockedRows == UNION {picked[w] : w \in {w \in Ringers : stage[w] = "locked"}}

-----------------------------------------------------------------------------
(* ring_due.                                                               *)

DueRow(t) == exists[t] /\ isDue[t] /\ ~reminded[t] /\ ~done[t]

\* Mutant: only a full batch is worth a transaction.
SelectFullBatch(w) ==
  /\ stage[w] = "idle"
  /\ LET ready == {t \in Rows : DueRow(t)} \ LockedRows IN
     \E s \in SUBSET ready :
       /\ Cardinality(s) = RingLimit + 1
       /\ picked' = [picked EXCEPT ![w] = s]
  /\ carried' = [carried EXCEPT ![w] = reminder]
  /\ stage' = [stage EXCEPT ![w] = "locked"]
  /\ UNCHANGED <<rowVars, edit, edits, deaths, rung>>

\* FOR UPDATE SKIP LOCKED: what is due and nobody else holds, up to the limit.
SelectDue(w) ==
  /\ stage[w] = "idle"
  /\ LET ready == {t \in Rows : DueRow(t)} \ LockedRows IN
     \E s \in SUBSET ready :
       /\ Cardinality(s) = Min({RingLimit, Cardinality(ready)}) /\ s # {}
       /\ picked' = [picked EXCEPT ![w] = s]
  /\ carried' = [carried EXCEPT ![w] = reminder]
  /\ stage' = [stage EXCEPT ![w] = "locked"]
  /\ UNCHANGED <<rowVars, edit, edits, deaths, rung>>

\* reminded_at is stamped and committed before anything is delivered.
StampBatch(w) ==
  /\ stage[w] = "locked"
  /\ reminded' = [t \in Rows |-> reminded[t] \/ t \in picked[w]]
  /\ stage' = [stage EXCEPT ![w] = "ringing"]
  /\ UNCHANGED <<exists, reminder, isDue, done, byMail, picked, carried, edit, edits, deaths, rung>>

\* _send, one reminder at a time.
RingOne(w) ==
  /\ stage[w] = "ringing"
  /\ \E t \in picked[w] :
       /\ rung' = rung \cup {<<t, carried[w][t], w>>}
       /\ picked' = [picked EXCEPT ![w] = @ \ {t}]
       /\ stage' = [stage EXCEPT ![w] = IF picked[w] = {t} THEN "idle" ELSE @]
  /\ carried' = IF Cardinality(picked[w]) = 1
                THEN [carried EXCEPT ![w] = [t \in Rows |-> 0]] ELSE carried
  /\ UNCHANGED <<rowVars, edit, edits, deaths>>

\* The process ends: its locks go, and what it had stamped is not delivered.
RingerDies(w) ==
  /\ stage[w] # "idle" /\ deaths < MaxDeaths /\ deaths' = deaths + 1
  /\ stage' = [stage EXCEPT ![w] = "idle"] /\ picked' = [picked EXCEPT ![w] = {}]
  /\ carried' = [carried EXCEPT ![w] = [t \in Rows |-> 0]]
  /\ UNCHANGED <<rowVars, edit, edits, rung>>

-----------------------------------------------------------------------------
(* The owner, the mail, and the clock.                                     *)

\* A row nothing was ever written to; a deleted one is not taken for another.
Unused(t) == ~exists[t] /\ reminder[t] = 0 /\ ~done[t] /\ ~byMail[t] /\ edit.row # t

\* create_task, with or without a reminder.
CreateTask(t) ==
  /\ Unused(t)
  /\ exists' = [exists EXCEPT ![t] = TRUE]
  /\ \E n \in {0, 1} : reminder' = [reminder EXCEPT ![t] = n]
  /\ UNCHANGED <<isDue, reminded, done, byMail, picked, carried, stage, edit, edits, deaths, rung>>

OpenFromMail(t) == exists[t] /\ byMail[t] /\ ~done[t]

\* ensure_task_for_outcome: one open task for the interview, without dates.
TaskForOutcome(t) ==
  /\ Unused(t)
  /\ \A u \in Rows : ~OpenFromMail(u)
  /\ exists' = [exists EXCEPT ![t] = TRUE] /\ byMail' = [byMail EXCEPT ![t] = TRUE]
  /\ UNCHANGED <<reminder, isDue, reminded, done, picked, carried, stage, edit, edits, deaths, rung>>

\* update_task reads the row without a lock.
ReadTask(t) ==
  /\ edit = NoEdit /\ exists[t] /\ edits < MaxEdits
  /\ \E moves \in BOOLEAN, completed \in {"unsent", "yes", "no"} :
       /\ moves \/ completed # "unsent"
       /\ moves => reminder[t] < MaxMoves
       /\ edit' = [row |-> t, sawReminded |-> reminded[t], sawReminder |-> reminder[t],
                   moves |-> moves, completed |-> completed]
  /\ edits' = edits + 1
  /\ UNCHANGED <<rowVars, picked, carried, stage, deaths, rung>>

\* `reminded_at = None` is written when it changes what the edit had read.
StampAfter(t) == IF edit.moves /\ edit.sawReminded THEN FALSE ELSE reminded[t]

\* The commit waits for a row lock; a deleted row is an error.
UpdateTask ==
  /\ edit # NoEdit /\ edit.row \notin LockedRows
  /\ LET t == edit.row IN
     IF ~exists[t] THEN UNCHANGED rowVars
     ELSE /\ reminder' = IF edit.moves THEN [reminder EXCEPT ![t] = edit.sawReminder + 1]
                                       ELSE reminder
          /\ isDue' = IF edit.moves THEN [isDue EXCEPT ![t] = FALSE] ELSE isDue
          /\ reminded' = [reminded EXCEPT ![t] = StampAfter(t)]
          /\ done' = [done EXCEPT ![t] = IF edit.completed = "unsent" THEN @
                                          ELSE edit.completed = "yes"]
          /\ UNCHANGED <<exists, byMail>>
  /\ edit' = NoEdit
  /\ UNCHANGED <<picked, carried, stage, edits, deaths, rung>>

DeleteTask(t) ==
  /\ exists[t] /\ t \notin LockedRows
  /\ exists' = [exists EXCEPT ![t] = FALSE]
  /\ UNCHANGED <<reminder, isDue, reminded, done, byMail, picked, carried, stage, edit, edits, deaths, rung>>

ComesDue(t) ==
  /\ exists[t] /\ reminder[t] # 0 /\ ~isDue[t]
  /\ isDue' = [isDue EXCEPT ![t] = TRUE]
  /\ UNCHANGED <<exists, reminder, reminded, done, byMail, picked, carried, stage, edit, edits, deaths, rung>>

ReminderNext ==
  \/ \E w \in Ringers : SelectDue(w) \/ StampBatch(w) \/ RingOne(w) \/ RingerDies(w)
  \/ \E t \in Rows : CreateTask(t) \/ TaskForOutcome(t) \/ ReadTask(t) \/ DeleteTask(t)
                     \/ ComesDue(t)
  \/ UpdateTask

ReminderSpec == ReminderInit /\ [][ReminderNext]_reminderVars

\* An idle worker ticks; what one worker holds it delivers unless it dies.
FairReminderSpec ==
  /\ ReminderSpec
  /\ \A w \in Ringers : WF_reminderVars(SelectDue(w)) /\ WF_reminderVars(StampBatch(w)) /\ WF_reminderVars(RingOne(w))

-----------------------------------------------------------------------------
(* Properties.                                                             *)

\* "Rings once": no reminder of a task is delivered twice, by whichever
\* workers, over whatever restarts.
RingsOnce ==
  \A x, y \in rung : x[1] = y[1] /\ x[2] = y[2] => x = y

\* An idle worker comes round: what is due is rung, or stamped by a worker that
\* died, or the owner completes, moves or deletes it.
DueIsHandled == \A t \in Rows : DueRow(t) ~> ~DueRow(t)
=============================================================================
