----------------------------- MODULE DiveStarts ------------------------------
(***************************************************************************)
(* How deep dives are started (packages/crawler/issues.py), statement by   *)
(* statement: BoardRegistry starts them at one blow.  The owner's request, *)
(* the script and the tick each select the notes that are owed a dive, for *)
(* update, passing over locked ones, and then queue a task for each.  The  *)
(* select sees the table as it was when it began; a row that was changed   *)
(* since is judged again by what it says now, but the tasks it is compared *)
(* with are still those of the beginning.                                  *)
(***************************************************************************)
EXTENDS Naturals

CONSTANTS
  Starters,     \* transactions that start dives
  Issues,       \* the notes
  MaxDives      \* bound: tasks queued for one note

ASSUME DiveStartsAssumption == MaxDives \in Nat \ {0}

VARIABLES
  issue,     \* the notes' states, as committed
  dives,     \* how many tasks wait or run for a note
  starter,   \* what each transaction has read, and which rows it has locked
  overlapped \* history: notes queued by a start that another's commit came between

startsVars == <<issue, dives, starter, overlapped>>

IssueStates == {"noted", "queued", "needs_owner", "fixed"}
\* live: the notes with a task when the select began; left: the rows it found
\* then and has yet to lock; since (history): what others have queued from then on.
Selecting ==
  [at : {"selecting"}, live : SUBSET Issues, left : SUBSET Issues, held : SUBSET Issues, since : SUBSET Issues]
NoStart == [at |-> "idle", live |-> {}, left |-> {}, held |-> {}, since |-> {}]

\* Every variable has its type, and no note has fewer tasks than none or more
\* than the bound (the rows of company_issues and their deep-dive tasks).
StartsTypeOK ==
  /\ issue \in [Issues -> IssueStates]
  /\ dives \in [Issues -> 0..MaxDives]
  /\ starter \in [Starters -> Selecting \cup {NoStart}] /\ overlapped \subseteq Issues

StartsInit ==
  /\ issue = [n \in Issues |-> "noted"]
  /\ dives = [n \in Issues |-> 0]
  /\ starter = [k \in Starters |-> NoStart] /\ overlapped = {}

\* Mutant: a queued note is owed a dive whatever tasks there are.
OwedAlways(n, live) == issue[n] \in {"noted", "queued"}

\* No dive waits or runs for the note, and none is done.
Owed(n, live) == issue[n] = "noted" \/ (issue[n] = "queued" /\ n \notin live)

\* A task of the note waits or runs.
HasTask(n) == dives[n] > 0

Locked(n) == \E k \in Starters : n \in starter[k].held

-----------------------------------------------------------------------------
(* Starting. *)

BeginSelect(k) ==
  /\ starter[k].at = "idle"
  /\ LET live == {n \in Issues : HasTask(n)}
     IN starter' = [starter EXCEPT ![k] =
          [at |-> "selecting", live |-> live, left |-> {n \in Issues : Owed(n, live)}, held |-> {}, since |-> {}]]
  /\ UNCHANGED <<issue, dives, overlapped>>

\* The next row is locked, if nobody has it and it still is what was looked for.
TakeRow(k, n) ==
  LET x == starter[k]
      held == IF ~Locked(n) /\ Owed(n, x.live) THEN x.held \cup {n} ELSE x.held
  IN /\ n \in x.left
     /\ starter' = [starter EXCEPT ![k] = [x EXCEPT !.left = x.left \ {n}, !.held = held]]
     /\ UNCHANGED <<issue, dives, overlapped>>

\* All rows were seen, or as many as were asked for: the notes are marked and
\* their tasks queued in the transaction that holds the locks.
CommitStart(k) ==
  LET ids == starter[k].held
  IN /\ starter[k].at = "selecting" /\ (starter[k].left = {} \/ ids # {})
     /\ \A n \in ids : dives[n] < MaxDives
     /\ issue' = [n \in Issues |-> IF n \in ids THEN "queued" ELSE issue[n]]
     /\ dives' = [n \in Issues |-> IF n \in ids THEN dives[n] + 1 ELSE dives[n]]
     /\ starter' = [j \in Starters |->
          IF j = k THEN NoStart
          ELSE IF starter[j].at = "selecting" THEN [starter[j] EXCEPT !.since = @ \cup ids] ELSE starter[j]]
     /\ overlapped' = overlapped \cup (ids \cap starter[k].since)

AbandonStart(k) ==
  /\ starter[k].at = "selecting"
  /\ starter' = [starter EXCEPT ![k] = NoStart]
  /\ UNCHANGED <<issue, dives, overlapped>>

-----------------------------------------------------------------------------
(* What else happens to notes and dives. *)

\* A dive answers, over what the note has become, or finds it closed and ends.
DiveAnswers(n) ==
  /\ HasTask(n) /\ ~Locked(n)
  /\ dives' = [dives EXCEPT ![n] = @ - 1]
  /\ \/ \E s \in {"fixed", "needs_owner"} : issue' = [issue EXCEPT ![n] = s]
     \/ issue[n] \in {"fixed", "needs_owner"} /\ UNCHANGED issue
  /\ UNCHANGED <<starter, overlapped>>

\* A task is cancelled, fails for good, or is lost.
DiveIsLost(n) ==
  /\ HasTask(n)
  /\ dives' = [dives EXCEPT ![n] = @ - 1]
  /\ UNCHANGED <<issue, starter, overlapped>>

\* The company failed another way: the dive is offered it again.
NoteAgain(n) ==
  /\ issue[n] = "needs_owner" /\ ~Locked(n)
  /\ issue' = [issue EXCEPT ![n] = "noted"]
  /\ UNCHANGED <<dives, starter, overlapped>>

\* An ordinary run succeeded.
ResolveNote(n) ==
  /\ issue[n] # "fixed" /\ ~Locked(n)
  /\ issue' = [issue EXCEPT ![n] = "fixed"]
  /\ UNCHANGED <<dives, starter, overlapped>>

StartsNext ==
  \/ \E k \in Starters : \/ BeginSelect(k) \/ CommitStart(k) \/ AbandonStart(k)
                         \/ \E n \in Issues : TakeRow(k, n)
  \/ \E n \in Issues : DiveAnswers(n) \/ DiveIsLost(n) \/ NoteAgain(n) \/ ResolveNote(n)

StartsSpec == StartsInit /\ [][StartsNext]_startsVars

-----------------------------------------------------------------------------
\* No note has two tasks, but one that two starts queued, each before it could see
\* the other's: start_deep_dives says that callers never start a note twice.
StartedOnce == \A n \in Issues \ overlapped : dives[n] <= 1
=============================================================================
