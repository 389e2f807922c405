------------------------------ MODULE LockOrder ------------------------------
(***************************************************************************)
(* The locks of one candidate's applications: the candidate's advisory     *)
(* lock (packages/core/submissions.py), under which the ledger is read and *)
(* written, and each application's row, locked by the first statement of a *)
(* transaction that writes it or asks for it FOR UPDATE.                   *)
(*                                                                         *)
(* Both last until the transaction ends and both are granted in the order  *)
(* they were asked for; a transaction that waits in a circle is aborted by *)
(* the database (Deadlock).  The state of an application appears only as   *)
(* what decides which locks a transaction takes.                           *)
(***************************************************************************)
EXTENDS Naturals, Sequences, FiniteSets, SequencesExt

CONSTANTS
  Applications,   \* one candidate's
  Requests,       \* the owner's requests
  Asked,          \* Asked[r]: the application a request is about
  Candidate,      \* the lock that is not a row
  MaxTries        \* queue_max_attempts, for a run

ASSUME LockAssumption ==
  /\ Asked \in [Requests -> Applications] /\ MaxTries \in Nat \ {0}
  /\ Applications \cap Requests = {} /\ Candidate \notin Applications

VARIABLES
  point,      \* where each transaction is
  queue,      \* each lock's requests, in order; the head holds it
  attempt     \* executions of an application's task so far

lockVars == <<point, queue, attempt>>

Locks == Applications \cup {Candidate}
Transactions == Applications \cup Requests     \* a run goes by its application
Row(p) == IF p \in Applications THEN p ELSE Asked[p]

LockTypeOK ==
  /\ point \in [Transactions -> {"resting", "beginning", "browsing", "parking", "gate", "deciding",
                                 "clicking", "receipt", "failing", "asked", "settling", "entry", "done"}]
  /\ queue \in [Locks -> Seq(Transactions)] /\ attempt \in [Applications -> 0..MaxTries]
  /\ \A l \in Locks : IsInjective(queue[l])

LockInit ==
  /\ point = [p \in Transactions |-> "resting"] /\ queue = [l \in Locks |-> <<>>]
  /\ attempt = [a \in Applications |-> 0]

Holds(p, l) == queue[l] # <<>> /\ Head(queue[l]) = p
Waits(p, l) == Contains(queue[l], p) /\ ~Holds(p, l)

\* The lock a point ends by obtaining.
Wanted(p) ==
  CASE point[p] \in {"gate", "asked", "entry"} -> {Candidate}
    [] point[p] \in {"beginning", "parking", "deciding", "receipt", "failing", "settling"} -> {Row(p)}
    [] OTHER -> {}

GotoStage(p, at) == point' = [point EXCEPT ![p] = at]

\* Asking again for a lock that is held already returns at once.
AskFor(p, l) ==
  queue' = [queue EXCEPT ![l] = IF Contains(@, p) THEN @ ELSE Append(@, p)]

\* The end of a transaction, committed or rolled back: its locks go.
EndTransaction(p) == queue' = [l \in Locks |-> RemoveFirst(queue[l], p)]

Granted(p) == \A l \in Wanted(p) : Holds(p, l)

(***************************************************************************)
(* A run.                                                                  *)
(***************************************************************************)
\* begin_work: from a resting state the status is written, and the first
\* flush locks the row until the run's next commit; an application that is
\* running already (the owner's approval, a run that died) is not written.
Begin(a) ==
  /\ point[a] = "resting" /\ attempt[a] < MaxTries
  /\ attempt' = [attempt EXCEPT ![a] = @ + 1]
  /\ \/ GotoStage(a, "beginning") /\ AskFor(a, a)
     \/ GotoStage(a, "browsing") /\ UNCHANGED queue

Begun(a) ==
  /\ point[a] = "beginning" /\ Granted(a)
  /\ GotoStage(a, "browsing") /\ UNCHANGED <<queue, attempt>>

\* The handler raised: the transaction is rolled back and the task tried
\* again, until the attempts are spent and a new transaction fails the
\* application.
Retry(a) ==
  /\ EndTransaction(a) /\ UNCHANGED attempt
  /\ GotoStage(a, IF attempt[a] < MaxTries THEN "resting" ELSE "failing")

\* The form is filled: it parks, goes to the gate, or raises.
Browse(a) ==
  /\ point[a] = "browsing"
  /\ \/ GotoStage(a, "parking") /\ AskFor(a, a) /\ UNCHANGED attempt
     \/ GotoStage(a, "gate") /\ AskFor(a, Candidate) /\ UNCHANGED attempt
     \/ Retry(a)

\* Mutant: queues for the row a second time behind its own lock.
GateAgain(a) ==
  /\ point[a] = "gate" /\ Granted(a)
  /\ GotoStage(a, "deciding") /\ UNCHANGED attempt
  /\ queue' = [queue EXCEPT ![a] = Append(@, a)]

\* _submit: the candidate, then the row, read again.
Gate(a) ==
  /\ point[a] = "gate" /\ Granted(a)
  /\ GotoStage(a, "deciding") /\ AskFor(a, a) /\ UNCHANGED attempt

\* Mutant: the fence is armed in the transaction that clicks.
DecideUncommitted(a) ==
  /\ point[a] = "deciding" /\ Granted(a) /\ UNCHANGED attempt
  /\ \/ GotoStage(a, "done") /\ EndTransaction(a)
     \/ GotoStage(a, "clicking") /\ UNCHANGED queue

\* It moved on or a fence blocks it, and the run ends; or the fence is armed
\* and committed before the click.
Decide(a) ==
  /\ point[a] = "deciding" /\ Granted(a) /\ UNCHANGED attempt
  /\ EndTransaction(a)
  /\ GotoStage(a, "done") \/ GotoStage(a, "clicking")

\* adapter.submit returns: the receipt or the uncertainty is written.
ClickReturns(a) ==
  /\ point[a] = "clicking" /\ GotoStage(a, "receipt") /\ AskFor(a, a) /\ UNCHANGED attempt

\* The last statement of a run, and its commit.
CommitRun(a) ==
  /\ point[a] \in {"parking", "receipt", "failing"} /\ Granted(a)
  /\ EndTransaction(a) /\ GotoStage(a, "done") /\ UNCHANGED attempt

\* _mark_application_failed in its own transaction.
MarkFailed(a) ==
  /\ point[a] = "failing" /\ ~Contains(queue[a], a) /\ AskFor(a, a) /\ UNCHANGED <<point, attempt>>

\* The worker dies: its connection and its locks go; the lease runs out.
RunLost(a) ==
  /\ point[a] \in {"beginning", "browsing", "gate", "deciding", "clicking"} /\ Retry(a)

(***************************************************************************)
(* The owner's requests.                                                   *)
(***************************************************************************)
\* review, submitted, not-submitted: the candidate, then the row.
\* Creating an application takes the candidate only, a code the row only.
Ask(r) ==
  /\ point[r] = "resting" /\ UNCHANGED attempt
  /\ \/ GotoStage(r, "asked") /\ AskFor(r, Candidate)
     \/ GotoStage(r, "entry") /\ AskFor(r, Candidate)
     \/ GotoStage(r, "settling") /\ AskFor(r, Row(r))

LockRow(r) ==
  /\ point[r] = "asked" /\ Granted(r)
  /\ AskFor(r, Row(r)) /\ GotoStage(r, "settling") /\ UNCHANGED attempt

\* Committed or refused, the session of a request is closed behind it.
CloseRequest(r) ==
  /\ point[r] \in {"settling", "entry"} /\ Granted(r)
  /\ EndTransaction(r) /\ GotoStage(r, "done") /\ UNCHANGED attempt

(***************************************************************************)
(* The database.                                                           *)
(***************************************************************************)
\* Who has the lock p waits for.
Before(p) == {Head(queue[l]) : l \in {l \in Locks : Waits(p, l)}}

\* Who p waits for in the end: the smallest set with those before p and with
\* those before its own.  p is in a circle when it waits for itself.
Circle(p) ==
  {q \in Transactions :
     \A S \in SUBSET Transactions :
       Before(p) \subseteq S /\ (\A x \in S : Before(x) \subseteq S) => q \in S}
InCircle(p) == Before(p) # {} /\ p \in Circle(p)

\* One of a circle is aborted: a run fails its attempt, a request fails.
Deadlock(p) ==
  /\ InCircle(p)
  /\ \/ p \in Applications /\ Retry(p)
     \/ p \in Requests /\ EndTransaction(p) /\ GotoStage(p, "done") /\ UNCHANGED attempt

RunMoves(a) ==
  Begin(a) \/ Begun(a) \/ Browse(a) \/ Gate(a) \/ Decide(a) \/ ClickReturns(a) \/ MarkFailed(a) \/ CommitRun(a)
RequestMoves(r) == Ask(r) \/ LockRow(r) \/ CloseRequest(r)

LockNext ==
  \/ \E a \in Applications : RunMoves(a) \/ RunLost(a)
  \/ \E r \in Requests : RequestMoves(r)
  \/ \E p \in Transactions : Deadlock(p)

(***************************************************************************)
(* What a reviewer of these locks would ask.                               *)
(***************************************************************************)
\* Requests do not wait in circles among themselves, nor do the runs: in any
\* circle a run that locked its row when it began waits at the gate for the
\* candidate.  (begin_work writes before _submit takes the candidate, the one
\* place the order of applications.py:779 is not kept.)
CircleNeedsABegunRun ==
  \A p \in Transactions : InCircle(p) =>
    \E a \in Circle(p) \cap Applications : point[a] = "gate" /\ Holds(a, a)

\* While the browser clicks, no lock waits for it: what was armed is
\* committed, and the owner can act on any application of the candidate.
ClickHoldsNothing ==
  \A a \in Applications : point[a] = "clicking" => \A l \in Locks : ~Contains(queue[l], a)

\* The two together: where the order of the locks fails, and where it need not
\* be kept.
LocksKeepOrder == CircleNeedsABegunRun /\ ClickHoldsNothing

\* Every request is answered and every run ends, whatever circles form.
EveryoneEnds ==
  /\ \A r \in Requests : point[r] # "resting" ~> point[r] = "done"
  /\ \A a \in Applications : point[a] # "resting" ~> point[a] \in {"resting", "done"}

\* asyncio.timeout ends a run that hangs, and deadlock_timeout a circle.
FairLocks ==
  /\ \A a \in Applications : WF_lockVars(RunMoves(a))
  /\ \A r \in Requests : WF_lockVars(RequestMoves(r))
  /\ WF_lockVars(\E p \in Transactions : Deadlock(p))

LockSpec == LockInit /\ [][LockNext]_lockVars
=============================================================================
