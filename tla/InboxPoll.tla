----------------------------- MODULE InboxPoll -----------------------------
(***************************************************************************)
(* Reading the owner's mailbox: the inbox handler and its schedule         *)
(* (apps/worker/inbox_job.py), the IMAP source (packages/inbox/imap.py)    *)
(* and the routing of a message to its application                         *)
(* (packages/inbox/route.py).                                              *)
(*                                                                         *)
(* JobQueue gives the tasks and the claims.  A poll is two steps of one    *)
(* transaction: it locks the mailbox's checkpoint and fetches a batch, and *)
(* later routes the batch, moves the checkpoint, leaves a successor and    *)
(* commits.  Its task is completed in the next transaction.  Neither step  *)
(* looks at the task's lease, so a run that has lost it may still commit.  *)
(* Between the two the mailbox changes: mail arrives, is read, is deleted, *)
(* and the server may renumber everything (UIDVALIDITY).                   *)
(***************************************************************************)
EXTENDS JobQueue, FiniteSetsExt

CONSTANTS
  Mail,          \* deliveries: each gets one uid in the mailbox
  IdOf,          \* the Message-ID of a delivery; two may share one
  LinkOf,        \* how route_message links an id: "alias", "inferred", "none"
  RankOf,        \* the outcome rank of an id's classification
  Batch,         \* DEFAULT_BATCH
  MaxUid,        \* bound on uids
  MaxValidity,   \* bound on renumberings
  MaxFaults,     \* bound on crashes, errors, and leases lapsing under a run
  NoRun

Ids == {IdOf[m] : m \in Mail}

ASSUME InboxAssumption ==
  /\ IsFiniteSet(Mail)
  /\ IdOf \in [Mail -> Ids]
  /\ LinkOf \in [Ids -> {"alias", "inferred", "none"}]
  /\ RankOf \in [Ids -> 0..5]
  /\ Batch \in Nat \ {0}
  /\ MaxUid \in Nat /\ MaxValidity \in Nat \ {0} /\ MaxFaults \in Nat
  /\ NoRun \notin Runs

VARIABLES
  uid,         \* a delivery's uid, 0 while it is not in the mailbox
  seen,        \* deliveries the owner has read
  validity,    \* the server's UIDVALIDITY
  uidNext,     \* the server's UIDNEXT
  checkpoint,  \* the row of mailbox_checkpoints
  lockedFor,   \* the run whose transaction holds that row
  place,       \* where a run is
  batch,       \* the MailBatch a run has fetched
  recorded,    \* Message-IDs in inbound_messages
  outcome,     \* rank of Application.outcome
  faults,
  \* History, never read by an action:
  concluded,   \* how often each id was recorded or concluded from
  readEarly    \* deliveries the owner had read before the scan was done

mailboxVars == <<uid, seen, validity, uidNext>>
routedVars == <<recorded, outcome, concluded>>
pollVars == <<checkpoint, lockedFor, place, batch>>
inboxVars == <<queueVars, mailboxVars, routedVars, pollVars, faults, readEarly>>

Batches ==
  [validity : 0..MaxValidity, high : 0..MaxUid, messages : SUBSET Mail,
   last : 0..MaxUid, drained : BOOLEAN]
NoBatch == [validity |-> 0, high |-> 0, messages |-> {}, last |-> 0, drained |-> FALSE]
Checkpoints ==
  [validity : 0..MaxValidity, last : 0..MaxUid, initialized : BOOLEAN]

InboxTypeOK ==
  /\ TypeOK
  /\ uid \in [Mail -> 0..MaxUid] /\ seen \subseteq Mail
  /\ validity \in 1..MaxValidity /\ uidNext \in 1..(MaxUid + 1)
  /\ checkpoint \in Checkpoints
  /\ lockedFor \in Runs \cup {NoRun}
  /\ place \in [Runs -> {"idle", "claimed", "routing", "ack"}]
  /\ batch \in [Runs -> Batches]
  /\ recorded \subseteq Ids /\ outcome \in 0..5
  /\ concluded \in [Ids -> Nat] /\ readEarly \subseteq Mail
  /\ faults \in 0..MaxFaults

MailboxInit ==
  /\ uid = [m \in Mail |-> 0] /\ seen = {}
  /\ validity = 1 /\ uidNext = 1
  /\ checkpoint = [validity |-> 0, last |-> 0, initialized |-> FALSE]
  /\ lockedFor = NoRun
  /\ place = [r \in Runs |-> "idle"]
  /\ batch = [r \in Runs |-> NoBatch]
  /\ recorded = {} /\ outcome = 0
  /\ concluded = [i \in Ids |-> 0] /\ readEarly = {}
  /\ faults = 0

InboxInit == QueueInit /\ MailboxInit

-----------------------------------------------------------------------------
(* The mailbox, as the server and the owner change it.                     *)

Present(m) == uid[m] # 0

\* A scan that is not drained yet, or one that a renumbering will start.
Bootstrapping == ~checkpoint.initialized \/ checkpoint.validity # validity

Arrive(m) ==
  /\ uid[m] = 0 /\ m \notin seen /\ uidNext <= MaxUid
  /\ uid' = [uid EXCEPT ![m] = uidNext]
  /\ uidNext' = uidNext + 1
  /\ UNCHANGED <<queueVars, seen, validity, routedVars, pollVars, faults, readEarly>>

Read(m) ==
  /\ Present(m) /\ m \notin seen
  /\ seen' = seen \cup {m}
  /\ readEarly' = IF Bootstrapping THEN readEarly \cup {m} ELSE readEarly
  /\ UNCHANGED <<queueVars, uid, validity, uidNext, routedVars, pollVars, faults>>

\* The owner deletes a message; it does not come back.
Delete(m) ==
  /\ Present(m)
  /\ uid' = [uid EXCEPT ![m] = 0]
  /\ seen' = seen \cup {m}
  /\ UNCHANGED <<queueVars, validity, uidNext, routedVars, pollVars, faults, readEarly>>

\* The server gives every message a new uid, in the same order.
Renumber ==
  /\ validity < MaxValidity
  /\ validity' = validity + 1
  /\ uid' = [m \in Mail |->
       IF Present(m) THEN Cardinality({n \in Mail : Present(n) /\ uid[n] <= uid[m]}) ELSE 0]
  /\ uidNext' = Cardinality({m \in Mail : Present(m)}) + 1
  /\ readEarly' = readEarly \cup seen
  /\ UNCHANGED <<queueVars, seen, routedVars, pollVars, faults>>

-----------------------------------------------------------------------------
(* ensure_inbox_poll, under its advisory lock.                             *)

Polls(states) == {t \in Tasks : status[t] \in states}

\* Mutant: a handler leaves a successor whatever is waiting.
LeaveSuccessorAlways(r) ==
  \E t \in Tasks :
    /\ status[t] = "absent"
    /\ status' = [status EXCEPT ![t] = "pending"]
    /\ due' = [due EXCEPT ![t] = FALSE]

\* A handler's call: a successor, unless another poll is waiting.
LeaveSuccessor(r) ==
  IF Polls({"pending"}) \ {Held(r)} # {}
    THEN UNCHANGED <<status, due>>
    ELSE \E t \in Tasks :
           /\ status[t] = "absent"
           /\ status' = [status EXCEPT ![t] = "pending"]
           /\ due' = [due EXCEPT ![t] = FALSE]

\* The supervisor's call, once a minute: a poll if there is none at all.
MaintainSchedule ==
  /\ Polls({"pending", "running"}) = {}
  /\ \E t \in Tasks : Enqueue(t, TRUE)
  /\ UNCHANGED <<mailboxVars, routedVars, pollVars, faults, readEarly>>

\* prune_finished: a finished row is forgotten.  Its id is never given out
\* again, so no execution may still hold a claim of it here.
Prune(t) ==
  /\ status[t] \in Finished
  /\ \A r \in Runs : claim[r] # NoClaim => Held(r) # t
  /\ status' = [status EXCEPT ![t] = "absent"]
  /\ attempts' = [attempts EXCEPT ![t] = 0]
  /\ UNCHANGED <<lockedBy, lease, due, deferrals, claim, mailboxVars, routedVars,
                 pollVars, faults, readEarly>>

-----------------------------------------------------------------------------
(* A run.                                                                  *)

Goto(r, p) == place' = [place EXCEPT ![r] = p]

\* Rollback or commit: the checkpoint's row is free again.
Release(r) == lockedFor' = IF lockedFor = r THEN NoRun ELSE lockedFor

Leave(r) ==
  /\ Goto(r, "idle") /\ Release(r)
  /\ batch' = [batch EXCEPT ![r] = NoBatch]
  /\ UNCHANGED <<mailboxVars, routedVars, checkpoint, readEarly>>

Claim(r) ==
  /\ place[r] = "idle"
  /\ \E t \in Tasks : ClaimTask(r, t)
  /\ Goto(r, "claimed")
  /\ UNCHANGED <<mailboxVars, routedVars, checkpoint, lockedFor, batch, faults, readEarly>>

ParkSpentPolls(r) ==
  /\ place[r] = "idle" /\ ClaimNothing(r)
  /\ UNCHANGED <<mailboxVars, routedVars, pollVars, faults, readEarly>>

ResumeUid == IF checkpoint.validity = validity THEN checkpoint.last ELSE 0

\* What the search finds: unread mail until the first scan is drained, then
\* everything above the mark.
Found ==
  {m \in Mail : Present(m) /\ uid[m] > ResumeUid /\ (Bootstrapping => m \notin seen)}

\* An ordered, gap-free slice of at most Batch messages.
Slices(s) ==
  {b \in SUBSET s : Cardinality(b) <= Batch
                      /\ \A m \in b, n \in s \ b : uid[m] < uid[n]}

LastUid(b) == IF b = {} THEN 0 ELSE Max({uid[m] : m \in b})

\* The row is locked and the batch fetched.  A fetch may stop short, because
\* a message was deleted meanwhile or the server failed; an empty batch that is
\* not drained is an error (HandlerError).
Fetch(r) ==
  /\ place[r] = "claimed" /\ claim[r] # NoClaim
  /\ lockedFor = NoRun
  /\ \E b \in Slices(Found) :
       /\ b # {} \/ Found = {}
       /\ batch' = [batch EXCEPT ![r] =
            [validity |-> validity, high |-> uidNext - 1, messages |-> b,
             last |-> LastUid(b), drained |-> b = Found]]
  /\ lockedFor' = r
  /\ Goto(r, "routing")
  /\ UNCHANGED <<queueVars, mailboxVars, routedVars, checkpoint, faults, readEarly>>

\* Mutant: looks for no earlier record of the message.
NewIdsAgain(r) ==
  {i \in {IdOf[m] : m \in batch[r].messages} : LinkOf[i] # "none"}

\* Ids of the batch that link to an application and are not recorded yet:
\* the unique index makes the insert of any other a no-op.
NewIds(r) ==
  {i \in {IdOf[m] : m \in batch[r].messages} : LinkOf[i] # "none"} \ recorded

\* An exact alias may conclude something, never anything weaker than before.
Strongest(was, ids) ==
  Max({was} \cup {RankOf[i] : i \in {i \in ids : LinkOf[i] = "alias"}})

\* Mutant: the mark moves to the snapshot's end though the batch is partial.
MovedMarkFully(r) ==
  [validity |-> batch[r].validity, last |-> batch[r].high, initialized |-> TRUE]

\* The checkpoint after a batch.
MovedMark(r) ==
  LET b == batch[r]
      same == checkpoint.validity = b.validity
      base == IF same THEN checkpoint.last ELSE 0
      mark == IF b.messages = {} THEN base ELSE b.last
  IN [validity |-> b.validity,
      last |-> IF b.drained THEN Max({mark, b.high}) ELSE mark,
      initialized |-> b.drained \/ (same /\ checkpoint.initialized)]

\* Mutant: the batch is committed without the checkpoint.
CommitBatchAlone(r) ==
  /\ place[r] = "routing" /\ claim[r] # NoClaim
  /\ recorded' = recorded \cup NewIds(r)
  /\ concluded' = [i \in Ids |-> concluded[i] + (IF i \in NewIds(r) THEN 1 ELSE 0)]
  /\ outcome' = Strongest(outcome, NewIds(r))
  /\ UNCHANGED checkpoint
  /\ LeaveSuccessor(r)
  /\ Release(r) /\ Goto(r, "ack")
  /\ batch' = [batch EXCEPT ![r] = NoBatch]
  /\ UNCHANGED <<attempts, lockedBy, lease, deferrals, claim, mailboxVars, faults, readEarly>>

\* Messages, mark and successor become visible together, whoever owns the
\* task by now.
CommitBatch(r) ==
  /\ place[r] = "routing" /\ claim[r] # NoClaim
  /\ recorded' = recorded \cup NewIds(r)
  /\ concluded' = [i \in Ids |-> concluded[i] + (IF i \in NewIds(r) THEN 1 ELSE 0)]
  /\ outcome' = Strongest(outcome, NewIds(r))
  /\ checkpoint' = MovedMark(r)
  /\ LeaveSuccessor(r)
  /\ Release(r) /\ Goto(r, "ack")
  /\ batch' = [batch EXCEPT ![r] = NoBatch]
  /\ UNCHANGED <<attempts, lockedBy, lease, deferrals, claim, mailboxVars, faults, readEarly>>

Acknowledge(r) ==
  /\ place[r] = "ack" /\ CompleteTask(r)
  /\ Leave(r) /\ UNCHANGED faults

\* The server cannot be reached, a fetch stops at once, the time limit.
HandlerError(r) ==
  /\ place[r] \in {"claimed", "routing"} /\ FailTask(r, FailLimit)
  /\ faults < MaxFaults /\ faults' = faults + 1
  /\ Leave(r)

LoseClaim(r) ==
  /\ ClaimOwnershipLost(r)
  /\ Leave(r) /\ UNCHANGED faults

Die(r) ==
  /\ faults < MaxFaults /\ faults' = faults + 1
  /\ Crash(r) /\ Leave(r)

\* A lease that lapses under a run still there is a fault.
Lapse(t) ==
  /\ LeaseTick(t)
  /\ IF \E r \in Runs : Owns(r) /\ Held(r) = t
       THEN faults < MaxFaults /\ faults' = faults + 1
       ELSE UNCHANGED faults
  /\ UNCHANGED <<mailboxVars, routedVars, pollVars, readEarly>>

ComeDue(t) ==
  /\ DueNow(t)
  /\ UNCHANGED <<mailboxVars, routedVars, pollVars, faults, readEarly>>

Work(r) == Fetch(r) \/ CommitBatch(r) \/ Acknowledge(r) \/ LoseClaim(r)

InboxNext ==
  \/ \E m \in Mail : Arrive(m) \/ Read(m) \/ Delete(m)
  \/ Renumber
  \/ MaintainSchedule
  \/ \E t \in Tasks : Prune(t) \/ Lapse(t) \/ ComeDue(t)
  \/ \E r \in Runs : Claim(r) \/ ParkSpentPolls(r) \/ Work(r) \/ HandlerError(r) \/ Die(r)

InboxSpec == InboxInit /\ [][InboxNext]_inboxVars

\* A worker polls the queue, acts and is rescheduled; its supervisor looks
\* once a minute, rows are pruned every hour; clocks advance.
InboxFairness ==
  /\ WF_inboxVars(MaintainSchedule)
  /\ \A r \in Runs : WF_inboxVars(Claim(r)) /\ WF_inboxVars(ParkSpentPolls(r)) /\ SF_inboxVars(Work(r))
  /\ \A t \in Tasks : WF_inboxVars(Prune(t)) /\ WF_inboxVars(Lapse(t)) /\ WF_inboxVars(ComeDue(t))

FairInboxSpec == InboxSpec /\ InboxFairness

-----------------------------------------------------------------------------
(* Properties.                                                             *)

\* imap.py, MailBatch: "one ordered, gap-free slice"; inbox_job.py: "a replay
\* therefore loses nothing".  A message below the mark of this mailbox that
\* links to an application has been recorded, whatever crashed, arrived, was
\* read or was renumbered in between - unless the owner read it before the
\* first scan had come to it, when the search asks for unread mail only.
NothingSkipped ==
  checkpoint.validity = validity =>
    \A m \in Mail :
      Present(m) /\ uid[m] <= checkpoint.last /\ m \notin readEarly
        /\ LinkOf[IdOf[m]] # "none"
      => IdOf[m] \in recorded

\* inbox_job.py: "and records nothing twice": delivered again, renumbered or
\* replayed after a crash, a message is recorded and concluded from once.
ConcludedOnce == \A i \in Ids : concluded[i] <= 1

\* route.py: "only ever move to an outcome at least as definitive as the
\* current one": the application stands at the strongest conclusion recorded
\* for it, in whatever order and batches its mail was routed.
OutcomeIsStrongest ==
  outcome = Max({0} \cup {RankOf[i] : i \in {i \in recorded : LinkOf[i] = "alias"}})

\* What is concluded from mail is concluded once and is the strongest of it.
ConclusionsHold == ConcludedOnce /\ OutcomeIsStrongest

\* Polls do not multiply: of those waiting, at most one was never attempted,
\* however often a poll is redelivered after it left its successor and the
\* supervisor looks in between.  Any others are retries of failed attempts.
OneFreshPoll == Cardinality({t \in Polls({"pending"}) : attempts[t] = 0}) <= 1

\* What a crash left behind dies out: in the end a single poll is waiting.
OnePollInTheEnd == <>[](Cardinality(Polls({"pending"})) <= 1)

\* A message that stays in the mailbox is read, whatever polls failed before:
\* the mark passes it, or the server renumbers.
MailIsReached ==
  \A m \in Mail :
    Present(m) ~> \/ ~Present(m)
                  \/ checkpoint.validity = validity /\ uid[m] <= checkpoint.last

\* The mailbox goes on being polled, by one poll in the end, and to the last
\* message.
PollingGoesOn == OnePollInTheEnd /\ MailIsReached
=============================================================================
