------------------------------ MODULE PollsProofs ------------------------------
(***************************************************************************)
(* Proofs about InboxPoll, for any mail, links, ranks, runs and limits.    *)
(*                                                                         *)
(* NothingSkipped is not inductive: a run moves the mark to what its batch *)
(* says, and fetched that batch earlier, from another mailbox.  What makes *)
(* it hold is that the mark it will move to was judged when it fetched:    *)
(* everything awaited up to there is recorded or in the batch, and stays   *)
(* so whatever the mailbox does, because mail that arrives is numbered     *)
(* above it and a renumbering makes the batch one of another mailbox.  The *)
(* lock on the checkpoint is needed: with two batches in flight the second *)
(* would be judged by a mark that the first has moved.                     *)
(***************************************************************************)
EXTENDS InboxPoll, JobQueueProofs, FiniteSetTheorems

PollTypes ==
  /\ uid \in [Mail -> Nat] /\ seen \subseteq Mail /\ validity \in Nat /\ uidNext \in Nat \ {0}
  /\ checkpoint \in [validity : Nat, last : Nat, initialized : BOOLEAN]
  /\ batch \in [Runs -> [validity : Nat, high : Nat, messages : SUBSET Mail, last : Nat, drained : BOOLEAN]]
  /\ place \in [Runs -> {"idle", "claimed", "routing", "ack"}]

\* Mail is numbered below what comes next, the mark is of this mailbox or an
\* earlier one, and what is read while a scan goes on is known to be.
MailInv ==
  /\ \A m \in Mail : uid[m] < uidNext
  /\ checkpoint.validity <= validity
  /\ checkpoint.validity = validity => checkpoint.last < uidNext
  /\ Bootstrapping => \A m \in seen : Present(m) => m \in readEarly

Awaited(m) == Present(m) /\ m \notin readEarly /\ LinkOf[IdOf[m]] # "none"

\* One run routes at a time, and the mark it will move to passes nothing.
PassesNothing(r) ==
  /\ lockedFor = r
  /\ checkpoint.validity <= batch[r].validity /\ batch[r].validity <= validity
  /\ batch[r].validity = validity =>
       /\ MovedMark(r).last < uidNext
       /\ \A m \in Mail :
            Awaited(m) /\ uid[m] <= MovedMark(r).last
              => IdOf[m] \in recorded \/ m \in batch[r].messages

RoutingInv == \A r \in Runs : place[r] = "routing" => PassesNothing(r)

ScanInv == MailInv /\ RoutingInv /\ NothingSkipped

-----------------------------------------------------------------------------
(* The greatest of a finite set of numbers.                                *)

\* Of the sets of those of its elements that are no less than one of them, a
\* finite set of numbers has a smallest: its one element is the greatest.
LEMMA GreatestIsThere ==
  ASSUME NEW S \in SUBSET Nat, IsFiniteSet(S), S # {}
  PROVE  Max(S) \in S /\ \A y \in S : Max(S) >= y
<1> DEFINE Above(x) == {y \in S : y >= x}
           T == {Above(x) : x \in S}
<1>1. IsWellFoundedOn(StrictSubsetOrdering(S), FiniteSubsetsOf(S))
  BY FS_StrictSubsetOrderingWellFounded
<1>2. T \subseteq FiniteSubsetsOf(S) /\ T # {}
  <2>1. ASSUME NEW x \in S PROVE Above(x) \in FiniteSubsetsOf(S)
    <3>1. Above(x) \subseteq S
      OBVIOUS
    <3>2. IsFiniteSet(Above(x))
      BY <3>1, FS_Subset
    <3> QED BY <3>1, <3>2 DEF FiniteSubsetsOf
  <2> HIDE DEF Above
  <2> QED BY <2>1
<1>3. PICK U \in T : \A V \in T : ~(<<V, U>> \in StrictSubsetOrdering(S))
  <2> HIDE DEF T
  <2> QED BY <1>1, <1>2, WFMin
<1>4. PICK x \in S : U = Above(x)
  BY <1>3
<1>5. \A y \in S : x >= y
  <2> SUFFICES ASSUME NEW y \in S, ~(x >= y) PROVE FALSE
    OBVIOUS
  <2>1. x \in Nat /\ y \in Nat
    OBVIOUS
  <2>2. \A z \in S : z \in Nat /\ (z >= y => z >= x)
    BY <2>1
  <2>5. Above(y) \subseteq U /\ Above(y) \subseteq S /\ U \subseteq S
    BY <1>4, <2>2
  <2>6. x \in U /\ x \notin Above(y)
    BY <1>4, <2>1
  <2>3. <<Above(y), U>> \in StrictSubsetOrdering(S)
    BY <2>5, <2>6 DEF StrictSubsetOrdering
  <2>4. Above(y) \in T
    OBVIOUS
  <2> QED BY <1>3, <2>3, <2>4
<1> QED BY <1>5 DEF Max

LEMMA GreatestIs ==
  ASSUME NEW S \in SUBSET Nat, NEW x \in S, \A y \in S : x >= y
  PROVE  Max(S) = x
<1>1. Max(S) \in S /\ \A y \in S : Max(S) >= y
  BY DEF Max
<1>2. Max(S) \in Nat /\ Max(S) >= x /\ x >= Max(S)
  BY <1>1
<1> QED BY <1>2

LEMMA PairsHaveOne ==
  ASSUME NEW x \in Nat, NEW y \in Nat
  PROVE  Max({x, y}) = IF x >= y THEN x ELSE y
<1>1. CASE x >= y
  <2>1. x \in {x, y} /\ {x, y} \in SUBSET Nat /\ \A z \in {x, y} : x >= z
    BY <1>1
  <2> QED BY <1>1, <2>1, GreatestIs
<1>2. CASE ~(x >= y)
  <2>1. y \in {x, y} /\ {x, y} \in SUBSET Nat /\ \A z \in {x, y} : y >= z
    BY <1>2
  <2> QED BY <1>2, <2>1, GreatestIs
<1> QED BY <1>1, <1>2

-----------------------------------------------------------------------------
(* The queue.                                                              *)

\* Where a poll runs it takes the steps of the queue, but for the pruning.
LEMMA StepsTheQueue ==
  ASSUME [InboxNext]_inboxVars
  PROVE  [QueueNext]_queueVars \/ \E t \in Tasks : Prune(t)
<1>1. CASE UNCHANGED inboxVars
  BY <1>1 DEF inboxVars
<1>2. ASSUME NEW m \in Mail, Arrive(m) \/ Read(m) \/ Delete(m) PROVE UNCHANGED queueVars
  BY <1>2 DEF Arrive, Read, Delete
<1>3. CASE Renumber
  BY <1>3 DEF Renumber
<1>4. CASE MaintainSchedule
  BY <1>4 DEF MaintainSchedule, QueueNext, TaskStep
<1>5. ASSUME NEW t \in Tasks, Lapse(t) \/ ComeDue(t) PROVE QueueNext
  BY <1>5 DEF Lapse, ComeDue, QueueNext, TaskStep
<1>6. ASSUME NEW r \in Runs,
             \/ Claim(r) \/ ParkSpentPolls(r) \/ Acknowledge(r) \/ LoseClaim(r) \/ HandlerError(r) \/ Die(r)
      PROVE  QueueNext
  BY <1>6 DEF Claim, ParkSpentPolls, Acknowledge, LoseClaim, HandlerError, Die, QueueNext, RunStep
<1>7. ASSUME NEW r \in Runs, Fetch(r) PROVE UNCHANGED queueVars
  BY <1>7 DEF Fetch
<1>8. ASSUME NEW r \in Runs, CommitBatch(r) PROVE [QueueNext]_queueVars
  <2>1. UNCHANGED <<attempts, lockedBy, lease, deferrals, claim>>
    BY <1>8 DEF CommitBatch
  <2>2. UNCHANGED <<status, due>> \/ \E t \in Tasks : Enqueue(t, FALSE)
    BY <1>8, <2>1 DEF CommitBatch, LeaveSuccessor, Enqueue
  <2>3. FALSE \in BOOLEAN
    OBVIOUS
  <2> QED BY <2>1, <2>2, <2>3 DEF queueVars, QueueNext, TaskStep
<1> QED BY <1>1, <1>2, <1>3, <1>4, <1>5, <1>6, <1>7, <1>8 DEF InboxNext, Work

LEMMA PruningKeepsQueueInv ==
  ASSUME QueueInv, NEW t \in Tasks, Prune(t)
  PROVE  QueueInv'
<1>1. TypeOK'
  BY QueueAssumption DEF QueueInv, TypeOK, Prune, Statuses
<1>2. ASSUME NEW r \in Runs, claim[r] # NoClaim
      PROVE  status'[Held(r)] = status[Held(r)] /\ attempts'[Held(r)] = attempts[Held(r)]
  BY <1>2, OwnerToken DEF Prune, QueueInv, TypeOK
<1>3. TokensBehindCounter'
  BY <1>2 DEF Prune, QueueInv, TokenInv, TokensBehindCounter, Held
<1>4. TokensDistinct'
  BY DEF Prune, QueueInv, TokenInv, TokensDistinct, Held
<1> QED BY <1>1, <1>3, <1>4 DEF QueueInv, TokenInv

LEMMA StepKeepsPollQueue ==
  ASSUME QueueInv, [InboxNext]_inboxVars
  PROVE  QueueInv'
BY StepsTheQueue, StepKeepsQueueInv, PruningKeepsQueueInv

\* The tasks of polls are held as the queue promises.
THEOREM PollsAreQueued == InboxSpec => []QueueInv
<1>1. InboxInit => QueueInv
  BY InitQueueInv DEF InboxInit
<1>2. QueueInv /\ [InboxNext]_inboxVars => QueueInv'
  BY StepKeepsPollQueue
<1> QED BY <1>1, <1>2, PTL DEF InboxSpec

-----------------------------------------------------------------------------
(* Polls do not multiply.                                                  *)

Unworn(t) == status[t] = "pending" /\ attempts[t] = 0

\* What OneFreshPoll says of the number of them.
OneFresh == \A t, u \in Tasks : Unworn(t) /\ Unworn(u) => t = u

LEMMA OneFreshIsOne == OneFresh => OneFreshPoll
<1> SUFFICES ASSUME OneFresh PROVE OneFreshPoll
  OBVIOUS
<1> DEFINE fresh == {t \in Polls({"pending"}) : attempts[t] = 0}
<1>1. \A t \in fresh : t \in Tasks /\ Unworn(t)
  BY DEF Polls, Unworn
<1>2. fresh = {} \/ \E t \in fresh : fresh = {t}
  <2> SUFFICES ASSUME NEW t \in fresh PROVE fresh = {t}
    OBVIOUS
  <2> QED BY <1>1 DEF OneFresh
<1>3. Cardinality(fresh) <= 1
  <2> HIDE DEF fresh
  <2> QED BY <1>2, FS_EmptySet, FS_Singleton
<1> QED BY <1>3 DEF OneFreshPoll

\* A step that makes no poll fresh.
LEMMA NoneFresher ==
  ASSUME OneFresh, \A t \in Tasks : Unworn(t)' => Unworn(t)
  PROVE  OneFresh'
BY DEF OneFresh

\* A poll is left where none waits but the one that leaves it, and that one
\* has been attempted.
LEMMA StepKeepsOneFresh ==
  ASSUME QueueInv, OneFresh, [InboxNext]_inboxVars
  PROVE  OneFresh'
<1> USE DEF Unworn
<1>1. TypeOK
  BY DEF QueueInv
<1>2. CASE UNCHANGED <<status, attempts>>
  BY <1>2, NoneFresher
<1>3. CASE MaintainSchedule
  <2>1. PICK t \in Tasks : Enqueue(t, TRUE)
    BY <1>3 DEF MaintainSchedule
  <2>2. \A u \in Tasks : status[u] # "pending"
    BY <1>3 DEF MaintainSchedule, Polls
  <2>3. \A u \in Tasks : Unworn(u)' => u = t
    BY <1>1, <2>1, <2>2 DEF Enqueue, TypeOK
  <2> QED BY <2>3 DEF OneFresh
<1>4. ASSUME NEW t \in Tasks, Prune(t) PROVE OneFresh'
  <2>1. \A u \in Tasks : Unworn(u)' => Unworn(u)
    BY <1>1, <1>4 DEF Prune, TypeOK
  <2> QED BY <2>1, NoneFresher
<1>5. ASSUME NEW r \in Runs, NEW t \in Tasks, ClaimTask(r, t) PROVE OneFresh'
  <2>1. attempts'[t] # 0
    BY <1>1, <1>5, QueueAssumption DEF ClaimTask, TypeOK
  <2>2. \A u \in Tasks : u # t => attempts'[u] = attempts[u] /\ (status'[u] = "pending" => status[u] = "pending")
    BY <1>1, <1>5 DEF ClaimTask, TypeOK, ParkedStatus
  <2> QED BY <2>1, <2>2, NoneFresher
<1>6. ASSUME NEW r \in Runs, ClaimNothing(r) PROVE OneFresh'
  <2>1. \A u \in Tasks : Unworn(u)' => Unworn(u)
    BY <1>1, <1>6 DEF ClaimNothing, TypeOK, ParkedStatus
  <2> QED BY <2>1, NoneFresher
<1>7. ASSUME NEW r \in Runs, CompleteTask(r) \/ FailTask(r, FailLimit) PROVE OneFresh'
  <2>1. Held(r) \in Tasks /\ attempts[Held(r)] # 0
    <3>1. claim[r] # NoClaim
      BY <1>7 DEF CompleteTask, FailTask, Owns
    <3>2. Held(r) \in Tasks /\ claim[r].attempt \in 1..attempts[Held(r)]
      BY <3>1, OwnerToken
    <3> QED BY <3>2
  <2>2. \A u \in Tasks : Unworn(u)' => Unworn(u)
    BY <1>1, <1>7, <2>1 DEF CompleteTask, FailTask, TypeOK
  <2> QED BY <2>2, NoneFresher
<1>8. ASSUME NEW r \in Runs, CommitBatch(r) PROVE OneFresh'
  <2>1. Held(r) \in Tasks /\ attempts[Held(r)] # 0
    <3>1. claim[r] # NoClaim
      BY <1>8 DEF CommitBatch
    <3>2. Held(r) \in Tasks /\ claim[r].attempt \in 1..attempts[Held(r)]
      BY <3>1, OwnerToken
    <3> QED BY <3>2
  <2>2. LeaveSuccessor(r) /\ attempts' = attempts
    BY <1>8 DEF CommitBatch
  <2>3. CASE Polls({"pending"}) \ {Held(r)} # {}
    BY <1>2, <2>2, <2>3 DEF LeaveSuccessor
  <2>4. CASE Polls({"pending"}) \ {Held(r)} = {}
    <3>1. PICK t \in Tasks : status' = [status EXCEPT ![t] = "pending"]
      BY <2>2, <2>4 DEF LeaveSuccessor
    <3>2. \A u \in Tasks : status[u] = "pending" => u = Held(r)
      BY <2>4 DEF Polls
    <3>3. \A u \in Tasks : Unworn(u)' => u = t
      BY <1>1, <2>1, <2>2, <3>1, <3>2 DEF TypeOK
    <3> QED BY <3>3 DEF OneFresh
  <2> QED BY <2>3, <2>4
<1>9. ASSUME NEW r \in Runs,
             \/ Claim(r) \/ ParkSpentPolls(r) \/ Fetch(r) \/ Acknowledge(r) \/ LoseClaim(r) \/ HandlerError(r)
             \/ Die(r)
      PROVE  OneFresh'
  BY <1>2, <1>5, <1>6, <1>7, <1>9
  DEF Claim, ParkSpentPolls, Fetch, queueVars, taskVars, Acknowledge, LoseClaim, ClaimOwnershipLost,
    HandlerError, Die, Crash
<1>10. ASSUME NEW t \in Tasks, Lapse(t) \/ ComeDue(t) PROVE OneFresh'
  BY <1>2, <1>10 DEF Lapse, ComeDue, LeaseTick, DueNow
<1>11. CASE Renumber \/ \E m \in Mail : Arrive(m) \/ Read(m) \/ Delete(m)
  BY <1>2, <1>11 DEF Renumber, Arrive, Read, Delete, queueVars
<1>12. CASE UNCHANGED inboxVars
  BY <1>2, <1>12 DEF inboxVars, queueVars
<1> QED BY <1>3, <1>4, <1>8, <1>9, <1>10, <1>11, <1>12 DEF InboxNext, Work

\* Of the polls that wait, at most one was never attempted, however often the
\* supervisor looks between two of them and a poll is redelivered.
THEOREM PollsDoNotMultiply == InboxSpec => []OneFreshPoll
<1>1. InboxInit => OneFresh
  BY DEF InboxInit, QueueInit, OneFresh, Unworn
<1>2. QueueInv /\ OneFresh /\ [InboxNext]_inboxVars => OneFresh'
  BY StepKeepsOneFresh
<1> QED BY <1>1, <1>2, PollsAreQueued, OneFreshIsOne, PTL DEF InboxSpec

-----------------------------------------------------------------------------
(* What is concluded from mail.                                            *)

Aliased(ids) == {i \in ids : LinkOf[i] = "alias"}
Ranks(ids) == {RankOf[i] : i \in Aliased(ids)}

ConclusionInv ==
  /\ recorded \subseteq Ids
  /\ concluded = [i \in Ids |-> IF i \in recorded THEN 1 ELSE 0]
  /\ outcome = Max({0} \cup Ranks(recorded))

LEMMA RanksAreFew ==
  ASSUME NEW ids \in SUBSET Ids, NEW x \in 0..5
  PROVE  /\ {x} \cup Ranks(ids) \in SUBSET Nat /\ Max({x} \cup Ranks(ids)) \in {x} \cup Ranks(ids)
         /\ \A y \in {x} \cup Ranks(ids) : Max({x} \cup Ranks(ids)) >= y
         /\ {x} \cup Ranks(ids) \subseteq 0..5
<1> DEFINE S == {x} \cup Ranks(ids)
<1>1. S \subseteq 0..5 /\ S # {} /\ S \in SUBSET Nat
  BY InboxAssumption DEF Ranks, Aliased
<1>2. IsFiniteSet(0..5)
  <2>1. 0 \in Int /\ 5 \in Int
    OBVIOUS
  <2> QED BY <2>1, FS_Interval
<1>3. IsFiniteSet(S)
  BY <1>1, <1>2, FS_Subset
<1> HIDE DEF S
<1>4. Max(S) \in S /\ \A y \in S : Max(S) >= y
  BY <1>1, <1>3, GreatestIsThere
<1> QED BY <1>1, <1>4 DEF S

\* The strongest of what was known and what is new is the strongest of all.
LEMMA StrongestOfAll ==
  ASSUME NEW was \in SUBSET Ids, NEW new \in SUBSET Ids, NEW x, x = Max({0} \cup Ranks(was))
  PROVE  Max({x} \cup Ranks(new)) = Max({0} \cup Ranks(was \cup new))
<1> DEFINE all == {0} \cup Ranks(was \cup new)
<1>1. 0 \in 0..5
  OBVIOUS
<1>2. /\ x \in {0} \cup Ranks(was) /\ x \in 0..5
      /\ \A y \in {0} \cup Ranks(was) : x >= y
  BY <1>1, RanksAreFew
<1> PICK z : z = Max({x} \cup Ranks(new))
  OBVIOUS
<1>3. z \in {x} \cup Ranks(new) /\ z \in Nat /\ \A y \in {x} \cup Ranks(new) : z >= y
  BY <1>2, RanksAreFew
<1>4. Ranks(was \cup new) = Ranks(was) \cup Ranks(new)
  BY DEF Ranks, Aliased
<1>5. was \cup new \in SUBSET Ids
  OBVIOUS
<1>6. all \in SUBSET Nat
  BY <1>1, <1>5, RanksAreFew
<1>7. z \in all
  BY <1>2, <1>3, <1>4
<1>8. \A y \in all : z >= y
  <2> SUFFICES ASSUME NEW y \in all PROVE z >= y
    OBVIOUS
  <2>1. y \in Nat /\ x \in Nat /\ z \in Nat
    BY <1>2, <1>3, <1>6
  <2>2. y \in {0} \cup Ranks(was) \/ y \in Ranks(new)
    BY <1>4
  <2> QED BY <1>2, <1>3, <2>1, <2>2
<1> HIDE DEF all
<1>9. Max(all) = z
  BY <1>6, <1>7, <1>8, GreatestIs
<1> QED BY <1>9 DEF all

-----------------------------------------------------------------------------
(* What a poll has in hand.                                                *)

LEMMA LastOfBatch ==
  ASSUME uid \in [Mail -> Nat], NEW b \in SUBSET Mail
  PROVE  /\ LastUid(b) \in Nat /\ \A m \in b : uid[m] <= LastUid(b)
         /\ b # {} => \E m \in b : LastUid(b) = uid[m]
<1>1. CASE b = {}
  BY <1>1 DEF LastUid
<1>2. CASE b # {}
  <2> DEFINE numbers == {uid[m] : m \in b}
  <2>1. numbers # {} /\ numbers \in SUBSET Nat
    BY <1>2
  <2>2. IsFiniteSet(numbers)
    <3>1. IsFiniteSet(b)
      BY InboxAssumption, FS_Subset
    <3>2. PICK f : f = [m \in b |-> uid[m]]
      OBVIOUS
    <3>3. f \in Surjection(b, numbers)
      BY <3>2 DEF Surjection
    <3> HIDE DEF numbers
    <3> QED BY <3>1, <3>3, FS_Surjection
  <2>3. LastUid(b) = Max(numbers)
    BY <1>2 DEF LastUid
  <2> HIDE DEF numbers
  <2>4. Max(numbers) \in numbers /\ \A y \in numbers : Max(numbers) >= y
    BY <2>1, <2>2, GreatestIsThere
  <2>5. \A m \in b : uid[m] \in numbers
    BY DEF numbers
  <2>6. \E m \in b : LastUid(b) = uid[m]
    BY <2>3, <2>4 DEF numbers
  <2>7. LastUid(b) \in Nat /\ \A m \in b : uid[m] <= LastUid(b)
    BY <2>1, <2>3, <2>4, <2>5
  <2> QED BY <2>6, <2>7
<1> QED BY <1>1, <1>2

BatchKinds == [validity : Nat, high : Nat, messages : SUBSET Mail, last : Nat, drained : BOOLEAN]
MarkKinds == [validity : Nat, last : Nat, initialized : BOOLEAN]

\* Where a batch moves a mark to, and how far that is.
MarkOf(b, c) ==
  LET base == IF c.validity = b.validity THEN c.last ELSE 0
      mark == IF b.messages = {} THEN base ELSE b.last
  IN [validity |-> b.validity, last |-> IF b.drained THEN Max({mark, b.high}) ELSE mark,
      initialized |-> b.drained \/ (c.validity = b.validity /\ c.initialized)]

LEMMA MarkIs ==
  ASSUME NEW b \in BatchKinds, NEW c \in MarkKinds, NEW base, NEW mark,
         base = IF c.validity = b.validity THEN c.last ELSE 0,
         mark = IF b.messages = {} THEN base ELSE b.last
  PROVE  /\ base \in Nat /\ mark \in Nat /\ MarkOf(b, c) \in MarkKinds
         /\ MarkOf(b, c).validity = b.validity
         /\ MarkOf(b, c).initialized = (b.drained \/ (c.validity = b.validity /\ c.initialized))
         /\ MarkOf(b, c).last =
              IF ~b.drained THEN mark ELSE IF mark >= b.high THEN mark ELSE b.high
<1>1. base \in Nat /\ mark \in Nat /\ b.high \in Nat /\ b.validity \in Nat /\ b.drained \in BOOLEAN
  BY DEF BatchKinds, MarkKinds
<1>2. Max({mark, b.high}) = IF mark >= b.high THEN mark ELSE b.high
  BY <1>1, PairsHaveOne
<1> PICK last : last = IF b.drained THEN Max({mark, b.high}) ELSE mark
  OBVIOUS
<1>3. last \in Nat
  BY <1>1, <1>2
<1>4. MarkOf(b, c) = [validity |-> b.validity, last |-> last,
                      initialized |-> b.drained \/ (c.validity = b.validity /\ c.initialized)]
  BY DEF MarkOf
<1> QED BY <1>1, <1>2, <1>3, <1>4 DEF MarkKinds

LEMMA MarkOfBatch ==
  ASSUME PollTypes, NEW r \in Runs
  PROVE  /\ MovedMark(r) \in MarkKinds
         /\ MovedMark(r).validity = batch[r].validity
         /\ MovedMark(r).initialized =
              (batch[r].drained \/ (checkpoint.validity = batch[r].validity /\ checkpoint.initialized))
<1> PICK b \in BatchKinds : b = batch[r]
  BY DEF PollTypes, BatchKinds
<1> PICK c \in MarkKinds : c = checkpoint
  BY DEF PollTypes, MarkKinds
<1> PICK base : base = IF c.validity = b.validity THEN c.last ELSE 0
  OBVIOUS
<1> PICK mark : mark = IF b.messages = {} THEN base ELSE b.last
  OBVIOUS
<1>1. MovedMark(r) = MarkOf(b, c)
  BY DEF MovedMark, MarkOf
<1>2. /\ MarkOf(b, c) \in MarkKinds /\ MarkOf(b, c).validity = b.validity
      /\ MarkOf(b, c).initialized = (b.drained \/ (c.validity = b.validity /\ c.initialized))
  BY MarkIs
<1> QED BY <1>1, <1>2

LEMMA LeavingKeepsTypes ==
  ASSUME PollTypes, NEW r \in Runs, Leave(r)
  PROVE  PollTypes'
<1>1. NoBatch \in [validity : Nat, high : Nat, messages : SUBSET Mail, last : Nat, drained : BOOLEAN]
  BY DEF NoBatch
<1> QED BY <1>1 DEF PollTypes, Leave, Goto, mailboxVars

LEMMA StepKeepsPollTypes ==
  ASSUME PollTypes, [InboxNext]_inboxVars
  PROVE  PollTypes'
<1>1. CASE UNCHANGED <<mailboxVars, pollVars>>
  BY <1>1 DEF PollTypes, mailboxVars, pollVars
<1>2. ASSUME NEW m \in Mail, Arrive(m) \/ Read(m) \/ Delete(m) PROVE PollTypes'
  <2>1. UNCHANGED <<checkpoint, batch, place>> /\ seen' \subseteq Mail /\ validity' = validity
    BY <1>2 DEF Arrive, Read, Delete, PollTypes, pollVars
  <2>2. uid' \in [Mail -> Nat] /\ uidNext' \in Nat \ {0}
    BY <1>2 DEF Arrive, Read, Delete, PollTypes
  <2> QED BY <2>1, <2>2 DEF PollTypes
<1>3. CASE Renumber
  <2>1. \A S \in SUBSET Mail : Cardinality(S) \in Nat
    BY InboxAssumption, FS_Subset, FS_CardinalityType
  <2>2. uid' \in [Mail -> Nat]
    BY <1>3, <2>1 DEF Renumber
  <2>3. Cardinality({m \in Mail : Present(m)}) \in Nat
    BY <2>1
  <2>4. uidNext' \in Nat \ {0}
    BY <1>3, <2>3 DEF Renumber
  <2> QED BY <1>3, <2>2, <2>4 DEF Renumber, PollTypes, pollVars
<1>4. ASSUME NEW r \in Runs, Fetch(r) PROVE PollTypes'
  <2>1. PICK b \in Slices(Found) :
          batch' = [batch EXCEPT ![r] =
            [validity |-> validity, high |-> uidNext - 1, messages |-> b, last |-> LastUid(b), drained |-> b = Found]]
    BY <1>4 DEF Fetch
  <2>2. b \in SUBSET Mail
    BY DEF Slices, Found
  <2>3. LastUid(b) \in Nat /\ uidNext - 1 \in Nat /\ validity \in Nat
    BY <2>2, LastOfBatch DEF PollTypes
  <2>4. [validity |-> validity, high |-> uidNext - 1, messages |-> b, last |-> LastUid(b), drained |-> b = Found]
          \in [validity : Nat, high : Nat, messages : SUBSET Mail, last : Nat, drained : BOOLEAN]
    BY <2>2, <2>3
  <2> QED BY <1>4, <2>1, <2>4 DEF Fetch, Goto, PollTypes, mailboxVars
<1>5. ASSUME NEW r \in Runs, CommitBatch(r) PROVE PollTypes'
  <2>1. MovedMark(r) \in [validity : Nat, last : Nat, initialized : BOOLEAN]
    BY MarkOfBatch DEF MarkKinds
  <2>2. NoBatch \in [validity : Nat, high : Nat, messages : SUBSET Mail, last : Nat, drained : BOOLEAN]
    BY DEF NoBatch
  <2> QED BY <1>5, <2>1, <2>2 DEF CommitBatch, Goto, PollTypes, mailboxVars
<1>6. ASSUME NEW r \in Runs, Acknowledge(r) \/ LoseClaim(r) \/ HandlerError(r) \/ Die(r) PROVE PollTypes'
  BY <1>6, LeavingKeepsTypes DEF Acknowledge, LoseClaim, HandlerError, Die
<1>7. ASSUME NEW r \in Runs, Claim(r) PROVE PollTypes'
  BY <1>7 DEF Claim, Goto, PollTypes, mailboxVars
<1>8. ASSUME NEW r \in Runs, ParkSpentPolls(r) PROVE PollTypes'
  BY <1>1, <1>8 DEF ParkSpentPolls
<1>9. CASE MaintainSchedule \/ \E t \in Tasks : Prune(t) \/ Lapse(t) \/ ComeDue(t)
  BY <1>1, <1>9 DEF MaintainSchedule, Prune, Lapse, ComeDue
<1>10. CASE UNCHANGED inboxVars
  BY <1>1, <1>10 DEF inboxVars
<1> QED BY <1>2, <1>3, <1>4, <1>5, <1>6, <1>7, <1>8, <1>9, <1>10 DEF InboxNext, Work

-----------------------------------------------------------------------------
(* What is concluded, once.                                                *)

LEMMA OnlyCommitsConclude ==
  ASSUME [InboxNext]_inboxVars, \A r \in Runs : ~CommitBatch(r)
  PROVE  UNCHANGED routedVars
<1>1. CASE UNCHANGED inboxVars
  BY <1>1 DEF inboxVars
<1>2. CASE Renumber \/ MaintainSchedule \/ \E m \in Mail : Arrive(m) \/ Read(m) \/ Delete(m)
  BY <1>2 DEF Renumber, MaintainSchedule, Arrive, Read, Delete
<1>3. CASE \E t \in Tasks : Prune(t) \/ Lapse(t) \/ ComeDue(t)
  BY <1>3 DEF Prune, Lapse, ComeDue
<1>4. ASSUME NEW r \in Runs,
             \/ Claim(r) \/ ParkSpentPolls(r) \/ Fetch(r) \/ Acknowledge(r) \/ LoseClaim(r) \/ HandlerError(r)
             \/ Die(r)
      PROVE  UNCHANGED routedVars
  BY <1>4 DEF Claim, ParkSpentPolls, Fetch, Acknowledge, LoseClaim, HandlerError, Die, Leave
<1> QED BY <1>1, <1>2, <1>3, <1>4 DEF InboxNext, Work

LEMMA StepKeepsConclusions ==
  ASSUME PollTypes, ConclusionInv, [InboxNext]_inboxVars
  PROVE  ConclusionInv'
<1>1. CASE UNCHANGED routedVars
  BY <1>1 DEF routedVars, ConclusionInv
<1>2. ASSUME NEW r \in Runs, CommitBatch(r) PROVE ConclusionInv'
  <2> PICK new : new = NewIds(r)
    OBVIOUS
  <2> PICK was \in SUBSET Ids : was = recorded
    BY DEF ConclusionInv
  <2> PICK x : x = outcome
    OBVIOUS
  <2>1. /\ recorded' = was \cup new /\ outcome' = Strongest(x, new)
        /\ concluded' = [i \in Ids |-> concluded[i] + (IF i \in new THEN 1 ELSE 0)]
    BY <1>2 DEF CommitBatch, Strongest
  <2>2. new \in SUBSET Ids /\ new \cap was = {}
    BY DEF NewIds, Ids, PollTypes
  <2>3. outcome' = Max({0} \cup Ranks(was \cup new))
    <3>1. x = Max({0} \cup Ranks(was))
      BY DEF ConclusionInv
    <3>2. Strongest(x, new) = Max({x} \cup Ranks(new))
      BY DEF Strongest, Ranks, Aliased
    <3> QED BY <2>1, <2>2, <3>1, <3>2, StrongestOfAll
  <2>4. ASSUME NEW i \in Ids PROVE concluded'[i] = IF i \in was \cup new THEN 1 ELSE 0
    BY <2>1, <2>2, <2>4 DEF ConclusionInv
  <2>5. concluded' = [i \in Ids |-> IF i \in was \cup new THEN 1 ELSE 0]
    BY <2>1, <2>4
  <2> QED BY <2>1, <2>2, <2>3, <2>5 DEF ConclusionInv
<1> QED BY <1>1, <1>2, OnlyCommitsConclude

LEMMA MailboxBegins == InboxInit => PollTypes /\ ConclusionInv
<1> SUFFICES ASSUME InboxInit PROVE PollTypes /\ ConclusionInv
  OBVIOUS
<1>1. PollTypes
  BY DEF InboxInit, MailboxInit, PollTypes, NoBatch
<1>2. Max({0} \cup Ranks({})) = 0
  <2>1. {0} \cup Ranks({}) = {0}
    BY DEF Ranks, Aliased
  <2>2. {0} \in SUBSET Nat /\ 0 \in {0} /\ \A y \in {0} : 0 >= y
    OBVIOUS
  <2> QED BY <2>1, <2>2, GreatestIs
<1>3. ConclusionInv
  BY <1>2 DEF InboxInit, MailboxInit, ConclusionInv
<1> QED BY <1>1, <1>3

\* However often a message is delivered, renumbered or replayed after a crash,
\* it is concluded from once, and the outcome is the strongest conclusion
\* recorded, in whatever order and batches the mail was routed.
THEOREM ConclusionsAreHeld == InboxSpec => []ConclusionsHold
<1>1. PollTypes /\ ConclusionInv /\ [InboxNext]_inboxVars => (PollTypes /\ ConclusionInv)'
  BY StepKeepsPollTypes, StepKeepsConclusions
<1>2. ConclusionInv => ConclusionsHold
  BY DEF ConclusionInv, ConclusionsHold, ConcludedOnce, OutcomeIsStrongest, Ranks, Aliased
<1> QED BY <1>1, <1>2, MailboxBegins, PTL DEF InboxSpec

-----------------------------------------------------------------------------
(* The mailbox, while a batch is in flight.                                *)

\* What a run's batch says goes on being so if less is awaited, nothing is
\* numbered anew and the mark stays.
LEMMA RoutingStays ==
  ASSUME PollTypes, PollTypes', RoutingInv, UNCHANGED <<checkpoint, validity, recorded>>,
         uidNext' >= uidNext,
         \A m \in Mail : Awaited(m)' /\ uid'[m] < uidNext => Awaited(m) /\ uid'[m] = uid[m],
         \A r \in Runs : place'[r] = "routing" =>
           place[r] = "routing" /\ batch'[r] = batch[r] /\ lockedFor' = r
  PROVE  RoutingInv'
<1> SUFFICES ASSUME NEW r \in Runs, place'[r] = "routing" PROVE PassesNothing(r)'
  BY DEF RoutingInv
<1>1. place[r] = "routing" /\ batch'[r] = batch[r] /\ lockedFor' = r
  OBVIOUS
<1>2. MovedMark(r)' = MovedMark(r)
  BY <1>1 DEF MovedMark
<1>3. MovedMark(r).last \in Nat /\ uidNext \in Nat
  BY MarkOfBatch DEF PollTypes, MarkKinds
<1>4. PassesNothing(r)
  BY <1>1 DEF RoutingInv
<1> PICK last \in Nat : last = MovedMark(r).last
  BY <1>3
<1>5. ASSUME NEW m \in Mail, batch[r].validity = validity, Awaited(m)', uid'[m] <= last
      PROVE  IdOf[m] \in recorded \/ m \in batch[r].messages
  <2>1. last < uidNext
    BY <1>4, <1>5 DEF PassesNothing
  <2>2. uid'[m] < uidNext
    BY <1>3, <1>5, <2>1 DEF PollTypes
  <2>3. Awaited(m) /\ uid[m] <= last
    BY <1>5, <2>2
  <2> QED BY <1>4, <1>5, <2>3 DEF PassesNothing
<1>6. batch[r].validity = validity => MovedMark(r).last < uidNext'
  BY <1>3, <1>4 DEF PassesNothing, PollTypes
<1> QED BY <1>1, <1>2, <1>4, <1>5, <1>6 DEF PassesNothing

\* Steps that leave the mailbox and the routing as they are.
LEMMA ElsewhereKeepsScan ==
  ASSUME PollTypes, PollTypes', ScanInv, UNCHANGED <<mailboxVars, routedVars, checkpoint, readEarly>>,
         \A r \in Runs : place'[r] = "routing" =>
           place[r] = "routing" /\ batch'[r] = batch[r] /\ lockedFor' = r
  PROVE  ScanInv'
<1>1. RoutingInv'
  BY RoutingStays DEF ScanInv, Awaited, Present, mailboxVars, routedVars, PollTypes
<1>2. MailInv'
  BY DEF ScanInv, MailInv, Bootstrapping, Present, mailboxVars, routedVars
<1>3. NothingSkipped'
  BY DEF ScanInv, NothingSkipped, Present, mailboxVars, routedVars
<1> QED BY <1>1, <1>2, <1>3 DEF ScanInv

\* One that leaves frees no row but its own.
LEMMA LeavingKeepsScan ==
  ASSUME PollTypes, PollTypes', ScanInv, UNCHANGED routedVars, NEW r \in Runs, Leave(r)
  PROVE  ScanInv'
<1>1. ASSUME NEW s \in Runs, place'[s] = "routing"
      PROVE  place[s] = "routing" /\ batch'[s] = batch[s] /\ lockedFor' = s
  <2>1. s # r /\ place[s] = "routing" /\ batch'[s] = batch[s]
    BY <1>1 DEF Leave, Goto, PollTypes
  <2>2. lockedFor = s
    BY <2>1 DEF ScanInv, RoutingInv, PassesNothing
  <2> QED BY <2>1, <2>2 DEF Leave, Release
<1> QED BY <1>1, ElsewhereKeepsScan DEF Leave

\* Mail that arrives is numbered above every mark; what is read or deleted is
\* awaited no more than before.
LEMMA MailboxKeepsScan ==
  ASSUME PollTypes, PollTypes', ScanInv, NEW m \in Mail, Arrive(m) \/ Read(m) \/ Delete(m)
  PROVE  ScanInv'
<1>1. UNCHANGED <<checkpoint, lockedFor, place, batch, validity, recorded>>
  BY DEF Arrive, Read, Delete, pollVars, routedVars
<1>2. uidNext' >= uidNext /\ uidNext' \in Nat
  BY DEF Arrive, Read, Delete, PollTypes
<1>3. ASSUME NEW n \in Mail, Awaited(n)', uid'[n] < uidNext PROVE Awaited(n) /\ uid'[n] = uid[n]
  <2>1. CASE Arrive(m)
    BY <1>3, <2>1 DEF Arrive, Awaited, Present, PollTypes
  <2>2. CASE Read(m)
    BY <1>3, <2>2 DEF Read, Awaited, Present, PollTypes
  <2>3. CASE Delete(m)
    BY <1>3, <2>3 DEF Delete, Awaited, Present, PollTypes
  <2> QED BY <2>1, <2>2, <2>3
<1>4. RoutingInv'
  BY <1>1, <1>2, <1>3, RoutingStays DEF ScanInv, RoutingInv, PassesNothing
<1>5. MailInv'
  <2>1. \A n \in Mail : uid'[n] < uidNext'
    BY DEF Arrive, Read, Delete, PollTypes, ScanInv, MailInv
  <2>2. checkpoint.validity = validity => checkpoint.last < uidNext'
    BY <1>2 DEF PollTypes, ScanInv, MailInv
  <2>3. Bootstrapping => \A n \in seen' : Present(n)' => n \in readEarly'
    BY DEF Arrive, Read, Delete, PollTypes, ScanInv, MailInv, Present
  <2>4. Bootstrapping' <=> Bootstrapping
    BY <1>1 DEF Bootstrapping
  <2> QED BY <1>1, <2>1, <2>2, <2>3, <2>4 DEF ScanInv, MailInv
<1>6. NothingSkipped'
  <2> SUFFICES ASSUME checkpoint.validity = validity, NEW n \in Mail, Awaited(n)', uid'[n] <= checkpoint.last
               PROVE  IdOf[n] \in recorded
    BY <1>1 DEF NothingSkipped, Awaited
  <2>1. uid'[n] < uidNext
    BY DEF ScanInv, MailInv, PollTypes
  <2>2. Awaited(n) /\ uid[n] <= checkpoint.last
    BY <1>3, <2>1
  <2> QED BY <2>2 DEF ScanInv, NothingSkipped, Awaited
<1> QED BY <1>4, <1>5, <1>6 DEF ScanInv

\* After a renumbering the mark, and what is in flight, is of another mailbox.
LEMMA RenumberingKeepsScan ==
  ASSUME PollTypes, PollTypes', ScanInv, Renumber
  PROVE  ScanInv'
<1>1. /\ validity' = validity + 1 /\ seen' = seen /\ readEarly' = readEarly \cup seen
      /\ UNCHANGED <<recorded, checkpoint, lockedFor, place, batch>>
  BY DEF Renumber, routedVars, pollVars
<1>2. checkpoint.validity < validity' /\ checkpoint.validity <= validity'
  BY <1>1 DEF ScanInv, MailInv, PollTypes
<1>3. ASSUME NEW m \in Mail PROVE uid'[m] < uidNext'
  <2> DEFINE all == {n \in Mail : Present(n)}
             below == {n \in Mail : Present(n) /\ uid[n] <= uid[m]}
  <2>1. below \subseteq all /\ IsFiniteSet(all)
    BY InboxAssumption, FS_Subset
  <2>2. uidNext' = Cardinality(all) + 1 /\ uid'[m] = IF Present(m) THEN Cardinality(below) ELSE 0
    BY DEF Renumber
  <2> HIDE DEF all, below
  <2>3. Cardinality(below) \in Nat /\ Cardinality(all) \in Nat /\ Cardinality(below) <= Cardinality(all)
    BY <2>1, FS_Subset, FS_CardinalityType
  <2> QED BY <2>2, <2>3
<1>4. MailInv'
  BY <1>1, <1>2, <1>3 DEF MailInv, PollTypes
<1>5. RoutingInv'
  <2> SUFFICES ASSUME NEW r \in Runs, place'[r] = "routing" PROVE PassesNothing(r)'
    BY DEF RoutingInv
  <2>1. PassesNothing(r)
    BY <1>1 DEF ScanInv, RoutingInv
  <2>2. batch[r].validity \in Nat /\ batch[r].validity < validity' /\ batch[r].validity <= validity'
    BY <1>1, <2>1 DEF PassesNothing, PollTypes
  <2>3. batch[r].validity # validity'
    BY <1>1, <2>2 DEF PollTypes
  <2> QED BY <1>1, <2>1, <2>2, <2>3 DEF PassesNothing
<1>6. NothingSkipped'
  BY <1>1, <1>2 DEF NothingSkipped, PollTypes
<1> QED BY <1>4, <1>5, <1>6 DEF ScanInv

\* A slice of what is found leaves nothing out up to its last message, and
\* what is not found below that is recorded, or was read early.
LEMMA FetchKeepsScan ==
  ASSUME PollTypes, PollTypes', ScanInv, NEW r \in Runs, Fetch(r)
  PROVE  ScanInv'
<1>1. UNCHANGED <<mailboxVars, routedVars, checkpoint, readEarly>> /\ lockedFor' = r /\ lockedFor = NoRun
      /\ place' = [place EXCEPT ![r] = "routing"]
  BY DEF Fetch, Goto
<1> PICK found : found = Found
  OBVIOUS
<1>2. PICK s \in SUBSET found :
        /\ \A m \in s, n \in found \ s : uid[m] < uid[n]
        /\ s # {} \/ found = {}
        /\ batch' = [batch EXCEPT ![r] =
             [validity |-> validity, high |-> uidNext - 1, messages |-> s, last |-> LastUid(s), drained |-> s = found]]
  BY DEF Fetch, Slices
<1>3. s \in SUBSET Mail
  BY DEF Found
<1>4. /\ LastUid(s) \in Nat /\ \A m \in s : uid[m] <= LastUid(s)
      /\ s # {} => \E m \in s : LastUid(s) = uid[m]
  BY <1>3, LastOfBatch DEF PollTypes
<1>5. ASSUME NEW q \in Runs, place'[q] = "routing" PROVE q = r
  BY <1>1, <1>5, InboxAssumption DEF ScanInv, RoutingInv, PassesNothing, PollTypes
<1> PICK b \in BatchKinds : b = batch'[r]
  BY DEF PollTypes, BatchKinds
<1> PICK c \in MarkKinds : c = checkpoint
  BY DEF PollTypes, MarkKinds
<1>6. /\ b.validity = validity /\ b.high = uidNext - 1 /\ b.messages = s /\ b.last = LastUid(s)
      /\ b.drained = (s = found)
  BY <1>2 DEF PollTypes
<1> PICK base : base = IF c.validity = b.validity THEN c.last ELSE 0
  OBVIOUS
<1> PICK mark : mark = IF b.messages = {} THEN base ELSE b.last
  OBVIOUS
<1>7. /\ base \in Nat /\ mark \in Nat
      /\ MarkOf(b, c).last = IF ~b.drained THEN mark ELSE IF mark >= b.high THEN mark ELSE b.high
  BY MarkIs
<1>8. MovedMark(r)' = MarkOf(b, c)
  BY <1>1 DEF MovedMark, MarkOf
<1>9. base = ResumeUid
  BY <1>6 DEF ResumeUid
<1>10. base < uidNext /\ mark < uidNext /\ uidNext \in Nat \ {0}
  <2>1. base < uidNext /\ uidNext \in Nat \ {0}
    BY <1>6 DEF ScanInv, MailInv, PollTypes
  <2>2. s # {} => LastUid(s) < uidNext
    BY <1>3, <1>4 DEF ScanInv, MailInv
  <2> QED BY <1>6, <2>1, <2>2
<1>11. MarkOf(b, c).last < uidNext
  BY <1>6, <1>7, <1>10
<1>12. ASSUME NEW m \in Mail, Awaited(m), uid[m] <= MarkOf(b, c).last
       PROVE  IdOf[m] \in recorded \/ m \in s
  <2>1. uid[m] \in Nat /\ uid[m] # 0
    BY <1>12 DEF Awaited, Present, PollTypes
  <2>2. CASE uid[m] <= base
    <3>1. c.validity = validity /\ base = c.last
      BY <1>6, <1>7, <2>1, <2>2
    <3> QED BY <1>12, <2>2, <3>1 DEF ScanInv, NothingSkipped, Awaited
  <2>3. CASE uid[m] > base
    <3>1. Bootstrapping => m \notin seen
      BY <1>12 DEF ScanInv, MailInv, Awaited
    <3>2. m \in found
      BY <1>9, <1>12, <2>3, <3>1 DEF Found, Awaited
    <3>3. CASE s = found
      BY <3>2, <3>3
    <3>4. CASE s # found
      <4>1. s # {} /\ MarkOf(b, c).last = LastUid(s)
        BY <1>2, <1>6, <1>7, <3>2, <3>4
      <4>2. PICK n \in s : LastUid(s) = uid[n]
        BY <1>4, <4>1
      <4>3. m \notin s => uid[n] < uid[m]
        BY <1>2, <3>2
      <4> QED BY <1>3, <1>4, <1>12, <2>1, <4>1, <4>2, <4>3
    <3> QED BY <3>3, <3>4
  <2> QED BY <1>7, <2>1, <2>2, <2>3
<1>13. PassesNothing(r)'
  <2>1. \A m \in Mail : Awaited(m)' => Awaited(m)
    BY <1>1 DEF Awaited, Present, mailboxVars
  <2>2. c.validity <= validity /\ validity \in Nat
    BY DEF ScanInv, MailInv, PollTypes
  <2>3. UNCHANGED <<uid, validity, uidNext, recorded>>
    BY <1>1 DEF mailboxVars, routedVars
  <2> QED BY <1>1, <1>6, <1>8, <1>11, <1>12, <2>1, <2>2, <2>3 DEF PassesNothing
<1>14. RoutingInv'
  BY <1>5, <1>13 DEF RoutingInv
<1>15. MailInv' /\ NothingSkipped'
  BY <1>1 DEF ScanInv, MailInv, NothingSkipped, Bootstrapping, Present, mailboxVars, routedVars
<1> QED BY <1>14, <1>15 DEF ScanInv

\* The mark moves to where the batch said, and what was in the batch is
\* recorded with it.
LEMMA CommitKeepsScan ==
  ASSUME PollTypes, PollTypes', ScanInv, NEW r \in Runs, CommitBatch(r)
  PROVE  ScanInv'
<1>1. /\ place[r] = "routing" /\ recorded' = recorded \cup NewIds(r) /\ checkpoint' = MovedMark(r)
      /\ place' = [place EXCEPT ![r] = "ack"]
      /\ UNCHANGED <<mailboxVars, readEarly>>
  BY DEF CommitBatch, Goto
<1>2. PassesNothing(r)
  BY <1>1 DEF ScanInv, RoutingInv
<1>3. /\ checkpoint'.validity = batch[r].validity
      /\ checkpoint'.initialized =
           (batch[r].drained \/ (checkpoint.validity = batch[r].validity /\ checkpoint.initialized))
  BY <1>1, MarkOfBatch
<1>4. RoutingInv'
  <2> SUFFICES ASSUME NEW q \in Runs, place'[q] = "routing" PROVE FALSE
    BY DEF RoutingInv
  <2>1. q # r /\ place[q] = "routing"
    BY <1>1 DEF PollTypes
  <2> QED BY <1>2, <2>1 DEF ScanInv, RoutingInv, PassesNothing
<1>5. Bootstrapping' => Bootstrapping
  BY <1>1, <1>2, <1>3 DEF Bootstrapping, mailboxVars, PassesNothing, PollTypes
<1>6. MailInv'
  BY <1>1, <1>2, <1>3, <1>5 DEF ScanInv, MailInv, PassesNothing, mailboxVars, Present
<1>7. NothingSkipped'
  <2> SUFFICES ASSUME checkpoint'.validity = validity, NEW m \in Mail, Awaited(m), uid[m] <= checkpoint'.last
               PROVE  IdOf[m] \in recorded'
    BY <1>1 DEF NothingSkipped, Awaited, Present, mailboxVars
  <2>1. IdOf[m] \in recorded \/ m \in batch[r].messages
    BY <1>1, <1>2, <1>3 DEF PassesNothing
  <2>2. m \in batch[r].messages => IdOf[m] \in NewIds(r) \/ IdOf[m] \in recorded
    BY DEF NewIds, Awaited
  <2> QED BY <1>1, <2>1, <2>2
<1> QED BY <1>4, <1>6, <1>7 DEF ScanInv

LEMMA StepKeepsScan ==
  ASSUME PollTypes, PollTypes', ScanInv, [InboxNext]_inboxVars
  PROVE  ScanInv'
<1>1. CASE UNCHANGED <<mailboxVars, routedVars, pollVars, readEarly>>
  <2>1. UNCHANGED <<checkpoint, place, batch, lockedFor>>
    BY <1>1 DEF pollVars
  <2> QED BY <1>1, <2>1, ElsewhereKeepsScan DEF ScanInv, RoutingInv, PassesNothing
<1>2. CASE \E m \in Mail : Arrive(m) \/ Read(m) \/ Delete(m)
  BY <1>2, MailboxKeepsScan
<1>3. CASE Renumber
  BY <1>3, RenumberingKeepsScan
<1>4. CASE MaintainSchedule \/ \E t \in Tasks : Prune(t) \/ Lapse(t) \/ ComeDue(t)
  BY <1>1, <1>4 DEF MaintainSchedule, Prune, Lapse, ComeDue
<1>5. ASSUME NEW r \in Runs, Claim(r) PROVE ScanInv'
  <2>1. UNCHANGED <<mailboxVars, routedVars, checkpoint, readEarly, batch, lockedFor>>
        /\ place' = [place EXCEPT ![r] = "claimed"]
    BY <1>5 DEF Claim, Goto
  <2>2. \A q \in Runs : place'[q] = "routing" =>
          place[q] = "routing" /\ batch'[q] = batch[q] /\ lockedFor' = q
    BY <2>1 DEF PollTypes, ScanInv, RoutingInv, PassesNothing
  <2> QED BY <2>1, <2>2, ElsewhereKeepsScan
<1>6. ASSUME NEW r \in Runs, ParkSpentPolls(r) PROVE ScanInv'
  BY <1>1, <1>6 DEF ParkSpentPolls
<1>7. ASSUME NEW r \in Runs, Acknowledge(r) \/ LoseClaim(r) \/ HandlerError(r) \/ Die(r) PROVE ScanInv'
  <2>1. Leave(r)
    BY <1>7 DEF Acknowledge, LoseClaim, HandlerError, Die
  <2>2. UNCHANGED routedVars
    BY <2>1 DEF Leave
  <2> QED BY <2>1, <2>2, LeavingKeepsScan
<1>8. ASSUME NEW r \in Runs, Fetch(r) \/ CommitBatch(r) PROVE ScanInv'
  BY <1>8, FetchKeepsScan, CommitKeepsScan
<1>9. CASE UNCHANGED inboxVars
  BY <1>1, <1>9 DEF inboxVars
<1> QED BY <1>2, <1>3, <1>4, <1>5, <1>6, <1>7, <1>8, <1>9 DEF InboxNext, Work

\* A message below the mark that links to an application has been recorded,
\* whatever crashed, arrived, was read or renumbered in between, unless the
\* owner had read it before the first scan came to it.
THEOREM NothingIsSkipped == InboxSpec => []NothingSkipped
<1>1. InboxInit => PollTypes /\ ScanInv
  <2> SUFFICES ASSUME InboxInit PROVE PollTypes /\ ScanInv
    OBVIOUS
  <2>1. PollTypes
    BY DEF InboxInit, MailboxInit, PollTypes, NoBatch
  <2>2. ScanInv
    BY DEF InboxInit, MailboxInit, ScanInv, MailInv, RoutingInv, NothingSkipped, Bootstrapping
  <2> QED BY <2>1, <2>2
<1>2. PollTypes /\ ScanInv /\ [InboxNext]_inboxVars => (PollTypes /\ ScanInv)'
  BY StepKeepsPollTypes, StepKeepsScan
<1>3. ScanInv => NothingSkipped
  BY DEF ScanInv
<1> QED BY <1>1, <1>2, <1>3, PTL DEF InboxSpec
-----------------------------------------------------------------------------
(* The mailbox within its bounds.                                          *)

InMailbox == {m \in Mail : Present(m)}

\* No more mail is present than was numbered, so that a renumbering, which
\* counts it, stays below the numbers that were given out.
MailIsBounded ==
  /\ Cardinality(InMailbox) < uidNext /\ uidNext <= MaxUid + 1
  /\ \A m \in Mail : uid[m] <= MaxUid
  /\ validity \in 1..MaxValidity /\ checkpoint.validity <= MaxValidity /\ checkpoint.last <= MaxUid
  /\ \A r \in Runs : /\ batch[r].validity <= MaxValidity
                     /\ batch[r].high <= MaxUid /\ batch[r].last <= MaxUid
  /\ lockedFor \in Runs \cup {NoRun} /\ readEarly \subseteq Mail /\ faults \in 0..MaxFaults

LEMMA SomeMail ==
  ASSUME NEW S \in SUBSET Mail
  PROVE  /\ IsFiniteSet(S) /\ Cardinality(S) \in Nat
         /\ \A T \in SUBSET S : Cardinality(T) <= Cardinality(S)
<1>1. IsFiniteSet(S)
  BY InboxAssumption, FS_Subset
<1> QED BY <1>1, FS_CardinalityType, FS_Subset

LEMMA MailboxStaysBounded ==
  ASSUME PollTypes, MailIsBounded, NEW m \in Mail, Arrive(m) \/ Read(m) \/ Delete(m)
  PROVE  MailIsBounded'
<1>1. /\ UNCHANGED <<validity, checkpoint, lockedFor, batch, faults>> /\ readEarly' \subseteq Mail
      /\ uid \in [Mail -> Nat] /\ uidNext \in Nat /\ MaxUid \in Nat
  BY InboxAssumption DEF Arrive, Read, Delete, pollVars, MailIsBounded, PollTypes
<1>2. IsFiniteSet(InMailbox) /\ Cardinality(InMailbox) \in Nat
  BY SomeMail DEF InMailbox
<1>3. CASE Arrive(m)
  <2>1. /\ uid' = [uid EXCEPT ![m] = uidNext] /\ uid[m] = 0 /\ uidNext' = uidNext + 1 /\ uidNext <= MaxUid
    BY <1>3 DEF Arrive
  <2>2. m \notin InMailbox /\ InMailbox' = InMailbox \cup {m}
    BY <1>1, <2>1 DEF InMailbox, Present, PollTypes
  <2>3. Cardinality(InMailbox') = Cardinality(InMailbox) + 1
    BY <1>2, <2>2, FS_AddElement
  <2>4. Cardinality(InMailbox') < uidNext' /\ uidNext' <= MaxUid + 1
    BY <1>1, <1>2, <2>1, <2>3 DEF MailIsBounded
  <2>5. \A n \in Mail : uid'[n] <= MaxUid
    BY <1>1, <2>1 DEF MailIsBounded
  <2> QED BY <1>1, <2>4, <2>5 DEF MailIsBounded
<1>4. CASE Read(m) \/ Delete(m)
  <2>1. uidNext' = uidNext /\ \A n \in Mail : uid'[n] \in {0, uid[n]}
    BY <1>1, <1>4 DEF Read, Delete
  <2>2. InMailbox' \subseteq InMailbox
    BY <2>1 DEF InMailbox, Present
  <2>3. Cardinality(InMailbox') \in Nat /\ Cardinality(InMailbox') <= Cardinality(InMailbox)
    BY <1>2, <2>2, FS_Subset, FS_CardinalityType
  <2>4. Cardinality(InMailbox') < uidNext'
    BY <1>1, <1>2, <2>1, <2>3 DEF MailIsBounded
  <2>5. \A n \in Mail : uid'[n] <= MaxUid
    BY <1>1, <2>1 DEF MailIsBounded
  <2> QED BY <1>1, <2>1, <2>4, <2>5 DEF MailIsBounded
<1> QED BY <1>3, <1>4

LEMMA RenumberingStaysBounded ==
  ASSUME PollTypes, MailIsBounded, Renumber
  PROVE  MailIsBounded'
<1>1. /\ validity < MaxValidity /\ validity' = validity + 1 /\ readEarly' = readEarly \cup seen
      /\ uidNext' = Cardinality(InMailbox) + 1 /\ UNCHANGED <<checkpoint, lockedFor, batch, faults>>
      /\ uid \in [Mail -> Nat] /\ uidNext \in Nat /\ MaxUid \in Nat /\ MaxValidity \in Nat /\ seen \subseteq Mail
  BY InboxAssumption DEF Renumber, pollVars, PollTypes, InMailbox
<1> DEFINE below(m) == {n \in Mail : Present(n) /\ uid[n] <= uid[m]}
<1>2. \A m \in Mail : uid'[m] = IF Present(m) THEN Cardinality(below(m)) ELSE 0
  BY DEF Renumber
<1>3. \A m \in Mail : below(m) \in SUBSET InMailbox
  BY DEF InMailbox
<1>4. InMailbox \in SUBSET Mail
  BY DEF InMailbox
<1> HIDE DEF below
<1>5. /\ Cardinality(InMailbox) \in Nat
      /\ \A m \in Mail : Cardinality(below(m)) \in Nat /\ Cardinality(below(m)) <= Cardinality(InMailbox)
  <2>1. \A m \in Mail : below(m) \in SUBSET Mail
    BY <1>3, <1>4
  <2> QED BY <1>3, <1>4, <2>1, SomeMail
<1>6. Cardinality(InMailbox) <= MaxUid
  BY <1>1, <1>5 DEF MailIsBounded
<1>7. \A m \in Mail : uid'[m] <= MaxUid
  BY <1>1, <1>2, <1>5, <1>6
<1>8. InMailbox' \in SUBSET InMailbox
  <2>1. \A m \in Mail : ~Present(m) => uid'[m] = 0
    BY <1>2
  <2> QED BY <2>1 DEF InMailbox, Present
<1>9. Cardinality(InMailbox') \in Nat /\ Cardinality(InMailbox') <= Cardinality(InMailbox)
  <2>1. InMailbox' \in SUBSET Mail
    BY <1>4, <1>8
  <2> QED BY <1>4, <1>8, <2>1, SomeMail
<1>10. Cardinality(InMailbox') < uidNext' /\ uidNext' <= MaxUid + 1
  BY <1>1, <1>5, <1>6, <1>9
<1>11. validity' \in 1..MaxValidity
  BY <1>1 DEF MailIsBounded
<1>12. readEarly' \subseteq Mail
  BY <1>1 DEF MailIsBounded
<1> QED BY <1>1, <1>7, <1>10, <1>11, <1>12 DEF MailIsBounded

LEMMA FetchStaysBounded ==
  ASSUME PollTypes, MailIsBounded, NEW r \in Runs, Fetch(r)
  PROVE  MailIsBounded'
<1>1. PICK b \in Slices(Found) :
        batch' = [batch EXCEPT ![r] =
          [validity |-> validity, high |-> uidNext - 1, messages |-> b, last |-> LastUid(b), drained |-> b = Found]]
  BY DEF Fetch
<1>2. /\ UNCHANGED <<uid, uidNext, validity, checkpoint, readEarly, faults>> /\ lockedFor' = r
      /\ InMailbox' = InMailbox
  BY DEF Fetch, mailboxVars, InMailbox, Present
<1>3. LastUid(b) <= MaxUid
  <2>1. CASE b = {}
    BY <2>1, InboxAssumption DEF LastUid
  <2>2. CASE b # {}
    <3>1. b \in SUBSET Mail /\ uid \in [Mail -> Nat]
      BY DEF Slices, Found, PollTypes
    <3> QED BY <2>2, <3>1, LastOfBatch DEF MailIsBounded
  <2> QED BY <2>1, <2>2
<1>4. uidNext - 1 <= MaxUid /\ validity <= MaxValidity
  BY InboxAssumption DEF MailIsBounded, PollTypes
<1>5. \A s \in Runs : /\ batch'[s].validity <= MaxValidity
                      /\ batch'[s].high <= MaxUid /\ batch'[s].last <= MaxUid
  BY <1>1, <1>3, <1>4 DEF MailIsBounded, PollTypes
<1> QED BY <1>2, <1>5 DEF MailIsBounded

\* A batch that is dropped, whatever becomes of the mark.
LEMMA DroppingStaysBounded ==
  ASSUME PollTypes, MailIsBounded, NEW r \in Runs, batch' = [batch EXCEPT ![r] = NoBatch], Release(r),
         UNCHANGED <<mailboxVars, readEarly>>, faults' \in 0..MaxFaults,
         checkpoint'.validity <= MaxValidity, checkpoint'.last <= MaxUid
  PROVE  MailIsBounded'
<1>1. \A s \in Runs : /\ batch'[s].validity <= MaxValidity
                      /\ batch'[s].high <= MaxUid /\ batch'[s].last <= MaxUid
  BY InboxAssumption DEF MailIsBounded, PollTypes, NoBatch
<1>2. lockedFor' \in Runs \cup {NoRun} /\ InMailbox' = InMailbox
  BY DEF MailIsBounded, Release, InMailbox, Present, mailboxVars
<1> QED BY <1>1, <1>2 DEF MailIsBounded, mailboxVars

LEMMA CommitStaysBounded ==
  ASSUME PollTypes, MailIsBounded, NEW r \in Runs, CommitBatch(r)
  PROVE  MailIsBounded'
<1> PICK b \in BatchKinds : b = batch[r]
  BY DEF PollTypes, BatchKinds
<1> PICK c \in MarkKinds : c = checkpoint
  BY DEF PollTypes, MarkKinds
<1> PICK base : base = IF c.validity = b.validity THEN c.last ELSE 0
  OBVIOUS
<1> PICK mark : mark = IF b.messages = {} THEN base ELSE b.last
  OBVIOUS
<1>1. checkpoint' = MarkOf(b, c)
  BY DEF CommitBatch, MovedMark, MarkOf
<1>2. /\ base \in Nat /\ mark \in Nat /\ MarkOf(b, c).validity = b.validity
      /\ MarkOf(b, c).last = IF ~b.drained THEN mark ELSE IF mark >= b.high THEN mark ELSE b.high
  BY MarkIs
<1>3. b.validity <= MaxValidity /\ b.high <= MaxUid /\ b.last <= MaxUid /\ c.last <= MaxUid
  BY DEF MailIsBounded
<1>4. mark <= MaxUid
  BY <1>3, InboxAssumption
<1>5. checkpoint'.validity <= MaxValidity /\ checkpoint'.last <= MaxUid
  BY <1>1, <1>2, <1>3, <1>4
<1> QED BY <1>5, DroppingStaysBounded DEF CommitBatch, MailIsBounded

LEMMA StepKeepsBounds ==
  ASSUME PollTypes, MailIsBounded, [InboxNext]_inboxVars
  PROVE  MailIsBounded'
<1>1. CASE UNCHANGED <<mailboxVars, checkpoint, lockedFor, batch, readEarly>> /\ faults' \in 0..MaxFaults
  BY <1>1 DEF MailIsBounded, InMailbox, Present, mailboxVars
<1>2. MaxFaults \in Nat /\ faults \in 0..MaxFaults
  BY InboxAssumption DEF MailIsBounded
<1>3. ASSUME NEW r \in Runs, Acknowledge(r) \/ LoseClaim(r) \/ HandlerError(r) \/ Die(r) PROVE MailIsBounded'
  <2>1. faults' \in 0..MaxFaults /\ Leave(r)
    BY <1>2, <1>3 DEF Acknowledge, LoseClaim, HandlerError, Die
  <2> QED BY <2>1, DroppingStaysBounded DEF Leave, MailIsBounded
<1>4. ASSUME NEW t \in Tasks, Prune(t) \/ Lapse(t) \/ ComeDue(t) PROVE MailIsBounded'
  BY <1>1, <1>2, <1>4 DEF Prune, Lapse, ComeDue, pollVars
<1>5. ASSUME NEW r \in Runs, Claim(r) \/ ParkSpentPolls(r) PROVE MailIsBounded'
  BY <1>1, <1>2, <1>5 DEF Claim, ParkSpentPolls, pollVars
<1>6. CASE MaintainSchedule
  BY <1>1, <1>2, <1>6 DEF MaintainSchedule, pollVars
<1>7. CASE UNCHANGED inboxVars
  BY <1>1, <1>2, <1>7 DEF inboxVars, pollVars
<1> QED BY <1>3, <1>4, <1>5, <1>6, <1>7, MailboxStaysBounded, RenumberingStaysBounded,
           FetchStaysBounded, CommitStaysBounded DEF InboxNext, Work

\* However mail arrives, is renumbered or is fetched again: no mark and no
\* batch reaches beyond the numbers the server gave out.
THEOREM InboxTypeCorrect == InboxSpec => []InboxTypeOK
<1>1. InboxInit => MailIsBounded
  <2> SUFFICES ASSUME InboxInit PROVE MailIsBounded
    OBVIOUS
  <2>1. InMailbox = {}
    BY DEF InboxInit, MailboxInit, InMailbox, Present
  <2> QED BY <2>1, FS_EmptySet, InboxAssumption DEF InboxInit, MailboxInit, MailIsBounded, NoBatch
<1>2. QueueInv /\ PollTypes /\ ConclusionInv /\ MailIsBounded => InboxTypeOK
  <2> SUFFICES ASSUME QueueInv, PollTypes, ConclusionInv, MailIsBounded PROVE InboxTypeOK
    OBVIOUS
  <2>1. MaxUid \in Nat /\ MaxValidity \in Nat
    BY InboxAssumption
  <2>2. uid \in [Mail -> 0..MaxUid] /\ uidNext \in 1..(MaxUid + 1)
    BY <2>1 DEF PollTypes, MailIsBounded
  <2>3. checkpoint \in Checkpoints
    BY <2>1 DEF PollTypes, MailIsBounded, Checkpoints
  <2>4. batch \in [Runs -> Batches]
    <3>1. \A r \in Runs : batch[r] \in Batches
      BY <2>1 DEF PollTypes, MailIsBounded, Batches
    <3> QED BY <3>1 DEF PollTypes
  <2>5. recorded \subseteq Ids /\ concluded \in [Ids -> Nat]
    BY DEF ConclusionInv
  <2>6. outcome \in 0..5
    <3>1. Ranks(recorded) \subseteq 0..5
      BY InboxAssumption DEF ConclusionInv, Ranks, Aliased
    <3>2. recorded \in SUBSET Ids /\ 0 \in 0..5 /\ outcome = Max({0} \cup Ranks(recorded))
      BY DEF ConclusionInv
    <3> QED BY <3>1, <3>2, RanksAreFew
  <2>7. TypeOK
    BY DEF QueueInv
  <2> QED BY <2>2, <2>3, <2>4, <2>5, <2>6, <2>7 DEF InboxTypeOK, PollTypes, MailIsBounded
<1>3. MailIsBounded /\ PollTypes /\ [InboxNext]_inboxVars => MailIsBounded'
  BY StepKeepsBounds
<1>4. InboxInit => QueueInv /\ PollTypes /\ ConclusionInv
  BY InitQueueInv, MailboxBegins DEF InboxInit
<1>5. QueueInv /\ PollTypes /\ ConclusionInv /\ [InboxNext]_inboxVars
        => (QueueInv /\ PollTypes /\ ConclusionInv)'
  BY StepKeepsPollQueue, StepKeepsPollTypes, StepKeepsConclusions
<1> QED BY <1>1, <1>2, <1>3, <1>4, <1>5, PTL DEF InboxSpec
=============================================================================
