----------------------------- MODULE TurnsProofs -----------------------------
(***************************************************************************)
(* Proofs about turns: at a host, for the coroutines of one process        *)
(* (LocalSlots) and for all workers together (HostSlots), of the things    *)
(* that are rung for the owner (Doorbell, Reminders), and at the locks of  *)
(* an application (LockOrder); and that the parts of MCParts, beside one   *)
(* another, promise what each does alone.                                  *)
(***************************************************************************)
EXTENDS MCParts, PollsProofs, FiniteSetTheorems, TLAPS

-----------------------------------------------------------------------------
(* The largest and the smallest of a few numbers.                          *)

LEMMA LargestOfTwo ==
  ASSUME NEW a \in Int, NEW b \in Int
  PROVE  Max({a, b}) = IF a >= b THEN a ELSE b
<1>1. \E x \in {a, b} : \A y \in {a, b} : x >= y
  OBVIOUS
<1> QED BY <1>1 DEF Max

LEMMA LargestOfThree ==
  ASSUME NEW a \in Int, NEW b \in Int, NEW c \in Int
  PROVE  /\ Max({a, b, c}) \in {a, b, c}
         /\ Max({a, b, c}) >= a /\ Max({a, b, c}) >= b /\ Max({a, b, c}) >= c
<1>1. \E x \in {a, b, c} : \A y \in {a, b, c} : x >= y
  OBVIOUS
<1> QED BY <1>1 DEF Max

LEMMA SmallestOfTwo ==
  ASSUME NEW a \in Int, NEW b \in Int
  PROVE  Min({a, b}) = IF a <= b THEN a ELSE b
<1>1. \E x \in {a, b} : \A y \in {a, b} : x <= y
  OBVIOUS
<1> QED BY <1>1 DEF Min

-----------------------------------------------------------------------------
(* One process: HostRateLimiter keeps what the protocol promises.          *)

LocalInv ==
  /\ since \in 0..CrawlDelay /\ blocked \in Nat /\ hostDelay \in {LocalDelay, CrawlDelay}
  /\ spot \in [Callers -> {"idle", "waiting", "sleeping", "asking"}]

\* q is the quiet of a host blocked for b, with delay d, asked s ago.
IsQuiet(q, b, d, s) == q \in Nat /\ q >= b /\ q >= d - s /\ (q = b \/ q = d - s \/ q = 0)
QuietKnown == IsQuiet(TimeUntilReady, blocked, hostDelay, since)

LEMMA QuietIsLargest == LocalInv => QuietKnown
<1> SUFFICES ASSUME LocalInv PROVE QuietKnown
  OBVIOUS
<1>1. blocked \in Int /\ hostDelay - since \in Int /\ 0 \in Int
  BY LocalAssumption DEF LocalInv
<1>2. /\ Max({blocked, hostDelay - since, 0}) \in {blocked, hostDelay - since, 0}
      /\ Max({blocked, hostDelay - since, 0}) >= blocked
      /\ Max({blocked, hostDelay - since, 0}) >= hostDelay - since
      /\ Max({blocked, hostDelay - since, 0}) >= 0
  BY <1>1, LargestOfThree
<1>3. TimeUntilReady \in Int
  BY <1>1, <1>2 DEF TimeUntilReady
<1> QED BY <1>2, <1>3 DEF TimeUntilReady, QuietKnown, IsQuiet

LEMMA QuietGrows ==
  ASSUME NEW b \in Nat, NEW d \in Nat, NEW s \in Nat, NEW q, IsQuiet(q, b, d, s),
         NEW bb \in Nat, NEW dd \in Nat, NEW ss \in Nat, NEW qq, IsQuiet(qq, bb, dd, ss),
         bb >= b, dd >= d, ss <= s
  PROVE  q \in Nat /\ qq \in Nat /\ qq >= q
BY DEF IsQuiet

\* One tick less, one tick more up to the most that is told apart.
Shorter(n) == IF n - 1 >= 0 THEN n - 1 ELSE 0
Longer(n, most) == IF n + 1 <= most THEN n + 1 ELSE most
Faded(n) == IF n = 0 THEN 0 ELSE n - 1

LEMMA QuietFades ==
  ASSUME NEW b \in Nat, NEW d \in Nat, NEW s \in Nat, NEW q, IsQuiet(q, b, d, s),
         NEW most \in Nat, d <= most, s <= most,
         NEW bb \in Nat, NEW ss \in Nat, NEW qq, IsQuiet(qq, bb, d, ss),
         bb = Shorter(b), ss = Longer(s, most)
  PROVE  qq = Faded(q)
BY DEF IsQuiet, Shorter, Longer, Faded

LEMMA QuietAfterPass ==
  ASSUME NEW b \in Nat, NEW d \in Nat, NEW q, IsQuiet(q, b, d, 0)
  PROVE  q \in Nat /\ q >= d
BY DEF IsQuiet

LEMMA LocalStepKeepsInv ==
  ASSUME LocalInv, [LocalNext]_localVars PROVE LocalInv'
<1>1. CASE LocalTick
  <2>1. since' = Min({since + 1, CrawlDelay}) /\ since + 1 \in Int /\ CrawlDelay \in Int
        /\ blocked' = Max({blocked - 1, 0}) /\ blocked - 1 \in Int
    BY <1>1, LocalAssumption DEF LocalTick, LocalInv
  <2>2. since' \in 0..CrawlDelay /\ blocked' \in Nat
    BY <2>1, LargestOfTwo, SmallestOfTwo, LocalAssumption DEF LocalInv
  <2> QED BY <1>1, <2>2 DEF LocalTick, LocalInv
<1>2. ASSUME NEW c \in Callers, PenalizeCaller(c) PROVE LocalInv'
  <2>1. PICK seconds \in Penalties : blocked' = Max({blocked, seconds})
    BY <1>2 DEF PenalizeCaller, UntilLater
  <2>2. blocked' \in Nat
    BY <2>1, LargestOfTwo, LocalAssumption DEF LocalInv
  <2> QED BY <1>2, <2>2 DEF PenalizeCaller, LocalInv, GotoSpot
<1>3. ASSUME NEW c \in Callers,
             \/ BeginFetch(c) \/ PassThrough(c) \/ SleepRound(c) \/ WakeUp(c) \/ GiveUpWaiting(c)
             \/ RecordRedirect(c) \/ CallerAnswered(c)
      PROVE  LocalInv'
  BY <1>3, LocalAssumption DEF BeginFetch, PassThrough, SleepRound, WakeUp, GiveUpWaiting,
    RecordRedirect, CallerAnswered, LocalInv, GotoSpot
<1>4. CASE UNCHANGED localVars
  BY <1>4 DEF localVars, LocalInv
<1> QED BY <1>1, <1>2, <1>3, <1>4 DEF LocalNext

Asking == {c \in Callers : spot[c] = "asking"}

LEMMA LocalStepIsPromised ==
  ASSUME LocalInv, [LocalNext]_localVars
  PROVE  [Promise!FloorNext]_(Promise!floorVars)
<1>1. LocalInv'
  BY LocalStepKeepsInv
<1>2. /\ since \in Nat /\ since' \in Nat /\ blocked \in Nat /\ blocked' \in Nat
      /\ hostDelay \in Nat /\ hostDelay' \in Nat /\ since <= CrawlDelay /\ CrawlDelay \in Nat
      /\ hostDelay <= CrawlDelay /\ hostDelay >= LocalDelay /\ hostDelay' >= LocalDelay
      /\ LocalDelay \in Nat
  BY <1>1, LocalAssumption DEF LocalInv
<1>3. IsQuiet(TimeUntilReady, blocked, hostDelay, since)
  BY QuietIsLargest DEF QuietKnown
<1>4. IsQuiet(TimeUntilReady', blocked', hostDelay', since')
  <2>1. QuietKnown'
    BY <1>1, QuietIsLargest, PTL
  <2> QED BY <2>1 DEF QuietKnown
<1>5. ASSUME Asking' \subseteq Asking, since' <= since, blocked' >= blocked,
             hostDelay' >= hostDelay
      PROVE  Promise!MoreQuiet
  <2>1. TimeUntilReady' \in Nat /\ TimeUntilReady' >= TimeUntilReady
    BY <1>2, <1>3, <1>4, <1>5, QuietGrows
  <2> QED BY <1>5, <2>1 DEF Promise!MoreQuiet, Asking
<1>6. CASE LocalTick
  <2>1. /\ since' = Longer(since, CrawlDelay) /\ blocked' = Shorter(blocked)
        /\ hostDelay' = hostDelay /\ spot' = spot
    BY <1>2, <1>6, LargestOfTwo, SmallestOfTwo DEF LocalTick, Longer, Shorter
  <2>2. TimeUntilReady' = Faded(TimeUntilReady)
    <3>1. hostDelay' = hostDelay /\ IsQuiet(TimeUntilReady', blocked', hostDelay, since')
      BY <1>4, <2>1
    <3> QED BY <1>2, <1>3, <2>1, <3>1, QuietFades
  <2> QED BY <2>1, <2>2 DEF Promise!TimePasses, Promise!FloorNext, Faded
<1>7. ASSUME NEW c \in Callers, PassThrough(c) PROVE Promise!LetThrough(c)
  <2>1. /\ c \notin Asking /\ Asking' = Asking \cup {c} /\ TimeUntilReady = 0
        /\ since' = 0 /\ blocked' = blocked
    BY <1>7 DEF PassThrough, GotoSpot, Asking, LocalInv
  <2>2. TimeUntilReady' \in Nat /\ TimeUntilReady' >= hostDelay'
    BY <1>2, <1>4, <2>1, QuietAfterPass
  <2>3. TimeUntilReady' >= LocalDelay
    BY <1>2, <2>2
  <2> QED BY <2>1, <2>2, <2>3 DEF Promise!LetThrough, Asking
<1>8. ASSUME NEW c \in Callers, PenalizeCaller(c) PROVE Promise!MoreQuiet
  <2>1. PICK seconds \in Penalties : blocked' = Max({blocked, seconds})
    BY <1>8 DEF PenalizeCaller, UntilLater
  <2>2. blocked' >= blocked
    BY <1>2, <2>1, LargestOfTwo, LocalAssumption
  <2>3. Asking' \subseteq Asking /\ since' = since /\ hostDelay' = hostDelay
    BY <1>8 DEF PenalizeCaller, GotoSpot, Asking, LocalInv
  <2> QED BY <1>2, <1>5, <2>2, <2>3
<1>9. ASSUME NEW c \in Callers,
             \/ BeginFetch(c) \/ SleepRound(c) \/ WakeUp(c) \/ GiveUpWaiting(c)
             \/ RecordRedirect(c) \/ CallerAnswered(c)
      PROVE  Promise!MoreQuiet
  <2>1. Asking' \subseteq Asking
    BY <1>9 DEF BeginFetch, SleepRound, WakeUp, GiveUpWaiting, RecordRedirect, CallerAnswered,
      GotoSpot, Asking, LocalInv
  <2>2. since' <= since /\ blocked' >= blocked /\ hostDelay' >= hostDelay
    BY <1>2, <1>9 DEF BeginFetch, SleepRound, WakeUp, GiveUpWaiting, RecordRedirect,
      CallerAnswered
  <2> QED BY <1>5, <2>1, <2>2
<1>10. CASE UNCHANGED localVars
  BY <1>10 DEF localVars, Promise!floorVars, TimeUntilReady
<1> QED BY <1>6, <1>7, <1>8, <1>9, <1>10 DEF LocalNext, Promise!FloorNext

\* However many coroutines of a process wait for one host, and however early
\* their sleeps return: one goes through only when the host is owed no quiet,
\* and nothing that is recorded shortens the quiet.
THEOREM LocalKeepsFloor == LocalSpec => KeepsFloor
<1>1. LocalInit => LocalInv
  BY LocalAssumption DEF LocalInit, LocalInv
<1>2. LocalInit => Promise!FloorInit
  <2>1. ASSUME LocalInit PROVE TimeUntilReady = 0
    BY <1>1, <2>1, QuietIsLargest, LocalAssumption DEF LocalInit, QuietKnown, IsQuiet
  <2>2. ASSUME LocalInit PROVE Asking = {}
    BY <2>2 DEF LocalInit, Asking
  <2> QED BY <2>1, <2>2 DEF Promise!FloorInit, Asking
<1>3. LocalInv /\ [LocalNext]_localVars => LocalInv'
  BY LocalStepKeepsInv
<1>4. LocalInv /\ [LocalNext]_localVars => [Promise!FloorNext]_(Promise!floorVars)
  BY LocalStepIsPromised
<1> QED BY <1>1, <1>2, <1>3, <1>4, PTL DEF LocalSpec, KeepsFloor, Promise!FloorSpec

\* The longest penalty bounds every block.
LEMMA LongestPenalty ==
  /\ Max({0} \cup Penalties) \in Nat
  /\ \A seconds \in Penalties : seconds <= Max({0} \cup Penalties)
<1>1. {0} \cup Penalties \in SUBSET Nat /\ {0} \cup Penalties # {}
  BY LocalAssumption
<1>2. IsFiniteSet({0} \cup Penalties)
  BY LocalAssumption, FS_Singleton, FS_Union
<1> QED BY <1>1, <1>2, GreatestIsThere

LEMMA LocalStepKeepsType ==
  ASSUME LocalTypeOK, [LocalNext]_localVars PROVE LocalTypeOK'
<1> DEFINE most == Max({0} \cup Penalties)
<1>1. most \in Nat /\ \A seconds \in Penalties : seconds \in 0..most
  BY LongestPenalty, LocalAssumption
<1>2. LocalTypeOK => blocked \in 0..most
  BY DEF LocalTypeOK
<1>3. LocalInv /\ LocalInv'
  <2>1. LocalInv
    BY <1>1 DEF LocalTypeOK, LocalInv
  <2> QED BY <2>1, LocalStepKeepsInv
<1> HIDE DEF most
<1>4. blocked' \in 0..most
  <2>1. CASE LocalTick
    <3>1. blocked - 1 \in Int /\ 0 \in Int /\ blocked' = Max({blocked - 1, 0})
      BY <1>1, <1>2, <2>1 DEF LocalTick
    <3> QED BY <1>1, <1>2, <3>1, LargestOfTwo
  <2>2. ASSUME NEW c \in Callers, PenalizeCaller(c) PROVE blocked' \in 0..most
    <3>1. PICK seconds \in Penalties : blocked' = Max({blocked, seconds})
      BY <2>2 DEF PenalizeCaller, UntilLater
    <3>2. blocked \in Int /\ seconds \in Int
      BY <1>1, <1>2
    <3> QED BY <1>1, <1>2, <3>1, <3>2, LargestOfTwo
  <2>3. ASSUME NEW c \in Callers,
               \/ BeginFetch(c) \/ PassThrough(c) \/ SleepRound(c) \/ WakeUp(c) \/ GiveUpWaiting(c)
               \/ RecordRedirect(c) \/ CallerAnswered(c)
        PROVE  blocked' = blocked
    BY <2>3 DEF BeginFetch, PassThrough, SleepRound, WakeUp, GiveUpWaiting, RecordRedirect, CallerAnswered
  <2>4. CASE UNCHANGED localVars
    BY <1>2, <2>4 DEF localVars
  <2> QED BY <1>2, <2>1, <2>2, <2>3, <2>4 DEF LocalNext
<1>5. /\ rounds' \in [Callers -> 0..MaxRounds]
      /\ \A c \in Callers : spot'[c] \in {"idle", "asking"} => rounds'[c] = 0
  BY LocalAssumption DEF LocalTypeOK, LocalNext, localVars, LocalTick, BeginFetch, PassThrough,
    SleepRound, WakeUp, GiveUpWaiting, RecordRedirect, PenalizeCaller, CallerAnswered, GotoSpot
<1> QED BY <1>3, <1>4, <1>5 DEF LocalTypeOK, LocalInv, most

\* No counter of a process leaves its bounds: a host is blocked no longer than
\* the longest penalty, a coroutine sleeps no more rounds than it may, and one
\* that is not waiting has none to its name.
THEOREM LocalTypeCorrect == LocalSpec => []LocalTypeOK
<1>1. LocalInit => LocalTypeOK
  BY LocalAssumption, LongestPenalty DEF LocalInit, LocalTypeOK
<1> QED BY <1>1, LocalStepKeepsType, PTL DEF LocalSpec

-----------------------------------------------------------------------------
(* All workers: the slots of a host.                                       *)

SlotType == [at : Int, by : Fetchers, gap : Nat \ {0}]

HostTypes ==
  /\ owed \in [Hosts -> Nat] /\ delay \in [Hosts -> Nat] /\ quiet \in [Hosts -> Nat]
  /\ asked \in [Hosts -> Nat] /\ hint \in [Fetchers -> [Hosts -> Nat]]
  /\ phase \in [Fetchers -> Phases] /\ host \in [Fetchers -> Hosts \cup {NoHost}]
  /\ slots \in [Hosts -> SUBSET SlotType]
  /\ \A w \in Fetchers : phase[w] # "free" => host[w] \in Hosts

\* No delay in use is below the floor, and none below what is recorded.
DelaysHold ==
  /\ \A h \in Hosts : asked[h] <= delay[h]
  /\ \A w \in Fetchers : \A h \in Hosts : hint[w][h] = 0 \/ hint[w][h] >= Floor[h]
  /\ \A w \in Fetchers : phase[w] = "robots" => SiteDelay[host[w]] >= Floor[host[w]]

\* The marker is past every slot, with its gap.
MarkerIsLast == \A h \in Hosts : \A s \in slots[h] : s.at + s.gap <= owed[h]

HostInv == HostTypes /\ DelaysHold /\ MarkerIsLast /\ SlotsApart /\ PenaltyKept

\* The reservations of this window, and those of the window before.
ThisWindow == TakenSince(age)
WindowBefore == taken \ ThisWindow

BudgetInv ==
  /\ IsFiniteSet(taken) /\ taken \subseteq [ago : 0..Window, nth : Nat]
  /\ \A t \in taken : t.ago = 0 => t.nth <= Cardinality(TakenSince(0))
  /\ age \in 0..Window + 1 /\ requests \in 0..Budget
  /\ age <= Window => requests = Cardinality(ThisWindow)
  /\ age > Window => \A t \in taken : t.ago # 0
  /\ Cardinality(ThisWindow) <= Budget /\ Cardinality(WindowBefore) <= Budget

HostStays == UNCHANGED <<owed, delay, slots, quiet, asked>>

LEMMA DelayIsFloor ==
  ASSUME HostTypes, DelaysHold, NEW w \in Fetchers, NEW h \in Hosts
  PROVE  DelayFor(w, h) \in Nat /\ DelayFor(w, h) >= Floor[h]
<1>1. hint[w][h] \in Nat /\ Floor[h] \in Nat /\ (hint[w][h] = 0 \/ hint[w][h] >= Floor[h])
  BY HostAssumption DEF HostTypes, DelaysHold
<1> QED BY <1>1 DEF DelayFor

\* The gap a slot gets is no less than the floor and than any delay a site asked for.
LEMMA GapIsEnough ==
  ASSUME HostTypes, DelaysHold, NEW w \in Fetchers, NEW h \in Hosts
  PROVE  /\ Gap(w, h) \in Nat /\ Gap(w, h) >= delay[h]
         /\ Greatest({Floor[h], asked[h]}) \in Nat
         /\ Gap(w, h) >= Greatest({Floor[h], asked[h]})
         /\ Greatest({Floor[h], asked[h]}) >= 1
<1>1. /\ delay[h] \in Nat /\ asked[h] \in Nat /\ asked[h] <= delay[h]
      /\ Floor[h] \in Nat /\ Floor[h] >= 1
  BY HostAssumption DEF HostTypes, DelaysHold
<1>2. DelayFor(w, h) \in Nat /\ DelayFor(w, h) >= Floor[h]
  BY DelayIsFloor
<1>3. Gap(w, h) = IF delay[h] >= DelayFor(w, h) THEN delay[h] ELSE DelayFor(w, h)
  BY <1>1, <1>2, LargestOfTwo DEF Gap, Greatest
<1>4. Greatest({Floor[h], asked[h]}) = IF Floor[h] >= asked[h] THEN Floor[h] ELSE asked[h]
  BY <1>1, LargestOfTwo DEF Greatest
<1> QED BY <1>1, <1>2, <1>3, <1>4

\* A slot is put at the marker, past all the others, and the marker past it.
LEMMA TakeKeepsApart ==
  ASSUME HostInv, NEW w \in Fetchers, NEW h \in Hosts, Take(w, h), UNCHANGED quiet
  PROVE  /\ owed' \in [Hosts -> Nat] /\ slots' \in [Hosts -> SUBSET SlotType]
         /\ MarkerIsLast' /\ SlotsApart' /\ PenaltyKept'
<1> DEFINE gap == Greatest({Floor[h], asked[h]})
           new == [at |-> owed[h], by |-> w, gap |-> gap]
<1>1. HostTypes /\ DelaysHold /\ MarkerIsLast /\ SlotsApart /\ PenaltyKept
  BY DEF HostInv
<1>2. Gap(w, h) \in Nat /\ gap \in Nat /\ gap >= 1 /\ Gap(w, h) >= gap
  BY <1>1, GapIsEnough
<1>3. owed[h] \in Nat /\ owed \in [Hosts -> Nat] /\ slots \in [Hosts -> SUBSET SlotType]
  BY <1>1 DEF HostTypes
<1>4. /\ owed' = [owed EXCEPT ![h] = owed[h] + Gap(w, h)]
      /\ slots' = [slots EXCEPT ![h] = slots[h] \cup {new}]
  BY DEF Take
<1>5. new \in SlotType /\ new.at = owed[h] /\ new.gap = gap
  BY <1>2, <1>3 DEF SlotType
<1> HIDE DEF new, gap
<1>6. owed' \in [Hosts -> Nat] /\ slots' \in [Hosts -> SUBSET SlotType]
  BY <1>2, <1>3, <1>4, <1>5
<1>7. \A k \in Hosts : /\ k # h => owed'[k] = owed[k] /\ slots'[k] = slots[k]
                       /\ k = h => /\ owed'[k] = owed[h] + Gap(w, h)
                                   /\ slots'[k] = slots[h] \cup {new}
  BY <1>3, <1>4
<1>8. \A s \in slots[h] : s.at \in Int /\ s.gap \in Nat /\ s.at + s.gap <= owed[h]
  BY <1>1, <1>3 DEF MarkerIsLast, SlotType
<1>9. ASSUME NEW k \in Hosts, NEW s \in slots'[k] PROVE s.at + s.gap <= owed'[k]
  <2>1. CASE k # h
    BY <1>1, <1>7, <1>9, <2>1 DEF MarkerIsLast
  <2>2. CASE k = h /\ s = new
    BY <1>2, <1>3, <1>5, <1>7, <2>2
  <2>3. CASE k = h /\ s \in slots[h]
    BY <1>2, <1>3, <1>7, <1>8, <2>3
  <2> QED BY <1>7, <1>9, <2>1, <2>2, <2>3
<1>10. ASSUME NEW k \in Hosts, NEW a \in slots'[k], NEW b \in slots'[k], a # b
       PROVE  a.at + a.gap <= b.at \/ b.at + b.gap <= a.at
  <2>1. CASE k # h \/ (a \in slots[h] /\ b \in slots[h])
    BY <1>1, <1>7, <1>10, <2>1 DEF SlotsApart
  <2>2. CASE k = h /\ a \in slots[h] /\ b = new
    BY <1>5, <1>8, <2>2
  <2>3. CASE k = h /\ b \in slots[h] /\ a = new
    BY <1>5, <1>8, <2>3
  <2> QED BY <1>7, <1>10, <2>1, <2>2, <2>3
<1>11. ASSUME NEW k \in Hosts PROVE quiet'[k] <= owed'[k]
  <2>1. quiet[k] \in Nat /\ owed[k] \in Nat /\ quiet[k] <= owed[k] /\ quiet' = quiet
    BY <1>1 DEF HostTypes, PenaltyKept
  <2> QED BY <1>2, <1>7, <2>1
<1> QED BY <1>6, <1>9, <1>10, <1>11 DEF MarkerIsLast, SlotsApart, PenaltyKept

\* Time brings every instant one step nearer, so that what was apart stays apart.
LEMMA TickKeepsHostInv ==
  ASSUME HostInv, HostTick
  PROVE  HostInv'
<1>1. HostTypes /\ DelaysHold /\ MarkerIsLast /\ SlotsApart /\ PenaltyKept
  BY DEF HostInv
<1>2. /\ owed' = [h \in Hosts |-> Less(owed[h])] /\ quiet' = [h \in Hosts |-> Less(quiet[h])]
      /\ slots' = [h \in Hosts |-> {[s EXCEPT !.at = @ - 1] : s \in
                                     {s \in slots[h] : s.at + s.gap > 1}}]
      /\ UNCHANGED <<delay, hint, asked, phase, host>>
  BY DEF HostTick
<1>3. \A h \in Hosts : /\ owed[h] \in Nat /\ quiet[h] \in Nat /\ quiet[h] <= owed[h]
                       /\ Less(owed[h]) \in Nat /\ Less(quiet[h]) \in Nat
                       /\ Less(quiet[h]) <= Less(owed[h])
  BY <1>1 DEF HostTypes, PenaltyKept, Less
<1>4. ASSUME NEW h \in Hosts, NEW t \in slots'[h]
      PROVE  \E s \in slots[h] :
               /\ s \in SlotType /\ t = [at |-> s.at - 1, by |-> s.by, gap |-> s.gap]
               /\ s.at + s.gap > 1 /\ s.at + s.gap <= owed[h]
  <2>1. PICK s \in slots[h] : s.at + s.gap > 1 /\ t = [s EXCEPT !.at = s.at - 1]
    BY <1>2, <1>4
  <2>2. s \in SlotType /\ s.at + s.gap <= owed[h]
    BY <1>1 DEF HostTypes, MarkerIsLast
  <2> QED BY <2>1, <2>2 DEF SlotType
<1>5. slots' \in [Hosts -> SUBSET SlotType]
  <2>1. ASSUME NEW h \in Hosts, NEW t \in slots'[h] PROVE t \in SlotType
    BY <1>4, <2>1 DEF SlotType
  <2> QED BY <1>2, <2>1
<1>6. HostTypes'
  BY <1>1, <1>2, <1>3, <1>5 DEF HostTypes
<1>7. DelaysHold'
  BY <1>1, <1>2 DEF DelaysHold
<1>8. ASSUME NEW h \in Hosts, NEW t \in slots'[h] PROVE t.at + t.gap <= owed'[h]
  <2>1. PICK s \in slots[h] :
               /\ s \in SlotType /\ t = [at |-> s.at - 1, by |-> s.by, gap |-> s.gap]
               /\ s.at + s.gap > 1 /\ s.at + s.gap <= owed[h]
    BY <1>4, <1>8
  <2>2. t.at = s.at - 1 /\ t.gap = s.gap /\ s.at \in Int /\ s.gap \in Nat
    BY <2>1 DEF SlotType
  <2>3. owed'[h] = owed[h] - 1
    BY <1>2, <1>3, <2>1, <2>2 DEF Less
  <2> QED BY <1>3, <2>1, <2>2, <2>3
<1>9. ASSUME NEW h \in Hosts, NEW a \in slots'[h], NEW b \in slots'[h], a # b
      PROVE  a.at + a.gap <= b.at \/ b.at + b.gap <= a.at
  <2>1. PICK s \in slots[h] : s \in SlotType /\ a = [at |-> s.at - 1, by |-> s.by, gap |-> s.gap]
    BY <1>4, <1>9
  <2>2. PICK t \in slots[h] : t \in SlotType /\ b = [at |-> t.at - 1, by |-> t.by, gap |-> t.gap]
    BY <1>4, <1>9
  <2>3. s.at + s.gap <= t.at \/ t.at + t.gap <= s.at
    BY <1>1, <1>9, <2>1, <2>2 DEF SlotsApart
  <2> QED BY <2>1, <2>2, <2>3 DEF SlotType
<1>10. PenaltyKept'
  BY <1>2, <1>3 DEF PenaltyKept
<1> QED BY <1>6, <1>7, <1>8, <1>9, <1>10 DEF HostInv, MarkerIsLast, SlotsApart

LEMMA HostStepKeepsInv ==
  ASSUME HostInv, [HostNext]_slotVars
  PROVE  HostInv'
<1>1. HostTypes /\ DelaysHold /\ MarkerIsLast /\ SlotsApart /\ PenaltyKept
  BY DEF HostInv
<1>2. ASSUME HostStays, HostTypes', DelaysHold' PROVE HostInv'
  BY <1>1, <1>2 DEF HostInv, HostStays, MarkerIsLast, SlotsApart, PenaltyKept
<1>3. ASSUME NEW w \in Fetchers, Acquire(w) \/ AcquireHop(w) PROVE HostInv'
  <2>1. host[w] \in Hosts
    BY <1>1, <1>3 DEF Acquire, AcquireHop, HostTypes
  <2>2. /\ Take(w, host[w]) /\ delay' = [delay EXCEPT ![host[w]] = Gap(w, host[w])]
        /\ UNCHANGED <<hint, quiet, asked, host>> /\ phase' = [phase EXCEPT ![w] = "sleeping"]
    BY <1>3 DEF Acquire, AcquireHop, Reserve, GotoPhase
  <2>3. Gap(w, host[w]) \in Nat /\ Gap(w, host[w]) >= delay[host[w]]
    BY <1>1, <2>1, GapIsEnough
  <2>4. /\ owed' \in [Hosts -> Nat] /\ slots' \in [Hosts -> SUBSET SlotType]
        /\ MarkerIsLast' /\ SlotsApart' /\ PenaltyKept'
    BY <2>1, <2>2, TakeKeepsApart
  <2>5. HostTypes'
    BY <1>1, <2>1, <2>2, <2>3, <2>4 DEF HostTypes, Phases
  <2>6. \A h \in Hosts : asked'[h] <= delay'[h]
    BY <1>1, <2>1, <2>2, <2>3 DEF DelaysHold, HostTypes
  <2>7. DelaysHold'
    BY <1>1, <2>2, <2>6 DEF DelaysHold, HostTypes
  <2> QED BY <2>4, <2>5, <2>7 DEF HostInv
<1>4. ASSUME NEW w \in Fetchers, RecordHop(w) PROVE HostInv'
  <2>1. host[w] \in Hosts
    BY <1>1, <1>4 DEF RecordHop, OnTheWire, HostTypes
  <2>2. Take(w, host[w]) /\ UNCHANGED <<delay, hint, quiet, asked, phase, host>>
    BY <1>4 DEF RecordHop
  <2>3. /\ owed' \in [Hosts -> Nat] /\ slots' \in [Hosts -> SUBSET SlotType]
        /\ MarkerIsLast' /\ SlotsApart' /\ PenaltyKept'
    BY <2>1, <2>2, TakeKeepsApart
  <2>4. HostTypes' /\ DelaysHold'
    BY <1>1, <2>2, <2>3 DEF HostTypes, DelaysHold
  <2> QED BY <2>3, <2>4 DEF HostInv
<1>5. ASSUME NEW w \in Fetchers, RaiseDelay(w) PROVE HostInv'
  <2> DEFINE h == host[w]
             new == Greatest({delay[h], SiteDelay[h]})
             most == Greatest({asked[h], SiteDelay[h]})
  <2>1. h \in Hosts /\ SiteDelay[h] >= Floor[h] /\ SiteDelay[h] \in Nat
    BY <1>1, <1>5, HostAssumption DEF RaiseDelay, HostTypes, DelaysHold
  <2>2. /\ delay' = [delay EXCEPT ![h] = new] /\ asked' = [asked EXCEPT ![h] = most]
        /\ hint' = [hint EXCEPT ![w][h] = SiteDelay[h]]
        /\ phase' = [phase EXCEPT ![w] = "reserving"] /\ UNCHANGED <<owed, slots, quiet, host>>
    BY <1>5 DEF RaiseDelay, GotoPhase
  <2>3. new \in Nat /\ most \in Nat /\ most <= new
    <3>1. delay[h] \in Nat /\ asked[h] \in Nat /\ asked[h] <= delay[h]
      BY <1>1, <2>1 DEF HostTypes, DelaysHold
    <3>2. /\ new = IF delay[h] >= SiteDelay[h] THEN delay[h] ELSE SiteDelay[h]
          /\ most = IF asked[h] >= SiteDelay[h] THEN asked[h] ELSE SiteDelay[h]
      BY <2>1, <3>1, LargestOfTwo DEF Greatest
    <3> QED BY <2>1, <3>1, <3>2
  <2> HIDE DEF new, most, h
  <2>4. h = host[w] /\ hint \in [Fetchers -> [Hosts -> Nat]]
    BY <1>1 DEF h, HostTypes
  <2>5. HostTypes'
    <3>1. /\ delay' \in [Hosts -> Nat] /\ asked' \in [Hosts -> Nat]
          /\ hint' \in [Fetchers -> [Hosts -> Nat]] /\ phase' \in [Fetchers -> Phases]
      BY <1>1, <2>1, <2>2, <2>3, <2>4 DEF HostTypes, Phases
    <3>2. \A v \in Fetchers : phase'[v] # "free" => host'[v] \in Hosts
      BY <1>1, <2>1, <2>2, <2>4 DEF HostTypes
    <3> QED BY <1>1, <2>2, <3>1, <3>2 DEF HostTypes
  <2>6. \A k \in Hosts : asked'[k] <= delay'[k]
    BY <1>1, <2>1, <2>2, <2>3 DEF DelaysHold, HostTypes
  <2>7. \A v \in Fetchers : \A k \in Hosts : hint'[v][k] = 0 \/ hint'[v][k] >= Floor[k]
    BY <1>1, <2>1, <2>2, <2>4 DEF DelaysHold
  <2>8. \A v \in Fetchers : phase'[v] = "robots" => SiteDelay[host'[v]] >= Floor[host'[v]]
    BY <1>1, <2>2 DEF DelaysHold, HostTypes
  <2> QED BY <1>1, <2>2, <2>5, <2>6, <2>7, <2>8
       DEF HostInv, DelaysHold, MarkerIsLast, SlotsApart, PenaltyKept
<1>6. ASSUME NEW w \in Fetchers, PenalizeHost(w) PROVE HostInv'
  <2> DEFINE h == host[w]
  <2>1. PICK seconds \in Backoffs :
          /\ owed' = [owed EXCEPT ![h] = Penalty(h, seconds)]
          /\ quiet' = [quiet EXCEPT ![h] = Greatest({quiet[h], seconds})]
    BY <1>6 DEF PenalizeHost
  <2>2. h \in Hosts /\ UNCHANGED <<delay, hint, slots, asked>>
        /\ phase' = [phase EXCEPT ![w] = "free"] /\ host' = [host EXCEPT ![w] = NoHost]
    BY <1>1, <1>6 DEF PenalizeHost, OnTheWire, FinishFetch, GotoPhase, HostTypes
  <2>3. seconds \in Nat /\ owed[h] \in Nat /\ quiet[h] \in Nat /\ quiet[h] <= owed[h]
    BY <1>1, <2>2, HostAssumption DEF HostTypes, PenaltyKept
  <2>4. /\ Penalty(h, seconds) = IF owed[h] >= seconds THEN owed[h] ELSE seconds
        /\ Greatest({quiet[h], seconds}) = IF quiet[h] >= seconds THEN quiet[h] ELSE seconds
    BY <2>3, LargestOfTwo DEF Penalty, Greatest
  <2> HIDE DEF h
  <2>5. HostTypes'
    BY <1>1, <2>1, <2>2, <2>3, <2>4 DEF HostTypes, Phases
  <2>6. DelaysHold'
    BY <1>1, <2>2 DEF DelaysHold, HostTypes
  <2>7. \A k \in Hosts : owed'[k] >= owed[k] /\ quiet'[k] <= owed'[k]
    BY <1>1, <2>1, <2>2, <2>3, <2>4 DEF HostTypes, PenaltyKept
  <2>8. MarkerIsLast'
    <3>1. ASSUME NEW k \in Hosts, NEW s \in slots[k] PROVE s.at + s.gap <= owed'[k]
      <4>1. s.at + s.gap <= owed[k] /\ s.at \in Int /\ s.gap \in Nat
        BY <1>1, <3>1 DEF MarkerIsLast, HostTypes, SlotType
      <4>2. owed[k] \in Nat /\ owed'[k] \in Nat /\ owed'[k] >= owed[k]
        BY <1>1, <2>5, <2>7 DEF HostTypes
      <4> QED BY <4>1, <4>2
    <3> QED BY <2>2, <3>1 DEF MarkerIsLast
  <2> QED BY <1>1, <2>2, <2>5, <2>6, <2>7, <2>8 DEF HostInv, SlotsApart, PenaltyKept
<1>7. ASSUME NEW w \in Fetchers, CheckRobots(w) PROVE HostInv'
  <2>1. HostStays /\ UNCHANGED <<hint, host>> /\ host[w] \in Hosts
    BY <1>1, <1>7 DEF CheckRobots, HostStays, hostVars, HostTypes
  <2>2. phase' = [phase EXCEPT ![w] = IF SiteDelay[host[w]] > DelayFor(w, host[w])
                                      THEN "robots" ELSE "reserving"]
    BY <1>7 DEF CheckRobots, GotoPhase
  <2>3. HostTypes'
    BY <1>1, <2>1, <2>2 DEF HostTypes, HostStays, Phases
  <2>4. DelayFor(w, host[w]) \in Nat /\ DelayFor(w, host[w]) >= Floor[host[w]]
        /\ Floor[host[w]] \in Nat /\ SiteDelay[host[w]] \in Nat
    BY <1>1, <2>1, DelayIsFloor, HostAssumption
  <2>5. phase'[w] = "robots" => SiteDelay[host[w]] >= Floor[host[w]]
    BY <1>1, <2>2, <2>4 DEF HostTypes
  <2>6. DelaysHold'
    BY <1>1, <2>1, <2>2, <2>5 DEF DelaysHold, HostStays, HostTypes
  <2> QED BY <1>2, <2>1, <2>3, <2>6
<1>8. ASSUME NEW w \in Fetchers,
             \/ \E h \in Hosts : Peek(w, h) \/ CrossHost(w, h)
             \/ Refused(w) \/ CountRequest(w) \/ BudgetSpent(w) \/ Send(w) \/ FetchAnswered(w)
             \/ Restart(w)
      PROVE  HostInv'
  <2>1. HostStays
    BY <1>8 DEF Peek, CrossHost, Refused, CountRequest, BudgetSpent, Send, FetchAnswered, Restart,
      HostStays, hostVars
  <2>2. \/ hint' = hint
        \/ hint' = [hint EXCEPT ![w] = [h \in Hosts |-> 0]]
    BY <1>8 DEF Peek, CrossHost, Refused, CountRequest, BudgetSpent, Send, FetchAnswered, Restart,
      hostVars
  <2>3. \/ phase' = [phase EXCEPT ![w] = "free"] /\ host' = [host EXCEPT ![w] = NoHost]
        \/ \E h \in Hosts, p \in Phases \ {"robots"} :
             phase' = [phase EXCEPT ![w] = p] /\ host' = [host EXCEPT ![w] = h]
    <3>1. ASSUME NEW h \in Hosts, Peek(w, h) \/ CrossHost(w, h)
          PROVE  \E p \in Phases \ {"robots"} :
                   phase' = [phase EXCEPT ![w] = p] /\ host' = [host EXCEPT ![w] = h]
      BY <3>1 DEF Peek, CrossHost, GotoPhase, Phases
    <3>2. CASE Refused(w) \/ BudgetSpent(w) \/ FetchAnswered(w) \/ Restart(w)
      BY <3>2 DEF Refused, BudgetSpent, FetchAnswered, Restart, FinishFetch, GotoPhase
    <3>3. CASE CountRequest(w) \/ Send(w)
      <4>1. host[w] \in Hosts /\ host' = [host EXCEPT ![w] = host[w]]
        BY <1>1, <3>3 DEF CountRequest, Send, HostTypes
      <4>2. \E p \in Phases \ {"robots"} : phase' = [phase EXCEPT ![w] = p]
        BY <3>3 DEF CountRequest, Send, GotoPhase, Phases
      <4> QED BY <4>1, <4>2
    <3> QED BY <1>8, <3>1, <3>2, <3>3
  <2>4. HostTypes'
    <3>1. hint' \in [Fetchers -> [Hosts -> Nat]]
      BY <1>1, <2>2 DEF HostTypes
    <3>2. phase' \in [Fetchers -> Phases] /\ host' \in [Fetchers -> Hosts \cup {NoHost}]
      BY <1>1, <2>3 DEF HostTypes, Phases
    <3>3. \A v \in Fetchers : phase'[v] # "free" => host'[v] \in Hosts
      BY <1>1, <2>3 DEF HostTypes
    <3> QED BY <1>1, <2>1, <3>1, <3>2, <3>3 DEF HostTypes, HostStays
  <2>5. DelaysHold'
    <3>1. \A v \in Fetchers : \A h \in Hosts : hint'[v][h] = 0 \/ hint'[v][h] >= Floor[h]
      BY <1>1, <2>2 DEF HostTypes, DelaysHold
    <3>2. \A v \in Fetchers : phase'[v] = "robots" => SiteDelay[host'[v]] >= Floor[host'[v]]
      BY <1>1, <2>3 DEF HostTypes, DelaysHold
    <3> QED BY <1>1, <2>1, <3>1, <3>2 DEF DelaysHold, HostStays
  <2> QED BY <1>2, <2>1, <2>4, <2>5
<1>9. CASE UNCHANGED slotVars
  BY <1>1, <1>9 DEF slotVars, hostVars, fetchVars, HostInv, HostTypes, DelaysHold, MarkerIsLast,
    SlotsApart, PenaltyKept
<1>10. CASE HostTick
  BY <1>10, TickKeepsHostInv
<1> QED BY <1>3, <1>4, <1>5, <1>6, <1>7, <1>8, <1>9, <1>10, Zenon DEF HostNext, FetchStep

-----------------------------------------------------------------------------
(* All workers: the ceiling on requests.                                   *)

Stamp == [ago : Int, nth : Nat]
Aged(S) == {[t EXCEPT !.ago = @ + 1] : t \in S}

\* Time ages reservations, and keeps apart and counts what it keeps.
LEMMA AgeingCounts ==
  ASSUME NEW S \in SUBSET Stamp, IsFiniteSet(S)
  PROVE  IsFiniteSet(Aged(S)) /\ Cardinality(Aged(S)) = Cardinality(S)
<1> DEFINE f == [t \in S |-> [t EXCEPT !.ago = @ + 1]]
<1>1. f \in Surjection(S, Aged(S))
  BY DEF Surjection, Aged
<1>2. \A s, t \in S : f[s] = f[t] => s = t
  <2> SUFFICES ASSUME NEW s \in S, NEW t \in S, f[s] = f[t] PROVE s = t
    OBVIOUS
  <2>1. /\ s \in Stamp /\ t \in Stamp
        /\ f[s] = [ago |-> s.ago + 1, nth |-> s.nth]
        /\ f[t] = [ago |-> t.ago + 1, nth |-> t.nth]
    BY DEF Stamp
  <2>2. s.ago + 1 = t.ago + 1 /\ s.nth = t.nth
    BY <2>1
  <2> QED BY <2>1, <2>2 DEF Stamp
<1>3. f \in Injection(S, Aged(S))
  BY <1>1, <1>2 DEF Surjection, Injection, IsInjective
<1> QED BY <1>1, <1>3, FS_Surjection

LEMMA BudgetStepKeepsInv ==
  ASSUME BudgetInv, [HostNext]_slotVars
  PROVE  BudgetInv'
<1> DEFINE now == TakenSince(0)
<1>1. /\ IsFiniteSet(taken) /\ taken \subseteq Stamp /\ Window \in Nat /\ Budget \in Nat
      /\ age \in 0..Window + 1 /\ requests \in 0..Budget
      /\ \A t \in taken : t.ago \in 0..Window /\ t.nth \in Nat
  BY HostAssumption DEF BudgetInv, Stamp
<1>2. IsFiniteSet(now) /\ Cardinality(now) \in Nat /\ now \subseteq taken
  BY <1>1, FS_Subset, FS_CardinalityType DEF TakenSince
<1>3. /\ IsFiniteSet(ThisWindow) /\ Cardinality(ThisWindow) \in Nat /\ ThisWindow \subseteq taken
      /\ IsFiniteSet(WindowBefore) /\ Cardinality(WindowBefore) \in Nat
      /\ WindowBefore \subseteq taken
  BY <1>1, FS_Subset, FS_CardinalityType DEF ThisWindow, WindowBefore, TakenSince
<1>4. /\ \A t \in taken : t.ago = 0 => t.nth <= Cardinality(now)
      /\ age <= Window => requests = Cardinality(ThisWindow)
      /\ age > Window => \A t \in taken : t.ago # 0
      /\ Cardinality(ThisWindow) <= Budget /\ Cardinality(WindowBefore) <= Budget
  BY DEF BudgetInv
<1>5. CASE UNCHANGED budgetVars
  BY <1>5 DEF budgetVars, BudgetInv, ThisWindow, WindowBefore, TakenSince
<1>6. CASE HostTick
  <2> DEFINE kept == {t \in taken : t.ago < Window}
  <2>1. /\ taken' = Aged(kept) /\ requests' = requests
        /\ age' = IF age > Window THEN age ELSE age + 1
    BY <1>6 DEF HostTick, Aged
  <2>2. IsFiniteSet(kept) /\ kept \in SUBSET Stamp
    BY <1>1, FS_Subset
  <2>3. IsFiniteSet(taken') /\ Cardinality(taken') = Cardinality(kept)
    BY <2>1, <2>2, AgeingCounts
  <2>4. \A t \in taken' : \E s \in kept : t = [ago |-> s.ago + 1, nth |-> s.nth]
    BY <2>1, <2>2 DEF Aged, Stamp
  <2>5. \A t \in taken' : t.ago \in 1..Window /\ t.nth \in Nat /\ t \in [ago : 0..Window, nth : Nat]
    <3> SUFFICES ASSUME NEW t \in taken'
                 PROVE  t.ago \in 1..Window /\ t.nth \in Nat /\ t \in [ago : 0..Window, nth : Nat]
      OBVIOUS
    <3>1. PICK s \in kept : t = [ago |-> s.ago + 1, nth |-> s.nth]
      BY <2>4
    <3>2. s.ago \in 0..Window /\ s.ago < Window /\ s.nth \in Nat
      BY <1>1
    <3> QED BY <1>1, <3>1, <3>2
  <2>6. age' \in 0..Window + 1
    BY <1>1, <2>1
  <2>7. CASE age < Window
    <3> DEFINE before == kept \cap WindowBefore
    <3>1. age' = age + 1 /\ age' <= Window
      BY <1>1, <2>1, <2>7
    <3>2. ThisWindow \subseteq kept /\ kept = ThisWindow \cup before
      BY <1>1, <2>7 DEF ThisWindow, WindowBefore, TakenSince
    <3>3. ThisWindow' = Aged(ThisWindow)
      <4>1. ASSUME NEW t \in ThisWindow' PROVE t \in Aged(ThisWindow)
        <5>1. t \in taken' /\ t.ago <= age + 1
          BY <3>1, <4>1 DEF ThisWindow, TakenSince
        <5>2. PICK s \in kept : t = [s EXCEPT !.ago = @ + 1]
          BY <2>1, <5>1 DEF Aged
        <5>3. s \in Stamp /\ t = [ago |-> s.ago + 1, nth |-> s.nth]
          BY <2>2, <5>2 DEF Stamp
        <5>4. s.ago <= age
          BY <1>1, <5>1, <5>3 DEF Stamp
        <5> QED BY <5>2, <5>4 DEF Aged, ThisWindow, TakenSince
      <4>2. ASSUME NEW t \in Aged(ThisWindow) PROVE t \in ThisWindow'
        <5>1. PICK s \in ThisWindow : t = [s EXCEPT !.ago = @ + 1]
          BY <4>2 DEF Aged
        <5>2. s \in Stamp /\ t = [ago |-> s.ago + 1, nth |-> s.nth] /\ s.ago <= age
          BY <1>1, <1>3, <5>1 DEF Stamp, ThisWindow, TakenSince
        <5>3. t \in taken'
          BY <2>1, <3>2, <5>1 DEF Aged
        <5>4. t.ago <= age'
          BY <1>1, <3>1, <5>2 DEF Stamp
        <5> QED BY <5>3, <5>4 DEF ThisWindow, TakenSince
      <4> QED BY <4>1, <4>2
    <3>4. Cardinality(ThisWindow') = Cardinality(ThisWindow)
      BY <1>1, <1>3, <3>3, AgeingCounts
    <3>5. WindowBefore' \subseteq Aged(before)
      <4> SUFFICES ASSUME NEW t \in WindowBefore' PROVE t \in Aged(before)
        OBVIOUS
      <4>1. t \in taken' /\ t \notin ThisWindow'
        BY DEF WindowBefore
      <4>2. PICK s \in kept : t = [s EXCEPT !.ago = @ + 1]
        BY <2>1, <4>1 DEF Aged
      <4>3. s \notin ThisWindow
        BY <3>3, <4>1, <4>2 DEF Aged
      <4> QED BY <3>2, <4>2, <4>3 DEF Aged
    <3>6. Cardinality(WindowBefore') <= Budget
      <4>1. IsFiniteSet(before) /\ before \in SUBSET Stamp /\ Cardinality(before) <= Cardinality(WindowBefore)
            /\ Cardinality(before) \in Nat
        BY <1>1, <1>3, FS_Subset, FS_CardinalityType
      <4>2. IsFiniteSet(Aged(before)) /\ Cardinality(Aged(before)) = Cardinality(before)
        BY <4>1, AgeingCounts
      <4>3. Cardinality(WindowBefore') <= Cardinality(Aged(before)) /\ IsFiniteSet(WindowBefore')
        BY <3>5, <4>2, FS_Subset
      <4>4. Cardinality(WindowBefore') \in Nat
        BY <4>3, FS_CardinalityType
      <4> QED BY <1>1, <1>3, <1>4, <4>1, <4>2, <4>3, <4>4
    <3>7. requests' = Cardinality(ThisWindow') /\ requests' \in 0..Budget
      BY <1>1, <1>4, <2>1, <2>7, <3>4
    <3> QED BY <1>1, <1>4, <2>3, <2>5, <2>6, <3>1, <3>4, <3>6, <3>7 DEF BudgetInv
  <2>8. CASE age >= Window
    <3>1. age' = Window + 1
      BY <1>1, <2>1, <2>8
    <3>2. ThisWindow' = taken' /\ WindowBefore' = {}
      BY <1>1, <2>5, <3>1 DEF ThisWindow, WindowBefore, TakenSince
    <3>3. kept \in SUBSET ThisWindow
      BY <1>1, <2>8 DEF ThisWindow, TakenSince
    <3>4. Cardinality(kept) <= Cardinality(ThisWindow) /\ Cardinality(kept) \in Nat
      BY <1>3, <2>2, <3>3, FS_Subset, FS_CardinalityType
    <3>5. Cardinality(ThisWindow') <= Budget /\ Cardinality(WindowBefore') <= Budget
      BY <1>1, <1>3, <1>4, <2>3, <3>2, <3>4, FS_EmptySet
    <3>6. requests' \in 0..Budget /\ ~(age' <= Window)
      BY <1>1, <2>1, <3>1
    <3> QED BY <1>1, <2>3, <2>5, <2>6, <3>5, <3>6 DEF BudgetInv
  <2> QED BY <1>1, <2>7, <2>8
<1>7. CASE ReserveRequest /\ Budget > 0
  <2> DEFINE new == [ago |-> 0, nth |-> Cardinality(now) + 1]
  <2>1. /\ taken' = taken \cup {new} /\ requests' = RolledCount
        /\ age' = IF Lapsed THEN 0 ELSE age
    BY <1>7 DEF ReserveRequest
  <2>2. new \in Stamp /\ new \notin taken /\ new.ago = 0 /\ new.nth = Cardinality(now) + 1
        /\ new \in [ago : 0..Window, nth : Nat]
    BY <1>1, <1>2, <1>4 DEF Stamp
  <2> HIDE DEF new
  <2>3. taken' \subseteq [ago : 0..Window, nth : Nat] /\ IsFiniteSet(taken')
    BY <1>1, <2>1, <2>2, FS_AddElement DEF BudgetInv
  <2>4. now' = now \cup {new}
    BY <1>1, <2>1, <2>2 DEF TakenSince
  <2>5. Cardinality(now') = Cardinality(now) + 1
    BY <1>2, <2>2, <2>4, FS_AddElement
  <2>6. \A t \in taken' : t.ago = 0 => t.nth <= Cardinality(now')
    BY <1>1, <1>2, <1>4, <2>1, <2>2, <2>5
  <2>7. CASE Lapsed
    <3>1. age > Window /\ age' = 0 /\ requests' = 1
      BY <2>1, <2>7 DEF Lapsed, RolledCount
    <3>2. ThisWindow' = {new} /\ WindowBefore' = taken /\ ThisWindow = taken
      BY <1>1, <1>4, <2>1, <2>2, <3>1 DEF ThisWindow, WindowBefore, TakenSince
    <3>3. Cardinality(ThisWindow') = 1 /\ Cardinality(WindowBefore') <= Budget
      BY <1>4, <3>2, FS_Singleton
    <3> QED BY <1>1, <1>7, <2>3, <2>6, <3>1, <3>3 DEF BudgetInv
  <2>8. CASE ~Lapsed
    <3>1. age <= Window /\ age' = age /\ requests' = requests + 1 /\ requests < Budget
      BY <1>1, <1>7, <2>1, <2>8 DEF Lapsed, RolledCount, ReserveRequest
    <3>2. ThisWindow' = ThisWindow \cup {new} /\ WindowBefore' = WindowBefore
      BY <1>1, <2>1, <2>2, <3>1 DEF ThisWindow, WindowBefore, TakenSince
    <3>3. Cardinality(ThisWindow') = Cardinality(ThisWindow) + 1
      BY <1>3, <2>2, <3>2, FS_AddElement
    <3> QED BY <1>1, <1>3, <1>4, <2>3, <2>6, <3>1, <3>2, <3>3 DEF BudgetInv
  <2> QED BY <2>7, <2>8
<1>8. ASSUME NEW w \in Fetchers, FetchStep(w) \/ Restart(w)
      PROVE  UNCHANGED budgetVars \/ (ReserveRequest /\ Budget > 0)
  BY <1>8 DEF FetchStep, Restart, Peek, CrossHost, CheckRobots, Refused, RaiseDelay, CountRequest,
    BudgetSpent, Acquire, Send, FetchAnswered, PenalizeHost, RecordHop, AcquireHop
<1>9. CASE UNCHANGED slotVars
  BY <1>5, <1>9 DEF slotVars
<1> QED BY <1>5, <1>6, <1>7, <1>8, <1>9, Zenon DEF HostNext

LEMMA BudgetBegins == HostInit => BudgetInv
<1> SUFFICES ASSUME HostInit PROVE BudgetInv
  OBVIOUS
<1>1. taken = {} /\ age = Window + 1 /\ requests = 0 /\ Window \in Nat /\ Budget \in Nat
  BY HostAssumption DEF HostInit
<1>2. ThisWindow = {} /\ WindowBefore = {}
  BY <1>1 DEF ThisWindow, WindowBefore, TakenSince
<1>3. IsFiniteSet({}) /\ Cardinality({}) = 0
  BY FS_EmptySet
<1> QED BY <1>1, <1>2, <1>3 DEF BudgetInv

LEMMA BudgetInvHolds == BudgetInv => BudgetHolds
<1> SUFFICES ASSUME BudgetInv PROVE BudgetHolds
  OBVIOUS
<1>1. IsFiniteSet(taken) /\ ThisWindow \subseteq taken /\ WindowBefore \subseteq taken
      /\ taken = ThisWindow \cup WindowBefore /\ ThisWindow \cap WindowBefore = {}
  BY DEF BudgetInv, ThisWindow, WindowBefore, TakenSince
<1>2. IsFiniteSet(ThisWindow) /\ IsFiniteSet(WindowBefore)
  BY <1>1, FS_Subset
<1>3. Cardinality(ThisWindow) \in Nat /\ Cardinality(WindowBefore) \in Nat
      /\ Cardinality(taken) = Cardinality(ThisWindow) + Cardinality(WindowBefore)
  <2>1. Cardinality(ThisWindow) \in Nat /\ Cardinality(WindowBefore) \in Nat
    BY <1>2, FS_CardinalityType
  <2>2. Cardinality(taken) = Cardinality(ThisWindow) + Cardinality(WindowBefore)
                               - Cardinality(ThisWindow \cap WindowBefore)
    BY <1>1, <1>2, FS_Union
  <2>3. Cardinality(ThisWindow \cap WindowBefore) = 0
    BY <1>1, FS_EmptySet
  <2> QED BY <2>1, <2>2, <2>3
<1>4. Cardinality(taken) <= 2 * Budget
  BY <1>3, HostAssumption DEF BudgetInv
<1> QED BY <1>4, HostAssumption DEF BudgetInv, BudgetHolds, ThisWindow

-----------------------------------------------------------------------------
(* All workers: how far out a marker can be.                               *)

\* What lies farther out than a back-off or a restart can explain.
OutFrom == IF Nearby >= 1 THEN Nearby ELSE 1
SlotsFrom(h, x) == {t \in slots[h] : t.at >= x}
FarOf(w, h) == {t \in SlotsFrom(h, OutFrom) : t.by = w}

\* How many of a worker's slots may lie there: those of its fetch.
Most(w, h) ==
  IF host[w] = h /\ phase[w] = "sleeping" THEN MostHops + 1
  ELSE IF host[w] = h /\ phase[w] = "sent" THEN hops[w] ELSE MostHops

FetchTypes ==
  /\ delay \in [Hosts -> 0..MaxGap] /\ hint \in [Fetchers -> [Hosts -> 0..MaxGap]]
  /\ wait \in [Fetchers -> 0..MaxOwed] /\ hops \in [Fetchers -> 0..MostHops]
  /\ putOffs \in [Fetchers -> 0..MaxPutOffs]
  /\ \A w \in Fetchers : phase[w] = "free" <=> host[w] = NoHost

\* From wherever one looks, the marker is a gap beyond the slots that follow.
MarkerReaches ==
  \A h \in Hosts :
    /\ IsFiniteSet(slots[h])
    /\ \A x \in Nat : x >= OutFrom => owed[h] < x + MaxGap * (Cardinality(SlotsFrom(h, x)) + 1)

FewFarSlots == \A w \in Fetchers : \A h \in Hosts : Cardinality(FarOf(w, h)) <= Most(w, h)

\* A worker sleeps until the last of its slots.
SleepsForSlot ==
  \A w \in Fetchers : phase[w] = "sleeping" =>
    \A t \in slots[host[w]] : t.by = w => t.at <= wait[w]

NobodyAsks == Fetchers = {} => \A h \in Hosts : owed[h] = 0

ReachInv ==
  HostInv /\ FetchTypes /\ MarkerReaches /\ FewFarSlots /\ SleepsForSlot /\ NobodyAsks

LEMMA HopsAreCounted == MostHops \in Nat /\ MostHops = MaxRedirects + 1 /\ MaxRedirects \in Nat
BY HostAssumption DEF MostHops

LEMMA GapIsBounded ==
  MaxGap \in Nat /\ \A h \in Hosts : Floor[h] <= MaxGap /\ SiteDelay[h] <= MaxGap
<1> DEFINE F == {Floor[h] : h \in Hosts}
           D == {SiteDelay[h] : h \in Hosts}
<1>1. Floor \in Surjection(Hosts, F) /\ SiteDelay \in Surjection(Hosts, D) /\ IsFiniteSet(Hosts)
  BY HostAssumption DEF Surjection
<1>2. F \subseteq Nat /\ D \subseteq Nat
  BY HostAssumption
<1> HIDE DEF F, D
<1>3. IsFiniteSet(F) /\ IsFiniteSet(D) /\ IsFiniteSet({0})
  BY <1>1, FS_Surjection, FS_Singleton
<1>4. {0} \cup F \cup D \in SUBSET Nat /\ {0} \cup F \cup D # {}
  BY <1>2
<1>5. IsFiniteSet({0} \cup F \cup D)
  BY <1>3, FS_Union
<1>6. /\ Max({0} \cup F \cup D) \in {0} \cup F \cup D
      /\ \A y \in {0} \cup F \cup D : Max({0} \cup F \cup D) >= y
  BY <1>4, <1>5, GreatestIsThere
<1>7. MaxGap = Max({0} \cup F \cup D)
  BY DEF MaxGap, Greatest, F, D
<1> QED BY <1>4, <1>6, <1>7, HostAssumption DEF F, D

LEMMA NearbyIsLast ==
  /\ Nearby \in Nat /\ Horizon <= Nearby /\ \A s \in Backoffs : s <= Nearby
  /\ OutFrom \in Nat /\ OutFrom >= 1 /\ OutFrom >= Nearby
<1>1. Backoffs \cup {Horizon} \in SUBSET Nat /\ Backoffs \cup {Horizon} # {}
  BY HostAssumption
<1>2. IsFiniteSet(Backoffs \cup {Horizon})
  BY HostAssumption, FS_AddElement
<1>3. /\ Nearby \in Backoffs \cup {Horizon}
      /\ \A y \in Backoffs \cup {Horizon} : Nearby >= y
  BY <1>1, <1>2, GreatestIsThere DEF Nearby, Greatest
<1> QED BY <1>1, <1>3 DEF OutFrom

\* Where each of a few owns no more than n, all own no more than n times as many.
LEMMA OwnedByFew ==
  ASSUME NEW S, NEW W, IsFiniteSet(W), NEW n \in Nat, NEW by \in [S -> W],
         \A w \in W : /\ IsFiniteSet({t \in S : by[t] = w})
                      /\ Cardinality({t \in S : by[t] = w}) <= n
  PROVE  IsFiniteSet(S) /\ Cardinality(S) <= Cardinality(W) * n
<1> DEFINE own(w) == {t \in S : by[t] = w}
           rank == [w \in W |-> CHOOSE f : f \in Injection(own(w), 1..n)]
           numbered == [t \in S |-> <<by[t], rank[by[t]][t]>>]
<1>1. ASSUME NEW w \in W PROVE \E f : f \in Injection(own(w), 1..n)
  <2> PICK m : m = Cardinality(own(w))
    OBVIOUS
  <2>1. IsFiniteSet(own(w)) /\ m \in Nat /\ m <= n
    BY FS_CardinalityType
  <2>2. IsFiniteSet(1..m) /\ Cardinality(1..m) = m
    <3>1. 1 \in Int /\ m \in Int
      BY <2>1
    <3> QED BY <2>1, <3>1, FS_Interval
  <2> HIDE DEF own
  <2>3. PICK f : f \in Bijection(own(w), 1..m)
    BY <2>1, <2>2, FS_SameCardinalityBij DEF ExistsBijection
  <2>4. 1..m \subseteq 1..n
    BY <2>1
  <2>5. f \in [own(w) -> 1..m] /\ IsInjective(f)
    BY <2>3 DEF Bijection, Injection
  <2>6. f \in [own(w) -> 1..n]
    BY <2>4, <2>5
  <2> QED BY <2>5, <2>6 DEF Injection
<1>2. \A w \in W : rank[w] \in Injection(own(w), 1..n)
  <2> HIDE DEF own
  <2> QED BY <1>1
<1>3. \A w \in W : rank[w] \in [own(w) -> 1..n] /\ IsInjective(rank[w])
  BY <1>2 DEF Injection
<1> HIDE DEF rank
<1>4. \A t \in S : by[t] \in W /\ t \in own(by[t]) /\ rank[by[t]][t] \in 1..n
  BY <1>3
<1>5. \A s, t \in S : numbered[s] = numbered[t] => s = t
  <2> SUFFICES ASSUME NEW s \in S, NEW t \in S, numbered[s] = numbered[t] PROVE s = t
    OBVIOUS
  <2>1. by[s] = by[t] /\ rank[by[s]][s] = rank[by[s]][t]
    OBVIOUS
  <2>2. s \in own(by[s]) /\ t \in own(by[s]) /\ DOMAIN rank[by[s]] = own(by[s])
    BY <1>3, <1>4, <2>1
  <2> QED BY <1>3, <1>4, <2>1, <2>2 DEF IsInjective
<1>6. numbered \in Injection(S, W \X (1..n))
  <2>1. numbered \in [S -> W \X (1..n)]
    BY <1>4
  <2>2. DOMAIN numbered = S
    OBVIOUS
  <2> HIDE DEF numbered
  <2> QED BY <1>5, <2>1, <2>2 DEF Injection, IsInjective
<1>7. IsFiniteSet(1..n) /\ Cardinality(1..n) = n
  <2>1. 1 \in Int /\ n \in Int
    OBVIOUS
  <2> QED BY <2>1, FS_Interval
<1>8. IsFiniteSet(W \X (1..n)) /\ Cardinality(W \X (1..n)) = Cardinality(W) * n
  BY <1>7, FS_Product
<1> QED BY <1>6, <1>8, FS_Injection

LEMMA Products ==
  ASSUME NEW g \in Nat, NEW n \in Nat, NEW m \in Nat, n <= m
  PROVE  g * n \in Nat /\ g * n <= g * m /\ g * (n + 1) = g * n + g
<1>1. PICK d \in Nat : m = n + d
  <2>1. m - n \in Nat /\ m = n + (m - n)
    OBVIOUS
  <2> QED BY <2>1
<1>2. g * d \in Nat /\ g * m = g * n + g * d
  BY <1>1
<1> QED BY <1>2

\* The slots far out are those of a fetch for each worker, and the marker is no
\* farther out than they can carry it.
LEMMA MarkerIsWithin == ReachInv => \A h \in Hosts : owed[h] \in 0..MaxOwed
<1> SUFFICES ASSUME ReachInv, NEW h \in Hosts PROVE owed[h] \in 0..MaxOwed
  OBVIOUS
<1> DEFINE far == SlotsFrom(h, OutFrom)
           R == MostHops + 1
           W == Cardinality(Fetchers)
<1>1. /\ HostTypes /\ MarkerReaches /\ FewFarSlots /\ NobodyAsks /\ owed[h] \in Nat
      /\ hops \in [Fetchers -> 0..MostHops] /\ MostHops \in Nat
  BY HopsAreCounted DEF ReachInv, HostInv, HostTypes, FetchTypes
<1>2. MaxGap \in Nat /\ Nearby \in Nat /\ OutFrom \in Nat /\ OutFrom = IF Nearby >= 1 THEN Nearby ELSE 1
  BY GapIsBounded, NearbyIsLast DEF OutFrom
<1>3. IsFiniteSet(Fetchers) /\ W \in Nat
  BY HostAssumption, FS_CardinalityType
<1>4. Cardinality(far) \in Nat /\ Cardinality(far) <= W * R
  <2> DEFINE by == [t \in far |-> t.by]
  <2>1. by \in [far -> Fetchers]
    BY <1>1 DEF HostTypes, SlotsFrom, SlotType
  <2>2. far \subseteq slots[h] /\ IsFiniteSet(slots[h])
    BY <1>1 DEF SlotsFrom, MarkerReaches
  <2>3. IsFiniteSet(far)
    BY <2>2, FS_Subset
  <2>4. ASSUME NEW w \in Fetchers
        PROVE  IsFiniteSet({t \in far : by[t] = w}) /\ Cardinality({t \in far : by[t] = w}) <= R
    <3>1. {t \in far : by[t] = w} = FarOf(w, h) /\ FarOf(w, h) \subseteq far
      BY DEF FarOf
    <3>2. IsFiniteSet(FarOf(w, h)) /\ Cardinality(FarOf(w, h)) \in Nat
      BY <2>3, <3>1, FS_Subset, FS_CardinalityType
    <3>3. Cardinality(FarOf(w, h)) <= Most(w, h) /\ Most(w, h) \in Nat /\ Most(w, h) <= R
      BY <1>1 DEF FewFarSlots, Most
    <3> PICK c : c = Cardinality(FarOf(w, h))
      OBVIOUS
    <3>4. c <= R
      BY <1>1, <3>2, <3>3
    <3> HIDE DEF by, far, R
    <3> QED BY <3>1, <3>2, <3>4
  <2>5. R \in Nat
    BY <1>1
  <2> HIDE DEF by, far, R
  <2> QED BY <1>3, <2>1, <2>3, <2>4, <2>5, OwnedByFew, FS_CardinalityType
<1>5. owed[h] < OutFrom + MaxGap * (Cardinality(far) + 1)
  <2>1. OutFrom \in Nat /\ OutFrom >= OutFrom
    BY <1>2
  <2> QED BY <1>1, <2>1 DEF MarkerReaches
<1>6. MaxOwed = Nearby + MaxGap * W * (MostHops + 2)
  BY DEF MaxOwed
<1>7. MaxGap * W * (MostHops + 2) = MaxGap * (W * R + W)
  BY <1>1, <1>2, <1>3
<1> PICK n : n = Cardinality(far)
  OBVIOUS
<1> PICK p : p = W * R
  OBVIOUS
<1>8. p \in Nat /\ n \in Nat /\ n <= p /\ p + W \in Nat /\ p + 1 \in Nat /\ n + 1 <= p + 1 /\ n + 1 \in Nat
  BY <1>1, <1>3, <1>4
<1>9. CASE Fetchers = {}
  <2>1. owed[h] = 0
    BY <1>1, <1>9 DEF NobodyAsks
  <2>2. MaxGap * (p + W) \in Nat
    BY <1>2, <1>8, Products
  <2> QED BY <1>2, <1>6, <1>7, <2>1, <2>2
<1>10. CASE Fetchers # {}
  <2>1. W >= 1
    BY <1>3, <1>10, FS_EmptySet
  <2>2. MaxGap * (n + 1) \in Nat /\ MaxGap * (n + 1) <= MaxGap * (p + 1)
    BY <1>2, <1>8, Products
  <2>3. p + 1 <= p + W
    BY <1>3, <1>8, <2>1
  <2>4. MaxGap * (p + 1) \in Nat /\ MaxGap * (p + 1) <= MaxGap * (p + W)
    BY <1>2, <1>8, <2>3, Products
  <2>5. MaxGap * (p + W) \in Nat
    BY <1>2, <1>8, Products
  <2>6. owed[h] < OutFrom + MaxGap * (n + 1)
    BY <1>5
  <2>7. MaxOwed = Nearby + MaxGap * (p + W)
    BY <1>6, <1>7
  <2> HIDE DEF far, R, W
  <2> PICK x, y, z : x = MaxGap * (n + 1) /\ y = MaxGap * (p + 1) /\ z = MaxGap * (p + W)
    OBVIOUS
  <2>8. x \in Nat /\ y \in Nat /\ z \in Nat /\ x <= y /\ y <= z /\ owed[h] < OutFrom + x /\ MaxOwed = Nearby + z
    BY <2>2, <2>4, <2>5, <2>6, <2>7
  <2>9. Nearby >= 1 \/ (Nearby = 0 /\ OutFrom = 1)
    BY <1>2
  <2> QED BY <1>1, <1>2, <2>8
<1> QED BY <1>9, <1>10

LEMMA GapIsWithin ==
  ASSUME ReachInv, NEW w \in Fetchers, NEW h \in Hosts
  PROVE  Gap(w, h) \in Nat /\ Gap(w, h) <= MaxGap /\ Gap(w, h) >= 1
<1>1. HostTypes /\ DelaysHold /\ delay[h] \in 0..MaxGap /\ hint[w][h] \in 0..MaxGap
  BY DEF ReachInv, HostInv, FetchTypes
<1>2. /\ MaxGap \in Nat /\ Floor[h] <= MaxGap /\ Floor[h] \in Nat /\ Floor[h] >= 1
  BY GapIsBounded, HostAssumption
<1>3. DelayFor(w, h) \in Nat /\ DelayFor(w, h) <= MaxGap /\ DelayFor(w, h) >= 1
  BY <1>1, <1>2, DelayIsFloor DEF DelayFor
<1>4. Gap(w, h) = IF delay[h] >= DelayFor(w, h) THEN delay[h] ELSE DelayFor(w, h)
  BY <1>1, <1>2, <1>3, LargestOfTwo DEF Gap, Greatest
<1> QED BY <1>1, <1>2, <1>3, <1>4

\* A slot carries the marker one gap on, from one slot more.
LEMMA TakeReaches ==
  ASSUME ReachInv, NEW w \in Fetchers, NEW h \in Hosts, Take(w, h)
  PROVE  /\ MarkerReaches'
         /\ \A v \in Fetchers : \A k \in Hosts : v # w \/ k # h => FarOf(v, k)' = FarOf(v, k)
         /\ Cardinality(FarOf(w, h)') <= Cardinality(FarOf(w, h)) + 1
         /\ \A k \in Hosts : \A t \in slots'[k] : t \in slots[k] \/ (k = h /\ t.by = w)
         /\ \A t \in slots'[h] : t.at <= owed[h]
<1> PICK new : /\ new.at = owed[h] /\ new.by = w
               /\ slots' = [slots EXCEPT ![h] = slots[h] \cup {new}]
  BY DEF Take
<1> PICK g : g = Gap(w, h)
  OBVIOUS
<1>1. HostTypes /\ MarkerIsLast /\ MarkerReaches /\ g \in Nat /\ g <= MaxGap /\ MaxGap \in Nat
      /\ owed' = [owed EXCEPT ![h] = owed[h] + g]
  BY GapIsWithin, GapIsBounded DEF ReachInv, HostInv, Take
<1>2. /\ slots \in [Hosts -> SUBSET SlotType] /\ owed \in [Hosts -> Nat]
      /\ slots'[h] = slots[h] \cup {new}
      /\ \A k \in Hosts : k # h => slots'[k] = slots[k] /\ owed'[k] = owed[k]
      /\ owed'[h] = owed[h] + g /\ owed[h] \in Nat
  BY <1>1 DEF HostTypes
<1>3. \A s \in slots[h] : s.at < owed[h]
  <2> SUFFICES ASSUME NEW s \in slots[h] PROVE s.at < owed[h]
    OBVIOUS
  <2>1. s.at \in Int /\ s.gap \in Nat /\ s.at + s.gap <= owed[h] /\ s.gap >= 1
    BY <1>1, <1>2 DEF MarkerIsLast, SlotType
  <2> QED BY <1>2, <2>1
<1>4. new \notin slots[h]
  BY <1>2, <1>3
<1>5. \A k \in Hosts : IsFiniteSet(slots[k]) /\ IsFiniteSet(slots'[k])
  <2>1. \A k \in Hosts : IsFiniteSet(slots[k])
    BY <1>1 DEF MarkerReaches
  <2> QED BY <1>2, <2>1, FS_AddElement
<1>6. ASSUME NEW x \in Nat, x >= OutFrom
      PROVE  owed'[h] < x + MaxGap * (Cardinality(SlotsFrom(h, x)') + 1)
  <2> PICK n : n = Cardinality(SlotsFrom(h, x))
    OBVIOUS
  <2> PICK m : m = Cardinality(SlotsFrom(h, x)')
    OBVIOUS
  <2>1. SlotsFrom(h, x) \subseteq slots[h] /\ IsFiniteSet(slots[h])
        /\ SlotsFrom(h, x)' \subseteq slots'[h] /\ IsFiniteSet(slots'[h])
    BY <1>5 DEF SlotsFrom
  <2>2. n \in Nat /\ m \in Nat /\ IsFiniteSet(SlotsFrom(h, x))
    BY <2>1, FS_Subset, FS_CardinalityType
  <2>3. owed[h] < x + MaxGap * (n + 1)
    BY <1>1, <1>6 DEF MarkerReaches
  <2>4. CASE owed[h] >= x
    <3>1. SlotsFrom(h, x)' = SlotsFrom(h, x) \cup {new} /\ new \notin SlotsFrom(h, x)
      BY <1>2, <1>4, <2>4 DEF SlotsFrom
    <3>2. m = n + 1
      BY <2>2, <3>1, FS_AddElement
    <3>3. MaxGap * (m + 1) = MaxGap * (n + 1) + MaxGap /\ MaxGap * (n + 1) \in Nat
      BY <1>1, <2>2, <3>2, Products
    <3> QED BY <1>1, <1>2, <2>3, <3>3
  <2>5. CASE owed[h] < x
    <3>1. MaxGap * (m + 1) = MaxGap * m + MaxGap /\ MaxGap * m \in Nat
      BY <1>1, <2>2, Products
    <3> QED BY <1>1, <1>2, <2>5, <3>1
  <2> QED BY <1>2, <2>4, <2>5
<1>7. MarkerReaches'
  <2>1. ASSUME NEW k \in Hosts, k # h, NEW x \in Nat, x >= OutFrom
        PROVE  owed'[k] < x + MaxGap * (Cardinality(SlotsFrom(k, x)') + 1)
    <3>1. SlotsFrom(k, x)' = SlotsFrom(k, x)
      BY <1>2, <2>1 DEF SlotsFrom
    <3> QED BY <1>1, <1>2, <2>1, <3>1 DEF MarkerReaches
  <2> QED BY <1>5, <1>6, <2>1 DEF MarkerReaches
<1>8. ASSUME NEW v \in Fetchers, NEW k \in Hosts, v # w \/ k # h
      PROVE  FarOf(v, k)' = FarOf(v, k)
  <2>1. CASE k # h
    BY <1>2, <2>1 DEF FarOf, SlotsFrom
  <2>2. CASE k = h /\ v # w
    BY <1>2, <2>2 DEF FarOf, SlotsFrom
  <2> QED BY <1>8, <2>1, <2>2
<1>9. Cardinality(FarOf(w, h)') <= Cardinality(FarOf(w, h)) + 1
  <2>1. FarOf(w, h) \subseteq slots[h] /\ FarOf(w, h)' \subseteq FarOf(w, h) \cup {new}
    BY <1>2 DEF FarOf, SlotsFrom
  <2>2. IsFiniteSet(FarOf(w, h)) /\ Cardinality(FarOf(w, h)) \in Nat
    BY <1>5, <2>1, FS_Subset, FS_CardinalityType
  <2>3. /\ IsFiniteSet(FarOf(w, h) \cup {new})
        /\ Cardinality(FarOf(w, h) \cup {new}) <= Cardinality(FarOf(w, h)) + 1
    BY <2>2, FS_AddElement
  <2>4. Cardinality(FarOf(w, h)') <= Cardinality(FarOf(w, h) \cup {new})
        /\ Cardinality(FarOf(w, h)') \in Nat /\ Cardinality(FarOf(w, h) \cup {new}) \in Nat
    BY <2>1, <2>3, FS_Subset, FS_CardinalityType
  <2> QED BY <2>2, <2>3, <2>4
<1>10. \A t \in slots'[h] : t.at <= owed[h]
  <2> SUFFICES ASSUME NEW t \in slots'[h] PROVE t.at <= owed[h]
    OBVIOUS
  <2>1. t \in slots[h] => t \in SlotType /\ t.at < owed[h]
    BY <1>2, <1>3
  <2>2. t \in SlotType => t.at \in Int
    BY DEF SlotType
  <2> QED BY <1>2, <2>1, <2>2
<1>11. ASSUME NEW k \in Hosts, NEW t \in slots'[k]
       PROVE  t \in slots[k] \/ (k = h /\ t.by = w)
  BY <1>2, <1>11
<1> QED BY <1>7, <1>8, <1>9, <1>10, <1>11

\* Time moves the place one looks from as it moves the slots and the marker.
LEMMA TickReaches ==
  ASSUME ReachInv, HostTick
  PROVE  /\ MarkerReaches' /\ FewFarSlots' /\ SleepsForSlot'
<1>1. /\ HostTypes /\ MarkerIsLast /\ MarkerReaches /\ FewFarSlots /\ SleepsForSlot /\ FetchTypes
      /\ UNCHANGED <<phase, host, hops>> /\ wait' = [w \in Fetchers |-> Less(wait[w])]
      /\ \A h \in Hosts : owed'[h] = Less(owed[h]) /\ owed[h] \in Nat
  BY DEF ReachInv, HostInv, HostTick, HostTypes
<1>2. MaxGap \in Nat /\ OutFrom \in Nat /\ OutFrom >= 1
  BY GapIsBounded, NearbyIsLast
<1> DEFINE Earlier(t) == [at |-> t.at - 1, by |-> t.by, gap |-> t.gap]
<1>3. ASSUME NEW h \in Hosts
      PROVE  /\ slots[h] \subseteq SlotType /\ IsFiniteSet(slots[h])
             /\ slots'[h] = {Earlier(s) : s \in {s \in slots[h] : s.at + s.gap > 1}}
             /\ \A s \in slots[h] : s.gap >= 1
  <2>1. slots[h] \subseteq SlotType /\ IsFiniteSet(slots[h])
    BY <1>1 DEF HostTypes, MarkerReaches
  <2>2. slots'[h] = {[s EXCEPT !.at = s.at - 1] : s \in {s \in slots[h] : s.at + s.gap > 1}}
    BY DEF HostTick
  <2>3. \A s \in slots[h] : [s EXCEPT !.at = s.at - 1] = Earlier(s) /\ s.gap >= 1
    BY <2>1 DEF SlotType
  <2> HIDE DEF Earlier
  <2>4. \A t : t \in slots'[h] <=> \E s \in slots[h] : s.at + s.gap > 1 /\ t = Earlier(s)
    BY <2>2, <2>3
  <2> QED BY <2>1, <2>3, <2>4
<1>4. \A s, t \in SlotType : Earlier(s) = Earlier(t) => s = t
  <2> SUFFICES ASSUME NEW s \in SlotType, NEW t \in SlotType, Earlier(s) = Earlier(t) PROVE s = t
    OBVIOUS
  <2>1. s.at - 1 = t.at - 1 /\ s.by = t.by /\ s.gap = t.gap /\ s.at \in Int /\ t.at \in Int
    BY DEF SlotType
  <2>2. s.at = t.at
    BY <2>1
  <2> QED BY <2>1, <2>2 DEF SlotType
<1>5. \A s \in SlotType : Earlier(s).at = s.at - 1 /\ Earlier(s).by = s.by /\ s.at \in Int
  BY DEF SlotType
<1> HIDE DEF Earlier
<1>6. ASSUME NEW h \in Hosts PROVE IsFiniteSet(slots'[h])
  <2> DEFINE kept == {s \in slots[h] : s.at + s.gap > 1}
             f == [s \in kept |-> Earlier(s)]
  <2>1. f \in Surjection(kept, slots'[h])
    BY <1>3 DEF Surjection
  <2>2. IsFiniteSet(kept)
    <3>1. kept \subseteq slots[h]
      OBVIOUS
    <3> QED BY <1>3, <3>1, FS_Subset
  <2> HIDE DEF f, kept
  <2> QED BY <2>1, <2>2, FS_Surjection
<1>7. ASSUME NEW h \in Hosts, NEW x \in Nat, x >= 1
      PROVE  /\ SlotsFrom(h, x)' = {Earlier(s) : s \in SlotsFrom(h, x + 1)}
             /\ SlotsFrom(h, x + 1) \subseteq SlotType
  <2>1. ASSUME NEW s \in slots[h] PROVE (s.at + s.gap > 1 /\ s.at - 1 >= x) <=> s.at >= x + 1
    <3>1. s.at \in Int /\ s.gap \in Nat /\ s.gap >= 1
      BY <1>3 DEF SlotType
    <3> QED BY <1>7, <3>1
  <2>2. \A t : t \in SlotsFrom(h, x)' <=>
               \E s \in slots[h] : s.at + s.gap > 1 /\ s.at - 1 >= x /\ t = Earlier(s)
    BY <1>3, <1>5 DEF SlotsFrom
  <2>3. \A t : t \in SlotsFrom(h, x)' <=> \E s \in slots[h] : s.at >= x + 1 /\ t = Earlier(s)
    BY <2>1, <2>2
  <2>4. SlotsFrom(h, x + 1) = {s \in slots[h] : s.at >= x + 1}
    BY DEF SlotsFrom
  <2> QED BY <1>3, <2>3, <2>4
<1>8. ASSUME NEW h \in Hosts, NEW x \in Nat, x >= OutFrom
      PROVE  owed'[h] < x + MaxGap * (Cardinality(SlotsFrom(h, x)') + 1)
  <2> DEFINE S == SlotsFrom(h, x + 1)
             T == SlotsFrom(h, x)'
             f == [s \in S |-> Earlier(s)]
  <2>1. x >= 1 /\ x + 1 \in Nat /\ x + 1 >= OutFrom
    BY <1>2, <1>8
  <2>2. T = {Earlier(s) : s \in S} /\ S \subseteq SlotType
    BY <1>7, <2>1
  <2>3. IsFiniteSet(S)
    <3>1. S \subseteq slots[h]
      BY DEF SlotsFrom
    <3> QED BY <1>3, <3>1, FS_Subset
  <2> HIDE DEF S, T
  <2>4. f \in Surjection(S, T) /\ f \in Injection(S, T)
    <3>1. f \in [S -> T] /\ \A t \in T : \E s \in S : f[s] = t
      BY <2>2
    <3>2. \A s, t \in S : f[s] = f[t] => s = t
      BY <1>4, <2>2
    <3> HIDE DEF f
    <3> QED BY <3>1, <3>2 DEF Surjection, Injection, IsInjective
  <2>5. Cardinality(T) = Cardinality(S)
    <3> HIDE DEF f
    <3> QED BY <2>3, <2>4, FS_Surjection
  <2> PICK n : n = Cardinality(S)
    OBVIOUS
  <2>6. owed[h] < (x + 1) + MaxGap * (n + 1)
    BY <1>1, <2>1 DEF MarkerReaches, S
  <2>7. n \in Nat /\ MaxGap * (n + 1) \in Nat
    <3>1. n \in Nat
      BY <2>3, FS_CardinalityType
    <3> QED BY <1>2, <3>1, Products
  <2>8. owed'[h] = Less(owed[h]) /\ owed[h] \in Nat
    BY <1>1
  <2> PICK y : y = MaxGap * (n + 1)
    OBVIOUS
  <2>9. owed'[h] < x + y
    BY <1>2, <2>1, <2>6, <2>7, <2>8 DEF Less
  <2> QED BY <2>5, <2>9 DEF T
<1>9. ASSUME NEW w \in Fetchers, NEW h \in Hosts
      PROVE  Cardinality(FarOf(w, h)') <= Most(w, h)'
  <2> DEFINE S == {s \in SlotsFrom(h, OutFrom + 1) : s.by = w}
             T == FarOf(w, h)'
             f == [s \in S |-> Earlier(s)]
  <2>1. T = {Earlier(s) : s \in S}
    <3>1. T = {t \in SlotsFrom(h, OutFrom)' : t.by = w}
      BY DEF FarOf
    <3>2. /\ SlotsFrom(h, OutFrom)' = {Earlier(s) : s \in SlotsFrom(h, OutFrom + 1)}
          /\ SlotsFrom(h, OutFrom + 1) \subseteq SlotType
      BY <1>2, <1>7
    <3>3. \A s \in SlotsFrom(h, OutFrom + 1) : Earlier(s).by = s.by
      BY <1>5, <3>2
    <3> QED BY <3>1, <3>2, <3>3
  <2>2. S \subseteq FarOf(w, h)
    <3>1. \A s \in slots[h] : s.at \in Int
      BY <1>3, <1>5
    <3> QED BY <1>2, <3>1 DEF FarOf, SlotsFrom
  <2>3. IsFiniteSet(FarOf(w, h))
    <3>1. FarOf(w, h) \subseteq slots[h]
      BY DEF FarOf, SlotsFrom
    <3> QED BY <1>3, <3>1, FS_Subset
  <2> HIDE DEF S, T
  <2>4. IsFiniteSet(S) /\ Cardinality(S) <= Cardinality(FarOf(w, h))
    BY <2>2, <2>3, FS_Subset
  <2>5. f \in Surjection(S, T)
    BY <2>1 DEF Surjection
  <2>6. IsFiniteSet(T) /\ Cardinality(T) <= Cardinality(S)
    <3> HIDE DEF f
    <3> QED BY <2>4, <2>5, FS_Surjection
  <2>7. Cardinality(S) \in Nat /\ Cardinality(T) \in Nat /\ Cardinality(FarOf(w, h)) \in Nat
    BY <2>3, <2>4, <2>6, FS_CardinalityType
  <2>8. Cardinality(FarOf(w, h)) <= Most(w, h) /\ Most(w, h)' = Most(w, h) /\ Most(w, h) \in Nat
    BY <1>1, HopsAreCounted DEF FewFarSlots, Most, FetchTypes
  <2> QED BY <2>4, <2>6, <2>7, <2>8 DEF T
<1>10. SleepsForSlot'
  <2> SUFFICES ASSUME NEW w \in Fetchers, phase[w] = "sleeping", NEW t \in slots'[host[w]], t.by = w
               PROVE  t.at <= Less(wait[w])
    BY <1>1 DEF SleepsForSlot
  <2>1. host[w] \in Hosts /\ wait[w] \in Nat
    BY <1>1 DEF HostTypes, FetchTypes
  <2>2. PICK s \in slots[host[w]] : t = Earlier(s) /\ s \in SlotType
    BY <1>3, <2>1
  <2>3. s.by = w /\ s.at \in Int /\ t.at = s.at - 1
    BY <1>5, <2>2
  <2>4. s.at <= wait[w]
    BY <1>1, <2>2, <2>3 DEF SleepsForSlot
  <2> QED BY <2>1, <2>3, <2>4 DEF Less
<1> QED BY <1>6, <1>8, <1>9, <1>10 DEF MarkerReaches, FewFarSlots

\* The kinds of steps of a worker, by what they do with its slots.
EndsFetch(w) == Refused(w) \/ BudgetSpent(w) \/ FetchAnswered(w)
Prepares(w) == (\E h \in Hosts : Peek(w, h)) \/ CheckRobots(w) \/ RaiseDelay(w) \/ CountRequest(w)
Reserves(w) == Acquire(w) \/ AcquireHop(w)

LEMMA StepsOfHosts ==
  ASSUME [HostNext]_slotVars
  PROVE  \/ HostTick \/ UNCHANGED slotVars
         \/ \E w \in Fetchers :
              \/ EndsFetch(w) \/ Prepares(w) \/ Reserves(w) \/ Send(w) \/ PenalizeHost(w) \/ RecordHop(w)
              \/ Restart(w)
              \/ \E h \in Hosts : CrossHost(w, h)
BY Zenon DEF HostNext, FetchStep, EndsFetch, Prepares, Reserves

LEMMA MaxOwedIsNat == MaxOwed \in Nat
<1>1. MaxGap \in Nat /\ Nearby \in Nat /\ Cardinality(Fetchers) \in Nat /\ MostHops + 2 \in Nat
  BY GapIsBounded, NearbyIsLast, FS_CardinalityType, HostAssumption, HopsAreCounted
<1>2. MaxGap * Cardinality(Fetchers) \in Nat
  BY <1>1, Products
<1>3. MaxGap * Cardinality(Fetchers) * (MostHops + 2) \in Nat
  BY <1>1, <1>2, Products
<1> QED BY <1>1, <1>3 DEF MaxOwed

LEMMA DelaysStayBounded ==
  ASSUME ReachInv, [HostNext]_slotVars
  PROVE  delay' \in [Hosts -> 0..MaxGap] /\ hint' \in [Fetchers -> [Hosts -> 0..MaxGap]]
<1>1. /\ HostTypes /\ delay \in [Hosts -> 0..MaxGap] /\ hint \in [Fetchers -> [Hosts -> 0..MaxGap]]
      /\ MaxGap \in Nat /\ \A h \in Hosts : SiteDelay[h] \in 0..MaxGap
  BY GapIsBounded, HostAssumption DEF ReachInv, HostInv, FetchTypes
<1>2. ASSUME NEW w \in Fetchers, Reserves(w)
      PROVE  delay' \in [Hosts -> 0..MaxGap] /\ hint' = hint
  <2> PICK h : h = host[w]
    OBVIOUS
  <2>1. h \in Hosts /\ delay' = [delay EXCEPT ![h] = Gap(w, h)] /\ hint' = hint
    BY <1>1, <1>2 DEF Reserves, Acquire, AcquireHop, Reserve, HostTypes
  <2>2. Gap(w, h) \in 0..MaxGap
    BY <1>1, <2>1, GapIsWithin
  <2> QED BY <1>1, <2>1, <2>2
<1>3. ASSUME NEW w \in Fetchers, RaiseDelay(w)
      PROVE  delay' \in [Hosts -> 0..MaxGap] /\ hint' \in [Fetchers -> [Hosts -> 0..MaxGap]]
  <2> PICK h : h = host[w]
    OBVIOUS
  <2>1. /\ h \in Hosts /\ delay' = [delay EXCEPT ![h] = Greatest({delay[h], SiteDelay[h]})]
        /\ hint' = [hint EXCEPT ![w][h] = SiteDelay[h]]
    BY <1>1, <1>3 DEF RaiseDelay, HostTypes
  <2>2. Greatest({delay[h], SiteDelay[h]}) \in 0..MaxGap
    <3>1. delay[h] \in 0..MaxGap /\ SiteDelay[h] \in 0..MaxGap
      BY <1>1, <2>1
    <3>2. Max({delay[h], SiteDelay[h]}) = IF delay[h] >= SiteDelay[h] THEN delay[h] ELSE SiteDelay[h]
      BY <3>1, LargestOfTwo
    <3> QED BY <3>1, <3>2 DEF Greatest
  <2> QED BY <1>1, <2>1, <2>2
<1>4. ASSUME NEW w \in Fetchers, Restart(w)
      PROVE  delay' = delay /\ hint' \in [Fetchers -> [Hosts -> 0..MaxGap]]
  BY <1>1, <1>4 DEF Restart
<1>5. ASSUME NEW w \in Fetchers, EndsFetch(w) \/ Send(w) \/ PenalizeHost(w) \/ RecordHop(w)
      PROVE  UNCHANGED <<delay, hint>>
  BY <1>5 DEF EndsFetch, Refused, BudgetSpent, FetchAnswered, Send, PenalizeHost, RecordHop, hostVars
<1>6. ASSUME NEW w \in Fetchers, Prepares(w), ~RaiseDelay(w)
      PROVE  UNCHANGED <<delay, hint>>
  BY <1>6 DEF Prepares, Peek, CheckRobots, CountRequest, hostVars
<1>7. ASSUME NEW w \in Fetchers, NEW h \in Hosts, CrossHost(w, h)
      PROVE  UNCHANGED <<delay, hint>>
  BY <1>7 DEF CrossHost, hostVars
<1>8. HostTick \/ UNCHANGED slotVars => UNCHANGED <<delay, hint>>
  BY DEF HostTick, slotVars, hostVars
<1> QED BY <1>1, <1>2, <1>3, <1>4, <1>5, <1>6, <1>7, <1>8, StepsOfHosts

\* What a step of a worker does to the rest of its fetch: no more is waited
\* for than a marker's reach, and none follows more redirects than allowed.
LEMMA FetchStaysTyped ==
  ASSUME ReachInv, [HostNext]_slotVars
  PROVE  FetchTypes'
<1>1. /\ HostTypes /\ FetchTypes /\ MaxOwed \in Nat /\ MostHops \in Nat /\ MaxPutOffs \in Nat
      /\ \A h \in Hosts : owed[h] \in 0..MaxOwed
      /\ NoHost \notin Hosts
  BY MarkerIsWithin, MaxOwedIsNat, HopsAreCounted, HostAssumption DEF ReachInv, HostInv
<1>2. delay' \in [Hosts -> 0..MaxGap] /\ hint' \in [Fetchers -> [Hosts -> 0..MaxGap]]
  BY DelaysStayBounded
<1>3. ASSUME NEW w \in Fetchers, FinishFetch(w) PROVE FetchTypes'
  BY <1>1, <1>2, <1>3 DEF FinishFetch, GotoPhase, FetchTypes, HostTypes
<1>4. ASSUME NEW w \in Fetchers, NEW h \in Hosts, Peek(w, h) PROVE FetchTypes'
  <2> PICK least : least = Min({putOffs[w] + 1, MaxPutOffs})
    OBVIOUS
  <2>1. /\ host' = [host EXCEPT ![w] = h] /\ hops' = hops
        /\ \/ phase' = [phase EXCEPT ![w] = "ready"] /\ UNCHANGED <<putOffs, wait>>
           \/ /\ putOffs' = [putOffs EXCEPT ![w] = least]
              /\ wait' = [wait EXCEPT ![w] = owed[h]] /\ phase' = [phase EXCEPT ![w] = "deferred"]
    BY <1>4, Zenon DEF Peek, GotoPhase
  <2>2. least \in 0..MaxPutOffs
    <3>1. putOffs[w] + 1 \in Nat
      BY <1>1 DEF FetchTypes
    <3>2. Min({putOffs[w] + 1, MaxPutOffs}) = IF putOffs[w] + 1 <= MaxPutOffs THEN putOffs[w] + 1 ELSE MaxPutOffs
      BY <1>1, <3>1, SmallestOfTwo
    <3> QED BY <1>1, <3>1, <3>2
  <2>3. putOffs' \in [Fetchers -> 0..MaxPutOffs] /\ wait' \in [Fetchers -> 0..MaxOwed]
    <3>1. owed[h] \in 0..MaxOwed
      BY <1>1
    <3> QED BY <1>1, <2>1, <2>2, <3>1 DEF FetchTypes
  <2>4. PICK p : p # "free" /\ phase' = [phase EXCEPT ![w] = p]
    BY <2>1
  <2> QED BY <1>1, <1>2, <2>1, <2>3, <2>4 DEF FetchTypes, HostTypes
<1>5. ASSUME NEW w \in Fetchers, CheckRobots(w) \/ RaiseDelay(w) \/ CountRequest(w) \/ Send(w)
      PROVE  FetchTypes'
  <2>1. PICK p : /\ phase' = [phase EXCEPT ![w] = p] /\ p # "free" /\ phase[w] # "free"
                 /\ UNCHANGED <<host, wait, hops, putOffs>>
    BY <1>5 DEF CheckRobots, RaiseDelay, CountRequest, Send, GotoPhase
  <2> QED BY <1>1, <1>2, <2>1 DEF FetchTypes, HostTypes
<1>6. ASSUME NEW w \in Fetchers, Reserves(w) PROVE FetchTypes'
  <2> PICK h : h = host[w]
    OBVIOUS
  <2>1. /\ phase' = [phase EXCEPT ![w] = "sleeping"] /\ phase[w] # "free" /\ h \in Hosts
        /\ wait' = [wait EXCEPT ![w] = owed[h]] /\ UNCHANGED <<host, hops, putOffs>>
    BY <1>1, <1>6 DEF Reserves, Acquire, AcquireHop, Reserve, GotoPhase, HostTypes
  <2> QED BY <1>1, <1>2, <2>1 DEF FetchTypes, HostTypes
<1>7. ASSUME NEW w \in Fetchers, RecordHop(w) \/ \E h \in Hosts : CrossHost(w, h) PROVE FetchTypes'
  <2>1. /\ hops' = [hops EXCEPT ![w] = hops[w] + 1] /\ hops[w] < MostHops /\ phase[w] = "sent"
        /\ UNCHANGED <<wait, putOffs>>
        /\ \/ UNCHANGED <<phase, host>>
           \/ \E h \in Hosts : host' = [host EXCEPT ![w] = h] /\ phase' = [phase EXCEPT ![w] = "crossing"]
    BY <1>7 DEF RecordHop, CrossHost, OnTheWire, GotoPhase
  <2>2. hops' \in [Fetchers -> 0..MostHops]
    BY <1>1, <2>1 DEF FetchTypes
  <2> QED BY <1>1, <1>2, <2>1, <2>2 DEF FetchTypes, HostTypes
<1>8. CASE HostTick
  <2>1. /\ wait' = [w \in Fetchers |-> Less(wait[w])] /\ UNCHANGED <<phase, host, hops, putOffs>>
    BY <1>8 DEF HostTick
  <2>2. \A w \in Fetchers : Less(wait[w]) \in 0..MaxOwed
    BY <1>1 DEF FetchTypes, Less
  <2> QED BY <1>1, <1>2, <2>1, <2>2 DEF FetchTypes
<1>9. CASE UNCHANGED slotVars
  BY <1>1, <1>2, <1>9 DEF FetchTypes, slotVars, fetchVars
<1>10. ASSUME NEW w \in Fetchers, EndsFetch(w) \/ PenalizeHost(w) \/ Restart(w) PROVE FinishFetch(w)
  BY <1>10 DEF EndsFetch, Refused, BudgetSpent, FetchAnswered, PenalizeHost, Restart
<1> QED BY <1>3, <1>4, <1>5, <1>6, <1>7, <1>8, <1>9, <1>10, StepsOfHosts, Zenon DEF Prepares

\* A worker that does not sleep before the step, or has no slot far out, and
\* does not sleep or send after it, keeps within its bound.
LEMMA MovingKeepsFew ==
  ASSUME ReachInv, NEW w \in Fetchers, UNCHANGED slots,
         \A v \in Fetchers : v # w => UNCHANGED <<phase[v], host[v], hops[v], wait[v]>>,
         phase'[w] \notin {"sleeping", "sent"},
         phase[w] # "sleeping" \/ FarOf(w, host[w]) = {}
  PROVE  FewFarSlots' /\ SleepsForSlot'
<1>1. /\ FewFarSlots /\ SleepsForSlot /\ hops \in [Fetchers -> 0..MostHops] /\ MostHops \in Nat
  BY HopsAreCounted DEF ReachInv, FetchTypes
<1>2. \A v \in Fetchers : \A h \in Hosts : FarOf(v, h)' = FarOf(v, h)
  BY DEF FarOf, SlotsFrom
<1>3. ASSUME NEW v \in Fetchers, NEW h \in Hosts PROVE Cardinality(FarOf(v, h)) <= Most(v, h)'
  <2>1. CASE v # w
    BY <1>1, <2>1 DEF FewFarSlots, Most
  <2>2. CASE v = w /\ phase[w] # "sleeping"
    <3>1. Most(w, h)' = MostHops /\ Most(w, h) <= MostHops /\ Most(w, h) \in Nat
      BY <1>1, <2>2 DEF Most
    <3>2. IsFiniteSet(FarOf(w, h))
      <4>1. FarOf(w, h) \subseteq slots[h] /\ IsFiniteSet(slots[h])
        BY DEF FarOf, SlotsFrom, ReachInv, MarkerReaches
      <4> QED BY <4>1, FS_Subset
    <3>3. Cardinality(FarOf(w, h)) \in Nat /\ Cardinality(FarOf(w, h)) <= Most(w, h)
      BY <1>1, <3>2, FS_CardinalityType DEF FewFarSlots
    <3> QED BY <1>1, <2>2, <3>1, <3>3
  <2>3. CASE v = w /\ h = host[w] /\ FarOf(w, host[w]) = {}
    BY <1>1, <2>3, FS_EmptySet DEF Most
  <2>4. CASE v = w /\ h # host[w]
    <3>1. Most(w, h)' = MostHops /\ Most(w, h) = MostHops
      BY <2>4 DEF Most
    <3> QED BY <1>1, <2>4, <3>1 DEF FewFarSlots
  <2> QED BY <2>1, <2>2, <2>3, <2>4
<1>4. ASSUME NEW v \in Fetchers, phase'[v] = "sleeping", NEW t \in slots'[host'[v]], t.by = v
      PROVE  t.at <= wait'[v]
  <2>1. v # w /\ phase[v] = "sleeping" /\ host'[v] = host[v] /\ wait'[v] = wait[v]
    BY <1>4
  <2> QED BY <1>1, <1>4, <2>1 DEF SleepsForSlot
<1> QED BY <1>2, <1>3, <1>4 DEF FewFarSlots, SleepsForSlot

LEMMA ReservingReaches ==
  ASSUME ReachInv, NEW w \in Fetchers, Reserves(w)
  PROVE  MarkerReaches' /\ FewFarSlots' /\ SleepsForSlot'
<1> PICK h : h = host[w]
  OBVIOUS
<1>1. /\ h \in Hosts /\ Take(w, h) /\ phase[w] # "sleeping" /\ phase[w] # "sent"
      /\ phase' = [phase EXCEPT ![w] = "sleeping"] /\ wait' = [wait EXCEPT ![w] = owed[h]]
      /\ UNCHANGED <<host, hops>>
  BY DEF Reserves, Acquire, AcquireHop, Reserve, GotoPhase, ReachInv, HostInv, HostTypes
<1>2. /\ MarkerReaches'
      /\ \A v \in Fetchers : \A k \in Hosts : v # w \/ k # h => FarOf(v, k)' = FarOf(v, k)
      /\ Cardinality(FarOf(w, h)') <= Cardinality(FarOf(w, h)) + 1
      /\ \A k \in Hosts : \A t \in slots'[k] : t \in slots[k] \/ (k = h /\ t.by = w)
      /\ \A t \in slots'[h] : t.at <= owed[h]
  BY <1>1, TakeReaches
<1>3. /\ FewFarSlots /\ SleepsForSlot /\ MarkerReaches /\ MostHops \in Nat
      /\ phase \in [Fetchers -> Phases] /\ wait \in [Fetchers -> 0..MaxOwed]
      /\ host \in [Fetchers -> Hosts \cup {NoHost}]
      /\ \A v \in Fetchers : phase[v] # "free" => host[v] \in Hosts
  BY HopsAreCounted DEF ReachInv, HostInv, HostTypes, FetchTypes
<1>4. ASSUME NEW v \in Fetchers, NEW k \in Hosts PROVE Cardinality(FarOf(v, k)') <= Most(v, k)'
  <2>1. CASE v # w
    <3>1. FarOf(v, k)' = FarOf(v, k) /\ Most(v, k)' = Most(v, k)
      BY <1>1, <1>2, <1>3, <2>1 DEF Most
    <3> QED BY <1>3, <3>1 DEF FewFarSlots
  <2>2. CASE v = w /\ k # h
    <3>1. FarOf(v, k)' = FarOf(v, k) /\ Most(v, k)' = MostHops /\ Most(v, k) = MostHops
      BY <1>1, <1>2, <1>3, <2>2 DEF Most
    <3> QED BY <1>3, <3>1 DEF FewFarSlots
  <2>3. CASE v = w /\ k = h
    <3>1. Most(w, h)' = MostHops + 1 /\ Most(w, h) = MostHops
      BY <1>1, <1>3 DEF Most
    <3>2. Cardinality(FarOf(w, h)) <= MostHops
      BY <1>1, <1>3, <3>1 DEF FewFarSlots
    <3>3. FarOf(w, h) \subseteq slots[h] /\ FarOf(w, h)' \subseteq slots'[h]
          /\ IsFiniteSet(slots[h]) /\ IsFiniteSet(slots'[h])
      BY <1>1, <1>2, <1>3 DEF FarOf, SlotsFrom, MarkerReaches
    <3>4. IsFiniteSet(FarOf(w, h)) /\ IsFiniteSet(FarOf(w, h)')
      BY <3>3, FS_Subset
    <3>5. Cardinality(FarOf(w, h)) \in Nat /\ Cardinality(FarOf(w, h)') \in Nat
      BY <3>4, FS_CardinalityType
    <3>6. Cardinality(FarOf(w, h)') <= MostHops + 1
      BY <1>2, <1>3, <3>2, <3>5
    <3> QED BY <2>3, <3>1, <3>6
  <2> QED BY <2>1, <2>2, <2>3
<1>5. ASSUME NEW v \in Fetchers, phase'[v] = "sleeping", NEW t \in slots'[host'[v]], t.by = v
      PROVE  t.at <= wait'[v]
  <2>1. CASE v = w
    BY <1>1, <1>2, <1>3, <1>5, <2>1
  <2>2. CASE v # w
    <3>1. phase[v] = "sleeping" /\ host'[v] = host[v] /\ wait'[v] = wait[v] /\ host[v] \in Hosts
      BY <1>1, <1>3, <1>5, <2>2
    <3>2. t \in slots[host[v]]
      BY <1>2, <1>5, <2>2, <3>1
    <3> QED BY <1>3, <1>5, <3>1, <3>2 DEF SleepsForSlot
  <2> QED BY <2>1, <2>2
<1> QED BY <1>2, <1>4, <1>5 DEF FewFarSlots, SleepsForSlot

LEMMA HoppingReaches ==
  ASSUME ReachInv, NEW w \in Fetchers, RecordHop(w)
  PROVE  MarkerReaches' /\ FewFarSlots' /\ SleepsForSlot'
<1> PICK h : h = host[w]
  OBVIOUS
<1>1. /\ h \in Hosts /\ Take(w, h) /\ phase[w] = "sent" /\ hops' = [hops EXCEPT ![w] = hops[w] + 1]
      /\ UNCHANGED <<phase, host, wait>>
  BY DEF RecordHop, OnTheWire, ReachInv, HostInv, HostTypes
<1>2. /\ MarkerReaches'
      /\ \A v \in Fetchers : \A k \in Hosts : v # w \/ k # h => FarOf(v, k)' = FarOf(v, k)
      /\ Cardinality(FarOf(w, h)') <= Cardinality(FarOf(w, h)) + 1
      /\ \A k \in Hosts : \A t \in slots'[k] : t \in slots[k] \/ (k = h /\ t.by = w)
  BY <1>1, TakeReaches
<1>3. /\ FewFarSlots /\ SleepsForSlot /\ MarkerReaches /\ hops \in [Fetchers -> 0..MostHops]
      /\ \A v \in Fetchers : phase[v] # "free" => host[v] \in Hosts
  BY DEF ReachInv, HostInv, HostTypes, FetchTypes
<1>4. ASSUME NEW v \in Fetchers, NEW k \in Hosts PROVE Cardinality(FarOf(v, k)') <= Most(v, k)'
  <2>1. CASE v # w \/ k # h
    <3>1. FarOf(v, k)' = FarOf(v, k) /\ Most(v, k)' = Most(v, k)
      BY <1>1, <1>2, <1>3, <2>1 DEF Most
    <3> QED BY <1>3, <3>1 DEF FewFarSlots
  <2>2. CASE v = w /\ k = h
    <3>1. Most(w, h)' = hops[w] + 1 /\ Most(w, h) = hops[w] /\ hops[w] \in Nat
      BY <1>1, <1>3 DEF Most
    <3>2. Cardinality(FarOf(w, h)) <= hops[w]
      BY <1>1, <1>3, <3>1 DEF FewFarSlots
    <3>3. FarOf(w, h) \subseteq slots[h] /\ FarOf(w, h)' \subseteq slots'[h]
          /\ IsFiniteSet(slots[h]) /\ IsFiniteSet(slots'[h])
      BY <1>1, <1>2, <1>3 DEF FarOf, SlotsFrom, MarkerReaches
    <3>4. IsFiniteSet(FarOf(w, h)) /\ IsFiniteSet(FarOf(w, h)')
      BY <3>3, FS_Subset
    <3>5. Cardinality(FarOf(w, h)) \in Nat /\ Cardinality(FarOf(w, h)') \in Nat
      BY <3>4, FS_CardinalityType
    <3>6. Cardinality(FarOf(w, h)') <= hops[w] + 1
      BY <1>2, <3>1, <3>2, <3>5
    <3> QED BY <2>2, <3>1, <3>6
  <2> QED BY <2>1, <2>2
<1>5. ASSUME NEW v \in Fetchers, phase'[v] = "sleeping", NEW t \in slots'[host'[v]], t.by = v
      PROVE  t.at <= wait'[v]
  <2>1. phase[v] = "sleeping" /\ host'[v] = host[v] /\ wait'[v] = wait[v] /\ host[v] \in Hosts /\ v # w
    BY <1>1, <1>3, <1>5
  <2>2. t \in slots[host[v]]
    BY <1>2, <1>5, <2>1
  <2> QED BY <1>3, <1>5, <2>1, <2>2 DEF SleepsForSlot
<1> QED BY <1>2, <1>4, <1>5 DEF FewFarSlots, SleepsForSlot

\* A worker whose sleep is over has no slot ahead of it at the host it slept for.
LEMMA SleptHasNoneFar ==
  ASSUME ReachInv, NEW w \in Fetchers, phase[w] = "sleeping", wait[w] = 0
  PROVE  FarOf(w, host[w]) = {}
<1>1. host[w] \in Hosts /\ SleepsForSlot /\ slots \in [Hosts -> SUBSET SlotType]
  BY DEF ReachInv, HostInv, HostTypes
<1>2. OutFrom \in Nat /\ OutFrom >= 1
  BY NearbyIsLast
<1>3. ASSUME NEW t \in slots[host[w]], t.by = w PROVE ~(t.at >= OutFrom)
  <2>1. t.at <= 0 /\ t.at \in Int
    BY <1>1, <1>3 DEF SleepsForSlot, SlotType
  <2> QED BY <1>2, <2>1
<1> QED BY <1>3 DEF FarOf, SlotsFrom

LEMMA SendingReaches ==
  ASSUME ReachInv, NEW w \in Fetchers, Send(w)
  PROVE  FewFarSlots' /\ SleepsForSlot'
<1> PICK h : h = host[w]
  OBVIOUS
<1>1. /\ h \in Hosts /\ phase[w] = "sleeping" /\ wait[w] = 0 /\ phase' = [phase EXCEPT ![w] = "sent"]
      /\ UNCHANGED <<slots, host, wait, hops>>
  BY DEF Send, GotoPhase, hostVars, ReachInv, HostInv, HostTypes
<1>2. /\ FewFarSlots /\ SleepsForSlot /\ hops \in [Fetchers -> 0..MostHops]
      /\ phase \in [Fetchers -> Phases] /\ slots \in [Hosts -> SUBSET SlotType]
  BY DEF ReachInv, HostInv, HostTypes, FetchTypes
<1>3. FarOf(w, h) = {}
  BY <1>1, SleptHasNoneFar
<1>4. \A v \in Fetchers : \A k \in Hosts : FarOf(v, k)' = FarOf(v, k)
  BY <1>1 DEF FarOf, SlotsFrom
<1>5. ASSUME NEW v \in Fetchers, NEW k \in Hosts PROVE Cardinality(FarOf(v, k)) <= Most(v, k)'
  <2>1. CASE v # w \/ k # h
    <3>1. Most(v, k)' = Most(v, k)
      BY <1>1, <1>2, <2>1 DEF Most
    <3> QED BY <1>2, <3>1 DEF FewFarSlots
  <2>2. CASE v = w /\ k = h
    <3>1. Most(w, h)' = hops[w] /\ hops[w] \in Nat
      BY <1>1, <1>2 DEF Most
    <3> QED BY <1>3, <2>2, <3>1, FS_EmptySet
  <2> QED BY <2>1, <2>2
<1>6. ASSUME NEW v \in Fetchers, phase'[v] = "sleeping", NEW t \in slots'[host'[v]], t.by = v
      PROVE  t.at <= wait'[v]
  BY <1>1, <1>2, <1>6 DEF SleepsForSlot
<1> QED BY <1>4, <1>5, <1>6 DEF FewFarSlots, SleepsForSlot

\* A process ends only while no marker is far out, so its slots are not either.
LEMMA RestartIsNearby ==
  ASSUME ReachInv, NEW w \in Fetchers, Restart(w), NEW h \in Hosts
  PROVE  FarOf(w, h) = {}
<1>1. /\ owed[h] <= Horizon /\ owed[h] \in Nat /\ MarkerIsLast /\ slots[h] \subseteq SlotType
  BY DEF Restart, ReachInv, HostInv, HostTypes
<1>2. OutFrom \in Nat /\ Nearby \in Nat /\ Nearby <= OutFrom /\ Horizon <= Nearby /\ Horizon \in Nat
  BY NearbyIsLast, HostAssumption
<1>3. ASSUME NEW t \in slots[h] PROVE ~(t.at >= OutFrom)
  <2>1. t.at \in Int /\ t.gap \in Nat /\ t.gap >= 1 /\ t.at + t.gap <= owed[h]
    BY <1>1 DEF MarkerIsLast, SlotType
  <2> QED BY <1>1, <1>2, <2>1
<1> QED BY <1>3 DEF FarOf, SlotsFrom

LEMMA WorkersMove ==
  ASSUME ReachInv, NEW w \in Fetchers,
         \/ EndsFetch(w) \/ Prepares(w) \/ PenalizeHost(w) \/ Restart(w)
         \/ \E h \in Hosts : CrossHost(w, h)
  PROVE  UNCHANGED slots /\ FewFarSlots' /\ SleepsForSlot'
<1>1. /\ phase \in [Fetchers -> Phases] /\ host \in [Fetchers -> Hosts \cup {NoHost}]
      /\ hops \in [Fetchers -> 0..MostHops] /\ wait \in [Fetchers -> 0..MaxOwed]
  BY DEF ReachInv, HostInv, HostTypes, FetchTypes
<1> DEFINE Moves ==
      /\ UNCHANGED slots
      /\ phase[w] # "sleeping" \/ Restart(w) \/ wait[w] = 0
      /\ \E p : p \notin {"sleeping", "sent"} /\ phase' = [phase EXCEPT ![w] = p]
      /\ \A v \in Fetchers : v # w => host'[v] = host[v] /\ hops'[v] = hops[v] /\ wait'[v] = wait[v]
<1>2. Moves
  <2>1. CASE EndsFetch(w) \/ PenalizeHost(w)
    BY <1>1, <2>1 DEF EndsFetch, Refused, BudgetSpent, FetchAnswered, PenalizeHost, OnTheWire,
      FinishFetch, GotoPhase, hostVars
  <2>2. CASE Restart(w)
    BY <1>1, <2>2 DEF Restart, FinishFetch, GotoPhase
  <2>3. ASSUME NEW h \in Hosts, Peek(w, h) \/ CrossHost(w, h) PROVE Moves
    <3>1. CASE Peek(w, h)
      <4>1. /\ UNCHANGED <<slots, hops>> /\ phase[w] # "sleeping" /\ host' = [host EXCEPT ![w] = h]
            /\ \/ phase' = [phase EXCEPT ![w] = "ready"] /\ wait' = wait
               \/ phase' = [phase EXCEPT ![w] = "deferred"] /\ wait' = [wait EXCEPT ![w] = owed[h]]
        BY <3>1 DEF Peek, GotoPhase, hostVars
      <4> QED BY <1>1, <4>1
    <3>2. CASE CrossHost(w, h)
      BY <1>1, <3>2 DEF CrossHost, OnTheWire, GotoPhase, hostVars
    <3> QED BY <2>3, <3>1, <3>2
  <2>4. CASE CheckRobots(w) \/ RaiseDelay(w) \/ CountRequest(w)
    BY <1>1, <2>4 DEF CheckRobots, RaiseDelay, CountRequest, GotoPhase, hostVars
  <2> QED BY <2>1, <2>2, <2>3, <2>4 DEF Prepares
<1>3. \A v \in Fetchers : v # w => UNCHANGED <<phase[v], host[v], hops[v], wait[v]>>
  BY <1>1, <1>2
<1>4. phase'[w] \notin {"sleeping", "sent"}
  BY <1>1, <1>2
<1>5. phase[w] # "sleeping" \/ FarOf(w, host[w]) = {}
  <2>1. phase[w] = "sleeping" => host[w] \in Hosts
    BY DEF ReachInv, HostInv, HostTypes
  <2> QED BY <1>2, <2>1, RestartIsNearby, SleptHasNoneFar
<1>6. UNCHANGED slots
  BY <1>2
<1> QED BY <1>3, <1>4, <1>5, <1>6, MovingKeepsFew

LEMMA StepKeepsReach ==
  ASSUME ReachInv, [HostNext]_slotVars
  PROVE  ReachInv'
<1>1. HostInv' /\ FetchTypes'
  BY HostStepKeepsInv, FetchStaysTyped DEF ReachInv
<1>2. HostTypes /\ MarkerReaches /\ FewFarSlots /\ SleepsForSlot /\ NobodyAsks
  BY DEF ReachInv, HostInv
<1>3. ASSUME UNCHANGED <<owed, slots>> PROVE MarkerReaches'
  BY <1>2, <1>3 DEF MarkerReaches, SlotsFrom
<1>4. ASSUME NEW w \in Fetchers, PenalizeHost(w) PROVE MarkerReaches'
  <2> PICK h : h = host[w]
    OBVIOUS
  <2>1. PICK seconds \in Backoffs : owed' = [owed EXCEPT ![h] = Penalty(h, seconds)]
    BY <1>4 DEF PenalizeHost
  <2>2. h \in Hosts /\ UNCHANGED slots /\ owed \in [Hosts -> Nat]
    BY <1>2, <1>4 DEF PenalizeHost, OnTheWire, HostTypes
  <2>3. /\ seconds \in Nat /\ seconds <= OutFrom /\ MaxGap \in Nat /\ MaxGap >= 1 /\ OutFrom \in Nat
    <3>1. /\ OutFrom \in Nat /\ Nearby \in Nat /\ Nearby <= OutFrom /\ seconds <= Nearby
          /\ seconds \in Nat
      BY NearbyIsLast, HostAssumption
    <3>2. MaxGap \in Nat /\ Floor[h] <= MaxGap /\ Floor[h] \in Nat /\ Floor[h] >= 1
      BY <2>2, GapIsBounded, HostAssumption
    <3> QED BY <3>1, <3>2
  <2>4. Penalty(h, seconds) = IF owed[h] >= seconds THEN owed[h] ELSE seconds
    <3>1. owed[h] \in Int /\ seconds \in Int
      BY <2>2, <2>3
    <3> QED BY <3>1, LargestOfTwo DEF Penalty, Greatest
  <2>5. ASSUME NEW k \in Hosts, NEW x \in Nat, x >= OutFrom
        PROVE  owed'[k] < x + MaxGap * (Cardinality(SlotsFrom(k, x)) + 1)
    <3> PICK n : n = Cardinality(SlotsFrom(k, x))
      OBVIOUS
    <3>1. owed[k] < x + MaxGap * (n + 1)
      BY <1>2, <2>5 DEF MarkerReaches
    <3>2. n \in Nat
      <4>1. SlotsFrom(k, x) \subseteq slots[k] /\ IsFiniteSet(slots[k])
        BY <1>2 DEF SlotsFrom, MarkerReaches
      <4> QED BY <4>1, FS_Subset, FS_CardinalityType
    <3>3. MaxGap * (n + 1) = MaxGap * n + MaxGap /\ MaxGap * n \in Nat
      BY <2>3, <3>2, Products
    <3> PICK y : y = MaxGap * n
      OBVIOUS
    <3>4. owed'[k] = owed[k] \/ owed'[k] = seconds
      BY <2>1, <2>2, <2>4
    <3>5. seconds < x + MaxGap * (n + 1)
      BY <2>3, <2>5, <3>3
    <3> QED BY <3>1, <3>4, <3>5
  <2>6. \A k \in Hosts : \A x \in Nat : SlotsFrom(k, x)' = SlotsFrom(k, x)
    BY <2>2 DEF SlotsFrom
  <2>7. \A k \in Hosts : IsFiniteSet(slots'[k])
    BY <1>2, <2>2 DEF MarkerReaches
  <2> QED BY <2>5, <2>6, <2>7 DEF MarkerReaches
<1>5. ASSUME NEW w \in Fetchers,
             \/ EndsFetch(w) \/ Prepares(w) \/ Send(w) \/ Restart(w)
             \/ \E h \in Hosts : CrossHost(w, h)
      PROVE  UNCHANGED <<owed, slots>>
  BY <1>5 DEF EndsFetch, Refused, BudgetSpent, FetchAnswered, Prepares, Peek, CheckRobots, RaiseDelay,
    CountRequest, Send, Restart, CrossHost, hostVars
<1>6. ASSUME NEW w \in Fetchers,
             \/ EndsFetch(w) \/ Prepares(w) \/ Restart(w) \/ PenalizeHost(w)
             \/ \E h \in Hosts : CrossHost(w, h)
      PROVE  MarkerReaches' /\ FewFarSlots' /\ SleepsForSlot'
  <2>1. FewFarSlots' /\ SleepsForSlot'
    BY <1>6, WorkersMove
  <2> QED BY <1>3, <1>4, <1>5, <1>6, <2>1
<1>7. ASSUME NEW w \in Fetchers, Send(w)
      PROVE  MarkerReaches' /\ FewFarSlots' /\ SleepsForSlot'
  BY <1>3, <1>5, <1>7, SendingReaches
<1>8. CASE UNCHANGED slotVars
  <2>1. UNCHANGED <<owed, slots, phase, host, wait, hops>>
    BY <1>8 DEF slotVars, hostVars, fetchVars
  <2>2. \A w \in Fetchers : \A h \in Hosts : FarOf(w, h)' = FarOf(w, h) /\ Most(w, h)' = Most(w, h)
    BY <2>1 DEF FarOf, SlotsFrom, Most
  <2>3. FewFarSlots' /\ SleepsForSlot'
    BY <1>2, <2>1, <2>2 DEF FewFarSlots, SleepsForSlot
  <2>4. NobodyAsks'
    BY <1>2, <2>1 DEF NobodyAsks
  <2> QED BY <1>1, <1>3, <2>1, <2>3, <2>4 DEF ReachInv
<1>9. CASE HostTick
  <2>1. NobodyAsks'
    BY <1>2, <1>9 DEF NobodyAsks, HostTick, Less
  <2> QED BY <1>1, <1>9, <2>1, TickReaches DEF ReachInv
<1>10. ASSUME NEW w \in Fetchers, MarkerReaches', FewFarSlots', SleepsForSlot' PROVE ReachInv'
  BY <1>1, <1>10 DEF ReachInv, NobodyAsks
<1>11. ASSUME NEW w \in Fetchers, Reserves(w) PROVE ReachInv'
  BY <1>10, <1>11, ReservingReaches
<1>12. ASSUME NEW w \in Fetchers, RecordHop(w) PROVE ReachInv'
  BY <1>10, <1>12, HoppingReaches
<1> QED BY <1>6, <1>7, <1>8, <1>9, <1>10, <1>11, <1>12, StepsOfHosts

LEMMA ReachBegins == HostInit => ReachInv
<1> SUFFICES ASSUME HostInit PROVE ReachInv
  OBVIOUS
<1>1. HostInv
  BY HostAssumption DEF HostInit, HostInv, HostTypes, DelaysHold, MarkerIsLast, SlotsApart,
    PenaltyKept, Phases
<1>2. MaxGap \in Nat /\ MaxOwed \in Nat /\ OutFrom \in Nat /\ OutFrom >= 1
  BY GapIsBounded, MaxOwedIsNat, NearbyIsLast
<1>3. FetchTypes
  BY <1>2, HopsAreCounted, HostAssumption DEF HostInit, FetchTypes
<1>4. MarkerReaches
  <2> SUFFICES ASSUME NEW h \in Hosts
               PROVE  /\ IsFiniteSet({})
                      /\ \A x \in Nat : x >= OutFrom => 0 < x + MaxGap * (Cardinality(SlotsFrom(h, x)) + 1)
    BY DEF HostInit, MarkerReaches
  <2>1. ASSUME NEW x \in Nat, x >= OutFrom PROVE 0 < x + MaxGap * (Cardinality(SlotsFrom(h, x)) + 1)
    <3>1. SlotsFrom(h, x) = {}
      BY DEF SlotsFrom, HostInit
    <3>2. Cardinality(SlotsFrom(h, x)) = 0
      BY <3>1, FS_EmptySet
    <3> QED BY <1>2, <2>1, <3>2
  <2> QED BY <2>1, FS_EmptySet
<1>5. FewFarSlots
  <2> SUFFICES ASSUME NEW w \in Fetchers, NEW h \in Hosts PROVE Cardinality(FarOf(w, h)) <= Most(w, h)
    BY DEF FewFarSlots
  <2>1. FarOf(w, h) = {}
    BY DEF FarOf, SlotsFrom, HostInit
  <2>2. Cardinality(FarOf(w, h)) = 0
    BY <2>1, FS_EmptySet
  <2>3. Most(w, h) = MostHops /\ MostHops \in Nat
    BY HopsAreCounted DEF HostInit, Most
  <2> QED BY <2>2, <2>3
<1>6. SleepsForSlot /\ NobodyAsks
  BY DEF HostInit, SleepsForSlot, NobodyAsks
<1> QED BY <1>1, <1>3, <1>4, <1>5, <1>6 DEF ReachInv

-----------------------------------------------------------------------------
(* All workers: what is slept through.                                     *)

\* Who takes a slot sleeps as long as the marker is out, which no back-off
\* recorded by then outlasts; one recorded later makes the sleeper early.
QuietInv ==
  HostInv /\ wait \in [Fetchers -> Nat] /\ early \subseteq Fetchers /\ BackoffSleptThrough

LEMMA StepKeepsQuiet ==
  ASSUME QuietInv, [HostNext]_slotVars
  PROVE  QuietInv'
<1>1. /\ HostTypes /\ PenaltyKept /\ HostInv' /\ wait \in [Fetchers -> Nat] /\ early \subseteq Fetchers
      /\ owed \in [Hosts -> Nat] /\ quiet \in [Hosts -> Nat] /\ phase \in [Fetchers -> Phases]
      /\ \A h \in Hosts : quiet[h] <= owed[h]
  BY HostStepKeepsInv DEF QuietInv, HostInv, HostTypes, PenaltyKept
<1>2. ASSUME NEW v \in Fetchers, phase[v] = "sleeping", v \notin early
      PROVE  host[v] \in Hosts /\ quiet[host[v]] <= wait[v]
  BY <1>1, <1>2 DEF QuietInv, BackoffSleptThrough, HostTypes
\* A worker that is not asleep after its step has only to leave the others alone.
<1>3. ASSUME NEW w \in Fetchers, UNCHANGED quiet, early' \in {early, early \ {w}},
             \E p \in Phases \ {"sleeping"} : phase' = [phase EXCEPT ![w] = p],
             \/ UNCHANGED host
             \/ \E h \in Hosts \cup {NoHost} : host' = [host EXCEPT ![w] = h],
             \/ UNCHANGED wait
             \/ \E n \in Nat : wait' = [wait EXCEPT ![w] = n]
      PROVE  QuietInv'
  <2>1. wait' \in [Fetchers -> Nat] /\ phase'[w] # "sleeping"
    BY <1>1, <1>3
  <2>2. ASSUME NEW v \in Fetchers, phase'[v] = "sleeping", v \notin early'
        PROVE  quiet'[host'[v]] <= wait'[v]
    <3>1. v # w
      BY <2>1, <2>2
    <3>2. phase[v] = "sleeping" /\ v \notin early
      BY <1>1, <1>3, <2>2, <3>1
    <3>3. host'[v] = host[v]
      BY <1>1, <1>3, <3>1 DEF HostTypes
    <3>4. wait'[v] = wait[v]
      BY <1>1, <1>3, <3>1
    <3> QED BY <1>2, <1>3, <3>2, <3>3, <3>4
  <2> QED BY <1>1, <1>3, <2>1, <2>2 DEF QuietInv, BackoffSleptThrough
<1>4. ASSUME NEW w \in Fetchers, EndsFetch(w) \/ Restart(w) PROVE QuietInv'
  <2>1. /\ UNCHANGED quiet /\ early' \in {early, early \ {w}} /\ FinishFetch(w)
    BY <1>4 DEF EndsFetch, Refused, BudgetSpent, FetchAnswered, Restart, hostVars
  <2>2. /\ phase' = [phase EXCEPT ![w] = "free"] /\ "free" \in Phases \ {"sleeping"}
        /\ host' = [host EXCEPT ![w] = NoHost] /\ wait' = [wait EXCEPT ![w] = 0] /\ 0 \in Nat
    BY <2>1 DEF FinishFetch, GotoPhase, Phases
  <2> QED BY <1>3, <2>1, <2>2
<1>5. ASSUME NEW w \in Fetchers, NEW h \in Hosts, Peek(w, h) PROVE QuietInv'
  <2>1. /\ UNCHANGED <<quiet, early>> /\ host' = [host EXCEPT ![w] = h]
        /\ \/ phase' = [phase EXCEPT ![w] = "ready"] /\ wait' = wait
           \/ phase' = [phase EXCEPT ![w] = "deferred"] /\ wait' = [wait EXCEPT ![w] = owed[h]]
    BY <1>5 DEF Peek, GotoPhase, hostVars
  <2>2. "ready" \in Phases \ {"sleeping"} /\ "deferred" \in Phases \ {"sleeping"} /\ owed[h] \in Nat
    BY <1>1 DEF Phases
  <2> QED BY <1>3, <2>1, <2>2
<1>6. ASSUME NEW w \in Fetchers, NEW h \in Hosts, CrossHost(w, h) PROVE QuietInv'
  <2>1. /\ UNCHANGED <<quiet, early, wait>> /\ host' = [host EXCEPT ![w] = h]
        /\ phase' = [phase EXCEPT ![w] = "crossing"] /\ "crossing" \in Phases \ {"sleeping"}
    BY <1>6 DEF CrossHost, GotoPhase, hostVars, Phases
  <2> QED BY <1>3, <2>1
<1>7. ASSUME NEW w \in Fetchers, CheckRobots(w) \/ RaiseDelay(w) \/ CountRequest(w) \/ Send(w)
      PROVE  QuietInv'
  <2>1. /\ UNCHANGED <<quiet, wait, host>> /\ early' \in {early, early \ {w}}
        /\ \E p \in Phases \ {"sleeping"} : phase' = [phase EXCEPT ![w] = p]
    BY <1>7 DEF CheckRobots, RaiseDelay, CountRequest, Send, GotoPhase, hostVars, Phases
  <2> QED BY <1>3, <2>1
<1>8. ASSUME NEW w \in Fetchers, Reserves(w) PROVE QuietInv'
  <2> PICK h : h = host[w]
    OBVIOUS
  <2>1. /\ h \in Hosts /\ UNCHANGED <<quiet, host>> /\ phase' = [phase EXCEPT ![w] = "sleeping"]
        /\ wait' = [wait EXCEPT ![w] = owed[h]] /\ early' = early \ {w}
    BY <1>1, <1>8 DEF Reserves, Acquire, AcquireHop, Reserve, GotoPhase, HostTypes
  <2>2. wait' \in [Fetchers -> Nat] /\ wait'[w] = owed[h] /\ quiet[h] <= owed[h]
    BY <1>1, <2>1
  <2>3. ASSUME NEW v \in Fetchers, phase'[v] = "sleeping", v \notin early', v # w
        PROVE  quiet'[host'[v]] <= wait'[v]
    <3>1. phase[v] = "sleeping" /\ v \notin early /\ wait'[v] = wait[v] /\ host'[v] = host[v]
      BY <1>1, <2>1, <2>3
    <3> QED BY <1>2, <2>1, <3>1
  <2> QED BY <1>1, <2>1, <2>2, <2>3 DEF QuietInv, BackoffSleptThrough
<1>9. ASSUME NEW w \in Fetchers, PenalizeHost(w) PROVE QuietInv'
  <2> PICK h : h = host[w]
    OBVIOUS
  <2>1. /\ h \in Hosts /\ phase' = [phase EXCEPT ![w] = "free"] /\ host' = [host EXCEPT ![w] = NoHost]
        /\ wait' = [wait EXCEPT ![w] = 0]
        /\ early' = early \cup {v \in Fetchers : phase[v] = "sleeping" /\ host[v] = h}
        /\ \A k \in Hosts : k # h => quiet'[k] = quiet[k]
    BY <1>1, <1>9 DEF PenalizeHost, OnTheWire, FinishFetch, GotoPhase, HostTypes
  <2>2. ASSUME NEW v \in Fetchers, phase'[v] = "sleeping", v \notin early'
        PROVE  quiet'[host'[v]] <= wait'[v]
    <3>1. v # w
      BY <1>1, <2>1, <2>2
    <3>2. phase[v] = "sleeping" /\ v \notin early /\ host[v] # h /\ wait'[v] = wait[v]
      BY <1>1, <2>1, <2>2, <3>1
    <3>3. host'[v] = host[v] /\ host[v] \in Hosts
      BY <1>1, <2>1, <3>1, <3>2 DEF HostTypes
    <3> QED BY <1>2, <2>1, <3>2, <3>3
  <2> QED BY <1>1, <2>1, <2>2 DEF QuietInv, BackoffSleptThrough
<1>10. ASSUME NEW w \in Fetchers, RecordHop(w) PROVE QuietInv'
  BY <1>1, <1>2, <1>10 DEF RecordHop, QuietInv, BackoffSleptThrough
<1>11. CASE HostTick
  <2>1. /\ quiet' = [h \in Hosts |-> Less(quiet[h])] /\ wait' = [w \in Fetchers |-> Less(wait[w])]
        /\ UNCHANGED <<early, phase, host>>
    BY <1>11 DEF HostTick
  <2>2. wait' \in [Fetchers -> Nat]
    BY <1>1, <2>1 DEF Less
  <2>3. ASSUME NEW v \in Fetchers, phase[v] = "sleeping", v \notin early
        PROVE  quiet'[host[v]] <= wait'[v]
    <3>1. host[v] \in Hosts /\ quiet[host[v]] <= wait[v]
      BY <1>2, <2>3
    <3>2. quiet'[host[v]] = Less(quiet[host[v]]) /\ wait'[v] = Less(wait[v])
      BY <2>1, <3>1
    <3>3. quiet[host[v]] \in Nat /\ wait[v] \in Nat
      BY <1>1, <3>1
    <3> QED BY <3>1, <3>2, <3>3 DEF Less
  <2> QED BY <1>1, <2>1, <2>2, <2>3 DEF QuietInv, BackoffSleptThrough
<1>12. CASE UNCHANGED slotVars
  BY <1>1, <1>2, <1>12 DEF QuietInv, BackoffSleptThrough, slotVars, hostVars, fetchVars
<1> QED BY <1>4, <1>5, <1>6, <1>7, <1>8, <1>9, <1>10, <1>11, <1>12, StepsOfHosts, Zenon DEF Prepares

LEMMA QuietBegins == HostInit => QuietInv
BY HostAssumption DEF HostInit, HostInv, HostTypes, DelaysHold, MarkerIsLast, SlotsApart, PenaltyKept,
  Phases, QuietInv, BackoffSleptThrough

\* Whichever workers ask, and however often they are restarted: a host's slots
\* are a floor and a recorded Crawl-delay apart, the marker is never brought
\* before the end of a back-off, whoever takes a slot after it was recorded
\* sleeps through it, and no span as long as a window sees more than two
\* ceilings of requests reserved.
THEOREM HostIsRespected == HostSpec => []HostRespected
<1>1. HostInit => QuietInv
  BY QuietBegins
<1>2. HostInit => BudgetInv
  BY BudgetBegins
<1>3. QuietInv /\ [HostNext]_slotVars => QuietInv'
  BY StepKeepsQuiet
<1>4. BudgetInv /\ [HostNext]_slotVars => BudgetInv'
  BY BudgetStepKeepsInv
<1>5. QuietInv /\ BudgetInv => HostRespected
  BY BudgetInvHolds DEF HostInv, QuietInv, HostRespected
<1> QED BY <1>1, <1>2, <1>3, <1>4, <1>5, PTL DEF HostSpec

\* However many workers ask, and whatever they are answered: a marker is never
\* farther out than the longest back-off and, after it, the slots of one fetch
\* of each worker, so no worker waits for longer than that.
THEOREM HostTypeCorrect == HostSpec => []HostTypeOK
<1>1. ReachInv /\ BudgetInv /\ QuietInv => HostTypeOK
  <2> SUFFICES ASSUME ReachInv, BudgetInv, QuietInv PROVE HostTypeOK
    OBVIOUS
  <2>1. owed \in [Hosts -> 0..MaxOwed]
    BY MarkerIsWithin DEF ReachInv, HostInv, HostTypes
  <2> QED BY <2>1 DEF ReachInv, HostInv, HostTypes, FetchTypes, BudgetInv, QuietInv, HostTypeOK
<1>2. ReachInv /\ [HostNext]_slotVars => ReachInv'
  BY StepKeepsReach
<1>3. BudgetInv /\ [HostNext]_slotVars => BudgetInv'
  BY BudgetStepKeepsInv
<1>4. HostInit => QuietInv
  BY QuietBegins
<1>5. QuietInv /\ [HostNext]_slotVars => QuietInv'
  BY StepKeepsQuiet
<1> QED BY <1>1, <1>2, <1>3, <1>4, <1>5, ReachBegins, BudgetBegins, PTL DEF HostSpec

-----------------------------------------------------------------------------
(* The doorbell: a task is ended by one execution, which alone may ring for *)
(* it, and what it looks at is no older than the park it rings for.        *)

Past(r) == step[r] \in {"failing", "ended", "ringing", "rung"}
Announcing(r) == step[r] \in {"ringing", "rung"}

\* A claim is held at work, on an open task, by one execution.
ClaimsAreOpen ==
  /\ \A r \in holder : step[r] \in AtWork /\ taskOf[r] \in openTasks
  /\ \A q, r \in holder : taskOf[q] = taskOf[r] => q = r

\* A task is ended once, and rings after that, once.
EndedOnce ==
  /\ \A r \in Executions : Past(r) => taskOf[r] \in (1..given) \ openTasks
  /\ \A q, r \in Executions : Past(q) /\ Past(r) /\ taskOf[q] = taskOf[r] => q = r
  /\ \A t \in 1..MaxGiven : rang[t] <= 1 /\ (t \in openTasks \/ t > given => rang[t] = 0)
  /\ \A r \in Executions : Past(r) /\ step[r] # "rung" => rang[taskOf[r]] = 0

\* What waits has a park, and no park is later than the clock.
ParksAreTimed ==
  /\ \A r \in Executions : began[r] <= clock
  /\ \A s \in Waiting : parkedAt[s] <= clock
  /\ \A s \in Waiting : appStatus = s => parks[s] > 0
  /\ \A r \in Executions : \A s \in Waiting : copy[r] = s => parks[s] > 0

\* While a park is the last of its kind, who rings for it began after it.
BellsAreTimed ==
  \A r \in Executions : Announcing(r) =>
    /\ copy[r] \in Waiting /\ about[r] \in 1..parks[copy[r]] /\ began[r] > 0
    /\ about[r] = parks[copy[r]] => parkedAt[copy[r]] <= began[r]
    /\ ~again[r]

\* A park that was told is an earlier one of its kind, or found announced.
ToldIsOnRecord ==
  /\ \A s \in Waiting : \A n \in ParkNumbers : <<s, n>> \in heard => n <= parks[s]
  /\ \A s \in Waiting : <<s, parks[s]>> \in heard => Announced(s)

DoorbellInv ==
  DoorbellTypeOK /\ ClaimsAreOpen /\ EndedOnce /\ ParksAreTimed /\ BellsAreTimed /\ ToldIsOnRecord

\* A write of the status: a park of its kind, timed no later than now, or none.
LEMMA StatusWritten ==
  ASSUME DoorbellTypeOK, ParksAreTimed, NEW r \in Executions, NEW s \in AppStatuses, WriteStatus(r, s)
  PROVE  /\ appStatus' = s
         /\ parks' \in [Waiting -> ParkNumbers] /\ parkedAt' \in [Waiting -> Clock]
         /\ \A w \in Waiting : /\ parks'[w] = IF w = s THEN parks[w] + 1 ELSE parks[w]
                               /\ w # s => parkedAt'[w] = parkedAt[w]
                               /\ parkedAt'[w] <= clock
<1>1. /\ MaxParks \in Nat /\ MaxClock \in Nat /\ clock \in Clock /\ began[r] \in Clock
      /\ parks \in [Waiting -> ParkNumbers] /\ parkedAt \in [Waiting -> Clock]
      /\ \A w \in Waiting : parkedAt[w] <= clock
  BY DoorbellAssumption DEF DoorbellTypeOK, ParksAreTimed
<1>2. CASE s \notin Waiting
  BY <1>1, <1>2 DEF WriteStatus
<1>3. CASE s \in Waiting
  <2>1. parks[s] < MaxParks /\ parks' = [parks EXCEPT ![s] = @ + 1]
    BY <1>3 DEF WriteStatus
  <2>2. PICK at \in began[r]..clock : parkedAt' = [parkedAt EXCEPT ![s] = Later(@, at)]
    BY <1>3 DEF WriteStatus
  <2>3. Later(parkedAt[s], at) \in Clock /\ Later(parkedAt[s], at) <= clock
    BY <1>1, <1>3, <2>2 DEF Later, Clock
  <2>4. parks[s] + 1 \in ParkNumbers
    BY <1>1, <1>3, <2>1 DEF ParkNumbers
  <2> QED BY <1>1, <1>3, <2>1, <2>2, <2>3, <2>4 DEF WriteStatus
<1> QED BY <1>2, <1>3

\* What each step that writes no status leaves of the types.
LEMMA DoorbellStepTypes ==
  ASSUME DoorbellInv, [DoorbellNext]_doorbellVars
  PROVE  DoorbellTypeOK'
<1>1. /\ DoorbellTypeOK /\ ParksAreTimed /\ ClaimsAreOpen
      /\ MaxParks \in Nat /\ MaxGiven \in Nat /\ MaxClock \in Nat
  BY DoorbellAssumption DEF DoorbellInv
<1>2. ASSUME NEW r \in Executions, BeginTransaction(r)
      PROVE  clock' \in Clock /\ began' \in [Executions -> Clock]
  <2>1. clock' \in Clock
    BY <1>1, <1>2 DEF BeginTransaction, DoorbellTypeOK, Clock
  <2> QED BY <1>1, <1>2, <2>1 DEF BeginTransaction, DoorbellTypeOK
<1>3. ASSUME NEW r \in Executions, LeaveRun(r)
      PROVE  /\ step' \in [Executions -> Steps] /\ taskOf' \in [Executions -> 0..MaxGiven]
             /\ began' \in [Executions -> Clock] /\ copy' \in [Executions -> AppStatuses]
             /\ about' \in [Executions -> ParkNumbers] /\ again' \in [Executions -> BOOLEAN]
  <2>1. 0 \in Clock /\ 0 \in ParkNumbers /\ 0 \in 0..MaxGiven
    BY <1>1 DEF Clock, ParkNumbers
  <2> QED BY <1>1, <1>3, <2>1 DEF LeaveRun, GotoPlace, HoldCopy, DoorbellTypeOK, Steps, AppStatuses
<1>4. ASSUME NEW r \in Executions, NEW t \in 1..given, TakeTask(r, t) PROVE DoorbellTypeOK'
  <2>1. t \in 0..MaxGiven
    BY <1>1 DEF DoorbellTypeOK
  <2> QED BY <1>1, <1>4, <2>1 DEF TakeTask, GotoPlace, eventVars, DoorbellTypeOK, Steps, AtWork
<1>5. ASSUME NEW r \in Executions, RunLosesClaim(r) PROVE DoorbellTypeOK'
  BY <1>1, <1>5 DEF RunLosesClaim, runOwnVars, eventVars, DoorbellTypeOK
<1>6. ASSUME NEW r \in Executions, GiveUpRun(r) \/ RunDies(r) PROVE DoorbellTypeOK'
  BY <1>1, <1>3, <1>6 DEF GiveUpRun, RunDies, eventVars, DoorbellTypeOK
<1>7. ASSUME NEW r \in Executions, OpenApplication(r) PROVE DoorbellTypeOK'
  BY <1>1, <1>2, <1>7 DEF OpenApplication, HoldCopy, GotoPlace, DoorbellTypeOK, Steps, AtWork, AppStatuses
<1>8. ASSUME NEW r \in Executions, FindItOver(r) \/ LeaveAsFound(r) PROVE DoorbellTypeOK'
  BY <1>1, <1>8 DEF FindItOver, LeaveAsFound, HoldCopy, GotoPlace, eventVars, DoorbellTypeOK, Steps, AtWork
<1>9. ASSUME NEW r \in Executions, CommitAttempt(r) PROVE DoorbellTypeOK'
  BY <1>1, <1>9 DEF CommitAttempt, runOwnVars, eventVars, DoorbellTypeOK, AppStatuses
<1>10. ASSUME NEW r \in Executions, NEW s \in AppStatuses, CommitAlone(r, s) PROVE DoorbellTypeOK'
  <2>1. parks' \in [Waiting -> ParkNumbers] /\ parkedAt' \in [Waiting -> Clock] /\ appStatus' = s
    BY <1>1, <1>10, StatusWritten DEF CommitAlone
  <2> QED BY <1>1, <1>10, <2>1 DEF CommitAlone, HoldCopy, GotoPlace, DoorbellTypeOK, Steps, AtWork
<1>11. ASSUME NEW r \in Executions, NEW s \in AppStatuses, CommitEnd(r, s) PROVE DoorbellTypeOK'
  <2>1. parks' \in [Waiting -> ParkNumbers] /\ parkedAt' \in [Waiting -> Clock] /\ appStatus' = s
    BY <1>1, <1>11, StatusWritten DEF CommitEnd
  <2> QED BY <1>1, <1>11, <2>1 DEF CommitEnd, EndsTask, HoldCopy, GotoPlace, DoorbellTypeOK, Steps
<1>12. ASSUME NEW r \in Executions, CloseTask(r) \/ FailTaskForGood(r) PROVE DoorbellTypeOK'
  BY <1>1, <1>12 DEF CloseTask, FailTaskForGood, EndsTask, GotoPlace, runOwnVars, eventVars,
    DoorbellTypeOK, Steps
<1>13. ASSUME NEW r \in Executions, FailApplication(r) PROVE DoorbellTypeOK'
  BY <1>1, <1>13 DEF FailApplication, HoldCopy, GotoPlace, eventVars, DoorbellTypeOK, Steps, AppStatuses, Over
<1>14. ASSUME NEW r \in Executions, Look(r) PROVE DoorbellTypeOK'
  <2>1. PICK s \in {copy[r], appStatus} :
          /\ s \in Waiting /\ copy' = [copy EXCEPT ![r] = s]
          /\ about' = [about EXCEPT ![r] = parks[s]]
          /\ again' = [again EXCEPT ![r] = <<s, parks[s]>> \in heard]
    BY <1>14 DEF Look, Unheard, HoldCopy
  <2>2. s \in AppStatuses /\ parks[s] \in ParkNumbers
    BY <1>1, <2>1 DEF DoorbellTypeOK, AppStatuses, Waiting, Over
  <2>3. again' \in [Executions -> BOOLEAN]
    BY <1>1, <2>1 DEF DoorbellTypeOK
  <2> QED BY <1>1, <1>2, <1>14, <2>1, <2>2, <2>3 DEF Look, GotoPlace, DoorbellTypeOK, Steps
<1>15. ASSUME NEW r \in Executions, StayQuiet(r) PROVE DoorbellTypeOK'
  BY <1>1, <1>3, <1>15 DEF StayQuiet, eventVars, DoorbellTypeOK
<1>16. ASSUME NEW r \in Executions, Deliver(r) PROVE DoorbellTypeOK'
  <2>1. taskOf[r] \in 1..MaxGiven
    BY <1>1, <1>16 DEF Deliver, DoorbellInv, DoorbellTypeOK, EndedOnce, Past
  <2>2. rang[taskOf[r]] + 1 \in Nat
    BY <1>1, <2>1 DEF DoorbellTypeOK
  <2>3. rang' \in [1..MaxGiven -> Nat]
    BY <1>1, <1>16, <2>2 DEF Deliver, DoorbellTypeOK
  <2> QED BY <1>1, <1>16, <2>3 DEF Deliver, GotoPlace, runOwnVars, DoorbellTypeOK, Steps
<1>17. ASSUME NEW r \in Executions, RecordNotified(r) PROVE DoorbellTypeOK'
  <2>1. copy[r] \in Waiting
    BY <1>17 DEF RecordNotified, DoorbellInv, BellsAreTimed, Announcing
  <2>2. Later(toldAt[copy[r]], began[r]) \in Clock
    BY <1>1, <2>1 DEF Later, DoorbellTypeOK
  <2> QED BY <1>1, <1>3, <1>17, <2>1, <2>2 DEF RecordNotified, DoorbellTypeOK
<1>18. ASSUME Approve PROVE DoorbellTypeOK'
  BY <1>1, <1>18 DEF Approve, runOwnVars, eventVars, DoorbellTypeOK, AppStatuses
<1>19. ASSUME NEW s \in AppStatuses, SettleByHand(s) PROVE DoorbellTypeOK'
  BY <1>1, <1>19 DEF SettleByHand, runOwnVars, eventVars, DoorbellTypeOK
<1>20. CASE UNCHANGED doorbellVars
  BY <1>1, <1>20 DEF doorbellVars, runOwnVars, eventVars, DoorbellTypeOK
<1> QED BY <1>4, <1>5, <1>6, <1>7, <1>8, <1>9, <1>10, <1>11, <1>12, <1>13, <1>14, <1>15, <1>16, <1>17,
      <1>18, <1>19, <1>20, Zenon DEF DoorbellNext

\* Whoever ends a task held it, so it was open, and nobody has ended it before.
LEMMA EndIsOne ==
  ASSUME DoorbellInv, NEW r \in Executions, EndsTask(r), step[r] \in AtWork,
         NEW p \in {"failing", "ended"}, GotoPlace(r, p), UNCHANGED <<given, taskOf, rang>>
  PROVE  (ClaimsAreOpen /\ EndedOnce)'
<1>1. DoorbellTypeOK /\ ClaimsAreOpen /\ EndedOnce
  BY DEF DoorbellInv
<1>2. /\ r \in holder /\ holder' = holder \ {r} /\ openTasks' = openTasks \ {taskOf[r]}
      /\ step' = [step EXCEPT ![r] = p] /\ taskOf' = taskOf /\ given' = given /\ rang' = rang
  BY DEF EndsTask, GotoPlace
<1>3. taskOf[r] \in openTasks /\ taskOf[r] \in 1..given /\ taskOf[r] \in 1..MaxGiven
  BY <1>1, <1>2 DEF ClaimsAreOpen, DoorbellTypeOK
<1>4. \A q \in Executions \ {r} : step'[q] = step[q] /\ (Past(q)' <=> Past(q))
  BY <1>1, <1>2 DEF DoorbellTypeOK, Past
<1>5. step'[r] = p /\ rang[taskOf[r]] = 0
  BY <1>1, <1>2, <1>3 DEF DoorbellTypeOK, EndedOnce
<1>6. \A q \in Executions \ {r} : Past(q) => taskOf[q] # taskOf[r]
  BY <1>1, <1>3 DEF EndedOnce
<1>7. ClaimsAreOpen'
  <2>1. \A q \in holder' : q \in holder /\ q # r /\ taskOf[q] # taskOf[r] /\ q \in Executions
    BY <1>1, <1>2 DEF ClaimsAreOpen, DoorbellTypeOK
  <2> QED BY <1>1, <1>2, <1>4, <2>1 DEF ClaimsAreOpen
<1>8. \A q \in Executions : Past(q)' => taskOf'[q] \in (1..given') \ openTasks'
  BY <1>1, <1>2, <1>3, <1>4 DEF EndedOnce
<1>9. \A q, u \in Executions : Past(q)' /\ Past(u)' /\ taskOf'[q] = taskOf'[u] => q = u
  BY <1>1, <1>2, <1>4, <1>6 DEF EndedOnce
<1>10. \A t \in 1..MaxGiven : rang'[t] <= 1 /\ (t \in openTasks' \/ t > given' => rang'[t] = 0)
  BY <1>1, <1>2 DEF EndedOnce
<1>11. \A q \in Executions : Past(q)' /\ step'[q] # "rung" => rang'[taskOf'[q]] = 0
  BY <1>1, <1>2, <1>4, <1>5 DEF EndedOnce
<1> QED BY <1>7, <1>8, <1>9, <1>10, <1>11 DEF EndedOnce

\* An execution that is over leaves the others as they are.
LEMMA LeavingIsAlone ==
  ASSUME DoorbellInv, NEW r \in Executions, LeaveRun(r), UNCHANGED <<given, openTasks, rang>>,
         holder' = holder \ {r}
  PROVE  (ClaimsAreOpen /\ EndedOnce)'
<1>1. DoorbellTypeOK /\ ClaimsAreOpen /\ EndedOnce
  BY DEF DoorbellInv
<1>2. step' = [step EXCEPT ![r] = "idle"] /\ taskOf' = [taskOf EXCEPT ![r] = 0]
  BY DEF LeaveRun, GotoPlace
<1>3. /\ \A q \in Executions \ {r} : step'[q] = step[q] /\ taskOf'[q] = taskOf[q] /\ (Past(q)' <=> Past(q))
      /\ step'[r] = "idle" /\ ~Past(r)'
  BY <1>1, <1>2 DEF DoorbellTypeOK, Past
<1>4. holder' \subseteq Executions \ {r} /\ holder' \subseteq holder
  BY <1>1 DEF DoorbellTypeOK
<1>5. ClaimsAreOpen'
  BY <1>1, <1>3, <1>4 DEF ClaimsAreOpen
<1> QED BY <1>1, <1>3, <1>5 DEF EndedOnce

\* A step of an execution at work that leaves it there.
LEMMA WorkIsAlone ==
  ASSUME DoorbellInv, NEW r \in Executions, step[r] \in AtWork, NEW p \in AtWork,
         step' = [step EXCEPT ![r] = p], UNCHANGED <<given, openTasks, rang, taskOf, holder>>
  PROVE  (ClaimsAreOpen /\ EndedOnce)'
<1>1. DoorbellTypeOK /\ ClaimsAreOpen /\ EndedOnce
  BY DEF DoorbellInv
<1>2. /\ \A q \in Executions \ {r} : step'[q] = step[q] /\ (Past(q)' <=> Past(q))
      /\ step'[r] = p /\ ~Past(r) /\ ~Past(r)'
  BY <1>1 DEF DoorbellTypeOK, Past, AtWork
<1>3. ClaimsAreOpen'
  BY <1>1, <1>2 DEF ClaimsAreOpen, DoorbellTypeOK
<1> QED BY <1>1, <1>2, <1>3 DEF EndedOnce

LEMMA DoorbellStepEnds ==
  ASSUME DoorbellInv, [DoorbellNext]_doorbellVars
  PROVE  (ClaimsAreOpen /\ EndedOnce)'
<1>1. DoorbellTypeOK /\ ClaimsAreOpen /\ EndedOnce /\ MaxGiven \in Nat
  BY DoorbellAssumption DEF DoorbellInv
<1>2. ASSUME NEW r \in Executions, NEW t \in 1..given, TakeTask(r, t) PROVE (ClaimsAreOpen /\ EndedOnce)'
  <2>1. /\ step' = [step EXCEPT ![r] = "claimed"] /\ holder' = holder \cup {r}
        /\ taskOf' = [taskOf EXCEPT ![r] = t] /\ t \in openTasks /\ step[r] = "idle"
        /\ \A q \in holder : taskOf[q] # t
        /\ UNCHANGED <<given, openTasks, rang>>
    BY <1>2 DEF TakeTask, GotoPlace, eventVars
  <2>2. /\ \A q \in Executions \ {r} : step'[q] = step[q] /\ taskOf'[q] = taskOf[q] /\ (Past(q)' <=> Past(q))
        /\ step'[r] = "claimed" /\ taskOf'[r] = t /\ ~Past(r) /\ ~Past(r)' /\ r \notin holder
    BY <1>1, <2>1 DEF DoorbellTypeOK, Past, ClaimsAreOpen, AtWork
  <2>3. ClaimsAreOpen'
    <3>1. \A q \in holder' : q = r \/ (q \in holder /\ q \in Executions \ {r})
      BY <1>1, <2>1, <2>2 DEF DoorbellTypeOK
    <3> QED BY <1>1, <2>1, <2>2, <3>1 DEF ClaimsAreOpen, AtWork
  <2> QED BY <1>1, <2>1, <2>2, <2>3 DEF EndedOnce
<1>3. ASSUME NEW r \in Executions, RunLosesClaim(r) PROVE (ClaimsAreOpen /\ EndedOnce)'
  BY <1>1, <1>3 DEF RunLosesClaim, runOwnVars, eventVars, ClaimsAreOpen, EndedOnce, Past
<1>4. ASSUME NEW r \in Executions, GiveUpRun(r) PROVE (ClaimsAreOpen /\ EndedOnce)'
  BY <1>4, LeavingIsAlone DEF GiveUpRun, eventVars
<1>5. ASSUME NEW r \in Executions, RunDies(r) PROVE (ClaimsAreOpen /\ EndedOnce)'
  BY <1>5, LeavingIsAlone DEF RunDies, eventVars
<1>6. ASSUME NEW r \in Executions, OpenApplication(r) PROVE (ClaimsAreOpen /\ EndedOnce)'
  BY <1>6, WorkIsAlone DEF OpenApplication, GotoPlace, AtWork
<1>7. ASSUME NEW r \in Executions, FindItOver(r) \/ LeaveAsFound(r) PROVE (ClaimsAreOpen /\ EndedOnce)'
  BY <1>7, WorkIsAlone DEF FindItOver, LeaveAsFound, GotoPlace, eventVars, AtWork
<1>8. ASSUME NEW r \in Executions, CommitAttempt(r) PROVE (ClaimsAreOpen /\ EndedOnce)'
  BY <1>1, <1>8 DEF CommitAttempt, runOwnVars, eventVars, ClaimsAreOpen, EndedOnce, Past
<1>9. ASSUME NEW r \in Executions, NEW s \in AppStatuses, CommitAlone(r, s)
      PROVE  (ClaimsAreOpen /\ EndedOnce)'
  BY <1>9, WorkIsAlone DEF CommitAlone, GotoPlace, AtWork
<1>10. ASSUME NEW r \in Executions, NEW s \in AppStatuses, CommitEnd(r, s)
       PROVE  (ClaimsAreOpen /\ EndedOnce)'
  BY <1>10, EndIsOne DEF CommitEnd, AtWork
<1>11. ASSUME NEW r \in Executions, CloseTask(r) PROVE (ClaimsAreOpen /\ EndedOnce)'
  BY <1>11, EndIsOne DEF CloseTask, AtWork, runOwnVars, eventVars
<1>12. ASSUME NEW r \in Executions, FailTaskForGood(r) PROVE (ClaimsAreOpen /\ EndedOnce)'
  BY <1>12, EndIsOne DEF FailTaskForGood, runOwnVars, eventVars
<1>13. ASSUME NEW r \in Executions,
              FailApplication(r) \/ Look(r)
       PROVE  (ClaimsAreOpen /\ EndedOnce)'
  <2>1. PICK p \in {"ended", "ringing"} : step' = [step EXCEPT ![r] = p]
    BY <1>13 DEF FailApplication, Look, GotoPlace
  <2>2. step[r] \in {"failing", "ended"} /\ UNCHANGED <<given, openTasks, rang, taskOf, holder>>
    BY <1>13 DEF FailApplication, Look, eventVars
  <2>3. /\ \A q \in Executions \ {r} : step'[q] = step[q] /\ (Past(q)' <=> Past(q))
        /\ step'[r] = p /\ Past(r) /\ Past(r)' /\ r \notin holder
    BY <1>1, <2>1, <2>2 DEF DoorbellTypeOK, Past, ClaimsAreOpen, AtWork
  <2>4. ClaimsAreOpen'
    BY <1>1, <2>2, <2>3 DEF ClaimsAreOpen, DoorbellTypeOK
  <2> QED BY <1>1, <2>2, <2>3, <2>4 DEF EndedOnce
<1>14. ASSUME NEW r \in Executions, StayQuiet(r) \/ RecordNotified(r) PROVE (ClaimsAreOpen /\ EndedOnce)'
  <2>1. r \notin holder /\ holder' = holder
    BY <1>1, <1>14 DEF StayQuiet, RecordNotified, ClaimsAreOpen, AtWork
  <2>2. holder' = holder \ {r}
    BY <2>1
  <2> QED BY <1>14, <2>2, LeavingIsAlone DEF StayQuiet, RecordNotified, eventVars
<1>15. ASSUME NEW r \in Executions, Deliver(r) PROVE (ClaimsAreOpen /\ EndedOnce)'
  <2>1. /\ step[r] = "ringing" /\ step' = [step EXCEPT ![r] = "rung"]
        /\ rang' = [rang EXCEPT ![taskOf[r]] = @ + 1]
        /\ UNCHANGED <<given, openTasks, taskOf, holder>>
    BY <1>15 DEF Deliver, GotoPlace, runOwnVars
  <2>2. /\ \A q \in Executions \ {r} : step'[q] = step[q] /\ (Past(q)' <=> Past(q))
        /\ step'[r] = "rung" /\ Past(r) /\ Past(r)' /\ r \notin holder
    BY <1>1, <2>1 DEF DoorbellTypeOK, Past, ClaimsAreOpen, AtWork
  <2>3. ClaimsAreOpen'
    BY <1>1, <2>1, <2>2 DEF ClaimsAreOpen, DoorbellTypeOK
  <2>4. taskOf[r] \in (1..given) \ openTasks /\ taskOf[r] \in 1..MaxGiven /\ rang[taskOf[r]] = 0
    BY <1>1, <2>1, <2>2 DEF EndedOnce, DoorbellTypeOK
  <2>5. rang'[taskOf[r]] = 1 /\ \A t \in (1..MaxGiven) \ {taskOf[r]} : rang'[t] = rang[t]
    BY <1>1, <2>1, <2>4 DEF DoorbellTypeOK
  <2>6. \A t \in 1..MaxGiven : rang'[t] <= 1 /\ (t \in openTasks' \/ t > given' => rang'[t] = 0)
    BY <1>1, <2>1, <2>4, <2>5 DEF EndedOnce, DoorbellTypeOK
  <2>7. \A q \in Executions : Past(q)' /\ step'[q] # "rung" => rang'[taskOf'[q]] = 0
    <3> SUFFICES ASSUME NEW q \in Executions, Past(q)', step'[q] # "rung" PROVE rang'[taskOf[q]] = 0
      BY <2>1
    <3>1. q # r /\ Past(q) /\ step[q] # "rung"
      BY <2>2
    <3>2. taskOf[q] # taskOf[r] /\ rang[taskOf[q]] = 0 /\ taskOf[q] \in 1..MaxGiven
      BY <1>1, <2>2, <3>1 DEF EndedOnce, DoorbellTypeOK
    <3> QED BY <2>5, <3>2
  <2> QED BY <1>1, <2>1, <2>2, <2>3, <2>6, <2>7 DEF EndedOnce
<1>16. ASSUME Approve PROVE (ClaimsAreOpen /\ EndedOnce)'
  <2>1. /\ given \in 1..MaxGiven /\ given' = given + 1 /\ openTasks' = openTasks \cup {given + 1}
        /\ UNCHANGED <<holder, step, taskOf, rang>>
    BY <1>1, <1>16 DEF Approve, DoorbellTypeOK, runOwnVars, eventVars
  <2>2. ClaimsAreOpen'
    BY <1>1, <2>1 DEF ClaimsAreOpen
  <2>3. \A r \in Executions : Past(r)' => taskOf'[r] \in (1..given') \ openTasks'
    BY <1>1, <2>1 DEF EndedOnce, Past
  <2>4. \A t \in 1..MaxGiven : rang'[t] <= 1 /\ (t \in openTasks' \/ t > given' => rang'[t] = 0)
    BY <1>1, <2>1 DEF EndedOnce
  <2> QED BY <1>1, <2>1, <2>2, <2>3, <2>4 DEF EndedOnce, Past
<1>17. ASSUME NEW s \in AppStatuses, SettleByHand(s) PROVE (ClaimsAreOpen /\ EndedOnce)'
  BY <1>1, <1>17 DEF SettleByHand, runOwnVars, eventVars, ClaimsAreOpen, EndedOnce, Past
<1>18. CASE UNCHANGED doorbellVars
  BY <1>1, <1>18 DEF doorbellVars, runOwnVars, eventVars, ClaimsAreOpen, EndedOnce, Past
<1> QED BY <1>2, <1>3, <1>4, <1>5, <1>6, <1>7, <1>8, <1>9, <1>10, <1>11, <1>12, <1>13, <1>14, <1>15,
      <1>16, <1>17, <1>18, Zenon DEF DoorbellNext

\* A step that writes no event, no park and no clock, and after which who rings
\* rang before, with the same in mind.
LEMMA NothingIsTold ==
  ASSUME DoorbellInv, UNCHANGED <<clock, parks, parkedAt, toldAt, heard>>,
         \A r \in Executions : /\ began'[r] = began[r] \/ began'[r] = 0
                               /\ \A s \in Waiting : copy'[r] = s => copy[r] = s \/ appStatus = s
                               /\ Announcing(r)' => /\ Announcing(r) /\ began'[r] = began[r]
                                                    /\ copy'[r] = copy[r] /\ about'[r] = about[r]
                                                    /\ again'[r] = again[r],
         \A s \in Waiting : appStatus' = s => appStatus = s
  PROVE  (ParksAreTimed /\ BellsAreTimed /\ ToldIsOnRecord)'
<1>1. DoorbellTypeOK /\ ParksAreTimed /\ BellsAreTimed /\ ToldIsOnRecord
  BY DEF DoorbellInv
<1>2. ParksAreTimed'
  <2>1. clock \in Nat /\ \A r \in Executions : began[r] <= clock
    BY <1>1, DoorbellAssumption DEF ParksAreTimed, DoorbellTypeOK, Clock
  <2>2. \A r \in Executions : began'[r] <= clock'
    BY <2>1
  <2>3. \A r \in Executions : \A s \in Waiting : copy'[r] = s => parks'[s] > 0
    BY <1>1 DEF ParksAreTimed
  <2>4. \A s \in Waiting : parkedAt'[s] <= clock' /\ (appStatus' = s => parks'[s] > 0)
    BY <1>1 DEF ParksAreTimed
  <2> QED BY <2>2, <2>3, <2>4 DEF ParksAreTimed
<1>3. BellsAreTimed'
  BY <1>1 DEF BellsAreTimed
<1>4. ToldIsOnRecord'
  BY <1>1 DEF ToldIsOnRecord, Announced
<1> QED BY <1>2, <1>3, <1>4

\* A park written now is later than all that were told of its kind.
LEMMA ParkIsLater ==
  ASSUME DoorbellInv, NEW r \in Executions, NEW s \in AppStatuses, WriteStatus(r, s), HoldCopy(r, s),
         step[r] = "working", NEW p \in {"closing", "ended"}, GotoPlace(r, p),
         UNCHANGED <<clock, began, about, again, toldAt, heard>>
  PROVE  (ParksAreTimed /\ BellsAreTimed /\ ToldIsOnRecord)'
<1>1. DoorbellTypeOK /\ ParksAreTimed /\ BellsAreTimed /\ ToldIsOnRecord
  BY DEF DoorbellInv
<1>2. /\ appStatus' = s /\ parks' \in [Waiting -> ParkNumbers]
      /\ \A w \in Waiting : /\ parks'[w] = IF w = s THEN parks[w] + 1 ELSE parks[w]
                            /\ w # s => parkedAt'[w] = parkedAt[w]
                            /\ parkedAt'[w] <= clock
  BY <1>1, StatusWritten
<1>3. /\ \A q \in Executions \ {r} : copy'[q] = copy[q] /\ (Announcing(q)' <=> Announcing(q))
      /\ copy'[r] = s /\ ~Announcing(r)'
  BY <1>1 DEF HoldCopy, GotoPlace, Announcing, DoorbellTypeOK
<1>4. \A w \in Waiting : /\ parks[w] \in Nat /\ parks[w] \in ParkNumbers
                          /\ parks'[w] \in Nat /\ parks'[w] >= parks[w]
  <2> SUFFICES ASSUME NEW w \in Waiting
               PROVE  /\ parks[w] \in Nat /\ parks[w] \in ParkNumbers
                      /\ parks'[w] \in Nat /\ parks'[w] >= parks[w]
    OBVIOUS
  <2>1. parks[w] \in ParkNumbers /\ parks[w] \in Nat
    BY <1>1, DoorbellAssumption DEF DoorbellTypeOK, ParkNumbers
  <2>2. parks'[w] = parks[w] + 1 \/ parks'[w] = parks[w]
    BY <1>2
  <2> QED BY <2>1, <2>2
<1>5. ParksAreTimed'
  BY <1>1, <1>2, <1>3, <1>4 DEF ParksAreTimed
<1>6. BellsAreTimed'
  <2> SUFFICES ASSUME NEW q \in Executions, Announcing(q)'
               PROVE  /\ copy'[q] \in Waiting /\ about'[q] \in 1..parks'[copy'[q]] /\ began'[q] > 0
                      /\ about'[q] = parks'[copy'[q]] => parkedAt'[copy'[q]] <= began'[q]
                      /\ ~again'[q]
    BY DEF BellsAreTimed
  <2>1. q # r /\ Announcing(q) /\ copy'[q] = copy[q]
    BY <1>3
  <2>2. /\ copy[q] \in Waiting /\ about[q] \in 1..parks[copy[q]] /\ began[q] > 0 /\ ~again[q]
        /\ about[q] = parks[copy[q]] => parkedAt[copy[q]] <= began[q]
    BY <1>1, <2>1 DEF BellsAreTimed
  <2> QED BY <1>2, <1>4, <2>1, <2>2
<1>7. ToldIsOnRecord'
  <2>1. \A w \in Waiting : \A n \in ParkNumbers : <<w, n>> \in heard => n <= parks'[w]
    <3> SUFFICES ASSUME NEW w \in Waiting, NEW n \in ParkNumbers, <<w, n>> \in heard
                 PROVE  n <= parks'[w]
      OBVIOUS
    <3>1. n \in Nat /\ n <= parks[w]
      BY <1>1, DoorbellAssumption DEF ToldIsOnRecord, ParkNumbers
    <3> QED BY <1>4, <3>1
  <2>2. ASSUME NEW w \in Waiting, <<w, parks'[w]>> \in heard PROVE Announced(w)'
    <3>1. parks'[w] \in ParkNumbers /\ parks'[w] <= parks[w]
      BY <1>1, <1>2, <2>2 DEF ToldIsOnRecord
    <3>2. w # s /\ parks'[w] = parks[w]
      BY <1>2, <1>4, <3>1
    <3> QED BY <1>1, <1>2, <2>2, <3>2 DEF ToldIsOnRecord, Announced
  <2> QED BY <2>1, <2>2 DEF ToldIsOnRecord
<1> QED BY <1>5, <1>6, <1>7

LEMMA LookIsLate ==
  ASSUME DoorbellInv, NEW r \in Executions, Look(r)
  PROVE  (ParksAreTimed /\ BellsAreTimed /\ ToldIsOnRecord)'
<1>1. DoorbellTypeOK /\ ParksAreTimed /\ BellsAreTimed /\ ToldIsOnRecord
  BY DEF DoorbellInv
<1>2. PICK s \in {copy[r], appStatus} :
        /\ s \in Waiting /\ ~Announced(s) /\ copy' = [copy EXCEPT ![r] = s]
        /\ about' = [about EXCEPT ![r] = parks[s]]
        /\ again' = [again EXCEPT ![r] = <<s, parks[s]>> \in heard]
  BY DEF Look, Unheard, HoldCopy
<1>3. /\ clock' = clock + 1 /\ began' = [began EXCEPT ![r] = clock + 1]
      /\ step' = [step EXCEPT ![r] = "ringing"]
      /\ UNCHANGED <<appStatus, parks, parkedAt, toldAt, heard>>
  BY DEF Look, BeginTransaction, GotoPlace
<1>4. /\ \A q \in Executions \ {r} : /\ copy'[q] = copy[q] /\ about'[q] = about[q]
                                     /\ again'[q] = again[q] /\ began'[q] = began[q]
                                     /\ (Announcing(q)' <=> Announcing(q))
      /\ copy'[r] = s /\ about'[r] = parks[s] /\ began'[r] = clock + 1
      /\ again'[r] = (<<s, parks[s]>> \in heard)
  BY <1>1, <1>2, <1>3 DEF DoorbellTypeOK, Announcing
<1>5. /\ clock \in Nat /\ parks[s] \in Nat /\ parks[s] > 0 /\ <<s, parks[s]>> \notin heard
      /\ \A q \in Executions : began[q] \in Nat /\ \A w \in Waiting : parkedAt[w] \in Nat
  BY <1>1, <1>2, DoorbellAssumption DEF DoorbellTypeOK, ParksAreTimed, ToldIsOnRecord, Clock, ParkNumbers
<1>6. ParksAreTimed'
  BY <1>1, <1>2, <1>3, <1>4, <1>5 DEF ParksAreTimed
<1>7. parkedAt[s] <= clock + 1
  BY <1>1, <1>2, <1>5 DEF ParksAreTimed
<1>8. BellsAreTimed'
  <2> SUFFICES ASSUME NEW q \in Executions, Announcing(q)'
               PROVE  /\ copy'[q] \in Waiting /\ about'[q] \in 1..parks'[copy'[q]] /\ began'[q] > 0
                      /\ about'[q] = parks'[copy'[q]] => parkedAt'[copy'[q]] <= began'[q]
                      /\ ~again'[q]
    BY DEF BellsAreTimed
  <2>1. CASE q = r
    <3>1. ~again'[r]
      BY <1>4, <1>5, Zenon
    <3>2. copy'[r] = s /\ about'[r] = parks'[s] /\ parks[s] \in 1..parks'[s] /\ parks'[s] = parks[s]
      BY <1>3, <1>4, <1>5
    <3>3. parkedAt'[s] <= began'[r] /\ began'[r] > 0
      BY <1>3, <1>4, <1>5, <1>7
    <3> QED BY <1>2, <2>1, <3>1, <3>2, <3>3
  <2>2. CASE q # r
    BY <1>1, <1>3, <1>4, <2>2 DEF BellsAreTimed
  <2> QED BY <2>1, <2>2
<1>9. ToldIsOnRecord'
  BY <1>1, <1>3 DEF ToldIsOnRecord, Announced
<1> QED BY <1>6, <1>8, <1>9

LEMMA RecordIsHeard ==
  ASSUME DoorbellInv, NEW r \in Executions, RecordNotified(r)
  PROVE  (ParksAreTimed /\ BellsAreTimed /\ ToldIsOnRecord)'
<1>1. DoorbellTypeOK /\ ParksAreTimed /\ BellsAreTimed /\ ToldIsOnRecord
  BY DEF DoorbellInv
<1>2. /\ step' = [step EXCEPT ![r] = "idle"] /\ began' = [began EXCEPT ![r] = 0]
      /\ copy' = [copy EXCEPT ![r] = "queued"]
      /\ about' = [about EXCEPT ![r] = 0] /\ again' = [again EXCEPT ![r] = FALSE]
      /\ toldAt' = [toldAt EXCEPT ![copy[r]] = Later(toldAt[copy[r]], began[r])]
      /\ heard' = heard \cup {<<copy[r], about[r]>>}
      /\ UNCHANGED <<appStatus, clock, parks, parkedAt>>
  BY DEF RecordNotified, LeaveRun, GotoPlace, HoldCopy
<1>3. /\ copy[r] \in Waiting /\ about[r] \in 1..parks[copy[r]] /\ began[r] > 0
      /\ about[r] = parks[copy[r]] => parkedAt[copy[r]] <= began[r]
  BY <1>1 DEF RecordNotified, BellsAreTimed, Announcing
<1>4. /\ \A q \in Executions \ {r} : /\ copy'[q] = copy[q] /\ about'[q] = about[q]
                                     /\ again'[q] = again[q] /\ began'[q] = began[q]
                                     /\ (Announcing(q)' <=> Announcing(q))
      /\ copy'[r] = "queued" /\ began'[r] = 0 /\ ~Announcing(r)'
  BY <1>1, <1>2 DEF DoorbellTypeOK, Announcing
<1>5. /\ clock \in Nat /\ began[r] \in Nat
      /\ \A w \in Waiting : parks[w] \in Nat /\ parkedAt[w] \in Nat /\ toldAt[w] \in Nat
  BY <1>1, DoorbellAssumption DEF DoorbellTypeOK, Clock, ParkNumbers
<1>6. /\ \A w \in Waiting \ {copy[r]} : toldAt'[w] = toldAt[w]
      /\ toldAt'[copy[r]] >= toldAt[copy[r]] /\ toldAt'[copy[r]] >= began[r]
      /\ toldAt'[copy[r]] \in Nat
  BY <1>1, <1>2, <1>3, <1>5 DEF Later, DoorbellTypeOK
<1>7. ParksAreTimed'
  BY <1>1, <1>2, <1>4, <1>5 DEF ParksAreTimed, Waiting
<1>8. BellsAreTimed'
  BY <1>1, <1>2, <1>4 DEF BellsAreTimed
<1>9. \A w \in Waiting : Announced(w) => Announced(w)'
  BY <1>2, <1>5, <1>6 DEF Announced
<1>10. ASSUME NEW w \in Waiting, <<w, parks[w]>> \in heard' PROVE Announced(w)'
  <2>1. CASE <<w, parks[w]>> \in heard
    BY <1>1, <1>9, <1>10, <2>1 DEF ToldIsOnRecord
  <2>2. CASE w = copy[r] /\ parks[w] = about[r]
    BY <1>2, <1>3, <1>5, <1>6, <2>2 DEF Announced
  <2> QED BY <1>2, <1>10, <2>1, <2>2
<1>11. \A w \in Waiting : \A n \in ParkNumbers : <<w, n>> \in heard' => n <= parks[w]
  BY <1>1, <1>2, <1>3, <1>5 DEF ToldIsOnRecord, ParkNumbers
<1>12. ToldIsOnRecord'
  BY <1>2, <1>10, <1>11 DEF ToldIsOnRecord
<1> QED BY <1>7, <1>8, <1>12

LEMMA DoorbellStepTimes ==
  ASSUME DoorbellInv, [DoorbellNext]_doorbellVars
  PROVE  (ParksAreTimed /\ BellsAreTimed /\ ToldIsOnRecord)'
<1>1. DoorbellTypeOK /\ ParksAreTimed /\ BellsAreTimed /\ ToldIsOnRecord
  BY DEF DoorbellInv
<1> DEFINE Timed == ParksAreTimed /\ BellsAreTimed /\ ToldIsOnRecord
<1>2. ASSUME NEW r \in Executions, NEW t \in 1..given, TakeTask(r, t) PROVE Timed'
  BY <1>1, <1>2, NothingIsTold DEF TakeTask, GotoPlace, eventVars, DoorbellTypeOK, Announcing
<1>3. ASSUME NEW r \in Executions, RunLosesClaim(r) PROVE Timed'
  BY <1>1, <1>3, NothingIsTold DEF RunLosesClaim, runOwnVars, eventVars, Announcing
<1>4. ASSUME NEW r \in Executions, LeaveRun(r), UNCHANGED <<appStatus, parks, eventVars>> PROVE Timed'
  BY <1>1, <1>4, NothingIsTold DEF LeaveRun, GotoPlace, HoldCopy, eventVars, DoorbellTypeOK, Announcing,
    Waiting
<1>5. ASSUME NEW r \in Executions, GiveUpRun(r) \/ RunDies(r) \/ StayQuiet(r) PROVE Timed'
  BY <1>4, <1>5 DEF GiveUpRun, RunDies, StayQuiet
<1>6. ASSUME NEW r \in Executions, OpenApplication(r) PROVE Timed'
  <2>1. /\ clock' = clock + 1 /\ began' = [began EXCEPT ![r] = clock + 1]
        /\ copy' = [copy EXCEPT ![r] = "running"] /\ step' = [step EXCEPT ![r] = "working"]
        /\ UNCHANGED <<appStatus, parks, about, again, parkedAt, toldAt, heard>>
    BY <1>6 DEF OpenApplication, BeginTransaction, HoldCopy, GotoPlace
  <2>2. /\ \A q \in Executions \ {r} : /\ copy'[q] = copy[q] /\ began'[q] = began[q]
                                       /\ (Announcing(q)' <=> Announcing(q))
        /\ copy'[r] = "running" /\ began'[r] = clock + 1 /\ ~Announcing(r)'
    BY <1>1, <2>1 DEF DoorbellTypeOK, Announcing
  <2>3. clock \in Nat /\ \A q \in Executions : began[q] \in Nat
    BY <1>1, DoorbellAssumption DEF DoorbellTypeOK, Clock
  <2>4. \A w \in Waiting : parkedAt[w] \in Nat
    BY <1>1, DoorbellAssumption DEF DoorbellTypeOK, Clock
  <2>5. ParksAreTimed'
    BY <1>1, <2>1, <2>2, <2>3, <2>4 DEF ParksAreTimed, Waiting
  <2>6. BellsAreTimed'
    BY <1>1, <2>1, <2>2 DEF BellsAreTimed
  <2> QED BY <1>1, <2>1, <2>5, <2>6 DEF ToldIsOnRecord, Announced
<1>7. ASSUME NEW r \in Executions, FindItOver(r) \/ LeaveAsFound(r) PROVE Timed'
  BY <1>1, <1>7, NothingIsTold DEF FindItOver, LeaveAsFound, HoldCopy, GotoPlace, eventVars,
    DoorbellTypeOK, Announcing
<1>8. ASSUME NEW r \in Executions, CommitAttempt(r) PROVE Timed'
  BY <1>1, <1>8, NothingIsTold DEF CommitAttempt, runOwnVars, eventVars, Announcing, Waiting
<1>9. ASSUME NEW r \in Executions, NEW s \in AppStatuses, CommitAlone(r, s) PROVE Timed'
  BY <1>9, ParkIsLater DEF CommitAlone
<1>10. ASSUME NEW r \in Executions, NEW s \in AppStatuses, CommitEnd(r, s) PROVE Timed'
  BY <1>10, ParkIsLater DEF CommitEnd
<1>11. ASSUME NEW r \in Executions, CloseTask(r) \/ FailTaskForGood(r) PROVE Timed'
  BY <1>1, <1>11, NothingIsTold DEF CloseTask, FailTaskForGood, GotoPlace, runOwnVars, eventVars,
    DoorbellTypeOK, Announcing
<1>12. ASSUME NEW r \in Executions, FailApplication(r) PROVE Timed'
  BY <1>1, <1>12, NothingIsTold DEF FailApplication, HoldCopy, GotoPlace, eventVars,
    DoorbellTypeOK, Announcing, Waiting
<1>13. ASSUME NEW r \in Executions, Look(r) PROVE Timed'
  BY <1>13, LookIsLate
<1>14. ASSUME NEW r \in Executions, Deliver(r) PROVE Timed'
  BY <1>1, <1>14, NothingIsTold DEF Deliver, GotoPlace, runOwnVars, DoorbellTypeOK, Announcing
<1>15. ASSUME NEW r \in Executions, RecordNotified(r) PROVE Timed'
  BY <1>15, RecordIsHeard
<1>16. ASSUME Approve PROVE Timed'
  BY <1>1, <1>16, NothingIsTold DEF Approve, runOwnVars, eventVars, Announcing, Waiting
<1>17. ASSUME NEW s \in AppStatuses, SettleByHand(s) PROVE Timed'
  BY <1>1, <1>17, NothingIsTold DEF SettleByHand, runOwnVars, eventVars, Announcing, Waiting
<1>18. CASE UNCHANGED doorbellVars
  BY <1>1, <1>18, NothingIsTold DEF doorbellVars, runOwnVars, eventVars, Announcing
<1> QED BY <1>2, <1>3, <1>5, <1>6, <1>7, <1>8, <1>9, <1>10, <1>11, <1>12, <1>13, <1>14, <1>15,
      <1>16, <1>17, <1>18, Zenon DEF DoorbellNext

LEMMA DoorbellBegins == DoorbellInit => DoorbellInv
<1> SUFFICES ASSUME DoorbellInit PROVE DoorbellInv
  OBVIOUS
<1>1. 0 \in Clock /\ 0 \in ParkNumbers /\ 0 \in 0..MaxGiven /\ 1 \in 1..MaxGiven
  BY DoorbellAssumption DEF Clock, ParkNumbers
<1>2. DoorbellTypeOK
  BY <1>1 DEF DoorbellInit, DoorbellTypeOK, AppStatuses, Steps
<1>3. ClaimsAreOpen /\ EndedOnce
  BY <1>1, DoorbellAssumption DEF DoorbellInit, ClaimsAreOpen, EndedOnce, Past
<1>4. ParksAreTimed /\ BellsAreTimed /\ ToldIsOnRecord
  BY DEF DoorbellInit, ParksAreTimed, BellsAreTimed, ToldIsOnRecord, Announcing, Waiting
<1> QED BY <1>2, <1>3, <1>4 DEF DoorbellInv

LEMMA DoorbellStepKeepsInv ==
  ASSUME DoorbellInv, [DoorbellNext]_doorbellVars
  PROVE  DoorbellInv'
BY DoorbellStepTypes, DoorbellStepEnds, DoorbellStepTimes DEF DoorbellInv

\* However often a task is redelivered, beside a task of the owner's approval
\* or not, it rings once at most; and nothing rings for a park that was not
\* committed, or whose ringing was on record.
THEOREM DoorbellRingsOnce == DoorbellSpec => []OneRingPerPark
<1>1. DoorbellInv => OneRingPerPark
  BY DEF DoorbellInv, EndedOnce, BellsAreTimed, Announcing, OneRingPerPark
<1>2. DoorbellInv /\ [DoorbellNext]_doorbellVars => DoorbellInv'
  BY DoorbellStepKeepsInv
<1> QED BY <1>1, <1>2, DoorbellBegins, PTL DEF DoorbellSpec

\* Each variable keeps to the values its column or its bound allows; a task
\* that is open was given, whatever the application's status.
THEOREM DoorbellTypeCorrect == DoorbellSpec => []DoorbellTypeOK
<1>1. DoorbellInv => DoorbellTypeOK
  BY DEF DoorbellInv
<1>2. DoorbellInv /\ [DoorbellNext]_doorbellVars => DoorbellInv'
  BY DoorbellStepKeepsInv
<1> QED BY <1>1, <1>2, DoorbellBegins, PTL DEF DoorbellSpec

-----------------------------------------------------------------------------
(* Reminders: stamped before they are rung, by whoever locked the row.     *)

Edits == [row : Rows \cup {NoRow}, sawReminded : BOOLEAN, sawReminder : Nat, moves : BOOLEAN,
          completed : {"unsent", "yes", "no"}]

ReminderTypes ==
  /\ exists \in [Rows -> BOOLEAN] /\ isDue \in [Rows -> BOOLEAN] /\ reminded \in [Rows -> BOOLEAN]
  /\ done \in [Rows -> BOOLEAN] /\ reminder \in [Rows -> Nat]
  /\ picked \in [Ringers -> SUBSET Rows] /\ carried \in [Ringers -> [Rows -> Nat]]
  /\ stage \in [Ringers -> {"idle", "locked", "ringing"}] /\ edit \in Edits
  /\ rung \subseteq Rows \X Nat \X Ringers
  /\ \A t \in Rows : isDue[t] => reminder[t] # 0

HasLocked(w, t) == stage[w] = "locked" /\ t \in picked[w]
IsRinging(w, t) == stage[w] = "ringing" /\ t \in picked[w]

\* An edit writes over the reminder it read.
EditIsOfReminder == edit # NoEdit => edit.row \in Rows /\ edit.sawReminder = reminder[edit.row]

\* A locked row is due and stays as it was read, in one worker's hands.
LocksHold ==
  /\ \A w \in Ringers, t \in Rows :
       HasLocked(w, t) => exists[t] /\ reminder[t] # 0 /\ ~reminded[t] /\ carried[w][t] = reminder[t]
  /\ \A v, w \in Ringers, t \in Rows : HasLocked(v, t) /\ HasLocked(w, t) => v = w

\* A reminder n of row t that is over: it was moved, or its stamp is set.
Spent(t, n) == n <= reminder[t] /\ (n = reminder[t] => reminded[t])

\* What is being rung is spent, was not rung before, and is in one worker's hands.
RingsHold ==
  /\ \A w \in Ringers, t \in Rows : IsRinging(w, t) => Spent(t, carried[w][t])
  /\ \A v, w \in Ringers, t \in Rows :
       IsRinging(v, t) /\ IsRinging(w, t) /\ carried[v][t] = carried[w][t] => v = w
  /\ \A x \in rung : Spent(x[1], x[2])
  /\ \A w \in Ringers, t \in Rows : IsRinging(w, t) => \A x \in rung : x[1] = t => x[2] # carried[w][t]

ReminderInv == ReminderTypes /\ EditIsOfReminder /\ LocksHold /\ RingsHold /\ RingsOnce

LEMMA LockedIsHeld ==
  ASSUME NEW t
  PROVE  t \in LockedRows <=> \E w \in Ringers : HasLocked(w, t)
BY DEF LockedRows, HasLocked

\* A worker turns to another batch, or none; nothing is stamped or rung.
LEMMA SelectKeepsInv ==
  ASSUME ReminderInv, NEW w \in Ringers, SelectDue(w)
  PROVE  ReminderInv'
<1>1. ReminderTypes /\ EditIsOfReminder /\ LocksHold /\ RingsHold /\ RingsOnce
  BY DEF ReminderInv
<1>2. PICK s \in SUBSET ({t \in Rows : DueRow(t)} \ LockedRows) :
         picked' = [picked EXCEPT ![w] = s]
  BY DEF SelectDue
<1>3. /\ carried' = [carried EXCEPT ![w] = reminder] /\ stage' = [stage EXCEPT ![w] = "locked"]
      /\ UNCHANGED <<rowVars, edit, edits, deaths, rung>>
  BY DEF SelectDue
<1>4. \A t \in s : /\ t \in Rows /\ exists[t] /\ reminder[t] # 0 /\ ~reminded[t]
                   /\ \A v \in Ringers : ~HasLocked(v, t)
  BY <1>1, <1>2, LockedIsHeld DEF DueRow, ReminderTypes
<1>5. ReminderTypes'
  BY <1>1, <1>2, <1>3 DEF ReminderTypes, rowVars
<1>6. \A v \in Ringers, t \in Rows :
        /\ v # w => /\ HasLocked(v, t)' <=> HasLocked(v, t)
                    /\ IsRinging(v, t)' <=> IsRinging(v, t)
                    /\ carried'[v][t] = carried[v][t]
        /\ v = w => /\ HasLocked(v, t)' <=> t \in s
                    /\ ~IsRinging(v, t)'
                    /\ carried'[v][t] = reminder[t]
  BY <1>1, <1>2, <1>3 DEF HasLocked, IsRinging, ReminderTypes
<1>7. LocksHold'
  BY <1>1, <1>3, <1>4, <1>6 DEF LocksHold, rowVars
<1>8. RingsHold'
  BY <1>1, <1>3, <1>6 DEF RingsHold, Spent, rowVars
<1> QED BY <1>1, <1>3, <1>5, <1>7, <1>8 DEF ReminderInv, EditIsOfReminder, RingsOnce, rowVars

\* Rows that are stamped were not: nobody rings them, and nothing of them rang.
LEMMA StampKeepsInv ==
  ASSUME ReminderInv, NEW w \in Ringers, StampBatch(w)
  PROVE  ReminderInv'
<1>1. ReminderTypes /\ EditIsOfReminder /\ LocksHold /\ RingsHold /\ RingsOnce
  BY DEF ReminderInv
<1>2. /\ stage[w] = "locked" /\ stage' = [stage EXCEPT ![w] = "ringing"]
      /\ reminded' = [t \in Rows |-> reminded[t] \/ t \in picked[w]]
      /\ UNCHANGED <<exists, reminder, isDue, done, byMail, picked, carried, edit, edits, deaths, rung>>
  BY DEF StampBatch
<1>3. \A v \in Ringers, t \in Rows :
        /\ v # w => /\ HasLocked(v, t)' <=> HasLocked(v, t)
                    /\ IsRinging(v, t)' <=> IsRinging(v, t)
        /\ v = w => /\ ~HasLocked(v, t)'
                    /\ IsRinging(v, t)' <=> HasLocked(w, t)
  BY <1>1, <1>2 DEF HasLocked, IsRinging, ReminderTypes
<1>4. ASSUME NEW t \in Rows
      PROVE  /\ HasLocked(w, t) => reminded'[t] /\ ~reminded[t] /\ carried[w][t] = reminder[t]
             /\ ~HasLocked(w, t) => reminded'[t] = reminded[t]
  BY <1>1, <1>2 DEF HasLocked, LocksHold, ReminderTypes
<1>5. \A t \in Rows, n \in Nat : Spent(t, n) => Spent(t, n)'
  BY <1>1, <1>2 DEF Spent, ReminderTypes
<1>6. ReminderTypes'
  BY <1>1, <1>2 DEF ReminderTypes
<1>7. LocksHold'
  <2>1. ASSUME NEW v \in Ringers, NEW t \in Rows, HasLocked(v, t)'
        PROVE  exists'[t] /\ reminder'[t] # 0 /\ ~reminded'[t] /\ carried'[v][t] = reminder'[t]
    <3>1. v # w /\ HasLocked(v, t)
      BY <1>3, <2>1
    <3>2. ~HasLocked(w, t) /\ exists[t] /\ reminder[t] # 0 /\ ~reminded[t] /\ carried[v][t] = reminder[t]
      BY <1>1, <3>1 DEF LocksHold
    <3> QED BY <1>2, <1>4, <3>2
  <2>2. \A u, v \in Ringers, t \in Rows : HasLocked(u, t)' /\ HasLocked(v, t)' => u = v
    BY <1>1, <1>3 DEF LocksHold
  <2> QED BY <2>1, <2>2 DEF LocksHold
<1>8. \A t \in Rows : HasLocked(w, t) => ~Spent(t, carried[w][t])
  BY <1>4 DEF Spent
<1>9. \A v \in Ringers, t \in Rows : carried[v][t] \in Nat
  BY <1>1 DEF ReminderTypes
<1>10. ASSUME NEW v \in Ringers, NEW t \in Rows, IsRinging(v, t)' PROVE Spent(t, carried[v][t])'
  <2>1. CASE v # w
    <3>1. Spent(t, carried[v][t])
      BY <1>1, <1>3, <1>10, <2>1 DEF RingsHold
    <3> QED BY <1>2, <1>5, <1>9, <3>1 DEF Spent
  <2>2. CASE v = w
    <3>1. HasLocked(w, t)
      BY <1>3, <1>10, <2>2
    <3>2. reminded'[t] /\ carried'[w][t] = reminder'[t] /\ reminder'[t] \in Nat
      BY <1>1, <1>2, <1>4, <3>1 DEF ReminderTypes
    <3> QED BY <2>2, <3>2 DEF Spent
  <2> QED BY <2>1, <2>2
<1>11. ASSUME NEW u \in Ringers, NEW v \in Ringers, NEW t \in Rows, IsRinging(u, t)', IsRinging(v, t)',
              carried'[u][t] = carried'[v][t]
       PROVE  u = v
  <2>1. carried[u][t] = carried[v][t]
    BY <1>2, <1>11
  <2>2. CASE u # w /\ v # w
    BY <1>1, <1>3, <1>11, <2>1, <2>2 DEF RingsHold
  <2>3. CASE u # w /\ v = w
    BY <1>1, <1>3, <1>8, <1>11, <2>1, <2>3 DEF RingsHold
  <2>4. CASE u = w /\ v # w
    BY <1>1, <1>3, <1>8, <1>11, <2>1, <2>4 DEF RingsHold
  <2> QED BY <2>2, <2>3, <2>4
<1>12. ASSUME NEW x \in rung PROVE Spent(x[1], x[2])'
  <2>1. x[1] \in Rows /\ x[2] \in Nat /\ Spent(x[1], x[2])
    BY <1>1 DEF ReminderTypes, RingsHold
  <2> QED BY <1>5, <2>1
<1>13. ASSUME NEW v \in Ringers, NEW t \in Rows, IsRinging(v, t)', NEW x \in rung, x[1] = t
       PROVE  x[2] # carried'[v][t]
  <2>1. Spent(t, x[2])
    BY <1>1, <1>13 DEF RingsHold
  <2>2. CASE v # w
    BY <1>1, <1>2, <1>3, <1>13, <2>2 DEF RingsHold
  <2>3. CASE v = w
    BY <1>2, <1>3, <1>8, <1>13, <2>1, <2>3
  <2> QED BY <2>2, <2>3
<1>14. RingsHold'
  BY <1>2, <1>10, <1>11, <1>12, <1>13 DEF RingsHold
<1> QED BY <1>1, <1>2, <1>6, <1>7, <1>14 DEF ReminderInv, EditIsOfReminder, RingsOnce

\* One reminder is delivered, and is in nobody's hands afterwards.
LEMMA RingKeepsInv ==
  ASSUME ReminderInv, NEW w \in Ringers, RingOne(w)
  PROVE  ReminderInv'
<1>1. ReminderTypes /\ EditIsOfReminder /\ LocksHold /\ RingsHold /\ RingsOnce
  BY DEF ReminderInv
<1>2. PICK t \in picked[w] :
        /\ rung' = rung \cup {<<t, carried[w][t], w>>}
        /\ picked' = [picked EXCEPT ![w] = picked[w] \ {t}]
        /\ stage' = [stage EXCEPT ![w] = IF picked[w] = {t} THEN "idle" ELSE stage[w]]
  BY DEF RingOne
<1>3. /\ stage[w] = "ringing" /\ UNCHANGED <<rowVars, edit, edits, deaths>>
      /\ carried' = IF Cardinality(picked[w]) = 1
                    THEN [carried EXCEPT ![w] = [u \in Rows |-> 0]] ELSE carried
  BY DEF RingOne
<1>4. t \in Rows /\ IsRinging(w, t) /\ carried[w][t] \in Nat
  BY <1>1, <1>2, <1>3 DEF ReminderTypes, IsRinging
<1>5. Cardinality(picked[w]) = 1 => picked[w] = {t}
  <2>1. IsFiniteSet(picked[w])
    BY <1>1, ReminderAssumption, FS_Subset DEF ReminderTypes
  <2> QED BY <2>1, <1>2, FS_Singleton
<1>6. \A v \in Ringers, u \in Rows :
        /\ HasLocked(v, u)' <=> HasLocked(v, u) /\ v # w
        /\ IsRinging(v, u)' => IsRinging(v, u) /\ (v = w => u # t) /\ carried'[v][u] = carried[v][u]
        /\ v # w => carried'[v][u] = carried[v][u]
  BY <1>1, <1>2, <1>3, <1>5 DEF HasLocked, IsRinging, ReminderTypes
<1>7. ReminderTypes'
  BY <1>1, <1>2, <1>3, <1>4 DEF ReminderTypes, rowVars
<1>8. LocksHold'
  BY <1>1, <1>3, <1>6 DEF LocksHold, rowVars
<1>9. \A x \in rung : x[1] = t => x[2] # carried[w][t]
  BY <1>1, <1>4 DEF RingsHold
<1>10. Spent(t, carried[w][t])
  BY <1>1, <1>4 DEF RingsHold
<1>11. \A u, n : Spent(u, n)' <=> Spent(u, n)
  BY <1>3 DEF Spent, rowVars
<1>12. ASSUME NEW v \in Ringers, NEW u \in Rows, IsRinging(v, u)'
       PROVE  Spent(u, carried[v][u])'
  <2>1. Spent(u, carried[v][u]) /\ carried'[v][u] = carried[v][u]
    BY <1>1, <1>6, <1>12 DEF RingsHold
  <2> QED BY <1>3, <2>1 DEF Spent, rowVars
<1>13. ASSUME NEW v \in Ringers, NEW z \in Ringers, NEW u \in Rows, IsRinging(v, u)', IsRinging(z, u)',
              carried'[v][u] = carried'[z][u]
       PROVE  v = z
  BY <1>1, <1>6, <1>13 DEF RingsHold
<1>14. ASSUME NEW x \in rung' PROVE Spent(x[1], x[2])'
  <2>1. CASE x \in rung
    BY <1>1, <1>11, <2>1 DEF RingsHold
  <2>2. CASE x = <<t, carried[w][t], w>>
    BY <1>10, <1>11, <2>2
  <2> QED BY <1>2, <1>14, <2>1, <2>2
<1>15. ASSUME NEW v \in Ringers, NEW u \in Rows, IsRinging(v, u)', NEW x \in rung', x[1] = u
       PROVE  x[2] # carried'[v][u]
  <2>1. IsRinging(v, u) /\ (v = w => u # t) /\ carried'[v][u] = carried[v][u]
    BY <1>6, <1>15
  <2>2. CASE x \in rung
    BY <1>1, <1>15, <2>1, <2>2 DEF RingsHold
  <2>3. CASE x = <<t, carried[w][t], w>>
    BY <1>1, <1>4, <1>15, <2>1, <2>3 DEF RingsHold
  <2> QED BY <1>2, <1>15, <2>2, <2>3
<1>16. RingsHold'
  BY <1>12, <1>13, <1>14, <1>15 DEF RingsHold
<1>17. RingsOnce'
  <2>1. \A x \in rung : x = <<x[1], x[2], x[3]>>
    BY <1>1 DEF ReminderTypes
  <2> QED BY <1>1, <1>2, <1>9, <2>1 DEF RingsOnce
<1> QED BY <1>1, <1>3, <1>7, <1>8, <1>16, <1>17 DEF ReminderInv, EditIsOfReminder, rowVars

\* The owner's edit moves a reminder or leaves its stamp; rows in hand are locked.
LEMMA UpdateKeepsInv ==
  ASSUME ReminderInv, UpdateTask
  PROVE  ReminderInv'
<1> DEFINE t == edit.row
<1>1. ReminderTypes /\ EditIsOfReminder /\ LocksHold /\ RingsHold /\ RingsOnce
  BY DEF ReminderInv
<1>2. /\ edit # NoEdit /\ t \in Rows /\ edit.sawReminder = reminder[t] /\ t \notin LockedRows
      /\ edit' = NoEdit /\ UNCHANGED <<picked, carried, stage, edits, deaths, rung>>
      /\ exists' = exists
  BY <1>1 DEF UpdateTask, EditIsOfReminder, rowVars
<1>3. NoEdit \in Edits
  BY DEF NoEdit, Edits
<1>4. /\ edit.moves \in BOOLEAN /\ edit.sawReminded \in BOOLEAN /\ reminder[t] \in Nat
      /\ edit.sawReminder \in Nat
  BY <1>1, <1>2 DEF ReminderTypes, Edits
<1>5. CASE ~exists[t]
  <2>1. UNCHANGED rowVars
    BY <1>5 DEF UpdateTask
  <2> QED BY <1>1, <1>2, <1>3, <2>1 DEF ReminderInv, ReminderTypes, EditIsOfReminder, LocksHold,
    RingsHold, RingsOnce, Spent, HasLocked, IsRinging, rowVars
<1>6. CASE exists[t]
  <2>1. /\ reminder' = IF edit.moves THEN [reminder EXCEPT ![t] = reminder[t] + 1] ELSE reminder
        /\ isDue' = IF edit.moves THEN [isDue EXCEPT ![t] = FALSE] ELSE isDue
        /\ reminded' = [reminded EXCEPT ![t] = StampAfter(t)]
        /\ done' = [done EXCEPT ![t] = IF edit.completed = "unsent" THEN done[t]
                                        ELSE edit.completed = "yes"]
    BY <1>2, <1>6 DEF UpdateTask
  <2>2. StampAfter(t) \in BOOLEAN /\ (~edit.moves => StampAfter(t) = reminded[t])
    BY <1>1, <1>2 DEF StampAfter, ReminderTypes
  <2>3. ReminderTypes'
    <3>1. /\ reminder' \in [Rows -> Nat] /\ isDue' \in [Rows -> BOOLEAN]
          /\ reminded' \in [Rows -> BOOLEAN]
      BY <1>1, <1>2, <1>4, <2>1, <2>2 DEF ReminderTypes
    <3>2. done' \in [Rows -> BOOLEAN]
      BY <1>1, <1>2, <2>1 DEF ReminderTypes
    <3>3. \A u \in Rows : isDue'[u] => reminder'[u] # 0
      BY <1>1, <1>2, <2>1 DEF ReminderTypes
    <3> QED BY <1>1, <1>2, <1>3, <3>1, <3>2, <3>3 DEF ReminderTypes
  <2>4. \A v \in Ringers, u \in Rows :
          /\ HasLocked(v, u)' <=> HasLocked(v, u)
          /\ IsRinging(v, u)' <=> IsRinging(v, u)
          /\ HasLocked(v, u) => u # t
    BY <1>2, LockedIsHeld DEF HasLocked, IsRinging
  <2>5. \A u \in Rows : u # t => reminder'[u] = reminder[u] /\ reminded'[u] = reminded[u]
    BY <1>1, <1>2, <2>1 DEF ReminderTypes
  <2>6. ASSUME NEW u \in Rows, NEW n \in Nat, Spent(u, n) PROVE Spent(u, n)'
    <3>1. CASE u # t
      BY <2>5, <2>6, <3>1 DEF Spent
    <3>2. CASE u = t /\ edit.moves
      BY <1>1, <1>2, <1>4, <2>1, <2>6, <3>2 DEF Spent, ReminderTypes
    <3>3. CASE u = t /\ ~edit.moves
      BY <1>1, <1>2, <2>1, <2>2, <2>6, <3>3 DEF Spent, ReminderTypes
    <3> QED BY <1>4, <3>1, <3>2, <3>3
  <2>7. LocksHold'
    BY <1>1, <1>2, <2>4, <2>5 DEF LocksHold
  <2>8. RingsHold'
    <3>1. ASSUME NEW w \in Ringers, NEW u \in Rows, IsRinging(w, u)' PROVE Spent(u, carried[w][u])'
      <4>1. Spent(u, carried[w][u]) /\ carried[w][u] \in Nat
        BY <1>1, <2>4, <3>1 DEF RingsHold, ReminderTypes
      <4>2. PICK n \in Nat : n = carried[w][u]
        BY <4>1
      <4> QED BY <1>2, <2>6, <4>1, <4>2 DEF Spent
    <3>2. ASSUME NEW x \in rung PROVE Spent(x[1], x[2])'
      <4>1. Spent(x[1], x[2]) /\ x[1] \in Rows /\ x[2] \in Nat
        BY <1>1 DEF RingsHold, ReminderTypes
      <4> QED BY <2>6, <4>1
    <3> QED BY <1>1, <1>2, <2>4, <3>1, <3>2 DEF RingsHold
  <2> QED BY <1>1, <1>2, <2>3, <2>7, <2>8 DEF ReminderInv, EditIsOfReminder, RingsOnce
<1> QED BY <1>5, <1>6

LEMMA ReminderStepKeepsInv ==
  ASSUME ReminderInv, [ReminderNext]_reminderVars
  PROVE  ReminderInv'
<1>1. ReminderTypes /\ EditIsOfReminder /\ LocksHold /\ RingsHold /\ RingsOnce
  BY DEF ReminderInv
<1>2. ASSUME NEW w \in Ringers, RingerDies(w) PROVE ReminderInv'
  <2>1. /\ stage' = [stage EXCEPT ![w] = "idle"] /\ picked' = [picked EXCEPT ![w] = {}]
        /\ carried' = [carried EXCEPT ![w] = [t \in Rows |-> 0]]
        /\ UNCHANGED <<rowVars, edit, edits, rung>>
    BY <1>2 DEF RingerDies
  <2>2. ReminderTypes'
    BY <1>1, <2>1 DEF ReminderTypes, rowVars
  <2>3. \A v \in Ringers, t \in Rows :
          /\ HasLocked(v, t)' => HasLocked(v, t) /\ carried'[v][t] = carried[v][t]
          /\ IsRinging(v, t)' => IsRinging(v, t) /\ carried'[v][t] = carried[v][t]
    BY <1>1, <2>1 DEF HasLocked, IsRinging, ReminderTypes
  <2>4. LocksHold'
    BY <1>1, <2>1, <2>3 DEF LocksHold, rowVars
  <2>5. RingsHold'
    BY <1>1, <2>1, <2>3 DEF RingsHold, Spent, rowVars
  <2> QED BY <1>1, <2>1, <2>2, <2>4, <2>5 DEF ReminderInv, EditIsOfReminder, RingsOnce, rowVars
<1>3. ASSUME NEW t \in Rows, CreateTask(t) \/ TaskForOutcome(t) PROVE ReminderInv'
  <2>1. /\ ~exists[t] /\ reminder[t] = 0 /\ edit.row # t
        /\ exists' = [exists EXCEPT ![t] = TRUE]
        /\ UNCHANGED <<isDue, reminded, done, picked, carried, stage, edit, edits, deaths, rung>>
    BY <1>3 DEF CreateTask, TaskForOutcome, Unused
  <2>2. PICK n \in {0, 1} : reminder' = [reminder EXCEPT ![t] = n]
    <3>1. CASE CreateTask(t)
      BY <3>1 DEF CreateTask
    <3>2. CASE TaskForOutcome(t)
      <4>1. reminder' = reminder /\ reminder = [reminder EXCEPT ![t] = 0]
        BY <1>1, <2>1, <3>2 DEF TaskForOutcome, ReminderTypes
      <4> QED BY <4>1
    <3> QED BY <1>3, <3>1, <3>2
  <2>3. ReminderTypes'
    BY <1>1, <2>1, <2>2 DEF ReminderTypes
  <2>4. \A v \in Ringers, u \in Rows :
          /\ HasLocked(v, u)' <=> HasLocked(v, u) /\ u # t
          /\ IsRinging(v, u)' <=> IsRinging(v, u)
    BY <1>1, <2>1 DEF HasLocked, IsRinging, LocksHold
  <2>5. ASSUME NEW u \in Rows, NEW m \in Nat, Spent(u, m) PROVE Spent(u, m)'
    <3>1. CASE u # t
      BY <1>1, <2>1, <2>2, <2>5, <3>1 DEF Spent, ReminderTypes
    <3>2. CASE u = t
      BY <1>1, <2>1, <2>2, <2>5, <3>2 DEF Spent, ReminderTypes
    <3> QED BY <3>1, <3>2
  <2>6. LocksHold'
    BY <1>1, <2>1, <2>2, <2>4 DEF LocksHold, ReminderTypes
  <2>7. RingsHold'
    <3>1. ASSUME NEW w \in Ringers, NEW u \in Rows, IsRinging(w, u)' PROVE Spent(u, carried[w][u])'
      <4>1. Spent(u, carried[w][u]) /\ carried[w][u] \in Nat
        BY <1>1, <2>4, <3>1 DEF RingsHold, ReminderTypes
      <4>2. PICK m \in Nat : m = carried[w][u]
        BY <4>1
      <4> QED BY <2>1, <2>5, <4>1, <4>2 DEF Spent
    <3>2. ASSUME NEW x \in rung PROVE Spent(x[1], x[2])'
      <4>1. Spent(x[1], x[2]) /\ x[1] \in Rows /\ x[2] \in Nat
        BY <1>1 DEF RingsHold, ReminderTypes
      <4> QED BY <2>5, <4>1
    <3> QED BY <1>1, <2>1, <2>4, <3>1, <3>2 DEF RingsHold
  <2>8. EditIsOfReminder'
    BY <1>1, <2>1, <2>2 DEF EditIsOfReminder, ReminderTypes
  <2> QED BY <1>1, <2>1, <2>3, <2>6, <2>7, <2>8 DEF ReminderInv, RingsOnce
<1>4. ASSUME NEW t \in Rows, ReadTask(t) PROVE ReminderInv'
  <2>1. /\ UNCHANGED <<rowVars, picked, carried, stage, deaths, rung>>
        /\ \E moves \in BOOLEAN, completed \in {"unsent", "yes", "no"} :
             edit' = [row |-> t, sawReminded |-> reminded[t], sawReminder |-> reminder[t],
                      moves |-> moves, completed |-> completed]
    BY <1>4 DEF ReadTask
  <2>2. edit' \in Edits /\ edit'.row \in Rows /\ edit'.sawReminder = reminder[edit'.row]
    BY <1>1, <2>1 DEF Edits, ReminderTypes
  <2>3. ReminderTypes'
    BY <1>1, <2>1, <2>2 DEF ReminderTypes, rowVars
  <2> QED BY <1>1, <2>1, <2>2, <2>3 DEF ReminderInv, EditIsOfReminder, LocksHold, RingsHold,
    RingsOnce, Spent, HasLocked, IsRinging, rowVars
<1>5. ASSUME NEW t \in Rows, DeleteTask(t) PROVE ReminderInv'
  <2>1. /\ t \notin LockedRows /\ exists' = [exists EXCEPT ![t] = FALSE]
        /\ UNCHANGED <<reminder, isDue, reminded, done, byMail, picked, carried, stage, edit, edits, deaths, rung>>
    BY <1>5 DEF DeleteTask
  <2>2. \A w \in Ringers : ~HasLocked(w, t)
    BY <2>1, LockedIsHeld
  <2>3. ReminderTypes'
    BY <1>1, <2>1 DEF ReminderTypes
  <2>4. LocksHold'
    BY <1>1, <2>1, <2>2 DEF LocksHold, HasLocked, ReminderTypes
  <2>5. RingsHold'
    BY <1>1, <2>1 DEF RingsHold, IsRinging, Spent
  <2> QED BY <1>1, <2>1, <2>3, <2>4, <2>5 DEF ReminderInv, EditIsOfReminder, RingsOnce
<1>6. ASSUME NEW t \in Rows, ComesDue(t) PROVE ReminderInv'
  BY <1>1, <1>6 DEF ComesDue, ReminderInv, ReminderTypes, EditIsOfReminder, LocksHold, RingsHold,
    RingsOnce, Spent, HasLocked, IsRinging
<1>7. CASE UNCHANGED reminderVars
  BY <1>1, <1>7 DEF reminderVars, rowVars, ReminderInv, ReminderTypes, EditIsOfReminder, LocksHold,
    RingsHold, RingsOnce, Spent, HasLocked, IsRinging
<1> QED BY <1>2, <1>3, <1>4, <1>5, <1>6, <1>7, SelectKeepsInv, StampKeepsInv, RingKeepsInv,
  UpdateKeepsInv, Zenon DEF ReminderNext

\* Whichever workers find it due, and whatever restarts or edits there are: a
\* reminder is delivered at most once.
THEOREM RemindersRingOnce == ReminderSpec => []RingsOnce
<1>1. ReminderInit => ReminderInv
  BY DEF ReminderInit, ReminderInv, ReminderTypes, EditIsOfReminder, LocksHold, RingsHold, RingsOnce,
    Spent, HasLocked, IsRinging, NoEdit, Edits
<1>2. ReminderInv /\ [ReminderNext]_reminderVars => ReminderInv'
  BY ReminderStepKeepsInv
<1>3. ReminderInv => RingsOnce
  BY DEF ReminderInv
<1> QED BY <1>1, <1>2, <1>3, PTL DEF ReminderSpec

\* What the rest of the type adds: an edit moves a reminder that can still be
\* moved, and what is carried to be rung is one.
RemindersInBounds ==
  /\ byMail \in [Rows -> BOOLEAN] /\ edits \in 0..MaxEdits /\ deaths \in 0..MaxDeaths
  /\ \A t \in Rows : reminder[t] <= MaxMoves
  /\ edit.moves => edit.sawReminder < MaxMoves
  /\ \A w \in Ringers, t \in Rows : carried[w][t] <= MaxMoves /\ (IsRinging(w, t) => carried[w][t] # 0)
  /\ \A x \in rung : x[2] \in 1..MaxMoves

LEMMA RemindersStayInBounds ==
  ASSUME ReminderInv, RemindersInBounds, [ReminderNext]_reminderVars
  PROVE  RemindersInBounds'
<1>1. ReminderTypes /\ EditIsOfReminder /\ LocksHold /\ RingsHold
      /\ MaxMoves \in Nat \ {0} /\ MaxEdits \in Nat /\ MaxDeaths \in Nat
  BY ReminderAssumption DEF ReminderInv
<1>2. ASSUME NEW w \in Ringers, SelectDue(w) PROVE RemindersInBounds'
  <2>1. /\ carried' = [carried EXCEPT ![w] = reminder] /\ stage' = [stage EXCEPT ![w] = "locked"]
        /\ UNCHANGED <<rowVars, edit, edits, deaths, rung>>
        /\ \A v \in Ringers \ {w} : picked'[v] = picked[v]
    BY <1>1, <1>2 DEF SelectDue, ReminderTypes
  <2>2. \A v \in Ringers, t \in Rows :
          /\ carried'[v][t] <= MaxMoves
          /\ IsRinging(v, t)' => IsRinging(v, t) /\ carried'[v][t] = carried[v][t]
    BY <1>1, <2>1 DEF RemindersInBounds, IsRinging, ReminderTypes
  <2> QED BY <2>1, <2>2 DEF RemindersInBounds, rowVars
<1>3. ASSUME NEW w \in Ringers, StampBatch(w) PROVE RemindersInBounds'
  <2>1. /\ stage[w] = "locked" /\ stage' = [stage EXCEPT ![w] = "ringing"]
        /\ UNCHANGED <<reminder, byMail, picked, carried, edit, edits, deaths, rung>>
    BY <1>3 DEF StampBatch
  <2>2. \A v \in Ringers, t \in Rows : IsRinging(v, t)' => IsRinging(v, t) \/ HasLocked(v, t)
    BY <1>1, <2>1 DEF IsRinging, HasLocked, ReminderTypes
  <2>3. \A v \in Ringers, t \in Rows : HasLocked(v, t) => carried[v][t] # 0
    BY <1>1 DEF LocksHold
  <2> QED BY <2>1, <2>2, <2>3 DEF RemindersInBounds
<1>4. ASSUME NEW w \in Ringers, RingOne(w) PROVE RemindersInBounds'
  <2>1. PICK t \in picked[w] :
          /\ rung' = rung \cup {<<t, carried[w][t], w>>}
          /\ picked' = [picked EXCEPT ![w] = picked[w] \ {t}]
          /\ stage' = [stage EXCEPT ![w] = IF picked[w] = {t} THEN "idle" ELSE stage[w]]
    BY <1>4 DEF RingOne
  <2>2. /\ stage[w] = "ringing" /\ UNCHANGED <<rowVars, edit, edits, deaths>>
        /\ carried' = IF Cardinality(picked[w]) = 1
                      THEN [carried EXCEPT ![w] = [u \in Rows |-> 0]] ELSE carried
    BY <1>4 DEF RingOne
  <2>3. Cardinality(picked[w]) = 1 => picked[w] = {t}
    <3>1. IsFiniteSet(picked[w])
      BY <1>1, ReminderAssumption, FS_Subset DEF ReminderTypes
    <3> QED BY <3>1, <2>1, FS_Singleton
  <2>4. carried[w][t] \in 1..MaxMoves
    <3>1. t \in Rows /\ IsRinging(w, t) /\ carried[w][t] \in Nat
      BY <1>1, <2>1, <2>2 DEF ReminderTypes, IsRinging
    <3> QED BY <1>1, <3>1 DEF RemindersInBounds
  <2>5. ASSUME NEW v \in Ringers, NEW u \in Rows
        PROVE  carried'[v][u] <= MaxMoves /\ (IsRinging(v, u)' => carried'[v][u] # 0)
    <3>1. carried'[v][u] \in {0, carried[v][u]}
      BY <1>1, <2>2 DEF ReminderTypes
    <3>2. IsRinging(v, u)' => IsRinging(v, u) /\ carried'[v][u] = carried[v][u]
      BY <1>1, <2>1, <2>2, <2>3 DEF IsRinging, ReminderTypes
    <3> QED BY <1>1, <3>1, <3>2 DEF RemindersInBounds
  <2>6. \A x \in rung' : x[2] \in 1..MaxMoves
    BY <2>1, <2>4 DEF RemindersInBounds
  <2> QED BY <2>2, <2>5, <2>6 DEF RemindersInBounds, rowVars
<1>5. ASSUME NEW w \in Ringers, RingerDies(w) PROVE RemindersInBounds'
  <2>1. /\ stage' = [stage EXCEPT ![w] = "idle"] /\ picked' = [picked EXCEPT ![w] = {}]
        /\ carried' = [carried EXCEPT ![w] = [t \in Rows |-> 0]]
        /\ UNCHANGED <<rowVars, edit, edits, rung>> /\ deaths < MaxDeaths /\ deaths' = deaths + 1
    BY <1>5 DEF RingerDies
  <2>2. \A v \in Ringers, t \in Rows :
          /\ carried'[v][t] <= MaxMoves
          /\ IsRinging(v, t)' => IsRinging(v, t) /\ carried'[v][t] = carried[v][t]
    BY <1>1, <2>1 DEF RemindersInBounds, IsRinging, ReminderTypes
  <2>3. deaths' \in 0..MaxDeaths
    BY <1>1, <2>1 DEF RemindersInBounds
  <2> QED BY <2>1, <2>2, <2>3 DEF RemindersInBounds, rowVars
<1>6. ASSUME NEW t \in Rows, CreateTask(t) \/ TaskForOutcome(t) PROVE RemindersInBounds'
  <2>1. UNCHANGED <<picked, carried, stage, edit, edits, deaths, rung>>
        /\ byMail' \in [Rows -> BOOLEAN]
    BY <1>6 DEF CreateTask, TaskForOutcome, RemindersInBounds
  <2>2. \A u \in Rows : reminder'[u] \in {0, 1, reminder[u]}
    BY <1>1, <1>6 DEF CreateTask, TaskForOutcome, ReminderTypes
  <2>3. \A u \in Rows : reminder'[u] <= MaxMoves
    BY <1>1, <2>2 DEF RemindersInBounds
  <2> QED BY <2>1, <2>3 DEF RemindersInBounds, IsRinging
<1>7. ASSUME NEW t \in Rows, ReadTask(t) PROVE RemindersInBounds'
  <2>1. /\ UNCHANGED <<rowVars, picked, carried, stage, deaths, rung>>
        /\ edits < MaxEdits /\ edits' = edits + 1
    BY <1>7 DEF ReadTask
  <2>2. PICK moves \in BOOLEAN, completed \in {"unsent", "yes", "no"} :
          /\ moves => reminder[t] < MaxMoves
          /\ edit' = [row |-> t, sawReminded |-> reminded[t], sawReminder |-> reminder[t],
                      moves |-> moves, completed |-> completed]
    BY <1>7 DEF ReadTask
  <2>3. edits' \in 0..MaxEdits
    BY <1>1, <2>1 DEF RemindersInBounds
  <2> QED BY <2>1, <2>2, <2>3 DEF RemindersInBounds, IsRinging, rowVars
<1>8. CASE UpdateTask
  <2>1. /\ edit # NoEdit /\ edit' = NoEdit /\ ~NoEdit.moves
        /\ UNCHANGED <<byMail, picked, carried, stage, edits, deaths, rung>>
    BY <1>8 DEF UpdateTask, rowVars, NoEdit
  <2>2. \A u \in Rows : reminder'[u] = reminder[u] \/ (edit.moves /\ reminder'[u] = edit.sawReminder + 1)
    BY <1>1, <1>8 DEF UpdateTask, rowVars, ReminderTypes
  <2>3. edit.sawReminder \in Nat
    BY <1>1 DEF ReminderTypes, Edits
  <2>4. \A u \in Rows : reminder'[u] <= MaxMoves
    BY <1>1, <2>2, <2>3 DEF RemindersInBounds
  <2> QED BY <2>1, <2>4 DEF RemindersInBounds, IsRinging
<1>9. ASSUME NEW t \in Rows, DeleteTask(t) \/ ComesDue(t) PROVE RemindersInBounds'
  BY <1>9 DEF DeleteTask, ComesDue, RemindersInBounds, IsRinging
<1>10. CASE UNCHANGED reminderVars
  BY <1>10 DEF reminderVars, rowVars, RemindersInBounds, IsRinging
<1> QED BY <1>2, <1>3, <1>4, <1>5, <1>6, <1>7, <1>8, <1>9, <1>10, Zenon DEF ReminderNext

\* Through every edit, ring and death: a reminder that is due is one, what rang
\* was one, and no row is given more of them than it may.
THEOREM ReminderTypeCorrect == ReminderSpec => []ReminderTypeOK
<1>1. ReminderInit => ReminderInv
  BY DEF ReminderInit, ReminderInv, ReminderTypes, EditIsOfReminder, LocksHold, RingsHold, RingsOnce,
    NoEdit, Edits, HasLocked, IsRinging
<1>2. ReminderInit => RemindersInBounds
  BY ReminderAssumption DEF ReminderInit, RemindersInBounds, IsRinging, NoEdit
<1>3. ReminderInv /\ RemindersInBounds /\ [ReminderNext]_reminderVars
        => (ReminderInv /\ RemindersInBounds)'
  BY ReminderStepKeepsInv, RemindersStayInBounds
<1>4. ReminderInv /\ RemindersInBounds => ReminderTypeOK
  <2> SUFFICES ASSUME ReminderInv, RemindersInBounds PROVE ReminderTypeOK
    OBVIOUS
  <2>1. ReminderTypes /\ MaxMoves \in Nat
    BY ReminderAssumption DEF ReminderInv
  <2>2. reminder \in [Rows -> 0..MaxMoves]
    BY <2>1 DEF ReminderTypes, RemindersInBounds
  <2>3. carried \in [Ringers -> [Rows -> 0..MaxMoves]]
    <3>1. \A w \in Ringers : carried[w] \in [Rows -> 0..MaxMoves]
      BY <2>1 DEF ReminderTypes, RemindersInBounds
    <3> QED BY <2>1, <3>1 DEF ReminderTypes
  <2>4. rung \subseteq Rows \X (1..MaxMoves) \X Ringers
    BY <2>1 DEF ReminderTypes, RemindersInBounds
  <2>5. edit.row \in Rows \cup {NoRow}
    BY <2>1 DEF ReminderTypes, Edits
  <2> QED BY <2>1, <2>2, <2>3, <2>4, <2>5 DEF ReminderTypes, RemindersInBounds, ReminderTypeOK
<1> QED BY <1>1, <1>2, <1>3, <1>4, PTL DEF ReminderSpec

-----------------------------------------------------------------------------
(* The locks of a candidate's applications.  Who waits for a lock holds    *)
(* another one only in the order candidate, row, but for a run that locked *)
(* its row when it began and waits for the candidate at the gate; so every *)
(* circle has such a run.                                                  *)

RunPoints == {"resting", "beginning", "browsing", "parking", "gate", "deciding", "clicking",
              "receipt", "failing", "done"}
RequestPoints == {"resting", "asked", "settling", "entry", "done"}
PointsOf(p) == IF p \in Applications THEN RunPoints ELSE RequestPoints

\* A transaction stands only in the queues of the candidate and its row, and
\* where it does not hold the lock it waits for it.
StandsRightly(p, l) ==
  /\ l \in {Candidate, Row(p)}
  /\ Holds(p, l) \/ l \in Wanted(p)
  /\ point[p] \notin {"resting", "clicking", "done"}
  /\ point[p] \in {"asked", "entry"} => l = Candidate

LockInv ==
  /\ LockTypeOK
  /\ \A p \in Transactions : point[p] \in PointsOf(p)
  /\ \A p \in Transactions, l \in Locks : Contains(queue[l], p) => StandsRightly(p, l)

LEMMA AppendedQueue ==
  ASSUME NEW T, NEW s \in Seq(T), NEW e \in T, IsInjective(s), ~Contains(s, e)
  PROVE  /\ Append(s, e) \in Seq(T) /\ IsInjective(Append(s, e)) /\ Append(s, e) # <<>>
         /\ \A q : Contains(Append(s, e), q) <=> Contains(s, q) \/ q = e
         /\ s # <<>> => Head(Append(s, e)) = Head(s)
<1> DEFINE t == Append(s, e)
<1>1. /\ t \in Seq(T) /\ Len(t) = Len(s) + 1 /\ t[Len(s) + 1] = e
      /\ \A i \in 1..Len(s) : t[i] = s[i]
  OBVIOUS
<1>2. Len(s) \in Nat /\ DOMAIN s = 1..Len(s) /\ DOMAIN t = 1..Len(t)
  BY <1>1
<1> HIDE DEF t
<1>3. IsInjective(t)
  BY <1>1, <1>2 DEF IsInjective, Contains
<1>4. ASSUME NEW q PROVE Contains(t, q) <=> Contains(s, q) \/ q = e
  BY <1>1, <1>2 DEF Contains
<1>5. t # <<>>
  BY <1>1, <1>2
<1>6. s # <<>> => Head(t) = Head(s)
  <2> SUFFICES ASSUME s # <<>> PROVE Head(t) = Head(s)
    OBVIOUS
  <2>1. Len(s) >= 1 /\ Head(s) = s[1] /\ Head(t) = t[1]
    BY <1>1, <1>5
  <2> QED BY <1>1, <2>1
<1> QED BY <1>1, <1>3, <1>4, <1>5, <1>6 DEF t

LEMMA ShortenedQueue ==
  ASSUME NEW T, NEW s \in Seq(T), NEW e, IsInjective(s)
  PROVE  LET t == RemoveFirst(s, e)
         IN  /\ t \in Seq(T) /\ IsInjective(t)
             /\ \A q : Contains(t, q) <=> Contains(s, q) /\ q # e
             /\ s # <<>> /\ Head(s) # e => t # <<>> /\ Head(t) = Head(s)
<1> DEFINE t == RemoveFirst(s, e)
<1>1. CASE ~\E i \in 1..Len(s) : s[i] = e
  <2>1. t = s
    BY <1>1 DEF RemoveFirst
  <2> QED BY <1>1, <2>1 DEF Contains
<1>2. CASE \E i \in 1..Len(s) : s[i] = e
  <2> DEFINE I == {i \in 1..Len(s) : s[i] = e}
  <2>1. PICK n \in 1..Len(s) : s[n] = e
    BY <1>2
  <2>2. I = {n}
    BY <2>1 DEF IsInjective
  <2>3. Min(I) = n
    BY <2>2 DEF Min
  <2>4. SelectInSeq(s, LAMBDA v : v = e) = n
    BY <2>2, <2>3 DEF SelectInSeq
  <2>5. t = SubSeq(s, 1, n - 1) \o SubSeq(s, n + 1, Len(s))
    BY <1>2, <2>4 DEF RemoveFirst, RemoveAt
  <2> HIDE DEF t, I
  <2> DEFINE u == SubSeq(s, 1, n - 1)
             v == SubSeq(s, n + 1, Len(s))
  <2>6. n \in Nat /\ n >= 1 /\ n <= Len(s) /\ Len(s) \in Nat
    BY <2>1
  <2>7. u \in Seq(T) /\ Len(u) = n - 1 /\ \A i \in 1..n - 1 : u[i] = s[i]
    BY <2>6
  <2>8. v \in Seq(T) /\ Len(v) = Len(s) - n /\ \A i \in 1..Len(s) - n : v[i] = s[n + i]
    BY <2>6
  <2> HIDE DEF u, v
  <2>9. /\ t \in Seq(T) /\ Len(t) = Len(s) - 1
        /\ \A i \in 1..Len(s) - 1 : t[i] = IF i < n THEN s[i] ELSE s[i + 1]
    <3>1. t = u \o v
      BY <2>5 DEF u, v
    <3>2. t \in Seq(T) /\ Len(t) = Len(u) + Len(v)
      BY <2>7, <2>8, <3>1
    <3>3. ASSUME NEW i \in 1..Len(s) - 1 PROVE t[i] = IF i < n THEN s[i] ELSE s[i + 1]
      <4>1. CASE i < n
        BY <2>6, <2>7, <2>8, <3>1, <3>3, <4>1
      <4>2. CASE ~(i < n)
        <5>1. t[i] = v[i - (n - 1)] /\ i - (n - 1) \in 1..Len(s) - n
          BY <2>6, <2>7, <2>8, <3>1, <3>3, <4>2
        <5>2. v[i - (n - 1)] = s[n + (i - (n - 1))]
          BY <2>8, <5>1
        <5> QED BY <2>6, <3>3, <4>2, <5>1, <5>2
      <4> QED BY <4>1, <4>2
    <3> QED BY <2>6, <2>7, <2>8, <3>2, <3>3
  <2>10. DOMAIN t = 1..Len(s) - 1 /\ DOMAIN s = 1..Len(s)
    BY <2>9
  <2>11. \A i, j \in 1..Len(s) : s[i] = s[j] => i = j
    BY <2>10 DEF IsInjective
  <2>12. IsInjective(t)
    <3> SUFFICES ASSUME NEW i \in 1..Len(s) - 1, NEW j \in 1..Len(s) - 1, t[i] = t[j] PROVE i = j
      BY <2>10 DEF IsInjective
    <3> QED BY <2>6, <2>9, <2>11
  <2>13. ASSUME NEW q PROVE Contains(t, q) <=> Contains(s, q) /\ q # e
    <3>1. ASSUME NEW i \in 1..Len(s) - 1, t[i] = q PROVE Contains(s, q) /\ q # e
      BY <2>1, <2>6, <2>9, <2>11, <3>1 DEF Contains
    <3>2. ASSUME NEW i \in 1..Len(s), s[i] = q, q # e PROVE Contains(t, q)
      <4>1. i # n
        BY <2>1, <3>2
      <4>2. CASE i < n
        BY <2>6, <2>9, <3>2, <4>2 DEF Contains
      <4>3. CASE i > n
        <5>1. i - 1 \in 1..Len(s) - 1 /\ ~(i - 1 < n) /\ (i - 1) + 1 = i
          BY <2>6, <3>2, <4>3
        <5>2. t[i - 1] = q
          BY <2>9, <3>2, <5>1
        <5> QED BY <2>9, <5>1, <5>2 DEF Contains
      <4> QED BY <2>6, <4>1, <4>2, <4>3
    <3> QED BY <2>9, <3>1, <3>2 DEF Contains
  <2>14. s # <<>> /\ Head(s) # e => t # <<>> /\ Head(t) = Head(s)
    <3> SUFFICES ASSUME s # <<>>, Head(s) # e PROVE t # <<>> /\ Head(t) = Head(s)
      OBVIOUS
    <3>1. Head(s) = s[1] /\ n # 1
      BY <2>1
    <3>2. 1 \in 1..Len(s) - 1 /\ 1 < n
      BY <2>6, <3>1
    <3>3. t # <<>> /\ Head(t) = t[1]
      BY <2>9, <3>2
    <3> QED BY <2>9, <3>1, <3>2, <3>3
  <2> QED BY <2>9, <2>12, <2>13, <2>14 DEF t
<1> QED BY <1>1, <1>2

LEMMA RowIsLock ==
  ASSUME NEW p \in Transactions
  PROVE  Row(p) \in Applications /\ Row(p) \in Locks /\ Candidate \in Locks /\ Row(p) # Candidate
BY LockAssumption DEF Row, Transactions, Locks

\* A transaction moves without asking; what it stood in a queue for it holds.
LEMMA MovingOn ==
  ASSUME LockInv, NEW p \in Transactions, NEW at \in PointsOf(p), GotoStage(p, at),
         UNCHANGED queue, attempt' \in [Applications -> 0..MaxTries],
         \A l \in Locks : Contains(queue[l], p) =>
           Holds(p, l) /\ at \notin {"resting", "clicking", "done", "asked", "entry"}
  PROVE  LockInv'
<1>1. point' = [point EXCEPT ![p] = at] /\ queue' = queue
  BY DEF GotoStage
<1>2. at \in RunPoints \cup RequestPoints
  BY DEF PointsOf
<1>3. LockTypeOK'
  BY <1>1, <1>2 DEF LockInv, LockTypeOK, RunPoints, RequestPoints
<1>4. \A q \in Transactions : point'[q] = IF q = p THEN at ELSE point[q]
  BY <1>1 DEF LockInv, LockTypeOK
<1>5. \A q \in Transactions : point'[q] \in PointsOf(q)
  BY <1>4 DEF LockInv
<1>6. ASSUME NEW q \in Transactions, NEW l \in Locks, Contains(queue[l], q)
      PROVE  StandsRightly(q, l)'
  <2>1. StandsRightly(q, l)
    BY <1>6 DEF LockInv
  <2>2. Holds(q, l)' <=> Holds(q, l)
    BY <1>1 DEF Holds
  <2>3. CASE q = p
    BY <1>4, <1>6, <2>1, <2>2, <2>3 DEF StandsRightly
  <2>4. CASE q # p
    <3>1. point'[q] = point[q]
      BY <1>4, <2>4
    <3>2. Wanted(q)' = Wanted(q)
      BY <3>1 DEF Wanted
    <3> QED BY <2>1, <2>2, <3>1, <3>2 DEF StandsRightly
  <2> QED BY <2>3, <2>4
<1> QED BY <1>1, <1>3, <1>5, <1>6 DEF LockInv, PointsOf

\* A transaction asks for a lock and goes on to where it waits for it.
LEMMA AskingKeepsInv ==
  ASSUME LockInv, NEW p \in Transactions, NEW l \in {Candidate, Row(p)}, NEW at \in PointsOf(p),
         GotoStage(p, at), AskFor(p, l), attempt' \in [Applications -> 0..MaxTries],
         l \in Wanted(p)', at \notin {"resting", "clicking", "done"},
         at \in {"asked", "entry"} => l = Candidate,
         \A k \in Locks : Contains(queue[k], p) =>
           Holds(p, k) /\ at \notin {"asked", "entry"}
  PROVE  LockInv'
<1>1. point' = [point EXCEPT ![p] = at] /\ l \in Locks /\ p \in Transactions
  BY RowIsLock DEF GotoStage
<1>2. at \in RunPoints \cup RequestPoints
  BY DEF PointsOf
<1>3. queue \in [Locks -> Seq(Transactions)] /\ \A k \in Locks : IsInjective(queue[k])
  BY DEF LockInv, LockTypeOK
<1>4. CASE Contains(queue[l], p)
  <2>1. queue' = queue
    BY <1>3, <1>4 DEF AskFor
  <2>2. \A k \in Locks : Contains(queue[k], p) =>
          Holds(p, k) /\ at \notin {"resting", "clicking", "done", "asked", "entry"}
    BY <1>1, <1>4
  <2> QED BY <2>1, <2>2, MovingOn
<1>5. CASE ~Contains(queue[l], p)
  <2>1. queue' = [queue EXCEPT ![l] = Append(queue[l], p)]
    BY <1>3, <1>5 DEF AskFor
  <2>2. /\ queue'[l] \in Seq(Transactions) /\ IsInjective(queue'[l]) /\ queue'[l] # <<>>
        /\ \A q : Contains(queue'[l], q) <=> Contains(queue[l], q) \/ q = p
        /\ queue[l] # <<>> => Head(queue'[l]) = Head(queue[l])
    BY <1>1, <1>3, <1>5, <2>1, AppendedQueue
  <2>3. \A k \in Locks : k # l => queue'[k] = queue[k]
    BY <1>3, <2>1
  <2>4. queue' \in [Locks -> Seq(Transactions)]
    BY <1>1, <1>3, <2>1, <2>2
  <2>5. LockTypeOK'
    BY <1>1, <1>2, <1>3, <2>2, <2>3, <2>4 DEF LockInv, LockTypeOK, RunPoints, RequestPoints
  <2>6. \A q \in Transactions : point'[q] = IF q = p THEN at ELSE point[q]
    BY <1>1 DEF LockInv, LockTypeOK
  <2>7. \A q \in Transactions : point'[q] \in PointsOf(q)
    BY <2>6 DEF LockInv
  <2>8. ASSUME NEW q \in Transactions, NEW k \in Locks, Holds(q, k) PROVE Holds(q, k)'
    BY <2>2, <2>3, <2>8 DEF Holds
  <2>9. ASSUME NEW q \in Transactions, NEW k \in Locks, Contains(queue'[k], q)
        PROVE  StandsRightly(q, k)'
    <3>1. CASE q = p /\ k = l
      BY <2>6, <3>1 DEF StandsRightly
    <3>2. CASE ~(q = p /\ k = l)
      <4>1. Contains(queue[k], q)
        BY <2>2, <2>3, <2>9, <3>2
      <4>2. StandsRightly(q, k)
        BY <4>1 DEF LockInv
      <4>3. CASE q = p
        <5>1. Holds(q, k)'
          BY <2>8, <4>1, <4>3
        <5> QED BY <2>6, <4>1, <4>2, <4>3, <5>1 DEF StandsRightly
      <4>4. CASE q # p
        <5>1. point'[q] = point[q]
          BY <2>6, <4>4
        <5>2. Wanted(q)' = Wanted(q)
          BY <5>1 DEF Wanted
        <5> QED BY <2>8, <4>2, <5>1, <5>2 DEF StandsRightly
      <4> QED BY <4>3, <4>4
    <3> QED BY <3>1, <3>2
  <2> QED BY <2>5, <2>7, <2>9 DEF LockInv, PointsOf
<1> QED BY <1>4, <1>5

\* A transaction ends and leaves every queue, wherever it goes.
LEMMA EndingKeepsInv ==
  ASSUME LockInv, NEW p \in Transactions, NEW at \in PointsOf(p), GotoStage(p, at),
         EndTransaction(p), attempt' \in [Applications -> 0..MaxTries]
  PROVE  LockInv'
<1>1. point' = [point EXCEPT ![p] = at] /\ queue' = [l \in Locks |-> RemoveFirst(queue[l], p)]
  BY DEF GotoStage, EndTransaction
<1>2. at \in RunPoints \cup RequestPoints
  BY DEF PointsOf
<1>3. \A l \in Locks : queue[l] \in Seq(Transactions) /\ IsInjective(queue[l])
  BY DEF LockInv, LockTypeOK
<1>4. ASSUME NEW l \in Locks
      PROVE  /\ queue'[l] \in Seq(Transactions) /\ IsInjective(queue'[l])
             /\ \A q : Contains(queue'[l], q) <=> Contains(queue[l], q) /\ q # p
             /\ queue[l] # <<>> /\ Head(queue[l]) # p =>
                  queue'[l] # <<>> /\ Head(queue'[l]) = Head(queue[l])
  BY <1>1, <1>3, ShortenedQueue
<1>5. LockTypeOK'
  BY <1>1, <1>2, <1>4 DEF LockInv, LockTypeOK, RunPoints, RequestPoints
<1>6. \A q \in Transactions : point'[q] = IF q = p THEN at ELSE point[q]
  BY <1>1 DEF LockInv, LockTypeOK
<1>7. \A q \in Transactions : point'[q] \in PointsOf(q)
  BY <1>6 DEF LockInv
<1>8. ASSUME NEW q \in Transactions, NEW l \in Locks, Contains(queue'[l], q)
      PROVE  StandsRightly(q, l)'
  <2>1. q # p /\ Contains(queue[l], q)
    BY <1>4, <1>8
  <2>2. StandsRightly(q, l)
    BY <2>1 DEF LockInv
  <2>3. point'[q] = point[q]
    BY <1>6, <2>1
  <2>4. Wanted(q)' = Wanted(q)
    BY <2>3 DEF Wanted
  <2>5. Holds(q, l) => Holds(q, l)'
    BY <1>4, <2>1 DEF Holds
  <2> QED BY <2>2, <2>3, <2>4, <2>5 DEF StandsRightly
<1> QED BY <1>5, <1>7, <1>8 DEF LockInv, PointsOf

\* What a transaction stands in a queue for, by where it is.
LEMMA RestingStandsNowhere ==
  ASSUME LockInv, NEW p \in Transactions, point[p] \in {"resting", "clicking", "done"}
  PROVE  \A l \in Locks : ~Contains(queue[l], p)
BY DEF LockInv, StandsRightly

LEMMA GrantedHoldsAll ==
  ASSUME LockInv, NEW p \in Transactions, Granted(p)
  PROVE  \A l \in Locks : Contains(queue[l], p) => Holds(p, l)
BY DEF LockInv, StandsRightly, Granted

LEMMA RunStepKeepsLockInv ==
  ASSUME LockInv, NEW a \in Applications, RunMoves(a) \/ RunLost(a) \/ Retry(a)
  PROVE  LockInv'
<1>1. /\ a \in Transactions /\ Row(a) = a /\ PointsOf(a) = RunPoints
      /\ attempt \in [Applications -> 0..MaxTries]
  BY DEF Transactions, Row, PointsOf, LockInv, LockTypeOK
<1>2. point \in [Transactions -> {point[q] : q \in Transactions}]
  BY DEF LockInv, LockTypeOK
<1>3. \A at : GotoStage(a, at) => point'[a] = at
  BY <1>1, <1>2 DEF GotoStage
<1>4. CASE Begin(a)
  <2>1. point[a] = "resting" /\ attempt' \in [Applications -> 0..MaxTries]
    BY <1>1, <1>4, LockAssumption DEF Begin
  <2>2. \A l \in Locks : ~Contains(queue[l], a)
    BY <1>1, <2>1, RestingStandsNowhere
  <2>3. CASE GotoStage(a, "beginning") /\ AskFor(a, a)
    <3>1. a \in Wanted(a)' /\ "beginning" \in PointsOf(a)
      BY <1>1, <1>3, <2>3 DEF Wanted, Row, RunPoints
    <3> QED BY <1>1, <2>1, <2>2, <2>3, <3>1, AskingKeepsInv
  <2>4. CASE GotoStage(a, "browsing") /\ UNCHANGED queue
    BY <1>1, <2>1, <2>2, <2>4, MovingOn DEF RunPoints
  <2> QED BY <1>4, <2>3, <2>4 DEF Begin
<1>5. CASE Begun(a)
  <2>1. \A l \in Locks : Contains(queue[l], a) => Holds(a, l)
    BY <1>1, <1>5, GrantedHoldsAll DEF Begun
  <2> QED BY <1>1, <1>5, <2>1, MovingOn DEF Begun, RunPoints
<1>6. CASE Retry(a)
  BY <1>1, <1>6, EndingKeepsInv DEF Retry, RunPoints
<1>7. CASE Browse(a)
  <2>1. \A l \in Locks : Contains(queue[l], a) => Holds(a, l)
    BY <1>1, <1>7 DEF Browse, LockInv, StandsRightly, Wanted
  <2>2. CASE GotoStage(a, "parking") /\ AskFor(a, a) /\ UNCHANGED attempt
    <3>1. a \in Wanted(a)' /\ "parking" \in PointsOf(a)
      BY <1>1, <1>3, <2>2 DEF Wanted, Row, RunPoints
    <3> QED BY <1>1, <2>1, <2>2, <3>1, AskingKeepsInv
  <2>3. CASE GotoStage(a, "gate") /\ AskFor(a, Candidate) /\ UNCHANGED attempt
    <3>1. Candidate \in Wanted(a)' /\ "gate" \in PointsOf(a)
      BY <1>1, <1>3, <2>3 DEF Wanted, RunPoints
    <3> QED BY <1>1, <2>1, <2>3, <3>1, AskingKeepsInv
  <2> QED BY <1>6, <1>7, <2>2, <2>3 DEF Browse
<1>8. CASE Gate(a)
  <2>1. \A l \in Locks : Contains(queue[l], a) => Holds(a, l)
    BY <1>1, <1>8, GrantedHoldsAll DEF Gate
  <2>2. GotoStage(a, "deciding") /\ AskFor(a, a) /\ UNCHANGED attempt
    BY <1>8 DEF Gate
  <2>3. a \in Wanted(a)' /\ "deciding" \in PointsOf(a)
    BY <1>1, <1>3, <2>2 DEF Wanted, Row, RunPoints
  <2> QED BY <1>1, <2>1, <2>2, <2>3, AskingKeepsInv
<1>9. CASE Decide(a)
  <2>1. EndTransaction(a) /\ attempt' = attempt /\ (GotoStage(a, "done") \/ GotoStage(a, "clicking"))
    BY <1>9 DEF Decide
  <2> QED BY <1>1, <2>1, EndingKeepsInv DEF RunPoints
<1>10. CASE ClickReturns(a)
  <2>1. \A l \in Locks : ~Contains(queue[l], a)
    BY <1>1, <1>10, RestingStandsNowhere DEF ClickReturns
  <2>2. GotoStage(a, "receipt") /\ AskFor(a, a) /\ UNCHANGED attempt
    BY <1>10 DEF ClickReturns
  <2>3. a \in Wanted(a)' /\ "receipt" \in PointsOf(a)
    BY <1>1, <1>3, <2>2 DEF Wanted, Row, RunPoints
  <2> QED BY <1>1, <2>1, <2>2, <2>3, AskingKeepsInv
<1>11. CASE CommitRun(a)
  BY <1>1, <1>11, EndingKeepsInv DEF CommitRun, RunPoints
<1>12. CASE MarkFailed(a)
  <2>1. point[a] = "failing" /\ ~Contains(queue[a], a) /\ AskFor(a, a) /\ UNCHANGED <<point, attempt>>
    BY <1>12 DEF MarkFailed
  <2>2. \A l \in Locks : Contains(queue[l], a) => Holds(a, l)
    BY <1>1, <2>1, LockAssumption DEF LockInv, StandsRightly, Wanted
  <2>3. GotoStage(a, "failing")
    BY <1>1, <1>2, <2>1 DEF GotoStage
  <2>4. a \in Wanted(a)' /\ "failing" \in PointsOf(a)
    BY <1>1, <1>3, <2>3 DEF Wanted, Row, RunPoints
  <2> QED BY <1>1, <2>1, <2>2, <2>3, <2>4, AskingKeepsInv
<1>13. RunLost(a) => Retry(a)
  BY DEF RunLost
<1> QED BY <1>4, <1>5, <1>6, <1>7, <1>8, <1>9, <1>10, <1>11, <1>12, <1>13 DEF RunMoves

LEMMA RequestStepKeepsLockInv ==
  ASSUME LockInv, NEW r \in Requests, RequestMoves(r)
  PROVE  LockInv'
<1>1. /\ r \in Transactions /\ r \notin Applications /\ PointsOf(r) = RequestPoints
      /\ attempt \in [Applications -> 0..MaxTries]
  BY LockAssumption DEF Transactions, PointsOf, LockInv, LockTypeOK
<1>2. \A at : GotoStage(r, at) => point'[r] = at
  BY <1>1 DEF GotoStage, LockInv, LockTypeOK
<1>3. CASE Ask(r)
  <2>1. \A l \in Locks : ~Contains(queue[l], r)
    BY <1>1, <1>3, RestingStandsNowhere DEF Ask
  <2>2. attempt' = attempt
    BY <1>3 DEF Ask
  <2>3. CASE GotoStage(r, "asked") /\ AskFor(r, Candidate)
    <3>1. Candidate \in Wanted(r)' /\ "asked" \in PointsOf(r)
      BY <1>1, <1>2, <2>3 DEF Wanted, RequestPoints
    <3> QED BY <1>1, <2>1, <2>2, <2>3, <3>1, AskingKeepsInv
  <2>4. CASE GotoStage(r, "entry") /\ AskFor(r, Candidate)
    <3>1. Candidate \in Wanted(r)' /\ "entry" \in PointsOf(r)
      BY <1>1, <1>2, <2>4 DEF Wanted, RequestPoints
    <3> QED BY <1>1, <2>1, <2>2, <2>4, <3>1, AskingKeepsInv
  <2>5. CASE GotoStage(r, "settling") /\ AskFor(r, Row(r))
    <3>1. Row(r) \in Wanted(r)' /\ "settling" \in PointsOf(r)
      BY <1>1, <1>2, <2>5 DEF Wanted, Row, RequestPoints
    <3> QED BY <1>1, <2>1, <2>2, <2>5, <3>1, AskingKeepsInv
  <2> QED BY <1>3, <2>3, <2>4, <2>5 DEF Ask
<1>4. CASE LockRow(r)
  <2>1. \A l \in Locks : Contains(queue[l], r) => Holds(r, l)
    BY <1>1, <1>4, GrantedHoldsAll DEF LockRow
  <2>2. GotoStage(r, "settling") /\ AskFor(r, Row(r)) /\ attempt' = attempt
    BY <1>4 DEF LockRow
  <2>3. Row(r) \in Wanted(r)' /\ "settling" \in PointsOf(r)
    BY <1>1, <1>2, <2>2 DEF Wanted, Row, RequestPoints
  <2> QED BY <1>1, <2>1, <2>2, <2>3, AskingKeepsInv
<1>5. CASE CloseRequest(r)
  BY <1>1, <1>5, EndingKeepsInv DEF CloseRequest, RequestPoints
<1> QED BY <1>3, <1>4, <1>5 DEF RequestMoves

LEMMA StepKeepsLockInv == LockInv /\ [LockNext]_lockVars => LockInv'
<1> SUFFICES ASSUME LockInv, [LockNext]_lockVars PROVE LockInv'
  OBVIOUS
<1>1. CASE UNCHANGED lockVars
  BY <1>1 DEF lockVars, LockInv, LockTypeOK, StandsRightly, Holds, Wanted
<1>2. ASSUME NEW p \in Transactions, Deadlock(p) PROVE LockInv'
  <2>1. CASE p \in Applications /\ Retry(p)
    BY <2>1, RunStepKeepsLockInv
  <2>2. CASE p \in Requests /\ EndTransaction(p) /\ GotoStage(p, "done") /\ UNCHANGED attempt
    <3>1. "done" \in PointsOf(p) /\ attempt' \in [Applications -> 0..MaxTries]
      BY <2>2 DEF PointsOf, RunPoints, RequestPoints, LockInv, LockTypeOK
    <3> QED BY <2>2, <3>1, EndingKeepsInv
  <2> QED BY <1>2, <2>1, <2>2 DEF Deadlock
<1> QED BY <1>1, <1>2, RunStepKeepsLockInv, RequestStepKeepsLockInv DEF LockNext

\* Whoever holds a row and waits is a run that began and waits at the gate.
LEMMA RowHolderWaits ==
  ASSUME LockInv, NEW q \in Transactions, NEW x \in Applications, Holds(q, x), Before(q) # {}
  PROVE  q \in Applications /\ point[q] = "gate" /\ Holds(q, q)
<1>1. x \in Locks /\ queue[x] \in Seq(Transactions)
  BY DEF Locks, LockInv, LockTypeOK
<1>2. Contains(queue[x], q)
  BY <1>1 DEF Holds, Contains
<1>3. StandsRightly(q, x) /\ x # Candidate
  BY <1>1, <1>2, LockAssumption DEF LockInv
<1>4. x = Row(q)
  BY <1>3 DEF StandsRightly
<1>5. PICK l \in Locks : Waits(q, l)
  BY DEF Before
<1>6. StandsRightly(q, l) /\ l \in Wanted(q)
  BY <1>5 DEF Waits, LockInv, StandsRightly
<1>7. l # x
  BY <1>5 DEF Waits
<1>8. l = Candidate
  BY <1>4, <1>6, <1>7 DEF StandsRightly
<1>9. point[q] \in {"gate", "asked", "entry"}
  BY <1>3, <1>6, <1>8, RowIsLock DEF Wanted
<1>10. point[q] = "gate"
  BY <1>3, <1>9 DEF StandsRightly
<1>11. q \in Applications
  BY <1>10 DEF LockInv, PointsOf, RequestPoints
<1> QED BY <1>4, <1>10, <1>11 DEF Row

\* Of whoever a transaction waits for: if they wait for the candidate, it
\* holds the candidate's lock and cannot be waiting for it, too.
LEMMA HeldAndWaited ==
  ASSUME LockInv, NEW p \in Transactions, NEW q \in Before(p)
  PROVE  /\ q \in Transactions
         /\ (\E x \in Applications : Holds(q, x)) \/ Holds(q, Candidate)
         /\ Holds(q, Candidate) => ~Waits(q, Candidate)
<1>1. PICK l \in Locks : Waits(p, l) /\ q = Head(queue[l])
  BY DEF Before
<1>2. queue[l] \in Seq(Transactions) /\ queue[l] # <<>>
  BY <1>1 DEF LockInv, LockTypeOK, Waits, Contains
<1>3. q \in Transactions /\ Holds(q, l)
  BY <1>1, <1>2 DEF Holds
<1>4. Holds(q, Candidate) => ~Waits(q, Candidate)
  BY DEF Waits
<1> QED BY <1>3, <1>4 DEF Locks

\* Without such a run: one who waits for the candidate waits for one who may
\* wait for a row, whose holder waits for nobody.
LEMMA CirclesHaveBegunRun == LockInv => CircleNeedsABegunRun
<1> SUFFICES ASSUME LockInv, NEW p \in Transactions, InCircle(p),
                    ~\E a \in Circle(p) \cap Applications : point[a] = "gate" /\ Holds(a, a)
             PROVE  FALSE
  BY DEF CircleNeedsABegunRun
<1> DEFINE S == Before(p) \cup UNION {Before(q) : q \in Before(p)}
<1>1. Before(p) \subseteq Circle(p)
  <2>1. Before(p) \subseteq Transactions
    BY HeldAndWaited
  <2> QED BY <2>1 DEF Circle
<1>2. \A q \in Before(p) : Before(q) \subseteq Circle(p)
  <2> SUFFICES ASSUME NEW q \in Before(p), NEW r \in Before(q) PROVE r \in Circle(p)
    OBVIOUS
  <2>1. q \in Transactions /\ r \in Transactions
    BY HeldAndWaited
  <2> QED BY <2>1 DEF Circle
<1>3. ASSUME NEW q \in Circle(p), NEW x \in Applications, Holds(q, x) PROVE Before(q) = {}
  BY <1>3, RowHolderWaits DEF Circle
<1>4. ASSUME NEW q \in Before(p), NEW r \in Before(q) PROVE Before(r) = {}
  <2>1. q \in Transactions /\ q \in Circle(p) /\ r \in Circle(p)
    BY <1>1, <1>2, HeldAndWaited
  <2>2. Holds(q, Candidate) /\ ~Waits(q, Candidate)
    BY <1>3, <2>1, HeldAndWaited
  <2>3. PICK l \in Locks : Waits(q, l) /\ r = Head(queue[l])
    BY DEF Before
  <2>4. l \in Applications
    BY <2>2, <2>3 DEF Locks
  <2>5. Holds(r, l)
    BY <2>3 DEF Holds, Waits, Contains, LockInv, LockTypeOK
  <2> QED BY <1>3, <2>1, <2>4, <2>5
<1>5. S \subseteq Transactions
  BY HeldAndWaited
<1>6. \A x \in S : Before(x) \subseteq S
  BY <1>4
<1>7. p \in S /\ Before(p) # {}
  <2>1. p \in Circle(p) /\ Before(p) # {}
    BY DEF InCircle
  <2> QED BY <1>5, <1>6, <2>1 DEF Circle
<1>8. p \in Before(p)
  BY <1>4, <1>7
<1>9. Holds(p, Candidate) /\ ~Waits(p, Candidate)
  BY <1>1, <1>3, <1>7, <1>8, HeldAndWaited
<1>10. PICK l \in Locks : Waits(p, l) /\ p = Head(queue[l])
  BY <1>8 DEF Before
<1>11. Holds(p, l)
  BY <1>10 DEF Holds, Waits, Contains, LockInv, LockTypeOK
<1> QED BY <1>10, <1>11 DEF Waits

LEMMA LockBegins == LockInit => LockInv
<1> SUFFICES ASSUME LockInit PROVE LockInv
  OBVIOUS
<1>1. \A l \in Locks, p \in Transactions : ~Contains(queue[l], p)
  BY DEF LockInit, Contains
<1>2. \A p \in Transactions : "resting" \in PointsOf(p)
  BY DEF PointsOf, RunPoints, RequestPoints
<1>3. LockTypeOK
  BY LockAssumption DEF LockInit, LockTypeOK, IsInjective
<1> QED BY <1>1, <1>2, <1>3 DEF LockInit, LockInv

\* Nobody stands twice in a queue, though a transaction may ask again for the
\* lock it has, and no task is begun more often than it may.
THEOREM LockTypeCorrect == LockSpec => []LockTypeOK
<1>1. LockInv => LockTypeOK
  BY DEF LockInv
<1> QED BY <1>1, LockBegins, StepKeepsLockInv, PTL DEF LockSpec

\* The locks of a candidate's applications: every circle of waiting
\* transactions has a run that locked its row when it began, which is where
\* begin_work leaves the order applications.py:779 asks for; and no lock is
\* held while the browser clicks.
THEOREM LocksAreOrdered == LockSpec => []LocksKeepOrder
<1>1. LockInv => LocksKeepOrder
  <2>1. LockInv => ClickHoldsNothing
    BY RestingStandsNowhere DEF ClickHoldsNothing, Transactions
  <2> QED BY <2>1, CirclesHaveBegunRun DEF LocksKeepOrder
<1> QED BY <1>1, LockBegins, StepKeepsLockInv, PTL DEF LockSpec

-----------------------------------------------------------------------------
(* The parts beside one another.                                           *)

\* A step of the whole is, for each part, a step of it or none.
LEMMA PartsMoveAlone ==
  ASSUME [PartsNext]_partVars
  PROVE  /\ [HostNext]_slotVars /\ [LocalNext]_localVars /\ [DoorbellNext]_doorbellVars
         /\ [ReminderNext]_reminderVars /\ [LockNext]_lockVars /\ [PostingsNext]_postingVars
         /\ [InboxNext]_inboxVars /\ [RegistryNext]_registryVars
<1>1. CASE UNCHANGED partVars
  BY <1>1 DEF partVars
<1>2. CASE In("hosts", HostNext)
  BY <1>2 DEF In, Still
<1>3. CASE In("local", LocalNext)
  BY <1>3 DEF In, Still
<1>4. CASE In("doorbell", DoorbellNext)
  BY <1>4 DEF In, Still
<1>5. CASE In("reminders", ReminderNext)
  BY <1>5 DEF In, Still
<1>6. CASE In("locks", LockNext)
  BY <1>6 DEF In, Still
<1>7. CASE In("postings", PostingsNext)
  BY <1>7 DEF In, Still
<1>8. CASE In("inbox", InboxNext)
  BY <1>8 DEF In, Still
<1>9. CASE In("registry", RegistryNext)
  BY <1>9 DEF In, Still
<1> QED BY <1>1, <1>2, <1>3, <1>4, <1>5, <1>6, <1>7, <1>8, <1>9, Zenon DEF PartsNext

\* Beside whatever else is done, each of these parts keeps what it promises.
THEOREM PartsKeepFloor == PartsSpec => KeepsFloor
<1>1. PartsInit => LocalInit
  BY DEF PartsInit
<1>2. [PartsNext]_partVars => [LocalNext]_localVars
  BY PartsMoveAlone
<1>3. PartsSpec => LocalSpec
  BY <1>1, <1>2, PTL DEF PartsSpec, LocalSpec
<1> QED BY <1>3, LocalKeepsFloor, PTL

THEOREM PartsRespectHosts == PartsSpec => []HostRespected
<1>1. PartsInit => HostInit
  BY DEF PartsInit
<1>2. [PartsNext]_partVars => [HostNext]_slotVars
  BY PartsMoveAlone
<1>3. PartsSpec => HostSpec
  BY <1>1, <1>2, PTL DEF PartsSpec, HostSpec
<1> QED BY <1>3, HostIsRespected, PTL

\* No bell and no reminder rings twice.
THEOREM PartsRingOnce == PartsSpec => []RingsAreOnce
<1>1. PartsInit => DoorbellInit /\ ReminderInit
  BY DEF PartsInit
<1>2. [PartsNext]_partVars => [DoorbellNext]_doorbellVars /\ [ReminderNext]_reminderVars
  BY PartsMoveAlone
<1>3. PartsSpec => DoorbellSpec /\ ReminderSpec
  BY <1>1, <1>2, PTL DEF PartsSpec, DoorbellSpec, ReminderSpec
<1>4. OneRingPerPark /\ RingsOnce => RingsAreOnce
  BY DEF RingsAreOnce
<1> QED BY <1>3, <1>4, DoorbellRingsOnce, RemindersRingOnce, PTL

\* The order of locks, with the other parts beside it.
THEOREM PartsKeepLockOrder == PartsSpec => []LocksKeepOrder
<1>1. PartsInit => LockInit
  BY DEF PartsInit
<1>2. [PartsNext]_partVars => [LockNext]_lockVars
  BY PartsMoveAlone
<1>3. PartsSpec => LockSpec
  BY <1>1, <1>2, PTL DEF PartsSpec, LockSpec
<1> QED BY <1>3, LocksAreOrdered, PTL
=============================================================================
