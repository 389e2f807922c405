------------------------------- MODULE MCParts -------------------------------
(***************************************************************************)
(* Components that share no state with one another, one at a time.  They   *)
(* have no variable in common, so what each of them does and promises is   *)
(* the same beside any steps of the others; a behaviour here picks one     *)
(* part and the others stand still.                                        *)
(***************************************************************************)
EXTENDS InboxPoll, HostSlots, LocalSlots, Doorbell, Reminders, LockOrder, Postings,
        BoardRegistry, TLC

CONSTANTS
  Parts,          \* the parts a run checks
  w1, w2, w3, h1, h2, c1, c2, c3, r1, r2, r3, t1, t2, t3, g1, g2, a1, a2, q1, q2,
  j1, j2, p1, p2, prose, blank, abroad, e1, e2,
  m1, m2, reject, receipt, b1, b2

VARIABLE part

partVars == <<part, slotVars, localVars, doorbellVars, reminderVars, lockVars,
              postingVars, inboxVars, registryVars>>

\* The first host's robots.txt asks for more than the floor, the second's for nothing.
MCFloor == [h \in Hosts |-> 1]
MCSiteDelay == [h \in Hosts |-> IF h = h1 THEN 2 ELSE 0]
\* Two fetchers, and two executions, are alike where neither is named elsewhere.
MCFetchersAlike == Permutations({w2, w3})
MCAlike == MCFetchersAlike \cup Permutations(Executions)
MCBackoffs == {3}
MCPenalties == {2, 5}
\* Where there are two applications, a request about each.
MCAsked == [q \in Requests |-> IF q = q2 /\ a2 \in Applications THEN a2 ELSE a1]
\* The board lists one advert, the older of the two.
MCBoards == {[a \in Adverts |-> IF a = j1 THEN prose ELSE Gone]}
MCWorkerOf == [r \in Runs |-> w1]
MCRank == [t \in Tasks |-> 0]
MCNoTasks == {}
MCIdOf == [m \in Mail |-> IF m = m1 THEN reject ELSE receipt]
MCLinkMixed == [i \in Ids |-> IF i = reject THEN "inferred" ELSE "none"]
MCRankOf == [i \in Ids |-> IF i = reject THEN 5 ELSE 1]

\* Sites whose careers page names a board, or only the page behind it, or that
\* answer at the other form of their address.
MCSite(answers, careers, further) ==
  [lead |-> "page", board |-> NoBoard, answers |-> answers, home |-> {}, careers |-> careers,
   further |-> further, own |-> NoBoard, network |-> FALSE, system |-> FALSE]
MCSites == {MCSite("as given", {b1}, NoPage), MCSite("as given", {}, {b1})}
MCFirstSite ==
  [c \in Registered |-> IF c = c1 THEN MCSite("as given", {b1}, NoPage) ELSE MCSite("as given", {}, {b1})]
MCOtherSites == {MCSite("as given", {b1}, NoPage), MCSite("other form", {b1}, NoPage)}
MCFirstOther == [c \in Registered |-> MCSite("other form", {b1}, NoPage)]
MCAliases == {<<c1, c2, b2>>}
MCDirectory == [c \in Registered |-> IF c = c1 THEN b2 ELSE NoBoard]
MCNoDirectory == [c \in Registered |-> NoBoard]

MCNewness == [a \in Adverts |-> IF a = j1 THEN 1 ELSE 2]

\* Each part has the type its module gives it.
PartsTypeOK ==
  /\ part \in Parts
  /\ HostTypeOK /\ LocalTypeOK /\ DoorbellTypeOK /\ ReminderTypeOK /\ LockTypeOK
  /\ PostingsTypeOK /\ InboxTypeOK /\ RegistryTypeOK

\* No task rings the bell twice or for a park it found announced, and no
\* reminder rings twice for one moment the owner set, over whatever restarts.
RingsAreOnce == OneRingPerPark /\ RingsOnce

\* Nobody waits for ever, neither for a turn at a host nor for a lock.
WaitsEnd == FetchEnds /\ EveryoneEnds

PartsInit ==
  /\ part \in Parts
  /\ HostInit /\ LocalInit /\ DoorbellInit /\ ReminderInit /\ LockInit
  /\ PostingsInit /\ InboxInit /\ RegistryInit

\* A step of one part, the others standing still.
Still(p, v) == IF part = p THEN TRUE ELSE UNCHANGED v
In(p, A) ==
  /\ part = p /\ A /\ UNCHANGED part
  /\ Still("hosts", slotVars) /\ Still("local", localVars) /\ Still("doorbell", doorbellVars)
  /\ Still("reminders", reminderVars) /\ Still("locks", lockVars)
  /\ Still("postings", postingVars) /\ Still("inbox", inboxVars)
  /\ Still("registry", registryVars)

PartsNext ==
  \/ In("hosts", HostNext)
  \/ In("local", LocalNext)
  \/ In("doorbell", DoorbellNext)
  \/ In("reminders", ReminderNext)
  \/ In("locks", LockNext)
  \/ In("postings", PostingsNext)
  \/ In("inbox", InboxNext)
  \/ In("registry", RegistryNext)

PartsSpec == PartsInit /\ [][PartsNext]_partVars

\* The fairness each part's own module states.  As one part moves, the n-th
\* condition of every part can be one condition of the whole.
Duty(n) ==
  \/ In("hosts", CASE n = 1 -> HostTick
                   [] n = 2 -> FetchStep(w1) /\ phase[w1] # "free"
                   [] n = 3 -> FetchStep(w2) /\ phase[w2] # "free" [] OTHER -> FALSE)
  \/ In("reminders", CASE n = 1 -> SelectDue(g1) [] n = 2 -> SelectDue(g2)
                       [] n = 3 -> StampBatch(g1) [] n = 4 -> StampBatch(g2)
                       [] n = 5 -> RingOne(g1) [] n = 6 -> RingOne(g2) [] OTHER -> FALSE)
  \/ In("locks", CASE n = 1 -> \E p \in Transactions : Deadlock(p)
                   [] n = 2 -> RunMoves(a1) [] n = 3 -> RequestMoves(q1)
                   [] OTHER -> FALSE)
  \/ In("postings", CASE n = 1 -> BeginPass [] n = 2 -> DeleteDoomed [] n = 3 -> EndPass
                      [] OTHER -> FALSE)
  \/ In("registry", CASE n = 1 -> OtherWorkDone [] n = 2 -> DispatchDiscovery(c1)
                      [] n = 3 -> RestOver(c1)
                      [] n = 4 -> ReadSite(r1) \/ AskHolder(r1) \/ WriteBoard(r1)
                      [] OTHER -> FALSE)
  \/ In("inbox", CASE n = 1 -> MaintainSchedule [] n = 2 -> Claim(r1) [] n = 3 -> ParkSpentPolls(r1)
                   [] n = 4 -> Prune(t1) [] n = 5 -> Prune(t2) [] n = 6 -> Prune(t3)
                   [] n = 7 -> Lapse(t1) [] n = 8 -> Lapse(t2) [] n = 9 -> Lapse(t3)
                   [] n = 10 -> ComeDue(t1) [] n = 11 -> ComeDue(t2) [] n = 12 -> ComeDue(t3))
\* The same of what is to be done though it is not always possible.
Persistent ==
  \/ In("registry", \E r \in Lookers : BeginDiscovery(r, c1))
  \/ In("inbox", Work(r1))

FairPartsSpec ==
  /\ PartsSpec
  /\ \A n \in 1..12 : WF_partVars(Duty(n))
  /\ SF_partVars(Persistent)
=============================================================================
