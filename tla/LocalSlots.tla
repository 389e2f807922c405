------------------------------ MODULE LocalSlots ------------------------------
(***************************************************************************)
(* HostRateLimiter of packages/crawler/ratelimit.py: the counters of one   *)
(* process, and its coroutines that wait for one host.  acquire sleeps and *)
(* looks again, because a sleep can return early and another coroutine may *)
(* have gone first, and there is no await between its last look and the    *)
(* mark it leaves, so a look and its mark are one action here.             *)
(***************************************************************************)
EXTENDS Naturals, Integers, FiniteSets, FiniteSetsExt

CONSTANTS
  Callers,      \* coroutines
  LocalDelay,        \* delay_for(host) before a Crawl-delay is read
  CrawlDelay,    \* the Crawl-delay of its robots.txt
  Penalties,     \* what a 429 asks for
  MaxRounds     \* _MAX_WAIT_ROUNDS

ASSUME LocalAssumption ==
  /\ IsFiniteSet(Callers) /\ LocalDelay \in Nat \ {0} /\ CrawlDelay \in Nat /\ CrawlDelay >= LocalDelay
  /\ IsFiniteSet(Penalties) /\ Penalties \subseteq Nat \ {0} /\ MaxRounds \in Nat \ {0}

VARIABLES
  since,       \* clock() - _last_request[host], or SiteDelay when longer ago
  blocked,     \* _blocked_until[host] - clock(), 0 when past
  hostDelay,   \* host_delays[host], or delay_seconds
  spot,       \* where a coroutine is
  rounds       \* how often it has slept

localVars == <<since, blocked, hostDelay, spot, rounds>>

LocalTypeOK ==
  /\ since \in 0..CrawlDelay /\ blocked \in 0..Max({0} \cup Penalties)
  /\ hostDelay \in {LocalDelay, CrawlDelay}
  /\ spot \in [Callers -> {"idle", "waiting", "sleeping", "asking"}]
  /\ rounds \in [Callers -> 0..MaxRounds]
  /\ \A c \in Callers : spot[c] \in {"idle", "asking"} => rounds[c] = 0

LocalInit ==
  /\ since = CrawlDelay /\ blocked = 0 /\ hostDelay = LocalDelay
  /\ spot = [c \in Callers |-> "idle"] /\ rounds = [c \in Callers |-> 0]

GotoSpot(c, p) == spot' = [spot EXCEPT ![c] = p]

\* time_until_ready: the larger of the penalty and the ordinary delay.
TimeUntilReady == Max({blocked, hostDelay - since, 0})

-----------------------------------------------------------------------------
\* A fetch begins; its robots.txt may ask for more than we apply.
BeginFetch(c) ==
  /\ spot[c] = "idle" /\ GotoSpot(c, "waiting")
  /\ hostDelay' \in {hostDelay, CrawlDelay}
  /\ UNCHANGED <<since, blocked, rounds>>

\* Mutant: a coroutine that has slept does not look again.
PassAfterOneSleep(c) ==
  /\ spot[c] = "waiting" /\ (TimeUntilReady = 0 \/ rounds[c] > 0)
  /\ since' = 0
  /\ GotoSpot(c, "asking") /\ rounds' = [rounds EXCEPT ![c] = 0]
  /\ UNCHANGED <<blocked, hostDelay>>

\* The last look of acquire, and its mark.
PassThrough(c) ==
  /\ spot[c] = "waiting" /\ TimeUntilReady = 0
  /\ since' = 0
  /\ GotoSpot(c, "asking") /\ rounds' = [rounds EXCEPT ![c] = 0]
  /\ UNCHANGED <<blocked, hostDelay>>

SleepRound(c) ==
  /\ spot[c] = "waiting" /\ TimeUntilReady > 0 /\ rounds[c] < MaxRounds
  /\ GotoSpot(c, "sleeping") /\ rounds' = [rounds EXCEPT ![c] = @ + 1]
  /\ UNCHANGED <<since, blocked, hostDelay>>

\* A sleep returns, perhaps early, perhaps late.
WakeUp(c) ==
  /\ spot[c] = "sleeping" /\ GotoSpot(c, "waiting")
  /\ UNCHANGED <<since, blocked, hostDelay, rounds>>

\* RuntimeError: never became ready.
GiveUpWaiting(c) ==
  /\ spot[c] = "waiting" /\ rounds[c] = MaxRounds
  /\ GotoSpot(c, "idle") /\ rounds' = [rounds EXCEPT ![c] = 0]
  /\ UNCHANGED <<since, blocked, hostDelay>>

\* _walk: a redirect on the same machine is recorded, and followed at once.
RecordRedirect(c) ==
  /\ spot[c] = "asking" /\ since' = 0
  /\ UNCHANGED <<blocked, hostDelay, spot, rounds>>

UntilLater(seconds) == Max({blocked, seconds})

PenalizeCaller(c) ==
  /\ spot[c] = "asking" /\ GotoSpot(c, "idle")
  /\ \E seconds \in Penalties : blocked' = UntilLater(seconds)
  /\ UNCHANGED <<since, hostDelay, rounds>>

CallerAnswered(c) ==
  /\ spot[c] = "asking" /\ GotoSpot(c, "idle")
  /\ UNCHANGED <<since, blocked, hostDelay, rounds>>

LocalTick ==
  /\ since' = Min({since + 1, CrawlDelay})
  /\ blocked' = Max({blocked - 1, 0})
  /\ UNCHANGED <<hostDelay, spot, rounds>>

LocalNext ==
  \/ LocalTick
  \/ \E c \in Callers : \/ BeginFetch(c) \/ PassThrough(c) \/ SleepRound(c) \/ WakeUp(c) \/ GiveUpWaiting(c)
                        \/ RecordRedirect(c) \/ PenalizeCaller(c) \/ CallerAnswered(c)

LocalSpec == LocalInit /\ [][LocalNext]_localVars

-----------------------------------------------------------------------------
(* Properties.                                                             *)

\* The protocol's promise, with the host's quiet being what time_until_ready
\* answers: no coroutine goes through while another's delay or anybody's
\* penalty runs, and nothing recorded shortens either.
Promise == INSTANCE HostFloor WITH
  LowestDelay <- LocalDelay, quietFor <- TimeUntilReady,
  through <- {c \in Callers : spot[c] = "asking"}
KeepsFloor == Promise!FloorSpec
=============================================================================
