------------------------------ MODULE HostSlots ------------------------------
(***************************************************************************)
(* How often a host is asked, when several workers crawl at once.          *)
(*                                                                         *)
(* packages/crawler/host_budget.py keeps one row per host: the marker      *)
(* next_allowed_at and the host's delay.  A worker takes a slot with one   *)
(* statement, which hands it the marker and pushes the marker out, and     *)
(* then sleeps once, outside any transaction.  packages/crawler/budget.py  *)
(* counts requests in one window for all workers.  packages/crawler/       *)
(* fetch.py is the client of both, and packages/crawler/defer.py hands a   *)
(* task back rather than sleep.                                            *)
(*                                                                         *)
(* Every instant is kept as its distance from now, so that time can go on  *)
(* for ever in a finite model: Tick brings all of them one step nearer.    *)
(* A worker may be late: nothing makes it act the moment its sleep ends.   *)
(***************************************************************************)
EXTENDS Naturals, Integers, FiniteSets, FiniteSetsExt

CONSTANTS
  Fetchers,       \* processes, each with a fetcher
  Hosts,         \* host_key of the URLs they fetch
  Floor,         \* delay_for(host) before robots.txt is read
  SiteDelay,     \* Crawl-delay of the host's robots.txt, 0 for none
  Backoffs,      \* what a 429 or 503 asks for, in steps of the clock
  MaxRedirects,  \* _MAX_REDIRECTS
  Budget,        \* crawler_request_budget, 0 for no limit
  Window,        \* budget_window_seconds
  Threshold,     \* DEFAULT_THRESHOLD_S
  MaxPutOffs,    \* MAX_DEFERRALS
  Horizon,       \* bound: no process restarts while a marker is further out
  NoHost

ASSUME HostAssumption ==
  /\ IsFiniteSet(Fetchers) /\ IsFiniteSet(Hosts) /\ NoHost \notin Hosts
  /\ Floor \in [Hosts -> Nat \ {0}] /\ SiteDelay \in [Hosts -> Nat]
  /\ Backoffs \subseteq Nat \ {0} /\ IsFiniteSet(Backoffs)
  /\ MaxRedirects \in Nat /\ Budget \in Nat /\ Window \in Nat \ {0}
  /\ Threshold \in Nat \ {0} /\ MaxPutOffs \in Nat /\ Horizon \in Nat

VARIABLES
  owed,       \* crawler_host_budgets.next_allowed_at - now, or 0 if it is past
  delay,      \* crawler_host_budgets.delay_seconds, 0 for no row
  hint,       \* SharedHostRateLimiter.host_delays of each worker, 0 for none
  phase,      \* where a worker's fetch is
  host,       \* the host it is about
  wait,       \* what is left of its sleep
  hops,       \* redirects followed
  putOffs,    \* payload_json.deferrals of its task
  early,      \* history: workers asleep towards a slot taken before the host's last back-off
  age,        \* now - window_started_at, Window + 1 for more than a window
  requests,   \* crawler_request_budgets.requests
  slots,      \* history: the slots granted that can still bind a later one
  quiet,      \* history: what is left of the longest back-off a host asked for
  asked,      \* history: the largest Crawl-delay recorded for a host
  taken       \* history: the requests reserved in the last window, each known by how
              \* long ago it was and which of that moment

hostVars == <<owed, delay, hint, slots, quiet, asked>>
fetchVars == <<phase, host, wait, hops, putOffs, early>>
budgetVars == <<age, requests, taken>>
slotVars == <<hostVars, fetchVars, budgetVars>>

Greatest(S) == Max(S)
Phases == {"free", "deferred", "ready", "robots", "reserving", "acquiring",
           "sleeping", "sent", "backing", "hopping", "crossing"}
\* The redirects a request meets: those it follows, and the one it is blocked for.
MostHops == MaxRedirects + 1
MaxGap == Greatest({0} \cup {Floor[h] : h \in Hosts} \cup {SiteDelay[h] : h \in Hosts})
\* What carries a marker out without a slot: a back-off, or a restart's bound.
Nearby == Greatest(Backoffs \cup {Horizon})
\* No marker is further out than the slots and hops of every worker's fetch,
\* after the longest back-off or the last restart.
MaxOwed == Nearby + MaxGap * Cardinality(Fetchers) * (MostHops + 2)

HostTypeOK ==
  /\ owed \in [Hosts -> 0..MaxOwed]
  /\ delay \in [Hosts -> 0..MaxGap]
  /\ hint \in [Fetchers -> [Hosts -> 0..MaxGap]]
  /\ phase \in [Fetchers -> Phases]
  /\ host \in [Fetchers -> Hosts \cup {NoHost}]
  /\ wait \in [Fetchers -> 0..MaxOwed]
  /\ hops \in [Fetchers -> 0..MostHops]
  /\ putOffs \in [Fetchers -> 0..MaxPutOffs]
  /\ early \subseteq Fetchers
  /\ age \in 0..Window + 1 /\ requests \in 0..Budget
  /\ \A w \in Fetchers : phase[w] = "free" <=> host[w] = NoHost

HostInit ==
  /\ owed = [h \in Hosts |-> 0] /\ delay = [h \in Hosts |-> 0]
  /\ hint = [w \in Fetchers |-> [h \in Hosts |-> 0]]
  /\ phase = [w \in Fetchers |-> "free"] /\ host = [w \in Fetchers |-> NoHost]
  /\ wait = [w \in Fetchers |-> 0] /\ hops = [w \in Fetchers |-> 0]
  /\ putOffs = [w \in Fetchers |-> 0] /\ early = {}
  /\ age = Window + 1 /\ requests = 0 /\ taken = {}
  /\ slots = [h \in Hosts |-> {}] /\ quiet = [h \in Hosts |-> 0]
  /\ asked = [h \in Hosts |-> 0]

DelayFor(w, h) == IF hint[w][h] # 0 THEN hint[w][h] ELSE Floor[h]
GotoPhase(w, p) == phase' = [phase EXCEPT ![w] = p]

-----------------------------------------------------------------------------
(* The statements of host_budget.py.                                       *)

\* GREATEST(b.delay_seconds, :delay)
Gap(w, h) == Greatest({delay[h], DelayFor(w, h)})

\* The slot is the marker, or now; the marker moves one gap past it.
Take(w, h) ==
  /\ owed' = [owed EXCEPT ![h] = @ + Gap(w, h)]
  /\ slots' = [slots EXCEPT ![h] = @ \cup {[at |-> owed[h], by |-> w,
                                            gap |-> Greatest({Floor[h], asked[h]})]}]

\* acquire: _RESERVE, its commit, and the sleep it computes.
Reserve(w, h) ==
  /\ Take(w, h)
  /\ delay' = [delay EXCEPT ![h] = Gap(w, h)]
  /\ wait' = [wait EXCEPT ![w] = owed[h]] /\ early' = early \ {w}
  /\ UNCHANGED <<hint, quiet, asked>>

\* Mutant: the marker is set to the end of the back-off.
PenaltyOverwrites(h, seconds) == seconds

\* _PENALIZE only ever extends.
Penalty(h, seconds) == Greatest({owed[h], seconds})

-----------------------------------------------------------------------------
(* The request budget.                                                     *)

Lapsed == age > Window

RolledCount == IF Lapsed THEN 1 ELSE requests + 1

TakenSince(n) == {t \in taken : t.ago <= n}

\* reserve: roll the window if it has lapsed, take a slot if one is left.
ReserveRequest ==
  /\ Lapsed \/ requests < Budget
  /\ requests' = RolledCount
  /\ age' = IF Lapsed THEN 0 ELSE age
  /\ taken' = taken \cup {[ago |-> 0, nth |-> Cardinality(TakenSince(0)) + 1]}

-----------------------------------------------------------------------------
(* A worker.                                                               *)

\* Mutant: a task may be handed back for ever.
MayDeferAlways(w) == TRUE

MayDefer(w) == putOffs[w] < MaxPutOffs

\* defer_if_host_busy: a task is claimed, by a process with a new fetcher, and
\* handed back when the host's wait is worth it.
Peek(w, h) ==
  /\ phase[w] = "free" \/ (phase[w] = "deferred" /\ wait[w] = 0 /\ h = host[w])
  /\ host' = [host EXCEPT ![w] = h]
  /\ IF MayDefer(w) /\ owed[h] >= Threshold
     THEN /\ putOffs' = [putOffs EXCEPT ![w] = Min({@ + 1, MaxPutOffs})]
          /\ wait' = [wait EXCEPT ![w] = owed[h]] /\ GotoPhase(w, "deferred")
     ELSE GotoPhase(w, "ready") /\ UNCHANGED <<putOffs, wait>>
  /\ UNCHANGED <<hostVars, hops, early, budgetVars>>

\* The robots gate, and whether the site asks for more than we apply.
CheckRobots(w) ==
  /\ phase[w] = "ready"
  /\ GotoPhase(w, IF SiteDelay[host[w]] > DelayFor(w, host[w]) THEN "robots" ELSE "reserving")
  /\ UNCHANGED <<hostVars, host, wait, hops, putOffs, early, budgetVars>>

FinishFetch(w) ==
  /\ GotoPhase(w, "free") /\ host' = [host EXCEPT ![w] = NoHost]
  /\ wait' = [wait EXCEPT ![w] = 0] /\ hops' = [hops EXCEPT ![w] = 0]
  /\ putOffs' = [putOffs EXCEPT ![w] = 0]

\* A request is out whose redirect is still to be followed.
OnTheWire(w) == phase[w] = "sent" /\ hops[w] < MostHops

\* Blocked: robots.txt says no or could not be read, or one redirect too many,
\* which is recorded, or waited for at its host, before it is refused.
Refused(w) ==
  /\ \/ phase[w] \in {"ready", "crossing"}
     \/ hops[w] = MostHops /\ (phase[w] = "sent" \/ (phase[w] = "sleeping" /\ wait[w] = 0))
  /\ FinishFetch(w) /\ early' = early \ {w}
  /\ UNCHANGED <<hostVars, budgetVars>>

RaiseDelay(w) ==
  /\ phase[w] = "robots" /\ GotoPhase(w, "reserving")
  /\ LET h == host[w] IN
     /\ delay' = [delay EXCEPT ![h] = Greatest({@, SiteDelay[h]})]
     /\ hint' = [hint EXCEPT ![w][h] = SiteDelay[h]]
     /\ asked' = [asked EXCEPT ![h] = Greatest({@, SiteDelay[h]})]
  /\ UNCHANGED <<owed, slots, quiet, host, wait, hops, putOffs, early, budgetVars>>

\* Taken before the limiter, so long before the request if the host is busy.
CountRequest(w) ==
  /\ phase[w] = "reserving" /\ GotoPhase(w, "acquiring")
  /\ IF Budget > 0 THEN ReserveRequest ELSE UNCHANGED budgetVars
  /\ UNCHANGED <<hostVars, host, wait, hops, putOffs, early>>

\* BudgetExhausted.
BudgetSpent(w) ==
  /\ phase[w] = "reserving" /\ Budget > 0 /\ ~Lapsed /\ requests >= Budget
  /\ FinishFetch(w) /\ UNCHANGED <<hostVars, early, budgetVars>>

Acquire(w) ==
  /\ phase[w] = "acquiring" /\ GotoPhase(w, "sleeping")
  /\ Reserve(w, host[w])
  /\ UNCHANGED <<host, hops, putOffs, budgetVars>>

\* The sleep is over, and nothing is read again before the request goes out.
Send(w) ==
  /\ phase[w] = "sleeping" /\ wait[w] = 0 /\ hops[w] < MostHops
  /\ GotoPhase(w, "sent") /\ early' = early \ {w}
  /\ UNCHANGED <<hostVars, host, wait, hops, putOffs, budgetVars>>

FetchAnswered(w) ==
  /\ OnTheWire(w) /\ FinishFetch(w)
  /\ UNCHANGED <<hostVars, early, budgetVars>>

\* 429 or 503: the host is backed off, and the fetch is over.  Nobody wakes
\* those who have a slot already.
PenalizeHost(w) ==
  /\ OnTheWire(w)
  /\ \E seconds \in Backoffs :
       /\ owed' = [owed EXCEPT ![host[w]] = Penalty(host[w], seconds)]
       /\ quiet' = [quiet EXCEPT ![host[w]] = Greatest({@, seconds})]
  /\ FinishFetch(w)
  /\ early' = early \cup {v \in Fetchers : phase[v] = "sleeping" /\ host[v] = host[w]}
  /\ UNCHANGED <<delay, hint, slots, asked, budgetVars>>

\* A redirect on the same machine: recorded, and followed at once.
RecordHop(w) ==
  /\ OnTheWire(w)
  /\ Take(w, host[w])
  /\ hops' = [hops EXCEPT ![w] = @ + 1]
  /\ UNCHANGED <<delay, hint, quiet, asked, phase, host, wait, putOffs, early, budgetVars>>

\* A redirect to another machine: its own robots verdict and its own slot, but
\* neither its Crawl-delay nor the budget.
CrossHost(w, h) ==
  /\ OnTheWire(w) /\ h # host[w]
  /\ GotoPhase(w, "crossing") /\ host' = [host EXCEPT ![w] = h]
  /\ hops' = [hops EXCEPT ![w] = @ + 1]
  /\ UNCHANGED <<hostVars, wait, putOffs, early, budgetVars>>

AcquireHop(w) ==
  /\ phase[w] = "crossing" /\ GotoPhase(w, "sleeping")
  /\ Reserve(w, host[w])
  /\ UNCHANGED <<host, hops, putOffs, budgetVars>>

\* The process ends anywhere; its fetcher's hints go with it, its slot does not.
Restart(w) ==
  /\ \A h \in Hosts : owed[h] <= Horizon
  /\ FinishFetch(w) /\ early' = early \ {w}
  /\ hint' = [hint EXCEPT ![w] = [h \in Hosts |-> 0]]
  /\ phase[w] # "free" \/ \E h \in Hosts : hint[w][h] # 0
  /\ UNCHANGED <<owed, delay, slots, quiet, asked, budgetVars>>

Less(n) == IF n > 0 THEN n - 1 ELSE 0

HostTick ==
  /\ owed' = [h \in Hosts |-> Less(owed[h])]
  /\ wait' = [w \in Fetchers |-> Less(wait[w])]
  /\ quiet' = [h \in Hosts |-> Less(quiet[h])]
  /\ slots' = [h \in Hosts |-> {[s EXCEPT !.at = @ - 1] : s \in
                                  {s \in slots[h] : s.at + s.gap > 1}}]
  /\ age' = IF age > Window THEN age ELSE age + 1
  /\ taken' = {[t EXCEPT !.ago = @ + 1] : t \in {t \in taken : t.ago < Window}}
  /\ UNCHANGED <<delay, hint, asked, phase, host, hops, putOffs, early, requests>>

FetchStep(w) ==
  \/ \E h \in Hosts : Peek(w, h) \/ CrossHost(w, h)
  \/ CheckRobots(w) \/ Refused(w) \/ RaiseDelay(w) \/ CountRequest(w) \/ BudgetSpent(w)
  \/ Acquire(w) \/ Send(w) \/ FetchAnswered(w) \/ PenalizeHost(w) \/ RecordHop(w) \/ AcquireHop(w)

HostNext == HostTick \/ \E w \in Fetchers : FetchStep(w) \/ Restart(w)

HostSpec == HostInit /\ [][HostNext]_slotVars

\* The clock goes on, and a worker that can take its next step takes it.  A
\* task handed back is claimed again once it is due (core/queue.py).
FairHostSpec ==
  HostSpec /\ WF_slotVars(HostTick)
           /\ \A w \in Fetchers : WF_slotVars(FetchStep(w) /\ phase[w] # "free")

-----------------------------------------------------------------------------
(* Properties.                                                             *)

\* host_budget.py: "Two workers arriving together get two slots a floor
\* apart", and a Crawl-delay one worker recorded binds every later slot,
\* whichever worker takes it and whether or not that worker was restarted.
SlotsApart ==
  \A h \in Hosts : \A a, b \in slots[h] :
    a # b => a.at + a.gap <= b.at \/ b.at + b.gap <= a.at

\* host_budget.py, penalize: a back-off "only ever extends": no shorter one,
\* slot or hop brings the marker before the end of the longest one asked for.
PenaltyKept == \A h \in Hosts : quiet[h] <= owed[h]

\* budget.py: the count is that of the reservations of this window, never more
\* than the ceiling, and in any span as long as a window there are at most two
\* ceilings of them.
BudgetHolds ==
  Budget > 0 =>
    /\ age <= Window => requests = Cardinality(TakenSince(age))
    /\ requests <= Budget
    /\ Cardinality(taken) <= 2 * Budget

\* host_budget.py: a back-off holds "for everyone": whoever takes a slot after
\* it was recorded sleeps through it.  Those who had theirs already are the
\* exception (`early`): acquire reads the marker once and nothing wakes them,
\* so their requests do go out inside the back-off.
BackoffSleptThrough ==
  \A w \in Fetchers : phase[w] = "sleeping" /\ w \notin early => quiet[host[w]] <= wait[w]

\* What the shared table promises a host, whichever workers ask it and whether
\* or not they were restarted: the spacing of the slots it grants, its
\* back-offs and its ceiling.  It speaks of slots, not of requests: one may go
\* out later than its slot, and the redirects of one request on one host
\* follow each other at once, each taking a slot it does not wait for.
HostRespected == SlotsApart /\ PenaltyKept /\ BackoffSleptThrough /\ BudgetHolds

\* defer.py, MAX_DEFERRALS: a deferral "could starve one company indefinitely,
\* so after this many the task takes the slot": a task always comes to an end,
\* and so does every acquire it waits in.
FetchEnds ==
  \A w \in Fetchers : phase[w] \in {"deferred", "sleeping"} ~> phase[w] \in {"sent", "free"}
=============================================================================
