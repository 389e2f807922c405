------------------------------ MODULE ModelCalls ------------------------------
(***************************************************************************)
(* Calls to language models: which model a task is given, and what happens *)
(* before the text leaves the machine.  A call whose text would leave is   *)
(* masked; one that the trail counts as leaving is stamped, counted        *)
(* against the day's allowance and written to the audit trail under the    *)
(* trail's lock, and only then waits for its turn and is sent, again after *)
(* a refusal for the rate.  What a provider does not answer ollama is      *)
(* asked, where the settings say so; ollama may itself be another          *)
(* computer, or serve a model that does not run here.                      *)
(***************************************************************************)
EXTENDS Integers, FiniteSets, Sequences

CONSTANTS
  Callers,      \* coroutines that ask models, one call at a time
  Processes,    \* the programs they run in
  ModelTasks,   \* what models are asked for
  Providers,    \* the providers there are
  Paced,        \* the providers whose requests are paced and retried
  UnpacedJson,  \* those of them whose structured answers are asked for without either
  UsedSettings, \* which programs there may be, with which settings
  DailyCalls,   \* llm_daily_remote_calls; 0 is no limit
  DayTicks,     \* clock ticks of one day
  KeepTicks,    \* how long a line of the trail is kept
  Interval,     \* llm_call_interval_s
  Waits,        \* how long a refusal may say to wait
  MaxRetries,
  MaxTime, MaxLines, MaxLosses    \* bounds of the model: clock, lines, processes lost

ASSUME ModelCallsAssumption ==
  /\ {"ollama", "stub"} \subseteq Providers /\ Paced \subseteq Providers \ {"ollama", "stub"}
  /\ UnpacedJson \subseteq Paced
  /\ UsedSettings \subseteq [configured : SUBSET Providers, process : [Callers -> Processes],
                             named : [ModelTasks -> Providers \cup {"auto"}], fallback : BOOLEAN,
                             ollama : {"here", "elsewhere", "cloud"}]
  /\ {DailyCalls, DayTicks, KeepTicks, Interval, MaxRetries, MaxTime, MaxLines, MaxLosses}
       \subseteq Nat
  /\ DayTicks > 0 /\ KeepTicks >= DayTicks /\ Waits \subseteq Nat /\ IsFiniteSet(Callers)

VARIABLES
  settings,   \* what the programs were started with
  trail,      \* the lines of the audit trail that can be read
  torn,       \* whether it has a line that cannot
  written,    \* how many lines were ever written
  time,
  call,       \* caller -> its call
  lastCall,   \* process -> provider -> when its last request had its turn
  cleaned,    \* process -> the last day it removed old lines
  losses,
  hadTurn     \* history: process -> provider -> when a request last had its turn

modelVars == <<settings, trail, torn, written, time, call, lastCall, cleaned, losses, hadTurn>>

\* Long enough ago; and before the first day.
Never == 0 - Interval
NoDay == -1

\* Providers a text may leave this machine for.
Remote == Providers \ {"stub"}

\* What is called ollama runs on this machine, at another address, or, by its
\* model's name, on ollama's own servers.  A text that leaves is masked; the
\* trail goes by the model's name alone, and takes another address for this
\* machine.
Leaves(p) == p \in Remote /\ (p = "ollama" => settings.ollama # "here")
IsLocal(p) == p = "stub" \/ (p = "ollama" /\ settings.ollama # "cloud")

Day(t) == t \div DayTicks

Lines == [number : 1..MaxLines, provider : Remote, at : 0..MaxTime, on : 0..MaxTime,
          requests : 0..MaxRetries + 1]
Phases == {"idle", "masking", "locking", "waiting", "pacing", "sending", "backing",
           "local"}
\* line is 0 until the call is on the trail.
Calls == [phase : Phases, task : ModelTasks \cup {"none"}, provider : Providers, paced : BOOLEAN,
          at : 0..MaxTime, line : 0..MaxLines, tries : 0..MaxRetries, wake : Nat]

ModelTypeOK ==
  /\ settings \in UsedSettings /\ trail \subseteq Lines /\ torn \in BOOLEAN
  /\ written \in 0..MaxLines /\ time \in 0..MaxTime
  /\ call \in [Callers -> Calls]
  /\ lastCall \in [Processes -> [Remote -> {Never} \cup 0..MaxTime]]
  /\ hadTurn \in [Processes -> [Remote -> {Never} \cup 0..MaxTime]]
  /\ cleaned \in [Processes -> {NoDay} \cup 0..MaxTime] /\ losses \in 0..MaxLosses

-----------------------------------------------------------------------------
(* Which provider a task is given. *)

QualityOrder == <<"anthropic", "gemini", "ollama", "stub">>

\* Whether a provider could answer: by its key or its model's name, never by
\* asking it.  Ollama and the canned answers always could.
IsConfigured(p) == p \in {"ollama", "stub"} \/ p \in settings.configured

BestAvailable ==
  LET able == {i \in DOMAIN QualityOrder : IsConfigured(QualityOrder[i])}
  IN QualityOrder[CHOOSE i \in able : \A j \in able : i <= j]

\* The provider the owner named for the task, of those that may be named.
Named(task) == settings.named[task]

\* What is low in stakes is asked of ollama, whatever was named.
PreferredFor(task) ==
  IF task \in {"classify_inbound_email", "map_form_field"} THEN "ollama" ELSE "auto"

ForTask(task) ==
  CASE PreferredFor(task) # "auto" -> PreferredFor(task)
    [] PreferredFor(task) = "auto" /\ Named(task) # "auto" -> Named(task)
    [] OTHER -> BestAvailable

-----------------------------------------------------------------------------
NoCall == [phase |-> "idle", task |-> "none", provider |-> "stub", paced |-> FALSE, at |-> 0,
           line |-> 0, tries |-> 0, wake |-> 0]

ModelInit ==
  /\ settings \in UsedSettings /\ trail = {} /\ torn = FALSE /\ written = 0 /\ time = 0
  /\ call = [c \in Callers |-> NoCall]
  /\ lastCall = [w \in Processes |-> [p \in Remote |-> Never]]
  /\ hadTurn = lastCall /\ cleaned = [w \in Processes |-> NoDay] /\ losses = 0

ModelTick ==
  /\ time < MaxTime /\ time' = time + 1
  /\ UNCHANGED <<settings, trail, torn, written, call, lastCall, cleaned, losses, hadTurn>>

At(c, phase) == call[c].phase = phase
Moves(c, phase) == call' = [call EXCEPT ![c] = [@ EXCEPT !.phase = phase]]
IsOver(c) == call' = [call EXCEPT ![c] = NoCall]
AsksHere(c) == call' = [call EXCEPT ![c] = [NoCall EXCEPT !.phase = "local"]]

\* A provider is asked: one that is not on this machine, or not known, is
\* wrapped so that contacts are masked.
Asks(c, task, p, paced) ==
  IF Leaves(p)
  THEN call' = [call EXCEPT ![c] =
         [NoCall EXCEPT !.phase = "masking", !.task = task, !.provider = p, !.paced = paced]]
  ELSE AsksHere(c)

\* A call begins; a provider named without its key is refused.
Ask(c, task) ==
  /\ At(c, "idle") /\ IsConfigured(ForTask(task))
  /\ \E json \in BOOLEAN :
       LET p == ForTask(task)
       IN Asks(c, task, p, p \in Paced /\ ~(json /\ p \in UnpacedJson))
  /\ UNCHANGED <<settings, trail, torn, written, time, lastCall, cleaned, losses, hadTurn>>

\* The call is over without an answer: ollama is asked, if it was not ollama
\* that was asked, or the call has failed.  Never the stub.
GivesUp(c) ==
  IF settings.fallback /\ call[c].provider # "ollama"
  THEN Asks(c, call[c].task, "ollama", FALSE)
  ELSE IsOver(c)

\* The owner's identifiers are read from the database and masked; when that
\* fails, nothing is sent.  Then record() makes out the line, with the time,
\* before it waits for the trail's lock: in that wait it holds up the other
\* coroutines of its process.  What the trail takes for local waits for no
\* allowance, and is sent though its line is not written.
Mask(c) ==
  /\ At(c, "masking")
  /\ \/ GivesUp(c)
     \/ IsLocal(call[c].provider) /\ AsksHere(c)
     \/ /\ ~IsLocal(call[c].provider)
        /\ \A d \in Callers : settings.process[d] = settings.process[c] => ~At(d, "locking")
        /\ call' = [call EXCEPT ![c] = [@ EXCEPT !.phase = "locking", !.at = time]]
  /\ UNCHANGED <<settings, trail, torn, written, time, lastCall, cleaned, losses, hadTurn>>

\* Lines of this provider stamped today, read under the lock.
UsedToday(p) == Cardinality({l \in trail : l.provider = p /\ Day(l.at) = Day(time)})

\* Mutant: one call more than the allowance.
AuthorizedOneMore(p) == DailyCalls = 0 \/ UsedToday(p) <= DailyCalls

Authorized(p) == DailyCalls = 0 \/ UsedToday(p) < DailyCalls

\* With the first line it writes on a day, a process removes the lines that
\* are too old.
Kept(w) ==
  IF cleaned[w] = Day(time) THEN trail ELSE {l \in trail : l.at >= time - KeepTicks}

\* _persist: under the lock of the trail's file the allowance is read off the
\* trail, old lines are removed and the line is written.  A trail with a line
\* that cannot be read refuses everything that would leave.
Persist(c) ==
  /\ At(c, "locking")
  /\ LET p == call[c].provider
         w == settings.process[c]
     IN \/ /\ torn \/ ~Authorized(p)
           /\ GivesUp(c) /\ UNCHANGED <<trail, written, cleaned>>
        \/ /\ ~torn /\ Authorized(p) /\ written < MaxLines
           /\ written' = written + 1
           /\ trail' = Kept(w) \cup
                {[number |-> written', provider |-> p, at |-> call[c].at, on |-> time,
                  requests |-> 0]}
           /\ cleaned' = [cleaned EXCEPT ![w] = Day(time)]
           /\ call' = [call EXCEPT ![c] =
                [@ EXCEPT !.line = written',
                          !.phase = IF call[c].paced THEN "waiting" ELSE "sending"]]
  /\ UNCHANGED <<settings, torn, time, lastCall, losses, hadTurn>>

-----------------------------------------------------------------------------
(* Turns, requests and refusals. *)

\* Mutant: two calls look at the clock, and go, at once.
NoTurnTaken(c) == FALSE

\* Another call of this process waits inside wait_turn, holding its lock.
TurnTaken(c) ==
  \E d \in Callers \ {c} :
    /\ settings.process[d] = settings.process[c] /\ call[d].provider = call[c].provider /\ At(d, "pacing")
HasTurn(c) ==
  /\ Moves(c, "sending")
  /\ lastCall' = [lastCall EXCEPT ![settings.process[c]][call[c].provider] = time]
  /\ hadTurn' = [hadTurn EXCEPT ![settings.process[c]][call[c].provider] = time]

\* wait_turn: with the lock, the call goes on at once or sleeps for what is
\* left of the interval.
TakeTurn(c) ==
  /\ At(c, "waiting") /\ ~TurnTaken(c)
  /\ LET due == lastCall[settings.process[c]][call[c].provider] + Interval
     IN IF due <= time THEN HasTurn(c)
        ELSE /\ call' = [call EXCEPT ![c] = [@ EXCEPT !.phase = "pacing", !.wake = due]]
             /\ UNCHANGED <<lastCall, hadTurn>>
  /\ UNCHANGED <<settings, trail, torn, written, time, cleaned, losses>>

WakeForTurn(c) ==
  /\ At(c, "pacing") /\ time >= call[c].wake /\ HasTurn(c)
  /\ UNCHANGED <<settings, trail, torn, written, time, cleaned, losses>>

\* A request leaves; its line, unless it is too old, tells of one more.
Counted(c) ==
  {IF l.number = call[c].line THEN [l EXCEPT !.requests = @ + 1] ELSE l : l \in trail}

\* The request is answered with a whole text, or has failed: an answer that was
\* cut off, or has no text, is no answer.
Ended(c) == IsOver(c) \/ GivesUp(c)

\* One request, without pacing or retries.
RequestOnce(c) ==
  /\ At(c, "sending") /\ ~call[c].paced
  /\ trail' = Counted(c) /\ Ended(c)
  /\ UNCHANGED <<settings, torn, written, time, lastCall, cleaned, losses, hadTurn>>

\* Mutant: the bound on retries is off by one.
MayRetryOnceMore(c) == call[c].tries <= MaxRetries

MayRetry(c) == call[c].tries < MaxRetries

\* One request that may be refused for the rate: then the call backs off, a
\* bounded number of times, or not at all, when the refusal says that it
\* outlasts every retry.
RequestPaced(c) ==
  /\ At(c, "sending") /\ call[c].paced /\ trail' = Counted(c)
  /\ \/ Ended(c)
     \/ /\ MayRetry(c)
        /\ \E s \in Waits :
             call' = [call EXCEPT ![c] =
               [@ EXCEPT !.phase = "backing", !.wake = time + s, !.tries = call[c].tries + 1]]
  /\ UNCHANGED <<settings, torn, written, time, lastCall, cleaned, losses, hadTurn>>

\* back_off's sleep is over: the interval starts again, and the call takes its
\* turn like any other.  It slept outside the lock: others went on.
BackOff(c) ==
  /\ At(c, "backing") /\ time >= call[c].wake
  /\ Moves(c, "waiting")
  /\ lastCall' = [lastCall EXCEPT ![settings.process[c]][call[c].provider] = time]
  /\ UNCHANGED <<settings, trail, torn, written, time, cleaned, losses, hadTurn>>

\* What the trail takes for local has been asked, and has answered or failed.
\* Its own line, which no allowance is taken from, is left out here; when it
\* was the first its process wrote on a day, old lines are gone.
AnswerHere(c) ==
  /\ At(c, "local") /\ IsOver(c)
  /\ \/ UNCHANGED <<trail, cleaned>>
     \/ LET w == settings.process[c]
        IN trail' = Kept(w) /\ cleaned' = [cleaned EXCEPT ![w] = Day(time)]
  /\ UNCHANGED <<settings, torn, written, time, lastCall, losses, hadTurn>>

\* A process dies: its calls, its pacers and its note of the last cleaning are
\* gone, the trail stays.  If it dies within a write, a torn line stays too.
LoseProcess(w) ==
  /\ losses < MaxLosses /\ losses' = losses + 1
  /\ call' = [c \in Callers |-> IF settings.process[c] = w THEN NoCall ELSE call[c]]
  /\ lastCall' = [lastCall EXCEPT ![w] = [p \in Remote |-> Never]]
  /\ hadTurn' = [hadTurn EXCEPT ![w] = lastCall'[w]]
  /\ cleaned' = [cleaned EXCEPT ![w] = NoDay]
  /\ \/ UNCHANGED torn
     \/ /\ torn' = TRUE
        /\ \E c \in Callers : /\ settings.process[c] = w
                              /\ \/ At(c, "local")
                                 \/ At(c, "locking") /\ ~torn /\ Authorized(call[c].provider)
  /\ UNCHANGED <<settings, trail, written, time>>

CallStep(c) ==
  \/ \E task \in ModelTasks : Ask(c, task)
  \/ Mask(c) \/ Persist(c) \/ TakeTurn(c) \/ WakeForTurn(c) \/ RequestOnce(c) \/ RequestPaced(c)
  \/ BackOff(c) \/ AnswerHere(c)

ModelNext ==
  \/ ModelTick
  \/ \E c \in Callers : CallStep(c)
  \/ \E w \in Processes : LoseProcess(w)

ModelSpec == ModelInit /\ [][ModelNext]_modelVars

-----------------------------------------------------------------------------
\* A text that has left, or waits to, has its line on the trail, which stands
\* for no more requests than a call may make; only age removes the line.  It
\* speaks of what the trail counts as leaving, a model served by ollama's
\* servers included: not of an ollama at another address, which it takes for
\* this machine.
UploadsRecorded ==
  /\ \A c \in Callers :
       call[c].phase \in {"waiting", "pacing", "sending", "backing"} =>
         \/ \E l \in trail : l.number = call[c].line /\ l.provider = call[c].provider
         \/ call[c].at < time - KeepTicks
  /\ \A l \in trail : l.requests <= MaxRetries + 1

\* However many programs ask at once, no more lines are written on a day than
\* the allowance, where there is one, has; those stamped before midnight and
\* written after it come on top, one for each call that was waiting for the
\* lock.
QuotaHeld ==
  DailyCalls > 0 =>
    \A p \in Remote : \A d \in 0..Day(MaxTime) :
      LET of == {l \in trail : l.provider = p /\ Day(l.at) = d}
          late == {l \in of : Day(l.on) # d}
      IN /\ Cardinality(of \ late) <= DailyCalls
         /\ Cardinality(late) <= Cardinality(Callers)

\* A provider that is in no order of quality is asked only by name.
OnlyByName ==
  \A c \in Callers :
    call[c].provider \notin {QualityOrder[i] : i \in DOMAIN QualityOrder} =>
      Named(call[c].task) = call[c].provider

\* What is counted as leaving this machine is on the trail before it leaves,
\* within the day's allowance, and goes to a provider the owner chose.
CallsAccounted == UploadsRecorded /\ QuotaHeld /\ OnlyByName

\* Two paced requests of one process to one provider have their turns no
\* closer than the interval, whatever was refused between them; a request for
\* a structured answer that takes no turn is not spoken of.
KeepsInterval ==
  [][\A c \in Callers :
       At(c, "waiting") \/ At(c, "pacing") =>
         (call'[c].phase = "sending" =>
            time >= hadTurn[settings.process[c]][call[c].provider] + Interval)]_modelVars
=============================================================================
