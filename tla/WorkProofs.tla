------------------------------ MODULE WorkProofs ------------------------------
(***************************************************************************)
(* Proofs about the parts of MCWork that call models and write documents,  *)
(* for any callers, programs, providers, settings, postings and limits.    *)
(*                                                                         *)
(* ModelCalls: what the trail says of a call is tied to the call by the    *)
(* number of its line, so the invariant says that numbers are not used     *)
(* twice, and that a call on the trail knows its line's age and how often  *)
(* it was retried.  Of one day the lines written after midnight are        *)
(* counted together with the calls that still wait with that day's stamp:  *)
(* their sum can only fall once the day is over.  A turn is kept by the    *)
(* clock of the call's own program, which is behind no call of it.         *)
(*                                                                         *)
(* TailoredResumes: a document may wait in the row, in an attempt's copy,  *)
(* in a batch, in the cache or in a comparison before it is sent, so the   *)
(* invariant says of each of these places what DocumentsHold says of the   *)
(* one that is sent; and, until a record is written over one its writer    *)
(* had not read, that they agree on the owner's choice and on the letter.  *)
(***************************************************************************)
EXTENDS MCWork, RegistryProofs, FiniteSetTheorems, TLAPS

OnTrail == {"waiting", "pacing", "sending", "backing"}

TrailKnown ==
  /\ IsFiniteSet(trail)
  /\ \A l \in trail : l.number <= written /\ l.at <= l.on /\ l.on <= time

CallsKnown ==
  \A c \in Callers :
    /\ call[c].at <= time
    /\ call[c].phase \notin {"idle", "local"} => call[c].provider \in Remote
    /\ call[c].phase \notin OnTrail => call[c].line = 0 /\ call[c].tries = 0
    /\ call[c].phase \in OnTrail => call[c].line \in 1..written

LinesAreOnes ==
  \A c, d \in Callers : call[c].line = call[d].line /\ call[c].line # 0 => c = d

RequestsAreTries ==
  \A c \in Callers : \A l \in trail : l.number = call[c].line => l.requests <= call[c].tries

Recorded(c) ==
  \/ \E l \in trail : /\ l.number = call[c].line /\ l.provider = call[c].provider
                      /\ l.at = call[c].at
  \/ call[c].at < time - KeepTicks

TrailInv ==
  /\ ModelTypeOK /\ TrailKnown /\ CallsKnown /\ LinesAreOnes /\ RequestsAreTries
  /\ \A c \in Callers : call[c].phase \in OnTrail => Recorded(c)

\* A day's lines of a provider, in time and late, and the calls still to come.
InTime(p, d) == {l \in trail : l.provider = p /\ Day(l.at) = d /\ Day(l.on) = d}
Late(p, d) == {l \in trail : l.provider = p /\ Day(l.at) = d /\ Day(l.on) # d}
Coming(p, d) ==
  {c \in Callers : At(c, "locking") /\ call[c].provider = p /\ Day(call[c].at) = d}

QuotaInv ==
  \A p \in Remote : \A d \in Nat :
    /\ DailyCalls > 0 => Cardinality(InTime(p, d)) <= DailyCalls
    /\ Cardinality(Late(p, d)) + Cardinality(Coming(p, d)) <= Cardinality(Callers)

TurnsInv ==
  /\ \A w \in Processes : \A p \in Remote :
       hadTurn[w][p] <= lastCall[w][p] /\ lastCall[w][p] <= time
  /\ \A c \in Callers :
       At(c, "pacing") =>
         hadTurn[settings.process[c]][call[c].provider] + Interval <= call[c].wake
  /\ \A c, d \in Callers :
       At(c, "pacing") /\ At(d, "pacing") /\ call[c].provider = call[d].provider
         /\ settings.process[c] = settings.process[d] => c = d

-----------------------------------------------------------------------------
(* Days go on with the clock.                                              *)

LEMMA DaysGrow ==
  ASSUME NEW s \in Nat, NEW t \in Nat, s <= t
  PROVE  Day(s) \in Nat /\ Day(t) \in Nat /\ Day(s) <= Day(t) /\ Day(t) <= t
<1> DEFINE D == DayTicks
<1>1. D \in Nat /\ D > 0
  BY ModelCallsAssumption
<1>2. ASSUME NEW n \in Nat
      PROVE  n \div D \in Int /\ n = D * (n \div D) + (n % D) /\ n % D \in 0..(D - 1)
  BY <1>1, <1>2
<1> DEFINE p == s \div D
           q == t \div D
<1>3. p \in Int /\ q \in Int /\ D * p <= s /\ s < D * p + D /\ D * q <= t /\ t < D * q + D
  BY <1>1, <1>2
<1> HIDE DEF D, p, q
<1>4. ASSUME NEW n \in Int, D * n + D > 0 PROVE n >= 0
  <2>1. CASE n < 0
    <3>1. D * (n + 1) <= 0
      BY <1>1, <2>1
    <3> QED BY <1>1, <1>4, <3>1
  <2> QED BY <2>1
<1>5. p >= 0 /\ q >= 0
  BY <1>1, <1>3, <1>4
<1>6. p <= q
  <2>1. CASE q < p
    <3>1. q + 1 <= p /\ D * (q + 1) <= D * p
      BY <1>1, <1>3, <2>1
    <3> QED BY <1>1, <1>3, <3>1
  <2> QED BY <1>3, <2>1
<1>7. q <= t
  <2>1. q <= D * q
    BY <1>1, <1>3, <1>5
  <2> QED BY <1>1, <1>3, <2>1
<1> QED BY <1>3, <1>5, <1>6, <1>7 DEF Day, p, q, D

\* What a task is given is a provider there is, asked by its name or for its
\* quality.
LEMMA ForTaskKnown ==
  ASSUME settings \in UsedSettings, NEW task \in ModelTasks
  PROVE  /\ IsConfigured(ForTask(task)) => ForTask(task) \in Providers
         /\ ForTask(task) \in {QualityOrder[i] : i \in DOMAIN QualityOrder}
              \/ ForTask(task) = Named(task)
<1> DEFINE able == {i \in DOMAIN QualityOrder : IsConfigured(QualityOrder[i])}
           best == CHOOSE i \in able : \A j \in able : i <= j
<1>1. settings.configured \subseteq Providers
      /\ {"ollama", "stub"} \subseteq Providers
  BY ModelCallsAssumption
<1>2. 3 \in able /\ able \subseteq 1..4
  BY DEF QualityOrder, IsConfigured
<1>3. \E i \in able : \A j \in able : i <= j
  <2>1. CASE 1 \in able
    BY <1>2, <2>1
  <2>2. CASE 1 \notin able /\ 2 \in able
    BY <1>2, <2>2
  <2>3. CASE 1 \notin able /\ 2 \notin able
    BY <1>2, <2>3
  <2> QED BY <2>1, <2>2, <2>3
<1>4. best \in able
  BY <1>3
<1>5. BestAvailable = QualityOrder[best]
  BY DEF BestAvailable
<1>6. BestAvailable \in {QualityOrder[i] : i \in DOMAIN QualityOrder}
  BY <1>4, <1>5
<1>7. "ollama" = QualityOrder[3] /\ 3 \in DOMAIN QualityOrder
  BY DEF QualityOrder
<1>8. ForTask(task) \in {"ollama", Named(task), BestAvailable}
  BY DEF ForTask, PreferredFor
<1>9. IsConfigured(ForTask(task)) => ForTask(task) \in Providers
  BY <1>1 DEF IsConfigured
<1> QED BY <1>6, <1>7, <1>8, <1>9

LEMMA Limits ==
  /\ DailyCalls \in Nat /\ KeepTicks \in Nat /\ Interval \in Nat /\ MaxRetries \in Nat
  /\ MaxTime \in Nat /\ MaxLines \in Nat /\ MaxLosses \in Nat
BY ModelCallsAssumption

-----------------------------------------------------------------------------
(* Types.                                                                  *)

\* What a step makes of the call of one caller.
Becomes(c, k) == call' = [call EXCEPT ![c] = k]

LEMMA Becoming ==
  ASSUME ModelTypeOK, NEW c \in Callers, NEW k \in Calls, Becomes(c, k)
  PROVE  /\ call' \in [Callers -> Calls] /\ call'[c] = k
         /\ \A d \in Callers \ {c} : call'[d] = call[d]
BY DEF ModelTypeOK, Becomes

\* A call that is over, or is answered on this machine; and one that begins.
Bare(phase) == [NoCall EXCEPT !.phase = phase]
Asking(task, p, paced) ==
  [NoCall EXCEPT !.phase = "masking", !.task = task, !.provider = p, !.paced = paced]

\* What a call begins as, or ends as; ollama is asked for a task, or in place
\* of another.
StartsAnew(c) ==
  \/ \E phase \in {"idle", "local"} : Becomes(c, Bare(phase))
  \/ \E task \in ModelTasks \cup {"none"} : \E p \in Remote : \E paced \in BOOLEAN :
       /\ Becomes(c, Asking(task, p, paced))
       /\ p = "ollama" \/ (task \in ModelTasks /\ p = ForTask(task))

LEMMA BareCalls ==
  ASSUME NEW phase \in {"idle", "local"}
  PROVE  /\ Bare(phase) \in Calls /\ Bare(phase).phase = phase /\ Bare(phase).at = 0
         /\ Bare(phase).line = 0 /\ Bare(phase).tries = 0 /\ Bare(phase).provider = "stub"
<1>1. NoCall \in Calls
  BY ModelCallsAssumption, Limits DEF NoCall, Calls, Phases
<1>2. Bare(phase) \in Calls
  BY <1>1 DEF Bare, Calls, Phases
<1>3. /\ Bare(phase).phase = phase /\ Bare(phase).at = NoCall.at
      /\ Bare(phase).line = NoCall.line /\ Bare(phase).tries = NoCall.tries
      /\ Bare(phase).provider = NoCall.provider
  BY <1>1 DEF Bare, Calls
<1> QED BY <1>2, <1>3 DEF NoCall

LEMMA AskingCalls ==
  ASSUME NEW task \in ModelTasks \cup {"none"}, NEW p \in Remote, NEW paced \in BOOLEAN
  PROVE  /\ Asking(task, p, paced) \in Calls /\ Asking(task, p, paced).phase = "masking"
         /\ Asking(task, p, paced).task = task /\ Asking(task, p, paced).provider = p
         /\ Asking(task, p, paced).at = 0 /\ Asking(task, p, paced).line = 0
         /\ Asking(task, p, paced).tries = 0
<1>1. NoCall \in Calls
  BY ModelCallsAssumption, Limits DEF NoCall, Calls, Phases
<1>2. Asking(task, p, paced) \in Calls
  BY <1>1 DEF Asking, Calls, Phases, Remote
<1>3. /\ Asking(task, p, paced).phase = "masking" /\ Asking(task, p, paced).task = task
      /\ Asking(task, p, paced).provider = p /\ Asking(task, p, paced).at = NoCall.at
      /\ Asking(task, p, paced).line = NoCall.line /\ Asking(task, p, paced).tries = NoCall.tries
  BY <1>1 DEF Asking, Calls
<1> QED BY <1>2, <1>3 DEF NoCall

LEMMA WhatStartsAnew ==
  ASSUME ModelTypeOK, NEW c \in Callers,
         \/ IsOver(c) \/ AsksHere(c) \/ GivesUp(c) \/ Ended(c)
         \/ \E task \in ModelTasks : Ask(c, task)
  PROVE  StartsAnew(c)
<1>1. NoCall = Bare("idle")
  BY DEF NoCall, Bare
<1>2. IsOver(c) \/ AsksHere(c) => StartsAnew(c)
  BY <1>1 DEF IsOver, AsksHere, StartsAnew, Becomes, Bare
<1>3. ASSUME NEW task \in ModelTasks \cup {"none"}, NEW p, NEW paced \in BOOLEAN,
             Asks(c, task, p, paced), p = "ollama" \/ (task \in ModelTasks /\ p = ForTask(task))
      PROVE  StartsAnew(c)
  <2>1. CASE Leaves(p)
    <3>1. p \in Remote /\ Becomes(c, Asking(task, p, paced))
      BY <1>3, <2>1 DEF Asks, Leaves, Becomes, Asking
    <3> QED BY <1>3, <3>1 DEF StartsAnew
  <2>2. CASE ~Leaves(p)
    BY <1>2, <1>3, <2>2 DEF Asks
  <2> QED BY <2>1, <2>2
<1>4. GivesUp(c) => StartsAnew(c)
  <2>1. call[c].task \in ModelTasks \cup {"none"}
    BY DEF ModelTypeOK, Calls
  <2> QED BY <1>2, <1>3, <2>1 DEF GivesUp
<1>5. ASSUME NEW task \in ModelTasks, Ask(c, task) PROVE StartsAnew(c)
  <2>1. PICK json \in BOOLEAN :
          Asks(c, task, ForTask(task),
               ForTask(task) \in Paced /\ ~(json /\ ForTask(task) \in UnpacedJson))
    BY <1>5 DEF Ask
  <2> QED BY <1>3, <2>1
<1> QED BY <1>2, <1>4, <1>5 DEF Ended

LEMMA AnewKeepsTypes ==
  ASSUME ModelTypeOK, NEW c \in Callers, StartsAnew(c) PROVE call' \in [Callers -> Calls]
BY Becoming, BareCalls, AskingCalls DEF StartsAnew

LEMMA MovesKeepTypes ==
  ASSUME ModelTypeOK, NEW c \in Callers, NEW phase \in Phases, Moves(c, phase)
  PROVE  call' \in [Callers -> Calls]
<1>1. [call[c] EXCEPT !.phase = phase] \in Calls
  BY DEF ModelTypeOK, Calls
<1> QED BY <1>1, Becoming DEF Moves, Becomes

LEMMA TurnKeepsTypes ==
  ASSUME ModelTypeOK, NEW c \in Callers, HasTurn(c),
         UNCHANGED <<settings, trail, torn, written, time, cleaned, losses>>
  PROVE  ModelTypeOK'
<1>1. call' \in [Callers -> Calls]
  BY MovesKeepTypes DEF HasTurn, Phases
<1> QED BY <1>1 DEF ModelTypeOK, HasTurn

LEMMA TodayIsKnown ==
  ASSUME ModelTypeOK PROVE Day(time) \in 0..MaxTime
<1>1. time \in Nat /\ time <= MaxTime /\ MaxTime \in Nat
  BY Limits DEF ModelTypeOK
<1>2. Day(time) \in Nat /\ Day(time) <= time
  BY <1>1, DaysGrow
<1> QED BY <1>1, <1>2

LEMMA PersistKeepsTypes ==
  ASSUME ModelTypeOK, TrailKnown, CallsKnown, NEW c \in Callers, Persist(c)
  PROVE  ModelTypeOK'
<1> DEFINE p == call[c].provider
           w == settings.process[c]
           line == [number |-> written', provider |-> p, at |-> call[c].at, on |-> time,
                    requests |-> 0]
<1>1. CASE GivesUp(c) /\ UNCHANGED <<trail, written, cleaned>>
  BY <1>1, WhatStartsAnew, AnewKeepsTypes DEF Persist, ModelTypeOK
<1>2. CASE ~(GivesUp(c) /\ UNCHANGED <<trail, written, cleaned>>)
  <2>1. /\ written < MaxLines /\ written' = written + 1
        /\ trail' = Kept(w) \cup {line}
        /\ cleaned' = [cleaned EXCEPT ![w] = Day(time)]
        /\ Becomes(c, [call[c] EXCEPT !.line = written',
                                      !.phase = IF call[c].paced THEN "waiting" ELSE "sending"])
        /\ UNCHANGED <<settings, torn, time, lastCall, losses, hadTurn>>
    BY <1>2 DEF Persist, Becomes
  <2>2. p \in Remote /\ MaxLines \in Nat /\ MaxTime \in Nat /\ MaxRetries \in Nat
    BY ModelCallsAssumption, Limits DEF Persist, At, CallsKnown
  <2>3. line \in Lines
    BY <2>1, <2>2 DEF ModelTypeOK, Lines, Calls
  <2>4. Day(time) \in 0..MaxTime
    BY TodayIsKnown
  <2>5. call' \in [Callers -> Calls]
    <3>1. [call[c] EXCEPT !.line = written',
                          !.phase = IF call[c].paced THEN "waiting" ELSE "sending"] \in Calls
      <4>1. call[c] \in Calls /\ written' \in 0..MaxLines
        BY <2>1, Limits DEF ModelTypeOK
      <4> QED BY <4>1 DEF Calls, Phases
    <3> QED BY <2>1, <3>1, Becoming
  <2>6. trail' \subseteq Lines
    BY <2>1, <2>3 DEF Kept, ModelTypeOK
  <2>7. cleaned' \in [Processes -> {NoDay} \cup 0..MaxTime]
    BY <2>1, <2>4 DEF ModelTypeOK
  <2>8. written' \in 0..MaxLines
    BY <2>1, Limits DEF ModelTypeOK
  <2> QED BY <2>1, <2>5, <2>6, <2>7, <2>8 DEF ModelTypeOK
<1> QED BY <1>1, <1>2

Backing(c, s) ==
  [call[c] EXCEPT !.phase = "backing", !.wake = time + s, !.tries = call[c].tries + 1]

LEMMA RequestKeepsTypes ==
  ASSUME ModelTypeOK, RequestsAreTries, NEW c \in Callers, RequestOnce(c) \/ RequestPaced(c)
  PROVE  ModelTypeOK'
<1>1. trail' = Counted(c)
  BY DEF RequestOnce, RequestPaced
<1>2. ASSUME NEW l \in trail
      PROVE  (IF l.number = call[c].line THEN [l EXCEPT !.requests = @ + 1] ELSE l) \in Lines
  <2>1. l \in Lines /\ MaxRetries \in Nat /\ call[c].tries \in 0..MaxRetries
    BY ModelCallsAssumption, Limits DEF ModelTypeOK, Calls
  <2>2. l.number = call[c].line => l.requests <= call[c].tries
    BY DEF RequestsAreTries
  <2> QED BY <2>1, <2>2 DEF Lines
<1>3. trail' \subseteq Lines
  BY <1>1, <1>2 DEF Counted
<1>4. call' \in [Callers -> Calls]
  <2>1. CASE Ended(c)
    BY <2>1, WhatStartsAnew, AnewKeepsTypes
  <2>2. ASSUME MayRetry(c), NEW s \in Waits,
               Becomes(c, Backing(c, s))
        PROVE  call' \in [Callers -> Calls]
    <3>1. Backing(c, s) \in Calls
      <4>1. s \in Nat /\ time + s \in Nat /\ call[c].tries + 1 \in 0..MaxRetries
        BY <2>2, ModelCallsAssumption, Limits DEF ModelTypeOK, Calls, MayRetry
      <4> QED BY <4>1 DEF ModelTypeOK, Calls, Phases, Backing
    <3> QED BY <2>2, <3>1, Becoming
  <2>3. \/ Ended(c)
        \/ MayRetry(c) /\ \E s \in Waits :
             Becomes(c, Backing(c, s))
    BY DEF RequestOnce, RequestPaced, Becomes, Backing
  <2> QED BY <2>1, <2>2, <2>3
<1> QED BY <1>3, <1>4 DEF ModelTypeOK, RequestOnce, RequestPaced

LEMMA StepKeepsTypes ==
  ASSUME ModelTypeOK, TrailKnown, CallsKnown, RequestsAreTries, [ModelNext]_modelVars
  PROVE  ModelTypeOK'
<1>1. CASE ModelTick
  BY <1>1, ModelCallsAssumption, Limits DEF ModelTick, ModelTypeOK
<1>2. ASSUME NEW c \in Callers, NEW task \in ModelTasks, Ask(c, task) PROVE ModelTypeOK'
  <2>1. call' \in [Callers -> Calls]
    BY <1>2, WhatStartsAnew, AnewKeepsTypes
  <2> QED BY <1>2, <2>1 DEF Ask, ModelTypeOK
<1>3. ASSUME NEW c \in Callers, Mask(c) PROVE ModelTypeOK'
  <2>1. CASE GivesUp(c) \/ AsksHere(c)
    BY <1>3, <2>1, WhatStartsAnew, AnewKeepsTypes DEF Mask, ModelTypeOK
  <2>2. CASE Becomes(c, [call[c] EXCEPT !.phase = "locking", !.at = time])
    <3>1. [call[c] EXCEPT !.phase = "locking", !.at = time] \in Calls
      BY DEF ModelTypeOK, Calls, Phases
    <3> QED BY <1>3, <2>2, <3>1, Becoming DEF Mask, ModelTypeOK
  <2> QED BY <1>3, <2>1, <2>2 DEF Mask, Becomes
<1>4. ASSUME NEW c \in Callers, TakeTurn(c) PROVE ModelTypeOK'
  <2> DEFINE due == lastCall[settings.process[c]][call[c].provider] + Interval
  <2>1. CASE HasTurn(c)
    BY <1>4, <2>1, TurnKeepsTypes DEF TakeTurn
  <2>2. CASE ~HasTurn(c)
    <3>1. Becomes(c, [call[c] EXCEPT !.phase = "pacing", !.wake = due]) /\ ~(due <= time)
          /\ UNCHANGED <<lastCall, hadTurn>>
      BY <1>4, <2>2 DEF TakeTurn, Becomes
    <3>2. settings.process[c] \in Processes /\ call[c].provider \in Remote
      BY <1>4, ModelCallsAssumption, Limits DEF ModelTypeOK, TakeTurn, At, CallsKnown
    <3>3. due \in Nat
      BY <3>1, <3>2, ModelCallsAssumption, Limits DEF ModelTypeOK, Never
    <3>4. [call[c] EXCEPT !.phase = "pacing", !.wake = due] \in Calls
      BY <3>3 DEF ModelTypeOK, Calls, Phases
    <3> QED BY <1>4, <3>1, <3>4, Becoming DEF TakeTurn, ModelTypeOK
  <2> QED BY <2>1, <2>2
<1>5. ASSUME NEW c \in Callers, WakeForTurn(c) PROVE ModelTypeOK'
  BY <1>5, TurnKeepsTypes DEF WakeForTurn
<1>6. ASSUME NEW c \in Callers, BackOff(c) PROVE ModelTypeOK'
  <2>1. call' \in [Callers -> Calls]
    BY <1>6, MovesKeepTypes DEF BackOff, Phases
  <2> QED BY <1>6, <2>1 DEF BackOff, ModelTypeOK
<1>7. ASSUME NEW c \in Callers, AnswerHere(c) PROVE ModelTypeOK'
  <2>1. call' \in [Callers -> Calls]
    BY <1>7, WhatStartsAnew, AnewKeepsTypes DEF AnswerHere
  <2>2. trail' \subseteq Lines
    BY <1>7 DEF AnswerHere, Kept, ModelTypeOK
  <2>3. cleaned' \in [Processes -> {NoDay} \cup 0..MaxTime]
    BY <1>7, TodayIsKnown DEF AnswerHere, ModelTypeOK
  <2> QED BY <1>7, <2>1, <2>2, <2>3 DEF AnswerHere, ModelTypeOK
<1>8. ASSUME NEW w \in Processes, LoseProcess(w) PROVE ModelTypeOK'
  <2>1. NoCall \in Calls /\ NoCall = Bare("idle")
    BY BareCalls DEF NoCall, Bare
  <2>2. call' \in [Callers -> Calls]
    BY <1>8, <2>1 DEF LoseProcess, ModelTypeOK
  <2>3. lastCall' \in [Processes -> [Remote -> {Never} \cup 0..MaxTime]]
        /\ hadTurn' \in [Processes -> [Remote -> {Never} \cup 0..MaxTime]]
    BY <1>8 DEF LoseProcess, ModelTypeOK
  <2>4. cleaned' \in [Processes -> {NoDay} \cup 0..MaxTime]
    BY <1>8 DEF LoseProcess, ModelTypeOK
  <2>5. losses' \in 0..MaxLosses
    BY <1>8, Limits DEF LoseProcess, ModelTypeOK
  <2>6. torn' \in BOOLEAN
    BY <1>8, Zenon DEF LoseProcess, ModelTypeOK
  <2> QED BY <1>8, <2>2, <2>3, <2>4, <2>5, <2>6 DEF LoseProcess, ModelTypeOK
<1>9. CASE UNCHANGED modelVars
  BY <1>9 DEF modelVars, ModelTypeOK
<1> QED BY <1>1, <1>2, <1>3, <1>4, <1>5, <1>6, <1>7, <1>8, <1>9, PersistKeepsTypes,
  RequestKeepsTypes DEF ModelNext, CallStep

-----------------------------------------------------------------------------
(* The trail.  Most steps leave it alone, and of every call either leave   *)
(* what the trail says of it or put it where it is on no trail.            *)

Same(d) ==
  /\ call'[d].line = call[d].line /\ call'[d].tries = call[d].tries
  /\ call'[d].at = call[d].at /\ call'[d].provider = call[d].provider
  /\ (call'[d].phase \in OnTrail) <=> (call[d].phase \in OnTrail)
  /\ call'[d].phase \in {"idle", "local"} => call[d].phase \in {"idle", "local"}
  /\ call[d].phase \in {"idle", "local"} => call'[d].phase \in {"idle", "local"}

Fresh(d) ==
  /\ call'[d].phase \notin OnTrail /\ call'[d].line = 0 /\ call'[d].tries = 0
  /\ call'[d].at <= time
  /\ call'[d].phase \notin {"idle", "local"} => call'[d].provider \in Remote

LEMMA AnewIsFresh ==
  ASSUME ModelTypeOK, NEW c \in Callers, StartsAnew(c)
  PROVE  Fresh(c) /\ \A d \in Callers \ {c} : call'[d] = call[d]
<1>1. ASSUME NEW phase \in {"idle", "local"}, Becomes(c, Bare(phase))
      PROVE  Fresh(c) /\ \A d \in Callers \ {c} : call'[d] = call[d]
  <2>1. call'[c] = Bare(phase) /\ \A d \in Callers \ {c} : call'[d] = call[d]
    BY <1>1, BareCalls, Becoming
  <2> QED BY <2>1, BareCalls DEF Fresh, OnTrail, ModelTypeOK
<1>2. ASSUME NEW task \in ModelTasks \cup {"none"}, NEW p \in Remote, NEW paced \in BOOLEAN,
             Becomes(c, Asking(task, p, paced))
      PROVE  Fresh(c) /\ \A d \in Callers \ {c} : call'[d] = call[d]
  <2>1. call'[c] = Asking(task, p, paced) /\ \A d \in Callers \ {c} : call'[d] = call[d]
    BY <1>2, AskingCalls, Becoming
  <2> QED BY <2>1, AskingCalls DEF Fresh, OnTrail, ModelTypeOK
<1> QED BY <1>1, <1>2 DEF StartsAnew

LEMMA MovesAreSame ==
  ASSUME ModelTypeOK, NEW c \in Callers, call[c].phase \in OnTrail, NEW k \in Calls, Becomes(c, k),
         k.phase \in OnTrail, k.line = call[c].line, k.tries = call[c].tries, k.at = call[c].at,
         k.provider = call[c].provider
  PROVE  \A d \in Callers : Same(d)
<1>1. call'[c] = k /\ \A d \in Callers \ {c} : call'[d] = call[d]
  BY Becoming
<1> QED BY <1>1 DEF Same, OnTrail

\* What is removed from the trail is too old.
OnlyAges == trail' \subseteq trail /\ \A l \in trail \ trail' : l.at < time - KeepTicks

Quiet ==
  /\ OnlyAges /\ written' = written /\ time' \in {time, time + 1}
  /\ \A d \in Callers : Same(d) \/ Fresh(d)

Persisted(c) == Persist(c) /\ written' # written

LEMMA NumbersKnown ==
  ASSUME ModelTypeOK
  PROVE  /\ time \in Nat /\ written \in Nat
         /\ \A l \in trail : /\ l \in Lines /\ l.number \in Nat /\ l.number # 0 /\ l.at \in Nat
                             /\ l.on \in Nat /\ l.requests \in Nat /\ l.provider \in Remote
         /\ \A c \in Callers : /\ call[c] \in Calls /\ call[c].at \in Nat /\ call[c].line \in Nat
                               /\ call[c].tries \in Nat
BY Limits DEF ModelTypeOK, Lines, Calls

LEMMA QuietSteps ==
  ASSUME ModelTypeOK, CallsKnown, [ModelNext]_modelVars
  PROVE  Quiet \/ \E c \in Callers : Persisted(c) \/ RequestOnce(c) \/ RequestPaced(c)
<1>1. ASSUME call' = call, trail' = trail, written' = written, time' \in {time, time + 1}
      PROVE  Quiet
  BY <1>1 DEF Quiet, OnlyAges, Same
<1>2. ASSUME NEW c \in Callers, StartsAnew(c), OnlyAges, UNCHANGED <<written, time>> PROVE Quiet
  BY <1>2, AnewIsFresh DEF Quiet, Same
<1>3. ASSUME NEW c \in Callers, NEW phase \in OnTrail, call[c].phase \in OnTrail, Moves(c, phase),
             UNCHANGED <<trail, written, time>>
      PROVE  Quiet
  <2>1. [call[c] EXCEPT !.phase = phase] \in Calls
    BY <1>3 DEF ModelTypeOK, Calls, Phases, OnTrail
  <2>2. \A d \in Callers : Same(d)
    BY <1>3, <2>1, MovesAreSame DEF Moves, Becomes, Calls, ModelTypeOK
  <2> QED BY <1>3, <2>2 DEF Quiet, OnlyAges
<1>4. ASSUME NEW c \in Callers, NEW task \in ModelTasks, Ask(c, task) PROVE Quiet
  BY <1>2, <1>4, WhatStartsAnew DEF Ask, OnlyAges
<1>5. ASSUME NEW c \in Callers, Mask(c) PROVE Quiet
  <2>1. CASE GivesUp(c) \/ AsksHere(c)
    BY <1>2, <1>5, <2>1, WhatStartsAnew DEF Mask, OnlyAges
  <2>2. CASE Becomes(c, [call[c] EXCEPT !.phase = "locking", !.at = time])
    <3>1. [call[c] EXCEPT !.phase = "locking", !.at = time] \in Calls /\ call[c] \in Calls
      BY DEF ModelTypeOK, Calls, Phases
    <3>2. /\ call'[c] = [call[c] EXCEPT !.phase = "locking", !.at = time]
          /\ \A d \in Callers \ {c} : call'[d] = call[d]
      BY <2>2, <3>1, Becoming
    <3>3. call[c].line = 0 /\ call[c].tries = 0 /\ call[c].provider \in Remote
      BY <1>5 DEF Mask, At, CallsKnown, OnTrail
    <3>4. Fresh(c)
      BY <3>1, <3>2, <3>3 DEF Fresh, OnTrail, ModelTypeOK, Calls
    <3> QED BY <1>5, <3>2, <3>4 DEF Mask, Quiet, OnlyAges, Same
  <2> QED BY <1>5, <2>1, <2>2 DEF Mask, Becomes
<1>6. ASSUME NEW c \in Callers, Persist(c) PROVE Quiet \/ Persisted(c)
  <2>1. CASE GivesUp(c) /\ UNCHANGED <<trail, written, cleaned>>
    BY <1>2, <1>6, <2>1, WhatStartsAnew DEF Persist, OnlyAges
  <2>2. CASE ~(GivesUp(c) /\ UNCHANGED <<trail, written, cleaned>>)
    BY <1>6, <2>2 DEF Persist, Persisted, ModelTypeOK
  <2> QED BY <2>1, <2>2
<1>7. ASSUME NEW c \in Callers, TakeTurn(c) PROVE Quiet
  <2> DEFINE due == lastCall[settings.process[c]][call[c].provider] + Interval
  <2>1. CASE HasTurn(c)
    BY <1>3, <1>7, <2>1 DEF TakeTurn, HasTurn, At, OnTrail
  <2>2. CASE ~HasTurn(c)
    <3>1. Becomes(c, [call[c] EXCEPT !.phase = "pacing", !.wake = due]) /\ ~(due <= time)
      BY <1>7, <2>2 DEF TakeTurn, Becomes
    <3>2. settings.process[c] \in Processes /\ call[c].provider \in Remote
      BY <1>7, ModelCallsAssumption DEF ModelTypeOK, TakeTurn, At, CallsKnown
    <3>3. due \in Nat
      BY <3>1, <3>2, Limits DEF ModelTypeOK, Never
    <3>4. [call[c] EXCEPT !.phase = "pacing", !.wake = due] \in Calls /\ call[c] \in Calls
      BY <3>3 DEF ModelTypeOK, Calls, Phases
    <3>5. \A d \in Callers : Same(d)
      BY <1>7, <3>1, <3>4, MovesAreSame DEF TakeTurn, At, OnTrail, Calls
    <3> QED BY <1>7, <3>5 DEF TakeTurn, Quiet, OnlyAges
  <2> QED BY <2>1, <2>2
<1>8. ASSUME NEW c \in Callers, WakeForTurn(c) \/ BackOff(c) PROVE Quiet
  BY <1>3, <1>8 DEF WakeForTurn, HasTurn, BackOff, At, OnTrail
<1>9. ASSUME NEW c \in Callers, AnswerHere(c) PROVE Quiet
  <2>1. OnlyAges
    BY <1>9, NumbersKnown, Limits DEF AnswerHere, OnlyAges, Kept
  <2> QED BY <1>2, <1>9, <2>1, WhatStartsAnew DEF AnswerHere
<1>10. ASSUME NEW w \in Processes, LoseProcess(w) PROVE Quiet
  <2>1. ASSUME NEW d \in Callers PROVE Same(d) \/ Fresh(d)
    <3>1. call'[d] = call[d] \/ call'[d] = NoCall
      BY <1>10 DEF LoseProcess
    <3>2. NoCall = Bare("idle")
      BY DEF NoCall, Bare
    <3>3. call'[d] = NoCall => Fresh(d)
      BY <3>2, BareCalls DEF Fresh, OnTrail, ModelTypeOK
    <3> QED BY <3>1, <3>3 DEF Same
  <2> QED BY <1>10, <2>1 DEF LoseProcess, Quiet, OnlyAges
<1> QED BY <1>1, <1>4, <1>5, <1>6, <1>7, <1>8, <1>9, <1>10
  DEF ModelNext, CallStep, ModelTick, modelVars

OnTrailAreRecorded == \A c \in Callers : call[c].phase \in OnTrail => Recorded(c)

LEMMA QuietKeepsTrail ==
  ASSUME TrailInv, Quiet, ModelTypeOK'
  PROVE  TrailKnown' /\ CallsKnown' /\ LinesAreOnes' /\ RequestsAreTries' /\ OnTrailAreRecorded'
<1>1. /\ ModelTypeOK /\ TrailKnown /\ CallsKnown /\ LinesAreOnes /\ RequestsAreTries
      /\ OnTrailAreRecorded
      /\ trail' \subseteq trail /\ written' = written /\ time' \in {time, time + 1}
      /\ \A l \in trail \ trail' : l.at < time - KeepTicks
      /\ \A d \in Callers : Same(d) \/ Fresh(d)
  BY DEF TrailInv, Quiet, OnlyAges, OnTrailAreRecorded
<1>2. time \in Nat /\ time <= time' /\ time' \in Nat
  BY <1>1, NumbersKnown
<1>3. TrailKnown'
  <2>1. IsFiniteSet(trail')
    BY <1>1, FS_Subset DEF TrailKnown
  <2> QED BY <1>1, <1>2, <2>1, NumbersKnown DEF TrailKnown
<1>4. CallsKnown'
  <2>1. ASSUME NEW c \in Callers
        PROVE  /\ call'[c].at <= time'
               /\ call'[c].phase \notin {"idle", "local"} => call'[c].provider \in Remote
               /\ call'[c].phase \notin OnTrail => call'[c].line = 0 /\ call'[c].tries = 0
               /\ call'[c].phase \in OnTrail => call'[c].line \in 1..written'
    <3>1. call[c].at \in Nat /\ call'[c].at \in Nat
      BY <1>1, NumbersKnown DEF ModelTypeOK, Calls
    <3>2. CASE Same(c)
      BY <1>1, <1>2, <3>1, <3>2 DEF Same, CallsKnown
    <3>3. CASE Fresh(c)
      BY <1>2, <3>1, <3>3 DEF Fresh
    <3> QED BY <1>1, <3>2, <3>3
  <2> QED BY <2>1 DEF CallsKnown
<1>5. LinesAreOnes'
  BY <1>1 DEF LinesAreOnes, Same, Fresh
<1>6. RequestsAreTries'
  BY <1>1, NumbersKnown DEF RequestsAreTries, Same, Fresh
<1>7. OnTrailAreRecorded'
  <2>1. ASSUME NEW c \in Callers, call'[c].phase \in OnTrail PROVE Recorded(c)'
    <3>1. Same(c) /\ Recorded(c)
      BY <1>1, <2>1 DEF Same, Fresh, OnTrailAreRecorded
    <3>2. call[c].at \in Nat
      BY <1>1, NumbersKnown
    <3> QED BY <1>1, <1>2, <3>1, <3>2, Limits DEF Same, Recorded
  <2> QED BY <2>1 DEF OnTrailAreRecorded
<1> QED BY <1>3, <1>4, <1>5, <1>6, <1>7

\* What a line written says, and what is known of the call it is written for.
NewLine(c) ==
  [number |-> written + 1, provider |-> call[c].provider, at |-> call[c].at, on |-> time,
   requests |-> 0]

LEMMA WhatIsPersisted ==
  ASSUME ModelTypeOK, CallsKnown, NEW c \in Callers, Persisted(c)
  PROVE  /\ written' = written + 1 /\ time' = time /\ trail' = Kept(settings.process[c]) \cup {NewLine(c)}
         /\ Authorized(call[c].provider)
         /\ call'[c].line = written + 1 /\ call'[c].phase \in OnTrail
         /\ call'[c].tries = call[c].tries /\ call'[c].at = call[c].at
         /\ call'[c].provider = call[c].provider
         /\ \A d \in Callers \ {c} : call'[d] = call[d]
<1> DEFINE k == [call[c] EXCEPT !.line = written',
                   !.phase = IF call[c].paced THEN "waiting" ELSE "sending"]
<1>1. /\ written' = written + 1 /\ written < MaxLines /\ time' = time
      /\ trail' = Kept(settings.process[c]) \cup {NewLine(c)}
      /\ Authorized(call[c].provider) /\ Becomes(c, k)
  BY DEF Persisted, Persist, Becomes, NewLine
<1>2. call[c] \in Calls /\ written' \in 0..MaxLines
  BY <1>1, Limits DEF ModelTypeOK
<1>3. k \in Calls /\ k.line = written' /\ k.phase \in OnTrail /\ k.tries = call[c].tries
      /\ k.at = call[c].at /\ k.provider = call[c].provider
  BY <1>2 DEF Calls, Phases, OnTrail
<1> HIDE DEF k
<1>4. call'[c] = k /\ \A d \in Callers \ {c} : call'[d] = call[d]
  BY <1>1, <1>3, Becoming
<1> QED BY <1>1, <1>3, <1>4

LEMMA PersistKeepsTrail ==
  ASSUME TrailInv, NEW c \in Callers, Persisted(c)
  PROVE  TrailKnown' /\ CallsKnown' /\ LinesAreOnes' /\ RequestsAreTries' /\ OnTrailAreRecorded'
<1> DEFINE old == Kept(settings.process[c])
<1>1. /\ ModelTypeOK /\ TrailKnown /\ CallsKnown /\ LinesAreOnes /\ RequestsAreTries
      /\ OnTrailAreRecorded
  BY DEF TrailInv, OnTrailAreRecorded
<1>2. /\ written' = written + 1 /\ time' = time /\ trail' = old \cup {NewLine(c)}
      /\ call'[c].line = written + 1 /\ call'[c].phase \in OnTrail
      /\ call'[c].tries = call[c].tries /\ call'[c].at = call[c].at
      /\ call'[c].provider = call[c].provider
      /\ \A d \in Callers \ {c} : call'[d] = call[d]
  BY <1>1, WhatIsPersisted
<1>3. call[c].phase = "locking" /\ call[c].provider \in Remote
  BY <1>1 DEF Persisted, Persist, At, CallsKnown
<1>4. /\ NewLine(c).number = written + 1 /\ NewLine(c).provider = call[c].provider
      /\ NewLine(c).at = call[c].at /\ NewLine(c).on = time /\ NewLine(c).requests = 0
  BY DEF NewLine
<1>5. old \subseteq trail /\ \A l \in trail : l \in old \/ l.at < time - KeepTicks
  BY <1>1, NumbersKnown, Limits DEF Kept
<1>6. /\ time \in Nat /\ written \in Nat
      /\ \A d \in Callers : call[d].line \in Nat /\ call[d].line <= written
                            /\ call[d].at \in Nat /\ call[d].at <= time /\ call[d].tries \in Nat
  <2>1. ASSUME NEW d \in Callers PROVE call[d].line <= written /\ call[d].at <= time
    BY <1>1, NumbersKnown DEF CallsKnown
  <2> QED BY <1>1, <2>1, NumbersKnown
<1> HIDE DEF old
<1>7. TrailKnown'
  <2>1. IsFiniteSet(trail')
    <3>1. IsFiniteSet(old)
      BY <1>1, <1>5, FS_Subset DEF TrailKnown
    <3> QED BY <1>2, <3>1, FS_AddElement
  <2>2. ASSUME NEW l \in trail' PROVE l.number <= written' /\ l.at <= l.on /\ l.on <= time'
    <3>1. CASE l \in old
      BY <1>1, <1>2, <1>5, <1>6, <3>1, NumbersKnown DEF TrailKnown
    <3>2. CASE l = NewLine(c)
      BY <1>2, <1>4, <1>6, <3>2
    <3> QED BY <1>2, <3>1, <3>2
  <2> QED BY <2>1, <2>2 DEF TrailKnown
<1>8. CallsKnown'
  <2>1. ASSUME NEW d \in Callers
        PROVE  /\ call'[d].at <= time'
               /\ call'[d].phase \notin {"idle", "local"} => call'[d].provider \in Remote
               /\ call'[d].phase \notin OnTrail => call'[d].line = 0 /\ call'[d].tries = 0
               /\ call'[d].phase \in OnTrail => call'[d].line \in 1..written'
    <3>1. CASE d = c
      BY <1>2, <1>3, <1>6, <3>1
    <3>2. CASE d # c
      BY <1>1, <1>2, <1>6, <3>2 DEF CallsKnown
    <3> QED BY <3>1, <3>2
  <2> QED BY <2>1 DEF CallsKnown
<1>9. LinesAreOnes'
  <2>1. ASSUME NEW d \in Callers, NEW e \in Callers, call'[d].line = call'[e].line,
               call'[d].line # 0
        PROVE  d = e
    <3>1. CASE d = c \/ e = c
      BY <1>2, <1>6, <2>1, <3>1
    <3>2. CASE d # c /\ e # c
      BY <1>1, <1>2, <2>1, <3>2 DEF LinesAreOnes
    <3> QED BY <3>1, <3>2
  <2> QED BY <2>1 DEF LinesAreOnes
<1>10. RequestsAreTries'
  <2>1. ASSUME NEW d \in Callers, NEW l \in trail', l.number = call'[d].line
        PROVE  l.requests <= call'[d].tries
    <3>1. CASE l = NewLine(c)
      <4>1. d = c
        BY <1>2, <1>4, <1>6, <2>1, <3>1
      <4> QED BY <1>2, <1>4, <1>6, <3>1, <4>1
    <3>2. CASE l \in old
      <4>1. l.number <= written /\ l.number \in Nat
        BY <1>1, <1>5, <3>2, NumbersKnown DEF TrailKnown
      <4>2. d # c
        BY <1>2, <1>6, <2>1, <4>1
      <4> QED BY <1>1, <1>2, <1>5, <2>1, <3>2, <4>2 DEF RequestsAreTries
    <3> QED BY <1>2, <3>1, <3>2
  <2> QED BY <2>1 DEF RequestsAreTries
<1>11. OnTrailAreRecorded'
  <2>1. ASSUME NEW d \in Callers, call'[d].phase \in OnTrail PROVE Recorded(d)'
    <3>1. CASE d = c
      BY <1>2, <1>4, <3>1 DEF Recorded
    <3>2. CASE d # c
      <4>1. Recorded(d) /\ call'[d] = call[d]
        BY <1>1, <1>2, <2>1, <3>2 DEF OnTrailAreRecorded
      <4> QED BY <1>2, <1>5, <4>1 DEF Recorded
    <3> QED BY <3>1, <3>2
  <2> QED BY <2>1 DEF OnTrailAreRecorded
<1> QED BY <1>7, <1>8, <1>9, <1>10, <1>11

\* A line after a request of c: of its own, one more request.
Bumped(c, l) == IF l.number = call[c].line THEN [l EXCEPT !.requests = @ + 1] ELSE l

Retried(c) ==
  /\ call'[c].phase \in OnTrail /\ call'[c].tries = call[c].tries + 1
  /\ call'[c].line = call[c].line /\ call'[c].at = call[c].at
  /\ call'[c].provider = call[c].provider

LEMMA BumpedKnown ==
  ASSUME ModelTypeOK, NEW c \in Callers, NEW l \in trail
  PROVE  /\ Bumped(c, l).number = l.number /\ Bumped(c, l).provider = l.provider
         /\ Bumped(c, l).at = l.at /\ Bumped(c, l).on = l.on
         /\ Bumped(c, l).requests = IF l.number = call[c].line THEN l.requests + 1 ELSE l.requests
<1>1. l \in Lines
  BY DEF ModelTypeOK
<1> QED BY <1>1 DEF Bumped, Lines

LEMMA BumpedFewer ==
  ASSUME NEW c, NEW S, IsFiniteSet(S)
  PROVE  LET T == {Bumped(c, l) : l \in S}
         IN IsFiniteSet(T) /\ Cardinality(T) <= Cardinality(S)
<1> DEFINE T == {Bumped(c, l) : l \in S}
           f == [l \in S |-> Bumped(c, l)]
<1>1. f \in Surjection(S, T)
  BY DEF Surjection
<1> QED BY <1>1, FS_Surjection

LEMMA WhatIsRequested ==
  ASSUME ModelTypeOK, CallsKnown, NEW c \in Callers, RequestOnce(c) \/ RequestPaced(c)
  PROVE  /\ written' = written /\ time' = time
         /\ trail' = {Bumped(c, l) : l \in trail}
         /\ call[c].phase \in OnTrail /\ call[c].phase = "sending"
         /\ Fresh(c) \/ Retried(c)
         /\ \A d \in Callers \ {c} : call'[d] = call[d]
<1>1. /\ written' = written /\ time' = time /\ trail' = Counted(c) /\ call[c].phase = "sending"
  BY DEF RequestOnce, RequestPaced, At
<1>2. trail' = {Bumped(c, l) : l \in trail}
  BY <1>1 DEF Counted, Bumped
<1>3. (Fresh(c) \/ Retried(c)) /\ \A d \in Callers \ {c} : call'[d] = call[d]
  <2>1. CASE Ended(c)
    BY <2>1, WhatStartsAnew, AnewIsFresh
  <2>2. ASSUME MayRetry(c), NEW s \in Waits, Becomes(c, Backing(c, s))
        PROVE  Retried(c) /\ \A d \in Callers \ {c} : call'[d] = call[d]
    <3>1. Backing(c, s) \in Calls /\ call[c] \in Calls
      <4>1. s \in Nat /\ time + s \in Nat /\ call[c].tries + 1 \in 0..MaxRetries
        BY <2>2, ModelCallsAssumption, Limits DEF ModelTypeOK, Calls, MayRetry
      <4> QED BY <4>1 DEF ModelTypeOK, Calls, Phases, Backing
    <3>2. call'[c] = Backing(c, s) /\ \A d \in Callers \ {c} : call'[d] = call[d]
      BY <2>2, <3>1, Becoming
    <3>3. Retried(c)
      BY <3>1, <3>2 DEF Retried, OnTrail, Backing, Calls
    <3> QED BY <3>2, <3>3
  <2>3. \/ Ended(c)
        \/ MayRetry(c) /\ \E s \in Waits : Becomes(c, Backing(c, s))
    BY DEF RequestOnce, RequestPaced, Becomes, Backing
  <2> QED BY <2>1, <2>2, <2>3
<1> QED BY <1>1, <1>2, <1>3 DEF OnTrail

LEMMA RequestKeepsTrail ==
  ASSUME TrailInv, NEW c \in Callers, RequestOnce(c) \/ RequestPaced(c)
  PROVE  TrailKnown' /\ CallsKnown' /\ LinesAreOnes' /\ RequestsAreTries' /\ OnTrailAreRecorded'
<1>1. /\ ModelTypeOK /\ TrailKnown /\ CallsKnown /\ LinesAreOnes /\ RequestsAreTries
      /\ OnTrailAreRecorded
  BY DEF TrailInv, OnTrailAreRecorded
<1>2. /\ written' = written /\ time' = time /\ trail' = {Bumped(c, l) : l \in trail}
      /\ call[c].phase \in OnTrail /\ call[c].phase = "sending"
      /\ Fresh(c) \/ Retried(c)
      /\ \A d \in Callers \ {c} : call'[d] = call[d]
  BY <1>1, WhatIsRequested
<1>3. call[c].line \in 1..written /\ call[c].provider \in Remote /\ call[c].at <= time
  BY <1>1, <1>2 DEF CallsKnown
<1>4. TrailKnown'
  <2>1. IsFiniteSet(trail')
    BY <1>1, <1>2, BumpedFewer DEF TrailKnown
  <2> QED BY <1>1, <1>2, <2>1, BumpedKnown DEF TrailKnown
<1>5. CallsKnown'
  <2>1. ASSUME NEW d \in Callers
        PROVE  /\ call'[d].at <= time'
               /\ call'[d].phase \notin {"idle", "local"} => call'[d].provider \in Remote
               /\ call'[d].phase \notin OnTrail => call'[d].line = 0 /\ call'[d].tries = 0
               /\ call'[d].phase \in OnTrail => call'[d].line \in 1..written'
    <3>1. CASE d = c
      BY <1>2, <1>3, <3>1 DEF Fresh, Retried
    <3>2. CASE d # c
      BY <1>1, <1>2, <3>2 DEF CallsKnown
    <3> QED BY <3>1, <3>2
  <2> QED BY <2>1 DEF CallsKnown
<1>6. LinesAreOnes'
  BY <1>1, <1>2 DEF LinesAreOnes, Fresh, Retried
<1>7. RequestsAreTries'
  <2>1. ASSUME NEW d \in Callers, NEW l \in trail, l.number = call'[d].line
        PROVE  Bumped(c, l).requests <= call'[d].tries
    <3>1. l.number # 0 /\ l.number \in Nat /\ l.requests \in Nat
      BY <1>1, NumbersKnown
    <3>2. CASE d = c
      <4>1. Retried(c)
        BY <1>2, <2>1, <3>1, <3>2 DEF Fresh
      <4>2. l.requests <= call[c].tries /\ l.number = call[c].line
        BY <1>1, <2>1, <3>2, <4>1 DEF RequestsAreTries, Retried
      <4>3. call[c].tries \in Nat
        BY <1>1, NumbersKnown
      <4> QED BY <1>1, <3>1, <3>2, <4>1, <4>2, <4>3, BumpedKnown DEF Retried
    <3>3. CASE d # c
      <4>1. call'[d] = call[d] /\ l.number # call[c].line
        BY <1>1, <1>2, <2>1, <3>1, <3>3 DEF LinesAreOnes
      <4> QED BY <1>1, <2>1, <4>1, BumpedKnown DEF RequestsAreTries
    <3> QED BY <3>2, <3>3
  <2>2. ASSUME NEW d \in Callers, NEW l \in trail', l.number = call'[d].line
        PROVE  l.requests <= call'[d].tries
    <3>1. PICK o \in trail : l = Bumped(c, o)
      BY <1>2
    <3>2. l.number = o.number
      BY <1>1, <3>1, BumpedKnown
    <3> QED BY <2>1, <2>2, <3>1, <3>2
  <2> QED BY <2>2 DEF RequestsAreTries
<1>8. OnTrailAreRecorded'
  <2>1. ASSUME NEW d \in Callers, call'[d].phase \in OnTrail PROVE Recorded(d)'
    <3>1. Recorded(d) /\ call'[d].line = call[d].line /\ call'[d].at = call[d].at
          /\ call'[d].provider = call[d].provider
      BY <1>1, <1>2, <2>1 DEF OnTrailAreRecorded, Fresh, Retried
    <3>2. CASE call[d].at < time - KeepTicks
      BY <1>2, <3>1, <3>2 DEF Recorded
    <3>3. ASSUME NEW l \in trail, l.number = call[d].line, l.provider = call[d].provider,
                 l.at = call[d].at
          PROVE  Recorded(d)'
      <4>1. Bumped(c, l) \in trail' /\ Bumped(c, l).number = l.number
            /\ Bumped(c, l).provider = l.provider /\ Bumped(c, l).at = l.at
        BY <1>1, <1>2, BumpedKnown
      <4> QED BY <3>1, <3>3, <4>1 DEF Recorded
    <3> QED BY <3>1, <3>2, <3>3 DEF Recorded
  <2> QED BY <2>1 DEF OnTrailAreRecorded
<1> QED BY <1>4, <1>5, <1>6, <1>7, <1>8

LEMMA StepKeepsTrailInv ==
  ASSUME TrailInv, [ModelNext]_modelVars PROVE TrailInv'
<1>1. ModelTypeOK'
  BY StepKeepsTypes DEF TrailInv
<1>2. Quiet \/ \E c \in Callers : Persisted(c) \/ RequestOnce(c) \/ RequestPaced(c)
  BY QuietSteps DEF TrailInv
<1>3. TrailKnown' /\ CallsKnown' /\ LinesAreOnes' /\ RequestsAreTries' /\ OnTrailAreRecorded'
  BY <1>1, <1>2, QuietKeepsTrail, PersistKeepsTrail, RequestKeepsTrail
<1> QED BY <1>1, <1>3 DEF TrailInv, OnTrailAreRecorded

LEMMA InitTrailInv ==
  ASSUME ModelInit PROVE TrailInv
<1>1. NoCall = Bare("idle") /\ NoCall.phase = "idle"
  BY DEF NoCall, Bare
<1>2. /\ NoCall \in Calls /\ NoCall.at = 0 /\ NoCall.line = 0 /\ NoCall.tries = 0
  BY <1>1, BareCalls
<1>3. ModelTypeOK
  <2>1. lastCall \in [Processes -> [Remote -> {Never} \cup 0..MaxTime]]
    BY DEF ModelInit
  <2>2. call \in [Callers -> Calls] /\ cleaned \in [Processes -> {NoDay} \cup 0..MaxTime]
    BY <1>2 DEF ModelInit
  <2>3. written \in 0..MaxLines /\ time \in 0..MaxTime /\ losses \in 0..MaxLosses
    BY Limits DEF ModelInit
  <2>4. hadTurn = lastCall /\ settings \in UsedSettings /\ trail \subseteq Lines /\ torn \in BOOLEAN
    BY DEF ModelInit
  <2> QED BY <2>1, <2>2, <2>3, <2>4 DEF ModelTypeOK
<1>4. TrailKnown
  BY FS_EmptySet DEF ModelInit, TrailKnown
<1>5. CallsKnown /\ LinesAreOnes /\ RequestsAreTries
      /\ \A c \in Callers : call[c].phase \notin OnTrail
  BY <1>1, <1>2 DEF ModelInit, CallsKnown, LinesAreOnes, RequestsAreTries, OnTrail
<1> QED BY <1>3, <1>4, <1>5 DEF TrailInv

\* Every text that the trail counts as leaving, and that has left or waits to,
\* has its line on the trail, which stands for no more requests than a call may
\* make; only age removes the line.
THEOREM UploadsAreRecorded == ModelSpec => []UploadsRecorded
<1>1. ModelInit => TrailInv
  BY InitTrailInv
<1>2. TrailInv /\ [ModelNext]_modelVars => TrailInv'
  BY StepKeepsTrailInv
<1>3. TrailInv => UploadsRecorded
  <2>1. ASSUME TrailInv, NEW c \in Callers, call[c].phase \in OnTrail
        PROVE  \/ \E l \in trail : l.number = call[c].line /\ l.provider = call[c].provider
               \/ call[c].at < time - KeepTicks
    BY <2>1 DEF TrailInv, Recorded
  <2>2. ASSUME TrailInv, NEW l \in trail PROVE l.requests <= MaxRetries + 1
    BY <2>2, Limits DEF TrailInv, ModelTypeOK, Lines
  <2> QED BY <2>1, <2>2 DEF UploadsRecorded, OnTrail
<1> QED BY <1>1, <1>2, <1>3, PTL DEF ModelSpec

-----------------------------------------------------------------------------
(* The allowance of a day.                                                 *)

\* A smaller set, an image of a set, one element more.
LEMMA Fewer ==
  ASSUME NEW S, IsFiniteSet(S), NEW T, T \subseteq S
  PROVE  /\ IsFiniteSet(T) /\ Cardinality(T) \in Nat /\ Cardinality(S) \in Nat
         /\ Cardinality(T) <= Cardinality(S)
BY FS_Subset, FS_CardinalityType

LEMMA OneMore ==
  ASSUME NEW S, IsFiniteSet(S), NEW x, NEW T, T \subseteq S \cup {x}
  PROVE  Cardinality(T) \in Nat /\ Cardinality(T) <= Cardinality(S) + 1
<1>1. /\ IsFiniteSet(S \cup {x})
      /\ Cardinality(S \cup {x}) = IF x \in S THEN Cardinality(S) ELSE Cardinality(S) + 1
  BY FS_AddElement
<1> QED BY <1>1, Fewer, FS_CardinalityType

LEMMA OneLess ==
  ASSUME NEW S, IsFiniteSet(S), NEW x \in S, NEW T, T \subseteq S \ {x}
  PROVE  Cardinality(T) \in Nat /\ Cardinality(T) <= Cardinality(S) - 1
<1>1. IsFiniteSet(S \ {x}) /\ Cardinality(S \ {x}) = Cardinality(S) - 1
  BY FS_RemoveElement
<1> QED BY <1>1, Fewer, FS_CardinalityType

\* A line that is late was stamped on a day that is over.
LEMMA LateIsOver ==
  ASSUME ModelTypeOK, TrailKnown, NEW p, NEW d \in Nat, Late(p, d) # {}
  PROVE  d < Day(time)
<1>1. PICK l \in trail : Day(l.at) = d /\ Day(l.on) # d
  BY DEF Late
<1>2. l.at \in Nat /\ l.on \in Nat /\ l.at <= l.on /\ l.on <= time /\ time \in Nat
  BY NumbersKnown DEF TrailKnown
<1>3. Day(l.at) <= Day(l.on) /\ Day(l.on) <= Day(time)
      /\ Day(l.at) \in Nat /\ Day(l.on) \in Nat /\ Day(time) \in Nat
  BY <1>2, DaysGrow
<1> QED BY <1>1, <1>3

LEMMA DaysAreFinite ==
  ASSUME TrailKnown, NEW p, NEW d
  PROVE  IsFiniteSet(InTime(p, d)) /\ IsFiniteSet(Late(p, d)) /\ IsFiniteSet(Coming(p, d))
<1>1. IsFiniteSet(Callers)
  BY ModelCallsAssumption
<1> QED BY <1>1, Fewer DEF TrailKnown, InTime, Late, Coming

\* What a step makes of a call: nothing, no call, a call just begun, a line made
\* out for it, or a call on the trail to the same provider.
LEMMA WhatBecomes ==
  ASSUME ModelTypeOK, CallsKnown, [ModelNext]_modelVars, NEW c \in Callers
  PROVE  \/ call'[c] = call[c]
         \/ \E phase \in {"idle", "local"} : call'[c] = Bare(phase)
         \/ \E task \in ModelTasks \cup {"none"} : \E p \in Remote : \E paced \in BOOLEAN :
              /\ call'[c] = Asking(task, p, paced)
              /\ p = "ollama" \/ (task \in ModelTasks /\ p = ForTask(task))
         \/ /\ call'[c].provider = call[c].provider /\ call'[c].task = call[c].task
            /\ \/ call'[c].phase = "locking" /\ call'[c].at = time
               \/ call'[c].phase \in OnTrail \ {"pacing"}
               \/ call'[c].phase = "pacing" /\ TakeTurn(c) /\ ~HasTurn(c)
<1> DEFINE Goes(e) ==
      \/ call'[e] = call[e]
      \/ \E phase \in {"idle", "local"} : call'[e] = Bare(phase)
      \/ \E task \in ModelTasks \cup {"none"} : \E p \in Remote : \E paced \in BOOLEAN :
           /\ call'[e] = Asking(task, p, paced)
           /\ p = "ollama" \/ (task \in ModelTasks /\ p = ForTask(task))
      \/ /\ call'[e].provider = call[e].provider /\ call'[e].task = call[e].task
         /\ \/ call'[e].phase = "locking" /\ call'[e].at = time
            \/ call'[e].phase \in OnTrail \ {"pacing"}
            \/ call'[e].phase = "pacing" /\ TakeTurn(e) /\ ~HasTurn(e)
<1>1. ASSUME NEW e \in Callers, NEW k \in Calls, Becomes(e, k),
             k.provider = call[e].provider, k.task = call[e].task,
             \/ k.phase = "locking" /\ k.at = time
             \/ k.phase \in OnTrail \ {"pacing"}
             \/ k.phase = "pacing" /\ TakeTurn(e) /\ ~HasTurn(e)
      PROVE  Goes(c)
  BY <1>1, Becoming
<1>2. ASSUME NEW e \in Callers, NEW phase \in OnTrail \ {"pacing"}, Moves(e, phase) PROVE Goes(c)
  <2>1. /\ [call[e] EXCEPT !.phase = phase] \in Calls
        /\ [call[e] EXCEPT !.phase = phase].phase = phase
        /\ [call[e] EXCEPT !.phase = phase].provider = call[e].provider
        /\ [call[e] EXCEPT !.phase = phase].task = call[e].task
    BY <1>2 DEF ModelTypeOK, Calls, OnTrail, Phases
  <2> QED BY <1>1, <1>2, <2>1 DEF Moves, Becomes
<1>3. ASSUME NEW e \in Callers, StartsAnew(e) PROVE Goes(c)
  <2>1. ASSUME NEW phase \in {"idle", "local"}, Becomes(e, Bare(phase)) PROVE Goes(c)
    <3>1. call'[e] = Bare(phase) /\ \A d \in Callers \ {e} : call'[d] = call[d]
      BY <2>1, BareCalls, Becoming
    <3> QED BY <3>1
  <2>2. ASSUME NEW task \in ModelTasks \cup {"none"}, NEW p \in Remote, NEW paced \in BOOLEAN,
               Becomes(e, Asking(task, p, paced)),
               p = "ollama" \/ (task \in ModelTasks /\ p = ForTask(task))
        PROVE  Goes(c)
    <3>1. call'[e] = Asking(task, p, paced) /\ \A d \in Callers \ {e} : call'[d] = call[d]
      BY <2>2, AskingCalls, Becoming
    <3> QED BY <2>2, <3>1
  <2> QED BY <1>3, <2>1, <2>2 DEF StartsAnew
<1>4. ASSUME NEW e \in Callers, NEW task \in ModelTasks, Ask(e, task) PROVE Goes(c)
  BY <1>3, <1>4, WhatStartsAnew
<1>5. ASSUME NEW e \in Callers, Mask(e) PROVE Goes(c)
  <2>1. CASE GivesUp(e) \/ AsksHere(e)
    BY <1>3, <2>1, WhatStartsAnew
  <2>2. CASE Becomes(e, [call[e] EXCEPT !.phase = "locking", !.at = time])
    <3> DEFINE k == [call[e] EXCEPT !.phase = "locking", !.at = time]
    <3>1. /\ k \in Calls /\ k.phase = "locking" /\ k.at = time
          /\ k.provider = call[e].provider /\ k.task = call[e].task
      BY DEF ModelTypeOK, Calls, Phases
    <3> QED BY <1>1, <2>2, <3>1
  <2> QED BY <1>5, <2>1, <2>2 DEF Mask, Becomes
<1>6. ASSUME NEW e \in Callers, Persist(e) PROVE Goes(c)
  <2>1. CASE GivesUp(e) /\ UNCHANGED <<trail, written, cleaned>>
    BY <1>3, <2>1, WhatStartsAnew
  <2>2. CASE ~(GivesUp(e) /\ UNCHANGED <<trail, written, cleaned>>)
    <3> DEFINE k == [call[e] EXCEPT !.line = written',
                       !.phase = IF call[e].paced THEN "waiting" ELSE "sending"]
    <3>1. written < MaxLines /\ written' = written + 1 /\ Becomes(e, k)
      BY <1>6, <2>2 DEF Persist, Becomes
    <3>2. call[e] \in Calls /\ written' \in 0..MaxLines
      BY <3>1, Limits DEF ModelTypeOK
    <3>3. /\ k \in Calls /\ k.phase \in OnTrail \ {"pacing"}
          /\ k.provider = call[e].provider /\ k.task = call[e].task
      BY <3>2 DEF Calls, Phases, OnTrail
    <3> QED BY <1>1, <3>1, <3>3
  <2> QED BY <2>1, <2>2
<1>7. ASSUME NEW e \in Callers, TakeTurn(e) PROVE Goes(c)
  <2> DEFINE due == lastCall[settings.process[e]][call[e].provider] + Interval
             k == [call[e] EXCEPT !.phase = "pacing", !.wake = due]
  <2>1. CASE HasTurn(e)
    BY <1>2, <2>1 DEF HasTurn, OnTrail
  <2>2. CASE ~HasTurn(e)
    <3>1. call' = [call EXCEPT ![e] = k] /\ call \in [Callers -> Calls] /\ call[e] \in Calls
      BY <1>7, <2>2 DEF TakeTurn, ModelTypeOK
    <3>2. /\ call'[e].provider = call[e].provider /\ call'[e].task = call[e].task
          /\ call'[e].phase = "pacing" /\ \A d \in Callers \ {e} : call'[d] = call[d]
      BY <3>1 DEF Calls
    <3> QED BY <1>7, <2>2, <3>2
  <2> QED BY <2>1, <2>2
<1>8. ASSUME NEW e \in Callers, WakeForTurn(e) \/ BackOff(e) PROVE Goes(c)
  BY <1>2, <1>8 DEF WakeForTurn, BackOff, HasTurn, OnTrail
<1>9. ASSUME NEW e \in Callers, RequestOnce(e) \/ RequestPaced(e) PROVE Goes(c)
  <2>1. CASE Ended(e)
    BY <1>3, <2>1, WhatStartsAnew
  <2>2. CASE ~Ended(e)
    <3>1. PICK s \in Waits : Becomes(e, Backing(e, s))
      BY <1>9, <2>2 DEF RequestOnce, RequestPaced, Becomes, Backing
    <3>2. call[e] \in Calls /\ call \in [Callers -> Calls]
      BY DEF ModelTypeOK
    <3>3. /\ call'[e].provider = call[e].provider /\ call'[e].task = call[e].task
          /\ call'[e].phase \in OnTrail \ {"pacing"} /\ \A d \in Callers \ {e} : call'[d] = call[d]
      BY <3>1, <3>2 DEF Calls, Becomes, Backing, OnTrail
    <3> QED BY <3>3
  <2> QED BY <2>1, <2>2
<1>10. ASSUME NEW e \in Callers, AnswerHere(e) PROVE Goes(c)
  BY <1>3, <1>10, WhatStartsAnew DEF AnswerHere
<1>11. ASSUME NEW w \in Processes, LoseProcess(w) PROVE Goes(c)
  <2>1. NoCall = Bare("idle")
    BY DEF NoCall, Bare
  <2> QED BY <1>11, <2>1 DEF LoseProcess
<1>12. ASSUME ModelTick \/ UNCHANGED modelVars PROVE Goes(c)
  BY <1>12 DEF ModelTick, modelVars
<1>13. Goes(c)
  <2> HIDE DEF Goes
  <2>1. ASSUME NEW e \in Callers, CallStep(e) PROVE Goes(c)
    BY <1>4, <1>5, <1>6, <1>7, <1>8, <1>9, <1>10, <2>1, Zenon DEF CallStep
  <2> QED BY <1>11, <1>12, <2>1 DEF ModelNext
<1> QED BY <1>13

\* Only a call made out today joins those still to come.
LEMMA ComingIsToday ==
  ASSUME ModelTypeOK, CallsKnown, [ModelNext]_modelVars, NEW c \in Callers, call'[c].phase = "locking"
  PROVE  call'[c] = call[c] \/ Day(call'[c].at) = Day(time)
BY WhatBecomes, BareCalls, AskingCalls DEF OnTrail

LEMMA NoMoreLate ==
  ASSUME TrailInv, QuotaInv, [ModelNext]_modelVars, NEW p \in Remote, NEW d \in Nat,
         IsFiniteSet(Late(p, d)'), Cardinality(Late(p, d)') <= Cardinality(Late(p, d))
  PROVE  Cardinality(Late(p, d)') + Cardinality(Coming(p, d)') <= Cardinality(Callers)
<1>1. ModelTypeOK /\ TrailKnown /\ CallsKnown /\ IsFiniteSet(Callers)
  BY ModelCallsAssumption DEF TrailInv
<1>2. Coming(p, d)' \subseteq Callers
  BY DEF Coming
<1>3. /\ Cardinality(Coming(p, d)') \in Nat /\ Cardinality(Callers) \in Nat
      /\ Cardinality(Coming(p, d)') <= Cardinality(Callers)
  BY <1>1, <1>2, Fewer
<1>4. /\ Cardinality(Late(p, d)') \in Nat /\ Cardinality(Late(p, d)) \in Nat
      /\ IsFiniteSet(Coming(p, d)) /\ Cardinality(Coming(p, d)) \in Nat
  BY <1>1, DaysAreFinite, FS_CardinalityType
<1>5. CASE d = Day(time)
  <2>1. time \in Nat
    BY <1>1, NumbersKnown
  <2>2. Day(time) \in Nat
    BY <2>1, DaysGrow
  <2>3. Late(p, d) = {}
    BY <1>1, <1>5, <2>2, LateIsOver
  <2>4. Cardinality(Late(p, d)) = 0
    BY <2>3, FS_EmptySet
  <2> QED BY <1>3, <1>4, <2>4
<1>6. CASE d # Day(time)
  <2>1. Coming(p, d)' \subseteq Coming(p, d)
    BY <1>1, <1>6, ComingIsToday DEF Coming, At
  <2>2. Cardinality(Coming(p, d)') <= Cardinality(Coming(p, d))
    BY <1>4, <2>1, Fewer
  <2>3. Cardinality(Late(p, d)) + Cardinality(Coming(p, d)) <= Cardinality(Callers)
    BY DEF QuotaInv
  <2> QED BY <1>3, <1>4, <2>2, <2>3
<1> QED BY <1>5, <1>6

LEMMA PersistKeepsQuota ==
  ASSUME TrailInv, QuotaInv, [ModelNext]_modelVars, NEW c \in Callers, Persisted(c),
         NEW p \in Remote, NEW d \in Nat
  PROVE  /\ DailyCalls > 0 => Cardinality(InTime(p, d)') <= DailyCalls
         /\ Cardinality(Late(p, d)') + Cardinality(Coming(p, d)') <= Cardinality(Callers)
<1> DEFINE ofIt == p = call[c].provider /\ d = Day(call[c].at)
<1>1. ModelTypeOK /\ TrailKnown /\ CallsKnown
  BY DEF TrailInv
<1>2. /\ time' = time /\ trail' = Kept(settings.process[c]) \cup {NewLine(c)}
      /\ Kept(settings.process[c]) \subseteq trail
      /\ Authorized(call[c].provider)
      /\ call'[c].phase \in OnTrail /\ \A e \in Callers \ {c} : call'[e] = call[e]
  BY <1>1, WhatIsPersisted DEF Kept
<1>3. /\ NewLine(c).provider = call[c].provider /\ NewLine(c).at = call[c].at
      /\ NewLine(c).on = time
  BY DEF NewLine
<1>4. IsFiniteSet(InTime(p, d)) /\ IsFiniteSet(Late(p, d)) /\ IsFiniteSet(Coming(p, d))
  BY <1>1, DaysAreFinite
<1>5. /\ Cardinality(InTime(p, d)) \in Nat /\ Cardinality(Late(p, d)) \in Nat
      /\ Cardinality(Coming(p, d)) \in Nat /\ Cardinality(Callers) \in Nat
      /\ DailyCalls > 0 => Cardinality(InTime(p, d)) <= DailyCalls
      /\ Cardinality(Late(p, d)) + Cardinality(Coming(p, d)) <= Cardinality(Callers)
  BY <1>4, FS_CardinalityType, ModelCallsAssumption DEF QuotaInv
<1>6. InTime(p, d)' \subseteq InTime(p, d) \/ (ofIt /\ Day(time) = d)
  BY <1>2, <1>3 DEF InTime
<1>7. Late(p, d)' \subseteq Late(p, d) \/ (ofIt /\ Day(time) # d)
  BY <1>2, <1>3 DEF Late
<1>8. Coming(p, d)' \subseteq Coming(p, d) \ {c}
  BY <1>2 DEF Coming, At, OnTrail
<1>9. ASSUME DailyCalls > 0 PROVE Cardinality(InTime(p, d)') <= DailyCalls
  <2>1. CASE InTime(p, d)' \subseteq InTime(p, d)
    <3>1. Cardinality(InTime(p, d)') \in Nat
          /\ Cardinality(InTime(p, d)') <= Cardinality(InTime(p, d))
      BY <1>4, <2>1, Fewer
    <3> QED BY <1>5, <1>9, <3>1, Limits
  <2>2. CASE ofIt /\ Day(time) = d
    <3> DEFINE today == {l \in trail : l.provider = p /\ Day(l.at) = Day(time)}
    <3>1. Cardinality(today) < DailyCalls /\ IsFiniteSet(today)
      BY <1>1, <1>2, <1>9, <2>2, Fewer, Limits DEF Authorized, UsedToday, TrailKnown
    <3>2. Cardinality(InTime(p, d)) <= Cardinality(today) /\ Cardinality(today) \in Nat
      BY <2>2, <3>1, Fewer DEF InTime
    <3>3. InTime(p, d)' \subseteq InTime(p, d) \cup {NewLine(c)}
      BY <1>2 DEF InTime
    <3>4. Cardinality(InTime(p, d)') \in Nat
          /\ Cardinality(InTime(p, d)') <= Cardinality(InTime(p, d)) + 1
      BY <1>4, <3>3, OneMore
    <3> QED BY <1>5, <3>1, <3>2, <3>4, Limits
  <2> QED BY <1>6, <2>1, <2>2
<1>10. Cardinality(Late(p, d)') + Cardinality(Coming(p, d)') <= Cardinality(Callers)
  <2>1. CASE Late(p, d)' \subseteq Late(p, d)
    <3>1. IsFiniteSet(Late(p, d)') /\ Cardinality(Late(p, d)') <= Cardinality(Late(p, d))
      BY <1>4, <2>1, Fewer
    <3> QED BY <3>1, NoMoreLate
  <2>2. CASE ofIt /\ Day(time) # d
    <3>1. Late(p, d)' \subseteq Late(p, d) \cup {NewLine(c)}
      BY <1>2 DEF Late
    <3>2. Cardinality(Late(p, d)') \in Nat
          /\ Cardinality(Late(p, d)') <= Cardinality(Late(p, d)) + 1
      BY <1>4, <3>1, OneMore
    <3>3. c \in Coming(p, d)
      BY <2>2 DEF Coming, Persisted, Persist, At
    <3>4. Cardinality(Coming(p, d)') \in Nat
          /\ Cardinality(Coming(p, d)') <= Cardinality(Coming(p, d)) - 1
      BY <1>4, <1>8, <3>3, OneLess
    <3> QED BY <1>5, <3>2, <3>4
  <2> QED BY <1>7, <2>1, <2>2
<1> QED BY <1>9, <1>10

LEMMA StepKeepsQuota ==
  ASSUME TrailInv, QuotaInv, [ModelNext]_modelVars
  PROVE  QuotaInv'
<1>1. ModelTypeOK /\ TrailKnown /\ CallsKnown
  BY DEF TrailInv
<1> SUFFICES ASSUME NEW p \in Remote, NEW d \in Nat
             PROVE  /\ DailyCalls > 0 => Cardinality(InTime(p, d)') <= DailyCalls
                    /\ Cardinality(Late(p, d)') + Cardinality(Coming(p, d)')
                         <= Cardinality(Callers)
  BY DEF QuotaInv, Remote
<1>2. /\ IsFiniteSet(InTime(p, d)) /\ IsFiniteSet(Late(p, d))
      /\ DailyCalls > 0 => Cardinality(InTime(p, d)) <= DailyCalls
  BY <1>1, DaysAreFinite DEF QuotaInv
<1>3. CASE Quiet
  <2>1. InTime(p, d)' \subseteq InTime(p, d) /\ Late(p, d)' \subseteq Late(p, d)
    BY <1>3 DEF Quiet, OnlyAges, InTime, Late
  <2>2. /\ IsFiniteSet(Late(p, d)') /\ Cardinality(Late(p, d)') <= Cardinality(Late(p, d))
        /\ Cardinality(InTime(p, d)') <= Cardinality(InTime(p, d))
        /\ Cardinality(InTime(p, d)') \in Nat /\ Cardinality(InTime(p, d)) \in Nat
    BY <1>2, <2>1, Fewer
  <2>3. DailyCalls > 0 => Cardinality(InTime(p, d)') <= DailyCalls
    BY <1>2, <2>2, Limits
  <2> QED BY <2>2, <2>3, NoMoreLate
<1>4. ASSUME NEW c \in Callers, RequestOnce(c) \/ RequestPaced(c)
      PROVE  /\ DailyCalls > 0 => Cardinality(InTime(p, d)') <= DailyCalls
             /\ Cardinality(Late(p, d)') + Cardinality(Coming(p, d)') <= Cardinality(Callers)
  <2>1. trail' = {Bumped(c, l) : l \in trail}
    BY <1>1, <1>4, WhatIsRequested
  <2>2. /\ InTime(p, d)' = {Bumped(c, l) : l \in InTime(p, d)}
        /\ Late(p, d)' = {Bumped(c, l) : l \in Late(p, d)}
    BY <1>1, <2>1, BumpedKnown DEF InTime, Late
  <2>3. /\ IsFiniteSet(InTime(p, d)') /\ Cardinality(InTime(p, d)') <= Cardinality(InTime(p, d))
        /\ IsFiniteSet(Late(p, d)') /\ Cardinality(Late(p, d)') <= Cardinality(Late(p, d))
    BY <1>2, <2>2, BumpedFewer
  <2>4. Cardinality(InTime(p, d)') \in Nat /\ Cardinality(InTime(p, d)) \in Nat
    BY <1>2, <2>3, FS_CardinalityType
  <2>5. DailyCalls > 0 => Cardinality(InTime(p, d)') <= DailyCalls
    BY <1>2, <2>3, <2>4, Limits
  <2> QED BY <2>3, <2>5, NoMoreLate
<1> QED BY <1>1, <1>3, <1>4, PersistKeepsQuota, QuietSteps

LEMMA InitQuotaInv ==
  ASSUME ModelInit PROVE QuotaInv
<1>1. ASSUME NEW p \in Remote, NEW d \in Nat
      PROVE  InTime(p, d) = {} /\ Late(p, d) = {} /\ Coming(p, d) = {}
  BY DEF ModelInit, InTime, Late, Coming, At, NoCall
<1>2. Cardinality({}) = 0 /\ Cardinality(Callers) \in Nat
  BY FS_EmptySet, FS_CardinalityType, ModelCallsAssumption
<1> QED BY <1>1, <1>2, Limits DEF QuotaInv

LEMMA QuotaIsHeld ==
  ASSUME TrailInv, QuotaInv PROVE QuotaHeld
<1> SUFFICES ASSUME DailyCalls > 0, NEW p \in Remote, NEW d \in 0..Day(MaxTime)
             PROVE  LET of == {l \in trail : l.provider = p /\ Day(l.at) = d}
                        late == {l \in of : Day(l.on) # d}
                    IN /\ Cardinality(of \ late) <= DailyCalls
                       /\ Cardinality(late) <= Cardinality(Callers)
  BY DEF QuotaHeld
<1> DEFINE of == {l \in trail : l.provider = p /\ Day(l.at) = d}
           late == {l \in of : Day(l.on) # d}
<1>1. of \ late = InTime(p, d) /\ late = Late(p, d) /\ d \in Nat
  BY DEF InTime, Late
<1>2. Cardinality(Late(p, d)) \in Nat /\ Cardinality(Coming(p, d)) \in Nat
      /\ Cardinality(Callers) \in Nat
  BY DaysAreFinite, FS_CardinalityType, ModelCallsAssumption DEF TrailInv
<1>3. /\ Cardinality(InTime(p, d)) <= DailyCalls
      /\ Cardinality(Late(p, d)) + Cardinality(Coming(p, d)) <= Cardinality(Callers)
  BY <1>1 DEF QuotaInv
<1>4. Cardinality(of \ late) <= DailyCalls
  BY <1>1, <1>3
<1>5. Cardinality(late) <= Cardinality(Callers)
  <2> HIDE DEF late
  <2> QED BY <1>1, <1>2, <1>3
<1> QED BY <1>4, <1>5

-----------------------------------------------------------------------------
(* Who is asked.                                                           *)

LEMMA SettingsStay ==
  ASSUME [ModelNext]_modelVars PROVE settings' = settings
BY DEF ModelNext, CallStep, ModelTick, modelVars, Ask, Mask, Persist, TakeTurn, WakeForTurn,
  RequestOnce, RequestPaced, BackOff, AnswerHere, LoseProcess

\* A step leaves a call's task and provider alone, ends the call, or begins one.
LEMMA WhoIsAsked ==
  ASSUME ModelTypeOK, CallsKnown, [ModelNext]_modelVars, NEW c \in Callers
  PROVE  \/ call'[c].provider = call[c].provider /\ call'[c].task = call[c].task
         \/ call'[c].provider \in {"stub", "ollama"}
         \/ \E task \in ModelTasks :
              call'[c].task = task /\ call'[c].provider = ForTask(task)
BY WhatBecomes, BareCalls, AskingCalls

LEMMA StepKeepsNames ==
  ASSUME ModelTypeOK, CallsKnown, OnlyByName, [ModelNext]_modelVars
  PROVE  OnlyByName'
<1> DEFINE ranked == {QualityOrder[i] : i \in DOMAIN QualityOrder}
<1>1. {"stub", "ollama"} \subseteq ranked
  <2>1. /\ QualityOrder[3] = "ollama" /\ 3 \in DOMAIN QualityOrder
        /\ QualityOrder[4] = "stub" /\ 4 \in DOMAIN QualityOrder
    BY DEF QualityOrder
  <2> QED BY <2>1
<1>2. ranked' = ranked
  BY DEF QualityOrder
<1>3. ASSUME NEW c \in Callers, call'[c].provider \notin ranked
      PROVE  Named(call[c].task)' = call'[c].provider
  <2>1. settings' = settings /\ settings \in UsedSettings
    BY SettingsStay DEF ModelTypeOK
  <2>2. CASE call'[c].provider = call[c].provider /\ call'[c].task = call[c].task
    <3>1. Named(call[c].task) = call[c].provider
      BY <1>3, <2>2 DEF OnlyByName
    <3> QED BY <2>1, <2>2, <3>1 DEF Named
  <2>3. CASE \E task \in ModelTasks : call'[c].task = task /\ call'[c].provider = ForTask(task)
    <3>1. PICK task \in ModelTasks : call'[c].task = task /\ call'[c].provider = ForTask(task)
      BY <2>3
    <3>2. ForTask(task) = Named(task)
      BY <1>3, <2>1, <3>1, ForTaskKnown
    <3> QED BY <2>1, <3>1, <3>2 DEF Named
  <2> QED BY <1>1, <1>3, <2>2, <2>3, WhoIsAsked
<1> QED BY <1>2, <1>3 DEF OnlyByName

\* What the trail counts as leaving the machine, what ollama serves from its
\* own servers included, is on the trail first, within the day's allowance
\* however many programs ask at once, and goes to no provider the owner did not
\* choose.
THEOREM CallsAreAccounted == ModelSpec => []CallsAccounted
<1> DEFINE Inv == TrailInv /\ QuotaInv /\ OnlyByName
<1>1. ModelInit => Inv
  <2>1. QualityOrder[4] = "stub" /\ 4 \in DOMAIN QualityOrder
    BY DEF QualityOrder
  <2>2. ModelInit => OnlyByName
    BY <2>1 DEF ModelInit, OnlyByName, NoCall
  <2> QED BY <2>2, InitTrailInv, InitQuotaInv
<1>2. Inv /\ [ModelNext]_modelVars => Inv'
  BY StepKeepsTrailInv, StepKeepsQuota, StepKeepsNames DEF TrailInv
<1>3. Inv => QuotaHeld /\ OnlyByName
  BY QuotaIsHeld
<1>4. ModelSpec => []Inv
  <2> HIDE DEF Inv
  <2> QED BY <1>1, <1>2, PTL DEF ModelSpec
<1>5. UploadsRecorded /\ QuotaHeld /\ OnlyByName => CallsAccounted
  BY DEF CallsAccounted
<1> QED
  <2> HIDE DEF Inv
  <2> QED BY <1>3, <1>4, <1>5, UploadsAreRecorded, PTL

-----------------------------------------------------------------------------
(* Turns.                                                                  *)

\* A turn taken is noted for one provider of one process, and for both clocks.
LEMMA TurnIsNoted ==
  ASSUME ModelTypeOK, NEW c \in Callers, HasTurn(c), call[c].provider \in Remote,
         NEW w \in Processes, NEW p \in Remote
  PROVE  \/ /\ w = settings.process[c] /\ p = call[c].provider
            /\ lastCall'[w][p] = time /\ hadTurn'[w][p] = time
         \/ /\ ~(w = settings.process[c] /\ p = call[c].provider)
            /\ lastCall'[w][p] = lastCall[w][p] /\ hadTurn'[w][p] = hadTurn[w][p]
<1>1. settings.process[c] \in Processes
  BY ModelCallsAssumption DEF ModelTypeOK
<1> QED BY <1>1 DEF ModelTypeOK, HasTurn

\* Whoever is pacing after a step paced before it, or is the one that begins to.
LEMMA WhoPaces ==
  ASSUME ModelTypeOK, CallsKnown, [ModelNext]_modelVars, NEW c \in Callers,
         call'[c].phase = "pacing"
  PROVE  call'[c] = call[c] \/ (TakeTurn(c) /\ ~HasTurn(c))
BY WhatBecomes, BareCalls, AskingCalls DEF OnTrail

\* The clocks of turns change only where a turn is had, a sleep outside the lock
\* ends, or a process dies.
LEMMA WhatClocksSay ==
  ASSUME ModelTypeOK, CallsKnown, TurnsInv, [ModelNext]_modelVars,
         NEW w \in Processes, NEW p \in Remote
  PROVE  /\ hadTurn'[w][p] <= lastCall'[w][p] /\ lastCall'[w][p] <= time'
         /\ \/ hadTurn'[w][p] = hadTurn[w][p]
            \/ \E e \in Callers :
                 /\ settings.process[e] = w /\ call[e].provider = p
                 /\ \/ TakeTurn(e)
                    \/ At(e, "pacing") /\ call'[e].phase # "pacing"
            \/ LoseProcess(w)
<1>1. /\ hadTurn[w][p] <= lastCall[w][p] /\ lastCall[w][p] <= time
      /\ time \in Nat /\ lastCall[w][p] \in Int /\ hadTurn[w][p] \in Int
  BY Limits DEF TurnsInv, ModelTypeOK, Never
<1>2. ASSUME UNCHANGED <<lastCall, hadTurn>>, time' \in {time, time + 1}
      PROVE  /\ hadTurn'[w][p] <= lastCall'[w][p] /\ lastCall'[w][p] <= time'
             /\ hadTurn'[w][p] = hadTurn[w][p]
  BY <1>1, <1>2
<1>3. ASSUME NEW c \in Callers, TakeTurn(c)
      PROVE  /\ hadTurn'[w][p] <= lastCall'[w][p] /\ lastCall'[w][p] <= time'
             /\ \/ hadTurn'[w][p] = hadTurn[w][p]
                \/ settings.process[c] = w /\ call[c].provider = p /\ TakeTurn(c)
  <2>1. CASE HasTurn(c)
    <3>1. call[c].provider \in Remote
      BY <1>3 DEF TakeTurn, At, CallsKnown
    <3> QED BY <1>1, <1>3, <2>1, <3>1, TurnIsNoted DEF TakeTurn
  <2>2. CASE ~HasTurn(c)
    BY <1>1, <1>3, <2>2 DEF TakeTurn
  <2> QED BY <2>1, <2>2
<1>4. ASSUME NEW c \in Callers, WakeForTurn(c)
      PROVE  /\ hadTurn'[w][p] <= lastCall'[w][p] /\ lastCall'[w][p] <= time'
             /\ \/ hadTurn'[w][p] = hadTurn[w][p]
                \/ /\ settings.process[c] = w /\ call[c].provider = p
                   /\ At(c, "pacing") /\ call'[c].phase # "pacing"
  <2>1. call[c].provider \in Remote
    BY <1>4 DEF WakeForTurn, At, CallsKnown
  <2>2. call'[c].phase = "sending"
    BY <1>4 DEF WakeForTurn, HasTurn, Moves, ModelTypeOK, Calls
  <2> QED BY <1>1, <1>4, <2>1, <2>2, TurnIsNoted DEF WakeForTurn
<1>5. ASSUME NEW c \in Callers, BackOff(c)
      PROVE  /\ hadTurn'[w][p] <= lastCall'[w][p] /\ lastCall'[w][p] <= time'
             /\ hadTurn'[w][p] = hadTurn[w][p]
  <2>1. lastCall'[w][p] \in {time, lastCall[w][p]}
    BY <1>5 DEF BackOff, ModelTypeOK
  <2> QED BY <1>1, <1>5, <2>1 DEF BackOff
<1>6. ASSUME NEW v \in Processes, LoseProcess(v)
      PROVE  /\ hadTurn'[w][p] <= lastCall'[w][p] /\ lastCall'[w][p] <= time'
             /\ hadTurn'[w][p] = hadTurn[w][p] \/ LoseProcess(w)
  <2>1. \/ v = w /\ lastCall'[w][p] = Never /\ hadTurn'[w][p] = Never
        \/ v # w /\ lastCall'[w][p] = lastCall[w][p] /\ hadTurn'[w][p] = hadTurn[w][p]
    BY <1>6 DEF LoseProcess, ModelTypeOK
  <2>2. time' = time /\ Never <= time /\ Never <= Never
    BY <1>1, <1>6, Limits DEF LoseProcess, Never
  <2> QED BY <1>1, <1>6, <2>1, <2>2
<1>7. ASSUME \/ ModelTick \/ UNCHANGED modelVars
             \/ \E c \in Callers :
                  \/ \E task \in ModelTasks : Ask(c, task)
                  \/ Mask(c) \/ Persist(c) \/ RequestOnce(c) \/ RequestPaced(c) \/ AnswerHere(c)
      PROVE  UNCHANGED <<lastCall, hadTurn>> /\ time' \in {time, time + 1}
  BY <1>7 DEF ModelTick, modelVars, Ask, Mask, Persist, RequestOnce, RequestPaced, AnswerHere
<1> QED BY <1>2, <1>3, <1>4, <1>5, <1>6, <1>7 DEF ModelNext, CallStep

LEMMA StepKeepsTurns ==
  ASSUME ModelTypeOK, CallsKnown, TurnsInv, [ModelNext]_modelVars
  PROVE  TurnsInv'
<1> DEFINE Slot(c) == hadTurn[settings.process[c]][call[c].provider]
           Alike(c, d) == /\ call[c].provider = call[d].provider
                          /\ settings.process[c] = settings.process[d]
<1>1. settings' = settings /\ settings.process \in [Callers -> Processes]
  BY SettingsStay, ModelCallsAssumption DEF ModelTypeOK
<1>2. ASSUME NEW c \in Callers, At(c, "pacing")
      PROVE  /\ Slot(c) + Interval <= call[c].wake /\ call[c].provider \in Remote
             /\ settings.process[c] \in Processes
  BY <1>1, <1>2 DEF TurnsInv, CallsKnown, At
\* Who begins to pace finds nobody pacing.
<1>3. ASSUME NEW c \in Callers, TakeTurn(c), ~HasTurn(c)
      PROVE  /\ call'[c].wake = lastCall[settings.process[c]][call[c].provider] + Interval
             /\ call'[c].provider = call[c].provider /\ call[c].provider \in Remote
             /\ UNCHANGED <<lastCall, hadTurn>>
             /\ \A d \in Callers \ {c} :
                  call'[d] = call[d] /\ ~(Alike(d, c) /\ At(d, "pacing"))
  <2>1. /\ call' = [call EXCEPT ![c] = [@ EXCEPT !.phase = "pacing",
                      !.wake = lastCall[settings.process[c]][call[c].provider] + Interval]]
        /\ UNCHANGED <<lastCall, hadTurn>>
    BY <1>3 DEF TakeTurn
  <2>2. call \in [Callers -> Calls] /\ call[c] \in Calls
    BY DEF ModelTypeOK
  <2>3. call[c].provider \in Remote
    BY <1>3 DEF TakeTurn, At, CallsKnown
  <2>4. /\ call'[c].wake = lastCall[settings.process[c]][call[c].provider] + Interval
        /\ call'[c].provider = call[c].provider
    BY <2>1, <2>2 DEF Calls
  <2>5. ASSUME NEW d \in Callers \ {c}
        PROVE  call'[d] = call[d] /\ ~(Alike(d, c) /\ At(d, "pacing"))
    BY <1>3, <2>1, <2>2 DEF TakeTurn, TurnTaken
  <2> QED BY <2>1, <2>3, <2>4, <2>5
<1>4. ASSUME NEW c \in Callers, call'[c].phase = "pacing"
      PROVE  \/ call'[c] = call[c] /\ At(c, "pacing")
             \/ TakeTurn(c) /\ ~HasTurn(c) /\ ~At(c, "pacing")
  <2>1. TakeTurn(c) => ~At(c, "pacing")
    BY DEF TakeTurn, At
  <2> QED BY <1>4, <2>1, WhoPaces DEF At
<1>5. ASSUME NEW c \in Callers, call'[c].phase = "pacing"
      PROVE  Slot(c)' + Interval <= call'[c].wake
  <2>1. CASE TakeTurn(c) /\ ~HasTurn(c)
    <3>1. /\ hadTurn[settings.process[c]][call[c].provider]
               <= lastCall[settings.process[c]][call[c].provider]
          /\ settings.process[c] \in Processes /\ call[c].provider \in Remote
      BY <1>1, <1>3, <2>1 DEF TurnsInv
    <3>2. /\ hadTurn[settings.process[c]][call[c].provider] \in Int
          /\ lastCall[settings.process[c]][call[c].provider] \in Int
      BY <3>1, Limits DEF ModelTypeOK, Never
    <3> QED BY <1>1, <1>3, <2>1, <3>1, <3>2, Limits
  <2>2. CASE call'[c] = call[c] /\ At(c, "pacing")
    <3> DEFINE w == settings.process[c]
               p == call[c].provider
    <3>1. w \in Processes /\ p \in Remote /\ Slot(c) + Interval <= call[c].wake
      BY <1>2, <2>2
    <3>2. hadTurn'[w][p] = hadTurn[w][p]
      <4>1. ASSUME NEW e \in Callers, settings.process[e] = w, call[e].provider = p,
                   TakeTurn(e)
            PROVE  FALSE
        <5>1. e # c
          BY <2>2, <4>1 DEF TakeTurn, At
        <5> QED BY <2>2, <4>1, <5>1 DEF TakeTurn, TurnTaken
      <4>2. ASSUME NEW e \in Callers, settings.process[e] = w, call[e].provider = p,
                   At(e, "pacing"), call'[e].phase # "pacing"
            PROVE  FALSE
        BY <1>5, <2>2, <4>2 DEF TurnsInv
      <4>3. ASSUME LoseProcess(w) PROVE FALSE
        BY <1>5, <4>3 DEF LoseProcess, NoCall
      <4> QED BY <3>1, <4>1, <4>2, <4>3, WhatClocksSay
    <3> QED BY <1>1, <2>2, <3>1, <3>2
  <2> QED BY <1>4, <1>5, <2>1, <2>2
<1>6. ASSUME NEW c \in Callers, NEW d \in Callers, call'[c].phase = "pacing",
             call'[d].phase = "pacing", call'[c].provider = call'[d].provider,
             settings.process[c] = settings.process[d]
      PROVE  c = d
  <2>1. CASE TakeTurn(c) /\ ~HasTurn(c) /\ ~At(c, "pacing")
    BY <1>3, <1>4, <1>6, <2>1 DEF At
  <2>2. CASE TakeTurn(d) /\ ~HasTurn(d) /\ ~At(d, "pacing")
    BY <1>3, <1>4, <1>6, <2>2 DEF At
  <2>3. CASE call'[c] = call[c] /\ At(c, "pacing") /\ call'[d] = call[d] /\ At(d, "pacing")
    BY <1>6, <2>3 DEF TurnsInv
  <2> QED BY <1>4, <1>6, <2>1, <2>2, <2>3
<1>7. \A w \in Processes : \A p \in Remote :
        hadTurn'[w][p] <= lastCall'[w][p] /\ lastCall'[w][p] <= time'
  BY WhatClocksSay
<1> QED BY <1>1, <1>5, <1>6, <1>7 DEF TurnsInv, At

\* Two paced requests of one process to one provider have their turns no closer
\* than the interval: also when a refusal let others pass in between.
THEOREM IntervalIsKept == ModelSpec => KeepsInterval
<1> DEFINE OnTime(c) ==
      At(c, "waiting") \/ At(c, "pacing") =>
        (call'[c].phase = "sending" =>
           time >= hadTurn[settings.process[c]][call[c].provider] + Interval)
<1>1. ModelInit => TurnsInv
  <2>1. ASSUME ModelInit, NEW w \in Processes, NEW p \in Remote
        PROVE  hadTurn[w][p] = Never /\ lastCall[w][p] = Never /\ time = 0
    BY <2>1 DEF ModelInit
  <2>2. Never <= 0 /\ Never <= Never
    BY Limits DEF Never
  <2>3. ModelInit => \A c \in Callers : ~At(c, "pacing")
    BY DEF ModelInit, At, NoCall
  <2> QED BY <2>1, <2>2, <2>3 DEF TurnsInv
<1>2. TrailInv /\ TurnsInv /\ [ModelNext]_modelVars => TrailInv' /\ TurnsInv'
  BY StepKeepsTrailInv, StepKeepsTurns DEF TrailInv
<1>3. ASSUME TrailInv, TurnsInv, ModelNext, NEW c \in Callers PROVE OnTime(c)
  <2> SUFFICES ASSUME At(c, "waiting") \/ At(c, "pacing"), call'[c].phase = "sending"
               PROVE  time >= hadTurn[settings.process[c]][call[c].provider] + Interval
    OBVIOUS
  <2> DEFINE due == lastCall[settings.process[c]][call[c].provider] + Interval
  <2>1. ModelTypeOK /\ CallsKnown
    BY <1>3 DEF TrailInv
  <2>2. settings.process[c] \in Processes /\ call[c].provider \in Remote
    BY <2>1, ModelCallsAssumption DEF ModelTypeOK, At, CallsKnown
  <2>3. /\ hadTurn[settings.process[c]][call[c].provider] \in Int
        /\ lastCall[settings.process[c]][call[c].provider] \in Int /\ time \in Nat
        /\ call[c].wake \in Nat
    BY <2>1, <2>2, Limits DEF ModelTypeOK, Never, Calls
  <2>4. ASSUME TakeTurn(c) PROVE due <= time
    <3>1. ~(due <= time) => call' = [call EXCEPT ![c] = [@ EXCEPT !.phase = "pacing", !.wake = due]]
      BY <2>4 DEF TakeTurn
    <3>2. call \in [Callers -> Calls] /\ call[c] \in Calls
      BY <2>1 DEF ModelTypeOK
    <3>3. [call[c] EXCEPT !.phase = "pacing", !.wake = due].phase = "pacing"
      BY <3>2 DEF Calls
    <3> QED BY <3>1, <3>2, <3>3
  <2>5. TakeTurn(c) \/ WakeForTurn(c)
    <3>1. call'[c] # call[c]
      BY DEF At
    <3>2. ASSUME NEW e \in Callers, e # c, CallStep(e) PROVE call'[c] = call[c]
      BY <2>1, <3>2 DEF CallStep, Ask, Mask, Persist, TakeTurn, WakeForTurn, RequestOnce,
        RequestPaced, BackOff, AnswerHere, HasTurn, Moves, IsOver, AsksHere, Asks, GivesUp,
        Ended, ModelTypeOK
    <3>3. ASSUME NEW w \in Processes, LoseProcess(w) PROVE FALSE
      BY <3>1, <3>3 DEF LoseProcess, NoCall
    <3>4. CallStep(c)
      BY <1>3, <3>1, <3>2, <3>3 DEF ModelNext, ModelTick
    <3>5. ~BackOff(c) /\ ~AnswerHere(c) /\ ~RequestOnce(c) /\ ~RequestPaced(c) /\ ~Persist(c)
          /\ ~Mask(c) /\ \A task \in ModelTasks : ~Ask(c, task)
      BY DEF At, BackOff, AnswerHere, RequestOnce, RequestPaced, Persist, Mask, Ask
    <3> QED BY <3>4, <3>5 DEF CallStep
  <2>6. CASE TakeTurn(c)
    BY <1>3, <2>2, <2>3, <2>4, <2>6, Limits DEF TurnsInv
  <2>7. CASE WakeForTurn(c)
    BY <1>3, <2>2, <2>3, <2>7, Limits DEF TurnsInv, WakeForTurn
  <2> QED BY <2>5, <2>6, <2>7
<1>4. TrailInv /\ TurnsInv /\ [ModelNext]_modelVars =>
        [\A c \in Callers :
           At(c, "waiting") \/ At(c, "pacing") =>
             (call'[c].phase = "sending" =>
                time >= hadTurn[settings.process[c]][call[c].provider] + Interval)]_modelVars
  BY <1>3
<1> QED BY <1>1, <1>2, <1>4, InitTrailInv, PTL DEF ModelSpec, KeepsInterval

-----------------------------------------------------------------------------
(* The documents of an application.                                        *)

TailoredTypes ==
  /\ application \in ApplicationRows /\ locked \in BOOLEAN /\ overwrote \in BOOLEAN
  /\ letterFile \in 0..MaxLetters /\ letters \in 0..MaxLetters
  /\ prepared \in 0..MaxResumes /\ batch \in 0..MaxResumes /\ now \in Reading
  /\ attempt \in InHand /\ errand \in Errands

\* Documents are numbered as they are stored; only one that holds and is whole
\* has a key; and a file's name is its document's.
StoreHolds ==
  /\ \E n \in 0..MaxResumes : Stored = 1..n
  /\ resumes = [d \in Stored |-> resumes[d]] /\ files = [f \in DOMAIN files |-> files[f]]
  /\ \A d \in Stored : /\ resumes[d] \in ResumeRows /\ resumes[d].ref <= d
                       /\ resumes[d].ref \in DOMAIN files
                       /\ resumes[d].key # Unkeyed => resumes[d].whole /\ resumes[d].holds
  /\ \A f \in DOMAIN files : files[f] \in Stored /\ resumes[files[f]].ref = f

\* One whose PDF holds what it says, or the base.
Fit(d) == d = Base \/ (d \in Stored /\ resumes[d].holds)

\* Wherever a document waits to be sent, prepared or chosen, it is one that holds.
DocumentsFit ==
  /\ Fit(application.attached) /\ Fit(attempt.attached) /\ Fit(attempt.row.attached)
  /\ Fit(prepared) /\ Fit(batch)
  /\ \A d \in application.review.offered : Fit(d)
  /\ \A d \in attempt.row.review.offered : Fit(d)
  /\ \A d \in errand.review.offered : Fit(d)

\* The document in the form is the attached one's, or another's of its name.
BytesTell ==
  attempt.phase = "deciding" =>
    IF attempt.attached = Base THEN attempt.bytes = Base
    ELSE attempt.bytes \in Stored /\ resumes[attempt.bytes].ref = resumes[attempt.attached].ref

\* While no record was lost, a choice is what is attached.
PinsHold ==
  ~overwrote =>
    /\ application.review.pin # 0 => application.attached = application.review.pin
    /\ reviewed.pin # 0 => application.review.pin # 0
    /\ attempt.row.review.pin # 0 =>
         /\ attempt.row.attached = attempt.row.review.pin
         /\ attempt.phase # "writing"
         /\ attempt.phase \in {"filling", "deciding"} => attempt.attached = attempt.row.review.pin

\* A letter is the last one written, and while no record was lost the one whose
\* bytes are there: a running attempt and the row it will write know the same.
LettersHold ==
  /\ application.review.letter <= letters /\ attempt.row.review.letter <= letters
  /\ errand.review.letter <= letters /\ attempt.letter <= letters
  /\ attempt.phase = "deciding" /\ attempt.row.review.letter # 0
       => attempt.letter = attempt.row.review.letter
  /\ ~overwrote =>
       /\ application.review.letter # 0 => letterFile = application.review.letter
       /\ reviewed.letter # 0 => application.review.letter = reviewed.letter
       /\ attempt.phase # "idle" => attempt.row.review.letter = application.review.letter
       /\ attempt.phase = "deciding" /\ attempt.letter # 0
            => attempt.letterBytes = attempt.letter /\ letterFile = attempt.letter

TailoredInv ==
  TailoredTypes /\ StoreHolds /\ DocumentsFit /\ BytesTell /\ PinsHold /\ LettersHold /\ DocumentsHold

\* Of the sets of those of its elements that are no less than one of them, a
\* finite set of numbers has a smallest: its one element is the greatest.
LEMMA GreatestIsThere ==
  ASSUME NEW S \in SUBSET Nat, IsFiniteSet(S), S # {}
  PROVE  Max(S) \in S /\ \A y \in S : Max(S) >= y
<1> DEFINE Above(x) == {y \in S : y >= x}
           T == {Above(x) : x \in S}
<1>1. IsWellFoundedOn(StrictSubsetOrdering(S), FiniteSubsetsOf(S))
  BY FS_StrictSubsetOrderingWellFounded
<1>2. T \subseteq FiniteSubsetsOf(S) /\ T # {}
  <2>1. ASSUME NEW x \in S PROVE Above(x) \in FiniteSubsetsOf(S)
    <3>1. Above(x) \subseteq S
      OBVIOUS
    <3>2. IsFiniteSet(Above(x))
      BY <3>1, FS_Subset
    <3> QED BY <3>1, <3>2 DEF FiniteSubsetsOf
  <2> HIDE DEF Above
  <2> QED BY <2>1
<1>3. PICK U \in T : \A V \in T : ~(<<V, U>> \in StrictSubsetOrdering(S))
  <2> HIDE DEF T
  <2> QED BY <1>1, <1>2, WFMin
<1>4. PICK x \in S : U = Above(x)
  BY <1>3
<1>5. \A y \in S : x >= y
  <2> SUFFICES ASSUME NEW y \in S, ~(x >= y) PROVE FALSE
    OBVIOUS
  <2>1. x \in Nat /\ y \in Nat
    OBVIOUS
  <2>2. \A z \in S : z \in Nat /\ (z >= y => z >= x)
    BY <2>1
  <2>5. Above(y) \subseteq U /\ Above(y) \subseteq S /\ U \subseteq S
    BY <1>4, <2>2
  <2>6. x \in U /\ x \notin Above(y)
    BY <1>4, <2>1
  <2>3. <<Above(y), U>> \in StrictSubsetOrdering(S)
    BY <2>5, <2>6 DEF StrictSubsetOrdering
  <2>4. Above(y) \in T
    OBVIOUS
  <2> QED BY <1>3, <2>3, <2>4
<1> QED BY <1>5 DEF Max

\* Stored is still what was stored, as far as anyone asks.
Stays ==
  /\ Stored \subseteq Stored'
  /\ \A d \in Stored : /\ resumes'[d].key = resumes[d].key /\ resumes'[d].ref = resumes[d].ref
                       /\ resumes'[d].holds = resumes[d].holds

LEMMA FitStays ==
  ASSUME Stays, NEW d, Fit(d)
  PROVE  Fit(d)'
BY DEF Stays, Fit

LEMMA NextVersionIs ==
  ASSUME StoreHolds, NEW who, NEW n \in 0..MaxResumes, Stored = 1..n, TailoredAssumption
  PROVE  NextVersion(who) \in 1..(n + 1)
<1> DEFINE refs == {0} \cup {resumes[d].ref : d \in SeenBy(who)}
<1>1. \A d \in SeenBy(who) : resumes[d].ref \in 1..n
  BY DEF StoreHolds, SeenBy, ResumeRows, Documents
<1>2. refs \subseteq 0..n
  BY <1>1
<1>3. refs \in SUBSET Nat /\ IsFiniteSet(refs) /\ refs # {}
  <2>1. MaxResumes \in Nat
    BY TailoredAssumption
  <2>2. n \in Nat /\ 0 \in Int /\ n \in Int
    BY <2>1
  <2>3. IsFiniteSet(0..n) /\ 0..n \subseteq Nat
    BY <2>2, FS_Interval
  <2>4. IsFiniteSet(refs)
    BY <1>2, <2>3, FS_Subset
  <2> HIDE DEF refs
  <2>5. 0 \in refs
    BY DEF refs
  <2> QED BY <1>2, <2>3, <2>4, <2>5
<1>4. Max(refs) \in refs
  <2> HIDE DEF refs
  <2> QED BY <1>3, GreatestIsThere
<1>5. Max(refs) \in 0..n
  BY <1>2, <1>4
<1>6. NextVersion(who) = Max(refs) + 1
  BY DEF NextVersion
<1> HIDE DEF refs
<1> QED BY <1>5, <1>6

\* Storing a document leaves the others and gives it a number of its own.
LEMMA StoringKeeps ==
  ASSUME StoreHolds, NEW who, NEW key, NEW whole, NEW holds, NEW mode, NEW e,
         StoredBy(who, e, key, whole, holds, mode),
         who \in {"attempt", "batch", "database"}, key \in Reading \cup {Unkeyed},
         whole \in BOOLEAN, holds \in BOOLEAN, mode \in UsedModes,
         key # Unkeyed => whole /\ holds
  PROVE  /\ StoreHolds' /\ Stays /\ e \in Documents /\ Stored' = Stored \cup {e}
         /\ resumes'[e].holds = holds
<1>1. PICK n \in 0..MaxResumes : Stored = 1..n
  BY DEF StoreHolds
<1>2. e = n + 1 /\ e <= MaxResumes /\ MaxResumes \in Nat /\ n \in Nat /\ n < MaxResumes
  <2>1. MaxResumes \in Nat
    BY TailoredAssumption
  <2>2. n \in Nat /\ 1 \in Int /\ n \in Int
    BY <2>1
  <2>3. Cardinality(1..n) = n
    BY <2>2, FS_Interval
  <2>4. e = Cardinality(Stored) + 1 /\ e <= MaxResumes
    BY DEF StoredBy
  <2> QED BY <1>1, <2>1, <2>2, <2>3, <2>4
<1>3. PICK ref : ref = NextVersion(who)
  OBVIOUS
<1>4. ref \in 1..(n + 1)
  BY <1>1, <1>3, NextVersionIs, TailoredAssumption
<1> DEFINE new == [key |-> key, mode |-> mode, whole |-> whole, holds |-> holds, ref |-> ref, at |-> who]
<1>5. new \in ResumeRows
  BY <1>2, <1>4 DEF ResumeRows, Documents
<1>6. new.key = key /\ new.whole = whole /\ new.holds = holds /\ new.ref = ref
  OBVIOUS
<1>7. /\ resumes' = [d \in Stored \cup {e} |-> IF d = e THEN new ELSE resumes[d]]
      /\ files' = [f \in DOMAIN files \cup {ref} |-> IF f = ref THEN e ELSE files[f]]
  BY <1>3 DEF StoredBy
<1> HIDE DEF new
<1>8. e \notin Stored /\ Stored' = Stored \cup {e} /\ Stored' = 1..(n + 1)
  BY <1>1, <1>2, <1>7 DEF Stored
<1>9. resumes'[e] = new /\ \A d \in Stored : resumes'[d] = resumes[d]
  BY <1>7, <1>8
<1>10. /\ DOMAIN files' = DOMAIN files \cup {ref} /\ files'[ref] = e
       /\ \A f \in DOMAIN files : f # ref => files'[f] = files[f]
  BY <1>7
<1>11. Stays
  BY <1>8, <1>9 DEF Stays
<1>12. resumes' = [d \in Stored' |-> resumes'[d]] /\ files' = [f \in DOMAIN files' |-> files'[f]]
  BY <1>7, <1>8, <1>10
<1>13. ASSUME NEW d \in Stored'
       PROVE  /\ resumes'[d] \in ResumeRows /\ resumes'[d].ref <= d /\ resumes'[d].ref \in DOMAIN files'
              /\ resumes'[d].key # Unkeyed => resumes'[d].whole /\ resumes'[d].holds
  <2>1. CASE d = e
    BY <1>2, <1>4, <1>5, <1>6, <1>9, <1>10, <2>1
  <2>2. CASE d \in Stored
    BY <1>9, <1>10, <2>2 DEF StoreHolds
  <2> QED BY <1>8, <2>1, <2>2
<1>14. ASSUME NEW f \in DOMAIN files' PROVE files'[f] \in Stored' /\ resumes'[files'[f]].ref = f
  <2>1. CASE f = ref
    BY <1>6, <1>8, <1>9, <1>10, <2>1
  <2>2. CASE f # ref
    <3>1. f \in DOMAIN files /\ files'[f] = files[f]
      BY <1>10, <2>2
    <3>2. files[f] \in Stored /\ resumes[files[f]].ref = f
      BY <3>1 DEF StoreHolds
    <3> QED BY <1>8, <1>9, <3>1, <3>2
  <2> QED BY <2>1, <2>2
<1>15. StoreHolds'
  <2>1. n + 1 \in 0..MaxResumes
    BY <1>2
  <2> QED BY <1>8, <1>12, <1>13, <1>14, <2>1 DEF StoreHolds
<1> QED BY <1>2, <1>6, <1>8, <1>9, <1>11, <1>15 DEF Documents

\* Nor does the end of a transaction, whichever way it ends.
LEMMA EndingKeeps ==
  ASSUME StoreHolds, NEW who \in {"attempt", "batch"}, UNCHANGED files,
         resumes' = Committed(who) \/ resumes' = RolledBackOf(who)
  PROVE  StoreHolds' /\ Stays /\ Stored' = Stored
<1>1. PICK z \in {"database", "gone"} :
        resumes' = [d \in Stored |-> IF resumes[d].at = who THEN [resumes[d] EXCEPT !.at = z] ELSE resumes[d]]
  BY DEF Committed, RolledBackOf
<1>2. Stored' = Stored
  BY <1>1 DEF Stored
<1>3. ASSUME NEW d \in Stored
      PROVE  /\ resumes'[d] \in ResumeRows /\ resumes'[d].key = resumes[d].key
             /\ resumes'[d].whole = resumes[d].whole /\ resumes'[d].holds = resumes[d].holds
             /\ resumes'[d].ref = resumes[d].ref
  <2>1. PICK old \in ResumeRows : old = resumes[d]
    BY DEF StoreHolds
  <2>2. /\ [old EXCEPT !.at = z] \in ResumeRows /\ [old EXCEPT !.at = z].key = old.key
        /\ [old EXCEPT !.at = z].whole = old.whole /\ [old EXCEPT !.at = z].holds = old.holds
        /\ [old EXCEPT !.at = z].ref = old.ref
    BY <1>1, <2>1 DEF ResumeRows
  <2>3. resumes'[d] = old \/ resumes'[d] = [old EXCEPT !.at = z]
    BY <1>1, <2>1
  <2> QED BY <2>1, <2>2, <2>3
<1>4. resumes' = [d \in Stored' |-> resumes'[d]]
  BY <1>1, <1>2
<1>5. StoreHolds'
  BY <1>2, <1>3, <1>4 DEF StoreHolds
<1> QED BY <1>2, <1>3, <1>5 DEF Stays

LEMMA TailoredFields ==
  ASSUME TailoredTypes
  PROVE  /\ attempt.row \in ApplicationRows /\ attempt.read \in Reading
         /\ attempt.attached \in 0..MaxResumes /\ attempt.letter \in 0..MaxLetters
         /\ attempt.bytes \in 0..MaxResumes /\ attempt.letterBytes \in 0..MaxLetters
         /\ \A row \in {application, attempt.row} : /\ row.review \in Reviews /\ row.attached \in 0..MaxResumes
         /\ errand.review \in Reviews /\ application.review \in Reviews /\ attempt.row.review \in Reviews
         /\ \A review \in Reviews : /\ review.pin \in 0..MaxResumes /\ review.offered \subseteq Documents
                                    /\ review.letter \in 0..MaxLetters /\ review.approved \in BOOLEAN
BY DEF TailoredTypes, InHand, ApplicationRows, Errands, Reviews

\* The attempt that begins has what the row has.
LEMMA BeginKeepsDocuments ==
  ASSUME TailoredInv, BeginAttempt, TailoredAssumption
  PROVE  TailoredInv'
<1> DEFINE hand == [phase |-> "tailoring", row |-> application, read |-> now,
                    attached |-> application.attached, letter |-> 0, bytes |-> 0, letterBytes |-> 0]
<1>1. /\ attempt' = hand /\ locked' \in BOOLEAN
      /\ UNCHANGED <<application, resumes, files, letterFile, prepared, now, errand, batch, letters,
                     reviewed, sent, overwrote>>
  BY DEF BeginAttempt
<1>2. /\ TailoredTypes /\ StoreHolds /\ DocumentsFit /\ PinsHold /\ LettersHold /\ DocumentsHold
  BY DEF TailoredInv
<1>3. hand \in InHand
  <2>1. /\ application \in ApplicationRows /\ now \in Reading /\ application.attached \in 0..MaxResumes
        /\ 0 \in 0..MaxLetters /\ 0 \in 0..MaxResumes
    BY <1>2, TailoredFields, TailoredAssumption DEF TailoredTypes
  <2> QED BY <2>1 DEF InHand
<1>4. /\ attempt'.phase = "tailoring" /\ attempt'.row = application /\ attempt'.letter = 0
      /\ attempt'.attached = application.attached
  BY <1>1
<1>5. application.review.letter \in 0..MaxLetters /\ letters \in 0..MaxLetters
  BY <1>2, TailoredFields DEF TailoredTypes
<1> HIDE DEF hand
<1>6. TailoredTypes' /\ StoreHolds'
  BY <1>1, <1>2, <1>3 DEF TailoredTypes, StoreHolds, Stored
<1>7. DocumentsFit'
  BY <1>1, <1>2, <1>4 DEF DocumentsFit, Fit, Stored
<1>8. PinsHold' /\ BytesTell'
  BY <1>1, <1>2, <1>4 DEF PinsHold, BytesTell
<1>9. LettersHold'
  BY <1>1, <1>2, <1>4, <1>5 DEF LettersHold
<1>10. DocumentsHold'
  BY <1>1, <1>2 DEF DocumentsHold, NoneRefusedSent, ChoiceIsSent, LetterIsSent, WasSent, Unshared, Stored
<1> QED BY <1>6, <1>7, <1>8, <1>9, <1>10 DEF TailoredInv

\* An attempt that goes on with one that holds, which is the owner's choice
\* where there is one.
LEMMA AttachingKeeps ==
  ASSUME TailoredInv, StoreHolds', Stays, ~WasSent, ~Phase("idle"),
         NEW d \in 0..MaxResumes, Fit(d)', Attaches(d),
         ~overwrote /\ attempt.row.review.pin # 0 => d = attempt.row.review.pin,
         UNCHANGED <<application, letterFile, prepared, now, errand, batch, letters, reviewed, sent, overwrote>>
  PROVE  TailoredInv'
<1>1. /\ TailoredTypes /\ StoreHolds /\ DocumentsFit /\ PinsHold /\ LettersHold /\ DocumentsHold
  BY DEF TailoredInv
<1>2. PICK hand \in InHand : hand = attempt
  BY <1>1 DEF TailoredTypes
<1>3. attempt' = [hand EXCEPT !.phase = "filling", !.attached = d]
  BY <1>2 DEF Attaches
<1>4. [hand EXCEPT !.phase = "filling", !.attached = d] \in InHand
  BY <1>2 DEF InHand
<1>5. /\ attempt'.phase = "filling" /\ attempt'.attached = d /\ attempt'.row = attempt.row
      /\ attempt'.letter = attempt.letter
  BY <1>2, <1>3 DEF InHand
<1>6. TailoredTypes'
  <2>1. locked' \in BOOLEAN
    BY <1>1 DEF Attaches, TailoredTypes
  <2> QED BY <1>1, <1>3, <1>4, <2>1 DEF TailoredTypes
<1>7. DocumentsFit'
  BY <1>1, <1>5 DEF DocumentsFit, Fit, Stays
<1>8. PinsHold' /\ BytesTell'
  BY <1>1, <1>5 DEF PinsHold, BytesTell
<1>9. LettersHold'
  BY <1>1, <1>5 DEF LettersHold, Phase
<1>10. DocumentsHold'
  BY <1>1 DEF StoreHolds, DocumentsHold, NoneRefusedSent, ChoiceIsSent, LetterIsSent, WasSent
<1> QED BY <1>6, <1>7, <1>8, <1>9, <1>10 DEF TailoredInv

LEMMA CachedHold ==
  ASSUME StoreHolds, TailoredAssumption, NEW who, NEW key \in Reading, NEW d \in Cached(who, key)
  PROVE  d \in Stored /\ d \in Documents /\ Fit(d)
<1> DEFINE found == {e \in SeenBy(who) : resumes[e].key = key}
<1>1. PICK n \in 0..MaxResumes : Stored = 1..n
  BY DEF StoreHolds
<1>2. MaxResumes \in Nat /\ n \in Nat /\ n \in Int /\ 1 \in Int
  BY TailoredAssumption
<1>3. found \subseteq 1..n
  BY <1>1 DEF SeenBy
<1>4. IsFiniteSet(1..n) /\ 1..n \subseteq Nat
  <2>1. IsFiniteSet(1..n)
    BY <1>2, FS_Interval
  <2> QED BY <2>1
<1>5. IsFiniteSet(found)
  BY <1>3, <1>4, FS_Subset
<1>6. found # {} /\ d = Max(found)
  <2>1. Cached(who, key) = IF found = {} THEN {} ELSE {Max(found)}
    BY DEF Cached
  <2> HIDE DEF found
  <2> QED BY <2>1
<1>7. d \in found
  <2> HIDE DEF found
  <2>1. found \in SUBSET Nat
    BY <1>3, <1>4
  <2> QED BY <1>5, <1>6, <2>1, GreatestIsThere
<1>8. key # Unkeyed
  <2>1. key.mode \in {"rewrite", "targeted"}
    BY TailoredAssumption DEF Reading
  <2> QED BY <2>1 DEF Unkeyed
<1>9. d \in Stored /\ resumes[d].key # Unkeyed
  BY <1>7, <1>8 DEF SeenBy
<1> HIDE DEF found
<1> QED BY <1>1, <1>2, <1>9 DEF StoreHolds, Fit, Documents

\* What a reading is keyed with, it is not Unkeyed that it is.
LEMMA KeysTell ==
  ASSUME NEW key \in Reading, NEW complete \in BOOLEAN, NEW holds \in BOOLEAN
  PROVE  /\ KeyOf(key, complete, holds) \in Reading \cup {Unkeyed}
         /\ KeyOf(key, complete, holds) # Unkeyed => complete /\ holds
BY DEF KeyOf

\* A choice the row points at is attached; there is no other way to have one.
LEMMA ReuseKeepsDocuments ==
  ASSUME TailoredInv, ReuseResume, ~WasSent, TailoredAssumption
  PROVE  TailoredInv'
<1>1. /\ Phase("tailoring")
      /\ UNCHANGED <<application, resumes, files, letterFile, prepared, now, errand, batch, letters,
                     incidents, reviewed, sent, overwrote>>
  BY DEF ReuseResume
<1>2. /\ TailoredTypes /\ StoreHolds /\ DocumentsFit /\ PinsHold /\ LettersHold /\ DocumentsHold
  BY DEF TailoredInv
<1>3. StoreHolds' /\ Stays
  BY <1>1, <1>2 DEF StoreHolds, Stays, Stored
<1>4. ~Phase("idle")
  BY <1>1 DEF Phase
<1>5. attempt.row \in ApplicationRows /\ attempt.read \in Reading /\ prepared \in 0..MaxResumes
      /\ attempt.row.attached \in 0..MaxResumes /\ MaxResumes \in Nat
  BY <1>2, TailoredFields, TailoredAssumption DEF TailoredTypes
<1>6. ~PinHolds(attempt.row) /\ ~overwrote => attempt.row.review.pin = 0
  BY <1>2 DEF PinsHold, PinHolds
<1>7. ASSUME NEW d \in 0..MaxResumes, Fit(d), Attaches(d),
             ~overwrote /\ attempt.row.review.pin # 0 => d = attempt.row.review.pin
      PROVE  TailoredInv'
  <2>1. Fit(d)'
    BY <1>3, <1>7, FitStays
  <2> QED BY <1>1, <1>3, <1>4, <1>7, <2>1, AttachingKeeps
<1>8. CASE PinHolds(attempt.row) /\ Attaches(attempt.row.attached)
  BY <1>2, <1>5, <1>7, <1>8 DEF DocumentsFit, PinHolds
<1>9. CASE ~PinHolds(attempt.row) /\ Attaches(prepared)
  BY <1>2, <1>5, <1>6, <1>7, <1>9 DEF DocumentsFit
<1>10. CASE ~PinHolds(attempt.row) /\ Attaches(Base)
  <2>1. Base \in 0..MaxResumes /\ Fit(Base)
    BY <1>5 DEF Base, Fit
  <2> QED BY <1>6, <1>7, <1>10, <2>1
<1>11. CASE ~PinHolds(attempt.row) /\ \E d \in Cached("attempt", attempt.read) : Attaches(d)
  <2>1. PICK d \in Cached("attempt", attempt.read) : Attaches(d)
    BY <1>11
  <2>2. d \in Documents /\ Fit(d)
    BY <1>2, <1>5, <2>1, CachedHold
  <2>3. d \in 0..MaxResumes
    BY <1>5, <2>2 DEF Documents
  <2> QED BY <1>6, <1>7, <1>11, <2>1, <2>2, <2>3
<1>12. CASE ~PinHolds(attempt.row) /\ attempt' = [attempt EXCEPT !.phase = "writing"] /\ UNCHANGED locked
  <2>1. PICK hand \in InHand : hand = attempt
    BY <1>2 DEF TailoredTypes
  <2>2. [hand EXCEPT !.phase = "writing"] \in InHand
    BY <2>1 DEF InHand
  <2>3. /\ attempt'.phase = "writing" /\ attempt'.attached = attempt.attached /\ attempt'.row = attempt.row
        /\ attempt'.letter = attempt.letter
    BY <1>12, <2>1 DEF InHand
  <2>4. TailoredTypes'
    BY <1>1, <1>2, <1>12, <2>1, <2>2 DEF TailoredTypes
  <2>5. DocumentsFit'
    BY <1>1, <1>2, <2>3 DEF DocumentsFit, Fit, Stored
  <2>6. PinsHold' /\ BytesTell'
    BY <1>1, <1>2, <1>6, <1>12, <2>3 DEF PinsHold, BytesTell
  <2>7. LettersHold'
    BY <1>1, <1>2, <1>4, <2>3 DEF LettersHold, Phase
  <2>8. DocumentsHold'
    BY <1>1, <1>2 DEF DocumentsHold, NoneRefusedSent, ChoiceIsSent, LetterIsSent, WasSent, Unshared, Stored
  <2> QED BY <1>3, <2>4, <2>5, <2>6, <2>7, <2>8 DEF TailoredInv
<1> QED BY <1>8, <1>9, <1>10, <1>11, <1>12 DEF ReuseResume

LEMMA TailoringKeepsDocuments ==
  ASSUME TailoredInv, TailorResume, ~WasSent, TailoredAssumption
  PROVE  TailoredInv'
<1>1. /\ TailoredTypes /\ StoreHolds /\ DocumentsFit /\ PinsHold
  BY DEF TailoredInv
<1> PICK read : read = attempt.read
  OBVIOUS
<1> PICK e : e = Cardinality(Stored) + 1
  OBVIOUS
<1>2. PICK complete \in BOOLEAN, holds \in BOOLEAN :
        /\ StoredBy("attempt", e, KeyOf(read, complete, holds), complete, holds, read.mode)
        /\ Attaches(IF holds THEN e ELSE Base)
  BY DEF TailorResume, StoredBy, Attaches
<1>3. read \in Reading /\ read.mode \in UsedModes /\ MaxResumes \in Nat
  BY <1>1, TailoredFields, TailoredAssumption DEF Reading
<1>4. PICK key : key = KeyOf(read, complete, holds)
  OBVIOUS
<1>5. key \in Reading \cup {Unkeyed} /\ (key # Unkeyed => complete /\ holds)
  BY <1>3, <1>4, KeysTell
<1> PICK mode : mode = read.mode
  OBVIOUS
<1>6. StoredBy("attempt", e, key, complete, holds, mode) /\ mode \in UsedModes
  BY <1>2, <1>3, <1>4
<1>7. /\ StoreHolds' /\ Stays /\ e \in Documents /\ Stored' = Stored \cup {e}
      /\ resumes'[e].holds = holds
  BY <1>1, <1>5, <1>6, StoringKeeps
<1>8. PICK d : d = IF holds THEN e ELSE Base
  OBVIOUS
<1>9. d \in 0..MaxResumes /\ Fit(d)' /\ Attaches(d)
  BY <1>2, <1>3, <1>7, <1>8 DEF Fit, Base, Documents
<1>10. ~Phase("idle") /\ (~overwrote => attempt.row.review.pin = 0)
  BY <1>1 DEF TailorResume, Phase, PinsHold
<1> QED BY <1>7, <1>9, <1>10, AttachingKeeps DEF TailorResume

LEMMA FailingKeepsDocuments ==
  ASSUME TailoredInv, TailoringFails, ~WasSent, TailoredAssumption
  PROVE  TailoredInv'
<1>1. /\ TailoredTypes /\ StoreHolds /\ DocumentsFit /\ PinsHold
  BY DEF TailoredInv
<1>2. StoreHolds' /\ Stays
  BY <1>1 DEF TailoringFails, StoreHolds, Stays, Stored
<1> PICK d : d = attempt.row.attached
  OBVIOUS
<1>3. d \in 0..MaxResumes /\ Attaches(d)
  BY <1>1, TailoredFields DEF TailoringFails, Attaches
<1>4. Fit(d)'
  BY <1>1, <1>2, FitStays DEF DocumentsFit
<1>5. /\ ~Phase("idle") /\ (~overwrote => attempt.row.review.pin = 0)
      /\ UNCHANGED <<application, letterFile, prepared, now, errand, batch, letters, reviewed, sent, overwrote>>
  BY <1>1 DEF TailoringFails, Phase, PinsHold
<1> QED BY <1>2, <1>3, <1>4, <1>5, AttachingKeeps DEF TailoringFails

LEMMA UnsentHold ==
  ASSUME StoreHolds', ~WasSent'
  PROVE  DocumentsHold'
BY DEF StoreHolds, DocumentsHold, NoneRefusedSent, ChoiceIsSent, LetterIsSent

LEMMA EmptyHands ==
  ASSUME TailoredAssumption, NEW r \in Reading
  PROVE  /\ EmptyHand(r) \in InHand /\ NewRow \in ApplicationRows /\ NewReview \in Reviews
         /\ EmptyHand(r).phase = "idle" /\ EmptyHand(r).row = NewRow /\ EmptyHand(r).attached = Base
         /\ EmptyHand(r).letter = 0 /\ NewRow.attached = Base /\ NewRow.review = NewReview
         /\ NewReview.pin = 0 /\ NewReview.letter = 0 /\ NewReview.offered = {}
<1>1. 0 \in 0..MaxResumes /\ 0 \in 0..MaxLetters /\ FALSE \in BOOLEAN /\ {} \in SUBSET Documents
  BY TailoredAssumption
<1>2. NewReview \in Reviews
  BY <1>1 DEF NewReview, Reviews
<1>3. NewRow \in ApplicationRows
  BY <1>1, <1>2 DEF NewRow, ApplicationRows, Base
<1> QED BY <1>1, <1>2, <1>3 DEF EmptyHand, InHand, Base, NewRow, NewReview

\* The form gets the file under the attached document's name, and the last letter.
LEMMA FillingKeepsDocuments ==
  ASSUME TailoredInv, FillForm, ~WasSent, TailoredAssumption
  PROVE  TailoredInv'
<1>1. /\ TailoredTypes /\ StoreHolds /\ DocumentsFit /\ PinsHold /\ LettersHold
  BY DEF TailoredInv
<1> PICK hand \in InHand : hand = attempt
  BY <1>1 DEF TailoredTypes
<1> PICK d : d = hand.attached
  OBVIOUS
<1> DEFINE bytes == IF d = Base THEN Base ELSE files[resumes[d].ref]
           known(l) == IF l = 0 THEN 0 ELSE letterFile'
           filled(l) == [phase |-> "deciding", row |-> hand.row, read |-> hand.read, attached |-> d,
                         letter |-> l, bytes |-> bytes, letterBytes |-> known(l)]
<1>2. PICK letter \in LetterOf :
        /\ letterFile' = IF letter > letters THEN letter ELSE letterFile
        /\ letters' = Max({letters, letter})
        /\ attempt' = filled(letter)
  BY DEF FillForm
<1>3. /\ hand.phase = "filling"
      /\ UNCHANGED <<application, locked, resumes, files, prepared, now, errand, batch,
                     incidents, reviewed, sent, overwrote>>
  BY DEF FillForm, Phase
<1>4. /\ letters \in Nat /\ letters \in 0..MaxLetters /\ letterFile \in 0..MaxLetters
      /\ MaxLetters \in Nat /\ MaxResumes \in Nat
      /\ hand.row \in ApplicationRows /\ hand.read \in Reading /\ d \in 0..MaxResumes
      /\ hand.row.review.letter \in Nat /\ hand.row.review.letter \in 0..MaxLetters
      /\ hand.row.review.letter <= letters
      /\ application.review.letter \in Nat /\ errand.review.letter \in Nat
  BY <1>1, TailoredFields, TailoredAssumption DEF TailoredTypes, LettersHold
<1>5. /\ letter \in Nat /\ letter \in 0..MaxLetters
      /\ letter > letters => hand.row.review.letter = 0
      /\ hand.row.review.letter # 0 => letter = hand.row.review.letter
      /\ letter <= letters /\ letter # 0 => letter = hand.row.review.letter
  BY <1>4 DEF LetterOf
<1>6. letters' \in {letters, letter} /\ letters' >= letters /\ letters' >= letter
  <2>1. PICK least : least = letters
    OBVIOUS
  <2>5. IsFiniteSet({least})
    BY FS_Singleton
  <2>6. IsFiniteSet({least} \cup {letter})
    BY <2>5, FS_AddElement
  <2>7. {least} \cup {letter} = {least, letter}
    OBVIOUS
  <2>8. IsFiniteSet({least, letter})
    BY <2>6, <2>7
  <2>2. {least, letter} \in SUBSET Nat /\ {least, letter} # {} /\ IsFiniteSet({least, letter})
    BY <1>4, <1>5, <2>1, <2>8
  <2>3. Max({least, letter}) \in {least, letter} /\ \A y \in {least, letter} : Max({least, letter}) >= y
    BY <2>2, GreatestIsThere
  <2>4. letters' = Max({least, letter})
    BY <1>2, <2>1
  <2> QED BY <2>1, <2>3, <2>4
<1>7. bytes \in 0..MaxResumes /\ (d = Base => bytes = Base)
      /\ (d # Base => bytes \in Stored /\ resumes[bytes].ref = resumes[d].ref)
  <2>1. CASE d = Base
    BY <1>4, <2>1 DEF Base
  <2>2. CASE d # Base
    <3>1. d \in Stored
      BY <1>1, <2>2 DEF DocumentsFit, Fit
    <3>2. bytes = files[resumes[d].ref]
      BY <2>2
    <3>3. bytes \in Stored /\ resumes[bytes].ref = resumes[d].ref
      BY <1>1, <3>1, <3>2 DEF StoreHolds
    <3>5. PICK n \in 0..MaxResumes : Stored = 1..n
      BY <1>1 DEF StoreHolds
    <3>4. bytes \in 0..MaxResumes
      <4> HIDE DEF bytes
      <4> QED BY <1>4, <3>3, <3>5
    <3> QED BY <2>2, <3>3, <3>4
  <2> QED BY <2>1, <2>2
<1> HIDE DEF bytes
<1>8. /\ attempt'.phase = "deciding" /\ attempt'.row = hand.row /\ attempt'.attached = d
      /\ attempt'.letter = letter /\ attempt'.bytes = bytes /\ attempt'.letterBytes = known(letter)
  BY <1>2
<1>9. known(letter) \in 0..MaxLetters /\ letterFile' \in 0..MaxLetters
  BY <1>2, <1>4, <1>5
<1>10. filled(letter) \in InHand
  <2> HIDE DEF known
  <2> QED BY <1>4, <1>5, <1>7, <1>9 DEF InHand
<1> HIDE DEF filled
<1>11. TailoredTypes' /\ StoreHolds'
  BY <1>1, <1>2, <1>3, <1>4, <1>5, <1>6, <1>9, <1>10 DEF TailoredTypes, StoreHolds, Stored
<1>12. DocumentsFit' /\ BytesTell'
  BY <1>1, <1>3, <1>7, <1>8 DEF DocumentsFit, BytesTell, Fit, Stored
<1>13. PinsHold'
  BY <1>1, <1>3, <1>8 DEF PinsHold
<1>14. LettersHold'
  <2>1. application.review.letter <= letters' /\ hand.row.review.letter <= letters'
        /\ errand.review.letter <= letters' /\ letter <= letters'
    BY <1>1, <1>4, <1>5, <1>6 DEF LettersHold
  <2>2. ~overwrote /\ application.review.letter # 0 => letterFile' = application.review.letter
    BY <1>1, <1>2, <1>3, <1>4, <1>5 DEF LettersHold
  <2>3. ~overwrote /\ letter # 0 => known(letter) = letter /\ letterFile' = letter
    BY <1>1, <1>2, <1>3, <1>4, <1>5 DEF LettersHold
  <2> HIDE DEF known
  <2> QED BY <1>1, <1>3, <1>5, <1>8, <2>1, <2>2, <2>3 DEF LettersHold
<1>15. DocumentsHold'
  BY <1>3, <1>11, UnsentHold DEF WasSent
<1> QED BY <1>11, <1>12, <1>13, <1>14, <1>15 DEF TailoredInv

\* An attempt that dies leaves the row as it is.
LEMMA FallingKeepsDocuments ==
  ASSUME TailoredInv, FallOver, ~WasSent, TailoredAssumption
  PROVE  TailoredInv'
<1>1. /\ TailoredTypes /\ StoreHolds /\ DocumentsFit /\ PinsHold /\ LettersHold
  BY DEF TailoredInv
<1>2. /\ attempt' = EmptyHand(now) /\ resumes' = RolledBackOf("attempt") /\ locked' = FALSE
      /\ UNCHANGED <<application, files, letterFile, prepared, now, errand, batch, letters,
                     reviewed, sent, overwrote>>
  BY DEF FallOver
<1>3. StoreHolds' /\ Stays
  BY <1>1, <1>2, EndingKeeps
<1> PICK r \in Reading : r = now
  BY <1>1 DEF TailoredTypes
<1>4. /\ attempt' \in InHand /\ attempt'.phase = "idle" /\ attempt'.row.attached = Base
      /\ attempt'.row.review.pin = 0 /\ attempt'.row.review.letter = 0 /\ attempt'.row.review.offered = {}
      /\ attempt'.attached = Base /\ attempt'.letter = 0
  BY <1>2, EmptyHands
<1>5. TailoredTypes'
  BY <1>1, <1>2, <1>4 DEF TailoredTypes
<1>6. DocumentsFit'
  BY <1>1, <1>2, <1>3, <1>4 DEF DocumentsFit, Fit, Stays
<1>7. BytesTell' /\ PinsHold'
  BY <1>1, <1>2, <1>4 DEF BytesTell, PinsHold
<1>8. letters \in Nat
  BY <1>1, TailoredAssumption DEF TailoredTypes
<1>9. LettersHold'
  BY <1>1, <1>2, <1>4, <1>8 DEF LettersHold
<1>10. DocumentsHold'
  BY <1>2, <1>3, UnsentHold DEF WasSent
<1> QED BY <1>3, <1>5, <1>6, <1>7, <1>9, <1>10 DEF TailoredInv

\* The attempt's copy of the review is written over the row's: where it is the
\* same, the row keeps its choice and gets the letter that is in the form.
LEMMA DecidingKeepsDocuments ==
  ASSUME TailoredInv, Decide, ~WasSent, TailoredAssumption
  PROVE  TailoredInv'
<1>1. /\ TailoredTypes /\ StoreHolds /\ DocumentsFit /\ BytesTell /\ PinsHold /\ LettersHold
  BY DEF TailoredInv
<1> PICK hand \in InHand : hand = attempt
  BY <1>1 DEF TailoredTypes
<1> PICK was \in ApplicationRows : was = application
  BY <1>1 DEF TailoredTypes
<1> PICK review \in Reviews : review = hand.row.review
  BY DEF InHand, ApplicationRows
<1> DEFINE wrote == [review EXCEPT !.letter = hand.letter]
           attached == IF hand.attached # hand.row.attached THEN hand.attached ELSE was.attached
           row(status) == [status |-> status, attached |-> attached, review |-> wrote]
<1>2. PICK status \in {"needs_review", "submitted"} :
        /\ application' = row(status)
        /\ \/ status = "needs_review" /\ sent' = sent
           \/ /\ status = "submitted"
              /\ sent' = [resume |-> hand.attached, bytes |-> hand.bytes, letter |-> hand.letter,
                          letterBytes |-> hand.letterBytes, pin |-> review.pin]
  BY DEF Decide, WrittenBy
<1>3. /\ hand.phase = "deciding" /\ overwrote' = (overwrote \/ review # was.review)
      /\ resumes' = Committed("attempt") /\ locked' = FALSE /\ attempt' = EmptyHand(now)
      /\ UNCHANGED <<files, letterFile, prepared, now, errand, batch, letters, incidents, reviewed>>
  BY DEF Decide, Phase
<1>4. StoreHolds' /\ Stays /\ Stored' = Stored
  BY <1>1, <1>3, EndingKeeps
<1> PICK r \in Reading : r = now
  BY <1>1 DEF TailoredTypes
<1>5. /\ attempt' \in InHand /\ attempt'.phase = "idle" /\ attempt'.row.attached = Base
      /\ attempt'.row.review.pin = 0 /\ attempt'.row.review.letter = 0 /\ attempt'.row.review.offered = {}
      /\ attempt'.attached = Base /\ attempt'.letter = 0
  BY <1>3, EmptyHands
<1>6. /\ wrote \in Reviews /\ wrote.letter = hand.letter /\ wrote.pin = review.pin
      /\ wrote.offered = review.offered
  BY DEF Reviews, InHand
<1>7. attached \in 0..MaxResumes /\ (attached = hand.attached \/ attached = was.attached)
  BY DEF InHand, ApplicationRows
<1>8. row(status) \in ApplicationRows
  <2> HIDE DEF wrote, attached
  <2> QED BY <1>2, <1>6, <1>7 DEF ApplicationRows
<1>9. /\ application'.status = status /\ application'.attached = attached /\ application'.review = wrote
  BY <1>2
<1>10. TailoredTypes'
  BY <1>1, <1>2, <1>3, <1>5, <1>8 DEF TailoredTypes
<1>11. ~overwrote' => ~overwrote /\ review = was.review
  BY <1>1, <1>3 DEF TailoredTypes
<1>12. ~overwrote' /\ review.pin # 0 => attached = review.pin /\ hand.attached = review.pin
  BY <1>1, <1>3, <1>11 DEF PinsHold
<1> HIDE DEF row, wrote, attached
<1>13. DocumentsFit'
  <2>1. Fit(hand.attached)' /\ Fit(was.attached)' /\ \A d \in review.offered : Fit(d)'
    BY <1>1, <1>4 DEF DocumentsFit, Fit, Stays
  <2>2. Fit(attached)'
    BY <1>7, <2>1
  <2> QED BY <1>1, <1>3, <1>4, <1>5, <1>6, <1>9, <2>1, <2>2 DEF DocumentsFit, Fit, Stays
<1>14. BytesTell' /\ PinsHold'
  BY <1>1, <1>3, <1>5, <1>6, <1>9, <1>11, <1>12 DEF BytesTell, PinsHold
<1>15. letters \in Nat /\ hand.letter <= letters
  BY <1>1, TailoredAssumption DEF TailoredTypes, LettersHold
<1>16. LettersHold'
  BY <1>1, <1>3, <1>5, <1>6, <1>9, <1>11, <1>15 DEF LettersHold
<1>17. CASE status = "needs_review"
  <2>1. DocumentsHold'
    BY <1>4, <1>9, <1>17, UnsentHold DEF WasSent
  <2> QED BY <1>4, <1>10, <1>13, <1>14, <1>16, <2>1 DEF TailoredInv
<1>18. CASE status = "submitted"
  <2>1. /\ sent'.resume = hand.attached /\ sent'.bytes = hand.bytes /\ sent'.letter = hand.letter
        /\ sent'.letterBytes = hand.letterBytes /\ sent'.pin = review.pin
    BY <1>2, <1>18
  <2>2. hand.attached # Base =>
          /\ hand.attached \in Stored /\ resumes[hand.attached].holds
          /\ hand.bytes \in Stored /\ resumes[hand.bytes].ref = resumes[hand.attached].ref
    BY <1>1, <1>3 DEF DocumentsFit, BytesTell, Fit
  <2>3. hand.attached = Base => hand.bytes = Base
    BY <1>1, <1>3 DEF BytesTell
  <2>4. ASSUME NEW d \in {hand.bytes, hand.attached}, hand.attached # Base, Unshared(d)'
        PROVE  hand.bytes = hand.attached
    BY <1>4, <2>2, <2>4 DEF Unshared, Stays
  <2>5. NoneRefusedSent'
    <3>1. hand.bytes # Base /\ Unshared(hand.bytes)' => resumes'[hand.bytes].holds
      BY <1>4, <2>2, <2>3, <2>4 DEF Stays
    <3>2. sent'.bytes # Base /\ Unshared(sent.bytes)' => resumes'[sent'.bytes].holds
      BY <2>1, <3>1 DEF Unshared
    <3> QED BY <1>4, <3>2 DEF NoneRefusedSent, StoreHolds
  <2>6. ChoiceIsSent'
    <3>1. ~overwrote' /\ reviewed'.pin # 0 => review.pin # 0
      BY <1>1, <1>3, <1>11 DEF PinsHold
    <3>2. ~overwrote' /\ review.pin # 0 /\ Unshared(review.pin)' => hand.bytes = review.pin
      <4> SUFFICES ASSUME ~overwrote', review.pin # 0, Unshared(review.pin)' PROVE hand.bytes = review.pin
        OBVIOUS
      <4>1. review.pin = hand.attached /\ hand.attached # Base
        BY <1>12 DEF Base
      <4>2. Unshared(hand.attached)'
        BY <4>1
      <4> QED BY <2>4, <4>1, <4>2
    <3>3. ~overwrote' /\ sent'.pin # 0 /\ Unshared(sent.pin)' => sent'.bytes = sent'.pin
      BY <2>1, <3>2 DEF Unshared
    <3> QED BY <1>12, <2>1, <3>1, <3>3 DEF ChoiceIsSent
  <2>7. LetterIsSent'
    BY <1>1, <1>3, <1>11, <2>1 DEF LetterIsSent, LettersHold
  <2> QED BY <1>4, <1>10, <1>13, <1>14, <1>16, <2>5, <2>6, <2>7 DEF TailoredInv, DocumentsHold
<1> QED BY <1>17, <1>18

\* Steps that leave the row and the attempt as they are.
LEMMA QuietKeepsDocuments ==
  ASSUME TailoredInv, StoreHolds', Stays, TailoredTypes', ~WasSent, Fit(prepared)', Fit(batch)',
         errand' = errand \/ errand'.review = application.review,
         UNCHANGED <<application, attempt, letterFile, letters, reviewed, sent, overwrote>>
  PROVE  TailoredInv'
<1>1. /\ TailoredTypes /\ StoreHolds /\ DocumentsFit /\ BytesTell /\ PinsHold /\ LettersHold
  BY DEF TailoredInv
<1>2. DocumentsFit'
  BY <1>1 DEF DocumentsFit, Fit, Stays
<1>3. BytesTell'
  BY <1>1 DEF BytesTell, DocumentsFit, Fit, Stays
<1>4. PinsHold' /\ LettersHold'
  BY <1>1 DEF PinsHold, LettersHold
<1>5. DocumentsHold'
  BY UnsentHold DEF WasSent
<1> QED BY <1>2, <1>3, <1>4, <1>5 DEF TailoredInv

LEMMA QuietStepsKeepDocuments ==
  ASSUME TailoredInv, ~WasSent, TailoredAssumption,
         (\E kind \in {"compare", "select", "edit"} : BeginErrand(kind)) \/ TimesTurn
  PROVE  TailoredInv'
<1>1. /\ TailoredTypes /\ StoreHolds /\ DocumentsFit
  BY DEF TailoredInv
<1>2. /\ UNCHANGED <<application, locked, resumes, files, letterFile, prepared, attempt, batch,
                     letters, reviewed, sent, overwrote>>
      /\ now' \in Reading
  BY <1>1 DEF BeginErrand, TimesTurn, TailoredTypes
<1>3. StoreHolds' /\ Stays
  BY <1>1, <1>2 DEF StoreHolds, Stays, Stored
<1>4. Fit(prepared)' /\ Fit(batch)'
  BY <1>1, <1>2 DEF DocumentsFit, Fit, Stored
<1>5. errand' = errand
      \/ \E kind \in {"compare", "select", "edit"} : errand' = [kind |-> kind, review |-> application.review]
  BY DEF BeginErrand, TimesTurn
<1>6. errand' \in Errands /\ (errand' = errand \/ errand'.review = application.review)
  <2>1. errand \in Errands /\ application.review \in Reviews
    BY <1>1, TailoredFields DEF TailoredTypes
  <2> QED BY <1>5, <2>1 DEF Errands
<1>7. TailoredTypes'
  BY <1>1, <1>2, <1>6 DEF TailoredTypes
<1> QED BY <1>2, <1>3, <1>4, <1>6, <1>7, QuietKeepsDocuments

\* The batch prepares none that does not hold.
LEMMA BatchKeepsDocuments ==
  ASSUME TailoredInv, ~WasSent, TailoredAssumption, BatchTailors \/ BatchEnds
  PROVE  TailoredInv'
<1>1. /\ TailoredTypes /\ StoreHolds /\ DocumentsFit
  BY DEF TailoredInv
<1>2. UNCHANGED <<application, locked, letterFile, now, attempt, errand, letters, reviewed, sent, overwrote>>
  BY DEF BatchTailors, BatchEnds
<1> PICK read \in Reading : read = now
  BY <1>1 DEF TailoredTypes
<1>3. read.mode \in UsedModes /\ MaxResumes \in Nat
  BY TailoredAssumption DEF Reading
<1>4. SUFFICES /\ StoreHolds' /\ Stays /\ Fit(prepared)' /\ Fit(batch)'
               /\ prepared' \in 0..MaxResumes /\ batch' \in 0..MaxResumes
  BY <1>1, <1>2, QuietKeepsDocuments DEF TailoredTypes
<1>5. CASE BatchTailors /\ Cached("batch", read) # {}
  <2>1. batch' \in Cached("batch", read) /\ UNCHANGED <<resumes, files, prepared>>
    BY <1>5 DEF BatchTailors
  <2> PICK d : d = batch'
    OBVIOUS
  <2>2. d \in Documents /\ Fit(d)
    BY <1>1, <2>1, CachedHold
  <2>3. StoreHolds' /\ Stays
    BY <1>1, <2>1 DEF StoreHolds, Stays, Stored
  <2>4. Fit(d)' /\ Fit(prepared)'
    BY <1>1, <2>1, <2>2 DEF DocumentsFit, Fit, Stored
  <2>5. d \in 0..MaxResumes
    BY <1>3, <2>2 DEF Documents
  <2> QED BY <1>1, <2>1, <2>3, <2>4, <2>5 DEF Fit, TailoredTypes
<1>6. CASE BatchTailors /\ Cached("batch", read) = {}
  <2> PICK e : e = Cardinality(Stored) + 1
    OBVIOUS
  <2>1. PICK holds \in BOOLEAN :
          /\ StoredBy("batch", e, KeyOf(read, TRUE, holds), TRUE, holds, read.mode)
          /\ batch' = IF holds THEN e ELSE 0
    BY <1>6 DEF BatchTailors, StoredBy
  <2>9. PICK key : key = KeyOf(read, TRUE, holds)
    OBVIOUS
  <2> PICK mode : mode = read.mode
    OBVIOUS
  <2>8. PICK whole \in BOOLEAN : whole = TRUE
    OBVIOUS
  <2>2. key \in Reading \cup {Unkeyed} /\ (key # Unkeyed => whole /\ holds)
    BY <2>8, <2>9, KeysTell
  <2>3. StoredBy("batch", e, key, whole, holds, mode) /\ mode \in UsedModes
    BY <1>3, <2>1, <2>8, <2>9
  <2>4. /\ StoreHolds' /\ Stays /\ e \in Documents /\ Stored' = Stored \cup {e}
        /\ resumes'[e].holds = holds
    BY <1>1, <2>2, <2>3, StoringKeeps
  <2>5. prepared' = prepared
    BY <1>6 DEF BatchTailors
  <2>6. Fit(prepared)'
    BY <1>1, <2>4, <2>5 DEF DocumentsFit, Fit, Stays
  <2>7. Fit(batch)' /\ batch' \in 0..MaxResumes
    BY <1>3, <2>1, <2>4 DEF Fit, Base, Documents
  <2> QED BY <1>1, <2>4, <2>5, <2>6, <2>7 DEF TailoredTypes
<1>7. CASE BatchEnds
  <2>1. /\ resumes' = Committed("batch") \/ resumes' = RolledBackOf("batch")
        /\ files' = files /\ batch' = 0 /\ prepared' \in {prepared, batch}
    BY <1>7 DEF BatchEnds
  <2>2. StoreHolds' /\ Stays
    BY <1>1, <2>1, EndingKeeps
  <2>3. Fit(prepared)' /\ Fit(batch)'
    BY <1>1, <2>1, <2>2 DEF DocumentsFit, Fit, Stays, Base
  <2> QED BY <1>1, <1>3, <2>1, <2>2, <2>3 DEF TailoredTypes
<1> QED BY <1>5, <1>6, <1>7

\* What a request writes over the row it read, where nothing came between, is
\* the row with the one thing that it is about.
LEMMA ReturningKeepsDocuments ==
  ASSUME TailoredInv, StoreHolds', Stays, ~WasSent, TailoredAssumption,
         NEW a, NEW review, Returns(a, review),
         a \in 0..MaxResumes, review \in Reviews, Fit(a)',
         \A d \in review.offered : Fit(d)',
         review.letter = errand.review.letter, errand.review.pin # 0 => review.pin # 0,
         review.pin = a \/ (review.pin = errand.review.pin /\ a = application.attached)
  PROVE  TailoredInv'
<1>1. /\ TailoredTypes /\ StoreHolds /\ DocumentsFit /\ BytesTell /\ PinsHold /\ LettersHold
  BY DEF TailoredInv
<1> PICK was \in ApplicationRows : was = application
  BY <1>1 DEF TailoredTypes
<1> DEFINE row == [status |-> was.status, attached |-> a, review |-> review]
<1>2. /\ application' = row /\ overwrote' = (overwrote \/ errand.review # was.review) /\ errand' = NoErrand
      /\ UNCHANGED <<locked, letterFile, prepared, now, attempt, batch, letters, incidents, reviewed, sent>>
  BY DEF Returns
<1>3. row \in ApplicationRows
  BY DEF ApplicationRows
<1>4. /\ application'.status = was.status /\ application'.attached = a /\ application'.review = review
  BY <1>2
<1>5. errand' \in Errands /\ errand'.review.letter = 0 /\ errand'.review.offered = {}
  <2>1. NewReview \in Reviews /\ NewReview.letter = 0 /\ NewReview.offered = {}
    BY TailoredAssumption DEF NewReview, Reviews
  <2> QED BY <1>2, <2>1 DEF NoErrand, Errands
<1>6. TailoredTypes'
  BY <1>1, <1>2, <1>3, <1>5 DEF TailoredTypes
<1> HIDE DEF row
<1>7. ~overwrote' => ~overwrote /\ errand.review = was.review
  BY <1>1, <1>2 DEF TailoredTypes
<1>8. DocumentsFit'
  BY <1>1, <1>2, <1>4, <1>5 DEF DocumentsFit, Fit, Stays
<1>9. BytesTell'
  BY <1>1, <1>2 DEF BytesTell, DocumentsFit, Fit, Stays
<1>10. PinsHold'
  BY <1>1, <1>2, <1>4, <1>7 DEF PinsHold
<1>11. letters \in Nat
  BY <1>1, TailoredAssumption DEF TailoredTypes
<1>12. LettersHold'
  BY <1>1, <1>2, <1>4, <1>5, <1>7, <1>11 DEF LettersHold
<1>13. DocumentsHold'
  BY <1>4, UnsentHold DEF WasSent
<1> QED BY <1>6, <1>8, <1>9, <1>10, <1>12, <1>13 DEF TailoredInv

\* A comparison or an edit stores a document that holds and has no key.
LEMMA StoringForOwner ==
  ASSUME TailoredTypes, StoreHolds, TailoredAssumption, NEW e,
         StoredBy("database", e, Unkeyed, TRUE, TRUE, now.mode)
  PROVE  StoreHolds' /\ Stays /\ e \in Documents /\ Fit(e)'
<1> PICK mode \in UsedModes : mode = now.mode
  BY DEF TailoredTypes, Reading
<1>3. PICK yes \in BOOLEAN : yes = TRUE
  OBVIOUS
<1>4. PICK key : key = Unkeyed
  OBVIOUS
<1>1. StoredBy("database", e, key, yes, yes, mode) /\ key \in Reading \cup {Unkeyed}
      /\ (key # Unkeyed => yes /\ yes)
  BY <1>3, <1>4 DEF StoredBy
<1>2. /\ StoreHolds' /\ Stays /\ e \in Documents /\ Stored' = Stored \cup {e}
      /\ resumes'[e].holds = yes
  BY <1>1, StoringKeeps
<1> QED BY <1>2, <1>3 DEF Fit

LEMMA OwnerKeepsDocuments ==
  ASSUME TailoredInv, ~WasSent, TailoredAssumption, OfferComparison \/ SelectTailoring \/ EditResume
  PROVE  TailoredInv'
<1>1. /\ TailoredTypes /\ StoreHolds /\ DocumentsFit
  BY DEF TailoredInv
<1> PICK review \in Reviews : review = errand.review
  BY <1>1, TailoredFields
<1> PICK a \in 0..MaxResumes : a = application.attached
  BY <1>1, TailoredFields
<1> PICK e : e = Cardinality(Stored) + 1
  OBVIOUS
<1> PICK reading \in Reading : reading = now
  BY <1>1 DEF TailoredTypes
<1>2. MaxResumes \in Nat /\ 0 \notin Documents /\ Documents \subseteq 0..MaxResumes
  BY TailoredAssumption DEF Documents
<1>3. ASSUME NEW set \in SUBSET Documents
      PROVE  /\ [review EXCEPT !.offered = set] \in Reviews
             /\ [review EXCEPT !.offered = set].offered = set
             /\ [review EXCEPT !.offered = set].letter = review.letter
             /\ [review EXCEPT !.offered = set].pin = review.pin
  BY DEF Reviews
<1>4. ASSUME NEW d \in Documents
      PROVE  /\ [review EXCEPT !.pin = d] \in Reviews
             /\ [review EXCEPT !.pin = d].offered = review.offered
             /\ [review EXCEPT !.pin = d].letter = review.letter
             /\ [review EXCEPT !.pin = d].pin = d /\ d # 0
  BY <1>2 DEF Reviews
<1>5. ASSUME NEW set \in SUBSET Documents, StoreHolds', Stays, \A d \in set : Fit(d)',
             Returns(a, [review EXCEPT !.offered = set])
      PROVE  TailoredInv'
  <2> PICK new : new = [review EXCEPT !.offered = set]
    OBVIOUS
  <2>1. new \in Reviews /\ new.offered = set /\ new.letter = review.letter /\ new.pin = review.pin
    BY <1>3
  <2>2. Fit(a)'
    BY <1>1, <1>5, FitStays DEF DocumentsFit
  <2>3. Returns(a, new)
    BY <1>5
  <2> QED BY <1>5, <2>1, <2>2, <2>3, ReturningKeepsDocuments
<1>6. ASSUME NEW d \in Documents, StoreHolds', Stays, Fit(d)', Returns(d, [review EXCEPT !.pin = d])
      PROVE  TailoredInv'
  <2> PICK new : new = [review EXCEPT !.pin = d]
    OBVIOUS
  <2>1. new \in Reviews /\ new.offered = review.offered /\ new.letter = review.letter /\ new.pin = d /\ d # 0
    BY <1>4
  <2>2. \A f \in review.offered : Fit(f)'
    BY <1>1, <1>6, FitStays DEF DocumentsFit
  <2>3. Returns(d, new) /\ d \in 0..MaxResumes
    BY <1>2, <1>6
  <2> QED BY <1>6, <2>1, <2>2, <2>3, ReturningKeepsDocuments
<1>7. CASE OfferComparison
  <2>1. \/ /\ StoredBy("database", e, Unkeyed, TRUE, TRUE, now.mode)
           /\ Returns(a, [review EXCEPT !.offered = {e}])
        \/ /\ UNCHANGED <<resumes, files>>
           /\ Returns(a, [review EXCEPT !.offered = Cached("database", reading)])
    BY <1>7 DEF OfferComparison, StoredBy, Returns
  <2>2. ASSUME StoredBy("database", e, Unkeyed, TRUE, TRUE, now.mode),
               Returns(a, [review EXCEPT !.offered = {e}])
        PROVE  TailoredInv'
    <3>1. StoreHolds' /\ Stays /\ e \in Documents /\ Fit(e)'
      BY <1>1, <2>2, StoringForOwner
    <3>2. {e} \in SUBSET Documents /\ \A d \in {e} : Fit(d)'
      BY <3>1
    <3> QED BY <1>5, <2>2, <3>1, <3>2
  <2>3. ASSUME UNCHANGED <<resumes, files>>, Returns(a, [review EXCEPT !.offered = Cached("database", reading)])
        PROVE  TailoredInv'
    <3>1. StoreHolds' /\ Stays
      BY <1>1, <2>3 DEF StoreHolds, Stays, Stored
    <3> PICK set : set = Cached("database", reading)
      OBVIOUS
    <3>2. \A d \in set : d \in Documents /\ Fit(d)
      BY <1>1, CachedHold
    <3>3. set \in SUBSET Documents /\ \A d \in set : Fit(d)'
      BY <2>3, <3>2 DEF Fit, Stored
    <3>4. Returns(a, [review EXCEPT !.offered = set])
      BY <2>3 DEF Returns
    <3> QED BY <1>5, <3>1, <3>3, <3>4
  <2> QED BY <2>1, <2>2, <2>3
<1>8. CASE SelectTailoring
  <2>1. UNCHANGED <<resumes, files>>
    BY <1>8 DEF SelectTailoring
  <2>2. PICK d \in review.offered : Returns(d, [review EXCEPT !.pin = d])
    BY <1>8 DEF SelectTailoring
  <2>3. d \in Documents
    BY <2>2 DEF Reviews
  <2>4. StoreHolds' /\ Stays /\ Fit(d)'
    BY <1>1, <2>1, <2>2 DEF DocumentsFit, Fit, StoreHolds, Stays, Stored
  <2> QED BY <1>6, <2>2, <2>3, <2>4
<1>9. CASE EditResume
  <2>1. /\ StoredBy("database", e, Unkeyed, TRUE, TRUE, now.mode)
        /\ Returns(e, [review EXCEPT !.pin = e])
    BY <1>9 DEF EditResume, StoredBy, Returns
  <2>2. StoreHolds' /\ Stays /\ e \in Documents /\ Fit(e)'
    BY <1>1, <2>1, StoringForOwner
  <2> QED BY <1>6, <2>1, <2>2
<1> QED BY <1>7, <1>8, <1>9

\* The approval records what it approves, reading the row under its lock.
LEMMA ApprovingKeepsDocuments ==
  ASSUME TailoredInv, ~WasSent, TailoredAssumption, Approve
  PROVE  TailoredInv'
<1>1. /\ TailoredTypes /\ StoreHolds /\ DocumentsFit /\ BytesTell /\ PinsHold /\ LettersHold
  BY DEF TailoredInv
<1> PICK was \in ApplicationRows : was = application
  BY <1>1 DEF TailoredTypes
<1> PICK review \in Reviews : review = was.review
  BY DEF ApplicationRows
<1> DEFINE wrote == [review EXCEPT !.approved = TRUE]
           row == [status |-> "running", attached |-> was.attached, review |-> wrote]
<1>2. /\ application' = row
      /\ reviewed' = [resume |-> was.attached, letter |-> review.letter, pin |-> review.pin]
      /\ UNCHANGED <<locked, resumes, files, letterFile, prepared, now, attempt, errand, batch,
                     letters, incidents, sent, overwrote>>
  BY DEF Approve
<1>3. /\ wrote \in Reviews /\ wrote.pin = review.pin /\ wrote.letter = review.letter
      /\ wrote.offered = review.offered
  BY DEF Reviews
<1> HIDE DEF wrote
<1>4. row \in ApplicationRows
  BY <1>3 DEF ApplicationRows
<1>5. /\ application'.status = "running" /\ application'.attached = was.attached
      /\ application'.review = wrote
  BY <1>2
<1>6. reviewed'.pin = review.pin /\ reviewed'.letter = review.letter
  BY <1>2
<1> HIDE DEF row
<1>7. TailoredTypes' /\ StoreHolds'
  BY <1>1, <1>2, <1>4 DEF TailoredTypes, StoreHolds, Stored
<1>8. DocumentsFit' /\ BytesTell'
  BY <1>1, <1>2, <1>3, <1>5 DEF DocumentsFit, BytesTell, Fit, Stored
<1>9. PinsHold' /\ LettersHold'
  BY <1>1, <1>2, <1>3, <1>5, <1>6 DEF PinsHold, LettersHold
<1>10. DocumentsHold'
  BY <1>5, <1>7, UnsentHold DEF WasSent
<1> QED BY <1>7, <1>8, <1>9, <1>10 DEF TailoredInv

LEMMA StepKeepsDocuments ==
  ASSUME TailoredInv, TailoredAssumption, [TailoredNext]_tailoredVars
  PROVE  TailoredInv'
<1>1. CASE UNCHANGED tailoredVars
  <2>1. TailoredTypes' /\ StoreHolds'
    BY <1>1 DEF tailoredVars, TailoredInv, TailoredTypes, StoreHolds, Stored
  <2>2. DocumentsFit' /\ BytesTell'
    BY <1>1 DEF tailoredVars, TailoredInv, DocumentsFit, Fit, BytesTell, Stored
  <2>3. PinsHold' /\ LettersHold'
    BY <1>1 DEF tailoredVars, TailoredInv, PinsHold, LettersHold
  <2>4. NoneRefusedSent'
    BY <1>1 DEF tailoredVars, TailoredInv, DocumentsHold, NoneRefusedSent, WasSent, Unshared, Stored
  <2>5. ChoiceIsSent' /\ LetterIsSent'
    BY <1>1 DEF tailoredVars, TailoredInv, DocumentsHold, ChoiceIsSent, LetterIsSent, WasSent, Unshared, Stored
  <2> QED BY <2>1, <2>2, <2>3, <2>4, <2>5 DEF TailoredInv, DocumentsHold
<1>2. CASE TailoredNext
  <2>1. ~WasSent
    BY <1>2 DEF TailoredNext
  <2>2. AttemptStep => TailoredInv'
    BY <2>1, BeginKeepsDocuments, ReuseKeepsDocuments, TailoringKeepsDocuments, FailingKeepsDocuments,
      FillingKeepsDocuments, DecidingKeepsDocuments, FallingKeepsDocuments DEF AttemptStep
  <2>3. OwnerStep \/ BatchTailors \/ BatchEnds \/ TimesTurn => TailoredInv'
    BY <2>1, QuietStepsKeepDocuments, OwnerKeepsDocuments, ApprovingKeepsDocuments, BatchKeepsDocuments
    DEF OwnerStep
  <2> QED BY <1>2, <2>2, <2>3 DEF TailoredNext
<1> QED BY <1>1, <1>2

LEMMA InitTailoredInv ==
  ASSUME TailoredInit, TailoredAssumption
  PROVE  TailoredInv
<1>1. now \in Reading
  BY DEF TailoredInit
<1> PICK r \in Reading : r = now
  BY <1>1
<1>2. /\ attempt \in InHand /\ NewRow \in ApplicationRows /\ NewReview \in Reviews
      /\ attempt.phase = "idle" /\ attempt.row = NewRow /\ attempt.attached = Base
      /\ attempt.letter = 0 /\ NewRow.attached = Base /\ NewRow.review = NewReview
      /\ NewReview.pin = 0 /\ NewReview.letter = 0 /\ NewReview.offered = {}
  BY EmptyHands DEF TailoredInit
<1>3. errand \in Errands /\ errand.review = NewReview
  BY <1>2 DEF TailoredInit, NoErrand, Errands
<1>4. Stored = {} /\ DOMAIN files = {}
  BY DEF TailoredInit, Stored
<1>5. MaxResumes \in Nat /\ MaxLetters \in Nat
  BY TailoredAssumption
<1>6. TailoredTypes
  <2>1. application \in ApplicationRows /\ locked \in BOOLEAN /\ overwrote \in BOOLEAN
    BY <1>2 DEF TailoredInit
  <2>2. letterFile \in 0..MaxLetters /\ letters \in 0..MaxLetters
        /\ prepared \in 0..MaxResumes /\ batch \in 0..MaxResumes
    BY <1>5 DEF TailoredInit
  <2> QED BY <1>1, <1>2, <1>3, <2>1, <2>2 DEF TailoredTypes
<1>7. StoreHolds
  <2>1. 0 \in 0..MaxResumes /\ 1..0 = {}
    BY <1>5
  <2> QED BY <1>4, <2>1 DEF StoreHolds, TailoredInit
<1>8. DocumentsFit /\ BytesTell
  BY <1>2, <1>3 DEF TailoredInit, DocumentsFit, BytesTell, Fit, Base
<1>9. reviewed.pin = 0 /\ reviewed.letter = 0 /\ application.status = "queued"
  BY DEF TailoredInit, Nothing, NewRow
<1>10. PinsHold /\ LettersHold
  BY <1>2, <1>3, <1>9 DEF TailoredInit, PinsHold, LettersHold
<1>11. DocumentsHold
  BY <1>4, <1>9 DEF DocumentsHold, NoneRefusedSent, ChoiceIsSent, LetterIsSent, WasSent
<1> QED BY <1>6, <1>7, <1>8, <1>10, <1>11 DEF TailoredInv

\* Over whatever attempts, comparisons, choices, edits and batches: no document
\* that a check refused is sent, nor found again in the cache; while no record
\* was written over one its writer had not read, the owner's choice is what is
\* sent, and the letter that is sent is the one approved.
THEOREM DocumentsAreHeld == TailoredSpec => []DocumentsHold
<1>1. TailoredInit => TailoredInv
  BY InitTailoredInv, TailoredAssumption
<1>2. TailoredInv /\ [TailoredNext]_tailoredVars => TailoredInv'
  BY StepKeepsDocuments, TailoredAssumption
<1>3. TailoredInv => DocumentsHold
  BY DEF TailoredInv
<1> QED BY <1>1, <1>2, <1>3, PTL DEF TailoredSpec

-----------------------------------------------------------------------------
(* The types of both.                                                      *)

\* Every variable of the calls is what it is said to be: a line's requests are
\* within what one call may make, because its call has counted them.
THEOREM ModelTypeCorrect == ModelSpec => []ModelTypeOK
<1>1. TrailInv /\ [ModelNext]_modelVars => TrailInv'
  BY StepKeepsTrailInv
<1>2. TrailInv => ModelTypeOK
  BY DEF TrailInv
<1> QED BY <1>1, <1>2, InitTrailInv, PTL DEF ModelSpec

LEMMA IncidentsAreBounded ==
  ASSUME incidents \in 0..MaxIncidents, [TailoredNext]_tailoredVars
  PROVE  incidents' \in 0..MaxIncidents
<1>1. Incident => incidents' \in 0..MaxIncidents
  BY TailoredAssumption DEF Incident
<1>2. CASE UNCHANGED tailoredVars
  BY <1>2 DEF tailoredVars
<1>3. CASE AttemptStep
  BY <1>1, <1>3 DEF AttemptStep, BeginAttempt, ReuseResume, TailorResume, TailoringFails, FillForm, Decide,
    FallOver
<1>4. CASE OwnerStep
  BY <1>1, <1>4 DEF OwnerStep, BeginErrand, OfferComparison, SelectTailoring, EditResume, Approve, Returns
<1>5. CASE BatchTailors \/ BatchEnds \/ TimesTurn
  BY <1>1, <1>5 DEF BatchTailors, BatchEnds, TimesTurn
<1> QED BY <1>2, <1>3, <1>4, <1>5 DEF TailoredNext

\* Every variable of the documents is what it is said to be, their numbers
\* without a gap and a file's name among the versions there can be.
THEOREM TailoredTypeCorrect == TailoredSpec => []TailoredTypeOK
<1>1. TailoredInit => TailoredInv /\ incidents \in 0..MaxIncidents
  <2>1. TailoredInit => incidents \in 0..MaxIncidents
    BY TailoredAssumption DEF TailoredInit
  <2> QED BY <2>1, InitTailoredInv, TailoredAssumption
<1>2. TailoredInv /\ incidents \in 0..MaxIncidents /\ [TailoredNext]_tailoredVars
        => (TailoredInv /\ incidents \in 0..MaxIncidents)'
  BY StepKeepsDocuments, IncidentsAreBounded, TailoredAssumption
<1>3. TailoredInv /\ incidents \in 0..MaxIncidents => TailoredTypeOK
  <2> SUFFICES ASSUME TailoredTypes, StoreHolds, incidents \in 0..MaxIncidents PROVE TailoredTypeOK
    BY DEF TailoredInv
  <2>1. Stored = 1..Cardinality(Stored)
    <3>1. PICK n \in 0..MaxResumes : Stored = 1..n
      BY DEF StoreHolds
    <3>2. Cardinality(1..n) = n
      BY <3>1, FS_Interval, TailoredAssumption
    <3> QED BY <3>1, <3>2
  <2>2. \A d \in Stored : resumes[d] \in ResumeRows
    BY DEF StoreHolds
  <2>3. \A f \in DOMAIN files : files[f] \in Stored /\ f \in Documents
    <3>1. \A d \in Stored : resumes[d].ref \in Documents
      BY <2>2 DEF ResumeRows
    <3> QED BY <3>1 DEF StoreHolds
  <2> QED BY <2>1, <2>2, <2>3 DEF TailoredTypes, TailoredTypeOK
<1> QED BY <1>1, <1>2, <1>3, PTL DEF TailoredSpec

-----------------------------------------------------------------------------
(* All of them beside one another.                                         *)

\* A step of the whole is, for each part, a step of it or none.
LEMMA WorkMovesAlone ==
  ASSUME [WorkNext]_workVars
  PROVE  /\ [RegistryNext]_registryVars /\ [StartsNext]_startsVars
         /\ [ModelNext]_modelVars /\ [TailoredNext]_tailoredVars
<1>1. CASE UNCHANGED workVars
  BY <1>1 DEF workVars
<1>2. CASE In("registry", RegistryNext)
  BY <1>2 DEF In, Still
<1>3. CASE In("calls", ModelNext)
  BY <1>3 DEF In, Still
<1>4. CASE In("documents", TailoredNext)
  BY <1>4 DEF In, Still
<1>5. CASE In("starts", StartsNext)
  BY <1>5 DEF In, Still
<1> QED BY <1>1, <1>2, <1>3, <1>4, <1>5, Zenon DEF WorkNext

LEMMA WorkIsOfParts == WorkSpec => RegistrySpec /\ StartsSpec /\ ModelSpec /\ TailoredSpec
<1>1. WorkInit => RegistryInit /\ StartsInit /\ ModelInit /\ TailoredInit
  BY DEF WorkInit
<1>2. [WorkNext]_workVars =>
        /\ [RegistryNext]_registryVars /\ [StartsNext]_startsVars
        /\ [ModelNext]_modelVars /\ [TailoredNext]_tailoredVars
  BY WorkMovesAlone
<1> QED BY <1>1, <1>2, PTL DEF WorkSpec, RegistrySpec, StartsSpec, ModelSpec, TailoredSpec

\* Beside whatever else is done, the registry holds what it does alone, a dive is
\* started once but by starts that overlap, calls are accounted for and paced, and
\* no document reaches the employer that should not.
THEOREM WorkIsHeld ==
  WorkSpec => /\ []RegistryHolds /\ []StartedOnce
              /\ []CallsAccounted /\ KeepsInterval /\ []DocumentsHold
BY WorkIsOfParts, RegistryIsHeld, DivesStartOnce, CallsAreAccounted, IntervalIsKept,
   DocumentsAreHeld, PTL

\* Whichever part works, every variable of every part is what it is said to be.
THEOREM WorkTypeCorrect == WorkSpec => []WorkTypeOK
<1>1. WorkInit => work \in Works
  BY DEF WorkInit
<1>2. work \in Works /\ [WorkNext]_workVars => (work \in Works)'
  BY DEF WorkNext, In, workVars
<1>3. WorkSpec => [](work \in Works)
  BY <1>1, <1>2, PTL DEF WorkSpec
<1>4. work \in Works /\ RegistryTypeOK /\ StartsTypeOK /\ ModelTypeOK /\ TailoredTypeOK => WorkTypeOK
  BY DEF WorkTypeOK
<1> QED BY <1>3, <1>4, WorkIsOfParts, RegistryTypeCorrect, StartsTypeCorrect, ModelTypeCorrect, TailoredTypeCorrect, PTL
=============================================================================
