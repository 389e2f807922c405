--------------------------- MODULE TaskOwnership ---------------------------
(***************************************************************************)
(* What the queue promises its workers, without leases, tokens or retries. *)
(*                                                                         *)
(* A task is absent, open or closed, and an open task has at most one      *)
(* owner.  A worker engaged on a task says what became of it only while it *)
(* is the owner; an engagement that lost its ownership ends without a      *)
(* word.  Ownership is taken away only by letting it lapse to nobody, and  *)
(* given only when nobody has it.                                          *)
(***************************************************************************)
CONSTANTS Tasks, Runs, Nobody, NoTask

VARIABLES phase, owner, engaged

vars == <<phase, owner, engaged>>

Init ==
  /\ phase = [t \in Tasks |-> "absent"]
  /\ owner = [t \in Tasks |-> Nobody]
  /\ engaged = [r \in Runs |-> NoTask]

Offer(t) ==
  /\ phase[t] = "absent"
  /\ phase' = [phase EXCEPT ![t] = "open"]
  /\ UNCHANGED <<owner, engaged>>

\* Some open tasks nobody owns are given up; one more may be granted at once.
GivenUp(T) == [t \in Tasks |-> IF t \in T THEN "closed" ELSE phase[t]]

Unowned == {t \in Tasks : phase[t] = "open" /\ owner[t] = Nobody}

Grant(t, r, T) ==
  /\ T \subseteq Unowned /\ t \in Unowned \ T
  /\ engaged[r] = NoTask
  /\ phase' = GivenUp(T)
  /\ owner' = [owner EXCEPT ![t] = r]
  /\ engaged' = [engaged EXCEPT ![r] = t]

GiveUp(T) ==
  /\ T # {} /\ T \subseteq Unowned
  /\ phase' = GivenUp(T)
  /\ UNCHANGED <<owner, engaged>>

\* The owner's word: the task is over, or it goes back for another owner.
Close(t, r) ==
  /\ owner[t] = r /\ engaged[r] = t
  /\ phase' = [phase EXCEPT ![t] = "closed"]
  /\ owner' = [owner EXCEPT ![t] = Nobody]
  /\ engaged' = [engaged EXCEPT ![r] = NoTask]

Return(t, r) ==
  /\ owner[t] = r /\ engaged[r] = t
  /\ owner' = [owner EXCEPT ![t] = Nobody]
  /\ engaged' = [engaged EXCEPT ![r] = NoTask]
  /\ UNCHANGED phase

\* The worker goes, owner or not, without a word.
Vanish(r) ==
  /\ engaged[r] # NoTask
  /\ engaged' = [engaged EXCEPT ![r] = NoTask]
  /\ owner' = [t \in Tasks |-> IF owner[t] = r THEN Nobody ELSE owner[t]]
  /\ UNCHANGED phase

Lapse(t) ==
  /\ owner[t] # Nobody
  /\ owner' = [owner EXCEPT ![t] = Nobody]
  /\ UNCHANGED <<phase, engaged>>

Next ==
  \/ \E t \in Tasks : Offer(t) \/ Lapse(t)
  \/ \E T \in SUBSET Tasks : GiveUp(T)
  \/ \E r \in Runs : Vanish(r)
  \/ \E t \in Tasks, r \in Runs : Close(t, r) \/ Return(t, r)
  \/ \E t \in Tasks, r \in Runs, T \in SUBSET Tasks : Grant(t, r, T)

Spec == Init /\ [][Next]_vars
=============================================================================
