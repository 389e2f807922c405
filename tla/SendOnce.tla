------------------------------ MODULE SendOnce ------------------------------
(***************************************************************************)
(* What the submission ledger promises an employer, without fences, tasks, *)
(* leases or statuses.                                                     *)
(*                                                                         *)
(* A job gives one permission to send.  An attempt takes the permission    *)
(* when it begins, and it either sends, and the permission is spent, or    *)
(* ends unsent.  A permission comes back only from an attempt that has not *)
(* sent, or from the owner, who settles what became of one.                *)
(***************************************************************************)
EXTENDS Naturals

CONSTANTS Jobs, Senders

VARIABLES
  allowed,   \* an attempt may begin
  underway,  \* senders that began an attempt and have neither sent nor given up
  sent,
  settled    \* times the owner said what became of an attempt

vars == <<allowed, underway, sent, settled>>

Init ==
  /\ allowed = [j \in Jobs |-> TRUE]
  /\ underway = [j \in Jobs |-> {}]
  /\ sent = [j \in Jobs |-> 0]
  /\ settled = [j \in Jobs |-> 0]

Begin(s, j) ==
  /\ allowed[j] /\ \A k \in Jobs : s \notin underway[k]
  /\ allowed' = [allowed EXCEPT ![j] = FALSE]
  /\ underway' = [underway EXCEPT ![j] = @ \cup {s}]
  /\ UNCHANGED <<sent, settled>>

Send(s, j) ==
  /\ s \in underway[j]
  /\ underway' = [underway EXCEPT ![j] = @ \ {s}]
  /\ sent' = [sent EXCEPT ![j] = @ + 1]
  /\ UNCHANGED <<allowed, settled>>

\* The attempt ends before anything is sent, and may give its permission back.
Drop(s, j) ==
  /\ s \in underway[j]
  /\ underway' = [underway EXCEPT ![j] = @ \ {s}]
  /\ \E again \in BOOLEAN : allowed' = [allowed EXCEPT ![j] = again]
  /\ UNCHANGED <<sent, settled>>

\* The owner's word on an attempt allows one more.
Settle(j) ==
  /\ allowed' = [allowed EXCEPT ![j] = TRUE]
  /\ settled' = [settled EXCEPT ![j] = @ + 1]
  /\ UNCHANGED <<underway, sent>>

\* It turns out that the job was applied to.
Withdraw(j) ==
  /\ allowed' = [allowed EXCEPT ![j] = FALSE]
  /\ UNCHANGED <<underway, sent, settled>>

Next ==
  \/ \E s \in Senders, j \in Jobs : Begin(s, j) \/ Send(s, j) \/ Drop(s, j)
  \/ \E j \in Jobs : Settle(j) \/ Withdraw(j)

Spec == Init /\ [][Next]_vars
=============================================================================
