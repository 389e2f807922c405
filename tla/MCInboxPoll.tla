--------------------------- MODULE MCInboxPoll ---------------------------
(* A mailbox of two deliveries: a rejection and a receipt.                 *)
EXTENDS InboxPoll, TLC

CONSTANTS r1, r2, w1, t1, t2, t3, m1, m2, reject, receipt

MCWorkerOf == [r \in Runs |-> w1]
MCRank == [t \in Tasks |-> 0]
MCNoTasks == {}
MCIdOf == [m \in Mail |-> IF m = m1 THEN reject ELSE receipt]
MCLinkOf == [i \in Ids |-> "alias"]
MCLinkMixed == [i \in Ids |-> IF i = reject THEN "inferred" ELSE "none"]
MCRankOf == [i \in Ids |-> IF i = reject THEN 5 ELSE 1]

\* A poll on its last attempt, after deaths before the behaviour begins.
WornInit ==
  /\ MailboxInit
  /\ \E t \in Tasks :
       /\ status = [u \in Tasks |-> IF u = t THEN "pending" ELSE "absent"]
       /\ attempts = [u \in Tasks |-> IF u = t THEN MaxAttempts - 1 ELSE 0]
       /\ due = [u \in Tasks |-> u = t]
  /\ lockedBy = [t \in Tasks |-> NoWorker] /\ lease = [t \in Tasks |-> 0]
  /\ deferrals = [t \in Tasks |-> 0] /\ claim = [r \in Runs |-> NoClaim]

WornInboxSpec == (InboxInit \/ WornInit) /\ [][InboxNext]_inboxVars

Symmetry == Permutations(Tasks) \cup Permutations(Runs)
=============================================================================
