--------------------------- MODULE MCApplyLedger ---------------------------
(* Small ledgers: two applications for one job, of one candidate.          *)
EXTENDS ApplyLedger, TLC

CONSTANTS r1, r2, w1, t1, t2, t3, a1, a2, j1

\* Every run presents the one worker id of a machine.
MCWorkerOf == [r \in Runs |-> w1]
MCRank == [t \in Tasks |-> 0]
MCNoTasks == {}
MCJobOf == [a \in Apps |-> j1]

Symmetry == Permutations(Tasks) \cup Permutations(Runs) \cup Permutations(Apps)
=============================================================================
