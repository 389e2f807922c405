----------------------------- MODULE MCJobQueue -----------------------------
(* A small queue: runs 1 and 2 present one worker id, run 3 another.       *)
EXTENDS JobQueue, TLC

CONSTANTS r1, r2, r3, w1, w2, t1, t2

MCWorkerOf == (r1 :> w1) @@ (r2 :> w1) @@ (r3 :> w2)
MCRank == (t1 :> 0) @@ (t2 :> 1)
MCCancellable == {t2}
MCReleasable == {t2}
=============================================================================
