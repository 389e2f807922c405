--------------------------- MODULE MCCrawlTicks ---------------------------
(* Two companies, two executions, and a few rows of the queue.              *)
EXTENDS CrawlTicks, TLC

CONSTANTS r1, r2, w1, t1, t2, t3, t4, c1, c2, k1, k2

MCWorkerOf == [r \in Runs |-> w1]
MCRank == [t \in Tasks |-> 0]
MCNoTasks == {}

Symmetry == Permutations(Tasks) \cup Permutations(Runs) \cup Permutations(Companies)
              \cup Permutations(CrawlRuns)
=============================================================================
