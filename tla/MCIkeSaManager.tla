--------------------------- MODULE MCIkeSaManager ---------------------------
(* Instances of IkeSaManager for TLC.                                        *)
EXTENDS IkeSaManager, TLC

CONSTANTS t1, t2, t3, m1, m2, h1, h2

OneSource == [m \in Messages |-> h1]
TwoSources == [m \in Messages |-> IF m = m1 THEN h1 ELSE h2]

TwoJobs == [t \in Threads |-> 2]
TwoForOne == [t \in Threads |-> IF t = t1 THEN 2 ELSE 1]

\* Threads are interchangeable.
Symmetry == Permutations(Threads)
=============================================================================
