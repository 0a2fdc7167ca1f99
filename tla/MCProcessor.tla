---------------------------- MODULE MCProcessor ----------------------------
(* Instance of Processor for TLC.                                          *)
EXTENDS Processor

CONSTANTS h, l, m

\* h has high priority, m medium and l low priority
Priorities == [j \in {h, l, m, Scheduler} |->
                 CASE j = Scheduler -> 0 [] j = h -> 1 [] j = m -> 2 [] j = l -> 3]

\* One thread is reserved for jobs of critical, one for those of high priority
OneOne == [p \in Prios |-> IF p <= 1 THEN 1 ELSE 0]
=============================================================================
