---------------------------- MODULE MCIpsecSaMgr ----------------------------
(* Instances of IpsecSaMgr for TLC.                                        *)
EXTENDS IpsecSaMgr, TLC

CONSTANTS t1, t2, t3, a1, a2

\* The peer chose for the outbound SA the SPI of the inbound one.
SameNumber == [s \in Spis |-> 256]

\* Threads are interchangeable, and so are addresses.
Symmetry == Permutations(Threads) \cup Permutations(Addrs)
=============================================================================
