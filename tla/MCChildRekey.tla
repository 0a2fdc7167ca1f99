---------------------------- MODULE MCChildRekey ----------------------------
(* Instances of ChildRekey for TLC.                                          *)
EXTENDS ChildRekey

AllEvents == [p \in Peer |-> {"rekey", "delete", "expire"}]
DeleteAtR == [i |-> {"rekey"}, r |-> {"rekey", "delete"}]
TwoAndOne == [i |-> 2, r |-> 1]
OneAndTwo == [i |-> 1, r |-> 2]
=============================================================================
