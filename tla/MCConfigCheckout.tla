-------------------------- MODULE MCConfigCheckout --------------------------
(* Instance of ConfigCheckout for TLC.                                     *)
EXTENDS ConfigCheckout

CONSTANTS t1, t2, t3, t4, x, y, i1, i2
=============================================================================
