---------------------------- MODULE MCEspContext ----------------------------
(* Model-checking instance of EspContext.                                  *)
EXTENDS EspContext
=============================================================================
