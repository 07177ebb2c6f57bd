------------------------------- MODULE MCUuid7 -------------------------------
(* Uuid7 with small fields; every constant is given by the .cfg.         *)
EXTENDS Uuid7
=============================================================================
