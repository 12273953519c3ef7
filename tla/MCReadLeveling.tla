--------------------------- MODULE MCReadLeveling ----------------------------
(***************************************************************************)
(* Read leveling for TLC: every eye of every module.                       *)
(***************************************************************************)
EXTENDS ReadLeveling

MCEyes == SUBSET ((0 .. bitslips - 1) \X (0 .. delays - 1))
=============================================================================
