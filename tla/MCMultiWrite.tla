---------------------------- MODULE MCMultiWrite ----------------------------
(* Small instances of MultiWrite for TLC.                                  *)
EXTENDS MultiWrite
=============================================================================
