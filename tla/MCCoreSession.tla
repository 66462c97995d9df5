---------------------------- MODULE MCCoreSession ----------------------------
(****************************************************************************)
(* Small instances of CoreSession for TLC.                                  *)
(****************************************************************************)
EXTENDS CoreSession, TLC
============================================================================
