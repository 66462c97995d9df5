---------------------------- MODULE MCCopilotChat ----------------------------
(****************************************************************************)
(* Small instances of CopilotChat for TLC.                                  *)
(****************************************************************************)
EXTENDS CopilotChat
============================================================================
