---------------------------- MODULE MCDatasources ----------------------------
(****************************************************************************)
(* Small instances of Datasources for TLC.                                  *)
(****************************************************************************)
EXTENDS Datasources, TLC

\* Calls are interchangeable.
DatasourceSymmetry == Permutations(Call)
=============================================================================
