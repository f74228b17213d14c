--------------------------- MODULE MCSemanticRun ---------------------------
(***************************************************************************)
(* Model values for the TLC run of SemanticRun.                            *)
(***************************************************************************)
EXTENDS SemanticRun, TLC

Symmetric == Permutations(Procs) \cup Permutations(Pages)

\* The end and the relation are accepted, and the end is taken back.
MCSaves == {<<"end", "accepted">>, <<"rel", "accepted">>, <<"end", "draft">>}
=============================================================================
