----------------------------- MODULE MCFactsIndex -----------------------------
(***************************************************************************)
(* Model values for the TLC runs of FactsIndex.                            *)
(***************************************************************************)
EXTENDS FactsIndex, TLC

CONSTANTS p1, p2, t1, t2

\* Two batches that share no task.
Disjoint == (p1 :> {t1}) @@ (p2 :> {t2})
=============================================================================
