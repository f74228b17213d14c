-------------------------- MODULE MCLineagePublish --------------------------
(* Instances of LineagePublish: one batch, or two that work on the same tasks. *)
EXTENDS LineagePublish, TLC

CONSTANTS p1, p2, g1, g2, g3, g4

OneBatch   == {p1}
TwoBatches == {p1, p2}
FourRuns   == {g1, g2, g3, g4}

\* Runs are only told apart: their names may be exchanged, and the processes.
Exchange    == Permutations(FourRuns)
ExchangeAll == Permutations(TwoBatches) \cup Permutations(FourRuns)

\* Every operation may fail.
AllFail      == {"lock", "begin", "stage", "render", "write", "look", "backup", "install", "drop",
                 "removeFinal", "restore", "copy", "clear", "discard", "unlock", "throw",
                 "cleanStaging", "cleanLocks", "crash"}
\* The removal of the backup may fail half-way.
SwapsFail    == {"drop"}
=============================================================================
