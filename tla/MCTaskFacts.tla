----------------------------- MODULE MCTaskFacts -----------------------------
(***************************************************************************)
(* Model values for the TLC run of TaskFacts.                              *)
(***************************************************************************)
EXTENDS TaskFacts

\* Crashes, the analysis, and every file-system call that changes something
\* inside runTask's own try blocks and those of the functions it calls.
AllFaults ==
    {"crash", "stageFiles", "statusBackup", "statusRename", "statusClean",
     "publishBackup", "publishInstall", "publishVerify", "publishClean",
     "rollbackBundle", "rollbackRestore", "removeStaging", "dropStaging", "discard",
     "restoreStatus", "restoreBundle"}
=============================================================================
