--------------------------- MODULE MCInputCollect ---------------------------
(***************************************************************************)
(* Model values for the TLC runs of InputCollect.                          *)
(***************************************************************************)
EXTENDS InputCollect, TLC

MCDocs  == [Tasks -> Records \cup {NONE}]
MCEmpty == [t \in Tasks |-> NONE]

AnyFault ==
    {"crash", "powerCut", "recover", "write", "dropBak", "park", "install", "clean",
     "undo", "undoTmp", "lookup", "relocate", "oversize", "stage", "parkPack",
     "installPack", "drop", "unpark", "putback", "moveGap", "edit"}
=============================================================================
