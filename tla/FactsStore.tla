----------------------------- MODULE FactsStore -----------------------------
(***************************************************************************)
(* What one task directory of the Machine Facts store promises a reader.   *)
(*                                                                         *)
(* A reader sees a complete bundle or none.  An analysis first withdraws   *)
(* the bundle it may replace; then it commits one, or, after a failure or  *)
(* a crash, the store serves nothing, or serves again the bundle committed *)
(* last.  The store never forgets which bundle that was, and never goes    *)
(* from one served bundle to another without withdrawing the first.        *)
(***************************************************************************)
CONSTANTS Bundles, NONE  \* NONE is not a bundle

VARIABLES served,  \* the bundle a reader gets, or NONE
          kept     \* the bundle committed last, or NONE

Init == served = NONE /\ kept = NONE

Withdraw == served # NONE /\ served' = NONE /\ kept' = kept

Commit(b) == served = NONE /\ served' = b /\ kept' = b

Reopen == served = NONE /\ kept # NONE /\ served' = kept /\ kept' = kept

Next == Withdraw \/ Reopen \/ \E b \in Bundles : Commit(b)

Spec == Init /\ [][Next]_<<served, kept>>
=============================================================================
