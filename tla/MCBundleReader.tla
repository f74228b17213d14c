---------------------------- MODULE MCBundleReader ----------------------------
(***************************************************************************)
(* Model values for the TLC runs of BundleReader.                          *)
(***************************************************************************)
EXTENDS BundleReader, TLC

CONSTANTS s1, s2, x1, x2

\* Two inputs that differ in the SQL text.
TwoTexts == (s1 :> x1) @@ (s2 :> x2)
=============================================================================
