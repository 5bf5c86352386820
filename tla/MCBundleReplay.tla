---------------------------- MODULE MCBundleReplay ----------------------------
(***************************************************************************)
(* The instance of BundleReplay for TLC.                                   *)
(***************************************************************************)
EXTENDS BundleReplay, TLC

Symmetry == Permutations(Record) \cup Permutations(Session)
=============================================================================
