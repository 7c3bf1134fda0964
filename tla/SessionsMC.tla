----------------------------- MODULE SessionsMC -----------------------------
(***************************************************************************)
(* A small instance of Sessions for TLC.                                   *)
(***************************************************************************)
EXTENDS Sessions, TLC

SessionsSymmetry == Permutations(Request)

=============================================================================
