----------------------------- MODULE ProfilesMC -----------------------------
(***************************************************************************)
(* A small instance of Profiles for TLC.                                   *)
(***************************************************************************)
EXTENDS Profiles, TLC

ProfilesSymmetry ==
    UNION {Permutations(S) : S \in {User, File, Name, Request}}

=============================================================================
