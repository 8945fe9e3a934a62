-------------------------- MODULE MCJobCredentials --------------------------
(* Small instances of JobCredentials for TLC. *)
EXTENDS JobCredentials, TLC

CONSTANTS r1, r2, r3

RunSymmetry == Permutations(WithRepos) \cup Permutations(Runs \ WithRepos)
=============================================================================
