-------------------------- MODULE MCInstanceConfig --------------------------
(* Small instances of InstanceConfig for TLC. *)
EXTENDS InstanceConfig, TLC

CONSTANTS e1, e2, r1, r2, h1, k1, token, none, empty, torn

EditorSymmetry == Permutations(Editors)
=============================================================================
