---------------------------- MODULE MCEngineLogin -----------------------------
(* A small instance of EngineLogin for TLC. *)
EXTENDS EngineLogin, TLC

CONSTANTS i1, i2, h1, h2
=============================================================================
