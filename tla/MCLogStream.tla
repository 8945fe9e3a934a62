----------------------------- MODULE MCLogStream -----------------------------
(* A small instance of LogStream for TLC. *)
EXTENDS LogStream
=============================================================================
