----------------------------- MODULE MCRoutines -----------------------------
(* Small instances of Routines. *)
EXTENDS Routines

CONSTANTS a, b
=============================================================================
