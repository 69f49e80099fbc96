----------------------------- MODULE MCJobQueue -----------------------------
(* A small instance of JobQueue for TLC. *)
EXTENDS JobQueue
=============================================================================
