------------------------------ MODULE MCJobRun ------------------------------
(* A small instance of JobRun for TLC. *)
EXTENDS JobRun, TLC

\* A chunk the recognizer keeps failing on (it poisons the job), and
\* contention, which the run retries.
MCWorkStops ==
    {[kind |-> "plain", chunk |-> 0, code |-> "permanent"],
     [kind |-> "plain", chunk |-> NoChunk, code |-> "busy"]}

Symmetry == Permutations(Procs)
=============================================================================
