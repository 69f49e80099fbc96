----------------------------- MODULE JobOutcome -----------------------------
(***************************************************************************)
(* What a recoverable job promises its callers, whatever processes run,    *)
(* cancel, query and crash around it.  In each epoch a job is open until   *)
(* its outcome is decided: it commits one generation, a cancellation wins, *)
(* or it fails for good.  A commit is final for all epochs; a job that     *)
(* ended otherwise may be restarted in the next epoch.                     *)
(***************************************************************************)
EXTENDS Naturals

VARIABLES epoch, outcome

Init == epoch = 0 /\ outcome = "open"

Commit == outcome = "open" /\ outcome' = "committed" /\ UNCHANGED epoch

Cancel == outcome = "open" /\ outcome' = "cancelled" /\ UNCHANGED epoch

\* An attempt that was asked to stop may fail before it notices.
Fail == outcome \in {"open", "cancelled"} /\ outcome' = "failed" /\ UNCHANGED epoch

Restart ==
    /\ outcome \in {"cancelled", "failed"}
    /\ outcome' = "open"
    /\ epoch' = epoch + 1

Next == Commit \/ Cancel \/ Fail \/ Restart

Spec == Init /\ [][Next]_<<epoch, outcome>>
=============================================================================
