------------------------- MODULE MCOperationBinding -------------------------
(* Small instances of OperationBinding for TLC. *)
EXTENDS OperationBinding, TLC

CONSTANTS a, b, r1, r2, r3

\* r1 and r2 differ, but widen to the same range.
MCRangeOf == [r \in Requests |-> IF r = r3 THEN b ELSE a]

Symmetry == Permutations(Callers) \cup Permutations(Requests \ {r3})
=============================================================================
