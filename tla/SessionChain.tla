---------------------------- MODULE SessionChain ----------------------------
(***************************************************************************)
(* What a session's storage promises its callers: a chain of committed     *)
(* operations that grows one generation at a time, and of which every      *)
(* acknowledged generation is kept.  A loss of power may drop the newest   *)
(* generations, but only ones that nobody was told of.                     *)
(***************************************************************************)
EXTENDS Naturals, Sequences

CONSTANT Ops         \* operations that commit generations

VARIABLES chain,     \* the operation of each committed generation
          kept       \* how many of them were acknowledged

Init == chain = <<>> /\ kept = 0

Commit == \E op \in Ops : chain' = Append(chain, op) /\ UNCHANGED kept

Acknowledge ==
    /\ kept' \in kept + 1 .. Len(chain)
    /\ UNCHANGED chain

Lose ==
    /\ \E n \in kept .. Len(chain) : chain' = SubSeq(chain, 1, n)
    /\ UNCHANGED kept

Next == Commit \/ Acknowledge \/ Lose

Spec == Init /\ [][Next]_<<chain, kept>>
=============================================================================
