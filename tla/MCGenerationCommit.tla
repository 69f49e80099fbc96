------------------------- MODULE MCGenerationCommit -------------------------
(* A small instance of GenerationCommit for TLC: two operations that share *)
(* one artifact.                                                           *)
EXTENDS GenerationCommit, TLC

CONSTANTS frame, a, b

MCArtifactOf == (a :> frame) @@ (b :> frame)
MCArtifacts == {frame}
MCOps == {a, b}

Symmetry == Permutations(Procs)
=============================================================================
