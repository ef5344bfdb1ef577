--------------------------- MODULE MCHashPipeline ---------------------------
(***************************************************************************)
(* Instances of HashPipelineProps for TLC.                                 *)
(***************************************************************************)
EXTENDS HashPipelineProps, TLC

CONSTANTS c1, c2, f1, f2, f3  \* model values

(* Every file belongs to the only coordinator. *)
OneWindow == [t \in Tasks |-> c1]

(* Two windows; f3 is the second one's only file. *)
TwoWindows == [t \in Tasks |-> IF t = f3 THEN c2 ELSE c1]

BothHashes == {0, 1}
OneHash == {0}

Interchangeable == Permutations(Workers) \cup Permutations(Blocks)
FilesToo == Interchangeable \cup Permutations(Tasks)
=============================================================================
