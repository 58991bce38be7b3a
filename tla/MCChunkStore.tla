---------------------------- MODULE MCChunkStore ----------------------------
(* Instances of ChunkStore for TLC. *)
EXTENDS ChunkStore, TLC

CONSTANTS telegram, max, b1, b2, b3, d1

\* A batch of two in each process, one more batch and a delete beside them.
ProcOfJob == b1 :> telegram @@ b2 :> max @@ b3 :> telegram @@ d1 :> max
SizeOfJob == b1 :> 2 @@ b2 :> 2 @@ b3 :> 1 @@ d1 :> 0

\* Two batches in the threads of one process.
OneProcess == b1 :> telegram @@ b2 :> telegram
TwoEach == b1 :> 2 @@ b2 :> 2
=============================================================================
