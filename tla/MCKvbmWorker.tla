---------------------------- MODULE MCKvbmWorker ----------------------------
(* Instances of KvbmWorker for TLC.                                         *)
EXTENDS KvbmWorker, TLC

CONSTANTS w1, w2, s1, s2

\* Replicated mode: w1 is rank 0, w2 is rank 1.
ReplicatedRank == (w1 :> 0) @@ (w2 :> 1)
ShardedRank == [w \in Workers |-> NoRank]

\* layout_blocking: every constructor waits, or that of w1 only.
AllBlocking == [w \in Workers |-> TRUE]
FirstBlocking == [w \in Workers |-> w = w1]

SlotSymmetry == Permutations(Slots)
=============================================================================
