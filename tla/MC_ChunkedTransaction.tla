------------------------ MODULE MC_ChunkedTransaction ------------------------
(* Model-checking instance of ChunkedTransaction.  A 2-bit word (Word = 4) *)
(* stands for the u16 of num_chunks, indices and the subkey count, so that *)
(* num_chunks reaches the top of its range and the count could wrap.  One  *)
(* hash: the subtrees of distinct hashes are disjoint paths and no         *)
(* operation reads one hash's subtree while writing another's.             *)
EXTENDS ChunkedTransaction, TLC

CONSTANTS h1

MCHashes == {h1}
MCWord == 4
MCBigIdx == {1}

=============================================================================
