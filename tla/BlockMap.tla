------------------------------- MODULE BlockMap -------------------------------
(***************************************************************************)
(* What block storage promises (spec.md sections 4.2 and 8): a map from    *)
(* block numbers to blocks and a pointer to the current block.  Storing a  *)
(* block replaces the block at its number; storing the current block also *)
(* moves the pointer to it.  The whole block is stored in one step.        *)
(***************************************************************************)
CONSTANTS
    Blocks,     \* records [number, hash, transactions]
    None        \* no block, no pointer

Numbers == {b.number : b \in Blocks}

VARIABLES
    blocks,     \* blocks[n]: the block stored at number n, or None
    current     \* the number of the current block, or None

Init ==
    /\ blocks = [n \in Numbers |-> None]
    /\ current = None

Put(b) ==
    /\ blocks' = [blocks EXCEPT ![b.number] = b]
    /\ UNCHANGED current

PutCurrent(b) ==
    /\ blocks' = [blocks EXCEPT ![b.number] = b]
    /\ current' = b.number

Next == \E b \in Blocks : Put(b) \/ PutCurrent(b)

Spec == Init /\ [][Next]_<<blocks, current>>

\* The current block as a reader sees it.
CurrentBlock == IF current = None THEN None ELSE blocks[current]

=============================================================================
