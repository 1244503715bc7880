--------------------------- MODULE MC_BlockStorage ---------------------------
(* Model-checking instances of BlockStorage: three blocks, one of them     *)
(* with no transaction, and variants that store a number twice or store a *)
(* number past the pointer's read width.                                   *)
EXTENDS BlockStorage, TLC

CONSTANTS t1, t2, bh0, bh1, bh2

MCTxHashes == {t1, t2}

\* Every number names one block.
MCBlocks ==
    {[number |-> 0, hash |-> bh0, transactions |-> <<t1, t2>>],
     [number |-> 1, hash |-> bh1, transactions |-> << >>],
     [number |-> 2, hash |-> bh2, transactions |-> <<t2>>]}

\* Four numbers, each naming one block, all below the pointer's read width.
MCBlocksFour ==
    MCBlocks \cup {[number |-> 3, hash |-> bh0, transactions |-> <<t2, t1>>]}

\* Number 0 is stored with two transactions and with one.
MCBlocksRewrite ==
    {[number |-> 0, hash |-> bh0, transactions |-> <<t1, t2>>],
     [number |-> 0, hash |-> bh1, transactions |-> <<t1>>]}

\* Number 4 is at the pointer's read width.
MCBlocksWide ==
    {[number |-> 0, hash |-> bh0, transactions |-> <<t1>>],
     [number |-> 4, hash |-> bh1, transactions |-> <<t2>>]}
=============================================================================
