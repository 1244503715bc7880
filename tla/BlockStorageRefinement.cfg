\* Refinement of the block map: no store write fails, one block per number.
CONSTANTS
    t1 = t1
    t2 = t2
    bh0 = bh0
    bh1 = bh1
    bh2 = bh2
    None = None
    TxHashes <- MCTxHashes
    Blocks <- MCBlocksFour
    PtrReadMod = 4
    MaxTxHashes = 2
    StoreFailures = FALSE
SPECIFICATION Spec
INVARIANT CurrentBlockRead
PROPERTY RefinesBlockMap
