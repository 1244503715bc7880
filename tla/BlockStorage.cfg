\* Block round trip, store writes may fail, one block per number.
CONSTANTS
    t1 = t1
    t2 = t2
    bh0 = bh0
    bh1 = bh1
    bh2 = bh2
    None = None
    TxHashes <- MCTxHashes
    Blocks <- MCBlocks
    PtrReadMod = 4
    MaxTxHashes = 2
    StoreFailures = TRUE
SPECIFICATION Spec
INVARIANT TypeOK
INVARIANT BlockRoundTrip
