\* Block round trip for a block number at the pointer read width (2^64, here 4).
CONSTANTS
    t1 = t1
    t2 = t2
    bh0 = bh0
    bh1 = bh1
    bh2 = bh2
    None = None
    TxHashes <- MCTxHashes
    Blocks <- MCBlocksWide
    PtrReadMod = 4
    MaxTxHashes = 2
    StoreFailures = FALSE
SPECIFICATION Spec
INVARIANT BlockRoundTrip
