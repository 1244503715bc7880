\* Block round trip when block number 0 is stored twice, with fewer transactions the second time.
CONSTANTS
    t1 = t1
    t2 = t2
    bh0 = bh0
    bh1 = bh1
    bh2 = bh2
    None = None
    TxHashes <- MCTxHashes
    Blocks <- MCBlocksRewrite
    PtrReadMod = 4
    MaxTxHashes = 2
    StoreFailures = FALSE
SPECIFICATION Spec
INVARIANT BlockRoundTrip
