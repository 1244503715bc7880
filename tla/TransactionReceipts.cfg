CONSTANTS
    t1 = t1
    t2 = t2
    bh1 = bh1
    bh2 = bh2
    g1 = g1
    g2 = g2
    a1 = a1
    a2 = a2
    None = None
    TxHashes <- MCTxHashes
    BlockIds <- MCBlockIds
    Objects <- MCObjects
    Batches <- MCNoBatches
    Receipts <- MCReceipts
    ReceiptBatches <- MCReceiptBatches
    SimAtoms <- MCSimAtoms
    SimResults <- MCSimResults
    StoreFailures = TRUE
SPECIFICATION Spec
INVARIANT ReceiptRoundTrip
PROPERTY RefinesReceiptMap
