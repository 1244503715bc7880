\* The spec's promise that duplicate fragment delivery is tolerated.
CONSTANTS
    h1 = h1
    Hashes <- MCHashes
    Word <- MCWord
    BigIdx <- MCBigIdx
    StoreFailures = FALSE
    None = None
SPECIFICATION Spec
INVARIANT RetryTolerantReassembly
