\* Reassembly safety with reliable store writes.
CONSTANTS
    h1 = h1

    Hashes <- MCHashes
    Word <- MCWord
    BigIdx <- MCBigIdx
    StoreFailures = FALSE
    None = None
SPECIFICATION Spec
INVARIANT TypeOK
INVARIANT CountInv
INVARIANT CleanReassembly
