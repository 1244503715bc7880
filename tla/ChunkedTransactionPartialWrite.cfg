\* Clean reassembly when the second write of a split fragment may fail.
CONSTANTS
    h1 = h1
    Hashes <- MCHashes
    Word <- MCWord
    BigIdx <- MCBigIdx
    StoreFailures = TRUE
    None = None
SPECIFICATION Spec
INVARIANT CleanReassembly
