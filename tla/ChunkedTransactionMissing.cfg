\* spec.md 4.3: at completion exactly one index below num_chunks is missing.
CONSTANTS
    h1 = h1
    Hashes <- MCHashes
    Word <- MCWord
    BigIdx <- MCBigIdx
    StoreFailures = FALSE
    None = None
SPECIFICATION Spec
INVARIANT OneMissingAtCompletion
