\* Every created transaction is eventually closed when its author keeps
\* resubmitting fragments; store writes may fail.
CONSTANTS
    h1 = h1
    Hashes <- MCHashes
    Word <- MCWord
    BigIdx <- MCBigIdx
    StoreFailures = TRUE
    None = None
SPECIFICATION FairSpec
PROPERTY EventuallyClosed
