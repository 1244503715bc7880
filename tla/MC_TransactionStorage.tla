------------------------ MODULE MC_TransactionStorage ------------------------
(* Model-checking instance of TransactionStorage: two transactions, one a  *)
(* contract creation, each executed in two blocks at another index with    *)
(* another gas use; receipts of one hash with encodings of two lengths;    *)
(* simulation results of two lengths.                                      *)
EXTENDS TransactionStorage, TLC

CONSTANTS t1, t2, bh1, bh2, g1, g2, a1, a2

MCTxHashes == {t1, t2}

MCBlockIds == {[hash |-> bh1, number |-> 1], [hash |-> bh2, number |-> 2]}

\* t1 has a recipient, t2 is a contract creation.
MCObjects ==
    {[hash |-> t1, to |-> TRUE, index |-> 0, gasUsed |-> g1],
     [hash |-> t1, to |-> TRUE, index |-> 1, gasUsed |-> g2],
     [hash |-> t2, to |-> FALSE, index |-> 1, gasUsed |-> g1],
     [hash |-> t2, to |-> FALSE, index |-> 0, gasUsed |-> g2]}

\* The two transactions in one order in one block, in the other in another.
MCBatches ==
    {<<[hash |-> t1, to |-> TRUE, index |-> 0, gasUsed |-> g1],
       [hash |-> t2, to |-> FALSE, index |-> 1, gasUsed |-> g1]>>,
     <<[hash |-> t2, to |-> FALSE, index |-> 0, gasUsed |-> g2],
       [hash |-> t1, to |-> TRUE, index |-> 1, gasUsed |-> g2]>>}

MCReceipts ==
    {[hash |-> t1, len |-> 2], [hash |-> t1, len |-> 1], [hash |-> t2, len |-> 1]}

\* The receipt of t1 is long in one batch and short in the other.
MCReceiptBatches ==
    {<<[hash |-> t1, len |-> 2], [hash |-> t2, len |-> 1]>>,
     <<[hash |-> t1, len |-> 1]>>}

MCSimAtoms == {a1, a2}

MCSimResults == {<<a1, a1>>, <<a2>>}

\* The run on objects leaves receipts and results out, and the run on
\* receipts leaves objects out: the stores share no path, and their
\* product only multiplies the states.
MCNoBatches == {}

MCNoReceiptBatches == {}

MCNoSimResults == {}
=============================================================================
