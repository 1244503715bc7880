------------------------------ MODULE ReceiptMap ------------------------------
(***************************************************************************)
(* What the receipt store promises (spec.md section 5): a map from         *)
(* transaction hashes to receipts.  A batch store puts the receipts of the *)
(* batch in order and may stop after any of them; what was put is read     *)
(* back whole, whatever was stored for the hash before.                    *)
(***************************************************************************)
EXTENDS Naturals, Sequences

CONSTANTS
    TxHashes,       \* transaction hashes
    Receipts,       \* receipts: [hash, ...]
    ReceiptBatches, \* the receipt lists a batch store is given
    None            \* no receipt

VARIABLE receipts   \* receipts[h]: the receipt of h, or None

Init == receipts = [h \in TxHashes |-> None]

\* The first j receipts of rs put, each at its hash.
PutPrefix(rs, j) ==
    receipts' = [h \in TxHashes |->
                   IF \E i \in 1 .. j : rs[i].hash = h
                   THEN rs[CHOOSE i \in 1 .. j : rs[i].hash = h]
                   ELSE receipts[h]]

Next == \E rs \in ReceiptBatches : \E j \in 0 .. Len(rs) : PutPrefix(rs, j)

Spec == Init /\ [][Next]_receipts

=============================================================================
