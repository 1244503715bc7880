-------------------------- MODULE TransactionStorage --------------------------
(***************************************************************************)
(* Storage of transaction objects, transaction receipts and the simulation *)
(* result (storage.rs, lines 299-393 and 594-603).                         *)
(*                                                                         *)
(* An object is stored one field per child path, one store write per       *)
(* field, in the order of store_transaction_object; `to` is written only   *)
(* when the transaction has a recipient.  store_transaction_objects and    *)
(* store_transaction_receipts loop over a batch and stop at the first      *)
(* failing write; nothing is rolled back.                                  *)
(*                                                                         *)
(* Data is abstracted: a fixed-size field holds a value naming what was    *)
(* written there; a receipt blob and the simulation result are sequences   *)
(* of atoms, since their length matters to a write that does not truncate. *)
(***************************************************************************)
EXTENDS Naturals, Sequences, DurableStore

CONSTANTS
    TxHashes,       \* transaction hashes (model values)
    BlockIds,       \* the blocks objects are stored for: [hash, number]
    Objects,        \* transaction objects: [hash, to, index, gasUsed]; `to`
                    \* is whether the transaction has a recipient
    Batches,        \* the object lists store_transaction_objects is given
    Receipts,       \* receipts: [hash, len], len the length of its encoding
    ReceiptBatches, \* the receipt lists store_transaction_receipts is given
    SimAtoms,       \* the bytes a simulation result is made of
    SimResults,     \* simulation results: sequences of SimAtoms
    StoreFailures   \* whether a host store write may fail

\* A signed transaction fixes its recipient: two objects of one hash differ
\* only in what the block they are executed in decides.
ASSUME ToAssumption ==
    \A o1, o2 \in Objects : o1.hash = o2.hash => o1.to = o2.to
\* A block holds a transaction at most once.
ASSUME BatchesAssumption ==
    /\ Batches \subseteq Seq(Objects)
    /\ \A os \in Batches : \A i, j \in 1 .. Len(os) : os[i].hash = os[j].hash => i = j
ASSUME ReceiptBatchesAssumption ==
    /\ ReceiptBatches \subseteq Seq(Receipts)
    /\ \A rs \in ReceiptBatches : \A i, j \in 1 .. Len(rs) : rs[i].hash = rs[j].hash => i = j
ASSUME SimResultsAssumption == SimResults \subseteq Seq(SimAtoms)
\* What the proofs need of the inputs: an object and a receipt belong to a
\* transaction hash, and an RLP encoding is never empty.
ASSUME ObjectsAssumption ==
    \A o \in Objects : o.hash \in TxHashes /\ o.to \in BOOLEAN
ASSUME ReceiptsAssumption ==
    \A r \in Receipts : r.hash \in TxHashes /\ r.len \in Nat \ {0}
ASSUME NoneAssumption ==
    /\ None \notin Seq(Receipts \X Nat) \cup Seq(SimAtoms) \cup TxHashes
    /\ None \notin [op : {"objects", "receipts", "simulation"},
                    arg : (BlockIds \X Batches) \cup ReceiptBatches \cup SimResults \cup {None},
                    ok : BOOLEAN]
ASSUME StoreFailuresAssumption == StoreFailures \in BOOLEAN

\* The child paths of store_transaction_object, in the order it writes them.
FieldOrder == <<"block_hash", "block_number", "from", "gas_used", "gas_price",
                "input", "nonce", "to", "index", "value", "v", "r", "s">>

\* The position of `to` in FieldOrder.
ToPos == 8

\* The layout of an object in spec.md (section 5): the fields above and
\* the transaction hash.
ObjectFields == {FieldOrder[i] : i \in 1 .. Len(FieldOrder)} \cup {"hash"}

\* Mutant of FieldValue: the block hash written at block_number.
FieldValueNumberAsHash(b, o, f) ==
    <<f, CASE f \in {"block_hash", "block_number"} -> b.hash
           [] f = "index"        -> o.index
           [] f = "gas_used"     -> o.gasUsed
           [] OTHER              -> o.hash>>

\* What store_transaction_object writes at field f of object o in block b:
\* the block's hash and number, the object's index and gas used, and for
\* the other fields bytes that the signed transaction alone determines.
\* The field's name is kept with the value, as each has its own width.
FieldValue(b, o, f) ==
    <<f, CASE f = "block_hash"   -> b.hash
           [] f = "block_number" -> b.number
           [] f = "index"        -> o.index
           [] f = "gas_used"     -> o.gasUsed
           [] OTHER              -> o.hash>>

\* An encoded receipt: its first atom names the receipt, as an RLP header
\* determines what follows, so no encoding is a prefix of another.
Enc(r) == [i \in 1 .. r.len |-> <<r, i>>]

\* The result of a failed receipt read.
Err == [hash |-> None, len |-> 0]

VARIABLES
    obj,        \* obj[h][f]: /evm/transactions_objects/<h>/<f>, or None
    rcp,        \* rcp[h]: /evm/transactions_receipts/<h>, or None
    sim,        \* /simulation_result, or None
    (* Observation variable: not state of the program.                     *)
    lastCall    \* the last store call: which one, its arguments, its result

vars == <<obj, rcp, sim, lastCall>>

Init ==
    /\ obj = [h \in TxHashes |-> [f \in ObjectFields |-> None]]
    /\ rcp = [h \in TxHashes |-> None]
    /\ sim = None
    /\ lastCall = None

\* The values a field of an object may hold, by its width.
FieldDomain(f) ==
    CASE f = "block_hash"   -> {b.hash : b \in BlockIds}
      [] f = "block_number" -> {b.number : b \in BlockIds}
      [] f = "index"        -> {o.index : o \in Objects}
      [] f = "gas_used"     -> {o.gasUsed : o \in Objects}
      [] OTHER              -> TxHashes

\* Type invariant.
TypeOK ==
    /\ obj \in [TxHashes -> [ObjectFields -> (UNION {{f} \X FieldDomain(f) : f \in ObjectFields}) \cup {None}]]
    /\ \A h \in TxHashes, f \in ObjectFields : obj[h][f] \in ({f} \X FieldDomain(f)) \cup {None}
    /\ rcp \in [TxHashes -> Seq(Receipts \X Nat) \cup {None}]
    /\ sim \in Seq(SimAtoms) \cup {None}
    /\ lastCall \in [op : {"objects", "receipts", "simulation"}, arg : (BlockIds \X Batches) \cup ReceiptBatches \cup SimResults \cup {None},
                          ok : BOOLEAN] \cup {None}

-----------------------------------------------------------------------------
(* Reads.                                                                  *)

\* TransactionReceipt::from_rlp_bytes: the receipt whose encoding starts
\* the blob; the bytes after it are not looked at.
Decode(v) ==
    IF \E r \in Receipts : Len(Enc(r)) <= Len(v) /\ SubSeq(v, 1, Len(Enc(r))) = Enc(r)
    THEN CHOOSE r \in Receipts : Len(Enc(r)) <= Len(v) /\ SubSeq(v, 1, Len(Enc(r))) = Enc(r)
    ELSE Err

\* read_transaction_receipt: store_read_all fails on an absent path.
ReadTransactionReceipt(h) == IF rcp[h] = None THEN Err ELSE Decode(rcp[h])

-----------------------------------------------------------------------------
(* Writes.                                                                 *)

\* store_write_all (evm_execution, not in this repository): a receipt fits
\* in one MAX_FILE_CHUNK_SIZE chunk, so one store_write at offset 0.
StoreWriteAll(v, d) == StoreWrite(v, d, 0)

\* store_transaction_receipt(path, r): the RLP bytes of r, written whole.
StoreTransactionReceipt(v, r) == StoreWriteAll(v, Enc(r))

\* Mutant of store_transaction_object: `to` written whether present or not.
WritesAlwaysTo(o) == FieldOrder

\* The fields store_transaction_object writes for o, in order: `to` only
\* when the transaction has a recipient.
Writes(o) ==
    IF o.to THEN FieldOrder
    ELSE [i \in 1 .. Len(FieldOrder) - 1 |-> IF i < ToPos THEN FieldOrder[i] ELSE FieldOrder[i + 1]]

\* store_transaction_object(path, b.hash, b.number, o) of which the first n
\* writes succeed, applied to the object's fields old.
StoreTransactionObject(b, o, n, old) ==
    [f \in ObjectFields |->
        IF \E i \in 1 .. n : Writes(o)[i] = f THEN FieldValue(b, o, f) ELSE old[f]]

\* How a loop over a batch of objects ends: <<j, k>> when the (k+1)-th write
\* of the j-th object fails, <<Len(os) + 1, 0>> when every write succeeds.
ObjectOutcomes(os) ==
    {<<Len(os) + 1, 0>>} \cup
    IF StoreFailures
    THEN UNION {{<<j, k>> : k \in 0 .. Len(Writes(os[j])) - 1} : j \in 1 .. Len(os)}
    ELSE {}

\* store_transaction_objects(b, os): the objects in order, until a failure.
StoreTransactionObjects(b, os) ==
    \E oc \in ObjectOutcomes(os) :
        LET Done(i) == IF i < oc[1] THEN Len(Writes(os[i]))
                       ELSE IF i = oc[1] THEN oc[2] ELSE 0
            At(h) == CHOOSE i \in 1 .. Len(os) : os[i].hash = h
        IN  /\ obj' = [h \in TxHashes |->
                          IF \E i \in 1 .. Len(os) : os[i].hash = h
                          THEN StoreTransactionObject(b, os[At(h)], Done(At(h)), obj[h])
                          ELSE obj[h]]
            /\ lastCall' = [op |-> "objects", arg |-> <<b, os>>, ok |-> oc[1] = Len(os) + 1]
            /\ UNCHANGED <<rcp, sim>>

\* How a loop over a batch of receipts ends: j when the j-th write fails,
\* Len(rs) + 1 when every write succeeds.
ReceiptOutcomes(rs) == IF StoreFailures THEN 1 .. Len(rs) + 1 ELSE {Len(rs) + 1}

\* Mutant of store_transaction_receipts: the loop stops before the last one.
StoreTransactionReceiptsSkipLast(rs) ==
    \E j \in ReceiptOutcomes(rs) :
        /\ rcp' = [h \in TxHashes |->
                     IF \E i \in 1 .. j - 2 : rs[i].hash = h
                     THEN StoreTransactionReceipt(rcp[h], rs[CHOOSE i \in 1 .. Len(rs) : rs[i].hash = h])
                     ELSE rcp[h]]
        /\ lastCall' = [op |-> "receipts", arg |-> rs, ok |-> j = Len(rs) + 1]
        /\ UNCHANGED <<obj, sim>>

\* Mutant of store_transaction_receipts: a failing write is skipped and the
\* loop goes on with the next receipt.
StoreTransactionReceiptsSkipFailed(rs) ==
    \E j \in ReceiptOutcomes(rs) :
        /\ rcp' = [h \in TxHashes |->
                     IF \E i \in (1 .. Len(rs)) \ {j} : rs[i].hash = h
                     THEN StoreTransactionReceipt(rcp[h], rs[CHOOSE i \in 1 .. Len(rs) : rs[i].hash = h])
                     ELSE rcp[h]]
        /\ lastCall' = [op |-> "receipts", arg |-> rs, ok |-> j = Len(rs) + 1]
        /\ UNCHANGED <<obj, sim>>

\* store_transaction_receipts(rs): store_transaction_receipt for each
\* receipt in order, until a failure.
StoreTransactionReceipts(rs) ==
    \E j \in ReceiptOutcomes(rs) :
        /\ rcp' = [h \in TxHashes |->
                     IF \E i \in 1 .. j - 1 : rs[i].hash = h
                     THEN StoreTransactionReceipt(rcp[h], rs[CHOOSE i \in 1 .. Len(rs) : rs[i].hash = h])
                     ELSE rcp[h]]
        /\ lastCall' = [op |-> "receipts", arg |-> rs, ok |-> j = Len(rs) + 1]
        /\ UNCHANGED <<obj, sim>>

\* store_simulation_result(res): one store write when there is a result.
StoreSimulationResult(res) ==
    \E ok \in IF StoreFailures /\ res # None THEN BOOLEAN ELSE {TRUE} :
        /\ sim' = IF res # None /\ ok THEN StoreWrite(sim, res, 0) ELSE sim
        /\ lastCall' = [op |-> "simulation", arg |-> res, ok |-> ok]
        /\ UNCHANGED <<obj, rcp>>

Next ==
    \/ \E b \in BlockIds, os \in Batches : StoreTransactionObjects(b, os)
    \/ \E rs \in ReceiptBatches : StoreTransactionReceipts(rs)
    \/ \E res \in SimResults \cup {None} : StoreSimulationResult(res)

Spec == Init /\ [][Next]_vars

-----------------------------------------------------------------------------
(* Properties.                                                             *)

\* Object round trip: right after store_transaction_objects(b, os) returns
\* Ok, every field it writes holds what the call wrote for b, and `to` is
\* absent exactly for the contract creations, whatever earlier calls, for
\* other blocks and failed part way, left in the same paths.
ObjectRoundTrip ==
    lastCall # None /\ lastCall.op = "objects" /\ lastCall.ok =>
        LET b == lastCall.arg[1]
            os == lastCall.arg[2]
        IN  \A i \in 1 .. Len(os), f \in ObjectFields \ {"hash"} :
                obj[os[i].hash][f] =
                    IF f = "to" /\ ~os[i].to THEN None ELSE FieldValue(b, os[i], f)

\* Receipt round trip: right after store_transaction_receipts(rs) returns
\* Ok, read_transaction_receipt returns each receipt of rs, even where a
\* longer receipt of the same hash was stored before and its tail is left.
ReceiptRoundTrip ==
    lastCall # None /\ lastCall.op = "receipts" /\ lastCall.ok =>
        \A i \in 1 .. Len(lastCall.arg) :
            ReadTransactionReceipt(lastCall.arg[i].hash) = lastCall.arg[i]

\* Simulation result: right after store_simulation_result(Some(r)) returns
\* Ok, /simulation_result holds r.
SimulationResultStored ==
    lastCall # None /\ lastCall.op = "simulation" /\ lastCall.ok /\ lastCall.arg # None =>
        sim = lastCall.arg

-----------------------------------------------------------------------------
(* Refinement of the receipt map.                                          *)

\* The receipt a reader decodes at each hash, or None.
ReceiptsRead == [h \in TxHashes |-> IF rcp[h] = None THEN None ELSE Decode(rcp[h])]

AbstractReceipts == INSTANCE ReceiptMap WITH receipts <- ReceiptsRead

\* Receipt storage implements the receipt map even though a write does not
\* truncate and a batch may stop at any failing write: every
\* store_transaction_receipts call puts a prefix of its batch, each receipt
\* decoded whole over what was stored for its hash before.
RefinesReceiptMap == AbstractReceipts!Spec

=============================================================================
