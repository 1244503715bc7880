----------------------- MODULE TransactionStorageProofs -----------------------
(***************************************************************************)
(* Proofs about transaction storage, for every set of transactions,       *)
(* blocks, batches and receipts: the store keeps its type, and a batch     *)
(* store that returns Ok is read back, whatever earlier stores of other    *)
(* blocks left at the same paths.                                          *)
(***************************************************************************)
EXTENDS TransactionStorage, DurableStoreProofs

-----------------------------------------------------------------------------
(* Lemmas on the field layout.                                             *)

\* store_transaction_object writes every field of the layout but the
\* transaction hash, and `to` only when the transaction has a recipient.
LEMMA WritesFields ==
  ASSUME NEW o \in Objects
  PROVE  /\ Len(Writes(o)) \in Nat
         /\ \A f \in ObjectFields \ {"hash"} :
               (f # "to" \/ o.to) => \E i \in 1 .. Len(Writes(o)) : Writes(o)[i] = f
         /\ ~o.to => \A i \in 1 .. Len(Writes(o)) : Writes(o)[i] # "to"
<1>1. o.to \in BOOLEAN
  BY ObjectsAssumption
<1>2. CASE o.to
  BY <1>2 DEF Writes, FieldOrder, ObjectFields
<1>3. CASE ~o.to
  BY <1>3 DEF Writes, FieldOrder, ObjectFields, ToPos
<1>4. QED
  BY <1>1, <1>2, <1>3

\* What store_transaction_object writes at a field fits the field's width.
LEMMA FieldValueType ==
  ASSUME NEW b \in BlockIds, NEW o \in Objects, NEW f \in ObjectFields
  PROVE  FieldValue(b, o, f) \in {f} \X FieldDomain(f)
BY ObjectsAssumption DEF FieldValue, FieldDomain

\* An encoded receipt is a sequence of receipt atoms of its length.
LEMMA EncType ==
  ASSUME NEW r \in Receipts
  PROVE  Enc(r) \in Seq(Receipts \X Nat) /\ Len(Enc(r)) = r.len /\ r.len \in Nat \ {0}
BY ReceiptsAssumption DEF Enc

-----------------------------------------------------------------------------
(* Type correctness.                                                       *)

\* The values field f of an object may hold.
FieldType(f) == ({f} \X FieldDomain(f)) \cup {None}

FieldTypes == (UNION {{f} \X FieldDomain(f) : f \in ObjectFields}) \cup {None}

\* store_transaction_object keeps each field within its width, however
\* many of its writes succeed.
LEMMA StoreObjectType ==
  ASSUME NEW b \in BlockIds, NEW o \in Objects, NEW n,
         NEW old \in [ObjectFields -> FieldTypes],
         \A f \in ObjectFields : old[f] \in FieldType(f)
  PROVE  /\ StoreTransactionObject(b, o, n, old) \in [ObjectFields -> FieldTypes]
         /\ \A f \in ObjectFields : StoreTransactionObject(b, o, n, old)[f] \in FieldType(f)
<1>1. \A f \in ObjectFields : StoreTransactionObject(b, o, n, old)[f] \in FieldType(f)
  BY FieldValueType DEF StoreTransactionObject, FieldType
<1>2. QED
  BY <1>1 DEF StoreTransactionObject, FieldType, FieldTypes

LEMMA InitTypeOK == Init => TypeOK
<1> SUFFICES ASSUME Init PROVE TypeOK
  OBVIOUS
<1>1. obj \in [TxHashes -> [ObjectFields -> FieldTypes]]
  BY DEF Init, FieldTypes
<1>2. \A h \in TxHashes, f \in ObjectFields : obj[h][f] \in FieldType(f)
  BY DEF Init, FieldType
<1>3. QED
  BY <1>1, <1>2 DEF Init, TypeOK, FieldType, FieldTypes

\* The type is kept by each of the three store calls.
LEMMA NextTypeOK == TypeOK /\ [Next]_vars => TypeOK'
<1> SUFFICES ASSUME TypeOK, [Next]_vars PROVE TypeOK'
  OBVIOUS
<1>1. \A h \in TxHashes : obj[h] \in [ObjectFields -> FieldTypes]
                          /\ \A f \in ObjectFields : obj[h][f] \in FieldType(f)
  BY DEF TypeOK, FieldType, FieldTypes
<1>2. ASSUME NEW b \in BlockIds, NEW os \in Batches, StoreTransactionObjects(b, os)
      PROVE  TypeOK'
  <2>1. os \in Seq(Objects)
    BY BatchesAssumption
  <2>2. PICK oc \in ObjectOutcomes(os) :
          LET Done(i) == IF i < oc[1] THEN Len(Writes(os[i]))
                         ELSE IF i = oc[1] THEN oc[2] ELSE 0
              At(h) == CHOOSE i \in 1 .. Len(os) : os[i].hash = h
          IN  /\ obj' = [h \in TxHashes |->
                            IF \E i \in 1 .. Len(os) : os[i].hash = h
                            THEN StoreTransactionObject(b, os[At(h)], Done(At(h)), obj[h])
                            ELSE obj[h]]
              /\ lastCall' = [op |-> "objects", arg |-> <<b, os>>, ok |-> oc[1] = Len(os) + 1]
              /\ UNCHANGED <<rcp, sim>>
    BY <1>2 DEF StoreTransactionObjects
  <2>3. \A h \in TxHashes : obj'[h] \in [ObjectFields -> FieldTypes]
                            /\ \A f \in ObjectFields : obj'[h][f] \in FieldType(f)
    <3> SUFFICES ASSUME NEW h \in TxHashes
                 PROVE  obj'[h] \in [ObjectFields -> FieldTypes]
                        /\ \A f \in ObjectFields : obj'[h][f] \in FieldType(f)
      OBVIOUS
    <3>1. CASE \E i \in 1 .. Len(os) : os[i].hash = h
      <4> DEFINE At == CHOOSE i \in 1 .. Len(os) : os[i].hash = h
      <4>1. At \in 1 .. Len(os) /\ os[At] \in Objects
        BY <3>1, <2>1
      <4>2. PICK n : obj'[h] = StoreTransactionObject(b, os[At], n, obj[h])
        BY <2>2, <3>1
      <4>3. obj[h] \in [ObjectFields -> FieldTypes]
            /\ \A f \in ObjectFields : obj[h][f] \in FieldType(f)
        BY <1>1
      <4>4. /\ StoreTransactionObject(b, os[At], n, obj[h]) \in [ObjectFields -> FieldTypes]
            /\ \A f \in ObjectFields : StoreTransactionObject(b, os[At], n, obj[h])[f] \in FieldType(f)
        BY <4>1, <4>3, StoreObjectType
      <4>5. QED
        BY <4>2, <4>4
    <3>2. CASE ~\E i \in 1 .. Len(os) : os[i].hash = h
      BY <2>2, <3>2, <1>1
    <3>3. QED
      BY <3>1, <3>2
  <2>4. obj' \in [TxHashes -> [ObjectFields -> FieldTypes]]
    BY <2>2, <2>3
  <2>5. QED
    BY <2>2, <2>3, <2>4 DEF TypeOK, FieldType, FieldTypes
<1>3. ASSUME NEW rs \in ReceiptBatches, StoreTransactionReceipts(rs)
      PROVE  TypeOK'
  <2>1. rs \in Seq(Receipts)
    BY ReceiptBatchesAssumption
  <2>2. PICK j \in ReceiptOutcomes(rs) :
          /\ rcp' = [h \in TxHashes |->
                       IF \E i \in 1 .. j - 1 : rs[i].hash = h
                       THEN StoreTransactionReceipt(rcp[h], rs[CHOOSE i \in 1 .. Len(rs) : rs[i].hash = h])
                       ELSE rcp[h]]
          /\ lastCall' = [op |-> "receipts", arg |-> rs, ok |-> j = Len(rs) + 1]
          /\ UNCHANGED <<obj, sim>>
    BY <1>3 DEF StoreTransactionReceipts
  <2>3. j \in 1 .. Len(rs) + 1
    BY <2>1 DEF ReceiptOutcomes
  <2>4. ASSUME NEW h \in TxHashes PROVE rcp'[h] \in Seq(Receipts \X Nat) \cup {None}
    <3>1. CASE \E i \in 1 .. j - 1 : rs[i].hash = h
      <4> DEFINE r == rs[CHOOSE i \in 1 .. Len(rs) : rs[i].hash = h]
      <4>1. r \in Receipts
        BY <2>1, <2>3, <3>1
      <4>2. rcp'[h] = StoreWrite(rcp[h], Enc(r), 0)
        BY <2>2, <3>1 DEF StoreTransactionReceipt, StoreWriteAll
      <4>3. rcp[h] \in Seq(Receipts \X Nat) \cup {None}
        BY DEF TypeOK
      <4>4. QED
        BY <4>1, <4>2, <4>3, EncType, NoneAssumption, StoreWriteSeq
    <3>2. CASE ~\E i \in 1 .. j - 1 : rs[i].hash = h
      BY <2>2, <3>2 DEF TypeOK
    <3>3. QED
      BY <3>1, <3>2
  <2>5. QED
    BY <2>2, <2>4 DEF TypeOK
<1>4. ASSUME NEW res \in SimResults \cup {None}, StoreSimulationResult(res)
      PROVE  TypeOK'
  <2>1. PICK ok \in BOOLEAN :
          /\ sim' = IF res # None /\ ok THEN StoreWrite(sim, res, 0) ELSE sim
          /\ lastCall' = [op |-> "simulation", arg |-> res, ok |-> ok]
          /\ UNCHANGED <<obj, rcp>>
    BY <1>4 DEF StoreSimulationResult
  <2>2. sim' \in Seq(SimAtoms) \cup {None}
    <3>1. CASE res # None /\ ok
      BY <2>1, <3>1, SimResultsAssumption, NoneAssumption, StoreWriteSeq DEF TypeOK
    <3>2. QED
      BY <2>1, <3>1 DEF TypeOK
  <2>3. QED
    BY <2>1, <2>2 DEF TypeOK
<1>5. CASE UNCHANGED vars
  BY <1>5 DEF vars, TypeOK
<1>6. QED
  BY <1>2, <1>3, <1>4, <1>5 DEF Next

\* Type correctness of transaction storage.
THEOREM TransactionTypeCorrect == Spec => []TypeOK
BY InitTypeOK, NextTypeOK, PTL DEF Spec

-----------------------------------------------------------------------------
(* The object round trip.                                                  *)

\* A contract creation has never had its `to` written: no object of its
\* hash has a recipient, and only a write of such an object writes `to`.
NoToForCreations == \A o \in Objects : ~o.to => obj[o.hash]["to"] = None

ObjectInv == TypeOK /\ NoToForCreations /\ ObjectRoundTrip

\* How many writes of the i-th object of os a loop that ends at oc makes.
Done(oc, os, i) == IF i < oc[1] THEN Len(Writes(os[i]))
                   ELSE IF i = oc[1] THEN oc[2] ELSE 0

\* A loop over a batch makes, for each object, at most the writes of
\* store_transaction_object, and all of them when it returns Ok.
LEMMA DoneBound ==
  ASSUME NEW os \in Seq(Objects), NEW oc \in ObjectOutcomes(os), NEW i \in 1 .. Len(os)
  PROVE  /\ Done(oc, os, i) \in 0 .. Len(Writes(os[i]))
         /\ oc[1] = Len(os) + 1 => Done(oc, os, i) = Len(Writes(os[i]))
<1>1. \A j \in 1 .. Len(os) : Len(Writes(os[j])) \in Nat
  BY WritesFields
<1>2. \/ oc = <<Len(os) + 1, 0>>
      \/ \E j \in 1 .. Len(os) : oc[1] = j /\ oc[2] \in 0 .. Len(Writes(os[j])) - 1
  BY DEF ObjectOutcomes
<1>3. QED
  BY <1>1, <1>2 DEF Done

\* What store_transaction_objects(b, os) does to each object's fields: the
\* i-th object gets the first Done(oc, os, i) of its writes, and the
\* objects of other hashes are left alone.
LEMMA ObjectsStep ==
  ASSUME NEW b \in BlockIds, NEW os \in Batches, StoreTransactionObjects(b, os)
  PROVE  \E oc \in ObjectOutcomes(os) :
           /\ lastCall' = [op |-> "objects", arg |-> <<b, os>>, ok |-> oc[1] = Len(os) + 1]
           /\ \A i \in 1 .. Len(os), f \in ObjectFields :
                 obj'[os[i].hash][f] =
                    IF \E k \in 1 .. Done(oc, os, i) : Writes(os[i])[k] = f
                    THEN FieldValue(b, os[i], f) ELSE obj[os[i].hash][f]
           /\ \A h \in TxHashes : (\A i \in 1 .. Len(os) : os[i].hash # h) => obj'[h] = obj[h]
           /\ UNCHANGED <<rcp, sim>>
<1>1. os \in Seq(Objects) /\ \A i, j \in 1 .. Len(os) : os[i].hash = os[j].hash => i = j
  BY BatchesAssumption
<1>2. PICK oc \in ObjectOutcomes(os) :
        LET Dn(i) == IF i < oc[1] THEN Len(Writes(os[i]))
                     ELSE IF i = oc[1] THEN oc[2] ELSE 0
            At(h) == CHOOSE i \in 1 .. Len(os) : os[i].hash = h
        IN  /\ obj' = [h \in TxHashes |->
                          IF \E i \in 1 .. Len(os) : os[i].hash = h
                          THEN StoreTransactionObject(b, os[At(h)], Dn(At(h)), obj[h])
                          ELSE obj[h]]
            /\ lastCall' = [op |-> "objects", arg |-> <<b, os>>, ok |-> oc[1] = Len(os) + 1]
            /\ UNCHANGED <<rcp, sim>>
  BY DEF StoreTransactionObjects
<1>3. ASSUME NEW i \in 1 .. Len(os)
      PROVE  (CHOOSE j \in 1 .. Len(os) : os[j].hash = os[i].hash) = i
  BY <1>1
<1>4. \A i \in 1 .. Len(os) : os[i].hash \in TxHashes
  BY <1>1, ObjectsAssumption
<1>5. \A i \in 1 .. Len(os), f \in ObjectFields :
         obj'[os[i].hash][f] =
            IF \E k \in 1 .. Done(oc, os, i) : Writes(os[i])[k] = f
            THEN FieldValue(b, os[i], f) ELSE obj[os[i].hash][f]
  BY <1>2, <1>3, <1>4 DEF StoreTransactionObject, Done
<1>6. QED
  BY <1>2, <1>5

LEMMA InitObjectInv == Init => ObjectInv
<1> SUFFICES ASSUME Init PROVE ObjectInv
  OBVIOUS
<1>1. "to" \in ObjectFields
  BY DEF ObjectFields, FieldOrder
<1>2. NoToForCreations
  BY <1>1, ObjectsAssumption DEF Init, NoToForCreations
<1>3. QED
  BY <1>2, InitTypeOK DEF Init, ObjectInv, ObjectRoundTrip

\* A store of objects keeps `to` absent for contract creations and, when
\* it returns Ok, leaves every object it was given as it wrote it.
LEMMA ObjectsObjectInv ==
  ASSUME ObjectInv, NEW b \in BlockIds, NEW os \in Batches, StoreTransactionObjects(b, os)
  PROVE  NoToForCreations' /\ ObjectRoundTrip'
<1>1. os \in Seq(Objects)
  BY BatchesAssumption
<1>2. PICK oc \in ObjectOutcomes(os) :
         /\ lastCall' = [op |-> "objects", arg |-> <<b, os>>, ok |-> oc[1] = Len(os) + 1]
         /\ \A i \in 1 .. Len(os), f \in ObjectFields :
               obj'[os[i].hash][f] =
                  IF \E k \in 1 .. Done(oc, os, i) : Writes(os[i])[k] = f
                  THEN FieldValue(b, os[i], f) ELSE obj[os[i].hash][f]
         /\ \A h \in TxHashes : (\A i \in 1 .. Len(os) : os[i].hash # h) => obj'[h] = obj[h]
  BY ObjectsStep
<1>3. NoToForCreations'
  <2> SUFFICES ASSUME NEW o \in Objects, ~o.to PROVE obj'[o.hash]["to"] = None
    BY DEF NoToForCreations
  <2>1. o.hash \in TxHashes /\ obj[o.hash]["to"] = None
    BY ObjectsAssumption DEF ObjectInv, NoToForCreations
  <2>2. CASE \E i \in 1 .. Len(os) : os[i].hash = o.hash
    <3>1. PICK i \in 1 .. Len(os) : os[i].hash = o.hash
      BY <2>2
    <3>2. os[i] \in Objects /\ ~os[i].to
      BY <1>1, <3>1, ToAssumption
    <3>3. \A k \in 1 .. Done(oc, os, i) : Writes(os[i])[k] # "to"
      BY <1>1, <3>2, DoneBound, WritesFields
    <3>4. "to" \in ObjectFields
      BY DEF ObjectFields, FieldOrder
    <3>5. QED
      BY <1>2, <2>1, <3>1, <3>3, <3>4
  <2>3. CASE ~\E i \in 1 .. Len(os) : os[i].hash = o.hash
    BY <1>2, <2>1, <2>3
  <2>4. QED
    BY <2>2, <2>3
<1>4. ObjectRoundTrip'
  <2>1. lastCall' \in [op : {"objects", "receipts", "simulation"},
                       arg : (BlockIds \X Batches) \cup ReceiptBatches \cup SimResults \cup {None},
                       ok : BOOLEAN]
    BY <1>2
  <2>2. /\ lastCall' # None /\ lastCall'.op = "objects"
        /\ lastCall'.arg[1] = b /\ lastCall'.arg[2] = os
        /\ lastCall'.ok = (oc[1] = Len(os) + 1)
    BY <1>2, <2>1, NoneAssumption
  <2>3. ASSUME oc[1] = Len(os) + 1,
               NEW i \in 1 .. Len(os), NEW f \in ObjectFields \ {"hash"}
        PROVE  obj'[os[i].hash][f] =
                 IF f = "to" /\ ~os[i].to THEN None ELSE FieldValue(b, os[i], f)
    <3>0. os[i] \in Objects
      BY <1>1
    <3>1. os[i] \in Objects /\ Done(oc, os, i) = Len(Writes(os[i]))
      BY <1>1, <2>3, <3>0, DoneBound
    <3>2. CASE f = "to" /\ ~os[i].to
      <4>1. obj[os[i].hash]["to"] = None
        BY <3>1, <3>2 DEF ObjectInv, NoToForCreations
      <4>2. \A k \in 1 .. Done(oc, os, i) : Writes(os[i])[k] # "to"
        BY <3>1, <3>2, WritesFields
      <4>3. QED
        BY <1>2, <3>2, <4>1, <4>2
    <3>3. CASE ~(f = "to" /\ ~os[i].to)
      <4>1. \E k \in 1 .. Done(oc, os, i) : Writes(os[i])[k] = f
        BY <3>1, <3>3, WritesFields
      <4>2. QED
        BY <1>2, <3>3, <4>1
    <3>4. QED
      BY <3>2, <3>3
  <2>4. QED
    BY <2>2, <2>3 DEF ObjectRoundTrip
<1>5. QED
  BY <1>3, <1>4

LEMMA NextObjectInv == ObjectInv /\ [Next]_vars => ObjectInv'
<1> SUFFICES ASSUME ObjectInv, [Next]_vars PROVE ObjectInv'
  OBVIOUS
<1>1. TypeOK'
  BY NextTypeOK DEF ObjectInv
<1>2. ASSUME NEW b \in BlockIds, NEW os \in Batches, StoreTransactionObjects(b, os)
      PROVE  ObjectInv'
  BY <1>1, <1>2, ObjectsObjectInv DEF ObjectInv
<1>3. ASSUME NEW rs \in ReceiptBatches, StoreTransactionReceipts(rs)
      PROVE  ObjectInv'
  BY <1>1, <1>3 DEF StoreTransactionReceipts, ObjectInv, NoToForCreations, ObjectRoundTrip
<1>4. ASSUME NEW res \in SimResults \cup {None}, StoreSimulationResult(res)
      PROVE  ObjectInv'
  BY <1>1, <1>4 DEF StoreSimulationResult, ObjectInv, NoToForCreations, ObjectRoundTrip
<1>5. CASE UNCHANGED vars
  BY <1>1, <1>5 DEF vars, ObjectInv, NoToForCreations, ObjectRoundTrip
<1>6. QED
  BY <1>2, <1>3, <1>4, <1>5 DEF Next

\* The object round trip of store_transaction_objects holds for every set
\* of transactions, blocks and batches, whatever writes failed before.
THEOREM ObjectRoundTripHolds == Spec => []ObjectRoundTrip
<1>1. Init => ObjectInv
  BY InitObjectInv
<1>2. ObjectInv /\ [Next]_vars => ObjectInv'
  BY NextObjectInv
<1>3. ObjectInv => ObjectRoundTrip
  BY DEF ObjectInv
<1>4. QED
  BY <1>1, <1>2, <1>3, PTL DEF Spec

-----------------------------------------------------------------------------
(* The receipt round trip.                                                 *)

\* Decoding a blob that starts with the encoding of r gives r, whatever
\* follows: the first atom of an encoding names its receipt.
LEMMA DecodeEnc ==
  ASSUME NEW r \in Receipts, NEW v \in Seq(Receipts \X Nat),
         Len(Enc(r)) <= Len(v), \A k \in 1 .. Len(Enc(r)) : v[k] = Enc(r)[k]
  PROVE  Decode(v) = r
<1> DEFINE Starts(q) == Len(Enc(q)) <= Len(v) /\ SubSeq(v, 1, Len(Enc(q))) = Enc(q)
<1>1. Starts(r)
  BY EncType
<1>2. ASSUME NEW q \in Receipts, Starts(q) PROVE q = r
  <2>1. q.len \in Nat \ {0} /\ r.len \in Nat \ {0}
    BY ReceiptsAssumption
  <2>2. Len(Enc(q)) = q.len /\ Len(Enc(r)) = r.len /\ Enc(q)[1] = <<q, 1>> /\ Enc(r)[1] = <<r, 1>>
    BY <2>1, EncType DEF Enc
  <2>3. v[1] = <<q, 1>>
    <3>1. SubSeq(v, 1, Len(Enc(q)))[1] = v[1]
      BY <2>1, <2>2, <1>2
    <3>2. QED
      BY <1>2, <2>2, <3>1
  <2>4. v[1] = <<r, 1>>
    BY <2>1, <2>2
  <2>5. QED
    BY <2>3, <2>4
<1>3. QED
  BY <1>1, <1>2 DEF Decode

\* A receipt written whole over what a hash held before is stored and
\* decodes to itself.
LEMMA StoredReceiptDecodes ==
  ASSUME TypeOK, NEW h \in TxHashes, NEW r \in Receipts
  PROVE  /\ StoreTransactionReceipt(rcp[h], r) \in Seq(Receipts \X Nat)
         /\ Decode(StoreTransactionReceipt(rcp[h], r)) = r
<1>1. rcp[h] \in Seq(Receipts \X Nat) \cup {None}
  BY DEF TypeOK
<1>2. Enc(r) \in Seq(Receipts \X Nat)
  BY EncType
<1>3. None \notin Seq(Receipts \X Nat)
  BY NoneAssumption
<1>4. StoreWrite(rcp[h], Enc(r), 0) \in Seq(Receipts \X Nat)
  BY <1>1, <1>2, <1>3, StoreWriteSeq
<1>5. PICK tail \in Seq(Receipts \X Nat) : StoreWrite(rcp[h], Enc(r), 0) = Enc(r) \o tail
  BY <1>1, <1>2, <1>3, StoreWritePrefix
<1>6. /\ Len(Enc(r)) <= Len(StoreWrite(rcp[h], Enc(r), 0))
      /\ \A k \in 1 .. Len(Enc(r)) : StoreWrite(rcp[h], Enc(r), 0)[k] = Enc(r)[k]
  BY <1>2, <1>5
<1>7. Decode(StoreWrite(rcp[h], Enc(r), 0)) = r
  BY <1>4, <1>6, DecodeEnc
<1>8. QED
  BY <1>4, <1>7 DEF StoreTransactionReceipt, StoreWriteAll

\* The receipt round trip holds after every step.
ReceiptInv == TypeOK /\ ReceiptRoundTrip

LEMMA InitReceiptInv == Init => ReceiptInv
BY InitTypeOK DEF Init, ReceiptInv, ReceiptRoundTrip

\* A store of receipts that returns Ok is read back, receipt by receipt.
LEMMA ReceiptsReceiptInv ==
  ASSUME ReceiptInv, NEW rs \in ReceiptBatches, StoreTransactionReceipts(rs)
  PROVE  ReceiptRoundTrip'
<1>1. rs \in Seq(Receipts) /\ \A i, j \in 1 .. Len(rs) : rs[i].hash = rs[j].hash => i = j
  BY ReceiptBatchesAssumption
<1>2. PICK j \in ReceiptOutcomes(rs) :
        /\ rcp' = [h \in TxHashes |->
                     IF \E i \in 1 .. j - 1 : rs[i].hash = h
                     THEN StoreTransactionReceipt(rcp[h], rs[CHOOSE i \in 1 .. Len(rs) : rs[i].hash = h])
                     ELSE rcp[h]]
        /\ lastCall' = [op |-> "receipts", arg |-> rs, ok |-> j = Len(rs) + 1]
  BY DEF StoreTransactionReceipts
<1>3. j \in 1 .. Len(rs) + 1
  BY <1>1 DEF ReceiptOutcomes
<1>4. lastCall' \in [op : {"objects", "receipts", "simulation"},
                     arg : (BlockIds \X Batches) \cup ReceiptBatches \cup SimResults \cup {None},
                     ok : BOOLEAN]
  BY <1>2
<1>5. /\ lastCall' # None /\ lastCall'.op = "receipts" /\ lastCall'.arg = rs
      /\ lastCall'.ok = (j = Len(rs) + 1)
  BY <1>2, <1>4, NoneAssumption
<1>6. ASSUME j = Len(rs) + 1, NEW i \in 1 .. Len(rs)
      PROVE  ReadTransactionReceipt(rs[i].hash)' = rs[i]
  <2> DEFINE h == rs[i].hash
             r == rs[i]
  <2>1. r \in Receipts /\ h \in TxHashes
    BY <1>1, ReceiptsAssumption
  <2>2. (CHOOSE k \in 1 .. Len(rs) : rs[k].hash = h) = i
    BY <1>1
  <2>3. \E k \in 1 .. j - 1 : rs[k].hash = h
    BY <1>1, <1>6
  <2>4. rcp'[h] = StoreWrite(rcp[h], Enc(r), 0)
    BY <1>2, <2>1, <2>2, <2>3 DEF StoreTransactionReceipt, StoreWriteAll
  <2>5. rcp[h] \in Seq(Receipts \X Nat) \cup {None}
    BY <2>1 DEF ReceiptInv, TypeOK
  <2>6. Enc(r) \in Seq(Receipts \X Nat)
    BY <2>1, EncType
  <2>7. None \notin Seq(Receipts \X Nat)
    BY NoneAssumption
  <2>8. /\ rcp'[h] \in Seq(Receipts \X Nat)
        /\ Len(Enc(r)) <= Len(rcp'[h])
        /\ \A k \in 1 .. Len(Enc(r)) : rcp'[h][k] = Enc(r)[k]
    <3>1. StoreWrite(rcp[h], Enc(r), 0) \in Seq(Receipts \X Nat)
      BY <2>5, <2>6, <2>7, StoreWriteSeq
    <3>2. /\ Len(Enc(r)) <= Len(StoreWrite(rcp[h], Enc(r), 0))
          /\ \A k \in 1 .. Len(Enc(r)) : StoreWrite(rcp[h], Enc(r), 0)[k] = Enc(r)[k]
      <4>1. PICK tail \in Seq(Receipts \X Nat) : StoreWrite(rcp[h], Enc(r), 0) = Enc(r) \o tail
        BY <2>5, <2>6, <2>7, StoreWritePrefix
      <4>2. QED
        BY <2>6, <4>1
    <3>3. QED
      BY <2>4, <3>1, <3>2
  <2>9. Decode(rcp'[h]) = r
    BY <2>1, <2>8, DecodeEnc
  <2>10. QED
    BY <2>7, <2>8, <2>9 DEF ReadTransactionReceipt
<1>7. QED
  BY <1>5, <1>6 DEF ReceiptRoundTrip

LEMMA NextReceiptInv == ReceiptInv /\ [Next]_vars => ReceiptInv'
<1> SUFFICES ASSUME ReceiptInv, [Next]_vars PROVE ReceiptInv'
  OBVIOUS
<1>1. TypeOK'
  BY NextTypeOK DEF ReceiptInv
<1>2. ASSUME NEW b \in BlockIds, NEW os \in Batches, StoreTransactionObjects(b, os)
      PROVE  ReceiptRoundTrip'
  BY <1>2 DEF StoreTransactionObjects, ReceiptRoundTrip
<1>3. ASSUME NEW rs \in ReceiptBatches, StoreTransactionReceipts(rs)
      PROVE  ReceiptRoundTrip'
  BY <1>3, ReceiptsReceiptInv
<1>4. ASSUME NEW res \in SimResults \cup {None}, StoreSimulationResult(res)
      PROVE  ReceiptRoundTrip'
  BY <1>4 DEF StoreSimulationResult, ReceiptRoundTrip
<1>5. CASE UNCHANGED vars
  BY <1>1, <1>5 DEF vars, ReceiptInv, ReceiptRoundTrip, ReadTransactionReceipt
<1>6. QED
  BY <1>1, <1>2, <1>3, <1>4, <1>5 DEF Next, ReceiptInv

\* The receipt round trip of store_transaction_receipts holds for every
\* set of receipts and batches, even over a longer receipt of the same
\* hash, given that the decoder ignores what follows an encoding.
THEOREM ReceiptRoundTripHolds == Spec => []ReceiptRoundTrip
<1>1. Init => ReceiptInv
  BY InitReceiptInv
<1>2. ReceiptInv /\ [Next]_vars => ReceiptInv'
  BY NextReceiptInv
<1>3. ReceiptInv => ReceiptRoundTrip
  BY DEF ReceiptInv
<1>4. QED
  BY <1>1, <1>2, <1>3, PTL DEF Spec

-----------------------------------------------------------------------------
(* Refinement of the receipt map.                                          *)

LEMMA InitRefines == Init => AbstractReceipts!Init
BY DEF Init, AbstractReceipts!Init, ReceiptsRead

\* A store_transaction_receipts call that stops before its j-th write is
\* the abstract put of the first j - 1 receipts.
LEMMA ReceiptsRefine ==
  ASSUME TypeOK, NEW rs \in ReceiptBatches, StoreTransactionReceipts(rs)
  PROVE  AbstractReceipts!Next
<1>1. rs \in Seq(Receipts) /\ \A i, k \in 1 .. Len(rs) : rs[i].hash = rs[k].hash => i = k
  BY ReceiptBatchesAssumption
<1>2. PICK j \in ReceiptOutcomes(rs) :
        rcp' = [h \in TxHashes |->
                  IF \E i \in 1 .. j - 1 : rs[i].hash = h
                  THEN StoreTransactionReceipt(rcp[h], rs[CHOOSE i \in 1 .. Len(rs) : rs[i].hash = h])
                  ELSE rcp[h]]
  BY DEF StoreTransactionReceipts
<1>3. j - 1 \in 0 .. Len(rs)
  BY <1>1 DEF ReceiptOutcomes
<1>4. None \notin Seq(Receipts \X Nat)
  BY NoneAssumption
<1>5. ASSUME NEW h \in TxHashes, NEW i \in 1 .. j - 1, rs[i].hash = h
      PROVE  /\ \E k \in 1 .. j - 1 : rs[k].hash = h
             /\ ReceiptsRead'[h] = rs[CHOOSE k \in 1 .. j - 1 : rs[k].hash = h]
  <2>1. (CHOOSE k \in 1 .. Len(rs) : rs[k].hash = h) = i
    BY <1>1, <1>3, <1>5
  <2>2. (CHOOSE k \in 1 .. j - 1 : rs[k].hash = h) = i
    BY <1>1, <1>3, <1>5
  <2>3. rs[i] \in Receipts
    BY <1>1, <1>3
  <2>4. rcp'[h] = StoreTransactionReceipt(rcp[h], rs[i])
    BY <1>2, <1>5, <2>1
  <2>5. /\ StoreTransactionReceipt(rcp[h], rs[i]) \in Seq(Receipts \X Nat)
        /\ Decode(StoreTransactionReceipt(rcp[h], rs[i])) = rs[i]
    BY <2>3, StoredReceiptDecodes
  <2>6. QED
    BY <1>4, <1>5, <2>2, <2>4, <2>5 DEF ReceiptsRead
<1>6. ASSUME NEW h \in TxHashes, ~\E i \in 1 .. j - 1 : rs[i].hash = h
      PROVE  ReceiptsRead'[h] = ReceiptsRead[h]
  BY <1>2, <1>6 DEF ReceiptsRead
<1>7. ReceiptsRead' = [h \in TxHashes |->
                         IF \E i \in 1 .. j - 1 : rs[i].hash = h
                         THEN rs[CHOOSE i \in 1 .. j - 1 : rs[i].hash = h]
                         ELSE ReceiptsRead[h]]
  BY <1>5, <1>6 DEF ReceiptsRead
<1>8. QED
  BY <1>3, <1>7 DEF AbstractReceipts!Next, AbstractReceipts!PutPrefix

\* Object and simulation writes leave every receipt as it was read.
LEMMA NextRefines == TypeOK /\ [Next]_vars => [AbstractReceipts!Next]_ReceiptsRead
<1> SUFFICES ASSUME TypeOK, [Next]_vars PROVE [AbstractReceipts!Next]_ReceiptsRead
  OBVIOUS
<1>1. ASSUME NEW b \in BlockIds, NEW os \in Batches, StoreTransactionObjects(b, os)
      PROVE  UNCHANGED ReceiptsRead
  BY <1>1 DEF StoreTransactionObjects, ReceiptsRead
<1>2. ASSUME NEW rs \in ReceiptBatches, StoreTransactionReceipts(rs)
      PROVE  AbstractReceipts!Next
  BY <1>2, ReceiptsRefine
<1>3. ASSUME NEW res \in SimResults \cup {None}, StoreSimulationResult(res)
      PROVE  UNCHANGED ReceiptsRead
  BY <1>3 DEF StoreSimulationResult, ReceiptsRead
<1>4. CASE UNCHANGED vars
  BY <1>4 DEF vars, ReceiptsRead
<1>5. QED
  BY <1>1, <1>2, <1>3, <1>4 DEF Next

\* Receipt storage implements the receipt map for every set of hashes,
\* receipts and batches: store_transaction_receipts puts a prefix of its
\* batch, and read_transaction_receipt decodes each put receipt whole
\* over a longer blob the write did not truncate.
THEOREM ReceiptRefinementHolds == Spec => RefinesReceiptMap
<1>1. Init => TypeOK /\ AbstractReceipts!Init
  BY InitTypeOK, InitRefines
<1>2. TypeOK /\ [Next]_vars => TypeOK' /\ [AbstractReceipts!Next]_ReceiptsRead
  BY NextTypeOK, NextRefines
<1>3. QED
  BY <1>1, <1>2, PTL DEF Spec, RefinesReceiptMap, AbstractReceipts!Spec

=============================================================================
