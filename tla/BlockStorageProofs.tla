------------------------- MODULE BlockStorageProofs -------------------------
(***************************************************************************)
(* Proofs about block storage, for every set of blocks with one block per *)
(* number: the store keeps its type, the round trip of spec.md section 8   *)
(* holds whatever store writes failed before, and with a store that does   *)
(* not fail, storage implements the block map.                             *)
(***************************************************************************)
EXTENDS BlockStorage, DurableStoreProofs

-----------------------------------------------------------------------------
(* Type correctness.                                                       *)

LEMMA NoneFacts == None \notin Nat /\ None \notin Seq(TxHashes) /\ None \notin Blocks
BY NoneAssumption

LEMMA BlockFacts ==
  ASSUME NEW b \in Blocks
  PROVE  b.number \in Numbers /\ b.number \in Nat /\ b.transactions \in Seq(TxHashes)
BY BlocksAssumption DEF Numbers

\* The first k writes of store_block keep every field within its type.
LEMMA StoreBlockType ==
  ASSUME TypeOK, NEW b \in Blocks, NEW k \in Nat, StoreBlock(b, k)
  PROVE  /\ numberAt' \in [Numbers -> Numbers \cup {None}]
         /\ hashAt' \in [Numbers -> {c.hash : c \in Blocks} \cup {None}]
         /\ txsAt' \in [Numbers -> Seq(TxHashes) \cup {None}]
<1>1. b.number \in Numbers /\ b.transactions \in Seq(TxHashes)
  BY BlockFacts
<1>2. StoreWrite(txsAt[b.number], b.transactions, 0) \in Seq(TxHashes)
  BY <1>1, NoneFacts, StoreWriteSeq DEF TypeOK
<1>3. QED
  BY <1>1, <1>2 DEF StoreBlock, TypeOK

LEMMA InitTypeOK == Init => TypeOK
BY DEF Init, TypeOK

LEMMA NextTypeOK == TypeOK /\ [Next]_vars => TypeOK'
<1> SUFFICES ASSUME TypeOK, [Next]_vars PROVE TypeOK'
  OBVIOUS
<1>1. ASSUME NEW b \in Blocks, StoreCurrentBlock(b) PROVE TypeOK'
  <2>1. PICK k \in Succeeding(4) :
          /\ ptr' = IF k >= 1 THEN b.number ELSE ptr
          /\ StoreBlock(b, IF k = 0 THEN 0 ELSE k - 1)
          /\ lastCall' = [op |-> "store_current_block", block |-> b, ok |-> k = 4]
    BY <1>1 DEF StoreCurrentBlock
  <2>2. k \in 0 .. 4
    BY StoreFailuresAssumption DEF Succeeding
  <2>3. (IF k = 0 THEN 0 ELSE k - 1) \in Nat
    BY <2>2
  <2>4. /\ numberAt' \in [Numbers -> Numbers \cup {None}]
        /\ hashAt' \in [Numbers -> {c.hash : c \in Blocks} \cup {None}]
        /\ txsAt' \in [Numbers -> Seq(TxHashes) \cup {None}]
    BY <2>1, <2>3, StoreBlockType
  <2>5. ptr' \in Numbers \cup {None} /\ lastCall' \in Calls \cup {None}
    BY <2>1, BlockFacts DEF TypeOK, Calls
  <2>6. QED
    BY <2>4, <2>5 DEF TypeOK
<1>2. ASSUME NEW b \in Blocks, StoreBlockByNumber(b) PROVE TypeOK'
  <2>1. PICK k \in Succeeding(3) :
          /\ StoreBlock(b, k)
          /\ lastCall' = [op |-> "store_block_by_number", block |-> b, ok |-> k = 3]
          /\ UNCHANGED ptr
    BY <1>2 DEF StoreBlockByNumber
  <2>2. k \in Nat
    BY StoreFailuresAssumption DEF Succeeding
  <2>3. /\ numberAt' \in [Numbers -> Numbers \cup {None}]
        /\ hashAt' \in [Numbers -> {c.hash : c \in Blocks} \cup {None}]
        /\ txsAt' \in [Numbers -> Seq(TxHashes) \cup {None}]
    BY <2>1, <2>2, StoreBlockType
  <2>4. QED
    BY <2>1, <2>3 DEF TypeOK, Calls
<1>3. CASE UNCHANGED vars
  BY <1>3 DEF TypeOK, vars
<1>4. QED
  BY <1>1, <1>2, <1>3 DEF Next

\* The block store keeps its type for every set of blocks, whatever fails.
THEOREM BlockTypeCorrect == Spec => []TypeOK
BY InitTypeOK, NextTypeOK, PTL DEF Spec

-----------------------------------------------------------------------------
(* The round trip.  Each field at number n holds nothing or what the one  *)
(* block of number n writes there, so a write of the transactions field   *)
(* at offset 0 lands on nothing or on the same hashes and leaves them      *)
(* whole; and a call that returned Ok wrote its block's transactions, and *)
(* the pointer if it stores the current block.                             *)

TheBlock(n) == CHOOSE b \in Blocks : b.number = n

FieldInv ==
    \A n \in Numbers :
        /\ numberAt[n] \in {None, n}
        /\ hashAt[n] \in {None, TheBlock(n).hash}
        /\ txsAt[n] \in {None, TheBlock(n).transactions}

CallInv ==
    lastCall # None /\ lastCall.ok =>
        /\ txsAt[lastCall.block.number] = lastCall.block.transactions
        /\ lastCall.op = "store_current_block" => ptr = lastCall.block.number

RoundTripInv == TypeOK /\ FieldInv /\ CallInv

\* With one block per number, a block is the block of its number.
LEMMA TheBlockFacts ==
  ASSUME OneBlockPerNumber, NEW b \in Blocks
  PROVE  TheBlock(b.number) = b
BY DEF OneBlockPerNumber, TheBlock

LEMMA NumberHasBlock ==
  ASSUME NEW n \in Numbers
  PROVE  TheBlock(n) \in Blocks /\ TheBlock(n).number = n
BY DEF Numbers, TheBlock

LEMMA InitRoundTripInv == Init => RoundTripInv
<1> SUFFICES ASSUME Init PROVE RoundTripInv
  OBVIOUS
<1>1. TypeOK
  BY InitTypeOK
<1>2. FieldInv
  BY DEF Init, FieldInv
<1>3. CallInv
  BY DEF Init, CallInv
<1>4. QED
  BY <1>1, <1>2, <1>3 DEF RoundTripInv

\* The first k writes of store_block keep every field at nothing or at
\* what the one block of its number writes there, and the third leaves
\* the block's transactions whole.
LEMMA StoreBlockFieldInv ==
  ASSUME OneBlockPerNumber, TypeOK, FieldInv,
         NEW b \in Blocks, NEW k \in Nat, StoreBlock(b, k)
  PROVE  /\ FieldInv'
         /\ k >= 3 => txsAt'[b.number] = b.transactions
<1> DEFINE m == b.number
<1>1. TheBlock(m) = b /\ m \in Numbers /\ b.transactions \in Seq(TxHashes)
  BY TheBlockFacts, BlockFacts
<1>2. txsAt[m] \in {None, b.transactions}
  BY <1>1 DEF FieldInv
<1>3. StoreWrite(txsAt[m], b.transactions, 0) = b.transactions
  BY <1>1, <1>2, NoneFacts, StoreWriteSame
<1>4. txsAt'[m] \in {None, b.transactions} /\ (k >= 3 => txsAt'[m] = b.transactions)
  BY <1>1, <1>2, <1>3 DEF StoreBlock, TypeOK
<1>5. numberAt'[m] \in {None, m} /\ hashAt'[m] \in {None, b.hash}
  BY <1>1 DEF StoreBlock, TypeOK, FieldInv
<1>6. ASSUME NEW n \in Numbers, n # m
      PROVE  numberAt'[n] = numberAt[n] /\ hashAt'[n] = hashAt[n] /\ txsAt'[n] = txsAt[n]
  BY <1>6 DEF StoreBlock, TypeOK
<1>7. FieldInv'
  BY <1>1, <1>4, <1>5, <1>6 DEF FieldInv
<1>8. QED
  BY <1>4, <1>7

LEMMA NextRoundTripInv ==
  ASSUME OneBlockPerNumber
  PROVE  RoundTripInv /\ [Next]_vars => RoundTripInv'
<1> SUFFICES ASSUME RoundTripInv, [Next]_vars PROVE RoundTripInv'
  OBVIOUS
<1>0. TypeOK /\ FieldInv /\ TypeOK'
  BY NextTypeOK DEF RoundTripInv
<1>1. ASSUME NEW b \in Blocks, StoreCurrentBlock(b) PROVE RoundTripInv'
  <2>1. PICK k \in Succeeding(4) :
          /\ ptr' = IF k >= 1 THEN b.number ELSE ptr
          /\ StoreBlock(b, IF k = 0 THEN 0 ELSE k - 1)
          /\ lastCall' = [op |-> "store_current_block", block |-> b, ok |-> k = 4]
    BY <1>1 DEF StoreCurrentBlock
  <2>2. k \in 0 .. 4
    BY StoreFailuresAssumption DEF Succeeding
  <2>3. FieldInv' /\ ((IF k = 0 THEN 0 ELSE k - 1) >= 3 => txsAt'[b.number] = b.transactions)
    BY <1>0, <2>1, <2>2, StoreBlockFieldInv
  <2>4. CallInv'
    <3>1. CASE k = 4
      <4>1. txsAt'[b.number] = b.transactions /\ ptr' = b.number
        BY <2>1, <2>3, <3>1
      <4>2. lastCall'.block = b /\ lastCall'.op = "store_current_block"
        BY <2>1
      <4>3. QED
        BY <4>1, <4>2 DEF CallInv
    <3>2. CASE k # 4
      <4>1. lastCall'.ok = FALSE
        BY <2>1, <3>2
      <4>2. QED
        BY <4>1 DEF CallInv
    <3>3. QED
      BY <3>1, <3>2
  <2>5. QED
    BY <1>0, <2>3, <2>4 DEF RoundTripInv
<1>2. ASSUME NEW b \in Blocks, StoreBlockByNumber(b) PROVE RoundTripInv'
  <2>1. PICK k \in Succeeding(3) :
          /\ StoreBlock(b, k)
          /\ lastCall' = [op |-> "store_block_by_number", block |-> b, ok |-> k = 3]
          /\ UNCHANGED ptr
    BY <1>2 DEF StoreBlockByNumber
  <2>2. k \in 0 .. 3
    BY StoreFailuresAssumption DEF Succeeding
  <2>3. FieldInv' /\ (k >= 3 => txsAt'[b.number] = b.transactions)
    BY <1>0, <2>1, <2>2, StoreBlockFieldInv
  <2>4. CallInv'
    <3>1. CASE k = 3
      <4>1. txsAt'[b.number] = b.transactions
        BY <2>3, <3>1
      <4>2. lastCall'.block = b /\ lastCall'.op = "store_block_by_number"
        BY <2>1
      <4>3. QED
        BY <4>1, <4>2 DEF CallInv
    <3>2. CASE k # 3
      <4>1. lastCall'.ok = FALSE
        BY <2>1, <3>2
      <4>2. QED
        BY <4>1 DEF CallInv
    <3>3. QED
      BY <3>1, <3>2
  <2>5. QED
    BY <1>0, <2>3, <2>4 DEF RoundTripInv
<1>3. CASE UNCHANGED vars
  BY <1>0, <1>3 DEF RoundTripInv, FieldInv, CallInv, vars
<1>4. QED
  BY <1>1, <1>2, <1>3 DEF Next

\* Reading the transactions of the one block of a number, when they are
\* stored and fit the read, returns them.
LEMMA ReadStoredTransactions ==
  ASSUME BlocksFit, NEW b \in Blocks, txsAt[b.number] = b.transactions
  PROVE  ReadNthBlockTransactions(b.number) = b.transactions
<1> DEFINE t == b.transactions
<1>1. b.number \in Numbers /\ t \in Seq(TxHashes) /\ t # None
  BY BlockFacts, NoneFacts
<1>2. Len(t) <= MaxTxHashes
  BY DEF BlocksFit
<1>3. StoreReadEmptySafe(t, MaxTxHashes) = t
  <2>1. CASE Len(t) = 0
    <3>1. t = << >>
      BY <1>1, <2>1
    <3>2. QED
      BY <1>1, <2>1, <3>1 DEF StoreReadEmptySafe
  <2>2. CASE Len(t) # 0
    <3>1. StoreRead(t, 0, MaxTxHashes) = t
      BY <1>1, <1>2, MaxTxHashesAssumption, StoreReadWhole
    <3>2. QED
      BY <1>1, <2>2, <3>1 DEF StoreReadEmptySafe
  <2>3. QED
    BY <2>1, <2>2
<1>4. QED
  BY <1>1, <1>3 DEF ReadNthBlockTransactions

LEMMA RoundTripFromInv ==
  ASSUME OneBlockPerNumber, BlocksFit, RoundTripInv
  PROVE  BlockRoundTrip
<1> SUFFICES ASSUME lastCall # None, lastCall.ok
             PROVE  /\ ReadNthBlockTransactions(lastCall.block.number) = lastCall.block.transactions
                    /\ lastCall.op = "store_current_block" =>
                          ReadCurrentBlock = [ok |-> TRUE, number |-> lastCall.block.number,
                                              transactions |-> lastCall.block.transactions]
  BY DEF BlockRoundTrip
<1> DEFINE b == lastCall.block
<1>1. b \in Blocks /\ txsAt[b.number] = b.transactions
  BY DEF RoundTripInv, TypeOK, Calls, CallInv
<1>2. ReadNthBlockTransactions(b.number) = b.transactions
  BY <1>1, ReadStoredTransactions
<1>3. ASSUME lastCall.op = "store_current_block"
      PROVE  ReadCurrentBlock = [ok |-> TRUE, number |-> b.number, transactions |-> b.transactions]
  <2>1. ptr = b.number
    BY <1>3 DEF RoundTripInv, CallInv
  <2>2. b.number \in Nat /\ b.number < PtrReadMod /\ ptr # None
    BY <1>1, <2>1, BlockFacts, NoneFacts DEF BlocksFit
  <2>3. ReadCurrentBlockNumber = b.number
    BY <2>1, <2>2, PtrReadModAssumption DEF ReadCurrentBlockNumber
  <2>4. b.transactions # None
    BY <1>1, BlockFacts, NoneFacts
  <2>5. QED
    BY <1>2, <2>2, <2>3, <2>4 DEF ReadCurrentBlock
<1>4. QED
  BY <1>2, <1>3

\* The round trip of spec.md section 8, for every set of blocks with one
\* block per number that fit the reads, whatever store writes failed
\* before: right after a store call on block B returns Ok, B's
\* transactions are read back at its number, and after
\* store_current_block(B) read_current_block returns B's number and
\* transactions.
THEOREM BlockRoundTripHolds ==
  ASSUME OneBlockPerNumber, BlocksFit
  PROVE  Spec => []BlockRoundTrip
<1>1. Init => RoundTripInv
  BY InitRoundTripInv
<1>2. RoundTripInv /\ [Next]_vars => RoundTripInv'
  BY NextRoundTripInv
<1>3. RoundTripInv => BlockRoundTrip
  BY RoundTripFromInv
<1>4. QED
  BY <1>1, <1>2, <1>3, PTL DEF Spec

-----------------------------------------------------------------------------
(* The refinement.  With a store that does not fail, the three fields at  *)
(* a number are written together: they hold nothing, or all of the one   *)
(* block of that number, so the block a reader rebuilds there is that     *)
(* block or nothing.                                                       *)

AllOrNothing ==
    \A n \in Numbers :
        \/ numberAt[n] = None /\ hashAt[n] = None /\ txsAt[n] = None
        \/ /\ numberAt[n] = n /\ hashAt[n] = TheBlock(n).hash
           /\ txsAt[n] = TheBlock(n).transactions

RefInv == TypeOK /\ AllOrNothing

\* The block rebuilt from fields that hold nothing or all of the block of
\* their number.
LEMMA BlockOfValue ==
  ASSUME OneBlockPerNumber, NEW na, NEW ha, NEW ta, NEW n \in Numbers,
         \/ na[n] = None /\ ha[n] = None /\ ta[n] = None
         \/ na[n] = n /\ ha[n] = TheBlock(n).hash /\ ta[n] = TheBlock(n).transactions
  PROVE  BlockOf(na, ha, ta, n) = IF na[n] = None THEN None ELSE TheBlock(n)
<1>2. TheBlock(n) \in Blocks /\ TheBlock(n).number = n
  BY NumberHasBlock
<1>1. n \in Nat /\ None # n
  BY <1>2, BlockFacts, NoneFacts
<1>3. CASE na[n] = None
  BY <1>1, <1>3 DEF BlockOf
<1>4. CASE na[n] # None
  <2>1. na[n] = n /\ ha[n] = TheBlock(n).hash /\ ta[n] = TheBlock(n).transactions
    BY <1>4
  <2>2. \A b \in Blocks : b.number = n => b = TheBlock(n)
    BY <1>2 DEF OneBlockPerNumber
  <2>3. QED
    BY <1>2, <1>4, <2>1, <2>2 DEF BlockOf
<1>5. QED
  BY <1>3, <1>4

LEMMA InitRefInv == Init => RefInv
BY InitTypeOK DEF Init, RefInv, AllOrNothing

\* store_block with all three writes done, on fields that hold nothing or
\* the block itself, leaves the block at its number and the other numbers
\* as they were.
LEMMA StoreBlockWhole ==
  ASSUME OneBlockPerNumber, RefInv, NEW b \in Blocks, StoreBlock(b, 3)
  PROVE  /\ AllOrNothing'
         /\ numberAt'[b.number] = b.number
         /\ \A n \in Numbers \ {b.number} :
               numberAt'[n] = numberAt[n] /\ hashAt'[n] = hashAt[n] /\ txsAt'[n] = txsAt[n]
<1> DEFINE m == b.number
<1>1. TheBlock(m) = b /\ m \in Numbers /\ b.transactions \in Seq(TxHashes)
  BY TheBlockFacts, BlockFacts
<1>2. txsAt[m] \in {None, b.transactions}
  BY <1>1 DEF RefInv, AllOrNothing
<1>3. StoreWrite(txsAt[m], b.transactions, 0) = b.transactions
  BY <1>1, <1>2, NoneFacts, StoreWriteSame
<1>4. numberAt'[m] = m /\ hashAt'[m] = b.hash /\ txsAt'[m] = b.transactions
  BY <1>1, <1>3 DEF StoreBlock, RefInv, TypeOK
<1>5. \A n \in Numbers \ {m} :
        numberAt'[n] = numberAt[n] /\ hashAt'[n] = hashAt[n] /\ txsAt'[n] = txsAt[n]
  BY DEF StoreBlock, RefInv, TypeOK
<1>6. AllOrNothing'
  BY <1>1, <1>4, <1>5 DEF RefInv, AllOrNothing
<1>7. QED
  BY <1>4, <1>5, <1>6

\* The blocks of the map, as the refinement reads them off the fields.
BlockMapOf == [n \in Numbers |-> BlockAt(n)]

\* Under RefInv, in a state and in the next, the block rebuilt at a number
\* is its one block or nothing.
LEMMA BlockAtValue ==
  ASSUME OneBlockPerNumber, RefInv, NEW n \in Numbers
  PROVE  BlockAt(n) = IF numberAt[n] = None THEN None ELSE TheBlock(n)
BY BlockOfValue DEF RefInv, AllOrNothing, BlockAt

LEMMA BlockAtValuePrimed ==
  ASSUME OneBlockPerNumber, RefInv', NEW n \in Numbers
  PROVE  BlockAt(n)' = IF numberAt'[n] = None THEN None ELSE TheBlock(n)
<1>1. \/ numberAt'[n] = None /\ hashAt'[n] = None /\ txsAt'[n] = None
      \/ numberAt'[n] = n /\ hashAt'[n] = TheBlock(n).hash
         /\ txsAt'[n] = TheBlock(n).transactions
  BY DEF RefInv, AllOrNothing
<1>2. BlockOf(numberAt', hashAt', txsAt', n) =
        IF numberAt'[n] = None THEN None ELSE TheBlock(n)
  BY <1>1, BlockOfValue
<1>3. QED
  BY <1>2 DEF BlockAt

\* A store of the whole block b is, in the map, b put at its number.
LEMMA StoreBlockMaps ==
  ASSUME OneBlockPerNumber, RefInv, NEW b \in Blocks, StoreBlock(b, 3), TypeOK'
  PROVE  /\ RefInv'
         /\ BlockMapOf' = [BlockMapOf EXCEPT ![b.number] = b]
<1> DEFINE m == b.number
<1>1. /\ AllOrNothing'
      /\ numberAt'[m] = m
      /\ \A n \in Numbers \ {m} :
            numberAt'[n] = numberAt[n] /\ hashAt'[n] = hashAt[n] /\ txsAt'[n] = txsAt[n]
  BY StoreBlockWhole
<1>2. RefInv'
  BY <1>1 DEF RefInv
<1>3. m \in Numbers /\ TheBlock(m) = b /\ m # None
  BY TheBlockFacts, BlockFacts, NoneFacts
<1>4. BlockAt(m)' = b
  BY <1>1, <1>2, <1>3, BlockAtValuePrimed
<1>5. ASSUME NEW n \in Numbers \ {m} PROVE BlockAt(n)' = BlockAt(n)
  <2>1. BlockAt(n)' = IF numberAt'[n] = None THEN None ELSE TheBlock(n)
    BY <1>2, BlockAtValuePrimed
  <2>2. BlockAt(n) = IF numberAt[n] = None THEN None ELSE TheBlock(n)
    BY BlockAtValue
  <2>3. QED
    BY <1>1, <2>1, <2>2
<1>6. BlockMapOf' = [BlockMapOf EXCEPT ![m] = b]
  BY <1>3, <1>4, <1>5 DEF BlockMapOf
<1>7. QED
  BY <1>2, <1>6

\* Each step of storage is a step of the block map or leaves it as it is.
LEMMA NextRefines ==
  ASSUME OneBlockPerNumber, ReliableStore
  PROVE  RefInv /\ [Next]_vars =>
            /\ RefInv'
            /\ [AbstractBlocks!Next]_<<BlockMapOf, ptr>>
<1> SUFFICES ASSUME RefInv, [Next]_vars
             PROVE  RefInv' /\ [AbstractBlocks!Next]_<<BlockMapOf, ptr>>
  OBVIOUS
<1>0. TypeOK'
  BY NextTypeOK DEF RefInv
<1>1. ASSUME NEW b \in Blocks, StoreCurrentBlock(b)
      PROVE  RefInv' /\ [AbstractBlocks!Next]_<<BlockMapOf, ptr>>
  <2>1. Succeeding(4) = {4}
    BY DEF ReliableStore, Succeeding
  <2>2. ptr' = b.number /\ StoreBlock(b, 3)
    BY <1>1, <2>1 DEF StoreCurrentBlock
  <2>3. RefInv' /\ BlockMapOf' = [BlockMapOf EXCEPT ![b.number] = b]
    BY <1>0, <2>2, StoreBlockMaps
  <2>4. AbstractBlocks!PutCurrent(b)
    BY <2>2, <2>3 DEF AbstractBlocks!PutCurrent, BlockMapOf
  <2>5. QED
    BY <2>3, <2>4 DEF AbstractBlocks!Next
<1>2. ASSUME NEW b \in Blocks, StoreBlockByNumber(b)
      PROVE  RefInv' /\ [AbstractBlocks!Next]_<<BlockMapOf, ptr>>
  <2>1. Succeeding(3) = {3}
    BY DEF ReliableStore, Succeeding
  <2>2. ptr' = ptr /\ StoreBlock(b, 3)
    BY <1>2, <2>1 DEF StoreBlockByNumber
  <2>3. RefInv' /\ BlockMapOf' = [BlockMapOf EXCEPT ![b.number] = b]
    BY <1>0, <2>2, StoreBlockMaps
  <2>4. AbstractBlocks!Put(b)
    BY <2>2, <2>3 DEF AbstractBlocks!Put, BlockMapOf
  <2>5. QED
    BY <2>3, <2>4 DEF AbstractBlocks!Next
<1>3. CASE UNCHANGED vars
  <2>1. RefInv'
    BY <1>0, <1>3 DEF RefInv, AllOrNothing, vars
  <2>2. UNCHANGED <<BlockMapOf, ptr>>
    BY <1>3 DEF BlockMapOf, BlockAt, vars
  <2>3. QED
    BY <2>1, <2>2
<1>4. QED
  BY <1>1, <1>2, <1>3 DEF Next

\* With a store that never fails and one block per number, block storage
\* implements the block map (spec.md sections 4.2 and 8):
\* store_block_by_number puts a block at its number, store_current_block
\* puts it and moves the pointer to it, in one step each.
THEOREM RefinementHolds ==
  ASSUME OneBlockPerNumber, ReliableStore
  PROVE  Spec => RefinesBlockMap
<1>1. Init => RefInv /\ AbstractBlocks!Init
  <2> SUFFICES ASSUME Init PROVE RefInv /\ AbstractBlocks!Init
    OBVIOUS
  <2>1. RefInv
    BY InitRefInv
  <2>2. \A n \in Numbers : BlockAt(n) = None
    BY <2>1, BlockAtValue DEF Init
  <2>3. QED
    BY <2>1, <2>2 DEF AbstractBlocks!Init, AbstractBlocks!Numbers, Numbers, Init
<1>2. RefInv /\ [Next]_vars => RefInv' /\ [AbstractBlocks!Next]_<<BlockMapOf, ptr>>
  BY NextRefines
<1>3. QED
  BY <1>1, <1>2, PTL DEF Spec, RefinesBlockMap, AbstractBlocks!Spec, BlockMapOf

-----------------------------------------------------------------------------
(* The current block a reader sees.                                        *)

\* With a store that does not fail, the pointer names a number whose block
\* is stored: store_current_block writes the block right after the pointer.
PtrInv == ptr # None => numberAt[ptr] # None

ReadInv == RefInv /\ PtrInv

LEMMA InitReadInv == Init => ReadInv
BY InitRefInv DEF Init, ReadInv, PtrInv

LEMMA NextReadInv ==
  ASSUME OneBlockPerNumber, ReliableStore
  PROVE  ReadInv /\ [Next]_vars => ReadInv'
<1> SUFFICES ASSUME ReadInv, [Next]_vars PROVE ReadInv'
  OBVIOUS
<1>1. RefInv'
  BY NextRefines DEF ReadInv
<1>2. ASSUME NEW b \in Blocks, StoreCurrentBlock(b) PROVE PtrInv'
  <2>1. Succeeding(4) = {4}
    BY DEF ReliableStore, Succeeding
  <2>2. ptr' = b.number /\ StoreBlock(b, 3)
    BY <1>2, <2>1 DEF StoreCurrentBlock
  <2>3. numberAt'[b.number] = b.number /\ b.number \in Nat
    BY <2>2, StoreBlockWhole, BlockFacts DEF ReadInv
  <2>4. QED
    BY <2>2, <2>3, NoneFacts DEF PtrInv
<1>3. ASSUME NEW b \in Blocks, StoreBlockByNumber(b) PROVE PtrInv'
  <2>1. Succeeding(3) = {3}
    BY DEF ReliableStore, Succeeding
  <2>2. ptr' = ptr /\ StoreBlock(b, 3)
    BY <1>3, <2>1 DEF StoreBlockByNumber
  <2>3. /\ numberAt'[b.number] = b.number /\ b.number \in Nat
        /\ \A n \in Numbers \ {b.number} : numberAt'[n] = numberAt[n]
    BY <2>2, StoreBlockWhole, BlockFacts DEF ReadInv
  <2>4. ptr \in Numbers \cup {None}
    BY DEF ReadInv, RefInv, TypeOK
  <2>5. QED
    BY <2>2, <2>3, <2>4, NoneFacts DEF PtrInv, ReadInv
<1>4. CASE UNCHANGED vars
  BY <1>1, <1>4 DEF vars, ReadInv, PtrInv
<1>5. QED
  BY <1>1, <1>2, <1>3, <1>4 DEF Next, ReadInv

\* Under ReadInv, read_current_block returns the map's current block.
LEMMA CurrentBlockReadFromInv ==
  ASSUME OneBlockPerNumber, BlocksFit, ReadInv
  PROVE  CurrentBlockRead
<1>1. AbstractBlocks!CurrentBlock = IF ptr = None THEN None ELSE BlockAt(ptr)
  BY DEF AbstractBlocks!CurrentBlock, ReadInv, RefInv, TypeOK
<1>2. CASE ptr = None
  BY <1>1, <1>2 DEF CurrentBlockRead, ReadCurrentBlock
<1>3. CASE ptr # None
  <2> DEFINE b == TheBlock(ptr)
  <2>1. ptr \in Numbers /\ numberAt[ptr] # None
    BY <1>3 DEF ReadInv, RefInv, TypeOK, PtrInv
  <2>2. b \in Blocks /\ b.number = ptr
    BY <2>1, NumberHasBlock
  <2>3. BlockAt(ptr) = b /\ b # None
    BY <2>1, <2>2, BlockAtValue, NoneFacts DEF ReadInv
  <2>4. txsAt[ptr] = b.transactions
    BY <2>1, <2>2 DEF ReadInv, RefInv, AllOrNothing
  <2>5. ReadNthBlockTransactions(ptr) = b.transactions /\ b.transactions # None
    BY <2>2, <2>4, ReadStoredTransactions, BlockFacts, NoneFacts
  <2>6. ptr \in Nat /\ ptr < PtrReadMod
    BY <2>2, BlockFacts DEF BlocksFit
  <2>7. ReadCurrentBlockNumber = ptr
    BY <2>6, PtrReadModAssumption DEF ReadCurrentBlockNumber
  <2>8. ReadCurrentBlock = [ok |-> TRUE, number |-> ptr, transactions |-> b.transactions]
    BY <1>3, <2>5, <2>7 DEF ReadCurrentBlock
  <2>9. QED
    BY <1>1, <1>3, <2>2, <2>3, <2>8 DEF CurrentBlockRead
<1>4. QED
  BY <1>2, <1>3

\* With a store that never fails and one block per number that fits the
\* reads, read_current_block returns the current block of the block map,
\* and an error when no current block was stored.
THEOREM CurrentBlockReadHolds ==
  ASSUME OneBlockPerNumber, BlocksFit, ReliableStore
  PROVE  Spec => []CurrentBlockRead
<1>1. Init => ReadInv
  BY InitReadInv
<1>2. ReadInv /\ [Next]_vars => ReadInv'
  BY NextReadInv
<1>3. ReadInv => CurrentBlockRead
  BY CurrentBlockReadFromInv
<1>4. QED
  BY <1>1, <1>2, <1>3, PTL DEF Spec

=============================================================================
