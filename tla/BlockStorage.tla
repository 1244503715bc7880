----------------------------- MODULE BlockStorage -----------------------------
(***************************************************************************)
(* Block storage of the EVM kernel (storage.rs, lines 143-297): blocks     *)
(* under /evm/blocks/<decimal number>/{number,hash,transactions} and the   *)
(* current-block pointer /evm/blocks/current/number, which holds only the  *)
(* number.  store_current_block writes the pointer and then the block, one *)
(* store write per field; a failing write aborts the rest and nothing is   *)
(* rolled back.  read_current_block resolves the pointer and reads only    *)
(* the transactions field; the block is rebuilt by L2Block::new.           *)
(*                                                                         *)
(* Values are abstracted: a number field (32 bytes) holds a natural, the   *)
(* transactions field a sequence of 32-byte transaction hashes.            *)
(***************************************************************************)
EXTENDS Naturals, Sequences, DurableStore

CONSTANTS
    TxHashes,       \* transaction hashes (model values)
    Blocks,         \* the blocks the kernel may store: records
                    \* [number, hash, transactions]
    PtrReadMod,     \* 2^64: read_current_block_number reads 8 of the 32
                    \* bytes store_block_number writes
    MaxTxHashes,    \* 128: MAX_TRANSACTION_HASHES / TRANSACTION_HASH_SIZE
    StoreFailures   \* whether a host store write may fail

Numbers == {b.number : b \in Blocks}

ASSUME BlocksAssumption ==
    \A b \in Blocks : b.number \in Nat /\ b.transactions \in Seq(TxHashes)
ASSUME PtrReadModAssumption == PtrReadMod \in Nat \ {0}
ASSUME MaxTxHashesAssumption == MaxTxHashes \in Nat
ASSUME StoreFailuresAssumption == StoreFailures \in BOOLEAN
ASSUME NoneAssumption ==
    None \notin Nat \cup Seq(TxHashes) \cup {b.hash : b \in Blocks} \cup Blocks

\* Conditions under which the round trip and the refinement hold: each
\* number names one block, a block's hashes fit in the read of
\* MAX_TRANSACTION_HASHES bytes and its number in the 8-byte pointer read,
\* and, for the refinement, no store write fails.
OneBlockPerNumber == \A b1, b2 \in Blocks : b1.number = b2.number => b1 = b2
BlocksFit == \A b \in Blocks : Len(b.transactions) <= MaxTxHashes /\ b.number < PtrReadMod
ReliableStore == StoreFailures = FALSE

VARIABLES
    ptr,        \* /evm/blocks/current/number, or None
    numberAt,   \* numberAt[n]: /evm/blocks/<n>/number, or None
    hashAt,     \* hashAt[n]: /evm/blocks/<n>/hash, or None
    txsAt,      \* txsAt[n]: /evm/blocks/<n>/transactions, or None
    (* Observation variable: not state of the program.                     *)
    lastCall    \* the last store call: which one, its block, its result

vars == <<ptr, numberAt, hashAt, txsAt, lastCall>>

Calls == [op : {"store_current_block", "store_block_by_number"},
          block : Blocks, ok : BOOLEAN]

Init ==
    /\ ptr = None
    /\ numberAt = [n \in Numbers |-> None]
    /\ hashAt = [n \in Numbers |-> None]
    /\ txsAt = [n \in Numbers |-> None]
    /\ lastCall = None

\* Type invariant: the pointer holds a block number, and every
\* field holds what store_block writes there.
TypeOK ==
    /\ ptr \in Numbers \cup {None}
    /\ numberAt \in [Numbers -> Numbers \cup {None}]
    /\ hashAt \in [Numbers -> {b.hash : b \in Blocks} \cup {None}]
    /\ txsAt \in [Numbers -> Seq(TxHashes) \cup {None}]
    /\ lastCall \in Calls \cup {None}

-----------------------------------------------------------------------------
(* Reads: they change nothing in the store, so they are state functions.   *)

Err == [ok |-> FALSE, number |-> 0, transactions |-> << >>]

\* read_current_block_number: an 8-byte little-endian read of the pointer.
ReadCurrentBlockNumber == ptr % PtrReadMod

\* Mutant of store_read_empty_safe: the empty check dropped, so the host's
\* read of an empty value fails.
StoreReadEmptySafeNoEmptyCheck(v, max) ==
    IF v = None \/ Len(v) = 0 THEN None ELSE StoreRead(v, 0, max)

\* store_read_empty_safe(path, 0, max): store_value_size fails on an absent
\* value (None), and an empty value reads as an empty sequence.
StoreReadEmptySafe(v, max) ==
    IF v = None THEN None
    ELSE IF Len(v) = 0 THEN << >>
    ELSE StoreRead(v, 0, max)

\* read_nth_block_transactions: at most MAX_TRANSACTION_HASHES bytes of the
\* transactions field of block n; a block path never written is absent.
ReadNthBlockTransactions(n) ==
    IF n \notin Numbers THEN None ELSE StoreReadEmptySafe(txsAt[n], MaxTxHashes)

\* read_current_block (and read_current_block_nodebug): the pointer, then
\* the transactions of the block at that number.
ReadCurrentBlock ==
    IF ptr = None THEN Err
    ELSE LET n == ReadCurrentBlockNumber
             t == ReadNthBlockTransactions(n)
         IN  IF t = None THEN Err
             ELSE [ok |-> TRUE, number |-> n, transactions |-> t]

-----------------------------------------------------------------------------
(* Writes.                                                                 *)

\* The numbers of writes of a call of w writes that may succeed: all of
\* them, or, when the store may fail, any first few.
Succeeding(w) == IF StoreFailures THEN 0 .. w ELSE {w}

\* Mutant of store_block: the number field written one too high.
StoreBlockNumberOffByOne(b, k) ==
    LET n == b.number IN
    /\ numberAt' = IF k >= 1 THEN [numberAt EXCEPT ![n] = n + 1] ELSE numberAt
    /\ hashAt' = IF k >= 2 THEN [hashAt EXCEPT ![n] = b.hash] ELSE hashAt
    /\ txsAt' = IF k >= 3 THEN [txsAt EXCEPT ![n] = StoreWrite(@, b.transactions, 0)]
                          ELSE txsAt

\* store_block: store_block_number, store_block_hash and
\* store_block_transactions in this order, of which the first k succeed.
StoreBlock(b, k) ==
    LET n == b.number IN
    /\ numberAt' = IF k >= 1 THEN [numberAt EXCEPT ![n] = n] ELSE numberAt
    /\ hashAt' = IF k >= 2 THEN [hashAt EXCEPT ![n] = b.hash] ELSE hashAt
    /\ txsAt' = IF k >= 3 THEN [txsAt EXCEPT ![n] = StoreWrite(@, b.transactions, 0)]
                          ELSE txsAt

\* store_block_by_number(b)
StoreBlockByNumber(b) ==
    \E k \in Succeeding(3) :
        /\ StoreBlock(b, k)
        /\ lastCall' = [op |-> "store_block_by_number", block |-> b, ok |-> k = 3]
        /\ UNCHANGED ptr

\* Mutant of store_current_block: the block itself is not written.
StoreCurrentBlockPointerOnly(b) ==
    /\ ptr' = b.number
    /\ lastCall' = [op |-> "store_current_block", block |-> b, ok |-> TRUE]
    /\ UNCHANGED <<numberAt, hashAt, txsAt>>
\* store_current_block(b) (store_current_block_nodebug): the pointer's number
\* field, then the block under its number; the debug message is left out.
StoreCurrentBlock(b) ==
    \E k \in Succeeding(4) :
        /\ ptr' = IF k >= 1 THEN b.number ELSE ptr
        /\ StoreBlock(b, IF k = 0 THEN 0 ELSE k - 1)
        /\ lastCall' = [op |-> "store_current_block", block |-> b, ok |-> k = 4]

Next ==
    \E b \in Blocks : StoreCurrentBlock(b) \/ StoreBlockByNumber(b)

Spec == Init /\ [][Next]_vars

-----------------------------------------------------------------------------
(* Properties.                                                             *)

\* Round trip (spec.md section 8): right after a store call on block B
\* returns Ok, the transactions read at B's number are B's, and after
\* store_current_block(B), read_current_block returns B's number and
\* transactions, whatever failed or was written before.
BlockRoundTrip ==
    lastCall # None /\ lastCall.ok =>
        /\ ReadNthBlockTransactions(lastCall.block.number) = lastCall.block.transactions
        /\ lastCall.op = "store_current_block" =>
              ReadCurrentBlock = [ok |-> TRUE, number |-> lastCall.block.number,
                                  transactions |-> lastCall.block.transactions]

-----------------------------------------------------------------------------
(* Refinement of the block map.                                            *)

\* The block a reader rebuilds at number n from the fields na[n], ha[n]
\* and ta[n], when they are those of a block the kernel stores.
BlockOf(na, ha, ta, n) ==
    IF \E b \in Blocks : b.number = n /\ na[n] = n /\ ha[n] = b.hash /\ ta[n] = b.transactions
    THEN CHOOSE b \in Blocks : b.number = n /\ na[n] = n /\ ha[n] = b.hash /\ ta[n] = b.transactions
    ELSE None

BlockAt(n) == BlockOf(numberAt, hashAt, txsAt, n)

AbstractBlocks == INSTANCE BlockMap WITH
    blocks <- [n \in Numbers |-> BlockAt(n)],
    current <- ptr

\* When no store write fails and each number names one block, storage
\* behaves as the block map: every store_block_by_number is a Put, every
\* store_current_block a PutCurrent, and the block a reader rebuilds at a
\* number is the one the map holds.
RefinesBlockMap == AbstractBlocks!Spec

\* What read_current_block returns is the current block of the map.
CurrentBlockRead ==
    LET a == AbstractBlocks!CurrentBlock
    IN  IF a = None THEN ReadCurrentBlock = Err
        ELSE ReadCurrentBlock = [ok |-> TRUE, number |-> a.number,
                                 transactions |-> a.transactions]

=============================================================================
