------------------------- MODULE ChunkedTransaction -------------------------
(***************************************************************************)
(* The chunked-transaction reassembly protocol of the EVM kernel storage   *)
(* layer (src/src/kernel_evm/kernel/src/storage.rs, lines 395-571).        *)
(*                                                                         *)
(* For every transaction hash h the durable store holds a subtree          *)
(* /chunked_transactions/<hex h> with a child num_chunks (a u16) and one   *)
(* child per stored fragment index (a u16).  No "received set" is kept:    *)
(* completion is decided by counting the children of the subtree, and the  *)
(* last fragment is never written: it is used in memory by the call that   *)
(* completes the transaction, which then deletes the whole subtree.        *)
(*                                                                         *)
(* Data is abstracted to blocks of MAX_FILE_CHUNK_SIZE bytes: a stored     *)
(* value or a payload is a sequence of atoms, one atom per block, and an   *)
(* atom <<h, i, k>> is block k of fragment i of transaction h.  A fragment *)
(* larger than one block is written by two store writes (line 459-463).    *)
(***************************************************************************)
EXTENDS Naturals, Sequences, FiniteSets, DurableStore

CONSTANTS
    Hashes,         \* transaction hashes (model values)
    Word,           \* the number of values of a u16 (2^16 in the code): the
                    \* range of num_chunks, of an index and of the subkey
                    \* count after `as u16`
    BigIdx,         \* fragment indices whose payload exceeds one store
                    \* value (MAX_FILE_CHUNK_SIZE bytes)
    StoreFailures   \* whether a host store write may fail

\* The values of a u16.
Idx == 0 .. (Word - 1)

ASSUME WordAssumption == Word \in Nat /\ Word >= 2
ASSUME BigIdxAssumption == BigIdx \subseteq Idx
ASSUME StoreFailuresAssumption == StoreFailures \in BOOLEAN

\* MAX_FILE_CHUNK_SIZE, in blocks.
MaxFileChunk == 1

\* One block of fragment i of transaction h.
Atom == Hashes \X Idx \X {1, 2}

\* None is neither a u16 nor a stored value.
ASSUME NoneAssumption == None \notin Nat \cup Seq(Atom)

\* The payload of fragment i of transaction h, as sent by its author: one
\* block, or two when it exceeds MAX_FILE_CHUNK_SIZE (an inbox message is at
\* most 4096 bytes, so never more than two).
Content(h, i) ==
    IF i \in BigIdx THEN << <<h, i, 1>>, <<h, i, 2>> >> ELSE << <<h, i, 1>> >>

\* The pieces piece[0], ..., piece[n-1] appended in order to an empty
\* buffer.
Concat(piece, n) ==
    LET buf[k \in 0 .. n] == IF k = 0 THEN << >> ELSE buf[k - 1] \o piece[k - 1]
    IN  buf[n]

\* The payload the author meant: fragments 0 .. n-1 in order.
Expected(h, n) == Concat([k \in 0 .. n - 1 |-> Content(h, k)], n)

VARIABLES
    numChunks,  \* numChunks[h]: the value of .../<h>/num_chunks, or None
    chunks,     \* chunks[h][i]: the value of .../<h>/<i>, or None
    (* Observation variables: not state of the program.                    *)
    sess,       \* sess[h]: what the calls on h did since its subtree was
                \* last empty: indices stored, and whether some call was a
                \* duplicate (dup) or out of range / re-created (stray)
    out         \* out[h]: the last payload returned for h, with the session
                \* it closed, or None

vars == <<numChunks, chunks, sess, out>>

Session == [sent : SUBSET Idx, dup : BOOLEAN, stray : BOOLEAN]
FreshSession == [sent |-> {}, dup |-> FALSE, stray |-> FALSE]
NoChunks == [i \in Idx |-> None]

\* The type of the store and of the session record.
StoreTypeOK ==
    /\ numChunks \in [Hashes -> Idx \cup {None}]
    /\ chunks \in [Hashes -> [Idx -> Seq(Atom) \cup {None}]]
    /\ sess \in [Hashes -> Session]

\* Type invariant: num_chunks is a u16, every child a value, and every
\* payload returned a sequence of fragment blocks.
TypeOK ==
    /\ StoreTypeOK
    /\ out \in [Hashes -> [data : Seq(Atom), n : Idx, dup : BOOLEAN, stray : BOOLEAN]
                          \cup {None}]

Init ==
    /\ numChunks = [h \in Hashes |-> None]
    /\ chunks = [h \in Hashes |-> NoChunks]
    /\ sess = [h \in Hashes |-> FreshSession]
    /\ out = [h \in Hashes |-> None]

-----------------------------------------------------------------------------
(* Helpers of store_transaction_chunk.                                     *)

\* The fragment indices that have a child under the subtree of h.
Stored(h) == {i \in Idx : chunks[h][i] # None}

\* host.store_count_subkeys(chunked_transaction_path): num_chunks and the
\* stored fragments.
CountSubkeys(h) == Cardinality(Stored(h)) + (IF numChunks[h] = None THEN 0 ELSE 1)

\* Mutants of is_transaction_complete: a strict comparison, and an exact one.
IsTransactionCompleteStrict(h, n) == CountSubkeys(h) % Word > n
IsTransactionCompleteExact(h, n) == CountSubkeys(h) % Word = n

\* is_transaction_complete: the count is truncated by `as u16`.
IsTransactionComplete(h, n) == CountSubkeys(h) % Word >= n

\* Mutant of read_transaction_chunk_data: the read at offset
\* MAX_FILE_CHUNK_SIZE is forgotten.
ReadTransactionChunkDataFirstOnly(v) == StoreRead(v, 0, MaxFileChunk)

\* read_transaction_chunk_data
ReadTransactionChunkData(v) ==
    IF Len(v) > MaxFileChunk
    THEN StoreRead(v, 0, MaxFileChunk) \o StoreRead(v, MaxFileChunk, MaxFileChunk)
    ELSE StoreRead(v, 0, MaxFileChunk)

\* What get_full_transaction appends for each index below n: missing_data
\* when the index has no child, else the child's data.
Pieces(h, n, missing) ==
    [k \in 0 .. n - 1 |-> IF chunks[h][k] = None THEN missing
                          ELSE ReadTransactionChunkData(chunks[h][k])]

\* get_full_transaction: the pieces of indices 0 .. n-1, in order.
GetFullTransaction(h, n, missing) == Concat(Pieces(h, n, missing), n)

\* The outcomes of store_transaction_chunk_data for a missing child: the
\* stored value, and whether the call succeeded.  A payload larger than
\* MAX_FILE_CHUNK_SIZE takes two writes; when the second one fails the first
\* half stays in the store and the error is returned.
WriteOutcomes(d) ==
    IF Len(d) > MaxFileChunk
    THEN LET half == StoreWrite(None, SubSeq(d, 1, MaxFileChunk), 0)
         IN  {[val |-> StoreWrite(half, SubSeq(d, MaxFileChunk + 1, Len(d)), MaxFileChunk),
               ok |-> TRUE]}
             \cup (IF StoreFailures THEN {[val |-> half, ok |-> FALSE]} ELSE {})
    ELSE {[val |-> StoreWrite(None, d, 0), ok |-> TRUE]}

-----------------------------------------------------------------------------
(* Operations.                                                             *)

\* Mutant of create_chunked_transaction: num_chunks stored with one more
\* for its own child, without the u16 bound.
CreateChunkedTransactionCountingMeta(h, n) ==
    /\ numChunks' = [numChunks EXCEPT ![h] = n + 1]
    /\ sess' = [sess EXCEPT ![h].stray = @ \/ (numChunks[h] # None /\ numChunks[h] # n)]
    /\ UNCHANGED <<chunks, out>>

\* create_chunked_transaction(h, n): writes num_chunks, overwriting it.
CreateChunkedTransaction(h, n) ==
    /\ numChunks' = [numChunks EXCEPT ![h] = n]
    /\ sess' = [sess EXCEPT ![h].stray = @ \/ (numChunks[h] # None /\ numChunks[h] # n)]
    /\ UNCHANGED <<chunks, out>>

\* store_transaction_chunk(h, i, data) when the subtree is complete: the full
\* transaction is rebuilt with data in place of every missing index, the
\* subtree is deleted and the payload returned.
CompleteTransaction(h, i, data) ==
    LET n == numChunks[h] IN
    /\ IsTransactionComplete(h, n)
    /\ out' = [out EXCEPT ![h] =
                 [data |-> GetFullTransaction(h, n, data), n |-> n,
                  dup |-> sess[h].dup \/ i \in sess[h].sent,
                  stray |-> sess[h].stray \/ i >= n]]
    /\ numChunks' = [numChunks EXCEPT ![h] = None]
    /\ chunks' = [chunks EXCEPT ![h] = NoChunks]
    /\ sess' = [sess EXCEPT ![h] = FreshSession]

\* store_transaction_chunk(h, i, data) otherwise: the fragment is written
\* unless its child already exists (store_transaction_chunk_data).
StoreChunk(h, i, data) ==
    LET n == numChunks[h]
        Delivered == [sess EXCEPT ![h].sent = @ \cup {i},
                                  ![h].dup = @ \/ i \in sess[h].sent,
                                  ![h].stray = @ \/ i >= n]
    IN
    /\ ~IsTransactionComplete(h, n)
    /\ \/ /\ chunks[h][i] # None
          /\ sess' = Delivered
          /\ UNCHANGED chunks
       \/ /\ chunks[h][i] = None
          /\ \E w \in WriteOutcomes(data) :
                /\ chunks' = [chunks EXCEPT ![h][i] = w.val]
                /\ sess' = IF w.ok THEN Delivered ELSE sess
    /\ UNCHANGED <<numChunks, out>>

\* store_transaction_chunk(h, i, data): num_chunks must be readable, else
\* the call fails before touching the store.
StoreTransactionChunk(h, i) ==
    /\ numChunks[h] # None
    /\ \/ CompleteTransaction(h, i, Content(h, i))
       \/ StoreChunk(h, i, Content(h, i))

\* remove_chunked_transaction(h): deletes the subtree.
RemoveChunkedTransaction(h) ==
    /\ numChunks' = [numChunks EXCEPT ![h] = None]
    /\ chunks' = [chunks EXCEPT ![h] = NoChunks]
    /\ sess' = [sess EXCEPT ![h] = FreshSession]
    /\ UNCHANGED out

Next ==
    \E h \in Hashes :
        \/ \E n \in Idx : CreateChunkedTransaction(h, n)
        \/ \E i \in Idx : StoreTransactionChunk(h, i)
        \/ RemoveChunkedTransaction(h)

Spec == Init /\ [][Next]_vars

-----------------------------------------------------------------------------
(* Properties.                                                             *)

\* The subkey count never reaches 2^16, so the `as u16` in
\* is_transaction_complete never truncates it: a fragment is stored only
\* while the count is below num_chunks, itself a u16.
SubkeyCountFits == \A h \in Hashes : CountSubkeys(h) < Word

\* No fragment child outlives num_chunks: remove and completion delete the
\* whole subtree, and a fragment is stored only after num_chunks was read.
EmptyWithoutMeta == \A h \in Hashes : numChunks[h] = None => Stored(h) = {}

\* The inductive invariant behind SubkeyCountFits: the count can only grow
\* by one, from below num_chunks, because the subtree of a hash without
\* num_chunks is empty.
CountInv == StoreTypeOK /\ EmptyWithoutMeta /\ SubkeyCountFits

\* When every fragment of a transaction was delivered once, in range, and
\* num_chunks was not changed in between, the payload store_transaction_chunk
\* returns is fragments 0 .. n-1 in order: the child count decides
\* completion exactly when the one missing index is the one in hand.
CleanReassembly ==
    \A h \in Hashes :
        out[h] # None /\ ~out[h].dup /\ ~out[h].stray
            => out[h].data = Expected(h, out[h].n)

\* The spec promises that retried (duplicate) fragment delivery is
\* tolerated: with in-range indices and one create, the payload returned is
\* fragments 0 .. n-1 in order even when some fragment was delivered twice.
RetryTolerantReassembly ==
    \A h \in Hashes :
        out[h] # None /\ ~out[h].stray => out[h].data = Expected(h, out[h].n)

\* spec.md section 4.3 (2a): when store_transaction_chunk takes the
\* completion branch, exactly one index below num_chunks has no child, the
\* one whose payload is in hand; the code checks only the child count.
OneMissingAtCompletion ==
    \A h \in Hashes :
        numChunks[h] # None /\ IsTransactionComplete(h, numChunks[h]) =>
            Cardinality({j \in 0 .. numChunks[h] - 1 : chunks[h][j] = None}) = 1

\* A transaction whose subtree exists is eventually completed or removed,
\* provided its author keeps resubmitting every fragment.
EventuallyClosed ==
    \A h \in Hashes : numChunks[h] # None ~> numChunks[h] = None

\* The author of every transaction resubmits every fragment until the
\* subtree is gone: this is the sender's behaviour, not the kernel's.
FairSpec == Spec /\ \A h \in Hashes, i \in Idx : WF_vars(StoreTransactionChunk(h, i))

=============================================================================
