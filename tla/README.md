# TLA+ models of the EVM kernel storage layer

This directory models `src/src/kernel_evm/kernel/src/storage.rs`, the EVM kernel's
storage layer. It is the only source file of the repository. The kernel runs as a
single-threaded WASM program. Every call below is a sequence of synchronous host
calls on the durable key-value store (spec.md, section 6). The only "concurrency" is
therefore the order of calls across kernel runs: inbox messages may arrive in any
order, twice, or not at all. On top of that, any host write may fail after earlier
writes of the same call went through. Nothing is rolled back.

## Inventory of the source

| Part | storage.rs lines | Modelled in |
|---|---|---|
| Durable-store helpers (`store_read_empty_safe`, `store_read_slice`) | 70-105 | `BlockStorage` (`StoreReadEmptySafe`) |
| Path builders (`block_path`, `receipt_path`, `object_path`, chunk paths) | 130-162, 400-418 | not modelled: the models index the store by number, hash and index |
| Current-block pointer and block fields | 164-297 | `BlockStorage` |
| Simulation result | 299-308 | `TransactionStorage` (`StoreSimulationResult`) |
| Smart rollup address | 280-297 | not modelled: one fixed-size write of a value written once, one fixed-size read |
| Transaction receipts and objects | 310-398 | `TransactionStorage` |
| Chunked-transaction reassembly | 400-571 | `ChunkedTransaction` |
| `internal_for_tests` readers | 573-603 | `read_transaction_receipt` as `ReadTransactionReceipt`; the status and cumulative-gas readers are projections of it and are left out |

Host operations such as `store_read` and `store_write` at an offset are not in this
repository. `DurableStore` models them from spec.md section 6. One fact matters
here: a write at an offset replaces a byte range and never truncates.
`store_write_all` (from `evm_execution`, also not in this repository) is modelled as
one such write at offset 0, and `TransactionReceipt::from_rlp_bytes` as a decoder of a
self-delimiting encoding that ignores bytes after the encoded receipt (the RLP
contract). Both are marked `spec_modelled` in the map.

## Modules

- `DurableStore`: `StoreRead(v, off, max)` and `StoreWrite(v, d, off)` on one value.
  A value is a sequence, or `None` when it is absent.
- `ChunkedTransaction`: the reassembly protocol. Variables:
  - `numChunks[h]`: the `num_chunks` key.
  - `chunks[h][i]`: the child `/<i>`.
  - `sess` and `out`: observation variables. `sess` records what the sender
    delivered: the indices, any duplicate, and any index out of range or any
    re-creation. `out` is the payload the last completing call returned.

  Actions, one per public function:
  - `CreateChunkedTransaction`
  - `StoreTransactionChunk`. Its `num_chunks` read is the guard. It is either
    `CompleteTransaction` (`get_full_transaction` followed by `store_delete`) or
    `StoreChunk` (`store_transaction_chunk_data`). `StoreChunk` includes the
    `store_has` skip and the two-part write, whose second part may fail.
  - `RemoveChunkedTransaction`

  Payloads are abstracted to blocks of `MAX_FILE_CHUNK_SIZE` bytes. Atom
  `<<h, i, k>>` is block k of fragment i of transaction h. A fragment in `BigIdx`
  has two blocks and needs the split write; the others have one.
  `IsTransactionComplete` keeps the `as u16` truncation as `% Word`.
  `get_full_transaction` is `Concat(Pieces(h, n, missing), n)`. `Pieces` is what the
  loop appends for each index below n, and `Concat` appends them in order with a
  recursive function over 0 .. n. `Expected(h, n)`, the payload the sender meant,
  is `Concat` of the fragments themselves. So two payloads are equal as soon as
  their pieces are equal, which the proofs use.
- `BlockStorage`: the variables are the pointer `ptr` and, for each number, the
  `number`, `hash` and `transactions` fields.
  - `StoreCurrentBlock` makes 4 writes and `StoreBlockByNumber` makes 3. After any
    prefix of them, the rest may fail (`Succeeding`).
  - Reads are state functions. `ReadCurrentBlockNumber` keeps the 8-byte read as
    `% PtrReadMod`. `ReadNthBlockTransactions` keeps the `MAX_TRANSACTION_HASHES`
    bound.
- `BlockMap`: the abstract specification of block storage. A map from block numbers
  to blocks (or `None`) and a current number; `Put(b)` stores a block at its number,
  `PutCurrent(b)` also makes it current. `BlockStorage` maps onto it by
  `blocks <- [n |-> BlockAt(n)]` and `current <- ptr`. `BlockAt(n)` is the block whose
  three fields are stored at n, or `None`.
- `TransactionStorage`: the variables are `obj[h][f]` (field f of the object of
  transaction h), `rcp[h]` (the receipt value), `sim` (`/simulation_result`) and
  `lastCall`. Actions:
  - `StoreTransactionObjects(b, os)`: for each object in order, the writes of
    `store_transaction_object` in the code's field order (`FieldOrder`), `to` only
    for a call (`Writes`). A failing write ends the loop; `ObjectOutcomes` enumerates
    every (object, write) pair at which that can happen. A field value is a pair of
    the field and what the code writes there (`FieldValue`): only block hash and
    number, index and gas differ between two stores of one transaction.
  - `StoreTransactionReceipts(rs)`: `store_write_all` of each encoded receipt in
    order, with the same early stop.
  - `StoreSimulationResult(res)`: for `Some`, one write at offset 0; for `None`,
    nothing.

  Receipts are sequences of atoms `<<r, i>>` of length `r.len`, so a shorter receipt
  written over a longer one keeps the longer one's tail, as the bytes do. `Writes(o)`
  is `FieldOrder` with position `ToPos` (`to`) removed for a creation, written as an
  index shift so that the proofs can reason about it.
- `ReceiptMap`: the abstract specification of receipt storage. A map from hashes to
  receipts (or `None`); `PutPrefix(rs, j)` puts the first j receipts of a batch.
  `TransactionStorage` maps onto it by `receipts <- ReceiptsRead`, the receipt
  `read_transaction_receipt` decodes at each hash.
- `MC_ChunkedTransaction`, `MC_BlockStorage` and `MC_TransactionStorage` give the
  constants their small values.
- `DurableStoreProofs` holds the lemmas about `StoreWrite` that the other proofs
  use; `ChunkedTransactionProofs`, `BlockStorageProofs` and `TransactionStorageProofs`
  hold the TLAPS proofs of each component.

## Runs

| Run | Expect | Shows |
|---|---|---|
| `chunk_safety` (`ChunkedTransaction.cfg`) | pass | `TypeOK`, `CountInv` and `CleanReassembly` hold under any order of create, fragment and remove calls with reliable writes. `CleanReassembly`: a session without duplicates, stray indices or re-creation returns exactly the fragments in index order. |
| `chunk_liveness` (`ChunkedTransactionLive.cfg`) | pass | `EventuallyClosed`: every created transaction is eventually completed or removed, even when split writes fail. |
| `chunk_retry` | violation | `RetryTolerantReassembly` fails. With `num_chunks = 2`, fragment 0 sent twice completes the transaction and returns fragment 0 twice. |
| `chunk_partial_write` | violation | `CleanReassembly` fails once writes may fail. In the trace, half of a split fragment stays, counts as a child, and the completing call returns the payload with that fragment truncated. That `store_has` also skips every retry of it follows from lines 456-457; the trace does not show a retry. |
| `block_roundtrip` (`BlockStorage.cfg`) | pass | `BlockRoundTrip` holds with one block per number, even after failed stores: after a store returns Ok, both `read_current_block` and the by-number read return that block. |
| `block_rewrite` | violation | Storing number 0 again with fewer hashes leaves the old tail, because the write does not truncate. |
| `block_wide` | violation | Block number 4 with `PtrReadMod = 4` (2^64 in the code) reads back as 0. |
| `chunk_missing_one` | violation | `OneMissingAtCompletion` fails: `create(h, 0)` lets the next fragment complete with nothing missing and return an empty payload, which is the trace TLC reports. Beyond the trace, the code also counts a fragment index at or past `num_chunks`, so completion can come with two in-range indices missing. spec.md 4.3 says exactly one is missing. |
| `block_refinement` (`BlockStorageRefinement.cfg`) | pass | With a store that never fails and one block per number, `RefinesBlockMap`: every step of `BlockStorage` is a `Put`, a `PutCurrent` or a stutter of `BlockMap`. `CurrentBlockRead`: `read_current_block` returns the abstract current block, or an error when there is none. |
| `tx_objects` (`TransactionObjects.cfg`) | pass | `TypeOK` and `ObjectRoundTrip`: after any sequence of object stores for two blocks in two orders, failing at any write, a successful store leaves every field it writes as it wrote it, and `to` absent for a contract creation. |
| `tx_receipts` (`TransactionReceipts.cfg`) | pass | `ReceiptRoundTrip`: a successful receipt store reads back each receipt, even over a longer receipt of the same hash, because decoding stops at the end of the encoding. `RefinesReceiptMap`: with failures on, every receipt store is a `PutPrefix` of `ReceiptMap` (the receipts before the failing write) or a stutter. |
| `tx_simulation` | violation | `SimulationResultStored` fails: storing `<<a2>>` after `<<a1, a1>>` leaves `<<a2, a1>>`, since the write is not truncated. |

Bounds:
- `chunk_*`: one hash. The subtrees of different hashes are disjoint and every
  action touches only one of them. `Word = 4` means `num_chunks` ranges over 0..3,
  so sessions of 1, 2 and 3 fragments occur, and so do counts that wrap. Fragment 1
  is split. `StoreFailures` is off in the safety run and on in the liveness and
  partial-write runs.
- `block_*`: three blocks of different numbers, with 0, 1 and 2 hashes, and a
  pointer read modulo 4. That suffices for every prefix of failed writes and for
  overwriting a number. `block_refinement` adds a fourth block (number 3, two
  hashes) so that every pointer value 0..3 names a block, and keeps the pointer
  read modulo 4 so no number wraps.
- `tx_*`: two transactions, one a call and one a contract creation, each in two
  variants (index, gas) and in two blocks; two batches of opposite order. That makes
  every field differ between two stores and makes the failure prefix matter. The
  receipts run has a long (2) and a short (1) receipt of one hash. The two runs are
  separate: objects and receipts live in disjoint subtrees and no call touches both.

Fairness. `FairSpec` assumes weak fairness of `StoreTransactionChunk(h, i)`. It comes
from the sender, who keeps resubmitting fragments, and not from the kernel's
scheduling, which has none. The kernel itself guarantees no progress.

## Findings

The six violations are listed in `PROJECT.json`:
- completion decided by a count, so a retried fragment completes the transaction
  (lines 429 and 505);
- a failed second split write leaves a half fragment that is taken as whole (line 463);
- a block field is not truncated on rewrite (line 244);
- the pointer is written as 32 bytes but read as 8 (line 166);
- completion with zero or two missing indices (lines 429, 500, 550);
- the simulation result is not truncated on rewrite (line 304).

Also noted while modelling: `TRANSACTION_OBJECT_HASH` (line 43) is defined and listed
in spec.md section 5, but `store_transaction_object` never writes it.

## Proofs (`ChunkedTransactionProofs`, checked by tlapm)

`CountInvHolds` proves `Spec => []CountInv` for every set of hashes and every
`Word >= 2`. `CountInv` has three parts:
- the store type (`StoreTypeOK`);
- `EmptyWithoutMeta`: no hash has a fragment child without `num_chunks`;
- `SubkeyCountFits`: the subkey count stays below `Word`, so the `as u16` never
  truncates.

`SubkeyCountFits` alone is not inductive. A `StoreChunk` adds a child only when
`IsTransactionComplete` is false. That bounds the count below `num_chunks <= Word - 1`
only while `num_chunks` is present. `EmptyWithoutMeta` supplies that, and the type
supplies finiteness and ranges.

The proof has one lemma per action: `DeleteCountInv`, `CreateCountInv` and
`StoreChunkCountInv`. They rest on `CardAtMostOneMore` (adding one index adds at most
one to the cardinality) and `StoreWriteType`. `StoreTypeCorrect` and
`SubkeyCountNeverWraps` follow from it.

`CleanReassemblyHolds` proves `Spec => []CleanReassembly` under `~StoreFailures`.
With failing writes it does not hold: the `chunk_partial_write` run shows it. The
inductive invariant is `ReassemblyInv`, checked by TLC on the `chunk_safety`
instance before it was proved. It is `CountInv /\ OutShape /\ SessionInv /\
CleanReassembly`, where `SessionInv` has three parts:
- `SentIsStored`: the indices a session recorded are exactly the stored children.
  With reliable writes a child is written exactly when its index is recorded.
- `ChildrenIntact`: every stored child reads back as its fragment.
  `WriteReliable` shows that the split write leaves the whole fragment, and
  `ReadContent` that `read_transaction_chunk_data` reads it back.
- `InRangeUnlessStray`: without a stray call, every recorded index is below
  `num_chunks`.

`CleanReassembly` alone is not inductive, because a completion reads the
children. `CleanCompletion` is the central step. In a clean session the recorded
indices lie in `0 .. n-1` without the index in hand. `CountInv` keeps the count
below `Word`, so `as u16` is exact. A completion then means the count is at least n,
so by cardinality (`FS_Subset`) the recorded indices are all of them. Hence every
piece `get_full_transaction` appends is the fragment of its index, and the
payload equals `Expected` without unfolding `Concat`.

Left to TLC only:
- liveness (`EventuallyClosed`): TLAPS does not reason about fairness and ENABLED;
- `TypeOK`. Its `out.data` conjunct is the type of what the recursive `Concat`
  returns. Proving it needs the existence of the recursive function and induction
  over n, which is induction over data that the provers cannot do.

## Proofs (`BlockStorageProofs`, checked by tlapm)

- `BlockTypeCorrect`: `Spec => []TypeOK` for every set of blocks, with failures.
- `BlockRoundTripHolds`: `Spec => []BlockRoundTrip`, assuming `OneBlockPerNumber`
  and `BlocksFit` (every block's hashes fit `MAX_TRANSACTION_HASHES` and its number
  the 8-byte pointer read). These are the hypotheses without which `block_rewrite`
  and `block_wide` show it fails. The inductive invariant is `TypeOK /\ FieldInv /\
  CallInv`. `FieldInv`: a stored field at n is absent or the field of the block of
  number n; it is needed because a failed store leaves any prefix of fields, and
  only this tells that a later write of the same block replaces the whole value
  (`StoreWriteSame`). `CallInv` says what the last successful call left.
- `RefinementHolds`: `Spec => RefinesBlockMap`, assuming `OneBlockPerNumber` and
  `ReliableStore`. The invariant `AllOrNothing` (the three fields of a number are
  all absent or all those of its block) makes `BlockAt` the whole block after each
  store (`StoreBlockMaps`), so `store_block_by_number` maps to `Put` and
  `store_current_block` to `PutCurrent`. Without `ReliableStore` a failed store
  leaves a partial block, which no abstract step explains; the refinement holds only
  for a store that does not fail.
- `CurrentBlockReadHolds`: `Spec => []CurrentBlockRead` under the same assumptions
  and `BlocksFit`. The inductive invariant is `RefInv /\ PtrInv`: `PtrInv` says the
  pointer, once set, names a stored number. With `AllOrNothing` that number holds
  the whole block, and `BlocksFit` makes the pointer and transactions reads exact.

## Proofs (`TransactionStorageProofs`, checked by tlapm)

The assumptions are `ObjectsAssumption` and `ReceiptsAssumption` (an object and a
receipt belong to a transaction hash, a receipt encoding is not empty), the
distinct-hash assumptions of batches, `ToAssumption` (one `to` per hash) and
`NoneAssumption` (`None` is not a stored value or a call record). Failures are on.
- `TransactionTypeCorrect`: `Spec => []TypeOK`. Each field holds a value of that
  field (`FieldValueType`), each receipt value an encoding (`EncType`).
- `ObjectRoundTripHolds`: `Spec => []ObjectRoundTrip`, with the inductive invariant
  `TypeOK /\ NoToForCreations /\ ObjectRoundTrip`. `NoToForCreations` (`to` is
  absent for every contract creation) is needed because `store_transaction_object`
  never writes `to` for a creation: only the fact that no earlier store wrote it
  either tells that it is still absent after the call. `ToAssumption` makes this
  per hash. `ObjectsStep` describes `obj'` per batch index (written, partly written,
  untouched), which distinct hashes make well defined.
- `ReceiptRoundTripHolds`: `Spec => []ReceiptRoundTrip`, with `TypeOK /\
  ReceiptRoundTrip` inductive. `StoredReceiptDecodes` rests on `StoreWritePrefix`
  (a write at 0 is the data followed by an old tail) and `DecodeEnc` (decoding
  ignores what follows an encoding).
- `ReceiptRefinementHolds`: `Spec => RefinesReceiptMap`, with `TypeOK` as the
  invariant. A receipt store that stops at write j is `PutPrefix(rs, j - 1)`: the
  `CHOOSE` over the batch and over its prefix pick the same index because hashes
  are distinct. Object and simulation stores leave `rcp`, so they are stutters.

Left to TLC: `SimulationResultStored`, which does not hold.

## Not modelled, and why

- Path builders (decimal block numbers, hex hashes): pure formatting through
  `format!` and `hex::encode`; the models key the store by number and hash, which
  assumes the paths are distinct for distinct keys.
- The smart rollup address: one fixed-size write and read.
- The state right after a failed `store_current_block`: the pointer may name a
  missing or stale block (line 272). `CurrentBlockRead` covers only the reliable
  store.
