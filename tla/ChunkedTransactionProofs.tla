--------------------- MODULE ChunkedTransactionProofs ---------------------
(***************************************************************************)
(* Proofs about the chunked-transaction reassembly protocol, for every     *)
(* set of hashes and every word size: the store keeps its type, and the    *)
(* subkey count of a chunked transaction never reaches 2^16, so the        *)
(* `as u16` of is_transaction_complete never truncates it; a fragment      *)
(* child is never rewritten; and with reliable writes a cleanly delivered  *)
(* transaction is reassembled in order.                                    *)
(***************************************************************************)
EXTENDS ChunkedTransaction, FiniteSetTheorems, SequenceTheorems, TLAPS

-----------------------------------------------------------------------------
(* Lemmas on the constants and on cardinalities.                           *)

\* The u16 range is a finite set of naturals.
LEMMA IdxFacts == Idx \subseteq Nat /\ IsFiniteSet(Idx) /\ Word - 1 \in Idx
BY WordAssumption, FS_Interval DEF Idx

\* A set contained in S plus one element has at most one element more.
LEMMA CardAtMostOneMore ==
  ASSUME NEW S, NEW T, NEW x, IsFiniteSet(S), T \subseteq S \cup {x}
  PROVE  IsFiniteSet(T) /\ Cardinality(T) <= Cardinality(S) + 1
<1>1. IsFiniteSet(S \cup {x})
      /\ Cardinality(S \cup {x}) = IF x \in S THEN Cardinality(S) ELSE Cardinality(S) + 1
  BY FS_AddElement
<1>2. Cardinality(S) \in Nat
  BY FS_CardinalityType
<1>3. IsFiniteSet(T) /\ Cardinality(T) <= Cardinality(S \cup {x})
  BY <1>1, FS_Subset
<1>4. Cardinality(S \cup {x}) <= Cardinality(S) + 1
  <2>1. CASE x \in S
    BY <1>1, <1>2, <2>1
  <2>2. CASE x \notin S
    BY <1>1, <1>2, <2>2
  <2>3. QED
    BY <2>1, <2>2
<1>5. Cardinality(T) \in Nat /\ Cardinality(S \cup {x}) \in Nat
  BY <1>1, <1>3, FS_CardinalityType
<1>6. QED
  BY <1>2, <1>3, <1>4, <1>5

\* The fragment children of a hash form a finite set of naturals.
LEMMA StoredFinite ==
  ASSUME NEW c \in [Idx -> Seq(Atom) \cup {None}]
  PROVE  /\ IsFiniteSet({i \in Idx : c[i] # None})
         /\ Cardinality({i \in Idx : c[i] # None}) \in Nat
<1>1. IsFiniteSet({i \in Idx : c[i] # None})
  BY IdxFacts, FS_Subset
<1>2. QED
  BY <1>1, FS_CardinalityType

\* host.store_write within or at the end of a stored value keeps it a
\* sequence of blocks.
LEMMA StoreWriteType ==
  ASSUME NEW v \in Seq(Atom), NEW d \in Seq(Atom), NEW off \in 0 .. Len(v)
  PROVE  StoreWrite(v, d, off) \in Seq(Atom)
<1>1. v # None
  BY NoneAssumption
<1>2. SubSeq(v, 1, off) \o d \o SubSeq(v, off + Len(d) + 1, Len(v)) \in Seq(Atom)
  BY SMT
<1>3. QED
  BY <1>1, <1>2 DEF StoreWrite

\* Every outcome of a fragment write stores a sequence of blocks.
LEMMA WriteOutcomesType ==
  ASSUME NEW h \in Hashes, NEW i \in Idx
  PROVE  \A w \in WriteOutcomes(Content(h, i)) : w.val \in Seq(Atom)
<1> DEFINE d == Content(h, i)
           half == StoreWrite(None, SubSeq(d, 1, MaxFileChunk), 0)
<1>1. d \in Seq(Atom) /\ Len(d) \in {1, 2}
  BY IdxFacts DEF Content, Atom
<1>2. CASE Len(d) > MaxFileChunk
  <2>1. SubSeq(d, 1, MaxFileChunk) \in Seq(Atom) /\ Len(SubSeq(d, 1, MaxFileChunk)) = 1
    BY <1>1, <1>2 DEF MaxFileChunk
  <2>2. half = SubSeq(d, 1, MaxFileChunk)
    BY <2>1 DEF StoreWrite
  <2>3. SubSeq(d, MaxFileChunk + 1, Len(d)) \in Seq(Atom)
    BY <1>1 DEF MaxFileChunk
  <2>4. half \in Seq(Atom) /\ Len(half) = 1
    BY <2>1, <2>2
  <2>0. MaxFileChunk = 1
    BY DEF MaxFileChunk
  <2>7. MaxFileChunk \in 0 .. Len(half)
    BY <2>0, <2>4
  <2>5. StoreWrite(half, SubSeq(d, MaxFileChunk + 1, Len(d)), MaxFileChunk) \in Seq(Atom)
    BY <2>3, <2>4, <2>7, StoreWriteType
  <2>6. QED
    BY <1>2, <2>4, <2>5 DEF WriteOutcomes
<1>3. CASE ~(Len(d) > MaxFileChunk)
  <2>1. StoreWrite(None, d, 0) = d
    BY <1>1 DEF StoreWrite
  <2>2. QED
    BY <1>1, <1>3, <2>1 DEF WriteOutcomes
<1>4. QED
  BY <1>2, <1>3

-----------------------------------------------------------------------------
(* CountInv is inductive: one lemma per operation.                         *)

LEMMA InitCountInv == Init => CountInv
<1> SUFFICES ASSUME Init PROVE CountInv
  OBVIOUS
<1>1. StoreTypeOK
  BY IdxFacts DEF Init, StoreTypeOK, NoChunks, FreshSession, Session
<1>2. \A h \in Hashes : Stored(h) = {}
  BY NoneAssumption DEF Init, Stored, NoChunks
<1>3. \A h \in Hashes : CountSubkeys(h) = 0
  BY <1>2, FS_EmptySet DEF CountSubkeys, Init
<1>4. QED
  BY <1>1, <1>2, <1>3, WordAssumption DEF CountInv, EmptyWithoutMeta, SubkeyCountFits

\* Deleting the subtree of h (remove, completion) keeps CountInv.
LEMMA DeleteCountInv ==
  ASSUME CountInv, NEW h \in Hashes,
         numChunks' = [numChunks EXCEPT ![h] = None],
         chunks' = [chunks EXCEPT ![h] = NoChunks],
         sess' = [sess EXCEPT ![h] = FreshSession]
  PROVE  CountInv'
<1>1. StoreTypeOK'
  BY IdxFacts DEF CountInv, StoreTypeOK, NoChunks, FreshSession, Session
<1>2. \A g \in Hashes : Stored(g)' = IF g = h THEN {} ELSE Stored(g)
  BY DEF CountInv, StoreTypeOK, Stored, NoChunks
<1>3. EmptyWithoutMeta'
  BY <1>2 DEF CountInv, StoreTypeOK, EmptyWithoutMeta
<1>4. SubkeyCountFits'
  <2> SUFFICES ASSUME NEW g \in Hashes PROVE CountSubkeys(g)' < Word
    BY DEF SubkeyCountFits
  <2>1. CASE g = h
    BY <1>2, <2>1, FS_EmptySet, WordAssumption DEF CountSubkeys
  <2>2. CASE g # h
    BY <1>2, <2>2 DEF CountInv, StoreTypeOK, SubkeyCountFits, CountSubkeys
  <2>3. QED
    BY <2>1, <2>2
<1>5. QED
  BY <1>1, <1>3, <1>4 DEF CountInv

LEMMA CreateCountInv ==
  ASSUME CountInv, NEW h \in Hashes, NEW n \in Idx,
         CreateChunkedTransaction(h, n)
  PROVE  CountInv'
<1>1. StoreTypeOK'
  BY DEF CountInv, StoreTypeOK, CreateChunkedTransaction, Session
<1>2. \A g \in Hashes : Stored(g)' = Stored(g)
  BY DEF CreateChunkedTransaction, Stored
<1>3. EmptyWithoutMeta'
  BY <1>2, IdxFacts, NoneAssumption
  DEF CountInv, StoreTypeOK, EmptyWithoutMeta, CreateChunkedTransaction
<1>4. SubkeyCountFits'
  <2> SUFFICES ASSUME NEW g \in Hashes PROVE CountSubkeys(g)' < Word
    BY DEF SubkeyCountFits
  <2>1. Cardinality(Stored(g)) \in Nat
    BY StoredFinite DEF CountInv, StoreTypeOK, Stored
  <2>2. CASE g = h /\ numChunks[h] = None
    <3>1. Cardinality(Stored(g)) = 0
      BY <2>2, FS_EmptySet DEF CountInv, EmptyWithoutMeta
    <3>2. QED
      BY <1>2, <2>2, <3>1, IdxFacts, NoneAssumption, WordAssumption
      DEF CountSubkeys, CreateChunkedTransaction
  <2>3. CASE ~(g = h /\ numChunks[h] = None)
    <3>1. (numChunks'[g] = None) <=> (numChunks[g] = None)
      BY <2>3, IdxFacts, NoneAssumption DEF CreateChunkedTransaction, CountInv, StoreTypeOK
    <3>2. QED
      BY <1>2, <2>1, <3>1 DEF CountInv, SubkeyCountFits, CountSubkeys
  <2>4. QED
    BY <2>2, <2>3
<1>5. QED
  BY <1>1, <1>3, <1>4 DEF CountInv

\* Storing a fragment keeps CountInv: it happens only while the count is
\* below num_chunks, and adds at most one child.
LEMMA StoreChunkCountInv ==
  ASSUME CountInv, NEW h \in Hashes, NEW i \in Idx,
         numChunks[h] # None,
         StoreChunk(h, i, Content(h, i))
  PROVE  CountInv'
<1> DEFINE n == numChunks[h]
<1>1. n \in Idx
  BY DEF CountInv, StoreTypeOK
<1>0. numChunks' = numChunks
  BY DEF StoreChunk
<1>2. CountSubkeys(h) \in Nat /\ Cardinality(Stored(h)) \in Nat
  <2>1. chunks[h] \in [Idx -> Seq(Atom) \cup {None}]
    BY DEF CountInv, StoreTypeOK
  <2>2. Cardinality(Stored(h)) \in Nat
    BY <2>1, StoredFinite DEF Stored
  <2>3. QED
    BY <2>2 DEF CountSubkeys
<1>3. CountSubkeys(h) < n
  <2>1. CountSubkeys(h) % Word = CountSubkeys(h)
    BY <1>2, WordAssumption DEF CountInv, SubkeyCountFits
  <2>2. QED
    BY <1>1, <1>2, <2>1, IdxFacts DEF StoreChunk, IsTransactionComplete
<1>4. \E v \in Seq(Atom) \cup {None} : chunks' = [chunks EXCEPT ![h][i] = v]
  <2>1. CASE chunks[h][i] # None
    BY <2>1 DEF StoreChunk, CountInv, StoreTypeOK
  <2>2. CASE chunks[h][i] = None
    <3>1. PICK w \in WriteOutcomes(Content(h, i)) : chunks' = [chunks EXCEPT ![h][i] = w.val]
      BY <2>2 DEF StoreChunk
    <3>2. QED
      BY <3>1, WriteOutcomesType
  <2>3. QED
    BY <2>1, <2>2
<1>5. PICK v \in Seq(Atom) \cup {None} : chunks' = [chunks EXCEPT ![h][i] = v]
  BY <1>4
<1>6. \A g \in Hashes \ {h} : Stored(g)' = Stored(g)
  BY <1>5 DEF Stored, CountInv, StoreTypeOK
<1>7. Stored(h)' \subseteq Stored(h) \cup {i}
  BY <1>5 DEF Stored, CountInv, StoreTypeOK
<1>8. StoreTypeOK'
  <2>1. chunks' \in [Hashes -> [Idx -> Seq(Atom) \cup {None}]]
    BY <1>5 DEF CountInv, StoreTypeOK
  <2>2. sess' \in [Hashes -> Session]
    <3> DEFINE Delivered == [sess EXCEPT ![h].sent = @ \cup {i},
                                         ![h].dup = @ \/ i \in sess[h].sent,
                                         ![h].stray = @ \/ i >= n]
    <3>1. sess' \in {sess, Delivered}
      BY DEF StoreChunk
    <3>2. Delivered \in [Hashes -> Session]
      <4>1. sess \in [Hashes -> Session]
        BY DEF CountInv, StoreTypeOK
      <4>2. [sess[h] EXCEPT !.sent = @ \cup {i},
                            !.dup = @ \/ i \in sess[h].sent,
                            !.stray = @ \/ i >= n] \in Session
        BY <4>1 DEF Session
      <4>3. QED
        BY <4>1, <4>2
    <3>3. QED
      BY <3>1, <3>2 DEF CountInv, StoreTypeOK
  <2>3. QED
    BY <2>1, <2>2 DEF StoreChunk, CountInv, StoreTypeOK
<1>9. EmptyWithoutMeta'
  BY <1>0, <1>6 DEF CountInv, EmptyWithoutMeta
<1>10. SubkeyCountFits'
  <2> SUFFICES ASSUME NEW g \in Hashes PROVE CountSubkeys(g)' < Word
    BY DEF SubkeyCountFits
  <2>1. CASE g = h
    <3>1. IsFiniteSet(Stored(h)) 
      BY StoredFinite DEF CountInv, StoreTypeOK, Stored
    <3>2. Cardinality(Stored(h)') <= Cardinality(Stored(h)) + 1
      BY <1>7, <3>1, CardAtMostOneMore
    <3>3. Cardinality(Stored(h)') \in Nat
      BY <1>8, StoredFinite DEF StoreTypeOK, Stored
    <3>4. CountSubkeys(h)' = Cardinality(Stored(h)') + 1
      BY <1>0 DEF CountSubkeys
    <3>5. CountSubkeys(h) = Cardinality(Stored(h)) + 1
      BY DEF CountSubkeys
    <3>6. QED
      BY <2>1, <1>1, <1>2, <1>3, <3>2, <3>3, <3>4, <3>5, WordAssumption DEF Idx
  <2>2. CASE g # h
    <3>1. Stored(g)' = Stored(g)
      BY <1>6, <2>2
    <3>2. CountSubkeys(g)' = CountSubkeys(g)
      BY <1>0, <3>1 DEF CountSubkeys
    <3>3. QED
      BY <3>2 DEF CountInv, SubkeyCountFits
  <2>3. QED
    BY <2>1, <2>2
<1>11. QED
  BY <1>8, <1>9, <1>10 DEF CountInv

LEMMA NextCountInv == CountInv /\ [Next]_vars => CountInv'
<1> SUFFICES ASSUME CountInv, [Next]_vars PROVE CountInv'
  OBVIOUS
<1>1. ASSUME NEW h \in Hashes, NEW n \in Idx, CreateChunkedTransaction(h, n)
      PROVE  CountInv'
  BY <1>1, CreateCountInv
<1>2. ASSUME NEW h \in Hashes, NEW i \in Idx, StoreTransactionChunk(h, i)
      PROVE  CountInv'
  <2>1. CASE CompleteTransaction(h, i, Content(h, i))
    BY <2>1, DeleteCountInv DEF CompleteTransaction
  <2>2. CASE StoreChunk(h, i, Content(h, i))
    BY <1>2, <2>2, StoreChunkCountInv DEF StoreTransactionChunk
  <2>3. QED
    BY <1>2, <2>1, <2>2 DEF StoreTransactionChunk
<1>3. ASSUME NEW h \in Hashes, RemoveChunkedTransaction(h)
      PROVE  CountInv'
  BY <1>3, DeleteCountInv DEF RemoveChunkedTransaction
<1>4. CASE UNCHANGED vars
  BY <1>4 DEF vars, CountInv, StoreTypeOK, EmptyWithoutMeta, SubkeyCountFits,
              CountSubkeys, Stored
<1>5. QED
  BY <1>1, <1>2, <1>3, <1>4 DEF Next

-----------------------------------------------------------------------------
(* Theorems.                                                               *)

\* The invariant the safety run checks holds for every set of hashes and
\* every word size: the store keeps its type, a hash without num_chunks
\* has no fragment child, and the subkey count stays below 2^16.
THEOREM CountInvHolds == Spec => []CountInv
BY InitCountInv, NextCountInv, PTL DEF Spec

\* The store keeps its type: num_chunks is always a u16 or absent, every
\* fragment child a sequence of blocks (create, store_transaction_chunk,
\* remove_chunked_transaction).
THEOREM StoreTypeCorrect == Spec => []StoreTypeOK
BY InitCountInv, NextCountInv, PTL DEF Spec, CountInv

\* The subkey count that is_transaction_complete truncates with `as u16`
\* stays below 2^16 for every word size, whatever calls arrive in whatever
\* order: store_transaction_chunk stores a fragment only while the count is
\* below num_chunks.
THEOREM SubkeyCountNeverWraps == Spec => []SubkeyCountFits
BY InitCountInv, NextCountInv, PTL DEF Spec, CountInv

-----------------------------------------------------------------------------
(* Reassembly with reliable writes.                                        *)

\* The indices the session of h records are exactly its stored children: a
\* write that does not fail both stores the child and records the index.
SentIsStored == \A h \in Hashes : Stored(h) = sess[h].sent

\* Every stored child reads back as the fragment of its index.
ChildrenIntact ==
    \A h \in Hashes : \A j \in Stored(h) : ReadTransactionChunkData(chunks[h][j]) = Content(h, j)

\* Without a stray call, every recorded index is below num_chunks.
InRangeUnlessStray ==
    \A h \in Hashes :
        numChunks[h] # None /\ ~sess[h].stray => sess[h].sent \subseteq 0 .. numChunks[h] - 1

\* The last payloads form a function on the hashes.
OutShape == out = [g \in Hashes |-> out[g]]

\* The inductive invariant behind CleanReassembly.
ReassemblyInv ==
    /\ CountInv
    /\ OutShape
    /\ SentIsStored
    /\ ChildrenIntact
    /\ InRangeUnlessStray
    /\ CleanReassembly

\* A fragment is a sequence of one or two blocks.
LEMMA ContentShape ==
  ASSUME NEW h \in Hashes, NEW i \in Idx
  PROVE  Content(h, i) \in Seq(Atom) /\ Len(Content(h, i)) \in {1, 2}
BY IdxFacts DEF Content, Atom

\* A sequence of two blocks is its first block followed by its second.
LEMMA SplitTwo ==
  ASSUME NEW d \in Seq(Atom), Len(d) = 2
  PROVE  SubSeq(d, 1, 1) \o SubSeq(d, 2, 2) = d
<1> DEFINE x == SubSeq(d, 1, 1)
           y == SubSeq(d, 2, 2)
<1>1. x \in Seq(Atom) /\ Len(x) = 1 /\ x[1] = d[1]
  BY SubSeqProperties
<1>2. y \in Seq(Atom) /\ Len(y) = 1 /\ y[1] = d[2]
  BY SubSeqProperties
<1>3. x \o y \in Seq(Atom) /\ Len(x \o y) = 2 /\ (x \o y)[1] = d[1] /\ (x \o y)[2] = d[2]
  BY <1>1, <1>2, ConcatProperties
<1>4. \A k \in 1 .. Len(x \o y) : (x \o y)[k] = d[k]
  BY <1>3
<1>5. QED
  BY <1>3, <1>4, SeqEqual

\* The whole of a sequence as a subsequence.
LEMMA WholeSub ==
  ASSUME NEW d \in Seq(Atom)
  PROVE  SubSeq(d, 1, Len(d)) = d
<1>1. SubSeq(d, 1, Len(d)) \in Seq(Atom) /\ Len(SubSeq(d, 1, Len(d))) = Len(d)
      /\ \A k \in 1 .. Len(d) : SubSeq(d, 1, Len(d))[k] = d[k]
  BY SubSeqProperties
<1>2. QED
  BY <1>1, SeqEqual

\* A write on an absent value stores the bytes written.
LEMMA WriteFresh ==
  ASSUME NEW d \in Seq(Atom)
  PROVE  StoreWrite(None, d, 0) = d
BY DEF StoreWrite

\* A fragment is read back whole: read_transaction_chunk_data reads up to
\* two MAX_FILE_CHUNK_SIZE pieces, and a fragment has at most two.
LEMMA ReadContent ==
  ASSUME NEW h \in Hashes, NEW i \in Idx
  PROVE  ReadTransactionChunkData(Content(h, i)) = Content(h, i)
<1> DEFINE d == Content(h, i)
<1>1. d \in Seq(Atom) /\ Len(d) \in {1, 2}
  BY ContentShape
<1>2. CASE Len(d) = 2
  <2>1. StoreRead(d, 0, 1) = SubSeq(d, 1, 1) /\ StoreRead(d, 1, 1) = SubSeq(d, 2, 2)
    BY <1>2 DEF StoreRead
  <2>2. SubSeq(d, 1, 1) \o SubSeq(d, 2, 2) = d
    BY <1>1, <1>2, SplitTwo
  <2>3. QED
    BY <1>2, <2>1, <2>2 DEF ReadTransactionChunkData, MaxFileChunk
<1>3. CASE Len(d) = 1
  <2>1. StoreRead(d, 0, 1) = SubSeq(d, 1, Len(d))
    BY <1>3 DEF StoreRead
  <2>2. QED
    BY <1>1, <1>3, <2>1, WholeSub DEF ReadTransactionChunkData, MaxFileChunk
<1>4. QED
  BY <1>1, <1>2, <1>3

\* With a store that does not fail, store_transaction_chunk_data succeeds
\* and the child holds the fragment: the second write of a split fragment
\* lands right after the first.
LEMMA WriteReliable ==
  ASSUME ~StoreFailures, NEW h \in Hashes, NEW i \in Idx,
         NEW w \in WriteOutcomes(Content(h, i))
  PROVE  w.ok /\ w.val = Content(h, i)
<1> DEFINE d == Content(h, i)
           x == SubSeq(d, 1, 1)
           y == SubSeq(d, 2, 2)
<1>1. d \in Seq(Atom) /\ Len(d) \in {1, 2}
  BY ContentShape
<1>2. CASE Len(d) = 2
  <2>1. x \in Seq(Atom) /\ Len(x) = 1 /\ y \in Seq(Atom) /\ Len(y) = 1
    BY <1>1, <1>2, SubSeqProperties
  <2>2. StoreWrite(None, x, 0) = x
    BY <2>1, WriteFresh
  <2>3. x # None
    BY <2>1, NoneAssumption
  <2>4. SubSeq(x, 1, 1) = x /\ SubSeq(x, 3, 1) = << >>
    BY <2>1, WholeSub
  <2>5. StoreWrite(x, y, 1) = x \o y \o << >>
    BY <2>1, <2>3, <2>4 DEF StoreWrite
  <2>6. x \o y \o << >> = d
    BY <1>1, <1>2, <2>1, SplitTwo
  <2>7. w = [val |-> StoreWrite(StoreWrite(None, x, 0), y, 1), ok |-> TRUE]
    BY <1>2, StoreFailuresAssumption DEF WriteOutcomes, MaxFileChunk
  <2>8. QED
    BY <2>2, <2>5, <2>6, <2>7
<1>3. CASE Len(d) = 1
  <2>1. w = [val |-> StoreWrite(None, d, 0), ok |-> TRUE]
    BY <1>3 DEF WriteOutcomes, MaxFileChunk
  <2>2. QED
    BY <1>1, <2>1, WriteFresh
<1>4. QED
  BY <1>1, <1>2, <1>3

\* A completion in a session with no duplicate and no stray index: the
\* child count equals num_chunks, so the recorded indices are all indices
\* below num_chunks but the one in hand, and every piece
\* get_full_transaction appends is the fragment of its index.
LEMMA CleanCompletion ==
  ASSUME ReassemblyInv, NEW h \in Hashes, NEW i \in Idx,
         numChunks[h] # None, IsTransactionComplete(h, numChunks[h]),
         i \notin sess[h].sent, ~sess[h].stray, i < numChunks[h]
  PROVE  GetFullTransaction(h, numChunks[h], Content(h, i)) = Expected(h, numChunks[h])
<1> DEFINE n == numChunks[h]
           S == sess[h].sent
           T == (0 .. n - 1) \ {i}
<1>1. n \in Idx /\ n \in Nat /\ 0 .. n - 1 \subseteq Idx
  BY IdxFacts DEF ReassemblyInv, CountInv, StoreTypeOK, Idx
<1>2. S \subseteq T
  BY DEF ReassemblyInv, InRangeUnlessStray
<1>3. IsFiniteSet(T) /\ Cardinality(T) = n - 1
  <2>0. n - 1 \in Int /\ n >= 1
    BY <1>1, IdxFacts
  <2>1. IsFiniteSet(0 .. n - 1) /\ Cardinality(0 .. n - 1) = n
    <3>1. IsFiniteSet(0 .. n - 1)
          /\ Cardinality(0 .. n - 1) = IF 0 > n - 1 THEN 0 ELSE (n - 1) - 0 + 1
      BY <2>0, FS_Interval
    <3>2. QED
      BY <1>1, <2>0, <3>1
  <2>2. i \in 0 .. n - 1
    BY <1>1, IdxFacts
  <2>3. QED
    BY <2>1, <2>2, FS_RemoveElement
<1>4. Stored(h) = S
  BY DEF ReassemblyInv, SentIsStored
<1>5. Cardinality(S) \in Nat
  BY <1>4, StoredFinite DEF ReassemblyInv, CountInv, StoreTypeOK, Stored
<1>6. Cardinality(S) + 1 >= n
  <2>1. CountSubkeys(h) = Cardinality(S) + 1
    BY <1>4 DEF CountSubkeys
  <2>2. CountSubkeys(h) < Word
    BY DEF ReassemblyInv, CountInv, SubkeyCountFits
  <2>3. CountSubkeys(h) % Word = CountSubkeys(h)
    BY <1>5, <2>1, <2>2, WordAssumption
  <2>4. QED
    BY <2>1, <2>3 DEF IsTransactionComplete
<1>7. S = T
  <2>1. Cardinality(S) <= Cardinality(T) /\ (Cardinality(T) = Cardinality(S) => T = S)
    BY <1>2, <1>3, FS_Subset
  <2>2. QED
    BY <1>1, <1>3, <1>5, <1>6, <2>1
<1>8. ASSUME NEW k \in 0 .. n - 1
      PROVE  Pieces(h, n, Content(h, i))[k] = Content(h, k)
  <2>1. CASE k = i
    <3>1. chunks[h][i] = None
      BY <1>4 DEF Stored
    <3>2. QED
      BY <2>1, <3>1 DEF Pieces
  <2>2. CASE k # i
    <3>1. k \in Stored(h)
      BY <1>4, <1>7, <2>2
    <3>2. chunks[h][k] # None /\ ReadTransactionChunkData(chunks[h][k]) = Content(h, k)
      BY <3>1 DEF Stored, ReassemblyInv, ChildrenIntact
    <3>3. QED
      BY <3>2 DEF Pieces
  <2>3. QED
    BY <2>1, <2>2
<1>9. Pieces(h, n, Content(h, i)) = [k \in 0 .. n - 1 |-> Content(h, k)]
  BY <1>8 DEF Pieces
<1>10. QED
  BY <1>9 DEF GetFullTransaction, Expected

\* The part of ReassemblyInv that is not CountInv.
SessionInv == SentIsStored /\ ChildrenIntact /\ InRangeUnlessStray

LEMMA InitReassemblyInv == Init => ReassemblyInv
<1> SUFFICES ASSUME Init PROVE ReassemblyInv
  OBVIOUS
<1>1. \A h \in Hashes : Stored(h) = {} /\ sess[h].sent = {}
  BY DEF Init, Stored, NoChunks, FreshSession
<1>2. QED
  BY <1>1, InitCountInv
  DEF ReassemblyInv, OutShape, SentIsStored, ChildrenIntact, InRangeUnlessStray, CleanReassembly, Init

\* Deleting the subtree of h starts a fresh session and keeps SessionInv.
LEMMA DeleteSessionInv ==
  ASSUME ReassemblyInv, NEW h \in Hashes,
         numChunks' = [numChunks EXCEPT ![h] = None],
         chunks' = [chunks EXCEPT ![h] = NoChunks],
         sess' = [sess EXCEPT ![h] = FreshSession]
  PROVE  SessionInv'
<1>1. \A g \in Hashes : Stored(g)' = IF g = h THEN {} ELSE Stored(g)
  BY DEF ReassemblyInv, CountInv, StoreTypeOK, Stored, NoChunks
<1>2. \A g \in Hashes : sess'[g] = IF g = h THEN FreshSession ELSE sess[g]
  BY DEF ReassemblyInv, CountInv, StoreTypeOK
<1>3. \A g \in Hashes \ {h} : chunks'[g] = chunks[g] /\ numChunks'[g] = numChunks[g]
  BY DEF ReassemblyInv, CountInv, StoreTypeOK
<1>4. numChunks'[h] = None
  BY DEF ReassemblyInv, CountInv, StoreTypeOK
<1>5. SentIsStored'
  BY <1>1, <1>2 DEF SentIsStored, FreshSession, ReassemblyInv
<1>6. ChildrenIntact'
  BY <1>1, <1>3 DEF ChildrenIntact, ReassemblyInv
<1>7. InRangeUnlessStray'
  BY <1>2, <1>3, <1>4 DEF InRangeUnlessStray, ReassemblyInv
<1>8. QED
  BY <1>5, <1>6, <1>7 DEF SessionInv

\* create_chunked_transaction changes no child; a new count that differs
\* from a present one marks the session stray.
LEMMA CreateSessionInv ==
  ASSUME ReassemblyInv, NEW h \in Hashes, NEW n \in Idx, CreateChunkedTransaction(h, n)
  PROVE  SessionInv'
<1>1. \A g \in Hashes : Stored(g)' = Stored(g) /\ chunks'[g] = chunks[g]
  BY DEF CreateChunkedTransaction, Stored
<1>2. \A g \in Hashes : sess'[g].sent = sess[g].sent
  BY DEF CreateChunkedTransaction, ReassemblyInv, CountInv, StoreTypeOK
<1>3. \A g \in Hashes \ {h} : sess'[g] = sess[g] /\ numChunks'[g] = numChunks[g]
  BY DEF CreateChunkedTransaction, ReassemblyInv, CountInv, StoreTypeOK
<1>4. numChunks'[h] = n
  BY DEF CreateChunkedTransaction, ReassemblyInv, CountInv, StoreTypeOK
<1>5. sess'[h].stray = (sess[h].stray \/ (numChunks[h] # None /\ numChunks[h] # n))
  BY DEF CreateChunkedTransaction, ReassemblyInv, CountInv, StoreTypeOK
<1>6. SentIsStored' /\ ChildrenIntact'
  BY <1>1, <1>2 DEF SentIsStored, ChildrenIntact, ReassemblyInv
<1>7. InRangeUnlessStray'
  <2> SUFFICES ASSUME NEW g \in Hashes, numChunks'[g] # None, ~sess'[g].stray
               PROVE  sess'[g].sent \subseteq 0 .. numChunks'[g] - 1
    BY DEF InRangeUnlessStray
  <2>1. CASE g # h
    BY <1>3, <2>1 DEF ReassemblyInv, InRangeUnlessStray
  <2>2. CASE g = h /\ numChunks[h] = None
    <3>1. sess[h].sent = {}
      BY <2>2 DEF ReassemblyInv, CountInv, EmptyWithoutMeta, SentIsStored
    <3>2. QED
      BY <1>2, <2>2, <3>1
  <2>3. CASE g = h /\ numChunks[h] # None
    <3>1. numChunks[h] = n /\ ~sess[h].stray
      BY <1>5, <2>3
    <3>2. QED
      BY <1>2, <1>4, <2>3, <3>1 DEF ReassemblyInv, InRangeUnlessStray
  <2>4. QED
    BY <2>1, <2>2, <2>3
<1>8. QED
  BY <1>6, <1>7 DEF SessionInv

\* store_transaction_chunk below the completion count, with a store that
\* does not fail: the child is written and the index recorded together.
LEMMA StoreChunkSessionInv ==
  ASSUME ~StoreFailures, ReassemblyInv, NEW h \in Hashes, NEW i \in Idx,
         numChunks[h] # None, StoreChunk(h, i, Content(h, i))
  PROVE  SessionInv'
<1> DEFINE Delivered == [sess EXCEPT ![h].sent = @ \cup {i},
                                        ![h].dup = @ \/ i \in sess[h].sent,
                                        ![h].stray = @ \/ i >= numChunks[h]]
<1>1. numChunks' = numChunks
  BY DEF StoreChunk
<1>2. sess \in [Hashes -> Session] /\ chunks \in [Hashes -> [Idx -> Seq(Atom) \cup {None}]]
  BY DEF ReassemblyInv, CountInv, StoreTypeOK
<1>3. /\ \A g \in Hashes \ {h} : Delivered[g] = sess[g]
      /\ Delivered[h].sent = sess[h].sent \cup {i}
      /\ Delivered[h].stray = (sess[h].stray \/ i >= numChunks[h])
  BY <1>2 DEF Session
<1>4. CASE chunks[h][i] # None
  <2>1. chunks' = chunks /\ sess' = Delivered
    BY <1>4 DEF StoreChunk
  <2>2. i \in sess[h].sent
    BY <1>4 DEF Stored, ReassemblyInv, SentIsStored
  <2>3. \A g \in Hashes : sess'[g].sent = sess[g].sent /\ (~sess'[g].stray => ~sess[g].stray)
    BY <1>3, <2>1, <2>2
  <2>4. SentIsStored' /\ ChildrenIntact'
    BY <2>1, <2>3 DEF SentIsStored, ChildrenIntact, Stored, ReassemblyInv
  <2>5. InRangeUnlessStray'
    BY <1>1, <2>3 DEF InRangeUnlessStray, ReassemblyInv
  <2>6. QED
    BY <2>4, <2>5 DEF SessionInv
<1>5. CASE chunks[h][i] = None
  <2>1. PICK w \in WriteOutcomes(Content(h, i)) :
          /\ chunks' = [chunks EXCEPT ![h][i] = w.val]
          /\ sess' = IF w.ok THEN Delivered ELSE sess
    BY <1>5 DEF StoreChunk
  <2>2. w.ok /\ w.val = Content(h, i)
    BY WriteReliable
  <2>3. chunks' = [chunks EXCEPT ![h][i] = Content(h, i)] /\ sess' = Delivered
    BY <2>1, <2>2
  <2>4. Content(h, i) # None /\ Content(h, i) \in Seq(Atom)
    BY ContentShape, NoneAssumption
  <2>5. /\ Stored(h)' = Stored(h) \cup {i}
        /\ \A g \in Hashes \ {h} : Stored(g)' = Stored(g) /\ chunks'[g] = chunks[g]
        /\ chunks'[h][i] = Content(h, i)
        /\ \A j \in Idx \ {i} : chunks'[h][j] = chunks[h][j]
    BY <1>2, <2>3, <2>4 DEF Stored
  <2>6. SentIsStored'
    BY <1>3, <2>3, <2>5 DEF SentIsStored, ReassemblyInv
  <2>7. ChildrenIntact'
    <3> SUFFICES ASSUME NEW g \in Hashes, NEW j \in Stored(g)'
                 PROVE  ReadTransactionChunkData(chunks'[g][j]) = Content(g, j)
      BY DEF ChildrenIntact
    <3>1. CASE g = h /\ j = i
      BY <2>5, <3>1, ReadContent
    <3>2. CASE g = h /\ j # i
      <4>1. j \in Stored(h) /\ j \in Idx
        BY <2>5, <3>2 DEF Stored
      <4>2. QED
        BY <2>5, <3>2, <4>1 DEF ReassemblyInv, ChildrenIntact
    <3>3. CASE g # h
      BY <2>5, <3>3 DEF ReassemblyInv, ChildrenIntact
    <3>4. QED
      BY <3>1, <3>2, <3>3
  <2>8. InRangeUnlessStray'
    <3> SUFFICES ASSUME NEW g \in Hashes, numChunks'[g] # None, ~sess'[g].stray
                 PROVE  sess'[g].sent \subseteq 0 .. numChunks'[g] - 1
      BY DEF InRangeUnlessStray
    <3>1. CASE g # h
      <4>1. sess'[g] = sess[g] /\ numChunks'[g] = numChunks[g]
        BY <1>1, <1>3, <2>3, <3>1
      <4>2. QED
        BY <4>1 DEF InRangeUnlessStray, ReassemblyInv
    <3>2. CASE g = h
      <4>1. sess'[h].sent = sess[h].sent \cup {i} /\ sess'[h].stray = (sess[h].stray \/ i >= numChunks[h])
        BY <1>3, <2>3
      <4>0. numChunks[h] \in Nat /\ i \in Nat /\ sess[h].stray \in BOOLEAN
        BY <1>2, IdxFacts DEF ReassemblyInv, CountInv, StoreTypeOK, Session
      <4>5. ~sess'[h].stray
        BY <3>2
      <4>6. ~(sess[h].stray \/ i >= numChunks[h])
        BY <4>1, <4>5
      <4>2. ~sess[h].stray /\ i < numChunks[h]
        BY <4>0, <4>6
      <4>3. sess[h].sent \subseteq 0 .. numChunks[h] - 1
        BY <4>2 DEF InRangeUnlessStray, ReassemblyInv
      <4>4. QED
        BY <1>1, <3>2, <4>0, <4>1, <4>2, <4>3
    <3>3. QED
      BY <3>1, <3>2
  <2>9. QED
    BY <2>6, <2>7, <2>8 DEF SessionInv
<1>6. QED
  BY <1>4, <1>5

\* A completing store_transaction_chunk returns, for a session with no
\* duplicate and no stray index, the fragments in order; the other
\* payloads stay.
LEMMA CompleteOut ==
  ASSUME ReassemblyInv, NEW h \in Hashes, NEW i \in Idx,
         numChunks[h] # None, CompleteTransaction(h, i, Content(h, i))
  PROVE  OutShape' /\ CleanReassembly'
<1> DEFINE n == numChunks[h]
           r == [data |-> GetFullTransaction(h, n, Content(h, i)), n |-> n,
                 dup |-> sess[h].dup \/ i \in sess[h].sent,
                 stray |-> sess[h].stray \/ i >= n]
<1>1. out' = [out EXCEPT ![h] = r] /\ IsTransactionComplete(h, n)
  BY DEF CompleteTransaction
<1>2. out'[h] = r /\ \A g \in Hashes \ {h} : out'[g] = out[g]
  BY <1>1 DEF ReassemblyInv, OutShape
<1>3. OutShape'
  BY <1>1 DEF ReassemblyInv, OutShape
<1>4. ASSUME ~r.dup, ~r.stray
      PROVE  r.data = Expected(h, r.n)
  <2>1. ~(sess[h].dup \/ i \in sess[h].sent) /\ ~(sess[h].stray \/ i >= n)
    BY <1>4
  <2>2. n \in Nat /\ i \in Nat
    BY IdxFacts DEF ReassemblyInv, CountInv, StoreTypeOK
  <2>3. i \notin sess[h].sent /\ ~sess[h].stray /\ i < n
    BY <2>1, <2>2
  <2>4. GetFullTransaction(h, n, Content(h, i)) = Expected(h, n)
    BY <1>1, <2>3, CleanCompletion
  <2>5. QED
    BY <2>4
<1>5. CleanReassembly'
  <2> SUFFICES ASSUME NEW g \in Hashes, out'[g] # None, ~out'[g].dup, ~out'[g].stray
               PROVE  out'[g].data = Expected(g, out'[g].n)
    BY DEF CleanReassembly
  <2>1. CASE g = h
    BY <1>2, <1>4, <2>1
  <2>2. CASE g # h
    BY <1>2, <2>2 DEF ReassemblyInv, CleanReassembly
  <2>3. QED
    BY <2>1, <2>2
<1>6. QED
  BY <1>3, <1>5

LEMMA NextReassemblyInv ==
  ASSUME ~StoreFailures
  PROVE  ReassemblyInv /\ [Next]_vars => ReassemblyInv'
<1> SUFFICES ASSUME ReassemblyInv, [Next]_vars PROVE ReassemblyInv'
  OBVIOUS
<1>1. CountInv'
  BY NextCountInv DEF ReassemblyInv
<1>2. ASSUME NEW h \in Hashes, NEW n \in Idx, CreateChunkedTransaction(h, n)
      PROVE  SessionInv' /\ OutShape' /\ CleanReassembly'
  <2>1. SessionInv'
    BY <1>2, CreateSessionInv
  <2>2. QED
    BY <1>2, <2>1 DEF CreateChunkedTransaction, ReassemblyInv, OutShape, CleanReassembly
<1>3. ASSUME NEW h \in Hashes, NEW i \in Idx, StoreTransactionChunk(h, i)
      PROVE  SessionInv' /\ OutShape' /\ CleanReassembly'
  <2>1. numChunks[h] # None
    BY <1>3 DEF StoreTransactionChunk
  <2>2. CASE CompleteTransaction(h, i, Content(h, i))
    <3>1. SessionInv'
      BY <2>2, DeleteSessionInv DEF CompleteTransaction
    <3>2. QED
      BY <2>1, <2>2, <3>1, CompleteOut
  <2>3. CASE StoreChunk(h, i, Content(h, i))
    <3>1. SessionInv'
      BY <2>1, <2>3, StoreChunkSessionInv
    <3>2. QED
      BY <2>3, <3>1 DEF StoreChunk, ReassemblyInv, OutShape, CleanReassembly
  <2>4. QED
    BY <1>3, <2>2, <2>3 DEF StoreTransactionChunk
<1>4. ASSUME NEW h \in Hashes, RemoveChunkedTransaction(h)
      PROVE  SessionInv' /\ OutShape' /\ CleanReassembly'
  <2>1. SessionInv'
    BY <1>4, DeleteSessionInv DEF RemoveChunkedTransaction
  <2>2. QED
    BY <1>4, <2>1 DEF RemoveChunkedTransaction, ReassemblyInv, OutShape, CleanReassembly
<1>5. ASSUME UNCHANGED vars
      PROVE  SessionInv' /\ OutShape' /\ CleanReassembly'
  BY <1>5 DEF vars, ReassemblyInv, SessionInv, OutShape, SentIsStored, ChildrenIntact,
              InRangeUnlessStray, CleanReassembly, Stored
<1>6. SessionInv' /\ OutShape' /\ CleanReassembly'
  BY <1>2, <1>3, <1>4, <1>5 DEF Next
<1>7. QED
  BY <1>1, <1>6 DEF ReassemblyInv, SessionInv

\* With a store whose writes do not fail, store_transaction_chunk
\* reassembles every cleanly delivered chunked transaction exactly, for
\* every set of hashes, every word size and every choice of split
\* fragments: when every fragment was delivered once, in range, with no
\* re-creation, the child count decides completion exactly when the one
\* missing index is the one in hand.
THEOREM CleanReassemblyHolds ==
  ASSUME ~StoreFailures
  PROVE  Spec => []CleanReassembly
<1>1. Init => ReassemblyInv
  BY InitReassemblyInv
<1>2. ReassemblyInv /\ [Next]_vars => ReassemblyInv'
  BY NextReassemblyInv
<1>3. ReassemblyInv => CleanReassembly
  BY DEF ReassemblyInv
<1>4. QED
  BY <1>1, <1>2, <1>3, PTL DEF Spec

=============================================================================
