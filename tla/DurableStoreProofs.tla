-------------------------- MODULE DurableStoreProofs --------------------------
(***************************************************************************)
(* Lemmas on the durable store's reads and writes (DurableStore), cited by *)
(* the proofs about the components that store through it.                  *)
(***************************************************************************)
EXTENDS DurableStore, SequenceTheorems, TLAPS


\* Writing a value over itself, or over an absent value, at offset 0
\* leaves exactly that value.
LEMMA StoreWriteSame ==
  ASSUME NEW S, NEW t \in Seq(S), NEW v \in {None, t}, None \notin Seq(S)
  PROVE  StoreWrite(v, t, 0) = t
<1>1. CASE v = None
  <2>1. StoreWrite(v, t, 0) = SubSeq(<< >>, 1, 0) \o t \o SubSeq(<< >>, Len(t) + 1, 0)
    BY <1>1 DEF StoreWrite
  <2>2. QED
    BY <2>1
<1>2. CASE v = t
  <2>1. v # None
    BY <1>2
  <2>2. StoreWrite(v, t, 0) = SubSeq(t, 1, 0) \o t \o SubSeq(t, Len(t) + 1, Len(t))
    BY <1>2, <2>1 DEF StoreWrite
  <2>3. QED
    BY <2>2
<1>3. QED
  BY <1>1, <1>2

\* Reading a value that fits in max units from offset 0 returns it whole.
LEMMA StoreReadWhole ==
  ASSUME NEW S, NEW t \in Seq(S), NEW max \in Nat, Len(t) <= max
  PROVE  StoreRead(t, 0, max) = t
BY DEF StoreRead

\* A write at offset 0 of a sequence over a sequence, or over an absent
\* value, is a sequence.
LEMMA StoreWriteSeq ==
  ASSUME NEW S, NEW v \in Seq(S) \cup {None}, NEW d \in Seq(S), None \notin Seq(S)
  PROVE  StoreWrite(v, d, 0) \in Seq(S)
<1>1. CASE v = None
  BY <1>1 DEF StoreWrite
<1>2. CASE v # None
  <2>1. v \in Seq(S)
    BY <1>2
  <2>2. SubSeq(v, 1, 0) \o d \o SubSeq(v, Len(d) + 1, Len(v)) \in Seq(S)
    BY <2>1
  <2>3. QED
    BY <1>2, <2>2 DEF StoreWrite
<1>3. QED
  BY <1>1, <1>2

\* A write at offset 0 starts with what it writes, whatever was there:
\* the old tail is kept only past it.
LEMMA StoreWritePrefix ==
  ASSUME NEW S, NEW v \in Seq(S) \cup {None}, NEW d \in Seq(S), None \notin Seq(S)
  PROVE  \E t \in Seq(S) : StoreWrite(v, d, 0) = d \o t
<1>1. CASE v = None
  <2>1. StoreWrite(v, d, 0) = d \o << >>
    BY <1>1 DEF StoreWrite
  <2>2. << >> \in Seq(S)
    OBVIOUS
  <2>3. QED
    BY <2>1, <2>2
<1>2. CASE v # None
  <2>1. v \in Seq(S)
    BY <1>2
  <2>2. StoreWrite(v, d, 0) = d \o SubSeq(v, Len(d) + 1, Len(v))
    BY <1>2, <2>1 DEF StoreWrite
  <2>3. SubSeq(v, Len(d) + 1, Len(v)) \in Seq(S)
    BY <2>1
  <2>4. QED
    BY <2>2, <2>3
<1>3. QED
  BY <1>1, <1>2

=============================================================================
