----------------------------- MODULE DurableStore -----------------------------
(***************************************************************************)
(* The host's durable store on one value, as the storage layer uses it     *)
(* (spec.md section 6; the host is not part of this repository): a value   *)
(* is a sequence of units (blocks of bytes, hashes), read and written at   *)
(* an offset.  A write does not truncate: the part of the old value past   *)
(* the bytes written is kept.                                              *)
(***************************************************************************)
EXTENDS Naturals, Sequences

CONSTANT None   \* an absent value

\* host.store_read(path, offset, max_bytes): at most max units from offset.
StoreRead(v, off, max) ==
    SubSeq(v, off + 1, IF off + max < Len(v) THEN off + max ELSE Len(v))

\* host.store_write(path, bytes, offset) on the value v (None: absent).
StoreWrite(v, d, off) ==
    LET old == IF v = None THEN << >> ELSE v
    IN  SubSeq(old, 1, off) \o d \o SubSeq(old, off + Len(d) + 1, Len(old))
=============================================================================
