----------------------------- MODULE KeyPrefix -----------------------------
(***************************************************************************)
(* The key-space prefixer of package storage (src/unnamed/part_004,        *)
(* type Prefix) and the prefixed range iterator it builds over a physical  *)
(* iterator, driven by the scan loop of the State readers IterateAccounts, *)
(* IterateStorage, IterateNames and GetBlocks (src/execution/config.go).   *)
(*                                                                         *)
(* Byte strings are sequences over 0..MaxByte, MaxByte standing for 0xFF.  *)
(* The physical backend's iterators (tm-db, not in this tree) are modelled *)
(* from their contract: a forward iterator yields the keys of [start, end) *)
(* ascending; a reverse iterator yields the keys of (end, start]           *)
(* descending (the inclusive-start, exclusive-end convention the comment   *)
(* of ReverseIterator relies on).  A nil bound is NoBound.                 *)
(***************************************************************************)
EXTENDS Naturals, Sequences, SequencesExt, FiniteSets

CONSTANTS
    MaxByte,    \* the byte 0xFF
    MaxLen,     \* longest physical key
    MaxDbSize,  \* most keys in the physical store
    StorePrefixes, \* prefixes of the sub-stores under test
    WordLen,    \* binary.Word256Length
    Bounds,     \* logical start/end keys a caller passes
    NoBound     \* nil

Bytes == 0..MaxByte
Strs == BoundedSeq(Bytes, MaxLen)

\* bytes.Compare(a, b) < 0: the backend's lexicographic order.
RECURSIVE BytesLess(_, _)
BytesLess(a, b) ==
    IF b = <<>> THEN FALSE
    ELSE IF a = <<>> THEN TRUE
    ELSE IF Head(a) # Head(b) THEN Head(a) < Head(b)
    ELSE BytesLess(Tail(a), Tail(b))

SortAsc(S) == SetToSortSeq(S, BytesLess)

(***************************************************************************)
(* Prefix.Key, Prefix.Suffix, Prefix.Above, Prefix.Below.  Key(nil) is the *)
(* prefix itself (append of nothing).                                      *)
(***************************************************************************)
Key(p, k) == IF k = NoBound THEN p ELSE p \o k

Suffix(p, key) == SubSeq(key, Len(p) + 1, Len(key))

\* Mutant: the increment without truncating the bytes after index i.
RECURSIVE AboveFromNoTruncate(_, _)
AboveFromNoTruncate(p, i) ==
    IF i = 0 THEN NoBound
    ELSE IF p[i] < MaxByte
         THEN [j \in 1..Len(p) |-> IF j = i THEN p[i] + 1 ELSE p[j]]
         ELSE AboveFromNoTruncate(p, i - 1)

\* The loop "for i := len(p)-1; i >= 0; i--" of Above, from index i down.
RECURSIVE AboveFrom(_, _)
AboveFrom(p, i) ==
    IF i = 0 THEN NoBound
    ELSE IF p[i] < MaxByte
         THEN [j \in 1..i |-> IF j = i THEN p[i] + 1 ELSE p[j]]
         ELSE AboveFrom(p, i - 1)

Above(p) == AboveFrom(p, Len(p))

RECURSIVE BelowFrom(_, _)
BelowFrom(p, i) ==
    IF i = 0 THEN NoBound
    ELSE IF p[i] > 0
         THEN [j \in 1..i |-> IF j = i THEN p[i] - 1 ELSE p[j]]
         ELSE BelowFrom(p, i - 1)

Below(p) == BelowFrom(p, Len(p))

(***************************************************************************)
(* The physical iterators, as the sequence of keys they will yield.        *)
(***************************************************************************)
InForward(k, start, end) ==
    /\ start = NoBound \/ ~BytesLess(k, start)
    /\ end = NoBound \/ BytesLess(k, end)

InReverse(k, start, end) ==
    /\ start = NoBound \/ ~BytesLess(start, k)
    /\ end = NoBound \/ BytesLess(end, k)

SourceIterator(db, start, end) == SortAsc({k \in db : InForward(k, start, end)})

SourceReverseIterator(db, start, end) ==
    Reverse(SortAsc({k \in db : InReverse(k, start, end)}))

\* Mutant: skipOne that never skips.
SkipOneNever(it, skipKey) == it

\* skipOne: drop the first key if it equals skipKey (bytes.Equal treats
\* nil as the empty key).
SkipOne(it, skipKey) ==
    IF it # <<>> /\ Head(it) = (IF skipKey = NoBound THEN <<>> ELSE skipKey)
    THEN Tail(it) ELSE it

\* Prefix.Iterator: physical range [Key(start), Key(end) or Above()).
Iterator(db, p, start, end) ==
    SourceIterator(db, Key(p, start), IF end = NoBound THEN Above(p) ELSE Key(p, end))

\* Prefix.ReverseIterator: physical range (Key(end) or Below(),
\* Key(start) or Above()], skipping Above() itself.
ReverseIterator(db, p, start, end) ==
    LET above == Above(p)
        pstart == IF start = NoBound THEN above ELSE Key(p, start)
        pend == IF end = NoBound THEN Below(p) ELSE Key(p, end)
    IN SkipOne(SourceReverseIterator(db, pstart, pend), above)

(***************************************************************************)
(* prefixIterator.validate: once invalid it returns at once; otherwise it  *)
(* marks the iterator invalid when the source is exhausted or its key      *)
(* leaves the prefix, and then closes the source.  Returns the new invalid *)
(* flag and the number of Close calls on the source.                       *)
(***************************************************************************)
\* Mutant: validate without its "if pi.invalid { return }".
ValidateNoEarlyReturn(p, src, inv, closed) ==
    LET nowInvalid == src = <<>> \/ ~IsPrefix(p, Head(src))
    IN [invalid |-> nowInvalid,
        closes |-> IF nowInvalid THEN closed + 1 ELSE closed]

Validate(p, src, inv, closed) ==
    IF inv THEN [invalid |-> TRUE, closes |-> closed]
    ELSE LET nowInvalid == src = <<>> \/ ~IsPrefix(p, Head(src))
         IN [invalid |-> nowInvalid,
             closes |-> IF nowInvalid THEN closed + 1 ELSE closed]

(***************************************************************************)
(* One reader scan: the Iterate*/GetBlocks loop                            *)
(*     it := ...Iterator(...)                                              *)
(*     for it.Valid() { decode; if consumer(..) { return }; it.Next() }    *)
(* over a physical store db, for the sub-store of prefix p, forward or     *)
(* reverse (rev) between the logical bounds start and end.  The reader is  *)
(* one of the State readers or a caller looping over a prefixKVStore's     *)
(* Iterator or ReverseIterator.                                            *)
(*   reader   which of them                                                *)
(*   src      the keys the physical iterator has still to yield            *)
(*   invalid  prefixIterator.invalid                                       *)
(*   closes   the number of Close calls on the physical iterator           *)
(*   yielded  the logical keys handed to the consumer                      *)
(*   rpc      where the reader is: "valid" (loop head), "body", "done"     *)
(*   stopped  the reader returned early (consumer stop or decode error)    *)
(***************************************************************************)
VARIABLES reader, db, prefix, rev, start, end, src, invalid, closes, yielded, rpc, stopped

vars == <<reader, db, prefix, rev, start, end, src, invalid, closes, yielded, rpc, stopped>>
scan == <<reader, db, prefix, rev, start, end>>

\* The State readers of config.go, which own the iterator they open, and the
\* callers of prefixKVStore's Iterator and ReverseIterator, which get it.
StateReaders == {"IterateAccounts", "IterateStorage", "IterateNames", "GetBlocks"}
Readers == StateReaders \cup {"Iterator", "ReverseIterator"}

\* The iterator each reader opens: IterateAccounts, IterateStorage and
\* IterateNames scan their key format forward with nil bounds; GetBlocks
\* passes the suffixes of its two heights; prefixKVStore's Iterator and
\* ReverseIterator take any bounds.
OpensAccounts == reader = "IterateAccounts" /\ ~rev /\ start = NoBound /\ end = NoBound
OpensStorage  == reader = "IterateStorage" /\ ~rev /\ start = NoBound /\ end = NoBound
OpensNames    == reader = "IterateNames" /\ ~rev /\ start = NoBound /\ end = NoBound
OpensBlocks   == reader = "GetBlocks" /\ ~rev /\ start # NoBound /\ end # NoBound
OpensStoreIterator == reader = "Iterator" /\ ~rev
OpensStoreReverseIterator == reader = "ReverseIterator" /\ rev

Init ==
    /\ db \in {S \in SUBSET Strs : Cardinality(S) <= MaxDbSize}
    /\ prefix \in StorePrefixes
    /\ reader \in Readers
    /\ rev \in BOOLEAN
    /\ start \in Bounds \cup {NoBound}
    /\ end \in Bounds \cup {NoBound}
    /\ \/ OpensAccounts \/ OpensStorage \/ OpensNames \/ OpensBlocks
       \/ OpensStoreIterator \/ OpensStoreReverseIterator
    /\ src = IF rev THEN ReverseIterator(db, prefix, start, end)
                    ELSE Iterator(db, prefix, start, end)
    /\ invalid = FALSE
    /\ closes = 0
    /\ yielded = <<>>
    /\ rpc = "valid"
    /\ stopped = FALSE

\* it.Valid() at the loop head: validate, then !invalid && source.Valid();
\* on false the reader returns (false, nil).
LoopValid ==
    /\ rpc = "valid"
    /\ LET v == Validate(prefix, src, invalid, closes)
       IN /\ invalid' = v.invalid
          /\ closes' = v.closes
          /\ rpc' = IF ~v.invalid /\ src # <<>> THEN "body" ELSE "done"
    /\ UNCHANGED <<scan, src, yielded, stopped>>

\* Decoding the value fails (acm.Decode, DecodeBlockExecution, DecodeEntry,
\* or IterateStorage's value is not a word): the reader returns (true, err).
DecodeFails ==
    /\ rpc = "body"
    /\ reader \in StateReaders
    /\ rpc' = "done"
    /\ stopped' = TRUE
    /\ UNCHANGED <<scan, src, invalid, closes, yielded>>

\* IterateStorage: a key that is not binary.Word256Length bytes long is an
\* error, never padded: the reader returns (true, err).
StorageKeyWidthFails ==
    /\ rpc = "body"
    /\ reader = "IterateStorage"
    /\ Len(Suffix(prefix, Head(src))) # WordLen
    /\ rpc' = "done"
    /\ stopped' = TRUE
    /\ UNCHANGED <<scan, src, invalid, closes, yielded>>

\* The key reaches the consumer: any key but a storage key of the wrong width.
KeyAccepted == reader = "IterateStorage" => Len(Suffix(prefix, Head(src))) = WordLen

\* consumer(it.Key()...) asks to stop: the reader returns (true, nil).
ConsumerStops ==
    /\ rpc = "body"
    /\ KeyAccepted
    /\ yielded' = Append(yielded, Suffix(prefix, Head(src)))
    /\ rpc' = "done"
    /\ stopped' = TRUE
    /\ UNCHANGED <<scan, src, invalid, closes>>

\* consumer returns false, then it.Next(): source.Next() and validate.
ConsumerNext ==
    /\ rpc = "body"
    /\ KeyAccepted
    /\ yielded' = Append(yielded, Suffix(prefix, Head(src)))
    /\ src' = Tail(src)
    /\ LET v == Validate(prefix, Tail(src), invalid, closes)
       IN /\ invalid' = v.invalid
          /\ closes' = v.closes
    /\ rpc' = "valid"
    /\ UNCHANGED <<scan, stopped>>

Next == LoopValid \/ DecodeFails \/ StorageKeyWidthFails \/ ConsumerStops \/ ConsumerNext

Spec == Init /\ [][Next]_vars

-----------------------------------------------------------------------------
(***************************************************************************)
(* What the sub-store holds in the requested range, in iteration order:    *)
(* the suffixes of the keys of db that begin with prefix, forward in            *)
(* [start, end), reverse in (end, start].                                  *)
(***************************************************************************)
Expected ==
    LET local == {Suffix(prefix, k) : k \in {k \in db : IsPrefix(prefix, k)}}
    IN IF rev THEN Reverse(SortAsc({k \in local : InReverse(k, start, end)}))
              ELSE SortAsc({k \in local : InForward(k, start, end)})

(***************************************************************************)
(* Refinement: every reader's scan implements SubStoreScan.  The range is  *)
(* Expected, the keys handed over are yielded, and the scan has ended when *)
(* Valid() returned false, stopped when the reader returned early.         *)
(***************************************************************************)
Scan == INSTANCE SubStoreScan WITH
    Elems <- Strs,
    range <- Expected,
    handed <- yielded,
    status <- IF rpc # "done" THEN "open" ELSE IF stopped THEN "stopped" ELSE "ended"

\* Containment, order and completeness of Iterator/ReverseIterator over the
\* shared backend, through Above, Below, skipOne and validate: every reader
\* is handed the sub-store's keys of its range, in order, one at a time,
\* never a key of a neighbouring sub-store or beyond a bound, and a scan
\* that ends (Valid() false) has handed over all of them.
SubStoreScanSpec == Scan!Spec

\* validate releases the physical iterator at most once, however many
\* times Valid() and Next() are called after it became invalid.
SourceReleasedOnce == closes <= 1

\* The State readers (IterateAccounts, IterateStorage, IterateNames,
\* GetBlocks) open their iterator themselves and hand it to no one, so each
\* must release it when it returns, on the early-return paths (consumer
\* stop, decode error, bad storage key) too.  The callers of prefixKVStore's
\* Iterator hold the iterator past the scan and are not concerned.
IteratorReleasedOnReturn == (rpc = "done" /\ reader \in StateReaders) => closes = 1

\* Prefix.Above is the least byte string above every key of the sub-store
\* (nil only when every byte is 0xFF).
UpperBound(q, s) == BytesLess(q, s) /\ ~IsPrefix(q, s)
AboveIsMinimal ==
    IF \A i \in 1..Len(prefix) : prefix[i] = MaxByte THEN Above(prefix) = NoBound
    ELSE /\ Above(prefix) # NoBound
         /\ UpperBound(prefix, Above(prefix))
         /\ \A s \in Strs : UpperBound(prefix, s) => ~BytesLess(s, Above(prefix))

=============================================================================
