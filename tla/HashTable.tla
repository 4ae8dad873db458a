------------------------------ MODULE HashTable ------------------------------
(***************************************************************************)
(* JSHashTable (jshash.c): chained buckets; a lookup returns the address   *)
(* of the pointer to the entry it finds, or of the NULL at the end of the  *)
(* chain, and moves what it finds to the front of its chain; the table     *)
(* doubles and halves itself.                                              *)
(*                                                                         *)
(* A table is a record of log, the logarithm of NBUCKETS, and buckets, the *)
(* array of the chains.  An address is a cell: the head of a bucket or the *)
(* next field of an entry.                                                 *)
(***************************************************************************)
EXTENDS Integers, SequencesExt

CONSTANTS
  Keys,      \* what is hashed
  HashBits,  \* JS_HASH_BITS
  Hash,      \* Hash[k]: keyHash(k) * JS_GOLDEN_RATIO
  MinLog     \* MINBUCKETSLOG2

\* JS_BIT.  Like Only below it is defined by recursion, for the proofs.
Power[n \in Nat] == IF n = 0 THEN 1 ELSE 2 * Power[n - 1]

ASSUME HashTableAssumption ==
  /\ HashBits \in Nat
  /\ MinLog \in 0..HashBits
  /\ Hash \in [Keys -> 0..(Power[HashBits] - 1)]

Overloaded(n) == n - n \div 8
Underloaded(n) == IF n > Power[MinLog] THEN n \div 4 ELSE 0

EmptyTable == [log |-> MinLog, buckets |-> [i \in 0..(Power[MinLog] - 1) |-> <<>>]]

\* The high bits of the hash code choose the bucket.
Index(k, log) == Hash[k] \div Power[HashBits - log]

\* NBUCKETS is computed from shift.  It is the size of the array unless an
\* allocation has failed; after that every use of the table goes astray.
Sound(T) == DOMAIN T.buckets = 0..(Power[T.log] - 1)

Bucket(i) == [bucket |-> i]
NextCell(e) == [entry |-> e]
Entries(T) == UNION {ToSet(T.buckets[i]) : i \in DOMAIN T.buckets}

\* The entries of chain s that are in S, in order.
Only(s, S) ==
  LET kept[n \in 0..Len(s)] ==
        IF n = 0 THEN <<>> ELSE IF s[n] \in S THEN Append(kept[n - 1], s[n]) ELSE kept[n - 1]
  IN kept[Len(s)]

\* key[e]: the key of entry e.
FoundIn(T, key, k) == {e \in ToSet(T.buckets[Index(k, T.log)]) : key[e] = k}

\* Mutant: what is in front of the entry is cut off.
MoveToFrontCut(T, i, e) ==
  [T EXCEPT !.buckets[i] = SubSeq(@, SelectInSeq(@, LAMBDA x : x = e), Len(@))]

MoveToFront(T, i, e) == [T EXCEPT !.buckets[i] = <<e>> \o Only(@, ToSet(@) \ {e})]

\* JS_HashTableRawLookup of a key that is not there.
TailCell(T, k) ==
  LET i == Index(k, T.log) IN
  IF T.buckets[i] = <<>> THEN Bucket(i) ELSE NextCell(T.buckets[i][Len(T.buckets[i])])

\* he->next = *hep, *hep = he.
Insert(T, cell, e) ==
  [T EXCEPT !.buckets = [i \in DOMAIN @ |->
     IF cell = Bucket(i) THEN <<e>> \o @[i]
     ELSE LET p == SelectInSeq(@[i], LAMBDA x : cell = NextCell(x)) IN
          IF p = 0 THEN @[i] ELSE InsertAt(@[i], p + 1, e)]]

\* Move all entries, chain by chain, each to the end of its new chain.
Rehash(T, key, log) ==
  LET all == FlattenSeq([i \in 1..Power[T.log] |-> T.buckets[i - 1]]) IN
  [log |-> log,
   buckets |-> [j \in 0..(Power[log] - 1) |->
                  Only(all, {e \in ToSet(all) : Index(key[e], log) = j})]]

\* What JS_HashTableRawAdd does to a table of n entries first.
Grown(T, key, n) ==
  IF n >= Overloaded(Power[T.log]) THEN Rehash(T, key, T.log + 1) ELSE T

\* The size after d entries have been freed, one by one, of the n there were.
ShrunkLog(log, n, d) ==
  LET step[i \in 0..d] ==
        IF i = 0 THEN log
        ELSE IF n - i < Underloaded(Power[step[i - 1]]) THEN step[i - 1] - 1 ELSE step[i - 1]
  IN step[d]

\* JS_HashTableEnumerateEntries with a function that removes Dead: unlink
\* them all, then free them one by one, and halve the table as it empties.
Swept(T, key, n, Dead) ==
  LET left == [T EXCEPT !.buckets = [i \in DOMAIN @ |-> Only(@[i], ToSet(@[i]) \ Dead)]]
      log == ShrunkLog(T.log, n, Cardinality(Dead))
  IN IF log = T.log THEN left ELSE Rehash(left, key, log)
=============================================================================
