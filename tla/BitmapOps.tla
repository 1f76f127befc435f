------------------------------ MODULE BitmapOps -----------------------------
(***************************************************************************)
(* The rest of the public interface of a bitmap: operations on two bitmaps *)
(* into a third, ranges, conversions, lazy unions and differences of many  *)
(* bitmaps, comparisons and order statistics.                              *)
(*                                                                         *)
(* The interface takes values as 32-bit integers; here a value is the pair *)
(* of its halves, and a range is given by its first and its last value.    *)
(***************************************************************************)
EXTENDS Bitmaps, ContainerOps

(***************************************************************************)
(* Two bitmaps merged by key.                                              *)
(***************************************************************************)

\* Mutant: the count that the test makes is not kept.
SettledUncounted(b, K) == Drop(b, {k \in K : ~ NonZero(Settle(b[k]))})

\* b without the keys of K whose container turned out empty.  The test counts
\* the bits of a lazy bitset.
Settled(b, K) ==
  LET settled == [k \in DOMAIN b |-> IF k \in K THEN Settle(b[k]) ELSE b[k]]
  IN  Drop(settled, {k \in K : ~ NonZero(settled[k])})

Shared(x1, x2) == DOMAIN x1 \intersect DOMAIN x2

\* What a walk along both key arrays leaves: the containers under a shared key
\* combined, the others copied, and after the end of one array the tail of the
\* other copied as a range.
Merge(x1, x2, Combine(_, _)) ==
  LET tails  == Beyond(x1, x2) \union Beyond(x2, x1)
      copied == AppendCopyRange(x1, x2) \union AppendCopyRange(x2, x1)
      walked == (DOMAIN x1 \union DOMAIN x2) \ tails
  IN  IF DOMAIN x1 = {} THEN x2
      ELSE IF DOMAIN x2 = {} THEN x1
      ELSE [k \in walked \union copied |->
             IF k \in Shared(x1, x2) THEN Combine(x1[k], x2[k])
             ELSE IF k \in DOMAIN x1 THEN x1[k] ELSE x2[k]]

\* The same in place: x1 keeps its own tail, whatever its length.
MergeInplace(x1, x2, Combine(_, _)) ==
  LET walked == DOMAIN x1 \union (DOMAIN x2 \ Beyond(x1, x2))
  IN  IF DOMAIN x1 = {} THEN x2
      ELSE IF DOMAIN x2 = {} THEN x1
      ELSE [k \in walked \union AppendCopyRange(x1, x2) |->
             IF k \in Shared(x1, x2) THEN Combine(x1[k], x2[k])
             ELSE IF k \in DOMAIN x1 THEN x1[k] ELSE x2[k]]

BitmapAnd(x1, x2) ==
  Settled([k \in Shared(x1, x2) |-> ContainerAnd(x1[k], x2[k])], Shared(x1, x2))

BitmapOr(x1, x2) == Merge(x1, x2, ContainerOr)

BitmapXor(x1, x2) == Settled(Merge(x1, x2, ContainerXor), Shared(x1, x2))

BitmapXorInplace(x1, x2) ==
  Settled(MergeInplace(x1, x2, ContainerXor), Shared(x1, x2))

\* The tail of x1 is copied as a range, so a full x1 loses it.
BitmapAndnot(x1, x2) ==
  LET kept == (DOMAIN x1 \ Beyond(x2, x1)) \union AppendCopyRange(x2, x1)
  IN  IF DOMAIN x2 = {} THEN x1
      ELSE Settled([k \in kept |-> IF k \in DOMAIN x2
                                   THEN ContainerAndnot(x1[k], x2[k]) ELSE x1[k]],
                   Shared(x1, x2))

(***************************************************************************)
(* Negation of the values first .. last.                                   *)
(***************************************************************************)

LastLow == ChunkSize - 1

\* The containers that the range touches, and the part of each.
FirstIn(first, k) == IF k = HighBits(first) THEN LowBits(first) ELSE 0
LastIn(last, k)   == IF k = HighBits(last) THEN LowBits(last) ELSE LastLow

\* A container inside the range is negated as a whole, the one that a range
\* starts or ends in, or that holds both ends, by its part.
FlipContainer(b, first, last, k) ==
  LET lo == FirstIn(first, k)
      hi == LastIn(last, k)
      whole == lo = 0 /\ hi = LastLow /\ HighBits(first) # HighBits(last)
  IN  IF k \notin DOMAIN b THEN ContainerRangeOfOnes(lo, hi)
      ELSE IF whole THEN ContainerNot(b[k])
      ELSE ContainerNotRange(b[k], lo, hi)

\* Mutant: the container that the range ends in is left alone.
FlipInplaceSkipsLast(b, first, last) ==
  LET touched == HighBits(first) .. HighBits(last) - 1
  IN  [k \in DOMAIN b \union touched |->
         IF k \in touched THEN FlipContainer(b, first, last, k) ELSE b[k]]

FlipInplace(b, first, last) ==
  LET touched == HighBits(first) .. HighBits(last)
      flipped == [k \in DOMAIN b \union touched |->
                    IF k \in touched THEN FlipContainer(b, first, last, k) ELSE b[k]]
  IN  Drop(flipped, {k \in touched : flipped[k].card = 0})

\* Into a new bitmap: what follows the range is copied as a range of containers, so
\* a bitmap with all containers loses it.
Flip(b, first, last) ==
  LET after == {k \in DOMAIN b : k > HighBits(last)}
  IN  IF Cardinality(DOMAIN b) % KeyMod = 0
      THEN Drop(FlipInplace(b, first, last), after)
      ELSE FlipInplace(b, first, last)

\* The loop over whole containers counts in a uint16_t and goes on while it is at
\* most the last of them, so it only ends when that is not the largest uint16_t.
FlipEnds(first, last) ==
  ~ (/\ HighBits(first) # HighBits(last)
     /\ HighBits(last) = KeyMod - 1
     /\ LowBits(last) = LastLow)

(***************************************************************************)
(* Ranges and conversions.                                                 *)
(***************************************************************************)

\* The integer that a value is, and back.
AsInteger(v) == HighBits(v) * ChunkSize + LowBits(v)

\* min, min + step, ... below max, for integers min < max.
FromRange(min, max, step) ==
  LET in(k) == {x \in Low : /\ k * ChunkSize + x \in min .. max - 1
                            /\ (k * ChunkSize + x - min) % step = 0}
      touched == {k \in Chunk : in(k) # {}}
  IN  [k \in touched |-> IF step = 1 THEN RunOf(in(k)) ELSE Counted(in(k))]

RunOptimize(b) == [k \in DOMAIN b |-> ConvertRunOptimize(b[k])]

RemoveRunCompression(b) == [k \in DOMAIN b |-> ContainerRemoveRunCompression(b[k])]

\* A run of at most DEFAULT_MAX_SIZE values is written out with a uint16_t that goes
\* on while it is at most the end of the run: it only ends below the largest value.
RemoveRunCompressionEnds(b) ==
  \A k \in DOMAIN b :
    ~ (b[k].type = "run" /\ b[k].card <= ArrayMax /\ LastLow \in b[k].vals)

(***************************************************************************)
(* Many bitmaps at once: lazy operations, then one repair.                 *)
(***************************************************************************)

\* With bitsetconversion, a first container that is no bitset becomes one unless
\* the second is one already.
LazyOrConverting(c1, c2) ==
  IF "bitset" \in Types(c1, c2) THEN ContainerLazyOr(c1, c2)
  ELSE ContainerLazyIor(ContainerToBitset(c1), c2)

LazyOr(x1, x2, bitsetconversion) ==
  IF bitsetconversion THEN Merge(x1, x2, LazyOrConverting)
  ELSE Merge(x1, x2, ContainerLazyOr)

LazyIorUnlessFull(c1, c2) ==
  IF IsFull(c1) THEN c1 ELSE ContainerLazyIor(c1, c2)

LazyIorConverting(c1, c2) ==
  IF IsFull(c1) THEN c1 ELSE ContainerLazyIor(ContainerToBitset(c1), c2)

LazyOrInplace(x1, x2, bitsetconversion) ==
  IF bitsetconversion THEN MergeInplace(x1, x2, LazyIorConverting)
  ELSE MergeInplace(x1, x2, LazyIorUnlessFull)

LazyXor(x1, x2) == Settled(Merge(x1, x2, ContainerLazyXor), Shared(x1, x2))

LazyXorInplace(x1, x2) ==
  Settled(MergeInplace(x1, x2, ContainerLazyIxor), Shared(x1, x2))

RepairAfterLazy(b) == [k \in DOMAIN b |-> ContainerRepairAfterLazy(b[k])]

(***************************************************************************)
(* Comparisons and order statistics.                                       *)
(***************************************************************************)

BitmapEquals(x1, x2) ==
  /\ DOMAIN x1 = DOMAIN x2
  /\ \A k \in DOMAIN x1 : ContainerEquals(x1[k], x2[k])

\* The answers that roaring_bitmap_is_subset can give.  A key of x1 that x2 lacks
\* decides, as do two containers that are found not to be nested.
BitmapIsSubset(x1, x2) ==
  {b \in BOOLEAN :
     IF b THEN /\ DOMAIN x1 \subseteq DOMAIN x2
               /\ \A k \in DOMAIN x1 : TRUE \in ContainerIsSubset(x1[k], x2[k])
     ELSE \/ ~ (DOMAIN x1 \subseteq DOMAIN x2)
          \/ \E k \in Shared(x1, x2) : FALSE \in ContainerIsSubset(x1[k], x2[k])}

\* Mutant: the container of v is counted with those before it.
StoredUpTo(b, k) ==
  LET sum[j \in 0 .. KeyMod] ==
        (IF j = 0 THEN 0 ELSE sum[j - 1]) + IF j \in DOMAIN b THEN b[j].card ELSE 0
  IN  sum[k]

\* Stored cardinalities up to the container of v, then its values up to v.
StoredBelow(b, k) ==
  LET sum[j \in 0 .. KeyMod] ==
        IF j = 0 THEN 0
        ELSE sum[j - 1] + IF j - 1 \in DOMAIN b THEN b[j - 1].card ELSE 0
  IN  sum[k]

BitmapRank(b, v) ==
  LET k == HighBits(v)
  IN  StoredBelow(b, k)
        + IF k \in DOMAIN b THEN ContainerRank(b[k], LowBits(v)) ELSE 0

\* The first container whose stored cardinality reaches past rank r; <<>> when
\* there is none.
BitmapSelect(b, r) ==
  LET past == {k \in DOMAIN b : StoredBelow(b, k) + b[k].card > r}
      k == Least(past)
  IN  IF past = {} THEN <<>>
      ELSE <<k, ContainerSelect(b[k], r - StoredBelow(b, k))>>

Greatest(S) == CHOOSE x \in S : \A y \in S : y <= x

\* The extremes of the first and of the last container.
BitmapMinimum(b) == LET k == Least(DOMAIN b) IN <<k, Least(b[k].vals)>>

BitmapMaximum(b) == LET k == Greatest(DOMAIN b) IN <<k, Greatest(b[k].vals)>>

=============================================================================
