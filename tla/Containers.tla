----------------------------- MODULE Containers -----------------------------
(***************************************************************************)
(* The containers of a roaring bitmap: the low halves of the values that   *)
(* share one high half, held as a sorted array, a bitset or a list of runs.*)
(*                                                                         *)
(* A container is a record with its type code, the values it holds and the *)
(* cardinality the C structure stores beside them.  The two can disagree:  *)
(* bitset functions update the stored number from their own count of the   *)
(* bits they flipped, and everything downstream (replies, conversions, the *)
(* serialized header, from which a reader infers the type) trusts it.      *)
(***************************************************************************)
EXTENDS Integers, FiniteSets

CONSTANTS
  ChunkSize,     \* number of low halves, 2^16 in the code
  ArrayMax,      \* DEFAULT_MAX_SIZE: the longest array, 4096 in the code
  BitsetBytes,   \* serialized size of a bitset, 8192 in the code
  RunThreshold   \* arbitrary_threshold of run_array_container_andnot, 32

ASSUME ContainerAssumption ==
  /\ ChunkSize \in Nat
  /\ ArrayMax \in Nat \ {0}
  /\ ArrayMax < ChunkSize
  /\ BitsetBytes \in Nat
  /\ RunThreshold \in Nat

Low == 0 .. ChunkSize - 1

ContainerType == {"bitset", "array", "run"}

Container == [type : ContainerType, vals : SUBSET Low, card : Int]

ArrayOf(S, n)  == [type |-> "array",  vals |-> S, card |-> n]
BitsetOf(S, n) == [type |-> "bitset", vals |-> S, card |-> n]

\* A run container stores no cardinality: it is summed over its runs.
RunOf(S) == [type |-> "run", vals |-> S, card |-> Cardinality(S)]

\* Mutant: off by one at the bound.
IsFullOffByOne(c) == c.card >= ChunkSize - 1

IsFull(c) == c.card = ChunkSize

NonZero(c) == c.card > 0

(***************************************************************************)
(* Conversions (containers/convert.c).                                     *)
(***************************************************************************)

\* Runs are maximal, so a run starts at each value without a predecessor.
NumberOfRuns(S) == Cardinality({x \in S : x - 1 \notin S})

RunBytes(n)   == 2 + 4 * n
ArrayBytes(n) == 2 * n + 2

\* The type that a cardinality calls for: at most DEFAULT_MAX_SIZE values make an
\* array, whose length is the number that was stored, and more make a bitset.
ByCardinality(S, n) == IF n <= ArrayMax THEN ArrayOf(S, n) ELSE BitsetOf(S, n)

EfficientRun(S) ==
  LET n == Cardinality(S)
      stays == /\ RunBytes(NumberOfRuns(S)) <= BitsetBytes
               /\ RunBytes(NumberOfRuns(S)) <= ArrayBytes(n)
  IN  IF stays THEN RunOf(S) ELSE ByCardinality(S, n)

(***************************************************************************)
(* Single values (containers.h).                                           *)
(***************************************************************************)

ContainerAdd(c, x) ==
  LET S == c.vals \union {x}
      n == IF x \in c.vals THEN c.card ELSE c.card + 1
  IN  CASE c.type = "bitset" -> BitsetOf(S, n)
        [] c.type = "array"  -> ByCardinality(S, n)
        [] c.type = "run"    -> RunOf(S)

\* Mutant: a bitset is never turned back into an array.
ContainerRemoveKeepsBitset(c, x) ==
  IF x \in c.vals THEN [c EXCEPT !.vals = @ \ {x}, !.card = @ - 1] ELSE c

\* A bitset is only looked at for conversion when a bit was really cleared.
ContainerRemove(c, x) ==
  LET S == c.vals \ {x}
      n == c.card - 1
  IN  IF c.type # "run" /\ x \notin c.vals THEN c
      ELSE CASE c.type = "bitset" -> ByCardinality(S, n)
             [] c.type = "array"  -> ArrayOf(S, n)
             [] c.type = "run"    -> RunOf(S)

ContainerContains(c, x) == x \in c.vals

(***************************************************************************)
(* c1 |= c2 and c1 &= ~c2, one case per pair of types (containers.h).      *)
(***************************************************************************)

\* Mutant: bits that were set already are counted again.
SetListRecounts(c, S) == c.card + Cardinality(S)

\* A bitset that gains the values of an array counts each bit that was clear.
SetList(c, S) == c.card + Cardinality(S \ c.vals)

\* A bitset that loses the values of an array counts each bit that was set.
ClearList(c, S) == c.card - Cardinality(S \intersect c.vals)

ArrayUnion(c1, c2) ==
  IF c1.card + c2.card <= ArrayMax
  THEN ArrayOf(c1.vals \union c2.vals, Cardinality(c1.vals \union c2.vals))
  ELSE ByCardinality(c1.vals \union c2.vals, SetList(c1, c2.vals))

ContainerIor(c1, c2) ==
  LET S == c1.vals \union c2.vals
      recounted == BitsetOf(S, Cardinality(S))
  IN  CASE c1.type = "bitset" /\ c2.type = "bitset" ->
             IF IsFull(recounted) THEN RunOf(Low) ELSE recounted
        [] c1.type = "bitset" /\ c2.type = "array"  ->
             BitsetOf(S, SetList(c1, c2.vals))
        [] c1.type = "bitset" /\ c2.type = "run"    ->
             IF IsFull(c2) THEN c2 ELSE recounted
        [] c1.type = "array"  /\ c2.type = "bitset" ->
             BitsetOf(S, SetList(c2, c1.vals))
        [] c1.type = "array"  /\ c2.type = "array"  -> ArrayUnion(c1, c2)
        [] c1.type = "run"    /\ c2.type = "bitset" ->
             IF IsFull(c1) THEN c1 ELSE recounted
        [] c1.type # "bitset" /\ c2.type # "bitset"
             /\ "run" \in {c1.type, c2.type}        -> EfficientRun(S)

\* Mutant: a run that spans the whole of c2 is left as it was.
ContainerIandnotKeepsRun(c1, c2) ==
  LET S == IF c1.type = "run" /\ c2.vals \subseteq c1.vals THEN c1.vals
           ELSE c1.vals \ c2.vals
  IN  ByCardinality(S, Cardinality(S))

ContainerIandnot(c1, c2) ==
  LET S == c1.vals \ c2.vals
      n == Cardinality(S)
  IN  CASE c1.type = "array" -> ArrayOf(S, n)
        [] c1.type = "bitset" /\ c2.type = "array" ->
             ByCardinality(S, ClearList(c1, c2.vals))
        [] c1.type = "bitset" /\ c2.type # "array" -> ByCardinality(S, n)
        [] c1.type = "run" /\ c2.type = "bitset"   -> ByCardinality(S, n)
        [] c1.type = "run" /\ c2.type = "run"      -> EfficientRun(S)
        [] c1.type = "run" /\ c2.type = "array"    ->
             IF c1.card <= RunThreshold THEN EfficientRun(S)
             ELSE ByCardinality(S, n)

(***************************************************************************)
(* The representation invariant of a container held in a bitmap.           *)
(***************************************************************************)

CardExact(c) == c.card = Cardinality(c.vals)

TypeFitsCard(c) ==
  /\ c.type = "array"  => c.card <= ArrayMax
  /\ c.type = "bitset" => c.card > ArrayMax

WellFormed(c) == c.vals # {} /\ CardExact(c) /\ TypeFitsCard(c)

=============================================================================
