---------------------------- MODULE ContainerOps ----------------------------
(***************************************************************************)
(* The operations on containers that no command of the module reaches:     *)
(* intersection, union into a new container, symmetric difference,         *)
(* negation, the lazy variants and the conversions, one case per pair of   *)
(* types, and the comparisons of two containers.                           *)
(*                                                                         *)
(* What a case decides is the type of the result and the cardinality that  *)
(* is stored in it: counted anew, derived from the stored cardinality of   *)
(* an argument, or left unknown for a later repair.                        *)
(***************************************************************************)
EXTENDS Containers

CONSTANT
  ArrayLazyLowerBound   \* ARRAY_LAZY_LOWERBOUND, 1024 in the code

ASSUME ContainerOpsAssumption ==
  /\ ArrayLazyLowerBound \in 0 .. ArrayMax
  /\ 2 * ArrayMax < ChunkSize

\* BITSET_UNKNOWN_CARDINALITY
Unknown == -1

\* S with its values counted, in the type that calls for.
Counted(S) == ByCardinality(S, Cardinality(S))

LazyBitset(S) == BitsetOf(S, Unknown)

SymmetricDifference(S, T) == (S \ T) \union (T \ S)

\* The operations that do not care which argument comes first test a pair of types.
Types(c1, c2) == {c1.type, c2.type}

OfType(c1, c2, t) == IF c1.type = t THEN c1 ELSE c2

(***************************************************************************)
(* Intersection, into a new container or into the first.                   *)
(***************************************************************************)

RunBitsetIntersection(run, bitset) ==
  LET S == run.vals \intersect bitset.vals
  IN  IF run.card <= ArrayMax THEN ArrayOf(S, Cardinality(S)) ELSE Counted(S)

ContainerAnd(c1, c2) ==
  LET S == c1.vals \intersect c2.vals
  IN  CASE "array" \in Types(c1, c2)           -> ArrayOf(S, Cardinality(S))
        [] Types(c1, c2) = {"bitset"}          -> Counted(S)
        [] Types(c1, c2) = {"run"}             -> EfficientRun(S)
        [] Types(c1, c2) = {"run", "bitset"}   ->
             RunBitsetIntersection(OfType(c1, c2, "run"), OfType(c1, c2, "bitset"))

(***************************************************************************)
(* Union into a new container.  Unlike the union into the first, it does   *)
(* not look for a full result when both are bitsets.                       *)
(***************************************************************************)

ContainerOr(c1, c2) ==
  IF Types(c1, c2) = {"bitset"}
  THEN BitsetOf(c1.vals \union c2.vals, Cardinality(c1.vals \union c2.vals))
  ELSE ContainerIor(c1, c2)

(***************************************************************************)
(* Symmetric difference, into a new container or into the first.           *)
(***************************************************************************)

\* Mutant: bits that were flipped off are counted as set.
FlipListCountsAll(c, S) == c.card + Cardinality(S)

\* A bitset that has the values of an array flipped follows each bit both ways.
FlipList(c, S) ==
  c.card + Cardinality(S \ c.vals) - Cardinality(S \intersect c.vals)

BitsetArrayXor(bitset, array) ==
  ByCardinality(SymmetricDifference(bitset.vals, array.vals),
                FlipList(bitset, array.vals))

ArrayArrayXor(c1, c2) ==
  LET S == SymmetricDifference(c1.vals, c2.vals)
  IN  IF c1.card + c2.card <= ArrayMax THEN ArrayOf(S, Cardinality(S))
      ELSE ByCardinality(S, FlipList(c1, c2.vals))

\* A short array keeps the runs; otherwise the runs are written out.
ArrayRunXor(array, run) ==
  CASE array.card < RunThreshold ->
         EfficientRun(SymmetricDifference(array.vals, run.vals))
    [] array.card >= RunThreshold /\ run.card <= ArrayMax ->
         ArrayArrayXor(ArrayOf(run.vals, run.card), array)
    [] array.card >= RunThreshold /\ run.card > ArrayMax ->
         BitsetArrayXor(BitsetOf(run.vals, run.card), array)

ContainerXor(c1, c2) ==
  LET S == SymmetricDifference(c1.vals, c2.vals)
  IN  CASE Types(c1, c2) = {"array"}           -> ArrayArrayXor(c1, c2)
        [] Types(c1, c2) = {"run"}             -> EfficientRun(S)
        [] Types(c1, c2) = {"array", "bitset"} ->
             BitsetArrayXor(OfType(c1, c2, "bitset"), OfType(c1, c2, "array"))
        [] Types(c1, c2) = {"array", "run"}    ->
             ArrayRunXor(OfType(c1, c2, "array"), OfType(c1, c2, "run"))
        [] Types(c1, c2) \in {{"bitset"}, {"bitset", "run"}} -> Counted(S)

(***************************************************************************)
(* Difference into a new container.                                        *)
(***************************************************************************)

ContainerAndnot(c1, c2) ==
  IF c2.type = "run" /\ IsFull(c2) THEN ArrayOf({}, 0) ELSE ContainerIandnot(c1, c2)

(***************************************************************************)
(* Negation of a range lo .. hi of low halves, and of all of them.         *)
(***************************************************************************)

ContainerNotRange(c, lo, hi) ==
  LET S == SymmetricDifference(c.vals, lo .. hi)
  IN  IF c.type = "run" THEN EfficientRun(S) ELSE Counted(S)

\* The complement of an array is taken for a bitset without a look at its size.
ContainerNot(c) ==
  IF c.type = "array"
  THEN BitsetOf(Low \ c.vals, ChunkSize - Cardinality(Low \intersect c.vals))
  ELSE ContainerNotRange(c, 0, ChunkSize - 1)

ContainerRangeOfOnes(lo, hi) == RunOf(lo .. hi)

(***************************************************************************)
(* Lazy operations, and the repair that follows them.                      *)
(***************************************************************************)

\* A full run swallows a bitset; the bits are not counted otherwise.
LazyRunBitsetUnion(run, bitset) ==
  IF IsFull(run) THEN run ELSE LazyBitset(run.vals \union bitset.vals)

ArrayArrayLazyUnion(c1, c2) ==
  LET S == c1.vals \union c2.vals
  IN  IF c1.card + c2.card <= ArrayLazyLowerBound
      THEN ArrayOf(S, Cardinality(S)) ELSE LazyBitset(S)

ContainerLazyOr(c1, c2) ==
  LET S == c1.vals \union c2.vals
  IN  CASE Types(c1, c2) = {"array"}         -> ArrayArrayLazyUnion(c1, c2)
        [] Types(c1, c2) = {"run"}           -> EfficientRun(S)
        [] Types(c1, c2) = {"array", "run"}  -> RunOf(S)
        [] Types(c1, c2) = {"bitset", "run"} ->
             LazyRunBitsetUnion(OfType(c1, c2, "run"), OfType(c1, c2, "bitset"))
        [] Types(c1, c2) \in {{"bitset"}, {"bitset", "array"}} -> LazyBitset(S)

\* Two bitsets are counted after all, to notice a full container.
ContainerLazyIor(c1, c2) ==
  IF Types(c1, c2) = {"bitset"} THEN ContainerIor(c1, c2) ELSE ContainerLazyOr(c1, c2)

ArrayArrayLazyXor(c1, c2) ==
  LET S == SymmetricDifference(c1.vals, c2.vals)
  IN  IF c1.card + c2.card <= ArrayLazyLowerBound
      THEN ArrayOf(S, Cardinality(S)) ELSE LazyBitset(S)

ContainerLazyXor(c1, c2) ==
  LET S == SymmetricDifference(c1.vals, c2.vals)
  IN  CASE Types(c1, c2) = {"array"}        -> ArrayArrayLazyXor(c1, c2)
        [] Types(c1, c2) = {"run"}          -> EfficientRun(S)
        [] Types(c1, c2) = {"array", "run"} -> RunOf(S)
        [] "bitset" \in Types(c1, c2)       -> LazyBitset(S)

\* Only two bitsets are treated lazily; any other pair trusts the stored numbers.
ContainerLazyIxor(c1, c2) ==
  IF Types(c1, c2) = {"bitset"}
  THEN LazyBitset(SymmetricDifference(c1.vals, c2.vals))
  ELSE ContainerXor(c1, c2)

\* The test for emptiness counts a bitset of unknown cardinality and keeps the count.
Settle(c) ==
  IF c.type = "bitset" /\ c.card = Unknown
  THEN BitsetOf(c.vals, Cardinality(c.vals)) ELSE c

\* Mutant: a repaired bitset stays a bitset.
RepairKeepsBitset(c) == IF c.type = "run" THEN EfficientRun(c.vals) ELSE Settle(c)

ContainerRepairAfterLazy(c) ==
  CASE c.type = "bitset" -> Counted(c.vals)
    [] c.type = "array"  -> c
    [] c.type = "run"    -> EfficientRun(c.vals)

ContainerToBitset(c) ==
  IF c.type = "bitset" THEN c ELSE BitsetOf(c.vals, c.card)

(***************************************************************************)
(* Conversions on request.                                                 *)
(***************************************************************************)

ConvertRunOptimize(c) ==
  LET runs == RunBytes(NumberOfRuns(c.vals))
      other == IF c.type = "array" THEN ArrayBytes(c.card) ELSE BitsetBytes
  IN  IF c.type = "run" THEN EfficientRun(c.vals)
      ELSE IF runs >= other THEN c ELSE RunOf(c.vals)

ContainerRemoveRunCompression(c) ==
  IF c.type = "run" THEN ByCardinality(c.vals, c.card) ELSE c

(***************************************************************************)
(* Comparisons.  Stored cardinalities decide before any value is looked at.*)
(***************************************************************************)

ContainerEquals(c1, c2) == c1.card = c2.card /\ c1.vals = c2.vals

\* A run container is sought in an array by the places where its runs start and
\* end.  The end may be read behind the last value of the array, where a value
\* that was removed can still stand: runs that only miss values there may be found.
\* (ArrayContainer has the slots.)
MayBeFoundBehind(run, array) ==
  LET missing == run.vals \ array.vals
  IN  /\ \A x \in missing : \A y \in array.vals : y < x
      /\ \A x \in missing : x + 1 \notin run.vals
      /\ \E x \in missing : x - 1 \in run.vals /\ \A y \in missing : x <= y

\* The answers that container_is_subset can give.  A bitset is never sought in an
\* array: it is taken for larger by its type.
ContainerIsSubset(c1, c2) ==
  {/\ ~ (c1.type = "bitset" /\ c2.type = "array")
   /\ c1.card <= c2.card
   /\ c1.vals \subseteq c2.vals}
    \union
  {b \in {TRUE} : /\ c1.type = "run" /\ c2.type = "array" /\ c1.card <= c2.card
                  /\ MayBeFoundBehind(c1, c2)}

(***************************************************************************)
(* Order statistics of one container.                                      *)
(***************************************************************************)

ContainerRank(c, x) == Cardinality({y \in c.vals : y <= x})

\* The value with r smaller ones before it.
ContainerSelect(c, r) ==
  CHOOSE x \in c.vals : Cardinality({y \in c.vals : y < x}) = r

=============================================================================
