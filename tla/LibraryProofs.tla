----------------------------- MODULE LibraryProofs ---------------------------
(***************************************************************************)
(* Theorems about a program that calls the library on its bitmaps: every   *)
(* bitmap that any sequence of calls can make is sound, and on sound       *)
(* bitmaps the operations compute what they promise about sets.            *)
(*                                                                         *)
(* And about its many-way unions and symmetric differences, which return   *)
(* exact and repaired bitmaps, for every number of bitmaps, every chunk    *)
(* size and every threshold: between two lazy steps a cardinality is       *)
(* unknown or right, and the priority queue is a heap that loses no        *)
(* element.                                                                *)
(***************************************************************************)
EXTENDS BitmapLibrary, ManyBitmaps, BitmapsProofs, SequenceTheorems

-----------------------------------------------------------------------------
(***************************************************************************)
(* The inductive invariant: every variable holds a sound bitmap.           *)
(***************************************************************************)

LibraryInv ==
  /\ reg = [r \in Register |-> reg[r]]
  /\ \A r \in Register : SoundBitmap(reg[r])

\* An assignment of a sound bitmap to one of the variables.
LEMMA AssignKeeps ==
  ASSUME LibraryInv, NEW r \in Register, NEW b, SoundBitmap(b), Assign(r, b)
  PROVE  LibraryInv'
BY DEF LibraryInv, Assign

\* A range that a call takes.
LEMMA RangeParts ==
  ASSUME NEW p \in Ranges
  PROVE  /\ p[1] \in Value /\ p[2] \in Value
         /\ HighBits(p[1]) .. HighBits(p[2]) \subseteq Chunk
BY LibraryAssumption

LEMMA StepKeeps == LibraryInv /\ [LibraryNext]_libraryVars => LibraryInv'
<1> SUFFICES ASSUME LibraryInv, [LibraryNext]_libraryVars PROVE LibraryInv'
  OBVIOUS
<1>1. CASE UNCHANGED libraryVars
  BY <1>1 DEF LibraryInv, libraryVars
<1>2. ASSUME NEW r \in Register, Create(r) PROVE LibraryInv'
  BY <1>2, EmptyBitmapSound, AssignKeeps DEF Create
<1>3. ASSUME NEW r \in Register, NEW v \in Single, Add(r, v) PROVE LibraryInv'
  <2>1. v \in Value /\ SoundBitmap(reg[r])
    BY LibraryAssumption DEF LibraryInv
  <2> QED
    BY <1>3, <2>1, BitmapAddSound, AssignKeeps DEF Add
<1>4. ASSUME NEW r \in Register, NEW v \in Single, Remove(r, v) PROVE LibraryInv'
  <2>1. v \in Value /\ SoundBitmap(reg[r])
    BY LibraryAssumption DEF LibraryInv
  <2> QED
    BY <1>4, <2>1, BitmapRemoveSound, AssignKeeps DEF Remove
<1>5. ASSUME NEW r \in Register, NEW p \in Ranges, NEW step \in Steps,
             MakeRange(r, p, step)
      PROVE  LibraryInv'
  BY <1>5, FromRangeSound, AssignKeeps DEF MakeRange
<1>6. ASSUME NEW r \in Register, NEW p \in Flippable, FlipRange(r, p)
      PROVE  LibraryInv'
  <2>1. p \in Ranges /\ SoundBitmap(reg[r])
    BY DEF Flippable, LibraryInv
  <2>2. SoundBitmap(FlipInplace(reg[r], p[1], p[2]))
    BY <2>1, RangeParts, FlipInplaceSound
  <2> QED
    BY <1>6, <2>2, AssignKeeps DEF FlipRange
<1>7. ASSUME NEW r \in Register, NEW q \in Register, NEW p \in Flippable,
             FlipInto(r, q, p)
      PROVE  LibraryInv'
  <2>1. p \in Ranges /\ SoundBitmap(reg[q])
    BY DEF Flippable, LibraryInv
  <2>2. SoundBitmap(Flip(reg[q], p[1], p[2]))
    BY <2>1, RangeParts, FlipSound
  <2> QED
    BY <1>7, <2>2, AssignKeeps DEF FlipInto
<1>8. ASSUME NEW r \in Register, Optimize(r) PROVE LibraryInv'
  BY <1>8, BitmapConversionsSound, AssignKeeps DEF Optimize, LibraryInv
<1>9. ASSUME NEW r \in Register, Decompress(r) PROVE LibraryInv'
  BY <1>9, BitmapConversionsSound, AssignKeeps DEF Decompress, LibraryInv
<1>10. ASSUME NEW r \in Register, NEW q \in Register,
              \/ And(r, q) \/ Or(r, q) \/ Xor(r, q) \/ Andnot(r, q)
              \/ OrInto(r, q) \/ XorInto(r, q) \/ AndnotInto(r, q)
       PROVE  LibraryInv'
  <2>1. SoundBitmap(reg[r]) /\ SoundBitmap(reg[q])
    BY DEF LibraryInv
  <2>2. /\ SoundBitmap(BitmapAnd(reg[r], reg[q]))
        /\ SoundBitmap(BitmapOr(reg[r], reg[q]))
        /\ SoundBitmap(BitmapXor(reg[r], reg[q]))
        /\ SoundBitmap(BitmapAndnot(reg[r], reg[q]))
    BY <2>1, BitmapAndSound, BitmapOrSound, BitmapXorSound, BitmapAndnotSound
  <2>3. /\ SoundBitmap(OrInplace(reg[r], reg[q]))
        /\ SoundBitmap(BitmapXorInplace(reg[r], reg[q]))
        /\ SoundBitmap(AndNotInplace(reg[r], reg[q]))
    BY <2>1, OrInplaceSound, BitmapXorSound, AndNotInplaceSound
  <2> QED
    BY <1>10, <2>2, <2>3, AssignKeeps
    DEF And, Or, Xor, Andnot, OrInto, XorInto, AndnotInto
<1> QED
  BY <1>1, <1>2, <1>3, <1>4, <1>5, <1>6, <1>7, <1>8, <1>9, <1>10 DEF LibraryNext

THEOREM LibraryInvariant == LibrarySpec => []LibraryInv
<1>1. LibraryInit => LibraryInv
  BY EmptyBitmapSound DEF LibraryInit, LibraryInv
<1> QED
  BY <1>1, StepKeeps, PTL DEF LibrarySpec

\* No operation leaves an empty container, an inexact stored cardinality or a type
\* that does not fit it, whatever calls came before and whatever the chunk size.
THEOREM AllWellFormedHolds == LibrarySpec => []AllWellFormed
<1>1. LibraryInv => AllWellFormed
  BY DEF LibraryInv, AllWellFormed, SoundBitmap
<1> QED
  BY <1>1, LibraryInvariant, PTL

-----------------------------------------------------------------------------
(***************************************************************************)
(* Sets of values.                                                         *)
(***************************************************************************)

\* An operation that combines two bitmaps layer by layer combines their sets.
LEMMA LayersOf ==
  ASSUME NEW b
  PROVE  /\ ToSet(b) \subseteq Value
         /\ \A v \in Value : v \in ToSet(b) <=> LowBits(v) \in Layer(b, HighBits(v))
BY ToSetLayer DEF ToSet

LEMMA LayersMeet ==
  ASSUME NEW left, NEW right, NEW r,
         \A k : Layer(r, k) = Layer(left, k) \intersect Layer(right, k)
  PROVE  ToSet(r) = ToSet(left) \intersect ToSet(right)
BY LayersOf

LEMMA LayersJoin ==
  ASSUME NEW left, NEW right, NEW r,
         \A k : Layer(r, k) = Layer(left, k) \union Layer(right, k)
  PROVE  ToSet(r) = ToSet(left) \union ToSet(right)
BY LayersOf

LEMMA LayersTakeAway ==
  ASSUME NEW left, NEW right, NEW r,
         \A k : Layer(r, k) = Layer(left, k) \ Layer(right, k)
  PROVE  ToSet(r) = ToSet(left) \ ToSet(right)
BY LayersOf

LEMMA LayersDiffer ==
  ASSUME NEW left, NEW right, NEW r,
         \A k : Layer(r, k) = SymmetricDifference(Layer(left, k), Layer(right, k))
  PROVE  ToSet(r) = SymmetricDifference(ToSet(left), ToSet(right))
BY LayersOf DEF SymmetricDifference

\* Union, intersection, difference and symmetric difference, into a new bitmap and in
\* place, are those of the sets.  The hypothesis is that no bitmap uses all of the
\* container keys: with all of them the bound of the copied tail wraps around.
THEOREM AlgebraExactHolds ==
  ASSUME Cardinality(Chunk) < KeyMod
  PROVE  LibrarySpec => []AlgebraExact
<1>1. LibraryInv => AlgebraExact
  <2> SUFFICES ASSUME LibraryInv, NEW q \in Register, NEW r \in Register
               PROVE  LET S == ToSet(reg[q])
                          T == ToSet(reg[r])
                      IN  /\ ToSet(BitmapAnd(reg[q], reg[r])) = S \intersect T
                          /\ ToSet(BitmapOr(reg[q], reg[r])) = S \union T
                          /\ ToSet(BitmapXor(reg[q], reg[r])) = SymmetricDifference(S, T)
                          /\ ToSet(BitmapAndnot(reg[q], reg[r])) = S \ T
                          /\ ToSet(OrInplace(reg[q], reg[r])) = S \union T
                          /\ ToSet(BitmapXorInplace(reg[q], reg[r]))
                               = SymmetricDifference(S, T)
                          /\ ToSet(AndNotInplace(reg[q], reg[r])) = S \ T
    BY DEF AlgebraExact
  <2> DEFINE left == reg[q]
             right == reg[r]
  <2>1. SoundBitmap(left) /\ SoundBitmap(right)
    BY DEF LibraryInv
  <2> HIDE DEF left, right
  <2>2. ToSet(BitmapAnd(left, right)) = ToSet(left) \intersect ToSet(right)
    <3>1. \A k : Layer(BitmapAnd(left, right), k) = Layer(left, k) \intersect Layer(right, k)
      BY <2>1, BitmapAndSound
    <3> QED
      BY <3>1, LayersMeet
  <2>3. ToSet(BitmapOr(left, right)) = ToSet(left) \union ToSet(right)
    <3>1. \A k : Layer(BitmapOr(left, right), k) = Layer(left, k) \union Layer(right, k)
      BY <2>1, BitmapOrSound
    <3> QED
      BY <3>1, LayersJoin
  <2>4. /\ ToSet(BitmapXor(left, right)) = SymmetricDifference(ToSet(left), ToSet(right))
        /\ ToSet(BitmapXorInplace(left, right)) = SymmetricDifference(ToSet(left), ToSet(right))
    BY <2>1, BitmapXorSound, LayersDiffer
  <2>5. ToSet(BitmapAndnot(left, right)) = ToSet(left) \ ToSet(right)
    <3>1. \A k : Layer(BitmapAndnot(left, right), k) = Layer(left, k) \ Layer(right, k)
      BY <2>1, BitmapAndnotSound
    <3> QED
      BY <3>1, LayersTakeAway
  <2>6. ToSet(OrInplace(left, right)) = ToSet(left) \union ToSet(right)
    BY <2>1, OrInplaceUnion
  <2>7. ToSet(AndNotInplace(left, right)) = ToSet(left) \ ToSet(right)
    BY <2>1, AndNotInplaceSound
  <2> QED
    BY <2>2, <2>3, <2>4, <2>5, <2>6, <2>7 DEF left, right
<1> QED
  BY <1>1, LibraryInvariant, PTL

\* Negating a range, in place and into a new bitmap, changes the values in it and no
\* others, and the conversions change none.  The hypothesis is as before.
THEOREM RangesExactHolds ==
  ASSUME Cardinality(Chunk) < KeyMod
  PROVE  LibrarySpec => []RangesExact
<1>1. ASSUME NEW b, SoundBitmap(b), NEW p \in Flippable,
             NEW f \in {FlipInplace(b, p[1], p[2]), Flip(b, p[1], p[2])}
      PROVE  ToSet(f) = SymmetricDifference(ToSet(b), Between(p[1], p[2]))
  <2>1. p[1] \in Value /\ p[2] \in Value /\ HighBits(p[1]) .. HighBits(p[2]) \subseteq Chunk
    BY RangeParts DEF Flippable
  <2>2. \A k : Layer(f, k) = SymmetricDifference(Layer(b, k), PartOf(p[1], p[2], k))
    BY <1>1, <2>1, FlipInplaceSound, FlipSound
  <2>3. \A v \in Value : v \in Between(p[1], p[2])
                           <=> LowBits(v) \in PartOf(p[1], p[2], HighBits(v))
    BY <2>1, BetweenParts DEF Between
  <2>4. \A v \in Value : /\ v \in ToSet(f) <=> LowBits(v) \in Layer(f, HighBits(v))
                         /\ v \in ToSet(b) <=> LowBits(v) \in Layer(b, HighBits(v))
    BY ToSetLayer
  <2>5. ToSet(f) \subseteq Value /\ ToSet(b) \subseteq Value /\ Between(p[1], p[2]) \subseteq Value
    BY DEF ToSet, Between
  <2> QED
    BY <2>2, <2>3, <2>4, <2>5 DEF SymmetricDifference
<1>2. ASSUME NEW b, SoundBitmap(b)
      PROVE  /\ ToSet(RunOptimize(b)) = ToSet(b)
             /\ ToSet(RemoveRunCompression(b)) = ToSet(b)
  BY <1>2, BitmapConversionsSound, LayersDecide
<1>3. LibraryInv => RangesExact
  BY <1>1, <1>2 DEF LibraryInv, RangesExact
<1> QED
  BY <1>3, LibraryInvariant, PTL

-----------------------------------------------------------------------------
(***************************************************************************)
(* Queries.                                                                *)
(***************************************************************************)

\* equals decides equality of the sets, is_subset misses no inclusion and makes one
\* up at most where runs are sought in an array.
THEOREM ComparisonsExactHolds == LibrarySpec => []ComparisonsExact
<1>1. ASSUME LibraryInv PROVE ComparisonsExact
  <2> SUFFICES ASSUME NEW q \in Register, NEW r \in Register
               PROVE  /\ BitmapEquals(reg[q], reg[r]) <=> ToSet(reg[q]) = ToSet(reg[r])
                      /\ ToSet(reg[q]) \subseteq ToSet(reg[r])
                           => BitmapIsSubset(reg[q], reg[r]) = {TRUE}
                      /\ \/ ToSet(reg[q]) \subseteq ToSet(reg[r])
                         \/ BitmapIsSubset(reg[q], reg[r]) = {FALSE}
                         \/ \E k \in Shared(reg[q], reg[r]) :
                              reg[q][k].type = "run" /\ reg[r][k].type = "array"
    BY DEF ComparisonsExact
  <2> DEFINE left == reg[q]
             right == reg[r]
  <2>1. SoundBitmap(left) /\ SoundBitmap(right)
    BY <1>1 DEF LibraryInv
  <2> HIDE DEF left, right
  <2>2. BitmapEquals(left, right) <=> ToSet(left) = ToSet(right)
    BY <2>1, BitmapEqualsDecides
  <2>3. /\ ToSet(left) \subseteq ToSet(right) => BitmapIsSubset(left, right) = {TRUE}
        /\ \/ ToSet(left) \subseteq ToSet(right)
           \/ BitmapIsSubset(left, right) = {FALSE}
           \/ \E k \in Shared(left, right) : left[k].type = "run" /\ right[k].type = "array"
    BY <2>1, BitmapIsSubsetDecides
  <2> QED
    BY <2>2, <2>3 DEF left, right
<1> QED
  BY <1>1, LibraryInvariant, PTL

\* rank, select and the extremes answer as the set in its order would.
THEOREM OrderExactHolds == LibrarySpec => []OrderExact
<1>1. ASSUME LibraryInv PROVE OrderExact
  <2> SUFFICES ASSUME NEW r \in Register
               PROVE  LET S == ToSet(reg[r])
                          UpTo(v) == {u \in S : AsInteger(u) <= AsInteger(v)}
                      IN  /\ \A v \in Value : BitmapRank(reg[r], v) = Cardinality(UpTo(v))
                          /\ \A v \in S : BitmapSelect(reg[r], Cardinality(UpTo(v)) - 1) = v
                          /\ BitmapSelect(reg[r], Cardinality(S)) = <<>>
                          /\ S # {} =>
                               /\ UpTo(BitmapMinimum(reg[r])) = {BitmapMinimum(reg[r])}
                               /\ UpTo(BitmapMaximum(reg[r])) = S
                               /\ BitmapMaximum(reg[r]) \in S
    BY DEF OrderExact
  <2> DEFINE b == reg[r]
  <2>1. SoundBitmap(b)
    BY <1>1 DEF LibraryInv
  <2> HIDE DEF b
  <2>2. \A v \in Value : BitmapRank(b, v) = Cardinality(ValuesUpTo(b, v))
    BY <2>1, BitmapRankCounts
  <2>3. /\ \A v \in ToSet(b) : BitmapSelect(b, Cardinality(ValuesUpTo(b, v)) - 1) = v
        /\ BitmapSelect(b, Cardinality(ToSet(b))) = <<>>
    BY <2>1, BitmapSelectFinds
  <2>4. ToSet(b) # {} =>
          /\ ValuesUpTo(b, BitmapMinimum(b)) = {BitmapMinimum(b)}
          /\ ValuesUpTo(b, BitmapMaximum(b)) = ToSet(b)
          /\ BitmapMaximum(b) \in ToSet(b)
    BY <2>1, ExtremesAre
  <2> QED
    BY <2>2, <2>3, <2>4 DEF ValuesUpTo, b
<1> QED
  BY <1>1, LibraryInvariant, PTL

THEOREM QueriesExactHolds == LibrarySpec => []QueriesExact
BY ComparisonsExactHolds, OrderExactHolds, PTL DEF QueriesExact

-----------------------------------------------------------------------------
(***************************************************************************)
(* Lazy containers, pair of types by pair of types.                        *)
(***************************************************************************)

\* What a container is between two lazy operations: an array or runs as ever, or a
\* bitset that is counted or marked as uncounted, and that may be too small for its
\* type.
Lazy(c) ==
  /\ c \in Container
  /\ c.type # "bitset" => Sound(c)
  /\ c.type = "bitset" => c.card = Unknown \/ CardExact(c)

LEMMA SoundIsLazy ==
  ASSUME NEW c, Sound(c)
  PROVE  Lazy(c) /\ CardExact(c)
BY DEF Sound, Lazy

LEMMA LazyParts ==
  ASSUME NEW c, Lazy(c)
  PROVE  /\ c.vals \in SUBSET Low /\ c.type \in {"bitset", "array", "run"}
         /\ c.card \in Int
         /\ c.type # "bitset" => Sound(c)
         /\ CardExact(c) \/ (c.type = "bitset" /\ c.card = Unknown)
BY DEF Lazy, Container, ContainerType, Sound

\* The mark of an uncounted bitset is no cardinality, so a full container is full.
LEMMA LazyFull ==
  ASSUME NEW c, Lazy(c), IsFull(c)
  PROVE  c.vals = Low
<1>1. c.card = ChunkSize /\ ChunkSize \in Nat /\ Unknown \notin Nat
  BY ContainerAssumption DEF IsFull, Unknown
<1>2. c.vals \in SUBSET Low /\ Cardinality(c.vals) = ChunkSize
  BY <1>1, LazyParts DEF CardExact
<1> QED
  BY <1>2, LowSubsets

LEMMA LazyMade ==
  ASSUME NEW S \in SUBSET Low
  PROVE  /\ Lazy(LazyBitset(S)) /\ LazyBitset(S).vals = S
         /\ Lazy(BitsetOf(S, Cardinality(S))) /\ BitsetOf(S, Cardinality(S)).vals = S
         /\ CardExact(BitsetOf(S, Cardinality(S)))
         /\ Lazy(EfficientRun(S)) /\ EfficientRun(S).vals = S /\ CardExact(EfficientRun(S))
         /\ Lazy(RunOf(S)) /\ RunOf(S).vals = S /\ CardExact(RunOf(S))
         /\ Cardinality(S) <= ArrayMax =>
              /\ Lazy(ArrayOf(S, Cardinality(S))) /\ ArrayOf(S, Cardinality(S)).vals = S
              /\ CardExact(ArrayOf(S, Cardinality(S)))
<1>1. Cardinality(S) \in Nat
  BY LowSubsets
<1>2. /\ LazyBitset(S) \in Container /\ BitsetOf(S, Cardinality(S)) \in Container
      /\ LazyBitset(S).vals = S /\ BitsetOf(S, Cardinality(S)).vals = S
      /\ LazyBitset(S).card = Unknown /\ BitsetOf(S, Cardinality(S)).card = Cardinality(S)
      /\ LazyBitset(S).type = "bitset" /\ BitsetOf(S, Cardinality(S)).type = "bitset"
  BY <1>1 DEF LazyBitset, BitsetOf, Container, ContainerType, Unknown
<1> QED
  BY <1>2, MadeSound, SmallArraySound, SoundIsLazy DEF Lazy, CardExact

\* container_lazy_or makes the union of two lazy containers, and a lazy one.
LEMMA ContainerLazyOrIs ==
  ASSUME NEW c1, Lazy(c1), NEW c2, Lazy(c2)
  PROVE  /\ Lazy(ContainerLazyOr(c1, c2))
         /\ ContainerLazyOr(c1, c2).vals = c1.vals \union c2.vals
<1> DEFINE S == c1.vals \union c2.vals
           r == ContainerLazyOr(c1, c2)
<1>1. /\ c1.vals \in SUBSET Low /\ c2.vals \in SUBSET Low /\ S \in SUBSET Low
      /\ c1.type \in {"bitset", "array", "run"} /\ c2.type \in {"bitset", "array", "run"}
  BY LazyParts
<1>2. /\ Lazy(LazyBitset(S)) /\ LazyBitset(S).vals = S
      /\ Lazy(EfficientRun(S)) /\ EfficientRun(S).vals = S
      /\ Lazy(RunOf(S)) /\ RunOf(S).vals = S
  BY <1>1, LazyMade
<1>3. CASE c1.type = "array" /\ c2.type = "array"
  <2>1. r = ArrayArrayLazyUnion(c1, c2)
    BY <1>3 DEF ContainerLazyOr, Types
  <2>2. /\ c1.card = Cardinality(c1.vals) /\ c2.card = Cardinality(c2.vals)
        /\ c1.card \in Nat /\ c2.card \in Nat
    BY <1>3, LazyParts, SoundParts
  <2>3. Cardinality(S) <= c1.card + c2.card /\ Cardinality(S) \in Nat
    BY <1>1, <2>2, CountedUnion, LowSubsets
  <2>4. ArrayLazyLowerBound <= ArrayMax /\ ArrayLazyLowerBound \in Nat /\ ArrayMax \in Nat
    BY ContainerAssumption, ContainerOpsAssumption
  <2>5. CASE c1.card + c2.card <= ArrayLazyLowerBound
    <3>1. r = ArrayOf(S, Cardinality(S))
      BY <2>1, <2>5 DEF ArrayArrayLazyUnion
    <3>2. Cardinality(S) <= ArrayMax
      BY <2>2, <2>3, <2>4, <2>5
    <3> QED
      BY <1>1, <3>1, <3>2, LazyMade
  <2>6. CASE ~ (c1.card + c2.card <= ArrayLazyLowerBound)
    <3>1. r = LazyBitset(S)
      BY <2>1, <2>6 DEF ArrayArrayLazyUnion
    <3> QED
      BY <1>2, <3>1
  <2> QED
    BY <2>5, <2>6
<1>4. CASE c1.type = "run" /\ c2.type = "run"
  <2>1. r = EfficientRun(S)
    BY <1>4 DEF ContainerLazyOr, Types
  <2> QED
    BY <1>2, <2>1
<1>5. CASE \/ c1.type = "array" /\ c2.type = "run"
           \/ c1.type = "run" /\ c2.type = "array"
  <2>1. {c1.type, c2.type} = {"array", "run"}
    BY <1>5
  <2>2. r = RunOf(S)
    BY <1>5, <2>1 DEF ContainerLazyOr, Types
  <2> QED
    BY <1>2, <2>2
<1>6. CASE \/ c1.type = "bitset" /\ c2.type = "run"
           \/ c1.type = "run" /\ c2.type = "bitset"
  <2> DEFINE run == OfType(c1, c2, "run")
             bitset == OfType(c1, c2, "bitset")
  <2>1. {c1.type, c2.type} = {"bitset", "run"}
    BY <1>6
  <2>2. r = LazyRunBitsetUnion(run, bitset)
    BY <1>6, <2>1 DEF ContainerLazyOr, Types
  <2>3. /\ Lazy(run) /\ run.vals \union bitset.vals = S
        /\ run.vals \in SUBSET Low /\ bitset.vals \in SUBSET Low
    BY <1>1, <1>6 DEF OfType
  <2> HIDE DEF run, bitset, S, r
  <2>4. CASE IsFull(run)
    <3>1. r = run /\ run.vals = Low
      BY <2>2, <2>3, <2>4, LazyFull DEF LazyRunBitsetUnion
    <3> QED
      BY <2>3, <3>1 DEF r, S
  <2>5. CASE ~ IsFull(run)
    <3>1. r = LazyBitset(S)
      BY <2>2, <2>3, <2>5 DEF LazyRunBitsetUnion
    <3> QED
      BY <1>2, <3>1 DEF r, S
  <2> QED
    BY <2>4, <2>5
<1>7. CASE /\ c1.type = "bitset" \/ c2.type = "bitset"
           /\ c1.type # "run" /\ c2.type # "run"
  <2>1. {c1.type, c2.type} \in {{"bitset"}, {"bitset", "array"}}
    BY <1>1, <1>7
  <2>2. /\ {c1.type, c2.type} # {"array"} /\ {c1.type, c2.type} # {"run"}
        /\ {c1.type, c2.type} # {"array", "run"} /\ {c1.type, c2.type} # {"bitset", "run"}
    BY <1>7
  <2>3. r = LazyBitset(S)
    BY <2>1, <2>2 DEF ContainerLazyOr, Types
  <2> QED
    BY <1>2, <2>3
<1> QED
  BY <1>1, <1>3, <1>4, <1>5, <1>6, <1>7

\* container_lazy_ior: two bitsets are counted, other pairs are left to container_lazy_or.
LEMMA ContainerLazyIorIs ==
  ASSUME NEW c1, Lazy(c1), NEW c2, Lazy(c2)
  PROVE  /\ Lazy(ContainerLazyIor(c1, c2))
         /\ ContainerLazyIor(c1, c2).vals = c1.vals \union c2.vals
<1> DEFINE S == c1.vals \union c2.vals
<1>1. S \in SUBSET Low
  BY LazyParts
<1>2. CASE Types(c1, c2) = {"bitset"}
  <2> DEFINE counted == BitsetOf(S, Cardinality(S))
  <2>1. c1.type = "bitset" /\ c2.type = "bitset"
    BY <1>2 DEF Types
  <2>2. ContainerLazyIor(c1, c2) = IF IsFull(counted) THEN RunOf(Low) ELSE counted
    BY <1>2, <2>1 DEF ContainerLazyIor, ContainerIor
  <2>3. Lazy(counted) /\ counted.vals = S
    BY <1>1, LazyMade
  <2>4. Lazy(RunOf(Low)) /\ RunOf(Low).vals = Low
    BY LazyMade
  <2> HIDE DEF counted
  <2> QED
    BY <2>2, <2>3, <2>4, LazyFull
<1>3. CASE Types(c1, c2) # {"bitset"}
  BY <1>3, ContainerLazyOrIs DEF ContainerLazyIor
<1> QED
  BY <1>2, <1>3

LEMMA ContainerToBitsetIs ==
  ASSUME NEW c, Lazy(c)
  PROVE  Lazy(ContainerToBitset(c)) /\ ContainerToBitset(c).vals = c.vals
<1>1. CASE c.type = "bitset"
  BY <1>1 DEF ContainerToBitset
<1>2. CASE c.type # "bitset"
  <2>1. c.vals \in SUBSET Low /\ c.card = Cardinality(c.vals)
    BY <1>2, LazyParts, SoundParts
  <2>2. ContainerToBitset(c) = BitsetOf(c.vals, Cardinality(c.vals))
    BY <1>2, <2>1 DEF ContainerToBitset
  <2> QED
    BY <2>1, <2>2, LazyMade
<1> QED
  BY <1>1, <1>2

\* The combinations that the unions use where two bitmaps have the same key.
LEMMA LazyUnionsAre ==
  ASSUME NEW c1, Lazy(c1), NEW c2, Lazy(c2)
  PROVE  /\ Lazy(LazyOrConverting(c1, c2))
         /\ LazyOrConverting(c1, c2).vals = c1.vals \union c2.vals
         /\ Lazy(LazyIorUnlessFull(c1, c2))
         /\ LazyIorUnlessFull(c1, c2).vals = c1.vals \union c2.vals
         /\ Lazy(LazyIorConverting(c1, c2))
         /\ LazyIorConverting(c1, c2).vals = c1.vals \union c2.vals
<1>1. Lazy(ContainerToBitset(c1)) /\ ContainerToBitset(c1).vals = c1.vals
  BY ContainerToBitsetIs
<1>2. /\ Lazy(ContainerLazyIor(ContainerToBitset(c1), c2))
      /\ ContainerLazyIor(ContainerToBitset(c1), c2).vals = c1.vals \union c2.vals
  BY <1>1, ContainerLazyIorIs
<1>3. IsFull(c1) => c1.vals = c1.vals \union c2.vals
  BY LazyFull, LazyParts
<1> QED
  BY <1>2, <1>3, ContainerLazyOrIs, ContainerLazyIorIs
  DEF LazyOrConverting, LazyIorUnlessFull, LazyIorConverting

\* container_lazy_xor of two sound containers.
LEMMA ContainerLazyXorIs ==
  ASSUME NEW c1, Sound(c1), NEW c2, Sound(c2)
  PROVE  /\ Lazy(ContainerLazyXor(c1, c2))
         /\ ContainerLazyXor(c1, c2).vals = SymmetricDifference(c1.vals, c2.vals)
<1> DEFINE S == SymmetricDifference(c1.vals, c2.vals)
           r == ContainerLazyXor(c1, c2)
<1>1. /\ c1.vals \in SUBSET Low /\ c1.card = Cardinality(c1.vals) /\ c1.card \in Nat
      /\ c2.vals \in SUBSET Low /\ c2.card = Cardinality(c2.vals) /\ c2.card \in Nat
      /\ c1.type \in {"bitset", "array", "run"} /\ c2.type \in {"bitset", "array", "run"}
  BY SoundParts
<1>2. S \in SUBSET Low /\ Cardinality(S) <= c1.card + c2.card /\ Cardinality(S) \in Nat
  BY <1>1, FlippedCount, LowSubsets
<1>3. /\ Lazy(LazyBitset(S)) /\ LazyBitset(S).vals = S
      /\ Lazy(EfficientRun(S)) /\ EfficientRun(S).vals = S
      /\ Lazy(RunOf(S)) /\ RunOf(S).vals = S
  BY <1>2, LazyMade
<1>4. CASE c1.type = "array" /\ c2.type = "array"
  <2>1. r = ArrayArrayLazyXor(c1, c2)
    BY <1>4 DEF ContainerLazyXor, Types
  <2>2. ArrayLazyLowerBound <= ArrayMax /\ ArrayLazyLowerBound \in Nat /\ ArrayMax \in Nat
    BY ContainerAssumption, ContainerOpsAssumption
  <2> HIDE DEF S, r
  <2>3. CASE c1.card + c2.card <= ArrayLazyLowerBound
    <3>1. r = ArrayOf(S, Cardinality(S))
      BY <2>1, <2>3 DEF ArrayArrayLazyXor, S
    <3>2. Cardinality(S) <= ArrayMax
      BY <1>1, <1>2, <2>2, <2>3
    <3> QED
      BY <1>2, <3>1, <3>2, LazyMade DEF r, S
  <2>4. CASE ~ (c1.card + c2.card <= ArrayLazyLowerBound)
    <3>1. r = LazyBitset(S)
      BY <2>1, <2>4 DEF ArrayArrayLazyXor, S
    <3> QED
      BY <1>3, <3>1 DEF r, S
  <2> QED
    BY <2>3, <2>4
<1>5. CASE c1.type = "run" /\ c2.type = "run"
  <2>1. r = EfficientRun(S)
    BY <1>5 DEF ContainerLazyXor, Types
  <2> QED
    BY <1>3, <2>1
<1>6. CASE \/ c1.type = "array" /\ c2.type = "run"
           \/ c1.type = "run" /\ c2.type = "array"
  <2>1. {c1.type, c2.type} = {"array", "run"}
    BY <1>6
  <2>2. r = RunOf(S)
    BY <1>6, <2>1 DEF ContainerLazyXor, Types
  <2> QED
    BY <1>3, <2>2
<1>7. CASE c1.type = "bitset" \/ c2.type = "bitset"
  <2>1. r = LazyBitset(S)
    BY <1>7 DEF ContainerLazyXor, Types
  <2> QED
    BY <1>3, <2>1
<1> QED
  BY <1>1, <1>4, <1>5, <1>6, <1>7

\* container_lazy_ixor trusts the cardinality of its first argument, so that one must
\* be counted; a bitset that is too small for its type does no harm.
LEMMA ContainerLazyIxorIs ==
  ASSUME NEW c1, Lazy(c1), CardExact(c1), NEW c2, Sound(c2)
  PROVE  /\ Lazy(ContainerLazyIxor(c1, c2))
         /\ ContainerLazyIxor(c1, c2).vals = SymmetricDifference(c1.vals, c2.vals)
<1> DEFINE S == SymmetricDifference(c1.vals, c2.vals)
           r == ContainerLazyIxor(c1, c2)
<1>1. /\ c1.vals \in SUBSET Low /\ c1.card = Cardinality(c1.vals)
      /\ c2.vals \in SUBSET Low
      /\ c1.type \in {"bitset", "array", "run"} /\ c2.type \in {"bitset", "array", "run"}
  BY LazyParts, SoundParts DEF CardExact
<1>2. S \in SUBSET Low
  BY <1>1, FlippedCount
<1>3. CASE c1.type = "bitset" /\ c2.type = "bitset"
  <2>1. r = LazyBitset(S)
    BY <1>3 DEF ContainerLazyIxor, Types
  <2> QED
    BY <1>2, <2>1, LazyMade
<1>4. CASE c1.type = "bitset" /\ c2.type = "array"
  <2>1. {c1.type, c2.type} = {"array", "bitset"}
    BY <1>4
  <2>2. r = BitsetArrayXor(c1, c2)
    BY <1>4, <2>1 DEF ContainerLazyIxor, ContainerXor, Types, OfType
  <2> QED
    BY <1>1, <2>2, BitsetArrayXorSound, SoundIsLazy
<1>5. CASE c1.type = "bitset" /\ c2.type = "run"
  <2>1. {c1.type, c2.type} \in {{"bitset"}, {"bitset", "run"}}
    BY <1>5
  <2>2. /\ {c1.type, c2.type} # {"array"} /\ {c1.type, c2.type} # {"run"}
        /\ {c1.type, c2.type} # {"array", "bitset"} /\ {c1.type, c2.type} # {"array", "run"}
        /\ {c1.type, c2.type} # {"bitset"}
    BY <1>5
  <2>3. r = Counted(S)
    BY <2>1, <2>2 DEF ContainerLazyIxor, ContainerXor, Types
  <2> QED
    BY <1>2, <2>3, CountedSound, SoundIsLazy
<1>6. CASE c1.type # "bitset"
  <2>1. Sound(c1)
    BY <1>6, LazyParts
  <2>2. r = ContainerXor(c1, c2)
    BY <1>6 DEF ContainerLazyIxor, Types
  <2> QED
    BY <2>1, <2>2, ContainerXorSound, SoundIsLazy
<1> QED
  BY <1>1, <1>3, <1>4, <1>5, <1>6

\* The test for emptiness counts what is uncounted, and is right about emptiness.
LEMMA SettleIs ==
  ASSUME NEW c, Lazy(c)
  PROVE  /\ Lazy(Settle(c)) /\ CardExact(Settle(c)) /\ Settle(c).vals = c.vals
         /\ NonZero(Settle(c)) <=> c.vals # {}
<1> DEFINE r == Settle(c)
<1>1. c.vals \in SUBSET Low
  BY LazyParts
<1>2. Lazy(r) /\ CardExact(r) /\ r.vals = c.vals
  <2>1. CASE c.type = "bitset" /\ c.card = Unknown
    <3>1. r = BitsetOf(c.vals, Cardinality(c.vals))
      BY <2>1 DEF Settle
    <3> QED
      BY <1>1, <3>1, LazyMade
  <2>2. CASE ~ (c.type = "bitset" /\ c.card = Unknown)
    BY <2>2, LazyParts DEF Settle
  <2> QED
    BY <2>1, <2>2
<1> HIDE DEF r
<1>3. r.card = Cardinality(c.vals)
  BY <1>2 DEF CardExact
<1>4. Cardinality(c.vals) \in Nat /\ (Cardinality(c.vals) = 0 <=> c.vals = {})
  BY <1>1, LowSubsets, FS_EmptySet
<1>5. NonZero(r) <=> c.vals # {}
  BY <1>3, <1>4 DEF NonZero
<1> QED
  BY <1>2, <1>5 DEF r

\* container_repair_after_lazy makes a sound container of a lazy one.
LEMMA ContainerRepairIs ==
  ASSUME NEW c, Lazy(c)
  PROVE  /\ Sound(ContainerRepairAfterLazy(c))
         /\ ContainerRepairAfterLazy(c).vals = c.vals
<1>1. c.vals \in SUBSET Low /\ c.type \in {"bitset", "array", "run"}
  BY LazyParts
<1>2. /\ Sound(Counted(c.vals)) /\ Counted(c.vals).vals = c.vals
      /\ Sound(EfficientRun(c.vals)) /\ EfficientRun(c.vals).vals = c.vals
  BY <1>1, CountedSound, MadeSound
<1>3. CASE c.type = "bitset"
  BY <1>2, <1>3 DEF ContainerRepairAfterLazy
<1>4. CASE c.type = "array"
  BY <1>4, LazyParts DEF ContainerRepairAfterLazy
<1>5. CASE c.type = "run"
  BY <1>2, <1>5 DEF ContainerRepairAfterLazy
<1> QED
  BY <1>1, <1>3, <1>4, <1>5

-----------------------------------------------------------------------------
(***************************************************************************)
(* Lazy bitmaps.                                                           *)
(***************************************************************************)

LazyBitmap(b) == IsBitmap(b) /\ \A k \in DOMAIN b : Lazy(b[k]) /\ b[k].vals # {}

\* With every container counted.
CountedBitmap(b) == LazyBitmap(b) /\ \A k \in DOMAIN b : CardExact(b[k])

LEMMA SoundBitmapIsLazy ==
  ASSUME NEW b, SoundBitmap(b)
  PROVE  LazyBitmap(b) /\ CountedBitmap(b)
BY SoundContainerAt, SoundIsLazy DEF SoundBitmap, LazyBitmap, CountedBitmap

LEMMA LazyBitmapMade ==
  ASSUME NEW b, b = [k \in DOMAIN b |-> b[k]], DOMAIN b \subseteq Chunk,
         \A k \in DOMAIN b : Lazy(b[k]) /\ b[k].vals # {}
  PROVE  LazyBitmap(b)
BY DEF LazyBitmap, IsBitmap, Lazy

\* A walk along two bitmaps that combines what they share by a union leaves the union.
\* What is combined under a shared key is given by g.
LEMMA LazyUnionOfEntries ==
  ASSUME NEW x1, LazyBitmap(x1), NEW x2, LazyBitmap(x2),
         NEW g, \A k \in Shared(x1, x2) :
                  Lazy(g[k]) /\ g[k].vals = x1[k].vals \union x2[k].vals
  PROVE  LET r == [k \in DOMAIN x1 \union DOMAIN x2 |->
                     IF k \in Shared(x1, x2) THEN g[k]
                     ELSE IF k \in DOMAIN x1 THEN x1[k] ELSE x2[k]]
         IN  LazyBitmap(r) /\ ToSet(r) = ToSet(x1) \union ToSet(x2)
<1> DEFINE D == DOMAIN x1 \union DOMAIN x2
           r == [k \in D |-> IF k \in Shared(x1, x2) THEN g[k]
                             ELSE IF k \in DOMAIN x1 THEN x1[k] ELSE x2[k]]
<1>1. D \subseteq Chunk
  BY DEF LazyBitmap, IsBitmap
<1>2. ASSUME NEW k \in D
      PROVE  /\ Lazy(r[k]) /\ r[k].vals # {}
             /\ r[k].vals = Layer(x1, k) \union Layer(x2, k)
  <2>1. /\ k \in DOMAIN x1 => Lazy(x1[k]) /\ x1[k].vals # {}
        /\ k \in DOMAIN x2 => Lazy(x2[k]) /\ x2[k].vals # {}
    BY DEF LazyBitmap
  <2>2. CASE k \in Shared(x1, x2)
    <3>1. r[k] = g[k] /\ k \in DOMAIN x1 /\ k \in DOMAIN x2
      BY <2>2 DEF Shared
    <3> QED
      BY <2>1, <2>2, <3>1 DEF Layer
  <2>3. CASE k \notin Shared(x1, x2)
    BY <2>1, <2>3 DEF Layer, Shared
  <2> QED
    BY <2>2, <2>3
<1>3. DOMAIN r = D /\ r = [k \in DOMAIN r |-> r[k]]
  OBVIOUS
<1>4. \A k : k \notin D => Layer(x1, k) = {} /\ Layer(x2, k) = {}
  BY DEF Layer
<1> HIDE DEF r, D
<1>5. LazyBitmap(r)
  BY <1>1, <1>2, <1>3, LazyBitmapMade
<1>6. \A k : Layer(r, k) = Layer(x1, k) \union Layer(x2, k)
  BY <1>2, <1>3, <1>4 DEF Layer
<1>7. \A v \in Value : v \in ToSet(r) <=> v \in ToSet(x1) \/ v \in ToSet(x2)
  BY <1>6, ToSetLayer
<1>8. ToSet(r) \subseteq Value /\ ToSet(x1) \subseteq Value /\ ToSet(x2) \subseteq Value
  BY DEF ToSet
<1>9. ToSet(r) = ToSet(x1) \union ToSet(x2)
  BY <1>7, <1>8
<1> QED
  BY <1>5, <1>9 DEF r, D

\* roaring_bitmap_lazy_or, roaring_bitmap_lazy_or_inplace and lazy_or_from_lazy_inputs.
LEMMA LazyOrIs ==
  ASSUME Cardinality(Chunk) < KeyMod,
         NEW x1, LazyBitmap(x1), NEW x2, LazyBitmap(x2), NEW conv \in BOOLEAN
  PROVE  /\ LazyBitmap(LazyOr(x1, x2, conv))
         /\ ToSet(LazyOr(x1, x2, conv)) = ToSet(x1) \union ToSet(x2)
         /\ LazyBitmap(LazyOrInplace(x1, x2, conv))
         /\ ToSet(LazyOrInplace(x1, x2, conv)) = ToSet(x1) \union ToSet(x2)
         /\ LazyBitmap(LazyOrFromLazyInputs(x1, x2))
         /\ ToSet(LazyOrFromLazyInputs(x1, x2)) = ToSet(x1) \union ToSet(x2)
<1> DEFINE K == Shared(x1, x2)
           Walk(g) == [k \in DOMAIN x1 \union DOMAIN x2 |->
                         IF k \in K THEN g[k] ELSE IF k \in DOMAIN x1 THEN x1[k] ELSE x2[k]]
           Right(r) == LazyBitmap(r) /\ ToSet(r) = ToSet(x1) \union ToSet(x2)
           g1 == [k \in K |-> LazyOrConverting(x1[k], x2[k])]
           g2 == [k \in K |-> ContainerLazyOr(x1[k], x2[k])]
           g3 == [k \in K |-> LazyIorConverting(x1[k], x2[k])]
           g4 == [k \in K |-> LazyIorUnlessFull(x1[k], x2[k])]
           g5 == [k \in K |-> ContainerLazyIor(x1[k], x2[k])]
<1>1. \A k \in K : k \in DOMAIN x1 /\ k \in DOMAIN x2 /\ Lazy(x1[k]) /\ Lazy(x2[k])
  BY DEF Shared, LazyBitmap
<1>2. CASE DOMAIN x1 = {}
  <2>1. ToSet(x1) = {}
    BY <1>2 DEF ToSet
  <2>2. /\ LazyOr(x1, x2, conv) = x2 /\ LazyOrInplace(x1, x2, conv) = x2
        /\ LazyOrFromLazyInputs(x1, x2) = x2
    BY <1>2 DEF LazyOr, LazyOrInplace, LazyOrFromLazyInputs, Merge, MergeInplace
  <2> QED
    BY <2>1, <2>2
<1>3. CASE DOMAIN x1 # {} /\ DOMAIN x2 = {}
  <2>1. ToSet(x2) = {}
    BY <1>3 DEF ToSet
  <2>2. /\ LazyOr(x1, x2, conv) = x1 /\ LazyOrInplace(x1, x2, conv) = x1
        /\ LazyOrFromLazyInputs(x1, x2) = x1
    BY <1>3 DEF LazyOr, LazyOrInplace, LazyOrFromLazyInputs, Merge, MergeInplace
  <2> QED
    BY <2>1, <2>2
<1>4. CASE DOMAIN x1 # {} /\ DOMAIN x2 # {}
  <2>1. /\ MergedKeys(x1, x2) = DOMAIN x1 \union DOMAIN x2
        /\ MergedInplaceKeys(x1, x2) = DOMAIN x1 \union DOMAIN x2
    BY MergedKeysAre DEF LazyBitmap
  <2>2. /\ conv => LazyOr(x1, x2, conv) = Walk(g1)
        /\ ~conv => LazyOr(x1, x2, conv) = Walk(g2)
        /\ LazyOrFromLazyInputs(x1, x2) = Walk(g5)
    BY <1>4, <2>1 DEF LazyOr, LazyOrFromLazyInputs, Merge, MergedKeys
  <2>3. /\ conv => LazyOrInplace(x1, x2, conv) = Walk(g3)
        /\ ~conv => LazyOrInplace(x1, x2, conv) = Walk(g4)
    BY <1>4, <2>1 DEF LazyOrInplace, MergeInplace, MergedInplaceKeys
  <2>4. /\ \A k \in K : Lazy(g1[k]) /\ g1[k].vals = x1[k].vals \union x2[k].vals
        /\ \A k \in K : Lazy(g2[k]) /\ g2[k].vals = x1[k].vals \union x2[k].vals
        /\ \A k \in K : Lazy(g3[k]) /\ g3[k].vals = x1[k].vals \union x2[k].vals
        /\ \A k \in K : Lazy(g4[k]) /\ g4[k].vals = x1[k].vals \union x2[k].vals
        /\ \A k \in K : Lazy(g5[k]) /\ g5[k].vals = x1[k].vals \union x2[k].vals
    BY <1>1, LazyUnionsAre, ContainerLazyOrIs, ContainerLazyIorIs
  <2> HIDE DEF g1, g2, g3, g4, g5
  <2>5. ASSUME NEW g, \A k \in K : Lazy(g[k]) /\ g[k].vals = x1[k].vals \union x2[k].vals
        PROVE  Right(Walk(g))
    BY <2>5, LazyUnionOfEntries
  <2> HIDE DEF Walk, Right, K
  <2>6. /\ Right(Walk(g1)) /\ Right(Walk(g2)) /\ Right(Walk(g3))
        /\ Right(Walk(g4)) /\ Right(Walk(g5))
    BY <2>4, <2>5
  <2>7. /\ Right(LazyOr(x1, x2, conv)) /\ Right(LazyOrInplace(x1, x2, conv))
        /\ Right(LazyOrFromLazyInputs(x1, x2))
    BY <2>2, <2>3, <2>6
  <2> QED
    BY <2>7 DEF Right
<1> QED
  BY <1>2, <1>3, <1>4

\* Settling a walk that combined shared containers by symmetric difference: what is
\* combined under a shared key, given by g, may be empty or uncounted.
LEMMA SettledXorIs ==
  ASSUME NEW x1, CountedBitmap(x1), NEW x2, CountedBitmap(x2),
         NEW g, \A k \in Shared(x1, x2) :
                  Lazy(g[k]) /\ g[k].vals = SymmetricDifference(x1[k].vals, x2[k].vals)
  PROVE  LET r == Settled([k \in DOMAIN x1 \union DOMAIN x2 |->
                             IF k \in Shared(x1, x2) THEN g[k]
                             ELSE IF k \in DOMAIN x1 THEN x1[k] ELSE x2[k]],
                          Shared(x1, x2))
         IN  /\ CountedBitmap(r)
             /\ ToSet(r) = (ToSet(x1) \ ToSet(x2)) \union (ToSet(x2) \ ToSet(x1))
<1> DEFINE K == Shared(x1, x2)
           D == DOMAIN x1 \union DOMAIN x2
           b == [k \in D |-> IF k \in K THEN g[k] ELSE IF k \in DOMAIN x1 THEN x1[k] ELSE x2[k]]
           settled == [k \in DOMAIN b |-> IF k \in K THEN Settle(b[k]) ELSE b[k]]
           empty == {k \in K : ~ NonZero(settled[k])}
           r == Drop(settled, empty)
<1>1. Settled(b, K) = r
  BY DEF Settled
<1>2. D \subseteq Chunk /\ K \subseteq D
  BY DEF CountedBitmap, LazyBitmap, IsBitmap, Shared
<1>3. ASSUME NEW k \in D
      PROVE  /\ Lazy(settled[k]) /\ CardExact(settled[k])
             /\ settled[k].vals = SymmetricDifference(Layer(x1, k), Layer(x2, k))
             /\ k \in empty <=> settled[k].vals = {}
  <2>1. /\ k \in DOMAIN x1 => Lazy(x1[k]) /\ CardExact(x1[k]) /\ x1[k].vals # {}
        /\ k \in DOMAIN x2 => Lazy(x2[k]) /\ CardExact(x2[k]) /\ x2[k].vals # {}
    BY DEF CountedBitmap, LazyBitmap
  <2>2. CASE k \in K
    <3>1. settled[k] = Settle(g[k]) /\ k \in DOMAIN x1 /\ k \in DOMAIN x2
      BY <2>2 DEF Shared
    <3>2. Lazy(g[k]) /\ g[k].vals = SymmetricDifference(x1[k].vals, x2[k].vals)
      BY <2>2
    <3>3. k \in empty <=> ~ NonZero(settled[k])
      BY <2>2
    <3> HIDE DEF settled, empty, b
    <3> QED
      BY <3>1, <3>2, <3>3, SettleIs DEF Layer
  <2>3. CASE k \notin K
    <3>1. k \notin empty /\ settled[k] = IF k \in DOMAIN x1 THEN x1[k] ELSE x2[k]
      BY <2>3
    <3> HIDE DEF settled, empty, b
    <3> QED
      BY <2>1, <2>3, <3>1 DEF Layer, Shared, SymmetricDifference
  <2> QED
    BY <2>2, <2>3
<1>4. /\ DOMAIN r = D \ empty
      /\ \A k \in DOMAIN r : r[k] = settled[k]
      /\ r = [k \in DOMAIN r |-> r[k]]
  BY DEF Drop
<1>5. \A k : k \notin D => Layer(x1, k) = {} /\ Layer(x2, k) = {}
  BY DEF Layer
<1> HIDE DEF r, empty, settled, b
<1>6. CountedBitmap(r)
  <2>1. \A k \in DOMAIN r : Lazy(r[k]) /\ r[k].vals # {} /\ CardExact(r[k])
    BY <1>3, <1>4
  <2>2. DOMAIN r \subseteq Chunk
    BY <1>2, <1>4
  <2> QED
    BY <1>4, <2>1, <2>2, LazyBitmapMade DEF CountedBitmap
<1>7. \A k : Layer(r, k) = SymmetricDifference(Layer(x1, k), Layer(x2, k))
  <2> SUFFICES ASSUME NEW k
               PROVE  Layer(r, k) = SymmetricDifference(Layer(x1, k), Layer(x2, k))
    OBVIOUS
  <2>1. CASE k \in D
    BY <1>3, <1>4, <2>1 DEF Layer
  <2>2. CASE k \notin D
    <3>1. Layer(r, k) = {}
      BY <1>4, <2>2 DEF Layer
    <3> QED
      BY <1>5, <2>2, <3>1 DEF SymmetricDifference
  <2> QED
    BY <2>1, <2>2
<1>8. \A v \in Value : v \in ToSet(r) <=> (v \in ToSet(x1) <=> v \notin ToSet(x2))
  BY <1>7, ToSetLayer DEF SymmetricDifference
<1>9. ToSet(r) \subseteq Value /\ ToSet(x1) \subseteq Value /\ ToSet(x2) \subseteq Value
  BY DEF ToSet
<1>10. ToSet(r) = (ToSet(x1) \ ToSet(x2)) \union (ToSet(x2) \ ToSet(x1))
  BY <1>8, <1>9
<1> QED
  BY <1>1, <1>6, <1>10 DEF b, K, D

\* A bitmap settled where it has nothing to settle stays as it is.
LEMMA SettledNothing ==
  ASSUME NEW b, CountedBitmap(b)
  PROVE  CountedBitmap(Settled(b, {})) /\ ToSet(Settled(b, {})) = ToSet(b)
<1>1. b = [k \in DOMAIN b |-> b[k]]
  BY DEF CountedBitmap, LazyBitmap, IsBitmap
<1>2. [k \in DOMAIN b |-> IF k \in {} THEN Settle(b[k]) ELSE b[k]] = b
  BY <1>1
<1>3. Settled(b, {}) = Drop(b, {})
  BY <1>2 DEF Settled
<1>4. Drop(b, {}) = b
  BY <1>1 DEF Drop
<1> QED
  BY <1>3, <1>4

\* roaring_bitmap_lazy_xor of two sound bitmaps, and roaring_bitmap_lazy_xor_inplace of
\* what such a call left and a sound bitmap.
LEMMA LazyXorIs ==
  ASSUME Cardinality(Chunk) < KeyMod,
         NEW x1, SoundBitmap(x1), NEW x2, SoundBitmap(x2), NEW a, CountedBitmap(a)
  PROVE  /\ CountedBitmap(LazyXor(x1, x2))
         /\ ToSet(LazyXor(x1, x2)) = (ToSet(x1) \ ToSet(x2)) \union (ToSet(x2) \ ToSet(x1))
         /\ CountedBitmap(LazyXorInplace(a, x2))
         /\ ToSet(LazyXorInplace(a, x2)) = (ToSet(a) \ ToSet(x2)) \union (ToSet(x2) \ ToSet(a))
<1> DEFINE Right(r, y) == /\ CountedBitmap(r)
                          /\ ToSet(r) = (ToSet(y) \ ToSet(x2)) \union (ToSet(x2) \ ToSet(y))
           Walk(y, g) == Settled([k \in DOMAIN y \union DOMAIN x2 |->
                                    IF k \in Shared(y, x2) THEN g[k]
                                    ELSE IF k \in DOMAIN y THEN y[k] ELSE x2[k]],
                                 Shared(y, x2))
<1>1. /\ CountedBitmap(x1) /\ CountedBitmap(x2)
      /\ IsBitmap(x1) /\ IsBitmap(x2) /\ IsBitmap(a)
  BY SoundBitmapIsLazy DEF SoundBitmap, CountedBitmap, LazyBitmap
<1>2. Right(LazyXor(x1, x2), x1)
  <2>1. CASE DOMAIN x1 = {} \/ DOMAIN x2 = {}
    <3> DEFINE m == IF DOMAIN x1 = {} THEN x2 ELSE x1
    <3>1. Shared(x1, x2) = {}
      BY <2>1 DEF Shared
    <3>2. LazyXor(x1, x2) = Settled(m, {})
      BY <2>1, <3>1 DEF LazyXor, Merge
    <3>3. ToSet(m) = (ToSet(x1) \ ToSet(x2)) \union (ToSet(x2) \ ToSet(x1))
      BY <2>1 DEF ToSet
    <3>4. CountedBitmap(m)
      BY <1>1
    <3> HIDE DEF m
    <3> QED
      BY <3>2, <3>3, <3>4, SettledNothing
  <2>2. CASE DOMAIN x1 # {} /\ DOMAIN x2 # {}
    <3> DEFINE g == [k \in Shared(x1, x2) |-> ContainerLazyXor(x1[k], x2[k])]
    <3>1. MergedKeys(x1, x2) = DOMAIN x1 \union DOMAIN x2
      BY <1>1, MergedKeysAre
    <3>2. LazyXor(x1, x2) = Walk(x1, g)
      BY <2>2, <3>1 DEF LazyXor, Merge, MergedKeys
    <3>3. \A k \in Shared(x1, x2) :
            Lazy(g[k]) /\ g[k].vals = SymmetricDifference(x1[k].vals, x2[k].vals)
      BY SoundContainerAt, ContainerLazyXorIs DEF Shared
    <3> HIDE DEF g
    <3>4. Right(Walk(x1, g), x1)
      BY <1>1, <3>3, SettledXorIs
    <3> HIDE DEF Walk, Right
    <3> QED
      BY <3>2, <3>4
  <2> QED
    BY <2>1, <2>2
<1>3. Right(LazyXorInplace(a, x2), a)
  <2>1. CASE DOMAIN a = {} \/ DOMAIN x2 = {}
    <3> DEFINE m == IF DOMAIN a = {} THEN x2 ELSE a
    <3>1. Shared(a, x2) = {}
      BY <2>1 DEF Shared
    <3>2. LazyXorInplace(a, x2) = Settled(m, {})
      BY <2>1, <3>1 DEF LazyXorInplace, MergeInplace
    <3>3. ToSet(m) = (ToSet(a) \ ToSet(x2)) \union (ToSet(x2) \ ToSet(a))
      BY <2>1 DEF ToSet
    <3>4. CountedBitmap(m)
      BY <1>1
    <3> HIDE DEF m
    <3> QED
      BY <3>2, <3>3, <3>4, SettledNothing
  <2>2. CASE DOMAIN a # {} /\ DOMAIN x2 # {}
    <3> DEFINE g == [k \in Shared(a, x2) |-> ContainerLazyIxor(a[k], x2[k])]
    <3>1. MergedInplaceKeys(a, x2) = DOMAIN a \union DOMAIN x2
      BY <1>1, MergedKeysAre
    <3>2. LazyXorInplace(a, x2) = Walk(a, g)
      BY <2>2, <3>1 DEF LazyXorInplace, MergeInplace, MergedInplaceKeys
    <3>3. \A k \in Shared(a, x2) : Lazy(a[k]) /\ CardExact(a[k]) /\ Sound(x2[k])
      BY SoundContainerAt DEF Shared, CountedBitmap, LazyBitmap
    <3>4. \A k \in Shared(a, x2) :
            Lazy(g[k]) /\ g[k].vals = SymmetricDifference(a[k].vals, x2[k].vals)
      BY <3>3, ContainerLazyIxorIs
    <3> HIDE DEF g
    <3>5. Right(Walk(a, g), a)
      BY <1>1, <3>4, SettledXorIs
    <3> HIDE DEF Walk, Right
    <3> QED
      BY <3>2, <3>5
  <2> QED
    BY <2>1, <2>2
<1> QED
  BY <1>2, <1>3

\* roaring_bitmap_repair_after_lazy
LEMMA RepairIs ==
  ASSUME NEW b, LazyBitmap(b)
  PROVE  SoundBitmap(RepairAfterLazy(b)) /\ ToSet(RepairAfterLazy(b)) = ToSet(b)
<1> DEFINE r == RepairAfterLazy(b)
<1>1. /\ DOMAIN r = DOMAIN b /\ DOMAIN b \subseteq Chunk
      /\ r = [k \in DOMAIN r |-> r[k]]
      /\ \A k \in DOMAIN b : r[k] = ContainerRepairAfterLazy(b[k])
  BY DEF RepairAfterLazy, LazyBitmap, IsBitmap
<1>2. \A k \in DOMAIN b : Lazy(b[k]) /\ b[k].vals # {}
  BY DEF LazyBitmap
<1> HIDE DEF r
<1>3. \A k \in DOMAIN b : Sound(r[k]) /\ r[k].vals = b[k].vals
  BY <1>1, <1>2, ContainerRepairIs
<1>4. SoundBitmap(r)
  BY <1>1, <1>2, <1>3, BitmapMade
<1>5. \A k \in Chunk : Layer(r, k) = Layer(b, k)
  BY <1>1, <1>3 DEF Layer
<1> QED
  BY <1>4, <1>5, LayersDecide DEF r

-----------------------------------------------------------------------------
(***************************************************************************)
(* The size of a bitmap, which orders the queue.                           *)
(***************************************************************************)

\* The sum of integers over a finite set is one.
LEMMA SumIsInt ==
  ASSUME NEW D, IsFiniteSet(D), NEW v \in [D -> Int]
  PROVE  MapThenSumSet(LAMBDA k : v[k], D) \in Int
<1> DEFINE P == SUBSET D
           pick(s) == CHOOSE k \in s : TRUE
           Body(h) == [s \in P |-> IF s = {} THEN 0 ELSE v[pick(s)] + h[s \ {pick(s)}]]
           n == Cardinality(D)
           rank == [s \in P |-> Cardinality(s)]
           F == [h \in [P -> Int] |-> Body(h)]
<1>1. ASSUME NEW s \in P, s # {}
      PROVE  /\ pick(s) \in D /\ s \ {pick(s)} \in P
             /\ Cardinality(s \ {pick(s)}) < Cardinality(s)
  <2>1. IsFiniteSet(s) /\ pick(s) \in s
    BY <1>1, FS_Subset
  <2>2. Cardinality(s) \in Nat /\ Cardinality(s \ {pick(s)}) = Cardinality(s) - 1
    BY <2>1, FS_CardinalityType, FS_RemoveElement
  <2> QED
    BY <2>1, <2>2
<1>2. n \in Nat /\ \A s \in P : Cardinality(s) \in 0 .. n
  BY FS_CardinalityType, FS_Subset
<1> HIDE DEF pick, n
<1>3. Descends(P, Int, n, rank, F)
  <2>1. F \in [[P -> Int] -> [P -> Int]]
    <3>1. ASSUME NEW h \in [P -> Int] PROVE Body(h) \in [P -> Int]
      <4>1. \A s \in P : s # {} => v[pick(s)] \in Int /\ h[s \ {pick(s)}] \in Int
        BY <1>1, <3>1
      <4> HIDE DEF P
      <4> QED
        BY <4>1
    <3> HIDE DEF Body
    <3> QED
      BY <3>1
  <2>2. rank \in [P -> 0 .. n]
    BY <1>2
  <2>3. ASSUME NEW f \in [P -> Int], NEW g \in [P -> Int], NEW d \in P,
               \A c \in P : rank[c] < rank[d] => f[c] = g[c]
        PROVE  F[f][d] = F[g][d]
    <3>1. /\ F[f][d] = IF d = {} THEN 0 ELSE v[pick(d)] + f[d \ {pick(d)}]
          /\ F[g][d] = IF d = {} THEN 0 ELSE v[pick(d)] + g[d \ {pick(d)}]
      OBVIOUS
    <3>2. d # {} => f[d \ {pick(d)}] = g[d \ {pick(d)}]
      BY <1>1, <2>3
    <3> HIDE DEF F
    <3> QED
      BY <3>1, <3>2
  <2> HIDE DEF rank, F
  <2> QED
    BY <2>1, <2>2, <2>3 DEF Descends
<1>4. PICK w \in [P -> Int] : w = F[w]
  <2> HIDE DEF rank, F, P
  <2> QED
    BY <1>2, <1>3, FixpointExists
<1>5. w = Body(w)
  BY <1>4
<1> DEFINE sum == CHOOSE h : h = Body(h)
<1>6. sum = Body(sum)
  <2> HIDE DEF Body
  <2> QED
    BY <1>5
<1>7. MapThenSumSet(LAMBDA k : v[k], D) = sum[D]
  BY DEF MapThenSumSet, MapThenFoldSet, pick
<1> HIDE DEF sum
<1> DEFINE T == {s \in P : sum[s] \in Int}
<1>8. {} \in T
  BY <1>6
<1>9. ASSUME NEW s \in SUBSET D, s # {} /\ s \ {pick(s)} \in T PROVE s \in T
  <2>1. sum[s] = v[pick(s)] + sum[s \ {pick(s)}]
    BY <1>6, <1>9
  <2> QED
    BY <1>1, <1>9, <2>1
<1>10. D \in T
  <2> HIDE DEF T
  <2> QED
    BY <1>8, <1>9, OneByOne DEF pick
<1> QED
  BY <1>7, <1>10

\* A serialized size is a number, which the queue compares.
LEMMA SizeIsInt ==
  ASSUME NEW b, LazyBitmap(b)
  PROVE  PortableSize(b) \in Int
<1> DEFINE D == DOMAIN b
           v == [k \in D |-> PayloadSize(b[k])]
<1>1. IsFiniteSet(D) /\ Cardinality(D) \in Nat
  BY BitmapAssumption, FS_Subset, FS_CardinalityType DEF LazyBitmap, IsBitmap
<1>2. ASSUME NEW k \in D PROVE PayloadSize(b[k]) \in Int
  <2>1. Lazy(b[k])
    BY DEF LazyBitmap
  <2>2. /\ b[k].vals \in SUBSET Low /\ b[k].type \in {"bitset", "array", "run"}
        /\ b[k].card \in Int
    BY <2>1, LazyParts
  <2>3. NumberOfRuns(b[k].vals) \in Nat
    <3>1. {y \in b[k].vals : y - 1 \notin b[k].vals} \in SUBSET Low
      BY <2>2
    <3> QED
      BY <3>1, LowSubsets DEF NumberOfRuns
  <2>4. BitsetBytes \in Int /\ LowBytes \in Int
    BY ContainerAssumption, SerializationAssumption
  <2> QED
    BY <2>2, <2>3, <2>4 DEF PayloadSize, RunBytes
<1>3. v \in [D -> Int]
  BY <1>2
<1>4. MapThenSumSet(LAMBDA k : PayloadSize(b[k]), D) = MapThenSumSet(LAMBDA k : v[k], D)
  <2> DEFINE pick(s) == CHOOSE k \in s : TRUE
             A(h) == h = [s \in SUBSET D |-> IF s = {} THEN 0
                            ELSE PayloadSize(b[pick(s)]) + h[s \ {pick(s)}]]
             B(h) == h = [s \in SUBSET D |-> IF s = {} THEN 0
                            ELSE v[pick(s)] + h[s \ {pick(s)}]]
  <2>1. /\ MapThenSumSet(LAMBDA k : PayloadSize(b[k]), D) = (CHOOSE h : A(h))[D]
        /\ MapThenSumSet(LAMBDA k : v[k], D) = (CHOOSE h : B(h))[D]
    BY DEF MapThenSumSet, MapThenFoldSet
  <2>2. ASSUME NEW h PROVE A(h) <=> B(h)
    <3>1. \A s \in SUBSET D : s # {} => v[pick(s)] = PayloadSize(b[pick(s)])
      OBVIOUS
    <3> HIDE DEF pick, v, D
    <3> QED
      BY <3>1
  <2> HIDE DEF A, B
  <2>3. (CHOOSE h : A(h)) = (CHOOSE h : B(h))
    BY <2>2
  <2> QED
    BY <2>1, <2>3
<1>5. HeaderSize(b) \in Int
  BY <1>1, SerializationAssumption DEF HeaderSize, FlagBytes
<1>6. PortableSize(b) = HeaderSize(b) + MapThenSumSet(LAMBDA k : v[k], D)
  BY <1>4 DEF PortableSize
<1> HIDE DEF D, v
<1>7. MapThenSumSet(LAMBDA k : v[k], D) \in Int
  BY <1>1, <1>3, SumIsInt
<1> QED
  BY <1>5, <1>6, <1>7

-----------------------------------------------------------------------------
(***************************************************************************)
(* The priority queue.                                                     *)
(***************************************************************************)

LEMMA ParentIs ==
  ASSUME NEW j \in Nat
  PROVE  Parent(j) \in Nat /\ 2 * Parent(j) <= j /\ j <= 2 * Parent(j) + 1
BY DEF Parent

Sized(E) == \A e \in E : e.size \in Int

Ordered(h, j) == ~ Compare(h[j], h[Parent(j)])

LEMMA BestChildIs ==
  ASSUME NEW E, Sized(E), NEW N \in Nat, NEW h \in [1 .. N -> E], Len(h) = N,
         NEW p \in 1 .. N, p <= N \div 2
  PROVE  /\ BestChild(h, p) \in 1 .. N /\ p < BestChild(h, p)
         /\ Parent(BestChild(h, p)) = p
         /\ \A j \in 2 .. N : Parent(j) = p => h[BestChild(h, p)].size <= h[j].size
<1> DEFINE l == 2 * p
           r == l + 1
           c == BestChild(h, p)
<1>1. l \in 1 .. N /\ p < l /\ p < r /\ Parent(l) = p /\ Parent(r) = p /\ r \in Nat
  BY DEF Parent
<1>2. c = IF r <= N /\ Compare(h[r], h[l]) THEN r ELSE l
  BY DEF BestChild
<1>3. \A j \in 1 .. N : h[j].size \in Int
  BY DEF Sized
<1>4. ASSUME NEW j \in 2 .. N, Parent(j) = p PROVE j = l \/ (j = r /\ r <= N)
  BY <1>4, ParentIs
<1> HIDE DEF l, r
<1>5. c = l \/ (c = r /\ r <= N)
  BY <1>2
<1>6. \A j \in 2 .. N : Parent(j) = p => h[c].size <= h[j].size
  BY <1>1, <1>2, <1>3, <1>4 DEF Compare
<1> HIDE DEF c
<1> QED
  BY <1>1, <1>5, <1>6 DEF c

\* What percolate_down leaves when the element e goes down from place p: the places
\* before p are as they were, e is among the others with what was there but for the
\* element at p, and the part of the heap below p is in order.
SiftedDown(E, N, h, e, p, g) ==
  /\ g \in [1 .. N -> E]
  /\ \A j \in 1 .. N : j # p /\ g[j] # h[j] => Parent(j) >= p
  /\ g[p] = e \/ (p <= N \div 2 /\ g[p] = h[BestChild(h, p)])
  /\ {g[j] : j \in p .. N} = {h[j] : j \in p + 1 .. N} \union {e}
  /\ (\A j \in 2 .. N : Parent(j) > p => Ordered(h, j)) =>
       \A j \in 2 .. N : Parent(j) >= p => Ordered(g, j)

\* The element stops at place p.
LEMMA StopsBelow ==
  ASSUME NEW E, Sized(E), NEW N \in Nat, NEW h \in [1 .. N -> E], Len(h) = N,
         NEW e \in E, NEW p \in 1 .. N,
         p > N \div 2 \/ ~ Compare(h[BestChild(h, p)], e)
  PROVE  SiftedDown(E, N, h, e, p, [h EXCEPT ![p] = e])
<1> DEFINE g == [h EXCEPT ![p] = e]
<1>1. \A j \in 1 .. N : Parent(j) \in Nat /\ 2 * Parent(j) <= j /\ j <= 2 * Parent(j) + 1
  BY DEF Parent
<1>2. g \in [1 .. N -> E] /\ g[p] = e /\ \A j \in 1 .. N : j # p => g[j] = h[j]
  OBVIOUS
<1> HIDE DEF g
<1>3. {g[j] : j \in p .. N} = {h[j] : j \in p + 1 .. N} \union {e}
  <2>1. p .. N = (p + 1 .. N) \union {p} /\ p \notin p + 1 .. N
    OBVIOUS
  <2>2. \A j \in p + 1 .. N : g[j] = h[j]
    BY <1>2
  <2>3. {g[j] : j \in p .. N} = {g[j] : j \in p + 1 .. N} \union {g[p]}
    BY <2>1
  <2> QED
    BY <1>2, <2>2, <2>3
<1>4. ASSUME \A j \in 2 .. N : Parent(j) > p => Ordered(h, j), NEW j \in 2 .. N, Parent(j) >= p
      PROVE  Ordered(g, j)
  <2>1. j \in 1 .. N /\ j \in Nat /\ p \in Nat /\ 1 <= p
    OBVIOUS
  <2>2. Parent(j) \in Nat /\ 2 * Parent(j) <= j
    BY <1>1, <2>1
  <2>3. Parent(j) \in 1 .. N /\ Parent(j) < j /\ 2 * Parent(j) <= j
    BY <1>4, <2>1, <2>2
  <2>4. CASE Parent(j) = p
    <3>1. p <= N \div 2
      BY <2>3, <2>4
    <3>2. h[BestChild(h, p)].size <= h[j].size /\ BestChild(h, p) \in 1 .. N
      BY <2>4, <3>1, BestChildIs
    <3>3. ~ Compare(h[BestChild(h, p)], e)
      BY <3>1
    <3>4. h[j].size \in Int /\ e.size \in Int /\ h[BestChild(h, p)].size \in Int
      BY <3>2 DEF Sized
    <3>5. g[j] = h[j] /\ g[Parent(j)] = e
      BY <1>2, <2>3, <2>4
    <3> QED
      BY <3>2, <3>3, <3>4, <3>5 DEF Ordered, Compare
  <2>5. CASE Parent(j) > p
    <3>1. g[j] = h[j] /\ g[Parent(j)] = h[Parent(j)]
      BY <1>2, <2>3, <2>5
    <3> QED
      BY <1>4, <2>5, <3>1 DEF Ordered
  <2> QED
    BY <1>4, <2>3, <2>4, <2>5
<1> QED
  BY <1>2, <1>3, <1>4 DEF SiftedDown, g

\* The element goes on below the smaller child, which takes its place.
LEMMA GoesBelow ==
  ASSUME NEW E, Sized(E), NEW N \in Nat, NEW h \in [1 .. N -> E], Len(h) = N,
         NEW e \in E, NEW p \in 1 .. N,
         p <= N \div 2, Compare(h[BestChild(h, p)], e),
         NEW f, SiftedDown(E, N, h, e, BestChild(h, p), f)
  PROVE  SiftedDown(E, N, h, e, p, [f EXCEPT ![p] = h[BestChild(h, p)]])
<1> DEFINE c == BestChild(h, p)
           g == [f EXCEPT ![p] = h[c]]
<1>1. \A j \in 1 .. N : Parent(j) \in Nat /\ 2 * Parent(j) <= j /\ j <= 2 * Parent(j) + 1
  BY DEF Parent
<1>2. /\ c \in 1 .. N /\ p < c /\ Parent(c) = p
      /\ \A j \in 2 .. N : Parent(j) = p => h[c].size <= h[j].size
  BY BestChildIs
<1>3. /\ f \in [1 .. N -> E]
      /\ \A j \in 1 .. N : j # c /\ f[j] # h[j] => Parent(j) >= c
      /\ f[c] = e \/ (c <= N \div 2 /\ f[c] = h[BestChild(h, c)])
      /\ {f[j] : j \in c .. N} = {h[j] : j \in c + 1 .. N} \union {e}
      /\ (\A j \in 2 .. N : Parent(j) > c => Ordered(h, j)) =>
           \A j \in 2 .. N : Parent(j) >= c => Ordered(f, j)
  BY DEF SiftedDown
<1>4. Compare(h[c], e)
  OBVIOUS
<1> HIDE DEF c
<1>5. /\ g \in [1 .. N -> E] /\ g[p] = h[c]
      /\ \A j \in 1 .. N : j # p => g[j] = f[j]
  BY <1>2, <1>3
<1> HIDE DEF g
<1>6. ASSUME NEW j \in 1 .. N, j # p, g[j] # h[j] PROVE Parent(j) >= p
  <2>1. CASE j = c
    BY <1>2, <2>1
  <2>2. CASE j # c
    BY <1>2, <1>3, <1>5, <1>6, <2>2, <1>1
  <2> QED
    BY <2>1, <2>2
<1>7. {g[j] : j \in p .. N} = {h[j] : j \in p + 1 .. N} \union {e}
  <2>1. /\ p .. N = {p} \union (p + 1 .. c - 1) \union (c .. N)
        /\ p + 1 .. N = (p + 1 .. c - 1) \union {c} \union (c + 1 .. N)
    BY <1>2
  <2>2. ASSUME NEW j \in p + 1 .. c - 1 PROVE g[j] = h[j]
    <3>1. j \in 1 .. N /\ j # p /\ j # c /\ j < c
      BY <1>2
    <3>2. ~ (Parent(j) >= c)
      BY <1>1, <1>2, <3>1
    <3> QED
      BY <1>3, <1>5, <3>1, <3>2
  <2>3. \A j \in c .. N : g[j] = f[j]
    BY <1>2, <1>5
  <2>4. {g[j] : j \in p .. N} =
          {g[p]} \union {g[j] : j \in p + 1 .. c - 1} \union {g[j] : j \in c .. N}
    BY <2>1
  <2>5. {h[j] : j \in p + 1 .. N} =
          {h[j] : j \in p + 1 .. c - 1} \union {h[c]} \union {h[j] : j \in c + 1 .. N}
    BY <2>1
  <2>6. /\ {g[j] : j \in p + 1 .. c - 1} = {h[j] : j \in p + 1 .. c - 1}
        /\ {g[j] : j \in c .. N} = {f[j] : j \in c .. N}
    BY <2>2, <2>3
  <2> QED
    BY <1>3, <1>5, <2>4, <2>5, <2>6
<1>8. ASSUME \A j \in 2 .. N : Parent(j) > p => Ordered(h, j), NEW j \in 2 .. N, Parent(j) >= p
      PROVE  Ordered(g, j)
  <2>1. j \in 1 .. N /\ j \in Nat /\ p \in Nat /\ 1 <= p
    OBVIOUS
  <2>2. Parent(j) \in 1 .. N /\ Parent(j) < j
    BY <1>1, <1>8, <2>1
  <2>3. \A i \in 1 .. N : h[i].size \in Int /\ f[i].size \in Int
    BY <1>3 DEF Sized
  <2>4. \A i \in 2 .. N : Parent(i) >= c => Ordered(f, i)
    <3>1. ASSUME NEW i \in 2 .. N, Parent(i) > c PROVE Ordered(h, i)
      <4>1. i \in 1 .. N
        OBVIOUS
      <4>2. Parent(i) \in Nat
        BY <1>1, <4>1
      <4> QED
        BY <1>2, <1>8, <3>1, <4>2
    <3> QED
      BY <1>3, <3>1
  <2>5. CASE j = c
    <3>1. g[j] = f[c] /\ g[Parent(j)] = h[c] /\ e.size \in Int
      BY <1>2, <1>5, <2>5 DEF Sized
    <3>2. CASE f[c] = e
      BY <1>2, <1>4, <2>3, <2>5, <3>1, <3>2 DEF Ordered, Compare
    <3>3. CASE c <= N \div 2 /\ f[c] = h[BestChild(h, c)]
      <4> DEFINE d == BestChild(h, c)
      <4>1. d \in 1 .. N /\ c < d /\ Parent(d) = c
        BY <1>2, <3>3, BestChildIs
      <4> HIDE DEF d
      <4>2. d \in 2 .. N /\ Parent(d) > p
        BY <1>2, <4>1
      <4>3. Ordered(h, d)
        BY <1>8, <4>2
      <4>4. f[c] = h[d]
        BY <3>3 DEF d
      <4> QED
        BY <2>5, <3>1, <4>1, <4>3, <4>4 DEF Ordered
    <3> QED
      BY <1>3, <3>2, <3>3
  <2>6. CASE j # c /\ Parent(j) = p
    <3>1. g[j] = h[j] /\ g[Parent(j)] = h[c]
      BY <1>2, <1>3, <1>5, <2>2, <2>6
    <3>2. h[c].size <= h[j].size
      BY <1>2, <2>6
    <3> QED
      BY <1>2, <2>3, <3>1, <3>2 DEF Ordered, Compare
  <2>7. CASE Parent(j) > p /\ Parent(j) < c
    <3>1. j # c /\ g[j] = h[j]
      BY <1>2, <1>3, <1>5, <2>2, <2>7
    <3>2. Parent(Parent(j)) \in Nat /\ 2 * Parent(Parent(j)) <= Parent(j)
      BY <1>1, <2>2
    <3>3. ~ (Parent(Parent(j)) >= c) /\ Parent(j) # p /\ Parent(j) # c
      BY <1>2, <2>2, <2>7, <3>2
    <3>4. g[Parent(j)] = h[Parent(j)]
      BY <1>3, <1>5, <2>2, <3>3
    <3> QED
      BY <1>8, <2>7, <3>1, <3>4 DEF Ordered
  <2>8. CASE Parent(j) >= c
    <3>1. g[j] = f[j] /\ g[Parent(j)] = f[Parent(j)]
      BY <1>2, <1>5, <2>2, <2>8
    <3> QED
      BY <2>4, <2>8, <3>1 DEF Ordered
  <2> QED
    BY <1>2, <1>8, <2>2, <2>5, <2>6, <2>7, <2>8
<1> QED
  BY <1>2, <1>5, <1>6, <1>7, <1>8 DEF SiftedDown, g, c

\* percolate_down
LEMMA SiftDownIs ==
  ASSUME NEW E, Sized(E), NEW N \in Nat, NEW h \in [1 .. N -> E], Len(h) = N,
         NEW e \in E, NEW i \in 1 .. N
  PROVE  SiftedDown(E, N, h, e, i, SiftDown(h, i, e))
<1> DEFINE D == 1 .. N
           S == [D -> E]
           Stops(p) == p > N \div 2 \/ ~ Compare(h[BestChild(h, p)], e)
           Body(f) == [p \in D |-> IF Stops(p) THEN [h EXCEPT ![p] = e]
                                   ELSE [f[BestChild(h, p)] EXCEPT ![p] = h[BestChild(h, p)]]]
           from == CHOOSE f : f = Body(f)
           rank == [p \in D |-> N - p]
           F == [f \in [D -> S] |-> Body(f)]
<1>1. DOMAIN h = D
  OBVIOUS
<1>2. SiftDown(h, i, e) = from[i]
  BY <1>1 DEF SiftDown
<1>3. ASSUME NEW p \in D, ~ Stops(p) PROVE BestChild(h, p) \in D /\ p < BestChild(h, p)
  BY <1>3, BestChildIs
<1>4. Descends(D, S, N, rank, F)
  <2>1. ASSUME NEW f \in [D -> S] PROVE Body(f) \in [D -> S]
    <3>1. ASSUME NEW p \in D PROVE Body(f)[p] \in S
      <4>1. CASE Stops(p)
        BY <4>1
      <4>2. CASE ~ Stops(p)
        <5>1. BestChild(h, p) \in D
          BY <1>3, <4>2
        <5> HIDE DEF Stops
        <5> QED
          BY <4>2, <5>1
      <4> QED
        BY <4>1, <4>2
    <3> HIDE DEF S, Stops
    <3> QED
      BY <3>1
  <2>2. rank \in [D -> 0 .. N]
    OBVIOUS
  <2>3. ASSUME NEW f \in [D -> S], NEW g \in [D -> S], NEW p \in D,
               \A c \in D : rank[c] < rank[p] => f[c] = g[c]
        PROVE  F[f][p] = F[g][p]
    <3>1. ~ Stops(p) => f[BestChild(h, p)] = g[BestChild(h, p)]
      BY <1>3, <2>3
    <3> HIDE DEF Stops, S, rank
    <3> QED
      BY <3>1
  <2>4. F \in [[D -> S] -> [D -> S]]
    <3> HIDE DEF Body
    <3> QED
      BY <2>1
  <2> HIDE DEF F, rank, S, D
  <2> QED
    BY <2>2, <2>3, <2>4 DEF Descends
<1>5. PICK f \in [D -> S] : f = F[f]
  <2>1. h \in S
    OBVIOUS
  <2> HIDE DEF F, rank, S, D
  <2> QED
    BY <1>4, <2>1, FixpointExists
<1>6. f = Body(f)
  <2> HIDE DEF Body
  <2> QED
    BY <1>5
<1>7. from = Body(from)
  <2> HIDE DEF Body
  <2> QED
    BY <1>6
<1> HIDE DEF from
<1> DEFINE T == {m \in 0 .. N : \A p \in D : N - p < m => SiftedDown(E, N, h, e, p, from[p])}
<1>8. 0 \in T
  OBVIOUS
<1>9. ASSUME NEW m \in 1 .. N, m - 1 \in T PROVE m \in T
  <2>1. ASSUME NEW p \in D, N - p < m PROVE SiftedDown(E, N, h, e, p, from[p])
    <3>1. CASE Stops(p)
      <4>1. from[p] = [h EXCEPT ![p] = e]
        BY <1>7, <3>1
      <4>2. SiftedDown(E, N, h, e, p, [h EXCEPT ![p] = e])
        <5>1. p > N \div 2 \/ ~ Compare(h[BestChild(h, p)], e)
          BY <3>1
        <5> QED
          BY <5>1, StopsBelow
      <4> HIDE DEF Stops, Body
      <4> QED
        BY <4>1, <4>2
    <3>2. CASE ~ Stops(p)
      <4> DEFINE c == BestChild(h, p)
      <4>1. c \in D /\ p < c
        BY <1>3, <3>2
      <4>2. N - c < m - 1
        BY <2>1, <4>1
      <4>3. SiftedDown(E, N, h, e, c, from[c])
        BY <1>9, <4>1, <4>2
      <4>4. from[p] = [from[c] EXCEPT ![p] = h[c]]
        BY <1>7, <3>2
      <4>5. p <= N \div 2 /\ Compare(h[BestChild(h, p)], e)
        BY <3>2
      <4>6. SiftedDown(E, N, h, e, p, [from[c] EXCEPT ![p] = h[c]])
        BY <4>3, <4>5, GoesBelow
      <4> HIDE DEF Stops, Body, c
      <4> QED
        BY <4>4, <4>6
    <3> QED
      BY <3>1, <3>2
  <2> QED
    BY <2>1
<1>10. N \in T
  <2> HIDE DEF T
  <2>1. \A m \in 0 .. N : m \in T
    BY <1>8, <1>9, TurnByTurn
  <2> QED
    BY <2>1
<1> QED
  BY <1>2, <1>10

\* The whole of the array after percolate_down(i): what was there, in order from i on.
LEMMA PercolateDownIs ==
  ASSUME NEW E, Sized(E), NEW h \in Seq(E), NEW i \in 1 .. Len(h)
  PROVE  LET g == PercolateDown(h, i)
         IN  /\ g \in Seq(E) /\ Len(g) = Len(h)
             /\ {g[j] : j \in 1 .. Len(g)} = {h[j] : j \in 1 .. Len(h)}
             /\ (\A j \in 2 .. Len(h) : Parent(j) > i => Ordered(h, j)) =>
                  \A j \in 2 .. Len(g) : Parent(j) >= i => Ordered(g, j)
<1> DEFINE N == Len(h)
           g == PercolateDown(h, i)
<1>1. N \in Nat /\ h \in [1 .. N -> E] /\ h[i] \in E
  OBVIOUS
<1>2. SiftedDown(E, N, h, h[i], i, g)
  BY <1>1, SiftDownIs DEF PercolateDown
<1> HIDE DEF N, g
<1>3. /\ g \in [1 .. N -> E]
      /\ \A j \in 1 .. N : j # i /\ g[j] # h[j] => Parent(j) >= i
      /\ {g[j] : j \in i .. N} = {h[j] : j \in i + 1 .. N} \union {h[i]}
      /\ (\A j \in 2 .. N : Parent(j) > i => Ordered(h, j)) =>
           \A j \in 2 .. N : Parent(j) >= i => Ordered(g, j)
  BY <1>2 DEF SiftedDown
<1>4. g \in Seq(E) /\ Len(g) = N
  BY <1>1, <1>3
<1>5. i \in 1 .. N
  BY DEF N
<1>6. ASSUME NEW j \in 1 .. i - 1 PROVE g[j] = h[j]
  <2>1. j \in 1 .. N /\ j # i /\ j \in Nat
    BY <1>1, <1>5
  <2>2. ~ (Parent(j) >= i)
    BY <1>5, <2>1, ParentIs
  <2> QED
    BY <1>3, <2>1, <2>2
<1>7. {g[j] : j \in 1 .. N} = {h[j] : j \in 1 .. N}
  <2>1. /\ 1 .. N = (1 .. i - 1) \union (i .. N)
        /\ 1 .. N = (1 .. i - 1) \union {i} \union (i + 1 .. N)
    BY <1>1, <1>5
  <2>2. {g[j] : j \in 1 .. N} = {g[j] : j \in 1 .. i - 1} \union {g[j] : j \in i .. N}
    BY <2>1
  <2>3. {h[j] : j \in 1 .. N} =
          {h[j] : j \in 1 .. i - 1} \union {h[i]} \union {h[j] : j \in i + 1 .. N}
    BY <2>1
  <2>4. {g[j] : j \in 1 .. i - 1} = {h[j] : j \in 1 .. i - 1}
    BY <1>6
  <2> QED
    BY <1>3, <2>2, <2>3, <2>4
<1> QED
  BY <1>3, <1>4, <1>7 DEF g, N

\* What percolating up leaves when the last place of the array is free and the element e
\* comes to place p of the way from there to the front: everything else is in order.
SiftedUp(E, N, h, e, p, g) ==
  /\ g \in [1 .. N -> E]
  /\ \A j \in p + 1 .. N : g[j] = h[j]
  /\ {g[j] : j \in 1 .. p} = {h[j] : j \in 1 .. p - 1} \union {e}
  /\ (p = N \/ Compare(e, h[p])) /\ (\A j \in 2 .. N - 1 : Ordered(h, j)) =>
       /\ \A j \in 1 .. N - 1 : g[j].size <= h[j].size
       /\ \A j \in 2 .. N : j # N \/ p = N => Ordered(g, j)

\* The element stops at place p.
LEMMA StopsAbove ==
  ASSUME NEW E, Sized(E), NEW N \in Nat, NEW h \in [1 .. N -> E],
         NEW e \in E, NEW p \in 1 .. N,
         p = 1 \/ ~ Compare(e, h[Parent(p)])
  PROVE  SiftedUp(E, N, h, e, p, [h EXCEPT ![p] = e])
<1> DEFINE g == [h EXCEPT ![p] = e]
<1>1. g \in [1 .. N -> E] /\ g[p] = e /\ \A j \in 1 .. N : j # p => g[j] = h[j]
  OBVIOUS
<1> HIDE DEF g
<1>2. \A j \in p + 1 .. N : g[j] = h[j]
  BY <1>1
<1>3. {g[j] : j \in 1 .. p} = {h[j] : j \in 1 .. p - 1} \union {e}
  <2>1. 1 .. p = (1 .. p - 1) \union {p}
    OBVIOUS
  <2>2. {g[j] : j \in 1 .. p} = {g[j] : j \in 1 .. p - 1} \union {g[p]}
    BY <2>1
  <2>3. \A j \in 1 .. p - 1 : g[j] = h[j]
    BY <1>1
  <2> QED
    BY <1>1, <2>2, <2>3
<1>4. ASSUME p = N \/ Compare(e, h[p]), \A j \in 2 .. N - 1 : Ordered(h, j)
      PROVE  /\ \A j \in 1 .. N - 1 : g[j].size <= h[j].size
             /\ \A j \in 2 .. N : j # N \/ p = N => Ordered(g, j)
  <2>1. e.size \in Int /\ \A j \in 1 .. N : h[j].size \in Int
    BY DEF Sized
  <2>2. ASSUME NEW j \in 1 .. N - 1 PROVE g[j].size <= h[j].size
    <3>1. j \in 1 .. N /\ j # N
      OBVIOUS
    <3>2. CASE j = p
      BY <1>1, <1>4, <2>1, <3>1, <3>2 DEF Compare
    <3>3. CASE j # p
      BY <1>1, <2>1, <3>1, <3>3
    <3> QED
      BY <3>2, <3>3
  <2>3. ASSUME NEW j \in 2 .. N, j # N \/ p = N PROVE Ordered(g, j)
    <3>1. j \in 1 .. N /\ j \in Nat
      OBVIOUS
    <3>2. Parent(j) \in Nat /\ 2 * Parent(j) <= j /\ j <= 2 * Parent(j) + 1
      BY <3>1, ParentIs
    <3>3. Parent(j) \in 1 .. N /\ Parent(j) < j
      BY <3>1, <3>2
    <3>4. CASE j = p
      <4>1. ~ Compare(e, h[Parent(p)])
        BY <3>4
      <4>2. g[j] = e /\ g[Parent(j)] = h[Parent(p)]
        BY <1>1, <3>3, <3>4
      <4> QED
        BY <4>1, <4>2 DEF Ordered
    <3>5. CASE Parent(j) = p
      <4>1. p # N /\ j # N /\ j \in 2 .. N - 1
        BY <2>3, <3>1, <3>3, <3>5
      <4>2. Compare(e, h[p]) /\ Ordered(h, j)
        BY <1>4, <4>1
      <4>3. g[j] = h[j] /\ g[Parent(j)] = e
        BY <1>1, <3>1, <3>3, <3>5
      <4> QED
        BY <2>1, <3>1, <3>5, <4>2, <4>3 DEF Ordered, Compare
    <3>6. CASE j # p /\ Parent(j) # p
      <4>1. j \in 2 .. N - 1
        BY <2>3, <3>1, <3>6
      <4>2. Ordered(h, j)
        BY <1>4, <4>1
      <4>3. g[j] = h[j] /\ g[Parent(j)] = h[Parent(j)]
        BY <1>1, <3>1, <3>3, <3>6
      <4> QED
        BY <4>2, <4>3 DEF Ordered
    <3> QED
      BY <3>4, <3>5, <3>6
  <2> QED
    BY <2>2, <2>3
<1> QED
  BY <1>1, <1>2, <1>3, <1>4 DEF SiftedUp, g

\* The element goes on above the parent, which takes its place.
LEMMA GoesAbove ==
  ASSUME NEW E, Sized(E), NEW N \in Nat, NEW h \in [1 .. N -> E],
         NEW e \in E, NEW p \in 1 .. N, p # 1, Compare(e, h[Parent(p)]),
         NEW f, SiftedUp(E, N, h, e, Parent(p), f)
  PROVE  SiftedUp(E, N, h, e, p, [f EXCEPT ![p] = h[Parent(p)]])
<1> DEFINE q == Parent(p)
           g == [f EXCEPT ![p] = h[q]]
<1>1. q \in Nat /\ 2 * q <= p /\ p <= 2 * q + 1
  BY ParentIs
<1> HIDE DEF q
<1>2. q \in 1 .. N - 1 /\ q \in 1 .. N /\ q < p
  BY <1>1
<1>3. /\ f \in [1 .. N -> E]
      /\ \A j \in q + 1 .. N : f[j] = h[j]
      /\ {f[j] : j \in 1 .. q} = {h[j] : j \in 1 .. q - 1} \union {e}
      /\ (q = N \/ Compare(e, h[q])) /\ (\A j \in 2 .. N - 1 : Ordered(h, j)) =>
           /\ \A j \in 1 .. N - 1 : f[j].size <= h[j].size
           /\ \A j \in 2 .. N : j # N \/ q = N => Ordered(f, j)
  BY DEF SiftedUp, q
<1>4. /\ g \in [1 .. N -> E] /\ g[p] = h[q]
      /\ \A j \in 1 .. N : j # p => g[j] = f[j]
  BY <1>2, <1>3
<1>5. Compare(e, h[q])
  BY DEF q
<1> HIDE DEF g
<1>6. ASSUME NEW j \in p + 1 .. N PROVE g[j] = h[j]
  <2>1. j \in 1 .. N /\ j # p /\ j \in q + 1 .. N
    BY <1>2
  <2> QED
    BY <1>3, <1>4, <2>1
<1>7. {g[j] : j \in 1 .. p} = {h[j] : j \in 1 .. p - 1} \union {e}
  <2>1. /\ 1 .. p = (1 .. q) \union (q + 1 .. p - 1) \union {p}
        /\ 1 .. p - 1 = (1 .. q - 1) \union {q} \union (q + 1 .. p - 1)
    BY <1>2
  <2>2. {g[j] : j \in 1 .. p} =
          {g[j] : j \in 1 .. q} \union {g[j] : j \in q + 1 .. p - 1} \union {g[p]}
    BY <2>1
  <2>3. {h[j] : j \in 1 .. p - 1} =
          {h[j] : j \in 1 .. q - 1} \union {h[q]} \union {h[j] : j \in q + 1 .. p - 1}
    BY <2>1
  <2>4. \A j \in 1 .. q : g[j] = f[j]
    BY <1>2, <1>4
  <2>5. ASSUME NEW j \in q + 1 .. p - 1 PROVE g[j] = h[j]
    <3>1. j \in 1 .. N /\ j # p /\ j \in q + 1 .. N
      BY <1>2
    <3> QED
      BY <1>3, <1>4, <3>1
  <2>6. /\ {g[j] : j \in 1 .. q} = {f[j] : j \in 1 .. q}
        /\ {g[j] : j \in q + 1 .. p - 1} = {h[j] : j \in q + 1 .. p - 1}
    BY <2>4, <2>5
  <2> QED
    BY <1>3, <1>4, <2>2, <2>3, <2>6
<1>8. ASSUME p = N \/ Compare(e, h[p]), \A j \in 2 .. N - 1 : Ordered(h, j)
      PROVE  /\ \A j \in 1 .. N - 1 : g[j].size <= h[j].size
             /\ \A j \in 2 .. N : j # N \/ p = N => Ordered(g, j)
  <2>1. \A j \in 1 .. N : h[j].size \in Int /\ f[j].size \in Int
    BY <1>3 DEF Sized
  <2>2. /\ \A j \in 1 .. N - 1 : f[j].size <= h[j].size
        /\ \A j \in 2 .. N : j # N => Ordered(f, j)
    BY <1>3, <1>5, <1>8
  <2>3. p # N => h[q].size <= h[p].size
    <3>1. SUFFICES ASSUME p # N PROVE h[q].size <= h[p].size
      OBVIOUS
    <3>2. p \in 2 .. N - 1
      BY <3>1
    <3>3. Ordered(h, p)
      BY <1>8, <3>2
    <3> QED
      BY <1>2, <2>1, <3>3 DEF Ordered, Compare, q
  <2>4. ASSUME NEW j \in 1 .. N - 1 PROVE g[j].size <= h[j].size
    <3>1. j \in 1 .. N /\ j # N
      OBVIOUS
    <3>2. CASE j = p
      BY <1>4, <2>3, <3>1, <3>2
    <3>3. CASE j # p
      BY <1>4, <2>2, <3>1, <3>3
    <3> QED
      BY <3>2, <3>3
  <2>5. ASSUME NEW j \in 2 .. N, j # N \/ p = N PROVE Ordered(g, j)
    <3>1. j \in 1 .. N /\ j \in Nat
      OBVIOUS
    <3>2. Parent(j) \in Nat /\ 2 * Parent(j) <= j /\ j <= 2 * Parent(j) + 1
      BY <3>1, ParentIs
    <3>3. Parent(j) \in 1 .. N /\ Parent(j) < j
      BY <3>1, <3>2
    <3>4. CASE j = p
      <4>1. g[j] = h[q] /\ g[Parent(j)] = f[q]
        BY <1>2, <1>4, <3>4 DEF q
      <4>2. f[q].size <= h[q].size
        BY <1>2, <2>2
      <4> QED
        BY <1>2, <2>1, <4>1, <4>2 DEF Ordered, Compare
    <3>5. CASE Parent(j) = p
      <4>1. p # N /\ j # N /\ j \in 2 .. N - 1 /\ j \in q + 1 .. N
        BY <1>2, <2>5, <3>1, <3>3, <3>5
      <4>2. h[q].size <= h[p].size /\ Ordered(h, j)
        BY <1>8, <2>3, <4>1
      <4>3. g[j] = h[j] /\ g[Parent(j)] = h[q]
        BY <1>3, <1>4, <3>1, <3>3, <3>5, <4>1
      <4> QED
        BY <1>2, <2>1, <3>1, <3>5, <4>2, <4>3 DEF Ordered, Compare
    <3>6. CASE j # p /\ Parent(j) # p
      <4>1. Ordered(f, j)
        BY <2>2, <2>5, <3>6
      <4>2. g[j] = f[j] /\ g[Parent(j)] = f[Parent(j)]
        BY <1>4, <3>1, <3>3, <3>6
      <4> QED
        BY <4>1, <4>2 DEF Ordered
    <3> QED
      BY <3>4, <3>5, <3>6
  <2> QED
    BY <2>4, <2>5
<1> QED
  BY <1>4, <1>6, <1>7, <1>8 DEF SiftedUp, g, q

LEMMA SiftUpIs ==
  ASSUME NEW E, Sized(E), NEW N \in Nat, NEW h \in [1 .. N -> E],
         NEW e \in E, NEW i \in 1 .. N
  PROVE  SiftedUp(E, N, h, e, i, SiftUp(h, i, e))
<1> DEFINE D == 1 .. N
           S == [D -> E]
           Stops(p) == p = 1 \/ ~ Compare(e, h[Parent(p)])
           Body(f) == [p \in D |-> IF Stops(p) THEN [h EXCEPT ![p] = e]
                                   ELSE [f[Parent(p)] EXCEPT ![p] = h[Parent(p)]]]
           from == CHOOSE f : f = Body(f)
           rank == [p \in D |-> p]
           F == [f \in [D -> S] |-> Body(f)]
<1>1. DOMAIN h = D
  OBVIOUS
<1>2. SiftUp(h, i, e) = from[i]
  BY <1>1 DEF SiftUp
<1>3. ASSUME NEW p \in D, p # 1 PROVE Parent(p) \in D /\ Parent(p) < p
  <2>1. p \in Nat /\ 1 <= p /\ p <= N
    OBVIOUS
  <2>2. Parent(p) \in Nat /\ 2 * Parent(p) <= p /\ p <= 2 * Parent(p) + 1
    BY <2>1, ParentIs
  <2> QED
    BY <1>3, <2>1, <2>2
<1>4. Descends(D, S, N, rank, F)
  <2>1. ASSUME NEW f \in [D -> S] PROVE Body(f) \in [D -> S]
    <3>1. ASSUME NEW p \in D PROVE Body(f)[p] \in S
      <4>1. CASE Stops(p)
        BY <4>1
      <4>2. CASE ~ Stops(p)
        <5>1. Parent(p) \in D
          BY <1>3, <4>2
        <5> HIDE DEF Stops
        <5> QED
          BY <4>2, <5>1
      <4> QED
        BY <4>1, <4>2
    <3> HIDE DEF S, Stops
    <3> QED
      BY <3>1
  <2>2. rank \in [D -> 0 .. N]
    OBVIOUS
  <2>3. ASSUME NEW f \in [D -> S], NEW g \in [D -> S], NEW p \in D,
               \A c \in D : rank[c] < rank[p] => f[c] = g[c]
        PROVE  F[f][p] = F[g][p]
    <3>1. ~ Stops(p) => f[Parent(p)] = g[Parent(p)]
      BY <1>3, <2>3
    <3> HIDE DEF Stops, S, rank
    <3> QED
      BY <3>1
  <2>4. F \in [[D -> S] -> [D -> S]]
    <3> HIDE DEF Body
    <3> QED
      BY <2>1
  <2> HIDE DEF F, rank, S, D
  <2> QED
    BY <2>2, <2>3, <2>4 DEF Descends
<1>5. PICK f \in [D -> S] : f = F[f]
  <2>1. h \in S
    OBVIOUS
  <2> HIDE DEF F, rank, S, D
  <2> QED
    BY <1>4, <2>1, FixpointExists
<1>6. f = Body(f)
  <2> HIDE DEF Body
  <2> QED
    BY <1>5
<1>7. from = Body(from)
  <2> HIDE DEF Body
  <2> QED
    BY <1>6
<1> HIDE DEF from
<1> DEFINE T == {m \in 0 .. N : \A p \in D : p <= m => SiftedUp(E, N, h, e, p, from[p])}
<1>8. 0 \in T
  OBVIOUS
<1>9. ASSUME NEW m \in 1 .. N, m - 1 \in T PROVE m \in T
  <2>1. ASSUME NEW p \in D, p <= m PROVE SiftedUp(E, N, h, e, p, from[p])
    <3>1. CASE Stops(p)
      <4>1. from[p] = [h EXCEPT ![p] = e]
        BY <1>7, <3>1
      <4>2. SiftedUp(E, N, h, e, p, [h EXCEPT ![p] = e])
        <5>1. p = 1 \/ ~ Compare(e, h[Parent(p)])
          BY <3>1
        <5> QED
          BY <5>1, StopsAbove
      <4> HIDE DEF Stops, Body
      <4> QED
        BY <4>1, <4>2
    <3>2. CASE ~ Stops(p)
      <4>1. Parent(p) \in D /\ Parent(p) < p
        BY <1>3, <3>2
      <4>2. Parent(p) <= m - 1
        BY <2>1, <4>1
      <4>3. SiftedUp(E, N, h, e, Parent(p), from[Parent(p)])
        BY <1>9, <4>1, <4>2
      <4>4. from[p] = [from[Parent(p)] EXCEPT ![p] = h[Parent(p)]]
        BY <1>7, <3>2
      <4>5. p # 1 /\ Compare(e, h[Parent(p)])
        BY <3>2
      <4>6. SiftedUp(E, N, h, e, p, [from[Parent(p)] EXCEPT ![p] = h[Parent(p)]])
        BY <4>3, <4>5, GoesAbove
      <4> HIDE DEF Stops, Body
      <4> QED
        BY <4>4, <4>6
    <3> QED
      BY <3>1, <3>2
  <2> QED
    BY <2>1
<1>10. N \in T
  <2> HIDE DEF T
  <2>1. \A m \in 0 .. N : m \in T
    BY <1>8, <1>9, TurnByTurn
  <2> QED
    BY <2>1
<1> QED
  BY <1>2, <1>10

\* pq_add: what was there, the new element, and the order.
LEMMA PqAddIs ==
  ASSUME NEW E, Sized(E), NEW h \in Seq(E), NEW e \in E
  PROVE  LET g == PqAdd(h, e)
         IN  /\ g \in Seq(E) /\ Len(g) = Len(h) + 1
             /\ {g[j] : j \in 1 .. Len(g)} = {h[j] : j \in 1 .. Len(h)} \union {e}
             /\ (\A j \in 2 .. Len(h) : Ordered(h, j)) =>
                  \A j \in 2 .. Len(g) : Ordered(g, j)
<1> DEFINE a == Append(h, e)
           N == Len(h) + 1
           g == PqAdd(h, e)
<1>1. /\ Len(h) \in Nat /\ N \in Nat /\ N \in 1 .. N /\ a \in [1 .. N -> E]
      /\ \A j \in 1 .. N - 1 : a[j] = h[j]
  <2>1. Len(h) \in Nat /\ N \in Nat /\ N \in 1 .. N
    OBVIOUS
  <2>2. a \in Seq(E) /\ Len(a) = N
    OBVIOUS
  <2>3. \A j \in 1 .. Len(h) : a[j] = h[j]
    OBVIOUS
  <2>4. N - 1 = Len(h)
    BY <2>1
  <2> HIDE DEF a, N
  <2> QED
    BY <2>1, <2>2, <2>3, <2>4
<1>2. g = SiftUp(a, N, e)
  BY DEF PqAdd
<1> HIDE DEF a, g
<1>3. SiftedUp(E, N, a, e, N, g)
  BY <1>1, <1>2, SiftUpIs
<1>4. /\ g \in [1 .. N -> E]
      /\ {g[j] : j \in 1 .. N} = {a[j] : j \in 1 .. N - 1} \union {e}
      /\ (\A j \in 2 .. N - 1 : Ordered(a, j)) => \A j \in 2 .. N : Ordered(g, j)
  BY <1>3 DEF SiftedUp
<1>5. g \in Seq(E) /\ Len(g) = N
  BY <1>1, <1>4
<1>6. N - 1 = Len(h)
  BY <1>1
<1>7. ASSUME NEW j \in 2 .. N - 1 PROVE Ordered(h, j) => Ordered(a, j)
  <2>1. j \in 1 .. N - 1 /\ j \in Nat
    BY <1>1
  <2>2. Parent(j) \in Nat /\ 2 * Parent(j) <= j /\ j <= 2 * Parent(j) + 1
    BY <2>1, ParentIs
  <2>3. Parent(j) \in 1 .. N - 1
    BY <1>1, <2>1, <2>2
  <2> QED
    BY <1>1, <2>1, <2>3 DEF Ordered
<1>8. (\A j \in 2 .. Len(h) : Ordered(h, j)) => \A j \in 2 .. Len(g) : Ordered(g, j)
  BY <1>4, <1>5, <1>6, <1>7
<1>9. {g[j] : j \in 1 .. Len(g)} = {h[j] : j \in 1 .. Len(h)} \union {e}
  <2>1. {a[j] : j \in 1 .. N - 1} = {h[j] : j \in 1 .. N - 1}
    BY <1>1
  <2> QED
    BY <1>4, <1>5, <1>6, <2>1
<1> QED
  BY <1>5, <1>8, <1>9 DEF g

\* pq_poll: what was there but for the first element, and the order.
LEMMA PqRestIs ==
  ASSUME NEW E, Sized(E), NEW h \in Seq(E), Len(h) >= 1
  PROVE  LET g == PqRest(h)
         IN  /\ g \in Seq(E) /\ Len(g) = Len(h) - 1
             /\ {h[j] : j \in 1 .. Len(h)} = {h[1]} \union {g[j] : j \in 1 .. Len(g)}
             /\ (\A j \in 2 .. Len(h) : Ordered(h, j)) =>
                  \A j \in 2 .. Len(g) : Ordered(g, j)
<1> DEFINE g == PqRest(h)
           n == Len(h)
<1>1. n \in Nat /\ 1 <= n
  OBVIOUS
<1>2. CASE n = 1
  <2>1. g = <<>>
    BY <1>2 DEF PqRest
  <2>2. {h[j] : j \in 1 .. n} = {h[1]}
    BY <1>2
  <2>3. g \in Seq(E) /\ Len(g) = 0
    BY <2>1
  <2> HIDE DEF g
  <2> QED
    BY <1>2, <2>2, <2>3 DEF g
<1>3. CASE n # 1
  <2> DEFINE m == n - 1
             cut == SubSeq(h, 1, m)
             a == [cut EXCEPT ![1] = h[n]]
  <2>1. g = PercolateDown(a, 1)
    BY <1>3 DEF PqRest
  <2>2. h \in [1 .. n -> E] /\ h[n] \in E
    OBVIOUS
  <2> HIDE DEF g, n, a
  <2>3. m \in Nat /\ 1 <= m /\ m < n
    BY <1>1, <1>3
  <2>4. /\ cut \in Seq(E) /\ Len(cut) = m
        /\ \A j \in 1 .. m : cut[j] = h[j]
    <3>1. \A j \in 1 .. m : h[j] \in E
      BY <1>1, <2>2, <2>3
    <3> QED
      BY <2>3, <3>1, SubSeqProperties
  <2> HIDE DEF cut, m
  <2>5. cut \in [1 .. m -> E]
    BY <2>3, <2>4
  <2>6. /\ a \in [1 .. m -> E] /\ a[1] = h[n]
        /\ \A j \in 2 .. m : a[j] = h[j]
    BY <2>2, <2>3, <2>4, <2>5 DEF a
  <2>7. a \in Seq(E) /\ Len(a) = m /\ 1 \in 1 .. Len(a)
    BY <2>3, <2>6
  <2>8. /\ g \in Seq(E) /\ Len(g) = m
        /\ {g[j] : j \in 1 .. m} = {a[j] : j \in 1 .. m}
        /\ (\A j \in 2 .. m : Parent(j) > 1 => Ordered(a, j)) =>
             \A j \in 2 .. m : Parent(j) >= 1 => Ordered(g, j)
    <3> DEFINE d == PercolateDown(a, 1)
    <3>1. /\ d \in Seq(E) /\ Len(d) = Len(a)
          /\ {d[j] : j \in 1 .. Len(d)} = {a[j] : j \in 1 .. Len(a)}
          /\ (\A j \in 2 .. Len(a) : Parent(j) > 1 => Ordered(a, j)) =>
               \A j \in 2 .. Len(d) : Parent(j) >= 1 => Ordered(d, j)
      BY <2>7, PercolateDownIs
    <3>2. g = d
      BY <2>1
    <3> HIDE DEF d
    <3> QED
      BY <2>7, <3>1, <3>2
  <2>9. {h[j] : j \in 1 .. n} = {h[1]} \union {a[j] : j \in 1 .. m}
    <3>1. 1 .. n = {1} \union (2 .. m) \union {n} /\ 1 .. m = {1} \union (2 .. m)
      BY <1>1, <2>3 DEF m
    <3>2. {h[j] : j \in 1 .. n} = {h[1]} \union {h[j] : j \in 2 .. m} \union {h[n]}
      BY <3>1
    <3>3. {a[j] : j \in 1 .. m} = {a[1]} \union {a[j] : j \in 2 .. m}
      BY <3>1
    <3>4. {a[j] : j \in 2 .. m} = {h[j] : j \in 2 .. m}
      BY <2>6
    <3> QED
      BY <2>6, <3>2, <3>3, <3>4
  <2>10. ASSUME \A j \in 2 .. n : Ordered(h, j) PROVE \A j \in 2 .. m : Ordered(g, j)
    <3>1. ASSUME NEW j \in 2 .. m PROVE Parent(j) \in Nat /\ 2 * Parent(j) <= j /\ 1 <= Parent(j)
      <4>1. j \in Nat /\ 2 <= j
        BY <2>3
      <4>2. Parent(j) \in Nat /\ 2 * Parent(j) <= j /\ j <= 2 * Parent(j) + 1
        BY <4>1, ParentIs
      <4> QED
        BY <4>1, <4>2
    <3>2. ASSUME NEW j \in 2 .. m, Parent(j) > 1 PROVE Ordered(a, j)
      <4>1. Parent(j) \in 2 .. m
        BY <2>3, <3>1, <3>2
      <4>2. a[j] = h[j] /\ a[Parent(j)] = h[Parent(j)] /\ j \in 2 .. n
        BY <2>3, <2>6, <4>1, <1>1
      <4> QED
        BY <2>10, <4>2 DEF Ordered
    <3> QED
      BY <2>8, <3>1, <3>2
  <2>11. Len(g) = n - 1
    BY <2>8 DEF m
  <2> QED
    BY <2>8, <2>9, <2>10, <2>11 DEF g, n
<1> QED
  BY <1>2, <1>3

-----------------------------------------------------------------------------
(***************************************************************************)
(* The inductive invariant.                                                *)
(***************************************************************************)

Inputs == x \in Seq(Given) /\ Len(x) >= 2

\* How far each call is, and what it has not touched yet.
Progress ==
  /\ method \in {"or_many", "or_many_heap", "xor_many"}
  /\ pc \in {"start", "build", "lazy", "done"}
  /\ pc = "start" => next = 1 /\ pq = <<>> /\ answer = EmptyBitmap
  /\ method # "or_many_heap" =>
       /\ pc # "build" /\ pq = <<>>
       /\ pc = "lazy" => next \in 3 .. Len(x) + 1
       /\ pc = "done" => next = Len(x) + 1
  /\ method = "or_many_heap" =>
       /\ pc = "build" => next \in 1 .. Len(pq) /\ answer = EmptyBitmap
       /\ pc = "lazy" => next = 0 /\ pq # <<>> /\ answer = EmptyBitmap
       /\ pc = "done" => pq = <<>>

QueueElement ==
  [size : Int, temporary : BOOLEAN, bitmap : UNION {[K -> Container] : K \in SUBSET Chunk}]

\* Every bitmap at hand is lazy at worst, and the answer of xor_many is counted.
Lazies ==
  /\ LazyBitmap(answer)
  /\ method = "xor_many" => CountedBitmap(answer)
  /\ pq \in Seq(QueueElement)
  /\ \A i \in DOMAIN pq : LazyBitmap(pq[i].bitmap)

ManyInv == Inputs /\ Progress /\ Lazies /\ LazyExact /\ HeapOrdered /\ AnswerSound

LEMMA InputIsSound ==
  ASSUME Inputs, NEW i \in 1 .. Len(x)
  PROVE  SoundBitmap(x[i]) /\ LazyBitmap(x[i])
<1>1. x[i] \in Given
  BY DEF Inputs
<1>2. SoundBitmap(x[i])
  BY <1>1, ManyAssumption DEF SoundBitmap
<1> QED
  BY <1>2, SoundBitmapIsLazy

LEMMA UnionOfFirst ==
  ASSUME Inputs, NEW n \in 0 .. Len(x)
  PROVE  UnionOf(SubSeq(x, 1, n)) = UNION {ToSet(x[i]) : i \in 1 .. n}
<1>1. /\ SubSeq(x, 1, n) \in Seq(Given) /\ Len(SubSeq(x, 1, n)) = n
      /\ \A i \in 1 .. n : SubSeq(x, 1, n)[i] = x[i]
  <2>1. \A i \in 1 .. n : x[i] \in Given
    BY DEF Inputs
  <2>2. n \in Nat /\ (IF 1 <= n THEN n - 1 + 1 ELSE 0) = n
    BY DEF Inputs
  <2>3. /\ SubSeq(x, 1, n) \in Seq(Given)
        /\ Len(SubSeq(x, 1, n)) = IF 1 <= n THEN n - 1 + 1 ELSE 0
        /\ \A i \in 1 .. n - 1 + 1 : SubSeq(x, 1, n)[i] = x[1 + i - 1]
    BY <2>1, <2>2, SubSeqProperties
  <2>4. \A i \in 1 .. n : i \in 1 .. n - 1 + 1 /\ 1 + i - 1 = i
    BY <2>2
  <2> QED
    BY <2>2, <2>3, <2>4
<1>2. DOMAIN SubSeq(x, 1, n) = 1 .. n
  BY <1>1
<1> QED
  BY <1>1, <1>2 DEF UnionOf

\* One more bitmap in a union.
LEMMA UnionOfNext ==
  ASSUME Inputs, NEW n \in 1 .. Len(x)
  PROVE  UnionOf(SubSeq(x, 1, n)) = UnionOf(SubSeq(x, 1, n - 1)) \union ToSet(x[n])
<1>1. n \in 0 .. Len(x) /\ n - 1 \in 0 .. Len(x) /\ 1 .. n = (1 .. n - 1) \union {n}
  BY DEF Inputs
<1>2. /\ UnionOf(SubSeq(x, 1, n)) = UNION {ToSet(x[i]) : i \in 1 .. n}
      /\ UnionOf(SubSeq(x, 1, n - 1)) = UNION {ToSet(x[i]) : i \in 1 .. n - 1}
  BY <1>1, UnionOfFirst
<1> QED
  BY <1>1, <1>2

LEMMA UnionOfAll ==
  ASSUME Inputs
  PROVE  /\ UnionOf(SubSeq(x, 1, 0)) = {}
         /\ UnionOf(SubSeq(x, 1, Len(x))) = UnionOf(x)
         /\ UnionOf(x) = UNION {ToSet(x[i]) : i \in 1 .. Len(x)}
<1>1. 0 \in 0 .. Len(x) /\ Len(x) \in 0 .. Len(x) /\ DOMAIN x = 1 .. Len(x) /\ 1 .. 0 = {}
  BY DEF Inputs
<1>2. /\ UnionOf(SubSeq(x, 1, 0)) = UNION {ToSet(x[i]) : i \in 1 .. 0}
      /\ UnionOf(SubSeq(x, 1, Len(x))) = UNION {ToSet(x[i]) : i \in 1 .. Len(x)}
  BY <1>1, UnionOfFirst
<1>3. UnionOf(x) = UNION {ToSet(x[i]) : i \in 1 .. Len(x)}
  BY <1>1 DEF UnionOf
<1>4. {ToSet(x[i]) : i \in 1 .. 0} = {}
  BY <1>1
<1> QED
  BY <1>2, <1>3, <1>4

\* One more bitmap in a symmetric difference.
LEMMA OddInNext ==
  ASSUME NEW n \in Nat \ {0}
  PROVE  OddIn(n) = (OddIn(n - 1) \ ToSet(x[n])) \union (ToSet(x[n]) \ OddIn(n - 1))
<1> DEFINE In(v, m) == {i \in 1 .. m : v \in ToSet(x[i])}
<1>1. ASSUME NEW v \in Value
      PROVE  v \in OddIn(n) <=> (v \in OddIn(n - 1) <=> v \notin ToSet(x[n]))
  <2>1. IsFiniteSet(In(v, n - 1)) /\ n \notin In(v, n - 1)
    <3>1. IsFiniteSet(1 .. n - 1) /\ In(v, n - 1) \in SUBSET (1 .. n - 1) /\ n \notin 1 .. n - 1
      BY FS_Interval
    <3> QED
      BY <3>1, FS_Subset
  <2>2. Cardinality(In(v, n - 1)) \in Nat
    BY <2>1, FS_CardinalityType
  <2>3. /\ v \in OddIn(n) <=> Cardinality(In(v, n)) % 2 = 1
        /\ v \in OddIn(n - 1) <=> Cardinality(In(v, n - 1)) % 2 = 1
    BY DEF OddIn
  <2>4. CASE v \in ToSet(x[n])
    <3>1. In(v, n) = In(v, n - 1) \union {n}
      BY <2>4
    <3>2. Cardinality(In(v, n)) = Cardinality(In(v, n - 1)) + 1
      BY <2>1, <3>1, FS_AddElement
    <3> QED
      BY <2>2, <2>3, <2>4, <3>2
  <2>5. CASE v \notin ToSet(x[n])
    <3>1. In(v, n) = In(v, n - 1)
      BY <2>5
    <3> QED
      BY <2>3, <2>5, <3>1
  <2> QED
    BY <2>4, <2>5
<1>2. OddIn(n) \subseteq Value /\ OddIn(n - 1) \subseteq Value /\ ToSet(x[n]) \subseteq Value
  BY DEF OddIn, ToSet
<1> QED
  BY <1>1, <1>2

LEMMA OddInNone == OddIn(0) = {}
<1>1. \A v : {i \in 1 .. 0 : v \in ToSet(x[i])} = {}
  OBVIOUS
<1>2. Cardinality({}) = 0
  BY FS_EmptySet
<1> QED
  BY <1>1, <1>2 DEF OddIn

-----------------------------------------------------------------------------
(***************************************************************************)
(* or_many and xor_many.                                                   *)
(***************************************************************************)

LEMMA EmptyQueue ==
  /\ <<>> \in Seq(QueueElement) /\ DOMAIN <<>> = {}
  /\ \A i \in DOMAIN <<>> : LazyBitmap(<<>>[i].bitmap)
OBVIOUS

LEMMA InitMany == Init => ManyInv
<1> SUFFICES ASSUME Init PROVE ManyInv
  OBVIOUS
<1> USE DEF Init
<1>1. Inputs
  <2>1. PICK n \in 2 .. MaxInputs : x \in [1 .. n -> Given]
    OBVIOUS
  <2>2. n \in Nat /\ n >= 2
    BY ManyAssumption
  <2> QED
    BY <2>1, <2>2 DEF Inputs
<1>2. Progress
  BY ManyAssumption DEF Progress
<1>3. Lazies
  BY EmptyQueue, EmptyBitmapSound, SoundBitmapIsLazy DEF Lazies
<1>4. ToSet(answer) = {} /\ Taken = 0
  BY DEF ToSet, EmptyBitmap, Taken
<1>5. LazyExact
  BY <1>1, <1>4, UnionOfAll, OddInNone DEF LazyExact
<1>6. HeapOrdered /\ AnswerSound
  BY EmptyQueue DEF HeapOrdered, AnswerSound
<1> QED
  BY <1>1, <1>2, <1>3, <1>5, <1>6 DEF ManyInv

\* A step of or_many: what it must do to the answer.
LEMMA OrManyKeeps ==
  ASSUME Cardinality(Chunk) < KeyMod, ManyInv, OrManyStart \/ OrManyNext
  PROVE  ManyInv'
<1>1. /\ Inputs /\ Progress /\ Lazies /\ LazyExact /\ method = "or_many"
      /\ UNCHANGED <<x, method, pq>> /\ pq = <<>> /\ pc' = "lazy"
  BY DEF ManyInv, OrManyStart, OrManyNext, Progress
<1>2. Len(x) \in Nat /\ Len(x) >= 2
  BY <1>1 DEF Inputs
<1>3. /\ next' - 1 \in 2 .. Len(x) /\ next' \in 3 .. Len(x) + 1
      /\ LazyBitmap(answer')
      /\ ToSet(answer') = UnionOf(SubSeq(x, 1, next' - 1))
  <2>1. CASE OrManyStart
    <3>1. answer' = LazyOr(x[1], x[2], TRUE) /\ next' = 3
      BY <2>1 DEF OrManyStart
    <3>2. 1 \in 1 .. Len(x) /\ 2 \in 1 .. Len(x) /\ 1 - 1 = 0 /\ 2 - 1 = 1
      BY <1>2
    <3>3. LazyBitmap(x[1]) /\ LazyBitmap(x[2])
      BY <1>1, <3>2, InputIsSound
    <3>4. LazyBitmap(answer') /\ ToSet(answer') = ToSet(x[1]) \union ToSet(x[2])
      BY <3>1, <3>3, LazyOrIs
    <3>5. /\ UnionOf(SubSeq(x, 1, 0)) = {}
          /\ UnionOf(SubSeq(x, 1, 1)) = UnionOf(SubSeq(x, 1, 0)) \union ToSet(x[1])
          /\ UnionOf(SubSeq(x, 1, 2)) = UnionOf(SubSeq(x, 1, 1)) \union ToSet(x[2])
      BY <1>1, <3>2, UnionOfAll, UnionOfNext
    <3>6. next' - 1 = 2 /\ 2 \in 2 .. Len(x) /\ 3 \in 3 .. Len(x) + 1
      BY <1>2, <3>1
    <3> QED
      BY <3>1, <3>4, <3>5, <3>6
  <2>2. CASE OrManyNext
    <3>1. /\ answer' = LazyOrInplace(answer, x[next], TRUE) /\ next' = next + 1
          /\ next <= Len(x) /\ pc = "lazy"
      BY <2>2 DEF OrManyNext
    <3>2. next \in 3 .. Len(x) + 1
      BY <1>1, <3>1 DEF Progress
    <3>3. /\ next \in 1 .. Len(x) /\ next' - 1 = next
          /\ next' - 1 \in 2 .. Len(x) /\ next' \in 3 .. Len(x) + 1
      BY <1>2, <3>1, <3>2
    <3>4. LazyBitmap(answer) /\ LazyBitmap(x[next])
      BY <1>1, <3>3, InputIsSound DEF Lazies
    <3>5. LazyBitmap(answer') /\ ToSet(answer') = ToSet(answer) \union ToSet(x[next])
      BY <3>1, <3>4, LazyOrIs
    <3>6. ToSet(answer) = UnionOf(SubSeq(x, 1, next - 1))
      BY <1>1, <3>1 DEF LazyExact, Taken
    <3>7. UnionOf(SubSeq(x, 1, next)) = UnionOf(SubSeq(x, 1, next - 1)) \union ToSet(x[next])
      BY <1>1, <3>3, UnionOfNext
    <3> QED
      BY <3>3, <3>5, <3>6, <3>7
  <2> QED
    BY <2>1, <2>2
<1>4. Inputs' /\ Progress'
  BY <1>1, <1>3 DEF Inputs, Progress
<1>5. Lazies'
  BY <1>1, <1>3, EmptyQueue DEF Lazies
<1>6. LazyExact'
  BY <1>1, <1>3 DEF LazyExact, Taken
<1>7. HeapOrdered' /\ AnswerSound'
  BY <1>1, EmptyQueue DEF HeapOrdered, AnswerSound
<1> QED
  BY <1>4, <1>5, <1>6, <1>7 DEF ManyInv

\* A step of xor_many.
LEMMA XorManyKeeps ==
  ASSUME Cardinality(Chunk) < KeyMod, ManyInv, XorManyStart \/ XorManyNext
  PROVE  ManyInv'
<1>1. /\ Inputs /\ Progress /\ Lazies /\ LazyExact /\ method = "xor_many"
      /\ UNCHANGED <<x, method, pq>> /\ pq = <<>> /\ pc' = "lazy"
  BY DEF ManyInv, XorManyStart, XorManyNext, Progress
<1>2. Len(x) \in Nat /\ Len(x) >= 2
  BY <1>1 DEF Inputs
<1>3. /\ next' - 1 \in 2 .. Len(x) /\ next' \in 3 .. Len(x) + 1
      /\ CountedBitmap(answer')
      /\ ToSet(answer') = OddIn(next' - 1)
  <2>1. CASE XorManyStart
    <3>1. answer' = LazyXor(x[1], x[2]) /\ next' = 3
      BY <2>1 DEF XorManyStart
    <3>2. 1 \in 1 .. Len(x) /\ 2 \in 1 .. Len(x) /\ 1 - 1 = 0 /\ 2 - 1 = 1
      BY <1>2
    <3>3. SoundBitmap(x[1]) /\ SoundBitmap(x[2]) /\ CountedBitmap(x[1])
      BY <1>1, <3>2, InputIsSound, SoundBitmapIsLazy
    <3>4. /\ CountedBitmap(answer')
          /\ ToSet(answer') = (ToSet(x[1]) \ ToSet(x[2])) \union (ToSet(x[2]) \ ToSet(x[1]))
      BY <3>1, <3>3, LazyXorIs
    <3>5. OddIn(1) = ToSet(x[1])
      <4>1. OddIn(1) = (OddIn(1 - 1) \ ToSet(x[1])) \union (ToSet(x[1]) \ OddIn(1 - 1))
        BY OddInNext
      <4> QED
        BY <3>2, <4>1, OddInNone
    <3>6. OddIn(2) = (OddIn(2 - 1) \ ToSet(x[2])) \union (ToSet(x[2]) \ OddIn(2 - 1))
      BY OddInNext
    <3>7. next' - 1 = 2 /\ 2 \in 2 .. Len(x) /\ 3 \in 3 .. Len(x) + 1
      BY <1>2, <3>1
    <3> QED
      BY <3>1, <3>2, <3>4, <3>5, <3>6, <3>7
  <2>2. CASE XorManyNext
    <3>1. /\ answer' = LazyXorInplace(answer, x[next]) /\ next' = next + 1
          /\ next <= Len(x) /\ pc = "lazy"
      BY <2>2 DEF XorManyNext
    <3>2. next \in 3 .. Len(x) + 1
      BY <1>1, <3>1 DEF Progress
    <3>3. /\ next \in 1 .. Len(x) /\ next' - 1 = next /\ next \in Nat \ {0}
          /\ next' - 1 \in 2 .. Len(x) /\ next' \in 3 .. Len(x) + 1
      BY <1>2, <3>1, <3>2
    <3>4. CountedBitmap(answer) /\ SoundBitmap(x[next])
      BY <1>1, <3>3, InputIsSound DEF Lazies
    <3>5. /\ CountedBitmap(answer')
          /\ ToSet(answer') = (ToSet(answer) \ ToSet(x[next])) \union (ToSet(x[next]) \ ToSet(answer))
      BY <3>1, <3>4, LazyXorIs
    <3>6. ToSet(answer) = OddIn(next - 1)
      BY <1>1, <3>1 DEF LazyExact, Taken
    <3>7. OddIn(next) = (OddIn(next - 1) \ ToSet(x[next])) \union (ToSet(x[next]) \ OddIn(next - 1))
      BY <3>3, OddInNext
    <3> QED
      BY <3>3, <3>5, <3>6, <3>7
  <2> QED
    BY <2>1, <2>2
<1>4. Inputs' /\ Progress'
  BY <1>1, <1>3 DEF Inputs, Progress
<1>5. Lazies'
  BY <1>1, <1>3, EmptyQueue DEF Lazies, CountedBitmap
<1>6. LazyExact'
  <2>1. ToSet(answer)' = OddIn(Taken)'
    BY <1>1, <1>3 DEF Taken, OddIn
  <2> QED
    BY <1>1, <2>1 DEF LazyExact
<1>7. HeapOrdered' /\ AnswerSound'
  BY <1>1, EmptyQueue DEF HeapOrdered, AnswerSound
<1> QED
  BY <1>4, <1>5, <1>6, <1>7 DEF ManyInv

-----------------------------------------------------------------------------
(***************************************************************************)
(* or_many_heap.                                                           *)
(***************************************************************************)

\* What the bitmaps of a queue stand for together.
Together(h) == UNION {ToSet(h[j].bitmap) : j \in 1 .. Len(h)}

\* What the proofs of the heap's steps keep about a queue.
SoundQueue(h) ==
  /\ h \in Seq(QueueElement)
  /\ \A j \in 1 .. Len(h) : LazyBitmap(h[j].bitmap)

LEMMA QueueIsSized == Sized(QueueElement)
BY DEF Sized, QueueElement

LEMMA ElementIs ==
  ASSUME NEW b, LazyBitmap(b), NEW temporary \in BOOLEAN
  PROVE  /\ Element(b, temporary) \in QueueElement
         /\ Element(b, temporary).bitmap = b
<1>1. PortableSize(b) \in Int
  BY SizeIsInt
<1>2. b \in UNION {[K -> Container] : K \in SUBSET Chunk}
  BY DEF LazyBitmap, IsBitmap
<1> QED
  BY <1>1, <1>2 DEF Element, QueueElement

\* Two queues with the same elements are as sound and stand for the same.
LEMMA SameElements ==
  ASSUME NEW h, SoundQueue(h), NEW g \in Seq(QueueElement),
         {g[j] : j \in 1 .. Len(g)} = {h[j] : j \in 1 .. Len(h)}
  PROVE  SoundQueue(g) /\ Together(g) = Together(h)
<1>1. \A j \in 1 .. Len(g) : \E i \in 1 .. Len(h) : g[j] = h[i]
  OBVIOUS
<1>2. \A i \in 1 .. Len(h) : \E j \in 1 .. Len(g) : g[j] = h[i]
  OBVIOUS
<1>3. {ToSet(g[j].bitmap) : j \in 1 .. Len(g)} = {ToSet(h[j].bitmap) : j \in 1 .. Len(h)}
  BY <1>1, <1>2
<1> QED
  BY <1>1, <1>3 DEF SoundQueue, Together

\* Taking the first element off.
LEMMA RestOfQueue ==
  ASSUME NEW h, SoundQueue(h), Len(h) >= 1
  PROVE  /\ SoundQueue(PqRest(h)) /\ Len(PqRest(h)) = Len(h) - 1
         /\ h[1] \in QueueElement /\ LazyBitmap(h[1].bitmap)
         /\ Together(h) = ToSet(h[1].bitmap) \union Together(PqRest(h))
         /\ (\A j \in 2 .. Len(h) : Ordered(h, j)) =>
              \A j \in 2 .. Len(PqRest(h)) : Ordered(PqRest(h), j)
<1> DEFINE g == PqRest(h)
<1>1. h \in Seq(QueueElement) /\ \A j \in 1 .. Len(h) : LazyBitmap(h[j].bitmap)
  BY DEF SoundQueue
<1>2. /\ g \in Seq(QueueElement) /\ Len(g) = Len(h) - 1
      /\ {h[j] : j \in 1 .. Len(h)} = {h[1]} \union {g[j] : j \in 1 .. Len(g)}
      /\ (\A j \in 2 .. Len(h) : Ordered(h, j)) => \A j \in 2 .. Len(g) : Ordered(g, j)
  BY <1>1, QueueIsSized, PqRestIs
<1> HIDE DEF g
<1>3. 1 \in 1 .. Len(h) /\ h[1] \in QueueElement
  BY <1>1
<1>4. \A j \in 1 .. Len(g) : \E i \in 1 .. Len(h) : g[j] = h[i]
  BY <1>2
<1>5. \A i \in 1 .. Len(h) : h[i] = h[1] \/ \E j \in 1 .. Len(g) : g[j] = h[i]
  BY <1>2
<1>6. {ToSet(h[j].bitmap) : j \in 1 .. Len(h)} =
        {ToSet(h[1].bitmap)} \union {ToSet(g[j].bitmap) : j \in 1 .. Len(g)}
  BY <1>3, <1>4, <1>5
<1>7. Together(h) = ToSet(h[1].bitmap) \union Together(g)
  BY <1>6 DEF Together
<1>8. SoundQueue(g)
  BY <1>1, <1>2, <1>4 DEF SoundQueue
<1> QED
  BY <1>1, <1>2, <1>3, <1>7, <1>8 DEF g

\* Adding an element.
LEMMA AddedToQueue ==
  ASSUME NEW h, SoundQueue(h), NEW e \in QueueElement, LazyBitmap(e.bitmap)
  PROVE  /\ SoundQueue(PqAdd(h, e)) /\ Len(PqAdd(h, e)) = Len(h) + 1
         /\ Together(PqAdd(h, e)) = Together(h) \union ToSet(e.bitmap)
         /\ (\A j \in 2 .. Len(h) : Ordered(h, j)) =>
              \A j \in 2 .. Len(PqAdd(h, e)) : Ordered(PqAdd(h, e), j)
<1> DEFINE g == PqAdd(h, e)
<1>1. h \in Seq(QueueElement) /\ \A j \in 1 .. Len(h) : LazyBitmap(h[j].bitmap)
  BY DEF SoundQueue
<1>2. /\ g \in Seq(QueueElement) /\ Len(g) = Len(h) + 1
      /\ {g[j] : j \in 1 .. Len(g)} = {h[j] : j \in 1 .. Len(h)} \union {e}
      /\ (\A j \in 2 .. Len(h) : Ordered(h, j)) => \A j \in 2 .. Len(g) : Ordered(g, j)
  BY <1>1, QueueIsSized, PqAddIs
<1> HIDE DEF g
<1>3. \A j \in 1 .. Len(g) : g[j] = e \/ \E i \in 1 .. Len(h) : g[j] = h[i]
  BY <1>2
<1>4. /\ \A i \in 1 .. Len(h) : \E j \in 1 .. Len(g) : g[j] = h[i]
      /\ \E j \in 1 .. Len(g) : g[j] = e
  BY <1>2
<1>5. {ToSet(g[j].bitmap) : j \in 1 .. Len(g)} =
        {ToSet(h[j].bitmap) : j \in 1 .. Len(h)} \union {ToSet(e.bitmap)}
  BY <1>3, <1>4
<1>6. Together(g) = Together(h) \union ToSet(e.bitmap)
  BY <1>5 DEF Together
<1>7. SoundQueue(g)
  BY <1>1, <1>2, <1>3 DEF SoundQueue
<1> QED
  BY <1>2, <1>6, <1>7 DEF g

\* The two bitmaps taken off the queue, whichever of them are temporaries.
LEMMA UniteIs ==
  ASSUME Cardinality(Chunk) < KeyMod,
         NEW e1 \in QueueElement, LazyBitmap(e1.bitmap),
         NEW e2 \in QueueElement, LazyBitmap(e2.bitmap)
  PROVE  /\ LazyBitmap(Unite(e1, e2))
         /\ ToSet(Unite(e1, e2)) = ToSet(e1.bitmap) \union ToSet(e2.bitmap)
<1> DEFINE b1 == e1.bitmap
           b2 == e2.bitmap
           Right(r) == LazyBitmap(r) /\ ToSet(r) = ToSet(b1) \union ToSet(b2)
<1>1. /\ Right(LazyOrFromLazyInputs(b1, b2)) /\ Right(LazyOrInplace(b1, b2, FALSE))
      /\ Right(LazyOr(b1, b2, FALSE)) /\ Right(LazyOrInplace(b2, b1, FALSE))
  <2>1. LazyBitmap(b1) /\ LazyBitmap(b2) /\ FALSE \in BOOLEAN
    OBVIOUS
  <2> HIDE DEF b1, b2
  <2>2. /\ LazyBitmap(LazyOr(b1, b2, FALSE))
        /\ ToSet(LazyOr(b1, b2, FALSE)) = ToSet(b1) \union ToSet(b2)
        /\ LazyBitmap(LazyOrInplace(b1, b2, FALSE))
        /\ ToSet(LazyOrInplace(b1, b2, FALSE)) = ToSet(b1) \union ToSet(b2)
        /\ LazyBitmap(LazyOrFromLazyInputs(b1, b2))
        /\ ToSet(LazyOrFromLazyInputs(b1, b2)) = ToSet(b1) \union ToSet(b2)
    BY <2>1, LazyOrIs
  <2>3. /\ LazyBitmap(LazyOrInplace(b2, b1, FALSE))
        /\ ToSet(LazyOrInplace(b2, b1, FALSE)) = ToSet(b2) \union ToSet(b1)
    BY <2>1, LazyOrIs
  <2> QED
    BY <2>2, <2>3
<1>2. e1.temporary \in BOOLEAN /\ e2.temporary \in BOOLEAN
  BY DEF QueueElement
<1> HIDE DEF Right
<1>3. Right(Unite(e1, e2))
  <2>1. CASE e1.temporary /\ e2.temporary
    BY <1>1, <2>1 DEF Unite
  <2>2. CASE ~e1.temporary /\ e2.temporary
    BY <1>1, <2>2 DEF Unite
  <2>3. CASE e1.temporary /\ ~e2.temporary
    BY <1>1, <2>3 DEF Unite
  <2>4. CASE ~e1.temporary /\ ~e2.temporary
    BY <1>1, <2>4 DEF Unite
  <2> QED
    BY <1>2, <2>1, <2>2, <2>3, <2>4
<1> QED
  BY <1>3 DEF Right

\* What the invariant says of the queue, in the terms of these lemmas.
LEMMA QueueOfInvariant ==
  ASSUME ManyInv, method = "or_many_heap", pc \in {"build", "lazy"}
  PROVE  /\ SoundQueue(pq) /\ Together(pq) = UnionOf(x)
         /\ \A j \in 2 .. Len(pq) : Parent(j) > next => Ordered(pq, j)
<1>1. pq \in Seq(QueueElement) /\ DOMAIN pq = 1 .. Len(pq)
  BY DEF ManyInv, Lazies
<1>2. SoundQueue(pq)
  BY <1>1 DEF ManyInv, Lazies, SoundQueue
<1>3. Together(pq) = UNION {ToSet(b) : b \in Queued}
  BY <1>1 DEF Together, Queued
<1>4. \A j \in 2 .. Len(pq) : j \in DOMAIN pq /\ j > 1
  BY <1>1
<1> QED
  BY <1>2, <1>3, <1>4 DEF ManyInv, LazyExact, HeapOrdered, Ordered

\* And back again, for the queue after a step.
LEMMA HeapInvariant ==
  ASSUME ManyInv, method = "or_many_heap", UNCHANGED <<x, method, answer>>,
         answer = EmptyBitmap,
         pc' \in {"build", "lazy"},
         pc' = "build" => next' \in 1 .. Len(pq'),
         pc' = "lazy" => next' = 0 /\ Len(pq') >= 1,
         SoundQueue(pq'), Together(pq') = UnionOf(x),
         \A j \in 2 .. Len(pq') : Parent(j) > next' => Ordered(pq', j)
  PROVE  ManyInv'
<1>1. pq' \in Seq(QueueElement) /\ DOMAIN pq' = 1 .. Len(pq')
  BY DEF SoundQueue
<1>2. Inputs' /\ Progress'
  <2>1. Inputs'
    BY DEF ManyInv, Inputs
  <2>2. pc' = "lazy" => pq' # <<>>
    BY <1>1
  <2> QED
    BY <2>1, <2>2 DEF Progress
<1>3. Lazies'
  BY <1>1 DEF ManyInv, Lazies, SoundQueue
<1>4. LazyExact'
  <2>1. UNION {ToSet(b) : b \in Queued'} = Together(pq')
    BY <1>1 DEF Together, Queued
  <2> QED
    BY <2>1 DEF LazyExact
<1>5. HeapOrdered'
  <2>1. \A j \in DOMAIN pq' : j > 1 => j \in 2 .. Len(pq')
    BY <1>1
  <2> QED
    BY <2>1 DEF HeapOrdered, Ordered
<1>6. AnswerSound'
  BY DEF AnswerSound
<1> QED
  BY <1>2, <1>3, <1>4, <1>5, <1>6 DEF ManyInv

\* create_pq: the array is filled.
LEMMA HeapStartKeeps ==
  ASSUME ManyInv, HeapStart
  PROVE  ManyInv'
<1>1. /\ method = "or_many_heap" /\ pc' = "build" /\ pq' = Elements(x)
      /\ next' = Len(x) \div 2 + 1 /\ UNCHANGED <<x, method, answer>>
      /\ answer = EmptyBitmap /\ Inputs
  BY DEF HeapStart, ManyInv, Progress
<1> DEFINE n == Len(x)
           h == Elements(x)
<1>2. n \in Nat /\ n >= 2 /\ DOMAIN x = 1 .. n
  BY <1>1 DEF Inputs
<1>3. h = [j \in 1 .. n |-> Element(x[j], FALSE)]
  BY <1>2 DEF Elements
<1>4. ASSUME NEW j \in 1 .. n
      PROVE  h[j] \in QueueElement /\ h[j].bitmap = x[j] /\ LazyBitmap(x[j])
  <2>1. LazyBitmap(x[j])
    BY <1>1, InputIsSound
  <2>2. h[j] = Element(x[j], FALSE)
    BY <1>3
  <2> HIDE DEF h
  <2> QED
    BY <2>1, <2>2, ElementIs
<1> HIDE DEF h
<1>5. h \in Seq(QueueElement) /\ Len(h) = n
  <2>1. h \in [1 .. n -> QueueElement]
    BY <1>3, <1>4
  <2> HIDE DEF n
  <2> QED
    BY <1>2, <2>1
<1>6. SoundQueue(h)
  BY <1>4, <1>5 DEF SoundQueue
<1>7. Together(h) = UnionOf(x)
  <2>1. Together(h) = UNION {ToSet(x[j]) : j \in 1 .. n}
    BY <1>4, <1>5 DEF Together
  <2> QED
    BY <1>2, <2>1 DEF UnionOf
<1>8. next' \in 1 .. n
  BY <1>1, <1>2
<1>9. ASSUME NEW j \in 2 .. n, Parent(j) > next' PROVE FALSE
  <2>1. Parent(j) <= n \div 2
    BY <1>2 DEF Parent
  <2>2. Parent(j) \in Nat /\ n \div 2 \in Nat
    BY <1>2 DEF Parent
  <2> QED
    BY <1>1, <1>9, <2>1, <2>2
<1>10. pq' = h
  BY <1>1 DEF h
<1> QED
  BY <1>1, <1>5, <1>6, <1>7, <1>8, <1>9, <1>10, HeapInvariant

\* create_pq: percolating down orders one more subtree.
LEMMA HeapBuildKeeps ==
  ASSUME ManyInv, HeapBuild
  PROVE  ManyInv'
<1>1. /\ pc = "build" /\ pq' = PercolateDown(pq, next) /\ next' = next - 1
      /\ pc' = (IF next = 1 THEN "lazy" ELSE "build") /\ UNCHANGED <<x, method, answer>>
  BY DEF HeapBuild
<1>2. method = "or_many_heap" /\ next \in 1 .. Len(pq) /\ answer = EmptyBitmap
  BY <1>1 DEF ManyInv, Progress
<1>3. /\ SoundQueue(pq) /\ Together(pq) = UnionOf(x)
      /\ \A j \in 2 .. Len(pq) : Parent(j) > next => Ordered(pq, j)
  BY <1>1, <1>2, QueueOfInvariant
<1>4. pq \in Seq(QueueElement) /\ Len(pq) \in Nat /\ next \in Nat
  BY <1>2, <1>3 DEF SoundQueue
<1> DEFINE g == PercolateDown(pq, next)
<1>5. /\ g \in Seq(QueueElement) /\ Len(g) = Len(pq)
      /\ {g[j] : j \in 1 .. Len(g)} = {pq[j] : j \in 1 .. Len(pq)}
      /\ \A j \in 2 .. Len(g) : Parent(j) >= next => Ordered(g, j)
  <2>1. /\ g \in Seq(QueueElement) /\ Len(g) = Len(pq)
        /\ {g[j] : j \in 1 .. Len(g)} = {pq[j] : j \in 1 .. Len(pq)}
        /\ (\A j \in 2 .. Len(pq) : Parent(j) > next => Ordered(pq, j)) =>
             \A j \in 2 .. Len(g) : Parent(j) >= next => Ordered(g, j)
    BY <1>2, <1>4, QueueIsSized, PercolateDownIs
  <2> HIDE DEF g
  <2> QED
    BY <1>3, <2>1
<1> HIDE DEF g
<1>6. SoundQueue(g) /\ Together(g) = UnionOf(x)
  BY <1>3, <1>5, SameElements
<1>7. \A j \in 2 .. Len(g) : Parent(j) > next - 1 => Ordered(g, j)
  <2>1. ASSUME NEW j \in 2 .. Len(g), Parent(j) > next - 1 PROVE Parent(j) >= next
    <3>1. Parent(j) \in Nat
      BY <1>4, <1>5 DEF Parent
    <3> QED
      BY <1>4, <2>1, <3>1
  <2> QED
    BY <1>5, <2>1
<1>8. /\ pc' \in {"build", "lazy"}
      /\ pc' = "build" => next' \in 1 .. Len(g)
      /\ pc' = "lazy" => next' = 0 /\ Len(g) >= 1
  BY <1>1, <1>2, <1>4, <1>5
<1>9. pq' = g
  BY <1>1 DEF g
<1> QED
  BY <1>1, <1>2, <1>6, <1>7, <1>8, <1>9, HeapInvariant

\* Two bitmaps are taken off the queue and their union goes back.
LEMMA HeapNextKeeps ==
  ASSUME Cardinality(Chunk) < KeyMod, ManyInv, HeapNext
  PROVE  ManyInv'
<1> DEFINE rest == PqRest(pq)
           left == PqRest(rest)
           e == Element(Unite(pq[1], rest[1]), TRUE)
           g == PqAdd(left, e)
<1>1. /\ pc = "lazy" /\ method = "or_many_heap" /\ Len(pq) > 1 /\ pq' = g
      /\ UNCHANGED <<x, method, pc, next, answer>>
  BY DEF HeapNext
<1>2. next = 0 /\ answer = EmptyBitmap
  BY <1>1 DEF ManyInv, Progress
<1>3. /\ SoundQueue(pq) /\ Together(pq) = UnionOf(x)
      /\ \A j \in 2 .. Len(pq) : Parent(j) > next => Ordered(pq, j)
  BY <1>1, QueueOfInvariant
<1>4. Len(pq) \in Nat /\ Len(pq) >= 1
  BY <1>1, <1>3 DEF SoundQueue
<1>5. \A j \in 2 .. Len(pq) : Ordered(pq, j)
  <2>1. ASSUME NEW j \in 2 .. Len(pq) PROVE Parent(j) > 0
    BY <1>4 DEF Parent
  <2> QED
    BY <1>2, <1>3, <2>1
<1>6. /\ SoundQueue(rest) /\ Len(rest) = Len(pq) - 1
      /\ pq[1] \in QueueElement /\ LazyBitmap(pq[1].bitmap)
      /\ Together(pq) = ToSet(pq[1].bitmap) \union Together(rest)
      /\ \A j \in 2 .. Len(rest) : Ordered(rest, j)
  BY <1>3, <1>4, <1>5, RestOfQueue
<1> HIDE DEF rest
<1>7. Len(rest) >= 1 /\ Len(rest) \in Nat
  BY <1>1, <1>4, <1>6
<1>8. /\ SoundQueue(left) /\ Len(left) = Len(rest) - 1
      /\ rest[1] \in QueueElement /\ LazyBitmap(rest[1].bitmap)
      /\ Together(rest) = ToSet(rest[1].bitmap) \union Together(left)
      /\ \A j \in 2 .. Len(left) : Ordered(left, j)
  BY <1>6, <1>7, RestOfQueue
<1> HIDE DEF left
<1>9. /\ e \in QueueElement /\ LazyBitmap(e.bitmap)
      /\ ToSet(e.bitmap) = ToSet(pq[1].bitmap) \union ToSet(rest[1].bitmap)
  <2>1. /\ LazyBitmap(Unite(pq[1], rest[1]))
        /\ ToSet(Unite(pq[1], rest[1])) = ToSet(pq[1].bitmap) \union ToSet(rest[1].bitmap)
    BY <1>6, <1>8, UniteIs
  <2> QED
    BY <2>1, ElementIs
<1> HIDE DEF e
<1>10. /\ SoundQueue(g) /\ Len(g) = Len(left) + 1
       /\ Together(g) = Together(left) \union ToSet(e.bitmap)
       /\ \A j \in 2 .. Len(g) : Ordered(g, j)
  BY <1>8, <1>9, AddedToQueue
<1> HIDE DEF g
<1>11. Together(g) = UnionOf(x) /\ Len(g) >= 1
  BY <1>3, <1>6, <1>7, <1>8, <1>9, <1>10
<1> QED
  BY <1>1, <1>2, <1>10, <1>11, HeapInvariant

-----------------------------------------------------------------------------
(***************************************************************************)
(* The theorems.                                                           *)
(***************************************************************************)

LEMMA FinishKeeps ==
  ASSUME ManyInv, Finish
  PROVE  ManyInv'
<1>1. /\ pc = "lazy" /\ pc' = "done" /\ UNCHANGED <<x, method, next>>
      /\ Inputs /\ Progress /\ Lazies /\ LazyExact
  BY DEF Finish, ManyInv
<1>2. Inputs'
  BY <1>1 DEF Inputs
<1>3. CASE method = "or_many_heap"
  <2>1. Len(pq) = 1 /\ answer' = RepairAfterLazy(pq[1].bitmap) /\ pq' = <<>>
    BY <1>3 DEF Finish
  <2>2. SoundQueue(pq) /\ Together(pq) = UnionOf(x)
    BY <1>1, <1>3, QueueOfInvariant
  <2>3. LazyBitmap(pq[1].bitmap) /\ Together(pq) = ToSet(pq[1].bitmap)
    <3>1. 1 .. Len(pq) = {1}
      BY <2>1
    <3> QED
      BY <2>2, <3>1 DEF SoundQueue, Together
  <2>4. SoundBitmap(answer') /\ ToSet(answer') = UnionOf(x)
    BY <2>1, <2>2, <2>3, RepairIs
  <2>5. LazyBitmap(answer')
    BY <2>4, SoundBitmapIsLazy
  <2>6. Progress'
    BY <1>1, <1>3, <2>1 DEF Progress
  <2>7. Lazies'
    BY <1>1, <1>3, <2>1, <2>5, EmptyQueue DEF Lazies
  <2>8. LazyExact'
    BY <1>1, <1>3 DEF LazyExact
  <2>9. HeapOrdered'
    BY <2>1, EmptyQueue DEF HeapOrdered
  <2>10. AnswerSound'
    BY <1>1, <1>3, <2>4 DEF AnswerSound, SoundBitmap
  <2> QED
    BY <1>2, <2>6, <2>7, <2>8, <2>9, <2>10 DEF ManyInv
<1>4. CASE method # "or_many_heap"
  <2>1. next > Len(x) /\ answer' = RepairAfterLazy(answer) /\ pq' = pq /\ pq = <<>>
    BY <1>1, <1>4 DEF Finish, Progress
  <2>2. next = Len(x) + 1 /\ next - 1 = Len(x) /\ Len(x) \in Nat
    BY <1>1, <1>4, <2>1 DEF Progress, Inputs
  <2>3. SoundBitmap(answer') /\ ToSet(answer') = ToSet(answer)
    BY <1>1, <2>1, RepairIs DEF Lazies
  <2>4. LazyBitmap(answer') /\ CountedBitmap(answer')
    BY <2>3, SoundBitmapIsLazy
  <2>5. /\ method = "or_many"  => ToSet(answer) = UnionOf(SubSeq(x, 1, Len(x)))
        /\ method = "xor_many" => ToSet(answer) = OddIn(Len(x))
    BY <1>1, <2>2 DEF LazyExact, Taken
  <2>6. Progress'
    BY <1>1, <1>4, <2>1, <2>2 DEF Progress
  <2>7. Lazies'
    BY <1>1, <2>1, <2>4, EmptyQueue DEF Lazies, CountedBitmap
  <2>8. LazyExact'
    <3>1. Taken' = Len(x) /\ OddIn(Taken)' = OddIn(Len(x))
      BY <1>1, <2>2 DEF Taken, OddIn
    <3> QED
      BY <1>1, <1>4, <2>3, <2>5, <3>1 DEF LazyExact
  <2>9. HeapOrdered'
    BY <2>1, EmptyQueue DEF HeapOrdered
  <2>10. AnswerSound'
    <3>1. UnionOf(SubSeq(x, 1, Len(x))) = UnionOf(x)
      BY <1>1, UnionOfAll
    <3>2. method \in {"or_many", "xor_many"}
      BY <1>1, <1>4 DEF Progress
    <3>3. ToSet(answer') = IF method = "xor_many" THEN OddIn(Len(x)) ELSE UnionOf(x)
      BY <2>3, <2>5, <3>1, <3>2
    <3>4. OddIn(Len(x))' = OddIn(Len(x))
      BY <1>1 DEF OddIn
    <3> QED
      BY <1>1, <2>3, <3>3, <3>4 DEF AnswerSound, SoundBitmap
  <2> QED
    BY <1>2, <2>6, <2>7, <2>8, <2>9, <2>10 DEF ManyInv
<1> QED
  BY <1>3, <1>4

LEMMA StutterKeeps ==
  ASSUME ManyInv, UNCHANGED vars
  PROVE  ManyInv'
BY DEF ManyInv, vars, Inputs, Progress, Lazies, LazyExact, Taken, OddIn, Queued,
       HeapOrdered, AnswerSound

\* The invariant of the three calls, for any number of bitmaps.  The hypothesis is that
\* no bitmap uses all of the container keys: with all of them the bound of the copied
\* tail wraps around.
THEOREM ManyInvariant ==
  ASSUME Cardinality(Chunk) < KeyMod
  PROVE  Spec => []ManyInv
<1>1. Init => ManyInv
  BY InitMany
<1>2. ManyInv /\ [Next]_vars => ManyInv'
  BY OrManyKeeps, XorManyKeeps, HeapStartKeeps, HeapBuildKeeps, HeapNextKeeps, FinishKeeps,
     StutterKeeps DEF Next
<1> QED
  BY <1>1, <1>2, PTL DEF Spec

\* Between two lazy steps of or_many, xor_many and or_many_heap nothing is lost and
\* nothing added.
THEOREM LazyExactHolds ==
  ASSUME Cardinality(Chunk) < KeyMod
  PROVE  Spec => []LazyExact
<1>1. ManyInv => LazyExact
  BY DEF ManyInv
<1> QED
  BY <1>1, ManyInvariant, PTL

\* No container_lazy_ function derives a cardinality from one that is unknown.
THEOREM NeverMiscountedHolds ==
  ASSUME Cardinality(Chunk) < KeyMod
  PROVE  Spec => []NeverMiscounted
<1>1. ManyInv => NeverMiscounted
  <2> SUFFICES ASSUME ManyInv, NEW b \in {answer} \union Queued, NEW k \in DOMAIN b
               PROVE  CardExact(b[k]) \/ (b[k].type = "bitset" /\ b[k].card = Unknown)
    BY DEF NeverMiscounted
  <2>1. LazyBitmap(b)
    BY DEF ManyInv, Lazies, Queued
  <2>2. Lazy(b[k])
    BY <2>1 DEF LazyBitmap
  <2> QED
    BY <2>2, LazyParts
<1> QED
  BY <1>1, ManyInvariant, PTL

\* What the three calls return is exact and repaired.
THEOREM AnswerSoundHolds ==
  ASSUME Cardinality(Chunk) < KeyMod
  PROVE  Spec => []AnswerSound
<1>1. ManyInv => AnswerSound
  BY DEF ManyInv
<1> QED
  BY <1>1, ManyInvariant, PTL

\* create_pq, pq_add and pq_poll keep the queue a heap.
THEOREM HeapOrderedHolds ==
  ASSUME Cardinality(Chunk) < KeyMod
  PROVE  Spec => []HeapOrdered
<1>1. ManyInv => HeapOrdered
  BY DEF ManyInv
<1> QED
  BY <1>1, ManyInvariant, PTL

=============================================================================
