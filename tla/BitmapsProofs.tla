---------------------------- MODULE BitmapsProofs ---------------------------
(***************************************************************************)
(* Lemmas about containers and bitmaps: what each operation returns, those *)
(* of the library that no command reaches included, and that it keeps the  *)
(* representation invariant, for every chunk size and every threshold that *)
(* the assumptions allow.                                                  *)
(***************************************************************************)
EXTENDS BitmapOps, Recursion

-----------------------------------------------------------------------------
(***************************************************************************)
(* Cardinalities of sets of low halves.                                    *)
(***************************************************************************)

\* Sets of low halves are finite, and only Low itself has ChunkSize elements:
\* a container whose cardinality says that it is full is full.
LEMMA LowSubsets ==
  ASSUME NEW S \in SUBSET Low
  PROVE  /\ IsFiniteSet(S)
         /\ Cardinality(S) \in Nat
         /\ Cardinality(S) <= ChunkSize
         /\ Cardinality(S) = ChunkSize <=> S = Low
<1>1. ChunkSize \in Nat /\ ChunkSize > 0
  BY ContainerAssumption
<1>2. IsFiniteSet(Low) /\ Cardinality(Low) = ChunkSize
  <2>1. /\ IsFiniteSet(0 .. ChunkSize - 1)
        /\ Cardinality(0 .. ChunkSize - 1) =
             IF 0 > ChunkSize - 1 THEN 0 ELSE (ChunkSize - 1) - 0 + 1
    BY <1>1, FS_Interval
  <2> QED
    BY <1>1, <2>1 DEF Low
<1>3. /\ IsFiniteSet(S)
      /\ Cardinality(S) <= Cardinality(Low)
      /\ Cardinality(Low) = Cardinality(S) => Low = S
  BY <1>2, FS_Subset
<1>4. Cardinality(S) \in Nat
  BY <1>3, FS_CardinalityType
<1> QED
  BY <1>2, <1>3, <1>4

\* The number that a bitset counts while it takes in an array is the size of the
\* union, and while it drops one the size of the difference.
LEMMA CountedUnion ==
  ASSUME NEW S \in SUBSET Low, NEW T \in SUBSET Low
  PROVE  /\ S \union T \in SUBSET Low
         /\ Cardinality(S \union T) = Cardinality(S) + Cardinality(T \ S)
         /\ Cardinality(S) <= Cardinality(S \union T)
         /\ Cardinality(S \union T) <= Cardinality(S) + Cardinality(T)
<1>1. T \ S \in SUBSET Low /\ S \union T \in SUBSET Low /\ S \intersect T \in SUBSET Low
  OBVIOUS
<1>2. /\ IsFiniteSet(S) /\ Cardinality(S) \in Nat
      /\ IsFiniteSet(T) /\ Cardinality(T) \in Nat
      /\ IsFiniteSet(T \ S) /\ Cardinality(T \ S) \in Nat
      /\ Cardinality(T \intersect S) \in Nat
      /\ Cardinality(S \union T) \in Nat
  BY <1>1, LowSubsets
<1>3. Cardinality(S \union (T \ S)) =
        Cardinality(S) + Cardinality(T \ S) - Cardinality(S \intersect (T \ S))
  BY <1>2, FS_Union
<1>4. S \union (T \ S) = S \union T /\ S \intersect (T \ S) = {}
  OBVIOUS
<1>5. Cardinality({}) = 0
  BY FS_EmptySet
<1>6. Cardinality(T \ S) = Cardinality(T) - Cardinality(T \intersect S)
  BY <1>2, FS_Difference
<1>7. Cardinality(S \union T) = Cardinality(S) + Cardinality(T \ S) - 0
  BY <1>3, <1>4, <1>5, Zenon
<1> QED
  BY <1>1, <1>2, <1>6, <1>7

LEMMA CountedDifference ==
  ASSUME NEW S \in SUBSET Low, NEW T \in SUBSET Low
  PROVE  /\ S \ T \in SUBSET Low
         /\ Cardinality(S \ T) = Cardinality(S) - Cardinality(S \intersect T)
         /\ Cardinality(S \ T) <= Cardinality(S)
<1>1. S \ T \in SUBSET Low /\ S \intersect T \in SUBSET Low
  OBVIOUS
<1>2. /\ IsFiniteSet(S)
      /\ Cardinality(S) \in Nat
      /\ Cardinality(S \intersect T) \in Nat
  BY <1>1, LowSubsets
<1>3. Cardinality(S \ T) = Cardinality(S) - Cardinality(S \intersect T)
  BY <1>2, FS_Difference
<1> QED
  BY <1>1, <1>2, <1>3

-----------------------------------------------------------------------------
(***************************************************************************)
(* Containers.  Sound is the part of WellFormed that an empty container,   *)
(* which exists between two steps of an operation, satisfies too.          *)
(***************************************************************************)

Sound(c) == c \in Container /\ CardExact(c) /\ TypeFitsCard(c)

LEMMA SoundNonEmpty ==
  ASSUME NEW c, Sound(c)
  PROVE  /\ c.card \in Nat
         /\ c.card > 0 <=> c.vals # {}
         /\ IsFull(c) <=> c.vals = Low
<1>1. c.vals \in SUBSET Low /\ c.card = Cardinality(c.vals)
  BY DEF Sound, Container, CardExact
<1>2. IsFiniteSet(c.vals) /\ Cardinality(c.vals) \in Nat
  BY <1>1, LowSubsets
<1>3. Cardinality(c.vals) = 0 <=> c.vals = {}
  BY <1>2, FS_EmptySet
<1>4. Cardinality(c.vals) = ChunkSize <=> c.vals = Low
  BY <1>1, LowSubsets
<1> QED
  BY <1>1, <1>2, <1>3, <1>4 DEF IsFull

\* Whatever set of low halves a conversion is given with its size, it makes a
\* sound container of it.
LEMMA MadeSound ==
  ASSUME NEW S \in SUBSET Low
  PROVE  /\ Sound(ByCardinality(S, Cardinality(S)))
         /\ ByCardinality(S, Cardinality(S)).vals = S
         /\ ByCardinality(S, Cardinality(S)).type # "run"
         /\ Sound(RunOf(S)) /\ RunOf(S).vals = S
         /\ Sound(EfficientRun(S)) /\ EfficientRun(S).vals = S
         /\ Cardinality(S) <= ArrayMax => Sound(ArrayOf(S, Cardinality(S)))
         /\ Cardinality(S) > ArrayMax => Sound(BitsetOf(S, Cardinality(S)))
<1>1. Cardinality(S) \in Nat /\ ArrayMax \in Nat
  BY LowSubsets, ContainerAssumption
<1>2. /\ Cardinality(S) <= ArrayMax => Sound(ArrayOf(S, Cardinality(S)))
      /\ Cardinality(S) > ArrayMax => Sound(BitsetOf(S, Cardinality(S)))
      /\ Sound(RunOf(S)) /\ RunOf(S).vals = S
  BY <1>1 DEF Sound, Container, ContainerType, ArrayOf, BitsetOf, RunOf, CardExact, TypeFitsCard
<1>3. /\ Sound(ByCardinality(S, Cardinality(S)))
      /\ ByCardinality(S, Cardinality(S)).vals = S
      /\ ByCardinality(S, Cardinality(S)).type # "run"
  BY <1>1, <1>2 DEF ByCardinality, ArrayOf, BitsetOf
<1>4. Sound(EfficientRun(S)) /\ EfficientRun(S).vals = S
  BY <1>2, <1>3 DEF EfficientRun
<1> QED
  BY <1>2, <1>3, <1>4

LEMMA ContainerAddSound ==
  ASSUME NEW c, Sound(c), NEW x \in Low
  PROVE  /\ Sound(ContainerAdd(c, x))
         /\ ContainerAdd(c, x).vals = c.vals \union {x}
         /\ c.type # "run" => ContainerAdd(c, x).type # "run"
<1> DEFINE S == c.vals \union {x}
           n == IF x \in c.vals THEN c.card ELSE c.card + 1
<1>1. c.vals \in SUBSET Low /\ S \in SUBSET Low /\ c.type \in ContainerType
  BY DEF Sound, Container
<1>2. n = Cardinality(S)
  BY <1>1, LowSubsets, FS_AddElement DEF Sound, CardExact
<1>3. c.type = "bitset" => Cardinality(S) > ArrayMax
  <2>1. c.type = "bitset" => c.card > ArrayMax
    BY DEF Sound, TypeFitsCard
  <2>2. c.card \in Nat /\ ArrayMax \in Nat
    BY SoundNonEmpty, ContainerAssumption
  <2> QED
    BY <1>2, <2>1, <2>2
<1> HIDE DEF S, n
<1>4. ContainerAdd(c, x) =
        CASE c.type = "bitset" -> BitsetOf(S, n)
          [] c.type = "array"  -> ByCardinality(S, n)
          [] c.type = "run"    -> RunOf(S)
  BY DEF ContainerAdd, S, n
<1>5. CASE c.type = "bitset"
  BY <1>1, <1>2, <1>3, <1>4, <1>5, MadeSound DEF BitsetOf, S
<1>6. CASE c.type = "array"
  BY <1>1, <1>2, <1>4, <1>6, MadeSound DEF S
<1>7. CASE c.type = "run"
  BY <1>1, <1>4, <1>7, MadeSound DEF S
<1> QED
  BY <1>1, <1>5, <1>6, <1>7 DEF ContainerType

LEMMA ContainerRemoveSound ==
  ASSUME NEW c, Sound(c), NEW x \in Low
  PROVE  /\ Sound(ContainerRemove(c, x))
         /\ ContainerRemove(c, x).vals = c.vals \ {x}
         /\ c.type # "run" => ContainerRemove(c, x).type # "run"
<1> DEFINE S == c.vals \ {x}
           n == c.card - 1
<1>1. c.vals \in SUBSET Low /\ S \in SUBSET Low /\ c.type \in ContainerType
  BY DEF Sound, Container
<1>2. x \in c.vals => n = Cardinality(S)
  BY <1>1, LowSubsets, FS_RemoveElement DEF Sound, CardExact
<1>3. x \in c.vals /\ c.type = "array" => Cardinality(S) <= ArrayMax
  <2>1. c.type = "array" => c.card <= ArrayMax
    BY DEF Sound, TypeFitsCard
  <2>2. c.card \in Nat /\ ArrayMax \in Nat
    BY SoundNonEmpty, ContainerAssumption
  <2> QED
    BY <1>2, <2>1, <2>2
<1>4. x \notin c.vals => S = c.vals
  OBVIOUS
<1> HIDE DEF S, n
<1>5. ContainerRemove(c, x) =
        IF c.type # "run" /\ x \notin c.vals THEN c
        ELSE CASE c.type = "bitset" -> ByCardinality(S, n)
               [] c.type = "array"  -> ArrayOf(S, n)
               [] c.type = "run"    -> RunOf(S)
  BY DEF ContainerRemove, S, n
<1>6. CASE c.type = "run"
  BY <1>1, <1>5, <1>6, MadeSound DEF S
<1>7. CASE c.type # "run" /\ x \notin c.vals
  BY <1>1, <1>4, <1>5, <1>7 DEF S, ContainerType
<1>8. CASE c.type = "bitset" /\ x \in c.vals
  BY <1>1, <1>2, <1>5, <1>8, MadeSound DEF S
<1>9. CASE c.type = "array" /\ x \in c.vals
  BY <1>1, <1>2, <1>3, <1>5, <1>9, MadeSound DEF ArrayOf, S
<1> QED
  BY <1>1, <1>6, <1>7, <1>8, <1>9 DEF ContainerType

LEMMA ArrayUnionSound ==
  ASSUME NEW c1, Sound(c1), NEW c2, Sound(c2)
  PROVE  /\ Sound(ArrayUnion(c1, c2))
         /\ ArrayUnion(c1, c2).vals = c1.vals \union c2.vals
<1> DEFINE S == c1.vals \union c2.vals
<1>1. /\ c1.vals \in SUBSET Low /\ c1.card = Cardinality(c1.vals)
      /\ c2.vals \in SUBSET Low /\ c2.card = Cardinality(c2.vals)
      /\ S \in SUBSET Low
  BY DEF Sound, Container, CardExact
<1>2. /\ Cardinality(S) = c1.card + Cardinality(c2.vals \ c1.vals)
      /\ Cardinality(S) <= c1.card + c2.card
  BY <1>1, CountedUnion
<1>3. Cardinality(S) \in Nat /\ c1.card \in Nat /\ c2.card \in Nat /\ ArrayMax \in Nat
  BY <1>1, LowSubsets, SoundNonEmpty, ContainerAssumption
<1> HIDE DEF S
<1>4. CASE c1.card + c2.card <= ArrayMax
  <2>1. ArrayUnion(c1, c2) = ArrayOf(S, Cardinality(S))
    BY <1>4 DEF ArrayUnion, S
  <2>2. Cardinality(S) <= ArrayMax
    BY <1>2, <1>3, <1>4
  <2>3. ArrayOf(S, Cardinality(S)).vals = S
    BY DEF ArrayOf
  <2> QED
    BY <1>1, <2>1, <2>2, <2>3, MadeSound DEF S
<1>5. CASE ~(c1.card + c2.card <= ArrayMax)
  <2>1. ArrayUnion(c1, c2) = ByCardinality(S, Cardinality(S))
    BY <1>2, <1>5 DEF ArrayUnion, SetList, S
  <2> QED
    BY <1>1, <2>1, MadeSound DEF S
<1> QED
  BY <1>4, <1>5

\* container_ior computes the union of two sound containers for each of the nine
\* pairs of types, and hands back a sound container with an exact cardinality.
LEMMA ContainerIorSound ==
  ASSUME NEW c1, Sound(c1), NEW c2, Sound(c2)
  PROVE  /\ Sound(ContainerIor(c1, c2))
         /\ ContainerIor(c1, c2).vals = c1.vals \union c2.vals
<1> DEFINE S == c1.vals \union c2.vals
           recounted == BitsetOf(S, Cardinality(S))
<1>1. /\ c1.vals \in SUBSET Low /\ c1.card = Cardinality(c1.vals)
      /\ c2.vals \in SUBSET Low /\ c2.card = Cardinality(c2.vals)
      /\ c1.type \in ContainerType /\ c2.type \in ContainerType
      /\ S \in SUBSET Low
  BY DEF Sound, Container, CardExact
<1>2. /\ Cardinality(S) = SetList(c1, c2.vals)
      /\ Cardinality(S) = SetList(c2, c1.vals)
      /\ c1.card <= Cardinality(S) /\ c2.card <= Cardinality(S)
  <2>1. c2.vals \union c1.vals = S
    OBVIOUS
  <2> QED
    BY <1>1, <2>1, CountedUnion DEF SetList
<1>3. Cardinality(S) \in Nat /\ c1.card \in Nat /\ c2.card \in Nat /\ ArrayMax \in Nat
  BY <1>1, LowSubsets, SoundNonEmpty, ContainerAssumption
<1>4. (c1.type = "bitset" \/ c2.type = "bitset") => Cardinality(S) > ArrayMax
  <2>1. /\ c1.type = "bitset" => c1.card > ArrayMax
        /\ c2.type = "bitset" => c2.card > ArrayMax
    BY DEF Sound, TypeFitsCard
  <2> QED
    BY <1>2, <1>3, <2>1
<1>5. Cardinality(S) > ArrayMax => Sound(recounted) /\ recounted.vals = S
  BY <1>1, MadeSound DEF BitsetOf
<1>6. (IsFull(c1) => c1.vals = S) /\ (IsFull(c2) => c2.vals = S)
  BY <1>1, SoundNonEmpty
<1>7. IsFull(recounted) => Sound(RunOf(Low)) /\ RunOf(Low).vals = S
  <2>1. IsFull(recounted) => S = Low
    BY <1>1, LowSubsets DEF IsFull, BitsetOf
  <2> QED
    BY <2>1, MadeSound
<1>8. Sound(EfficientRun(S)) /\ EfficientRun(S).vals = S
  BY <1>1, MadeSound
<1>9. Sound(ArrayUnion(c1, c2)) /\ ArrayUnion(c1, c2).vals = S
  BY ArrayUnionSound
<1> DEFINE r == ContainerIor(c1, c2)
<1> HIDE DEF S
<1>10. CASE c1.type = "bitset" /\ c2.type = "bitset"
  <2>1. r = IF IsFull(recounted) THEN RunOf(Low) ELSE recounted
    BY <1>10 DEF ContainerIor, S
  <2> QED
    BY <1>4, <1>5, <1>7, <1>10, <2>1 DEF S
<1>11. CASE c1.type = "bitset" /\ c2.type = "array"
  <2>1. r = BitsetOf(S, SetList(c1, c2.vals))
    BY <1>11 DEF ContainerIor, S
  <2> QED
    BY <1>2, <1>4, <1>5, <1>11, <2>1 DEF S
<1>12. CASE c1.type = "bitset" /\ c2.type = "run"
  <2>1. r = IF IsFull(c2) THEN c2 ELSE recounted
    BY <1>12 DEF ContainerIor, S
  <2> QED
    BY <1>4, <1>5, <1>6, <1>12, <2>1 DEF S
<1>13. CASE c1.type = "array" /\ c2.type = "bitset"
  <2>1. r = BitsetOf(S, SetList(c2, c1.vals))
    BY <1>13 DEF ContainerIor, S
  <2> QED
    BY <1>2, <1>4, <1>5, <1>13, <2>1 DEF S
<1>14. CASE c1.type = "array" /\ c2.type = "array"
  <2>1. r = ArrayUnion(c1, c2)
    BY <1>14 DEF ContainerIor
  <2> QED
    BY <1>9, <2>1 DEF S
<1>15. CASE c1.type = "run" /\ c2.type = "bitset"
  <2>1. r = IF IsFull(c1) THEN c1 ELSE recounted
    BY <1>15 DEF ContainerIor, S
  <2> QED
    BY <1>4, <1>5, <1>6, <1>15, <2>1 DEF S
<1>16. CASE /\ c1.type # "bitset" /\ c2.type # "bitset"
            /\ c1.type = "run" \/ c2.type = "run"
  <2>1. r = EfficientRun(S)
    BY <1>16 DEF ContainerIor, S
  <2> QED
    BY <1>8, <2>1 DEF S
<1> QED
  BY <1>1, <1>10, <1>11, <1>12, <1>13, <1>14, <1>15, <1>16 DEF ContainerType

\* container_iandnot likewise, for the difference.
LEMMA ContainerIandnotSound ==
  ASSUME NEW c1, Sound(c1), NEW c2, Sound(c2)
  PROVE  /\ Sound(ContainerIandnot(c1, c2))
         /\ ContainerIandnot(c1, c2).vals = c1.vals \ c2.vals
<1> DEFINE S == c1.vals \ c2.vals
           n == Cardinality(S)
<1>1. /\ c1.vals \in SUBSET Low /\ c1.card = Cardinality(c1.vals)
      /\ c2.vals \in SUBSET Low
      /\ c1.type \in ContainerType /\ c2.type \in ContainerType
      /\ S \in SUBSET Low
  BY DEF Sound, Container, CardExact
<1>2. n = ClearList(c1, c2.vals) /\ n <= c1.card
  BY <1>1, CountedDifference DEF ClearList
<1>3. n \in Nat /\ c1.card \in Nat /\ ArrayMax \in Nat
  BY <1>1, LowSubsets, SoundNonEmpty, ContainerAssumption
<1>4. Sound(ByCardinality(S, n)) /\ ByCardinality(S, n).vals = S
  BY <1>1, MadeSound
<1>5. Sound(EfficientRun(S)) /\ EfficientRun(S).vals = S
  BY <1>1, MadeSound
<1> DEFINE r == ContainerIandnot(c1, c2)
<1> HIDE DEF S
<1>6. CASE c1.type = "array"
  <2>1. r = ArrayOf(S, n)
    BY <1>6 DEF ContainerIandnot, S
  <2>2. n <= ArrayMax
    BY <1>2, <1>3, <1>6 DEF Sound, TypeFitsCard
  <2>3. ArrayOf(S, n).vals = S
    BY DEF ArrayOf
  <2> QED
    BY <1>1, <2>1, <2>2, <2>3, MadeSound DEF S
<1>7. CASE c1.type = "bitset"
  <2>1. r = ByCardinality(S, n)
    BY <1>2, <1>7 DEF ContainerIandnot, S
  <2> QED
    BY <1>4, <2>1 DEF S
<1>8. CASE c1.type = "run"
  <2>1. r = ByCardinality(S, n) \/ r = EfficientRun(S)
    BY <1>1, <1>8 DEF ContainerIandnot, ContainerType, S
  <2> QED
    BY <1>4, <1>5, <2>1 DEF S
<1> QED
  BY <1>1, <1>6, <1>7, <1>8 DEF ContainerType

-----------------------------------------------------------------------------
(***************************************************************************)
(* Bitmaps.                                                                *)
(***************************************************************************)

SoundBitmap(b) == IsBitmap(b) /\ WellFormedBitmap(b)

LEMMA SoundContainerAt ==
  ASSUME NEW b, SoundBitmap(b), NEW k \in DOMAIN b
  PROVE  /\ k \in Chunk
         /\ Sound(b[k])
         /\ b[k].vals # {}
         /\ b[k].vals \in SUBSET Low
BY DEF SoundBitmap, IsBitmap, WellFormedBitmap, WellFormed, Sound, Container

LEMMA EmptyBitmapSound ==
  /\ SoundBitmap(EmptyBitmap)
  /\ Canonical(EmptyBitmap)
  /\ DOMAIN EmptyBitmap = {}
  /\ ToSet(EmptyBitmap) = {}
BY DEF EmptyBitmap, SoundBitmap, IsBitmap, WellFormedBitmap, Canonical, ToSet

LEMMA ArrayOfNothing ==
  /\ Sound(ArrayOf({}, 0))
  /\ ArrayOf({}, 0).vals = {}
  /\ ArrayOf({}, 0).type = "array"
<1>1. Cardinality({}) = 0
  BY FS_EmptySet
<1>2. ArrayMax \in Nat
  BY ContainerAssumption
<1> QED
  BY <1>1, <1>2
  DEF ArrayOf, Sound, Container, ContainerType, CardExact, TypeFitsCard

\* Storing a non-empty sound container keeps a bitmap sound.
LEMMA PutSound ==
  ASSUME NEW b, SoundBitmap(b), NEW k \in Chunk, NEW c, Sound(c), c.vals # {}
  PROVE  /\ SoundBitmap(Put(b, k, c))
         /\ DOMAIN Put(b, k, c) = DOMAIN b \union {k}
         /\ Canonical(b) /\ c.type # "run" => Canonical(Put(b, k, c))
         /\ \A v \in Value : v \in ToSet(Put(b, k, c)) <=>
              IF HighBits(v) = k THEN LowBits(v) \in c.vals ELSE v \in ToSet(b)
<1> DEFINE p == Put(b, k, c)
<1>1. /\ DOMAIN p = DOMAIN b \union {k}
      /\ \A j \in DOMAIN p : p[j] = IF j = k THEN c ELSE b[j]
      /\ p = [j \in DOMAIN p |-> p[j]]
  BY DEF Put
<1>2. WellFormed(c) /\ c \in Container
  BY DEF Sound, WellFormed
<1> HIDE DEF p
<1>3. IsBitmap(p)
  BY <1>1, <1>2 DEF SoundBitmap, IsBitmap
<1>4. WellFormedBitmap(p)
  BY <1>1, <1>2 DEF SoundBitmap, WellFormedBitmap
<1>5. Canonical(b) /\ c.type # "run" => Canonical(p)
  BY <1>1, <1>2 DEF Canonical
<1>6. \A v \in Value : v \in ToSet(p) <=>
        IF HighBits(v) = k THEN LowBits(v) \in c.vals ELSE v \in ToSet(b)
  BY <1>1 DEF ToSet
<1> QED
  BY <1>1, <1>3, <1>4, <1>5, <1>6 DEF p, SoundBitmap

LEMMA DropSound ==
  ASSUME NEW b, SoundBitmap(b), NEW K
  PROVE  /\ SoundBitmap(Drop(b, K))
         /\ DOMAIN Drop(b, K) = DOMAIN b \ K
         /\ Canonical(b) => Canonical(Drop(b, K))
         /\ \A v \in Value : v \in ToSet(Drop(b, K)) <=>
              HighBits(v) \notin K /\ v \in ToSet(b)
<1> DEFINE p == Drop(b, K)
<1>1. /\ DOMAIN p = DOMAIN b \ K
      /\ \A j \in DOMAIN p : p[j] = b[j]
      /\ p = [j \in DOMAIN p |-> p[j]]
  BY DEF Drop
<1> HIDE DEF p
<1>2. IsBitmap(p)
  BY <1>1 DEF SoundBitmap, IsBitmap
<1>3. WellFormedBitmap(p) /\ (Canonical(b) => Canonical(p))
  BY <1>1 DEF SoundBitmap, WellFormedBitmap, Canonical
<1>4. \A v \in Value : v \in ToSet(p) <=> HighBits(v) \notin K /\ v \in ToSet(b)
  BY <1>1 DEF ToSet
<1> QED
  BY <1>1, <1>2, <1>3, <1>4 DEF p, SoundBitmap

LEMMA ValueParts ==
  ASSUME NEW v \in Value
  PROVE  /\ HighBits(v) \in Chunk /\ LowBits(v) \in Low
         /\ v = <<HighBits(v), LowBits(v)>>
BY DEF Value, HighBits, LowBits

\* One turn of add_many adds its value, and a bitmap that holds no run container
\* still holds none.
LEMMA BitmapAddSound ==
  ASSUME NEW b, SoundBitmap(b), NEW v \in Value
  PROVE  /\ SoundBitmap(BitmapAdd(b, v))
         /\ Canonical(b) => Canonical(BitmapAdd(b, v))
         /\ HighBits(v) \in DOMAIN BitmapAdd(b, v)
         /\ ToSet(BitmapAdd(b, v)) = ToSet(b) \union {v}
<1> DEFINE k == HighBits(v)
           c == ContainerAdd(ContainerAt(b, k), LowBits(v))
<1>1. k \in Chunk /\ LowBits(v) \in Low /\ v = <<k, LowBits(v)>>
  BY ValueParts
<1>2. /\ Sound(ContainerAt(b, k))
      /\ ContainerAt(b, k).vals = IF k \in DOMAIN b THEN b[k].vals ELSE {}
      /\ Canonical(b) => ContainerAt(b, k).type # "run"
  <2>1. CASE k \in DOMAIN b
    BY <2>1, SoundContainerAt DEF ContainerAt, Canonical
  <2>2. CASE k \notin DOMAIN b
    BY <2>2, ArrayOfNothing DEF ContainerAt
  <2> QED
    BY <2>1, <2>2
<1>3. /\ Sound(c)
      /\ c.vals = ContainerAt(b, k).vals \union {LowBits(v)}
      /\ Canonical(b) => c.type # "run"
  BY <1>1, <1>2, ContainerAddSound
<1>4. BitmapAdd(b, v) = Put(b, k, c)
  BY DEF BitmapAdd
<1> HIDE DEF c
<1>5. /\ SoundBitmap(Put(b, k, c))
      /\ DOMAIN Put(b, k, c) = DOMAIN b \union {k}
      /\ Canonical(b) /\ c.type # "run" => Canonical(Put(b, k, c))
      /\ \A w \in Value : w \in ToSet(Put(b, k, c)) <=>
            IF HighBits(w) = k THEN LowBits(w) \in c.vals ELSE w \in ToSet(b)
  BY <1>1, <1>3, PutSound
<1> HIDE DEF k
<1>6. ToSet(BitmapAdd(b, v)) = ToSet(b) \union {v}
  <2>1. \A w \in Value : w \in ToSet(BitmapAdd(b, v)) <=> w \in ToSet(b) \union {v}
    <3> SUFFICES ASSUME NEW w \in Value
                 PROVE  w \in ToSet(BitmapAdd(b, v)) <=> w \in ToSet(b) \union {v}
      OBVIOUS
    <3>1. w = <<HighBits(w), LowBits(w)>>
      BY ValueParts
    <3>2. CASE HighBits(w) = k
      <4>1. w \in ToSet(b) <=> k \in DOMAIN b /\ LowBits(w) \in b[k].vals
        BY <3>2 DEF ToSet
      <4>2. w = v <=> LowBits(w) = LowBits(v)
        BY <1>1, <3>1, <3>2
      <4>3. w \in ToSet(BitmapAdd(b, v)) <=> LowBits(w) \in c.vals
        BY <1>4, <1>5, <3>2
      <4> QED
        BY <1>2, <1>3, <4>1, <4>2, <4>3
    <3>3. CASE HighBits(w) # k
      <4>1. w # v
        BY <3>3 DEF k
      <4> QED
        BY <1>4, <1>5, <3>3, <4>1
    <3> QED
      BY <3>2, <3>3
  <2> QED
    BY <2>1 DEF ToSet
<1> QED
  BY <1>3, <1>4, <1>5, <1>6 DEF k

\* remove takes its value away, converts what has become small, and drops a
\* container that has become empty.
LEMMA BitmapRemoveSound ==
  ASSUME NEW b, SoundBitmap(b), NEW v \in Value
  PROVE  /\ SoundBitmap(BitmapRemove(b, v))
         /\ Canonical(b) => Canonical(BitmapRemove(b, v))
         /\ ToSet(BitmapRemove(b, v)) = ToSet(b) \ {v}
<1> DEFINE k == HighBits(v)
           c == ContainerRemove(b[k], LowBits(v))
           r == BitmapRemove(b, v)
<1>1. k \in Chunk /\ LowBits(v) \in Low /\ v = <<k, LowBits(v)>>
  BY ValueParts
<1>2. CASE k \notin DOMAIN b
  <2>1. r = b /\ v \notin ToSet(b)
    BY <1>2 DEF BitmapRemove, ToSet
  <2> QED
    BY <2>1
<1>3. CASE k \in DOMAIN b
  <2>1. Sound(b[k]) /\ (Canonical(b) => b[k].type # "run")
    BY <1>3, SoundContainerAt DEF Canonical
  <2>2. /\ Sound(c)
        /\ c.vals = b[k].vals \ {LowBits(v)}
        /\ Canonical(b) => c.type # "run"
    BY <1>1, <2>1, ContainerRemoveSound
  <2>3. NonZero(c) <=> c.vals # {}
    BY <2>2, SoundNonEmpty DEF NonZero
  <2>4. r = IF NonZero(c) THEN Put(b, k, c) ELSE Drop(b, {k})
    BY <1>3 DEF BitmapRemove
  <2> HIDE DEF c, r
  <2>5. /\ SoundBitmap(r)
        /\ Canonical(b) => Canonical(r)
        /\ \A w \in Value : w \in ToSet(r) <=>
              IF HighBits(w) = k THEN LowBits(w) \in c.vals ELSE w \in ToSet(b)
    <3>1. CASE c.vals # {}
      BY <1>1, <2>2, <2>3, <2>4, <3>1, PutSound
    <3>2. CASE c.vals = {}
      BY <2>3, <2>4, <3>2, DropSound
    <3> QED
      BY <3>1, <3>2
  <2> HIDE DEF k
  <2>6. \A w \in Value : w \in ToSet(r) <=> w \in ToSet(b) \ {v}
    <3> SUFFICES ASSUME NEW w \in Value
                 PROVE  w \in ToSet(r) <=> w \in ToSet(b) \ {v}
      OBVIOUS
    <3>1. w = <<HighBits(w), LowBits(w)>>
      BY ValueParts
    <3>2. CASE HighBits(w) = k
      <4>1. w \in ToSet(b) <=> LowBits(w) \in b[k].vals
        BY <1>3, <3>2 DEF ToSet
      <4>2. w = v <=> LowBits(w) = LowBits(v)
        BY <1>1, <3>1, <3>2
      <4> QED
        BY <2>2, <2>5, <3>2, <4>1, <4>2
    <3>3. CASE HighBits(w) # k
      <4>1. w # v
        BY <3>3 DEF k
      <4> QED
        BY <2>5, <3>3, <4>1
    <3> QED
      BY <3>2, <3>3
  <2>7. ToSet(r) = ToSet(b) \ {v}
    BY <2>6 DEF ToSet
  <2> QED
    BY <2>5, <2>7 DEF r
<1> QED
  BY <1>2, <1>3

-----------------------------------------------------------------------------
(***************************************************************************)
(* Unions and differences in place.                                        *)
(***************************************************************************)

LEMMA OrAtSound ==
  ASSUME NEW x1, SoundBitmap(x1), NEW x2, SoundBitmap(x2),
         NEW k \in DOMAIN x1 \union DOMAIN x2
  PROVE  /\ Sound(OrAt(x1, x2, k))
         /\ OrAt(x1, x2, k).vals # {}
         /\ OrAt(x1, x2, k).vals =
              (IF k \in DOMAIN x1 THEN x1[k].vals ELSE {})
                \union (IF k \in DOMAIN x2 THEN x2[k].vals ELSE {})
<1>1. CASE k \notin DOMAIN x2
  <2>1. k \in DOMAIN x1 /\ OrAt(x1, x2, k) = x1[k]
    BY <1>1 DEF OrAt
  <2> QED
    BY <1>1, <2>1, SoundContainerAt
<1>2. CASE k \notin DOMAIN x1
  <2>1. k \in DOMAIN x2 /\ OrAt(x1, x2, k) = x2[k]
    BY <1>2 DEF OrAt
  <2> QED
    BY <1>2, <2>1, SoundContainerAt
<1>3. CASE k \in DOMAIN x1 /\ k \in DOMAIN x2
  <2>1. /\ Sound(x1[k]) /\ x1[k].vals # {} /\ x1[k].vals \in SUBSET Low
        /\ Sound(x2[k]) /\ x2[k].vals \in SUBSET Low
    BY <1>3, SoundContainerAt
  <2>2. OrAt(x1, x2, k) = IF IsFull(x1[k]) THEN x1[k] ELSE ContainerIor(x1[k], x2[k])
    BY <1>3 DEF OrAt
  <2>3. /\ Sound(ContainerIor(x1[k], x2[k]))
        /\ ContainerIor(x1[k], x2[k]).vals = x1[k].vals \union x2[k].vals
    BY <2>1, ContainerIorSound
  <2>4. IsFull(x1[k]) => x1[k].vals = x1[k].vals \union x2[k].vals
    BY <2>1, SoundNonEmpty
  <2> QED
    BY <1>3, <2>1, <2>2, <2>3, <2>4
<1> QED
  BY <1>1, <1>2, <1>3

LEMMA OrInplaceSound ==
  ASSUME NEW x1, SoundBitmap(x1), NEW x2, SoundBitmap(x2)
  PROVE  SoundBitmap(OrInplace(x1, x2))
<1> DEFINE r == OrInplace(x1, x2)
<1>1. CASE DOMAIN x2 = {} \/ DOMAIN x1 = {}
  BY <1>1 DEF OrInplace
<1>2. CASE DOMAIN x2 # {} /\ DOMAIN x1 # {}
  <2>1. PICK D \in SUBSET (DOMAIN x1 \union DOMAIN x2) : r = [k \in D |-> OrAt(x1, x2, k)]
    BY <1>2 DEF OrInplace, AppendCopyRange, Beyond
  <2>2. \A k \in D : Sound(r[k]) /\ r[k].vals # {}
    BY <2>1, OrAtSound
  <2>3. DOMAIN r = D /\ D \subseteq Chunk
    BY <2>1 DEF SoundBitmap, IsBitmap
  <2>4. \A k \in D : r[k] \in Container /\ WellFormed(r[k])
    BY <2>2 DEF Sound, WellFormed
  <2> QED
    BY <2>1, <2>3, <2>4 DEF SoundBitmap, IsBitmap, WellFormedBitmap
<1> QED
  BY <1>1, <1>2

\* As long as some container key stays unused, the bounds of the copy do not wrap
\* around, and the union is exact: this is the condition that CARD needs.
LEMMA OrInplaceUnion ==
  ASSUME NEW x1, SoundBitmap(x1), NEW x2, SoundBitmap(x2),
         Cardinality(Chunk) < KeyMod
  PROVE  ToSet(OrInplace(x1, x2)) = ToSet(x1) \union ToSet(x2)
<1> DEFINE r == OrInplace(x1, x2)
<1>1. CASE DOMAIN x2 = {} \/ DOMAIN x1 = {}
  BY <1>1 DEF OrInplace, ToSet
<1>2. CASE DOMAIN x2 # {} /\ DOMAIN x1 # {}
  <2>1. Cardinality(DOMAIN x2) % KeyMod # 0
    <3>1. DOMAIN x2 \in SUBSET Chunk /\ IsFiniteSet(Chunk)
      BY BitmapAssumption DEF SoundBitmap, IsBitmap
    <3>2. IsFiniteSet(DOMAIN x2) /\ Cardinality(DOMAIN x2) <= Cardinality(Chunk)
      BY <3>1, FS_Subset
    <3>3. Cardinality(DOMAIN x2) \in Nat /\ Cardinality(Chunk) \in Nat
      BY <3>1, <3>2, FS_CardinalityType
    <3>4. Cardinality(DOMAIN x2) # 0
      BY <1>2, <3>2, FS_EmptySet
    <3>5. \A n \in Nat : n < KeyMod => n % KeyMod = n
      BY BitmapAssumption
    <3> QED
      BY <3>2, <3>3, <3>4, <3>5, BitmapAssumption
  <2>2. r = [k \in DOMAIN x1 \union DOMAIN x2 |-> OrAt(x1, x2, k)]
    <3>1. (DOMAIN x1 \union (DOMAIN x2 \ Beyond(x1, x2))) \union Beyond(x1, x2)
             = DOMAIN x1 \union DOMAIN x2
      BY DEF Beyond
    <3>2. AppendCopyRange(x1, x2) = Beyond(x1, x2)
      BY <2>1 DEF AppendCopyRange
    <3> QED
      BY <1>2, <3>1, <3>2 DEF OrInplace
  <2>3. \A v \in Value : v \in ToSet(r) <=> v \in ToSet(x1) \union ToSet(x2)
    <3> SUFFICES ASSUME NEW v \in Value
                 PROVE  v \in ToSet(r) <=> v \in ToSet(x1) \union ToSet(x2)
      OBVIOUS
    <3> DEFINE k == HighBits(v)
    <3> HIDE DEF r
    <3>1. v \in ToSet(r) <=> k \in DOMAIN r /\ LowBits(v) \in r[k].vals
      BY DEF ToSet
    <3>2. /\ v \in ToSet(x1) <=> k \in DOMAIN x1 /\ LowBits(v) \in x1[k].vals
          /\ v \in ToSet(x2) <=> k \in DOMAIN x2 /\ LowBits(v) \in x2[k].vals
      BY DEF ToSet
    <3> HIDE DEF k
    <3>3. CASE k \in DOMAIN x1 \union DOMAIN x2
      <4>1. r[k] = OrAt(x1, x2, k) /\ k \in DOMAIN r
        BY <2>2, <3>3
      <4>2. r[k].vals = (IF k \in DOMAIN x1 THEN x1[k].vals ELSE {})
                          \union (IF k \in DOMAIN x2 THEN x2[k].vals ELSE {})
        BY <3>3, <4>1, OrAtSound
      <4> QED
        BY <3>1, <3>2, <4>1, <4>2
    <3>4. CASE k \notin DOMAIN x1 \union DOMAIN x2
      BY <2>2, <3>1, <3>2, <3>4
    <3> QED
      BY <3>3, <3>4
  <2> QED
    BY <2>3 DEF ToSet
<1> QED
  BY <1>1, <1>2

LEMMA AndNotAtSound ==
  ASSUME NEW x1, SoundBitmap(x1), NEW x2, SoundBitmap(x2), NEW k \in DOMAIN x1
  PROVE  /\ Sound(AndNotAt(x1, x2, k))
         /\ k \notin DOMAIN x2 => AndNotAt(x1, x2, k).vals # {}
         /\ AndNotAt(x1, x2, k).vals =
              x1[k].vals \ (IF k \in DOMAIN x2 THEN x2[k].vals ELSE {})
<1>1. CASE k \notin DOMAIN x2
  BY <1>1, SoundContainerAt DEF AndNotAt
<1>2. CASE k \in DOMAIN x2
  <2>1. Sound(x1[k]) /\ Sound(x2[k])
    BY <1>2, SoundContainerAt
  <2>2. AndNotAt(x1, x2, k) = ContainerIandnot(x1[k], x2[k])
    BY <1>2 DEF AndNotAt
  <2> QED
    BY <1>2, <2>1, <2>2, ContainerIandnotSound
<1> QED
  BY <1>1, <1>2

\* andnot_inplace takes away exactly the values of its second argument and leaves
\* no empty container behind.
LEMMA AndNotInplaceSound ==
  ASSUME NEW x1, SoundBitmap(x1), NEW x2, SoundBitmap(x2)
  PROVE  /\ SoundBitmap(AndNotInplace(x1, x2))
         /\ ToSet(AndNotInplace(x1, x2)) = ToSet(x1) \ ToSet(x2)
<1> DEFINE kept == {k \in DOMAIN x1 : k \in DOMAIN x2 => NonZero(AndNotAt(x1, x2, k))}
           r == AndNotInplace(x1, x2)
<1>1. r = [k \in kept |-> AndNotAt(x1, x2, k)]
  BY DEF AndNotInplace
<1>2. \A k \in DOMAIN x1 : k \in kept <=> AndNotAt(x1, x2, k).vals # {}
  BY AndNotAtSound, SoundNonEmpty DEF NonZero
<1>3. kept \subseteq DOMAIN x1
  OBVIOUS
<1> HIDE DEF kept, r
<1>4. \A k \in kept : r[k] \in Container /\ WellFormed(r[k])
  BY <1>1, <1>2, <1>3, AndNotAtSound DEF Sound, WellFormed
<1>5. SoundBitmap(r)
  <2>1. DOMAIN r = kept /\ kept \subseteq Chunk
    BY <1>1, <1>3 DEF SoundBitmap, IsBitmap
  <2> QED
    BY <1>1, <1>4, <2>1 DEF SoundBitmap, IsBitmap, WellFormedBitmap
<1>6. \A v \in Value : v \in ToSet(r) <=> v \in ToSet(x1) \ ToSet(x2)
  <2> SUFFICES ASSUME NEW v \in Value
               PROVE  v \in ToSet(r) <=> v \in ToSet(x1) \ ToSet(x2)
    OBVIOUS
  <2> DEFINE k == HighBits(v)
  <2>1. /\ v \in ToSet(r)  <=> k \in DOMAIN r  /\ LowBits(v) \in r[k].vals
        /\ v \in ToSet(x1) <=> k \in DOMAIN x1 /\ LowBits(v) \in x1[k].vals
        /\ v \in ToSet(x2) <=> k \in DOMAIN x2 /\ LowBits(v) \in x2[k].vals
    BY DEF ToSet
  <2> HIDE DEF k
  <2>2. CASE k \in DOMAIN x1
    <3>1. AndNotAt(x1, x2, k).vals =
            x1[k].vals \ (IF k \in DOMAIN x2 THEN x2[k].vals ELSE {})
      BY <2>2, AndNotAtSound
    <3>2. DOMAIN r = kept /\ (k \in kept => r[k] = AndNotAt(x1, x2, k))
      BY <1>1
    <3> QED
      BY <1>2, <2>1, <2>2, <3>1, <3>2
  <2>3. CASE k \notin DOMAIN x1
    BY <1>1, <1>3, <2>1, <2>3
  <2> QED
    BY <2>2, <2>3
<1>7. ToSet(r) = ToSet(x1) \ ToSet(x2)
  BY <1>6 DEF ToSet
<1> QED
  BY <1>5, <1>7 DEF r

-----------------------------------------------------------------------------
(***************************************************************************)
(* The iterator.                                                           *)
(***************************************************************************)

LEMMA LeastIsMinimum ==
  ASSUME NEW T \in SUBSET Nat, T # {}
  PROVE  Least(T) \in T /\ \A y \in T : Least(T) <= y
BY NatMinimum, Zenon DEF Least

LEMMA KeysAreNat ==
  /\ Chunk \in SUBSET Nat
  /\ Low \in SUBSET Nat
<1>1. Chunk \subseteq 0 .. KeyMod - 1
  BY BitmapAssumption
<1> QED
  BY <1>1 DEF Low

LEMMA ToSetMember ==
  ASSUME NEW b, SoundBitmap(b), NEW k \in DOMAIN b, NEW x \in b[k].vals
  PROVE  <<k, x>> \in ToSet(b) /\ HighBits(<<k, x>>) = k /\ LowBits(<<k, x>>) = x
<1>1. k \in Chunk /\ x \in Low
  BY SoundContainerAt
<1> QED
  BY <1>1 DEF ToSet, Value, HighBits, LowBits

LEMMA ToSetParts ==
  ASSUME NEW b, SoundBitmap(b), NEW v \in ToSet(b)
  PROVE  /\ v \in Value /\ v = <<HighBits(v), LowBits(v)>>
         /\ HighBits(v) \in DOMAIN b /\ LowBits(v) \in b[HighBits(v)].vals
         /\ HighBits(v) \in Nat /\ LowBits(v) \in Nat
<1>1. v \in Value /\ HighBits(v) \in DOMAIN b /\ LowBits(v) \in b[HighBits(v)].vals
  BY DEF ToSet
<1> QED
  BY <1>1, ValueParts, KeysAreNat

\* loadfirstvalue stops at the least value whose key is not below lo.
LEMMA LoadFirstLeast ==
  ASSUME NEW b, SoundBitmap(b), NEW lo \in Nat
  PROVE  LET r == LoadFirst(b, lo)
         IN  IF \E k \in DOMAIN b : k >= lo
             THEN /\ r \in ToSet(b) /\ HighBits(r) >= lo
                  /\ \A w \in ToSet(b) : HighBits(w) >= lo => w = r \/ Precedes(r, w)
             ELSE r = <<>>
<1> DEFINE rest == {k \in DOMAIN b : k >= lo}
<1>1. CASE ~ \E k \in DOMAIN b : k >= lo
  BY <1>1 DEF LoadFirst
<1>2. CASE \E k \in DOMAIN b : k >= lo
  <2> DEFINE k == Least(rest)
             x == Least(b[k].vals)
  <2>1. rest # {} /\ rest \in SUBSET Nat
    BY <1>2, KeysAreNat DEF SoundBitmap, IsBitmap
  <2> HIDE DEF rest
  <2>2. k \in rest /\ \A j \in rest : k <= j
    BY <2>1, LeastIsMinimum
  <2>3. k \in DOMAIN b /\ k >= lo
    BY <2>2 DEF rest
  <2> HIDE DEF k
  <2>4. b[k].vals # {} /\ b[k].vals \in SUBSET Nat
    BY <2>3, SoundContainerAt, KeysAreNat
  <2>5. x \in b[k].vals /\ \A y \in b[k].vals : x <= y
    BY <2>4, LeastIsMinimum
  <2>6. LoadFirst(b, lo) = <<k, x>>
    BY <2>1 DEF LoadFirst, rest, k
  <2> HIDE DEF x
  <2>7. /\ <<k, x>> \in ToSet(b)
        /\ HighBits(<<k, x>>) = k /\ LowBits(<<k, x>>) = x
    BY <2>3, <2>5, ToSetMember
  <2>8. \A w \in ToSet(b) : HighBits(w) >= lo => w = <<k, x>> \/ Precedes(<<k, x>>, w)
    <3> SUFFICES ASSUME NEW w \in ToSet(b), HighBits(w) >= lo
                 PROVE  w = <<k, x>> \/ Precedes(<<k, x>>, w)
      OBVIOUS
    <3>1. /\ w = <<HighBits(w), LowBits(w)>>
          /\ HighBits(w) \in DOMAIN b /\ LowBits(w) \in b[HighBits(w)].vals
          /\ HighBits(w) \in Nat /\ LowBits(w) \in Nat
      BY ToSetParts
    <3>2. k <= HighBits(w) /\ (HighBits(w) = k => x <= LowBits(w))
      BY <2>2, <2>5, <3>1 DEF rest
    <3>3. k \in Nat /\ x \in Nat
      BY <2>1, <2>2, <2>4, <2>5
    <3> QED
      BY <2>7, <3>1, <3>2, <3>3 DEF Precedes
  <2> QED
    BY <1>2, <2>3, <2>6, <2>7, <2>8
<1> QED
  BY <1>1, <1>2

\* From any value of the bitmap the iterator moves to the next one, within the
\* container or in the one that follows, and stops after the last.
LEMMA AdvanceIteratorNext ==
  ASSUME NEW b, SoundBitmap(b), NEW v \in ToSet(b)
  PROVE  LET r == AdvanceIterator(b, v)
         IN  IF \E w \in ToSet(b) : Precedes(v, w)
             THEN /\ r \in ToSet(b) /\ Precedes(v, r)
                  /\ \A w \in ToSet(b) : Precedes(v, w) => w = r \/ Precedes(r, w)
             ELSE r = <<>>
<1> DEFINE k == HighBits(v)
           later == {x \in b[k].vals : x > LowBits(v)}
           r == AdvanceIterator(b, v)
<1>1. /\ k \in DOMAIN b /\ k \in Nat /\ LowBits(v) \in Nat
      /\ b[k].vals \in SUBSET Nat /\ LowBits(v) \in b[k].vals
  BY ToSetParts, SoundContainerAt, KeysAreNat
<1>2. r = IF later # {} THEN <<k, Least(later)>> ELSE LoadFirst(b, k + 1)
  BY DEF AdvanceIterator
<1>3. \A w \in ToSet(b) :
        /\ w = <<HighBits(w), LowBits(w)>>
        /\ HighBits(w) \in DOMAIN b /\ LowBits(w) \in b[HighBits(w)].vals
        /\ HighBits(w) \in Nat /\ LowBits(w) \in Nat
  BY ToSetParts
<1>4. \A w \in ToSet(b) : Precedes(v, w) <=>
        k < HighBits(w) \/ (HighBits(w) = k /\ LowBits(w) \in later)
  BY <1>1, <1>3 DEF Precedes
<1> HIDE DEF k, r
<1>5. CASE later # {}
  <2> DEFINE x == Least(later)
  <2>1. x \in later /\ \A y \in later : x <= y
    <3>1. later \in SUBSET Nat
      BY <1>1
    <3> QED
      BY <1>5, <3>1, LeastIsMinimum
  <2> HIDE DEF x
  <2>2. x \in b[k].vals /\ x \in Nat
    BY <1>1, <2>1
  <2>3. /\ <<k, x>> \in ToSet(b)
        /\ HighBits(<<k, x>>) = k /\ LowBits(<<k, x>>) = x
    BY <1>1, <2>2, ToSetMember
  <2>4. Precedes(v, <<k, x>>)
    BY <1>4, <2>1, <2>3
  <2>5. \A w \in ToSet(b) : Precedes(v, w) => w = <<k, x>> \/ Precedes(<<k, x>>, w)
    <3> SUFFICES ASSUME NEW w \in ToSet(b), Precedes(v, w)
                 PROVE  w = <<k, x>> \/ Precedes(<<k, x>>, w)
      OBVIOUS
    <3>1. CASE k < HighBits(w)
      BY <2>3, <3>1 DEF Precedes
    <3>2. CASE HighBits(w) = k /\ LowBits(w) \in later
      <4>1. x <= LowBits(w) /\ LowBits(w) \in Nat /\ w = <<k, LowBits(w)>>
        BY <1>3, <2>1, <3>2
      <4> QED
        BY <2>2, <2>3, <3>2, <4>1 DEF Precedes
    <3> QED
      BY <1>4, <3>1, <3>2
  <2>6. r = <<k, x>>
    BY <1>2, <1>5 DEF x
  <2> QED
    BY <2>3, <2>4, <2>5, <2>6 DEF r
<1>6. CASE later = {}
  <2>1. k + 1 \in Nat
    BY <1>1
  <2>2. \A w \in ToSet(b) : Precedes(v, w) <=> HighBits(w) >= k + 1
    BY <1>1, <1>3, <1>4, <1>6
  <2>3. (\E w \in ToSet(b) : Precedes(v, w)) <=> \E j \in DOMAIN b : j >= k + 1
    <3>1. ASSUME NEW j \in DOMAIN b, j >= k + 1
          PROVE  \E w \in ToSet(b) : Precedes(v, w)
      <4>1. PICK x \in b[j].vals : TRUE
        BY SoundContainerAt
      <4> QED
        BY <2>2, <3>1, <4>1, ToSetMember
    <3>2. ASSUME NEW w \in ToSet(b), Precedes(v, w)
          PROVE  \E j \in DOMAIN b : j >= k + 1
      BY <1>3, <2>2, <3>2
    <3> QED
      BY <3>1, <3>2
  <2>4. r = LoadFirst(b, k + 1)
    BY <1>2, <1>6
  <2>5. IF \E j \in DOMAIN b : j >= k + 1
        THEN /\ r \in ToSet(b) /\ HighBits(r) >= k + 1
             /\ \A w \in ToSet(b) : HighBits(w) >= k + 1 => w = r \/ Precedes(r, w)
        ELSE r = <<>>
    BY <2>1, <2>4, LoadFirstLeast
  <2> QED
    BY <2>2, <2>3, <2>5 DEF r
<1> QED
  BY <1>5, <1>6

-----------------------------------------------------------------------------
(***************************************************************************)
(* Counting.                                                               *)
(***************************************************************************)

LEMMA ToSetFinite ==
  ASSUME NEW b, NEW T \in SUBSET ToSet(b)
  PROVE  IsFiniteSet(T) /\ Cardinality(T) \in Nat
<1>1. IsFiniteSet(Chunk) /\ IsFiniteSet(Low)
  BY BitmapAssumption, LowSubsets
<1>2. IsFiniteSet(Value)
  BY <1>1, FS_Product DEF Value
<1>3. T \in SUBSET Value
  BY DEF ToSet
<1> QED
  BY <1>2, <1>3, FS_Subset, FS_CardinalityType

\* The values that one container contributes are as many as it says.
LEMMA LayerCardinality ==
  ASSUME NEW b, SoundBitmap(b), NEW k \in DOMAIN b
  PROVE  Cardinality({v \in ToSet(b) : HighBits(v) = k}) = b[k].card
<1> DEFINE L == {v \in ToSet(b) : HighBits(v) = k}
           S == b[k].vals
           f == [x \in S |-> <<k, x>>]
<1>1. IsFiniteSet(S) /\ b[k].card = Cardinality(S)
  BY SoundContainerAt, LowSubsets DEF Sound, CardExact
<1>2. \A x \in S : <<k, x>> \in L
  BY ToSetMember
<1>3. \A v \in L : LowBits(v) \in S /\ v = <<k, LowBits(v)>>
  BY ToSetParts
<1> HIDE DEF L, S
<1>4. f \in [S -> L] /\ \A x \in S : f[x] = <<k, x>>
  BY <1>2
<1>5. f \in Injection(S, L)
  BY <1>4 DEF Injection, IsInjective
<1>6. f \in Surjection(S, L)
  BY <1>3, <1>4 DEF Surjection
<1>7. ExistsBijection(S, L)
  BY <1>5, <1>6 DEF ExistsBijection, Bijection
<1>8. Cardinality(L) = Cardinality(S)
  BY <1>1, <1>7, FS_Bijection
<1> QED
  BY <1>1, <1>8 DEF L, S

\* The values of the containers outside a set of keys K.
CountedOutside(b, K) == {v \in ToSet(b) : HighBits(v) \notin K}

LEMMA CountedGrows ==
  ASSUME NEW b, SoundBitmap(b), NEW K \in SUBSET DOMAIN b, NEW k \in K
  PROVE  /\ Cardinality(CountedOutside(b, K \ {k})) = Cardinality(CountedOutside(b, K)) + b[k].card
         /\ Cardinality(CountedOutside(b, K)) \in Nat
<1> DEFINE L == {v \in ToSet(b) : HighBits(v) = k}
<1>1. CountedOutside(b, K \ {k}) = CountedOutside(b, K) \union L /\ CountedOutside(b, K) \intersect L = {}
  BY DEF CountedOutside
<1>2. /\ IsFiniteSet(L) /\ Cardinality(L) \in Nat
      /\ IsFiniteSet(CountedOutside(b, K)) /\ Cardinality(CountedOutside(b, K)) \in Nat
  <2>1. L \in SUBSET ToSet(b) /\ CountedOutside(b, K) \in SUBSET ToSet(b)
    BY DEF CountedOutside
  <2> QED
    BY <2>1, ToSetFinite
<1>3. Cardinality(L) = b[k].card
  BY LayerCardinality
<1> HIDE DEF L
<1>4. Cardinality(CountedOutside(b, K) \union L) =
        Cardinality(CountedOutside(b, K)) + Cardinality(L) - Cardinality(CountedOutside(b, K) \intersect L)
  BY <1>2, FS_Union
<1>5. Cardinality(CountedOutside(b, K) \intersect L) = 0
  BY <1>1, FS_EmptySet
<1>6. Cardinality(CountedOutside(b, K \ {k})) = Cardinality(CountedOutside(b, K)) + Cardinality(L) - 0
  BY <1>1, <1>4, <1>5, Zenon
<1> QED
  BY <1>2, <1>3, <1>6

LEMMA CountedEnds ==
  ASSUME NEW b, SoundBitmap(b)
  PROVE  /\ Cardinality(CountedOutside(b, DOMAIN b)) = 0
         /\ CountedOutside(b, {}) = ToSet(b)
<1>1. CountedOutside(b, DOMAIN b) = {} /\ CountedOutside(b, {}) = ToSet(b)
  BY DEF CountedOutside, ToSet
<1> QED
  BY <1>1, FS_EmptySet


-----------------------------------------------------------------------------
(***************************************************************************)
(* Containers, pair of types by pair of types.                             *)
(***************************************************************************)

\* What a sound container is, in the parts that the lemmas use.
LEMMA SoundParts ==
  ASSUME NEW c, Sound(c)
  PROVE  /\ c.vals \in SUBSET Low /\ c.card = Cardinality(c.vals) /\ c.card \in Nat
         /\ c.type \in {"bitset", "array", "run"}
         /\ c.type = "array" => c.card <= ArrayMax
         /\ c.type = "bitset" => c.card > ArrayMax
         /\ ArrayMax \in Nat
<1>1. c.card \in Nat /\ ArrayMax \in Nat
  BY SoundNonEmpty, ContainerAssumption
<1> QED
  BY <1>1 DEF Sound, Container, ContainerType, CardExact, TypeFitsCard

LEMMA CountedSound ==
  ASSUME NEW S \in SUBSET Low
  PROVE  Sound(Counted(S)) /\ Counted(S).vals = S
BY MadeSound DEF Counted

\* A part of a sound array fits an array.
LEMMA SmallArraySound ==
  ASSUME NEW S \in SUBSET Low, Cardinality(S) <= ArrayMax
  PROVE  Sound(ArrayOf(S, Cardinality(S))) /\ ArrayOf(S, Cardinality(S)).vals = S
BY MadeSound DEF ArrayOf

\* container_and makes the intersection of two sound containers, of any types.
LEMMA ContainerAndSound ==
  ASSUME NEW c1, Sound(c1), NEW c2, Sound(c2)
  PROVE  /\ Sound(ContainerAnd(c1, c2))
         /\ ContainerAnd(c1, c2).vals = c1.vals \intersect c2.vals
<1> DEFINE S == c1.vals \intersect c2.vals
           n == Cardinality(S)
<1>1. S \in SUBSET Low
  BY SoundParts
<1>2. n \in Nat /\ n <= c1.card /\ n <= c2.card
  <2>1. /\ IsFiniteSet(c1.vals) /\ IsFiniteSet(c2.vals)
        /\ c1.card = Cardinality(c1.vals) /\ c2.card = Cardinality(c2.vals)
    BY SoundParts, LowSubsets
  <2>2. S \subseteq c1.vals /\ S \subseteq c2.vals
    OBVIOUS
  <2> QED
    BY <1>1, <2>1, <2>2, FS_Subset, LowSubsets
<1>3. n <= ArrayMax => Sound(ArrayOf(S, n)) /\ ArrayOf(S, n).vals = S
  BY <1>1, SmallArraySound
<1>4. /\ Sound(Counted(S)) /\ Counted(S).vals = S
      /\ Sound(EfficientRun(S)) /\ EfficientRun(S).vals = S
  BY <1>1, CountedSound, MadeSound
<1>5. /\ c1.type \in {"bitset", "array", "run"} /\ c2.type \in {"bitset", "array", "run"}
      /\ c1.type = "array" => c1.card <= ArrayMax
      /\ c2.type = "array" => c2.card <= ArrayMax
      /\ ArrayMax \in Nat /\ c1.card \in Nat /\ c2.card \in Nat
  BY SoundParts
<1> DEFINE r == ContainerAnd(c1, c2)
<1> HIDE DEF S, n
<1>6. CASE c1.type = "array" \/ c2.type = "array"
  <2>1. r = ArrayOf(S, n)
    BY <1>6 DEF ContainerAnd, Types, S, n
  <2>2. n <= ArrayMax
    BY <1>2, <1>5, <1>6
  <2> QED
    BY <1>3, <2>1, <2>2 DEF S
<1>7. CASE c1.type = "bitset" /\ c2.type = "bitset"
  <2>1. r = Counted(S)
    BY <1>7 DEF ContainerAnd, Types, S, n
  <2> QED
    BY <1>4, <2>1 DEF S
<1>8. CASE c1.type = "run" /\ c2.type = "run"
  <2>1. r = EfficientRun(S)
    BY <1>8 DEF ContainerAnd, Types, S, n
  <2> QED
    BY <1>4, <2>1 DEF S
<1>9. CASE \/ c1.type = "run" /\ c2.type = "bitset"
           \/ c1.type = "bitset" /\ c2.type = "run"
  <2> DEFINE run == OfType(c1, c2, "run")
             bitset == OfType(c1, c2, "bitset")
  <2>1. {c1.type, c2.type} = {"run", "bitset"}
    BY <1>9
  <2>2. r = RunBitsetIntersection(run, bitset)
    BY <1>9, <2>1 DEF ContainerAnd, Types
  <2>3. run.vals \intersect bitset.vals = S /\ n <= run.card /\ run.card \in Nat
    BY <1>2, <1>5, <1>9 DEF OfType, S
  <2> HIDE DEF run, bitset
  <2>4. r = IF run.card <= ArrayMax THEN ArrayOf(S, n) ELSE Counted(S)
    BY <2>2, <2>3 DEF RunBitsetIntersection, n
  <2>5. run.card <= ArrayMax => n <= ArrayMax
    BY <1>2, <1>5, <2>3
  <2>6. (r = ArrayOf(S, n) /\ n <= ArrayMax) \/ r = Counted(S)
    BY <2>4, <2>5
  <2> QED
    BY <1>3, <1>4, <2>6 DEF S
<1> QED
  BY <1>5, <1>6, <1>7, <1>8, <1>9

\* container_or makes the union.
LEMMA ContainerOrSound ==
  ASSUME NEW c1, Sound(c1), NEW c2, Sound(c2)
  PROVE  /\ Sound(ContainerOr(c1, c2))
         /\ ContainerOr(c1, c2).vals = c1.vals \union c2.vals
<1> DEFINE S == c1.vals \union c2.vals
<1>1. CASE Types(c1, c2) = {"bitset"}
  <2>1. c1.type = "bitset"
    BY <1>1 DEF Types
  <2>2. S \in SUBSET Low /\ Cardinality(S) > ArrayMax
    <3>1. Cardinality(c1.vals) <= Cardinality(S) /\ S \in SUBSET Low
      BY SoundParts, CountedUnion
    <3>2. Cardinality(S) \in Nat
      BY <3>1, LowSubsets
    <3> QED
      BY <2>1, <3>1, <3>2, SoundParts
  <2>3. ContainerOr(c1, c2) = BitsetOf(S, Cardinality(S))
    BY <1>1 DEF ContainerOr
  <2>4. BitsetOf(S, Cardinality(S)).vals = S
    BY DEF BitsetOf
  <2> QED
    BY <2>2, <2>3, <2>4, MadeSound
<1>2. CASE Types(c1, c2) # {"bitset"}
  BY <1>2, ContainerIorSound DEF ContainerOr
<1> QED
  BY <1>1, <1>2

\* container_andnot makes the difference.
LEMMA ContainerAndnotSound ==
  ASSUME NEW c1, Sound(c1), NEW c2, Sound(c2)
  PROVE  /\ Sound(ContainerAndnot(c1, c2))
         /\ ContainerAndnot(c1, c2).vals = c1.vals \ c2.vals
<1>1. CASE c2.type = "run" /\ IsFull(c2)
  <2>1. c2.vals = Low /\ c1.vals \in SUBSET Low
    BY <1>1, SoundNonEmpty, SoundParts
  <2> QED
    BY <1>1, <2>1, ArrayOfNothing DEF ContainerAndnot
<1>2. CASE ~ (c2.type = "run" /\ IsFull(c2))
  BY <1>2, ContainerIandnotSound DEF ContainerAndnot
<1> QED
  BY <1>1, <1>2

-----------------------------------------------------------------------------
(***************************************************************************)
(* Symmetric difference and negation.                                      *)
(***************************************************************************)

\* The number that a bitset counts while it has the values of an array flipped is
\* the size of the symmetric difference.
LEMMA FlippedCount ==
  ASSUME NEW S \in SUBSET Low, NEW T \in SUBSET Low
  PROVE  /\ SymmetricDifference(S, T) \in SUBSET Low
         /\ Cardinality(SymmetricDifference(S, T)) =
              Cardinality(S) + Cardinality(T \ S) - Cardinality(T \intersect S)
         /\ Cardinality(SymmetricDifference(S, T)) <= Cardinality(S) + Cardinality(T)
         /\ SymmetricDifference(S, T) = SymmetricDifference(T, S)
<1> DEFINE A == S \ T
           B == T \ S
<1>1. A \in SUBSET Low /\ B \in SUBSET Low /\ T \intersect S \in SUBSET Low
  OBVIOUS
<1>2. /\ IsFiniteSet(A) /\ IsFiniteSet(B)
      /\ Cardinality(A) \in Nat /\ Cardinality(B) \in Nat
      /\ Cardinality(S) \in Nat /\ Cardinality(T) \in Nat
      /\ Cardinality(T \intersect S) \in Nat
  BY <1>1, LowSubsets
<1>3. Cardinality(A) = Cardinality(S) - Cardinality(S \intersect T)
  BY CountedDifference
<1>4. Cardinality(B) <= Cardinality(T)
  BY CountedDifference
<1>5. S \intersect T = T \intersect S /\ A \intersect B = {}
  OBVIOUS
<1>6. Cardinality(A \intersect B) = 0
  BY <1>5, FS_EmptySet
<1>7. Cardinality(A \union B) = Cardinality(A) + Cardinality(B) - Cardinality(A \intersect B)
  BY <1>2, FS_Union
<1>8. SymmetricDifference(S, T) = A \union B /\ SymmetricDifference(T, S) = A \union B
  BY DEF SymmetricDifference
<1>9. Cardinality(S \intersect T) = Cardinality(T \intersect S)
  BY <1>5
<1> HIDE DEF A, B
<1>10. Cardinality(A \union B) = Cardinality(A) + Cardinality(B)
  BY <1>2, <1>6, <1>7
<1>11. A \union B \in SUBSET Low
  BY <1>1
<1> QED
  BY <1>2, <1>3, <1>4, <1>8, <1>9, <1>10, <1>11 DEF B

LEMMA BitsetArrayXorSound ==
  ASSUME NEW c1, c1.vals \in SUBSET Low, c1.card = Cardinality(c1.vals),
         NEW c2, c2.vals \in SUBSET Low
  PROVE  /\ Sound(BitsetArrayXor(c1, c2))
         /\ BitsetArrayXor(c1, c2).vals = SymmetricDifference(c1.vals, c2.vals)
<1> DEFINE S == SymmetricDifference(c1.vals, c2.vals)
<1>1. S \in SUBSET Low /\ FlipList(c1, c2.vals) = Cardinality(S)
  BY FlippedCount DEF FlipList
<1> QED
  BY <1>1, MadeSound DEF BitsetArrayXor

LEMMA ArrayArrayXorSound ==
  ASSUME NEW c1, c1.vals \in SUBSET Low, c1.card = Cardinality(c1.vals),
         NEW c2, c2.vals \in SUBSET Low, c2.card = Cardinality(c2.vals)
  PROVE  /\ Sound(ArrayArrayXor(c1, c2))
         /\ ArrayArrayXor(c1, c2).vals = SymmetricDifference(c1.vals, c2.vals)
<1> DEFINE S == SymmetricDifference(c1.vals, c2.vals)
<1>1. /\ S \in SUBSET Low /\ FlipList(c1, c2.vals) = Cardinality(S)
      /\ Cardinality(S) <= c1.card + c2.card
  BY FlippedCount DEF FlipList
<1>2. Cardinality(S) \in Nat /\ c1.card \in Nat /\ c2.card \in Nat /\ ArrayMax \in Nat
  BY <1>1, LowSubsets, ContainerAssumption
<1> HIDE DEF S
<1>3. CASE c1.card + c2.card <= ArrayMax
  <2>1. ArrayArrayXor(c1, c2) = ArrayOf(S, Cardinality(S))
    BY <1>3 DEF ArrayArrayXor, S
  <2>2. Cardinality(S) <= ArrayMax
    BY <1>1, <1>2, <1>3
  <2> QED
    BY <1>1, <2>1, <2>2, SmallArraySound DEF S
<1>4. CASE ~ (c1.card + c2.card <= ArrayMax)
  <2>1. ArrayArrayXor(c1, c2) = ByCardinality(S, Cardinality(S))
    BY <1>1, <1>4 DEF ArrayArrayXor, S
  <2> QED
    BY <1>1, <2>1, MadeSound DEF S
<1> QED
  BY <1>3, <1>4

LEMMA ArrayRunXorSound ==
  ASSUME NEW c1, Sound(c1), NEW c2, Sound(c2)
  PROVE  /\ Sound(ArrayRunXor(c1, c2))
         /\ ArrayRunXor(c1, c2).vals = SymmetricDifference(c1.vals, c2.vals)
<1> DEFINE S == SymmetricDifference(c1.vals, c2.vals)
           r == ArrayRunXor(c1, c2)
           a == ArrayOf(c2.vals, c2.card)
           b == BitsetOf(c2.vals, c2.card)
<1>1. /\ c1.vals \in SUBSET Low /\ c1.card = Cardinality(c1.vals) /\ c1.card \in Nat
      /\ c2.vals \in SUBSET Low /\ c2.card = Cardinality(c2.vals) /\ c2.card \in Nat
      /\ ArrayMax \in Nat /\ RunThreshold \in Nat
  BY SoundParts, ContainerAssumption
<1>2. S \in SUBSET Low /\ S = SymmetricDifference(c2.vals, c1.vals)
  BY <1>1, FlippedCount
<1>3. /\ a.vals = c2.vals /\ a.card = c2.card
      /\ b.vals = c2.vals /\ b.card = c2.card
  BY DEF ArrayOf, BitsetOf
<1>4. CASE c1.card < RunThreshold
  <2>1. r = EfficientRun(S)
    BY <1>1, <1>4 DEF ArrayRunXor
  <2> QED
    BY <1>2, <2>1, MadeSound
<1>5. CASE c1.card >= RunThreshold /\ c2.card <= ArrayMax
  <2>1. r = ArrayArrayXor(a, c1)
    BY <1>1, <1>5 DEF ArrayRunXor
  <2> QED
    BY <1>1, <1>2, <1>3, <2>1, ArrayArrayXorSound
<1>6. CASE c1.card >= RunThreshold /\ c2.card > ArrayMax
  <2>1. r = BitsetArrayXor(b, c1)
    BY <1>1, <1>6 DEF ArrayRunXor
  <2> QED
    BY <1>1, <1>2, <1>3, <2>1, BitsetArrayXorSound
<1> QED
  BY <1>1, <1>4, <1>5, <1>6

\* container_xor makes the symmetric difference, whichever argument comes first.
LEMMA ContainerXorSound ==
  ASSUME NEW c1, Sound(c1), NEW c2, Sound(c2)
  PROVE  /\ Sound(ContainerXor(c1, c2))
         /\ ContainerXor(c1, c2).vals = SymmetricDifference(c1.vals, c2.vals)
<1> DEFINE S == SymmetricDifference(c1.vals, c2.vals)
           r == ContainerXor(c1, c2)
<1>1. /\ c1.vals \in SUBSET Low /\ c1.card = Cardinality(c1.vals)
      /\ c2.vals \in SUBSET Low /\ c2.card = Cardinality(c2.vals)
      /\ c1.type \in {"bitset", "array", "run"} /\ c2.type \in {"bitset", "array", "run"}
  BY SoundParts
<1>2. S \in SUBSET Low /\ S = SymmetricDifference(c2.vals, c1.vals)
  BY <1>1, FlippedCount
<1>3. /\ Sound(Counted(S)) /\ Counted(S).vals = S
      /\ Sound(EfficientRun(S)) /\ EfficientRun(S).vals = S
  BY <1>2, CountedSound, MadeSound
<1>4. CASE c1.type = "array" /\ c2.type = "array"
  <2>1. r = ArrayArrayXor(c1, c2)
    BY <1>4 DEF ContainerXor, Types
  <2> QED
    BY <1>1, <2>1, ArrayArrayXorSound
<1>5. CASE c1.type = "run" /\ c2.type = "run"
  <2>1. r = EfficientRun(S)
    BY <1>5 DEF ContainerXor, Types
  <2> QED
    BY <1>3, <2>1
<1>6. CASE c1.type = "bitset" /\ c2.type = "array"
  <2>1. r = BitsetArrayXor(c1, c2)
    BY <1>6 DEF ContainerXor, Types, OfType
  <2> QED
    BY <1>1, <2>1, BitsetArrayXorSound
<1>7. CASE c1.type = "array" /\ c2.type = "bitset"
  <2>1. r = BitsetArrayXor(c2, c1)
    BY <1>7 DEF ContainerXor, Types, OfType
  <2> QED
    BY <1>1, <1>2, <2>1, BitsetArrayXorSound
<1>8. CASE c1.type = "array" /\ c2.type = "run"
  <2>1. r = ArrayRunXor(c1, c2)
    BY <1>8 DEF ContainerXor, Types, OfType
  <2> QED
    BY <2>1, ArrayRunXorSound
<1>9. CASE c1.type = "run" /\ c2.type = "array"
  <2>1. r = ArrayRunXor(c2, c1)
    BY <1>9 DEF ContainerXor, Types, OfType
  <2> QED
    BY <1>2, <2>1, ArrayRunXorSound
<1>10. CASE /\ c1.type = "bitset" \/ c2.type = "bitset"
            /\ c1.type # "array" /\ c2.type # "array"
  <2>1. {c1.type, c2.type} \in {{"bitset"}, {"bitset", "run"}}
    BY <1>1, <1>10
  <2>2. /\ {c1.type, c2.type} # {"array"} /\ {c1.type, c2.type} # {"run"}
        /\ {c1.type, c2.type} # {"array", "bitset"} /\ {c1.type, c2.type} # {"array", "run"}
    BY <1>10
  <2>3. r = Counted(S)
    BY <2>1, <2>2 DEF ContainerXor, Types
  <2> QED
    BY <1>3, <2>3
<1> QED
  BY <1>1, <1>4, <1>5, <1>6, <1>7, <1>8, <1>9, <1>10

\* Negating a range of low halves.
LEMMA ContainerNotRangeSound ==
  ASSUME NEW c, Sound(c), NEW lo \in Nat, NEW hi \in Low
  PROVE  /\ lo .. hi \in SUBSET Low
         /\ Sound(ContainerNotRange(c, lo, hi))
         /\ ContainerNotRange(c, lo, hi).vals = SymmetricDifference(c.vals, lo .. hi)
<1>1. lo .. hi \in SUBSET Low
  BY ContainerAssumption DEF Low
<1> DEFINE S == SymmetricDifference(c.vals, lo .. hi)
<1>2. S \in SUBSET Low
  BY <1>1, SoundParts, FlippedCount
<1>3. ContainerNotRange(c, lo, hi) \in {EfficientRun(S), Counted(S)}
  BY DEF ContainerNotRange
<1> QED
  BY <1>1, <1>2, <1>3, CountedSound, MadeSound

\* The complement of an array is a bitset that is large enough to be one, because
\* two arrays do not fill a container.
LEMMA ContainerNotSound ==
  ASSUME NEW c, Sound(c)
  PROVE  /\ Sound(ContainerNot(c))
         /\ ContainerNot(c).vals = SymmetricDifference(c.vals, Low)
<1>1. CASE c.type = "array"
  <2> DEFINE S == Low \ c.vals
             n == Cardinality(Low \intersect c.vals)
  <2>1. c.vals \in SUBSET Low /\ Low \in SUBSET Low
    BY SoundParts
  <2>2. S \in SUBSET Low /\ Cardinality(S) = Cardinality(Low) - n
    BY <2>1, CountedDifference
  <2>3. Cardinality(Low) = ChunkSize
    BY <2>1, LowSubsets
  <2>4. Low \intersect c.vals = c.vals
    BY <2>1
  <2>5. n = c.card /\ n \in Nat /\ n <= ArrayMax /\ ArrayMax \in Nat
    BY <1>1, <2>4, SoundParts
  <2>6. ChunkSize - n > ArrayMax
    BY <2>5, ContainerAssumption, ContainerOpsAssumption
  <2>7. SymmetricDifference(c.vals, Low) = S
    BY <2>1 DEF SymmetricDifference
  <2>8. ContainerNot(c) = BitsetOf(S, Cardinality(S))
    BY <1>1, <2>2, <2>3 DEF ContainerNot
  <2>9. BitsetOf(S, Cardinality(S)).vals = S
    BY DEF BitsetOf
  <2>10. Cardinality(S) > ArrayMax
    BY <2>2, <2>3, <2>6
  <2> QED
    BY <2>2, <2>7, <2>8, <2>9, <2>10, MadeSound
<1>2. CASE c.type # "array"
  <2>1. ContainerNot(c) = ContainerNotRange(c, 0, ChunkSize - 1)
    BY <1>2 DEF ContainerNot
  <2>2. ChunkSize - 1 \in Low /\ 0 .. ChunkSize - 1 = Low
    BY ContainerAssumption DEF Low
  <2> QED
    BY <2>1, <2>2, ContainerNotRangeSound
<1> QED
  BY <1>1, <1>2

\* The conversions change the type and nothing else.
LEMMA ConversionsSound ==
  ASSUME NEW c, Sound(c)
  PROVE  /\ Sound(ConvertRunOptimize(c)) /\ ConvertRunOptimize(c).vals = c.vals
         /\ Sound(ContainerRemoveRunCompression(c))
         /\ ContainerRemoveRunCompression(c).vals = c.vals
<1>1. c.vals \in SUBSET Low /\ c.card = Cardinality(c.vals)
  BY SoundParts
<1>2. ConvertRunOptimize(c) \in {c, RunOf(c.vals), EfficientRun(c.vals)}
  BY DEF ConvertRunOptimize
<1>3. ContainerRemoveRunCompression(c) \in {c, ByCardinality(c.vals, c.card)}
  BY DEF ContainerRemoveRunCompression
<1>4. /\ Sound(ConvertRunOptimize(c)) /\ ConvertRunOptimize(c).vals = c.vals
  BY <1>1, <1>2, MadeSound
<1> QED
  BY <1>1, <1>3, <1>4, MadeSound

\* A stored cardinality that is exact is not the mark of a lazy bitset.
LEMMA SettleSound ==
  ASSUME NEW c, Sound(c)
  PROVE  Settle(c) = c
BY SoundParts DEF Settle, Unknown

-----------------------------------------------------------------------------
(***************************************************************************)
(* Bitmaps, one layer of values per key.                                   *)
(***************************************************************************)

Layer(b, k) == IF k \in DOMAIN b THEN b[k].vals ELSE {}

LEMMA ToSetLayer ==
  ASSUME NEW b, NEW v \in Value
  PROVE  v \in ToSet(b) <=> LowBits(v) \in Layer(b, HighBits(v))
BY DEF ToSet, Layer

\* Two bitmaps with the same layers stand for the same set of values.
LEMMA LayersDecide ==
  ASSUME NEW b1, NEW b2, \A k \in Chunk : Layer(b1, k) = Layer(b2, k)
  PROVE  ToSet(b1) = ToSet(b2)
<1>1. \A v \in Value : v \in ToSet(b1) <=> v \in ToSet(b2)
  BY ToSetLayer, ValueParts
<1>2. ToSet(b1) \subseteq Value /\ ToSet(b2) \subseteq Value
  BY DEF ToSet
<1> QED
  BY <1>1, <1>2

LEMMA SoundLayer ==
  ASSUME NEW b, SoundBitmap(b), NEW k
  PROVE  /\ Layer(b, k) \in SUBSET Low
         /\ k \in DOMAIN b <=> Layer(b, k) # {}
BY SoundContainerAt DEF Layer

\* A map from keys in use to sound containers with a value each is a sound bitmap.
LEMMA BitmapMade ==
  ASSUME NEW b, b = [k \in DOMAIN b |-> b[k]], DOMAIN b \subseteq Chunk,
         \A k \in DOMAIN b : Sound(b[k]) /\ b[k].vals # {}
  PROVE  SoundBitmap(b)
<1>1. \A k \in DOMAIN b : b[k] \in Container /\ WellFormed(b[k])
  BY DEF Sound, WellFormed
<1> QED
  BY <1>1 DEF SoundBitmap, IsBitmap, WellFormedBitmap

\* Dropping the containers that an operation left empty, among the keys K where it
\* may have left one, makes a sound bitmap with the same values.
LEMMA SettledSound ==
  ASSUME NEW b, b = [k \in DOMAIN b |-> b[k]], DOMAIN b \subseteq Chunk,
         NEW K \in SUBSET DOMAIN b,
         \A k \in DOMAIN b : Sound(b[k]) /\ (k \notin K => b[k].vals # {})
  PROVE  /\ SoundBitmap(Settled(b, K))
         /\ \A k : Layer(Settled(b, K), k) = Layer(b, k)
<1> DEFINE settled == [k \in DOMAIN b |-> IF k \in K THEN Settle(b[k]) ELSE b[k]]
           empty   == {k \in K : ~ NonZero(b[k])}
           r       == Settled(b, K)
<1>1. settled = b
  BY SettleSound
<1>2. r = Drop(b, empty)
  <2>1. r = Drop(settled, {k \in K : ~ NonZero(settled[k])})
    BY DEF Settled
  <2> QED
    BY <1>1, <2>1
<1>3. /\ DOMAIN r = DOMAIN b \ empty
      /\ \A k \in DOMAIN r : r[k] = b[k]
      /\ r = [k \in DOMAIN r |-> r[k]]
  BY <1>2 DEF Drop
<1>4. \A k \in DOMAIN b : k \in empty <=> b[k].vals = {}
  BY SoundNonEmpty DEF NonZero
<1> HIDE DEF r, empty, settled
<1>5. SoundBitmap(r)
  <2>1. \A k \in DOMAIN r : Sound(r[k]) /\ r[k].vals # {}
    BY <1>3, <1>4
  <2> QED
    BY <1>3, <2>1, BitmapMade
<1>6. \A k : Layer(r, k) = Layer(b, k)
  BY <1>3, <1>4 DEF Layer
<1> QED
  BY <1>5, <1>6 DEF r

-----------------------------------------------------------------------------
(***************************************************************************)
(* Two bitmaps merged by key.                                              *)
(***************************************************************************)

\* roaring_bitmap_and
LEMMA BitmapAndSound ==
  ASSUME NEW x1, SoundBitmap(x1), NEW x2, SoundBitmap(x2)
  PROVE  /\ SoundBitmap(BitmapAnd(x1, x2))
         /\ \A k : Layer(BitmapAnd(x1, x2), k) = Layer(x1, k) \intersect Layer(x2, k)
<1> DEFINE K == Shared(x1, x2)
           b == [k \in K |-> ContainerAnd(x1[k], x2[k])]
<1>1. \A k \in K : k \in DOMAIN x1 /\ k \in DOMAIN x2 /\ k \in Chunk
  BY SoundContainerAt DEF Shared
<1>2. \A k \in K : /\ Sound(b[k])
                   /\ b[k].vals = x1[k].vals \intersect x2[k].vals
  BY <1>1, SoundContainerAt, ContainerAndSound
<1>3. DOMAIN b = K /\ b = [k \in DOMAIN b |-> b[k]] /\ K \subseteq Chunk
  BY <1>1
<1>4. BitmapAnd(x1, x2) = Settled(b, K)
  BY DEF BitmapAnd
<1>5. \A k : Layer(b, k) = Layer(x1, k) \intersect Layer(x2, k)
  BY <1>2, <1>3 DEF Layer, Shared
<1> HIDE DEF b, K
<1>6. /\ SoundBitmap(Settled(b, K))
      /\ \A k : Layer(Settled(b, K), k) = Layer(b, k)
  BY <1>2, <1>3, SettledSound
<1> QED
  BY <1>4, <1>5, <1>6

\* The keys of a bitmap that does not use every container key are counted without
\* a wrap around.
LEMMA CountOfKeys ==
  ASSUME Cardinality(Chunk) < KeyMod, NEW b, IsBitmap(b), DOMAIN b # {}
  PROVE  Cardinality(DOMAIN b) % KeyMod # 0
<1>1. DOMAIN b \in SUBSET Chunk /\ IsFiniteSet(Chunk)
  BY BitmapAssumption DEF IsBitmap
<1>2. IsFiniteSet(DOMAIN b) /\ Cardinality(DOMAIN b) <= Cardinality(Chunk)
  BY <1>1, FS_Subset
<1>3. Cardinality(DOMAIN b) \in Nat /\ Cardinality(Chunk) \in Nat
  BY <1>1, <1>2, FS_CardinalityType
<1>4. Cardinality(DOMAIN b) # 0
  BY <1>2, FS_EmptySet
<1>5. \A n \in Nat : n < KeyMod => n % KeyMod = n
  BY BitmapAssumption
<1> QED
  BY <1>2, <1>3, <1>4, <1>5, BitmapAssumption

\* The keys that a merge ends with: none that neither bitmap had, all that are
\* shared, and all of both when the copy of the tail does not wrap around.
LEMMA AppendedKeys ==
  ASSUME NEW x1, IsBitmap(x1), NEW x2, IsBitmap(x2)
  PROVE  /\ AppendCopyRange(x1, x2) \subseteq Beyond(x1, x2)
         /\ Beyond(x1, x2) \subseteq DOMAIN x2
         /\ Beyond(x1, x2) \intersect DOMAIN x1 = {}
         /\ Cardinality(Chunk) < KeyMod => AppendCopyRange(x1, x2) = Beyond(x1, x2)
<1>1. /\ AppendCopyRange(x1, x2) \subseteq Beyond(x1, x2)
      /\ Beyond(x1, x2) \subseteq DOMAIN x2
  BY DEF AppendCopyRange, Beyond
<1>2. Beyond(x1, x2) \intersect DOMAIN x1 = {}
  <2>1. DOMAIN x1 \subseteq Nat
    BY KeysAreNat DEF IsBitmap
  <2> QED
    BY <2>1 DEF Beyond
<1>3. ASSUME Cardinality(Chunk) < KeyMod
      PROVE  AppendCopyRange(x1, x2) = Beyond(x1, x2)
  <2>1. CASE DOMAIN x2 = {}
    BY <1>1, <2>1
  <2>2. CASE DOMAIN x2 # {}
    BY <1>3, <2>2, CountOfKeys DEF AppendCopyRange
  <2> QED
    BY <2>1, <2>2
<1> QED
  BY <1>1, <1>2, <1>3

MergedKeys(x1, x2) ==
  ((DOMAIN x1 \union DOMAIN x2) \ (Beyond(x1, x2) \union Beyond(x2, x1)))
    \union (AppendCopyRange(x1, x2) \union AppendCopyRange(x2, x1))

MergedInplaceKeys(x1, x2) ==
  (DOMAIN x1 \union (DOMAIN x2 \ Beyond(x1, x2))) \union AppendCopyRange(x1, x2)

LEMMA MergedKeysAre ==
  ASSUME NEW x1, IsBitmap(x1), NEW x2, IsBitmap(x2)
  PROVE  /\ MergedKeys(x1, x2) \subseteq DOMAIN x1 \union DOMAIN x2
         /\ MergedInplaceKeys(x1, x2) \subseteq DOMAIN x1 \union DOMAIN x2
         /\ Shared(x1, x2) \subseteq MergedKeys(x1, x2)
         /\ Shared(x1, x2) \subseteq MergedInplaceKeys(x1, x2)
         /\ Cardinality(Chunk) < KeyMod =>
              /\ MergedKeys(x1, x2) = DOMAIN x1 \union DOMAIN x2
              /\ MergedInplaceKeys(x1, x2) = DOMAIN x1 \union DOMAIN x2
<1>1. /\ AppendCopyRange(x1, x2) \subseteq Beyond(x1, x2)
      /\ Beyond(x1, x2) \subseteq DOMAIN x2
      /\ Beyond(x1, x2) \intersect DOMAIN x1 = {}
      /\ Cardinality(Chunk) < KeyMod => AppendCopyRange(x1, x2) = Beyond(x1, x2)
  BY AppendedKeys
<1>2. /\ AppendCopyRange(x2, x1) \subseteq Beyond(x2, x1)
      /\ Beyond(x2, x1) \subseteq DOMAIN x1
      /\ Beyond(x2, x1) \intersect DOMAIN x2 = {}
      /\ Cardinality(Chunk) < KeyMod => AppendCopyRange(x2, x1) = Beyond(x2, x1)
  BY AppendedKeys
<1> QED
  BY <1>1, <1>2 DEF MergedKeys, MergedInplaceKeys, Shared

\* What stands under each key after a merge that combines by union, and by symmetric
\* difference.
OrEntry(x1, x2, k) ==
  IF k \in Shared(x1, x2) THEN ContainerOr(x1[k], x2[k])
  ELSE IF k \in DOMAIN x1 THEN x1[k] ELSE x2[k]

XorEntry(x1, x2, k) ==
  IF k \in Shared(x1, x2) THEN ContainerXor(x1[k], x2[k])
  ELSE IF k \in DOMAIN x1 THEN x1[k] ELSE x2[k]

LEMMA EntriesSound ==
  ASSUME NEW x1, SoundBitmap(x1), NEW x2, SoundBitmap(x2),
         NEW k \in DOMAIN x1 \union DOMAIN x2
  PROVE  /\ k \in Chunk
         /\ Sound(OrEntry(x1, x2, k)) /\ OrEntry(x1, x2, k).vals # {}
         /\ OrEntry(x1, x2, k).vals = Layer(x1, k) \union Layer(x2, k)
         /\ Sound(XorEntry(x1, x2, k))
         /\ k \notin Shared(x1, x2) => XorEntry(x1, x2, k).vals # {}
         /\ XorEntry(x1, x2, k).vals = SymmetricDifference(Layer(x1, k), Layer(x2, k))
<1>1. /\ k \in DOMAIN x1 => k \in Chunk /\ Sound(x1[k]) /\ x1[k].vals # {}
      /\ k \in DOMAIN x2 => k \in Chunk /\ Sound(x2[k]) /\ x2[k].vals # {}
  BY SoundContainerAt
<1>2. CASE k \in Shared(x1, x2)
  <2>1. k \in DOMAIN x1 /\ k \in DOMAIN x2
    BY <1>2 DEF Shared
  <2>2. /\ Sound(ContainerOr(x1[k], x2[k]))
        /\ ContainerOr(x1[k], x2[k]).vals = x1[k].vals \union x2[k].vals
    BY <1>1, <2>1, ContainerOrSound
  <2>3. /\ Sound(ContainerXor(x1[k], x2[k]))
        /\ ContainerXor(x1[k], x2[k]).vals = SymmetricDifference(x1[k].vals, x2[k].vals)
    BY <1>1, <2>1, ContainerXorSound
  <2> QED
    BY <1>1, <1>2, <2>1, <2>2, <2>3 DEF OrEntry, XorEntry, Layer
<1>3. CASE k \in DOMAIN x1 /\ k \notin DOMAIN x2
  BY <1>1, <1>3 DEF OrEntry, XorEntry, Layer, Shared, SymmetricDifference
<1>4. CASE k \notin DOMAIN x1 /\ k \in DOMAIN x2
  BY <1>1, <1>4 DEF OrEntry, XorEntry, Layer, Shared, SymmetricDifference
<1> QED
  BY <1>2, <1>3, <1>4 DEF Shared

\* roaring_bitmap_or: sound in any case, and the union when no bitmap can use every
\* container key.
LEMMA BitmapOrSound ==
  ASSUME NEW x1, SoundBitmap(x1), NEW x2, SoundBitmap(x2)
  PROVE  /\ SoundBitmap(BitmapOr(x1, x2))
         /\ Cardinality(Chunk) < KeyMod =>
              \A k : Layer(BitmapOr(x1, x2), k) = Layer(x1, k) \union Layer(x2, k)
<1> DEFINE r == BitmapOr(x1, x2)
           D == MergedKeys(x1, x2)
<1>1. CASE DOMAIN x1 = {}
  <2>1. r = x2
    BY <1>1 DEF BitmapOr, Merge
  <2> QED
    BY <1>1, <2>1 DEF Layer
<1>2. CASE DOMAIN x1 # {} /\ DOMAIN x2 = {}
  <2>1. r = x1
    BY <1>2 DEF BitmapOr, Merge
  <2> QED
    BY <1>2, <2>1 DEF Layer
<1>3. CASE DOMAIN x1 # {} /\ DOMAIN x2 # {}
  <2>1. r = [k \in D |-> OrEntry(x1, x2, k)]
    BY <1>3 DEF BitmapOr, Merge, MergedKeys, OrEntry
  <2>2. D \subseteq DOMAIN x1 \union DOMAIN x2
    BY MergedKeysAre DEF SoundBitmap
  <2> HIDE DEF r, D
  <2>3. \A k \in D : k \in Chunk /\ Sound(r[k]) /\ r[k].vals # {}
    BY <2>1, <2>2, EntriesSound
  <2>4. SoundBitmap(r)
    <3>1. DOMAIN r = D /\ r = [k \in DOMAIN r |-> r[k]] /\ D \subseteq Chunk
      BY <2>1, <2>3
    <3> QED
      BY <2>3, <3>1, BitmapMade
  <2>5. ASSUME Cardinality(Chunk) < KeyMod, NEW k
        PROVE  Layer(r, k) = Layer(x1, k) \union Layer(x2, k)
    <3>1. D = DOMAIN x1 \union DOMAIN x2
      BY <2>5, MergedKeysAre DEF D, SoundBitmap
    <3>2. CASE k \in D
      BY <2>1, <3>1, <3>2, EntriesSound DEF Layer
    <3>3. CASE k \notin D
      BY <2>1, <3>1, <3>3 DEF Layer
    <3> QED
      BY <3>2, <3>3
  <2> QED
    BY <2>4, <2>5 DEF r
<1> QED
  BY <1>1, <1>2, <1>3

\* The map that a symmetric difference settles.
LEMMA XorEntriesSettled ==
  ASSUME NEW x1, SoundBitmap(x1), NEW x2, SoundBitmap(x2),
         NEW D, D \subseteq DOMAIN x1 \union DOMAIN x2, Shared(x1, x2) \subseteq D
  PROVE  LET r == Settled([k \in D |-> XorEntry(x1, x2, k)], Shared(x1, x2))
         IN  /\ SoundBitmap(r)
             /\ D = DOMAIN x1 \union DOMAIN x2 =>
                  \A k : Layer(r, k) = SymmetricDifference(Layer(x1, k), Layer(x2, k))
<1> DEFINE b == [k \in D |-> XorEntry(x1, x2, k)]
           K == Shared(x1, x2)
<1>1. DOMAIN b = D /\ b = [k \in DOMAIN b |-> b[k]]
  OBVIOUS
<1>2. \A k \in D : /\ k \in Chunk
                   /\ Sound(b[k])
                   /\ k \notin K => b[k].vals # {}
                   /\ b[k].vals = SymmetricDifference(Layer(x1, k), Layer(x2, k))
  BY EntriesSound
<1>3. \A k : k \notin DOMAIN x1 \union DOMAIN x2 =>
               SymmetricDifference(Layer(x1, k), Layer(x2, k)) = {}
  BY DEF Layer, SymmetricDifference
<1> HIDE DEF b, K
<1>4. /\ SoundBitmap(Settled(b, K))
      /\ \A k : Layer(Settled(b, K), k) = Layer(b, k)
  <2>1. K \subseteq DOMAIN b /\ DOMAIN b \subseteq Chunk
    BY <1>1, <1>2 DEF K
  <2> QED
    BY <1>1, <1>2, <2>1, SettledSound
<1>5. ASSUME D = DOMAIN x1 \union DOMAIN x2, NEW k
      PROVE  Layer(b, k) = SymmetricDifference(Layer(x1, k), Layer(x2, k))
  <2>1. CASE k \in D
    <3>1. Layer(b, k) = b[k].vals
      BY <1>1, <2>1 DEF Layer
    <3> QED
      BY <1>2, <2>1, <3>1
  <2>2. CASE k \notin D
    <3>1. Layer(b, k) = {}
      BY <1>1, <2>2 DEF Layer
    <3> QED
      BY <1>3, <1>5, <2>2, <3>1
  <2> QED
    BY <2>1, <2>2
<1> QED
  BY <1>4, <1>5 DEF b, K

\* A bitmap settled where it has nothing to settle.
LEMMA SettledNowhere ==
  ASSUME NEW b, SoundBitmap(b)
  PROVE  SoundBitmap(Settled(b, {})) /\ \A k : Layer(Settled(b, {}), k) = Layer(b, k)
<1>1. b = [k \in DOMAIN b |-> b[k]] /\ DOMAIN b \subseteq Chunk
  BY DEF SoundBitmap, IsBitmap
<1> QED
  BY <1>1, SoundContainerAt, SettledSound

\* roaring_bitmap_xor and roaring_bitmap_xor_inplace
LEMMA BitmapXorSound ==
  ASSUME NEW x1, SoundBitmap(x1), NEW x2, SoundBitmap(x2)
  PROVE  /\ SoundBitmap(BitmapXor(x1, x2))
         /\ SoundBitmap(BitmapXorInplace(x1, x2))
         /\ Cardinality(Chunk) < KeyMod => \A k :
              /\ Layer(BitmapXor(x1, x2), k)
                   = SymmetricDifference(Layer(x1, k), Layer(x2, k))
              /\ Layer(BitmapXorInplace(x1, x2), k)
                   = SymmetricDifference(Layer(x1, k), Layer(x2, k))
<1> DEFINE r == BitmapXor(x1, x2)
           s == BitmapXorInplace(x1, x2)
<1>1. CASE DOMAIN x1 = {} \/ DOMAIN x2 = {}
  <2> DEFINE x == IF DOMAIN x1 = {} THEN x2 ELSE x1
  <2>1. Shared(x1, x2) = {}
    BY <1>1 DEF Shared
  <2>2. r = Settled(x, {}) /\ s = Settled(x, {})
    BY <1>1, <2>1 DEF BitmapXor, BitmapXorInplace, Merge, MergeInplace
  <2>3. \A k : Layer(x, k) = SymmetricDifference(Layer(x1, k), Layer(x2, k))
    BY <1>1 DEF Layer, SymmetricDifference
  <2>4. SoundBitmap(x)
    OBVIOUS
  <2> HIDE DEF x
  <2> QED
    BY <2>2, <2>3, <2>4, SettledNowhere
<1>2. CASE DOMAIN x1 # {} /\ DOMAIN x2 # {}
  <2> DEFINE D == MergedKeys(x1, x2)
             E == MergedInplaceKeys(x1, x2)
  <2>1. r = Settled([k \in D |-> XorEntry(x1, x2, k)], Shared(x1, x2))
    BY <1>2 DEF BitmapXor, Merge, MergedKeys, XorEntry
  <2>2. s = Settled([k \in E |-> XorEntry(x1, x2, k)], Shared(x1, x2))
    BY <1>2 DEF BitmapXorInplace, MergeInplace, MergedInplaceKeys, XorEntry
  <2>3. /\ D \subseteq DOMAIN x1 \union DOMAIN x2 /\ Shared(x1, x2) \subseteq D
        /\ E \subseteq DOMAIN x1 \union DOMAIN x2 /\ Shared(x1, x2) \subseteq E
        /\ Cardinality(Chunk) < KeyMod =>
             D = DOMAIN x1 \union DOMAIN x2 /\ E = DOMAIN x1 \union DOMAIN x2
    BY MergedKeysAre DEF SoundBitmap
  <2> HIDE DEF D, E, r, s
  <2>4. /\ SoundBitmap(r)
        /\ D = DOMAIN x1 \union DOMAIN x2 =>
             \A k : Layer(r, k) = SymmetricDifference(Layer(x1, k), Layer(x2, k))
    BY <2>1, <2>3, XorEntriesSettled
  <2>5. /\ SoundBitmap(s)
        /\ E = DOMAIN x1 \union DOMAIN x2 =>
             \A k : Layer(s, k) = SymmetricDifference(Layer(x1, k), Layer(x2, k))
    BY <2>2, <2>3, XorEntriesSettled
  <2> QED
    BY <2>3, <2>4, <2>5 DEF r, s
<1> QED
  BY <1>1, <1>2

\* roaring_bitmap_andnot: its second argument may use every key, its first may not.
LEMMA BitmapAndnotSound ==
  ASSUME NEW x1, SoundBitmap(x1), NEW x2, SoundBitmap(x2)
  PROVE  /\ SoundBitmap(BitmapAndnot(x1, x2))
         /\ Cardinality(Chunk) < KeyMod =>
              \A k : Layer(BitmapAndnot(x1, x2), k) = Layer(x1, k) \ Layer(x2, k)
<1> DEFINE kept == (DOMAIN x1 \ Beyond(x2, x1)) \union AppendCopyRange(x2, x1)
           K == Shared(x1, x2)
           b == [k \in kept |-> IF k \in DOMAIN x2
                                THEN ContainerAndnot(x1[k], x2[k]) ELSE x1[k]]
           r == BitmapAndnot(x1, x2)
<1>1. CASE DOMAIN x2 = {}
  <2>1. r = x1
    BY <1>1 DEF BitmapAndnot
  <2> QED
    BY <1>1, <2>1 DEF Layer
<1>2. CASE DOMAIN x2 # {}
  <2>1. r = Settled(b, K)
    BY <1>2 DEF BitmapAndnot
  <2>2. /\ kept \subseteq DOMAIN x1 /\ K \subseteq kept
        /\ Cardinality(Chunk) < KeyMod => kept = DOMAIN x1
    BY AppendedKeys DEF Shared, SoundBitmap
  <2>3. DOMAIN b = kept /\ b = [k \in DOMAIN b |-> b[k]]
    OBVIOUS
  <2>4. \A k \in kept : /\ k \in Chunk
                        /\ Sound(b[k])
                        /\ k \notin K => b[k].vals # {}
                        /\ b[k].vals = Layer(x1, k) \ Layer(x2, k)
    <3> SUFFICES ASSUME NEW k \in kept
                 PROVE  /\ k \in Chunk
                        /\ Sound(b[k])
                        /\ k \notin K => b[k].vals # {}
                        /\ b[k].vals = Layer(x1, k) \ Layer(x2, k)
      OBVIOUS
    <3>1. k \in DOMAIN x1 /\ k \in Chunk /\ Sound(x1[k]) /\ x1[k].vals # {}
      BY <2>2, SoundContainerAt
    <3>2. CASE k \in DOMAIN x2
      <4>1. Sound(x2[k]) /\ k \in K /\ b[k] = ContainerAndnot(x1[k], x2[k])
        BY <3>1, <3>2, SoundContainerAt DEF Shared
      <4> QED
        BY <3>1, <3>2, <4>1, ContainerAndnotSound DEF Layer
    <3>3. CASE k \notin DOMAIN x2
      BY <3>1, <3>3 DEF Layer
    <3> QED
      BY <3>2, <3>3
  <2> HIDE DEF b, K, kept, r
  <2>5. /\ SoundBitmap(Settled(b, K))
        /\ \A k : Layer(Settled(b, K), k) = Layer(b, k)
    <3>1. K \subseteq DOMAIN b /\ DOMAIN b \subseteq Chunk
      BY <2>2, <2>3, <2>4
    <3> QED
      BY <2>3, <2>4, <3>1, SettledSound
  <2>6. ASSUME Cardinality(Chunk) < KeyMod, NEW k
        PROVE  Layer(b, k) = Layer(x1, k) \ Layer(x2, k)
    <3>1. CASE k \in kept
      BY <2>3, <2>4, <3>1 DEF Layer
    <3>2. CASE k \notin kept
      BY <2>2, <2>3, <2>6, <3>2 DEF Layer
    <3> QED
      BY <3>1, <3>2
  <2> QED
    BY <2>1, <2>5, <2>6 DEF r
<1> QED
  BY <1>1, <1>2

-----------------------------------------------------------------------------
(***************************************************************************)
(* Ranges and conversions.                                                 *)
(***************************************************************************)

LEMMA AsIntegerOrder ==
  ASSUME NEW v \in Value, NEW w \in Value
  PROVE  /\ AsInteger(v) \in Nat
         /\ AsInteger(v) <= AsInteger(w) <=> Precedes(v, w) \/ v = w
         /\ AsInteger(v) < AsInteger(w) <=> Precedes(v, w)
<1> DEFINE h == HighBits(v)
           j == HighBits(w)
           x == LowBits(v)
           y == LowBits(w)
<1>1. /\ h \in Nat /\ j \in Nat /\ x \in Nat /\ y \in Nat
      /\ x < ChunkSize /\ y < ChunkSize /\ ChunkSize \in Nat
      /\ v = <<h, x>> /\ w = <<j, y>>
  <2>1. /\ h \in Nat /\ j \in Nat /\ x \in Low /\ y \in Low
        /\ v = <<h, x>> /\ w = <<j, y>>
    BY ValueParts, KeysAreNat
  <2> HIDE DEF h, j, x, y
  <2> QED
    BY <2>1, ContainerAssumption DEF Low
<1>2. /\ AsInteger(v) = h * ChunkSize + x /\ AsInteger(w) = j * ChunkSize + y
      /\ Precedes(v, w) <=> h < j \/ (h = j /\ x < y)
  BY DEF AsInteger, Precedes
<1> HIDE DEF h, j, x, y
<1>3. h * ChunkSize \in Nat /\ j * ChunkSize \in Nat
  BY <1>1
<1>4. \A a, b \in Nat : a < b => a * ChunkSize + ChunkSize <= b * ChunkSize
  <2> SUFFICES ASSUME NEW a \in Nat, NEW b \in Nat, a < b
               PROVE  a * ChunkSize + ChunkSize <= b * ChunkSize
    OBVIOUS
  <2> DEFINE d == b - a - 1
  <2>1. d \in Nat /\ b = a + d + 1
    OBVIOUS
  <2> HIDE DEF d
  <2>2. b * ChunkSize = a * ChunkSize + d * ChunkSize + ChunkSize
    BY <1>1, <2>1
  <2>3. d * ChunkSize \in Nat /\ a * ChunkSize \in Nat
    BY <1>1, <2>1
  <2> QED
    BY <1>1, <2>2, <2>3
<1>5. /\ h < j => h * ChunkSize + ChunkSize <= j * ChunkSize
      /\ j < h => j * ChunkSize + ChunkSize <= h * ChunkSize
  BY <1>1, <1>4
<1>6. CASE h = j
  BY <1>1, <1>2, <1>3, <1>6
<1>7. CASE h # j
  <2> DEFINE H == h * ChunkSize
             J == j * ChunkSize
  <2>1. H \in Nat /\ J \in Nat /\ (h < j => H + ChunkSize <= J) /\ (j < h => J + ChunkSize <= H)
    BY <1>3, <1>5
  <2>2. AsInteger(v) = H + x /\ AsInteger(w) = J + y
    BY <1>2
  <2> HIDE DEF H, J
  <2>3. v # w
    BY <1>1, <1>7
  <2> QED
    BY <1>1, <1>2, <1>7, <2>1, <2>2, <2>3
<1> QED
  BY <1>6, <1>7

\* from_range
LEMMA FromRangeSound ==
  ASSUME NEW min, NEW max, NEW step
  PROVE  SoundBitmap(FromRange(min, max, step))
<1> DEFINE in(k) == {x \in Low : /\ k * ChunkSize + x \in min .. max - 1
                                 /\ (k * ChunkSize + x - min) % step = 0}
           touched == {k \in Chunk : in(k) # {}}
           r == [k \in touched |-> IF step = 1 THEN RunOf(in(k)) ELSE Counted(in(k))]
<1>1. FromRange(min, max, step) = r
  BY DEF FromRange
<1>2. \A k \in touched : in(k) \in SUBSET Low /\ in(k) # {} /\ k \in Chunk
  OBVIOUS
<1> HIDE DEF in, touched
<1>3. \A k \in touched : Sound(r[k]) /\ r[k].vals # {}
  BY <1>2, MadeSound, CountedSound
<1>4. DOMAIN r = touched /\ r = [k \in DOMAIN r |-> r[k]] /\ touched \subseteq Chunk
  BY <1>2
<1> QED
  BY <1>1, <1>3, <1>4, BitmapMade

\* run_optimize and remove_run_compression
LEMMA BitmapConversionsSound ==
  ASSUME NEW b, SoundBitmap(b)
  PROVE  /\ SoundBitmap(RunOptimize(b))
         /\ SoundBitmap(RemoveRunCompression(b))
         /\ \A k : /\ Layer(RunOptimize(b), k) = Layer(b, k)
                   /\ Layer(RemoveRunCompression(b), k) = Layer(b, k)
<1> DEFINE r == RunOptimize(b)
           s == RemoveRunCompression(b)
<1>1. /\ DOMAIN r = DOMAIN b /\ DOMAIN s = DOMAIN b /\ DOMAIN b \subseteq Chunk
      /\ r = [k \in DOMAIN r |-> r[k]] /\ s = [k \in DOMAIN s |-> s[k]]
  BY DEF RunOptimize, RemoveRunCompression, SoundBitmap, IsBitmap
<1>2. \A k \in DOMAIN b : /\ Sound(r[k]) /\ r[k].vals = b[k].vals
                          /\ Sound(s[k]) /\ s[k].vals = b[k].vals
                          /\ b[k].vals # {}
  BY SoundContainerAt, ConversionsSound DEF RunOptimize, RemoveRunCompression
<1> HIDE DEF r, s
<1>3. SoundBitmap(r) /\ SoundBitmap(s)
  BY <1>1, <1>2, BitmapMade
<1>4. \A k : Layer(r, k) = Layer(b, k) /\ Layer(s, k) = Layer(b, k)
  BY <1>1, <1>2 DEF Layer
<1> QED
  BY <1>3, <1>4 DEF r, s

\* The part of the container at key k that a range covers.
PartOf(first, last, k) ==
  IF k \in HighBits(first) .. HighBits(last)
  THEN FirstIn(first, k) .. LastIn(last, k) ELSE {}

LEMMA FlipContainerSound ==
  ASSUME NEW b, SoundBitmap(b), NEW first \in Value, NEW last \in Value,
         NEW k \in HighBits(first) .. HighBits(last)
  PROVE  /\ Sound(FlipContainer(b, first, last, k))
         /\ FlipContainer(b, first, last, k).vals
              = SymmetricDifference(Layer(b, k), PartOf(first, last, k))
<1> DEFINE lo == FirstIn(first, k)
           hi == LastIn(last, k)
           whole == lo = 0 /\ hi = LastLow /\ HighBits(first) # HighBits(last)
           c == FlipContainer(b, first, last, k)
<1>1. lo \in Nat /\ hi \in Low /\ lo .. hi \in SUBSET Low
  <2>1. LowBits(first) \in Nat /\ LowBits(last) \in Low /\ LastLow \in Low
    BY ValueParts, ContainerAssumption DEF Low, LastLow
  <2>2. lo \in Nat /\ hi \in Low
    BY <2>1 DEF FirstIn, LastIn
  <2> QED
    BY <2>2, ContainerAssumption DEF Low
<1>2. PartOf(first, last, k) = lo .. hi
  BY DEF PartOf
<1>3. lo = 0 /\ hi = LastLow => lo .. hi = Low
  BY DEF LastLow, Low
<1>4. c = IF k \notin DOMAIN b THEN RunOf(lo .. hi)
          ELSE IF whole THEN ContainerNot(b[k])
          ELSE ContainerNotRange(b[k], lo, hi)
  BY DEF FlipContainer, ContainerRangeOfOnes
<1> HIDE DEF lo, hi, c
<1>5. CASE k \notin DOMAIN b
  <2>1. c = RunOf(lo .. hi) /\ Layer(b, k) = {}
    BY <1>4, <1>5 DEF Layer
  <2>2. Sound(c) /\ c.vals = lo .. hi
    BY <1>1, <2>1, MadeSound
  <2> QED
    BY <1>2, <2>1, <2>2 DEF c, SymmetricDifference
<1>6. CASE k \in DOMAIN b /\ whole
  <2>1. c = ContainerNot(b[k]) /\ Sound(b[k]) /\ Layer(b, k) = b[k].vals
    BY <1>4, <1>6, SoundContainerAt DEF Layer
  <2> QED
    BY <1>2, <1>3, <1>6, <2>1, ContainerNotSound DEF c
<1>7. CASE k \in DOMAIN b /\ ~ whole
  <2>1. c = ContainerNotRange(b[k], lo, hi) /\ Sound(b[k]) /\ Layer(b, k) = b[k].vals
    BY <1>4, <1>7, SoundContainerAt DEF Layer
  <2> QED
    BY <1>1, <1>2, <2>1, ContainerNotRangeSound DEF c
<1> QED
  BY <1>5, <1>6, <1>7

\* flip_inplace on a range whose keys are in use: containers that become empty are
\* dropped, missing ones are made, and the values change in the range alone.
LEMMA FlipInplaceSound ==
  ASSUME NEW b, SoundBitmap(b), NEW first \in Value, NEW last \in Value,
         HighBits(first) .. HighBits(last) \subseteq Chunk
  PROVE  /\ SoundBitmap(FlipInplace(b, first, last))
         /\ \A k : Layer(FlipInplace(b, first, last), k)
                     = SymmetricDifference(Layer(b, k), PartOf(first, last, k))
<1> DEFINE touched == HighBits(first) .. HighBits(last)
           flipped == [k \in DOMAIN b \union touched |->
                         IF k \in touched THEN FlipContainer(b, first, last, k) ELSE b[k]]
           empty == {k \in touched : flipped[k].card = 0}
           r == FlipInplace(b, first, last)
<1>1. r = Drop(flipped, empty)
  BY DEF FlipInplace
<1>2. \A k \in DOMAIN flipped : Sound(flipped[k]) /\ k \in Chunk
  BY FlipContainerSound, SoundContainerAt
<1>3. \A k \in DOMAIN flipped : k \in empty <=> flipped[k].vals = {}
  <2> SUFFICES ASSUME NEW k \in DOMAIN flipped
               PROVE  k \in empty <=> flipped[k].vals = {}
    OBVIOUS
  <2>1. flipped[k].card = 0 <=> flipped[k].vals = {}
    <3> DEFINE c == flipped[k]
    <3>1. Sound(c)
      BY <1>2
    <3> HIDE DEF c
    <3>2. c.card = 0 <=> c.vals = {}
      BY <3>1, SoundNonEmpty
    <3> QED
      BY <3>2 DEF c
  <2>2. k \notin touched => flipped[k].vals # {}
    BY SoundContainerAt
  <2> QED
    BY <2>1, <2>2
<1>4. \A k \in DOMAIN flipped :
        flipped[k].vals = SymmetricDifference(Layer(b, k), PartOf(first, last, k))
  <2> SUFFICES ASSUME NEW k \in DOMAIN flipped
               PROVE  flipped[k].vals
                        = SymmetricDifference(Layer(b, k), PartOf(first, last, k))
    OBVIOUS
  <2>1. CASE k \in touched
    BY <2>1, FlipContainerSound
  <2>2. CASE k \notin touched
    BY <2>2 DEF PartOf, Layer, SymmetricDifference
  <2> QED
    BY <2>1, <2>2
<1>5. \A k : k \notin DOMAIN flipped =>
        SymmetricDifference(Layer(b, k), PartOf(first, last, k)) = {}
  BY DEF PartOf, Layer, SymmetricDifference
<1> HIDE DEF flipped, empty, r
<1>6. /\ DOMAIN r = DOMAIN flipped \ empty
      /\ \A k \in DOMAIN r : r[k] = flipped[k]
      /\ r = [k \in DOMAIN r |-> r[k]]
  BY <1>1 DEF Drop
<1>7. SoundBitmap(r)
  <2>1. /\ \A k \in DOMAIN r : Sound(r[k]) /\ r[k].vals # {}
        /\ DOMAIN r \subseteq Chunk
    BY <1>2, <1>3, <1>6
  <2> QED
    BY <1>6, <2>1, BitmapMade
<1>8. \A k : Layer(r, k) = SymmetricDifference(Layer(b, k), PartOf(first, last, k))
  <2> TAKE k
  <2>1. CASE k \in DOMAIN flipped
    <3>1. Layer(r, k) = flipped[k].vals
      BY <1>3, <1>6, <2>1 DEF Layer
    <3> QED
      BY <1>4, <2>1, <3>1
  <2>2. CASE k \notin DOMAIN flipped
    BY <1>5, <1>6, <2>2 DEF Layer
  <2> QED
    BY <2>1, <2>2
<1> QED
  BY <1>7, <1>8 DEF r

\* roaring_bitmap_flip, into a new bitmap.
LEMMA FlipSound ==
  ASSUME NEW b, SoundBitmap(b), NEW first \in Value, NEW last \in Value,
         HighBits(first) .. HighBits(last) \subseteq Chunk
  PROVE  /\ SoundBitmap(Flip(b, first, last))
         /\ Cardinality(Chunk) < KeyMod => \A k :
              Layer(Flip(b, first, last), k)
                = SymmetricDifference(Layer(b, k), PartOf(first, last, k))
<1> DEFINE f == FlipInplace(b, first, last)
           after == {k \in DOMAIN b : k > HighBits(last)}
<1>1. /\ SoundBitmap(f)
      /\ \A k : Layer(f, k) = SymmetricDifference(Layer(b, k), PartOf(first, last, k))
  BY FlipInplaceSound
<1>2. Flip(b, first, last) = IF Cardinality(DOMAIN b) % KeyMod = 0
                             THEN Drop(f, after) ELSE f
  BY DEF Flip
<1> HIDE DEF f, after
<1>3. SoundBitmap(Drop(f, after))
  BY <1>1, DropSound
<1>4. ASSUME Cardinality(Chunk) < KeyMod, Cardinality(DOMAIN b) % KeyMod = 0
      PROVE  Drop(f, after) = f
  <2>1. after = {}
    BY <1>4, CountOfKeys DEF after, SoundBitmap
  <2>2. f = [k \in DOMAIN f |-> f[k]]
    BY <1>1 DEF SoundBitmap, IsBitmap
  <2> QED
    BY <2>1, <2>2 DEF Drop
<1> QED
  BY <1>1, <1>2, <1>3, <1>4

\* A range in terms of its parts.
LEMMA BetweenParts ==
  ASSUME NEW first \in Value, NEW last \in Value, NEW v \in Value
  PROVE  AsInteger(first) <= AsInteger(v) /\ AsInteger(v) <= AsInteger(last)
           <=> LowBits(v) \in PartOf(first, last, HighBits(v))
<1> DEFINE k == HighBits(v)
           x == LowBits(v)
<1>1. /\ AsInteger(first) <= AsInteger(v) <=> Precedes(first, v) \/ first = v
      /\ AsInteger(v) <= AsInteger(last) <=> Precedes(v, last) \/ v = last
  BY AsIntegerOrder
<1>2. /\ v = <<k, x>> /\ first = <<HighBits(first), LowBits(first)>>
      /\ last = <<HighBits(last), LowBits(last)>>
      /\ k \in Nat /\ HighBits(first) \in Nat /\ HighBits(last) \in Nat
      /\ x \in Low /\ LowBits(first) \in Low /\ LowBits(last) \in Low
  BY ValueParts, KeysAreNat
<1>3. x \in 0 .. LastLow /\ ChunkSize \in Nat
  BY <1>2, ContainerAssumption DEF Low, LastLow
<1>4. /\ Precedes(first, v) <=>
           HighBits(first) < k \/ (HighBits(first) = k /\ LowBits(first) < x)
      /\ Precedes(v, last) <=>
           k < HighBits(last) \/ (HighBits(last) = k /\ x < LowBits(last))
  BY DEF Precedes
<1> HIDE DEF k, x
<1>5. /\ Precedes(first, v) \/ first = v <=>
           HighBits(first) <= k /\ FirstIn(first, k) <= x
      /\ Precedes(v, last) \/ v = last <=>
           k <= HighBits(last) /\ x <= LastIn(last, k)
  BY <1>2, <1>3, <1>4 DEF FirstIn, LastIn, Low, LastLow
<1>6. FirstIn(first, k) \in Int /\ LastIn(last, k) \in Int /\ x \in Int
  BY <1>2, <1>3 DEF FirstIn, LastIn, Low, LastLow
<1> QED
  BY <1>1, <1>2, <1>5, <1>6 DEF PartOf, k, x

-----------------------------------------------------------------------------
(***************************************************************************)
(* Comparisons.                                                            *)
(***************************************************************************)

\* One set of values is in another when each layer is.
LEMMA LayersIncluded ==
  ASSUME NEW b1, SoundBitmap(b1), NEW b2, SoundBitmap(b2)
  PROVE  ToSet(b1) \subseteq ToSet(b2) <=> \A k \in Chunk : Layer(b1, k) \subseteq Layer(b2, k)
<1>1. ASSUME ToSet(b1) \subseteq ToSet(b2), NEW k \in Chunk, NEW x \in Layer(b1, k)
      PROVE  x \in Layer(b2, k)
  <2>1. x \in Low
    BY SoundLayer
  <2>2. <<k, x>> \in Value /\ HighBits(<<k, x>>) = k /\ LowBits(<<k, x>>) = x
    BY <2>1 DEF Value, HighBits, LowBits
  <2> QED
    BY <1>1, <2>2, ToSetLayer
<1>2. ASSUME \A k \in Chunk : Layer(b1, k) \subseteq Layer(b2, k), NEW v \in ToSet(b1)
      PROVE  v \in ToSet(b2)
  <2>1. v \in Value /\ HighBits(v) \in Chunk
    BY ValueParts DEF ToSet
  <2> QED
    BY <1>2, <2>1, ToSetLayer
<1> QED
  BY <1>1, <1>2

\* roaring_bitmap_equals decides equality of the sets.
LEMMA BitmapEqualsDecides ==
  ASSUME NEW b1, SoundBitmap(b1), NEW b2, SoundBitmap(b2)
  PROVE  BitmapEquals(b1, b2) <=> ToSet(b1) = ToSet(b2)
<1>1. ASSUME BitmapEquals(b1, b2)
      PROVE  ToSet(b1) = ToSet(b2)
  <2>1. \A k : Layer(b1, k) = Layer(b2, k)
    BY <1>1 DEF BitmapEquals, ContainerEquals, Layer
  <2> QED
    BY <2>1, LayersDecide
<1>2. ASSUME ToSet(b1) = ToSet(b2)
      PROVE  BitmapEquals(b1, b2)
  <2>1. \A k \in Chunk : Layer(b1, k) = Layer(b2, k)
    <3>1. ToSet(b1) \subseteq ToSet(b2) /\ ToSet(b2) \subseteq ToSet(b1)
      BY <1>2
    <3>2. \A k \in Chunk : Layer(b1, k) \subseteq Layer(b2, k)
      BY <3>1, LayersIncluded
    <3>3. \A k \in Chunk : Layer(b2, k) \subseteq Layer(b1, k)
      BY <3>1, LayersIncluded
    <3> QED
      BY <3>2, <3>3
  <2>2. DOMAIN b1 = DOMAIN b2
    <3>1. DOMAIN b1 \subseteq Chunk /\ DOMAIN b2 \subseteq Chunk
      BY DEF SoundBitmap, IsBitmap
    <3>2. \A k \in Chunk : k \in DOMAIN b1 <=> k \in DOMAIN b2
      BY <2>1, SoundLayer
    <3> QED
      BY <3>1, <3>2
  <2>3. ASSUME NEW k \in DOMAIN b1
        PROVE  ContainerEquals(b1[k], b2[k])
    <3>1. Sound(b1[k]) /\ Sound(b2[k]) /\ k \in Chunk /\ k \in DOMAIN b2
      BY <2>2, SoundContainerAt
    <3>2. b1[k].vals = b2[k].vals
      BY <2>1, <3>1 DEF Layer
    <3> QED
      BY <3>1, <3>2, SoundParts DEF ContainerEquals
  <2> QED
    BY <2>2, <2>3 DEF BitmapEquals
<1> QED
  BY <1>1, <1>2 DEF BitmapEquals

\* container_is_subset never misses an inclusion, and makes one up at most when it
\* seeks runs in an array.
LEMMA ContainerIsSubsetDecides ==
  ASSUME NEW c1, Sound(c1), NEW c2, Sound(c2)
  PROVE  /\ c1.vals \subseteq c2.vals => ContainerIsSubset(c1, c2) = {TRUE}
         /\ ~ (c1.vals \subseteq c2.vals) /\ ~ (c1.type = "run" /\ c2.type = "array")
              => ContainerIsSubset(c1, c2) = {FALSE}
<1> DEFINE holds == /\ ~ (c1.type = "bitset" /\ c2.type = "array")
                    /\ c1.card <= c2.card
                    /\ c1.vals \subseteq c2.vals
           behind == /\ c1.type = "run" /\ c2.type = "array" /\ c1.card <= c2.card
                     /\ MayBeFoundBehind(c1, c2)
<1>1. ContainerIsSubset(c1, c2) = {holds} \union {b \in {TRUE} : behind}
  BY DEF ContainerIsSubset
<1>2. c1.vals \subseteq c2.vals => holds
  <2>1. c1.vals \subseteq c2.vals => c1.card <= c2.card
    <3>1. IsFiniteSet(c2.vals) /\ c1.card = Cardinality(c1.vals) /\ c2.card = Cardinality(c2.vals)
      BY SoundParts, LowSubsets
    <3> QED
      BY <3>1, FS_Subset
  <2>2. c1.type = "bitset" /\ c2.type = "array" => ~ (c1.card <= c2.card)
    BY SoundParts
  <2> QED
    BY <2>1, <2>2
<1>3. holds \in BOOLEAN
  OBVIOUS
<1>4. ~ (c1.vals \subseteq c2.vals) => ~ holds
  OBVIOUS
<1>5. ~ (c1.type = "run" /\ c2.type = "array") => ~ behind
  OBVIOUS
<1> HIDE DEF holds, behind
<1>6. holds => ContainerIsSubset(c1, c2) = {TRUE}
  BY <1>1, <1>3
<1>7. ~ holds /\ ~ behind => ContainerIsSubset(c1, c2) = {FALSE}
  BY <1>1, <1>3
<1> QED
  BY <1>2, <1>4, <1>5, <1>6, <1>7

\* roaring_bitmap_is_subset likewise.
LEMMA BitmapIsSubsetDecides ==
  ASSUME NEW b1, SoundBitmap(b1), NEW b2, SoundBitmap(b2)
  PROVE  /\ ToSet(b1) \subseteq ToSet(b2) => BitmapIsSubset(b1, b2) = {TRUE}
         /\ \/ ToSet(b1) \subseteq ToSet(b2)
            \/ BitmapIsSubset(b1, b2) = {FALSE}
            \/ \E k \in Shared(b1, b2) : b1[k].type = "run" /\ b2[k].type = "array"
<1> DEFINE yes == /\ DOMAIN b1 \subseteq DOMAIN b2
                  /\ \A k \in DOMAIN b1 : TRUE \in ContainerIsSubset(b1[k], b2[k])
           no  == \/ ~ (DOMAIN b1 \subseteq DOMAIN b2)
                  \/ \E k \in Shared(b1, b2) : FALSE \in ContainerIsSubset(b1[k], b2[k])
<1>1. BitmapIsSubset(b1, b2) = {b \in BOOLEAN : IF b THEN yes ELSE no}
  BY DEF BitmapIsSubset
<1>2. \A k \in Shared(b1, b2) :
        /\ k \in DOMAIN b1 /\ k \in DOMAIN b2 /\ k \in Chunk
        /\ Layer(b1, k) = b1[k].vals /\ Layer(b2, k) = b2[k].vals
        /\ b1[k].vals \subseteq b2[k].vals => ContainerIsSubset(b1[k], b2[k]) = {TRUE}
        /\ ~ (b1[k].vals \subseteq b2[k].vals) /\ ~ (b1[k].type = "run" /\ b2[k].type = "array")
             => ContainerIsSubset(b1[k], b2[k]) = {FALSE}
  <2> SUFFICES ASSUME NEW k \in DOMAIN b1, k \in DOMAIN b2
               PROVE  /\ k \in Chunk
                      /\ Layer(b1, k) = b1[k].vals /\ Layer(b2, k) = b2[k].vals
                      /\ b1[k].vals \subseteq b2[k].vals
                           => ContainerIsSubset(b1[k], b2[k]) = {TRUE}
                      /\ ~ (b1[k].vals \subseteq b2[k].vals)
                           /\ ~ (b1[k].type = "run" /\ b2[k].type = "array")
                           => ContainerIsSubset(b1[k], b2[k]) = {FALSE}
    BY Zenon DEF Shared
  <2>1. Sound(b1[k]) /\ Sound(b2[k]) /\ k \in Chunk
    BY SoundContainerAt
  <2> QED
    BY <2>1, ContainerIsSubsetDecides DEF Layer
<1>3. \A k \in DOMAIN b1 : k \in Chunk /\ Layer(b1, k) # {} /\ Layer(b1, k) = b1[k].vals
  BY SoundContainerAt DEF Layer
<1>4. \A k : k \notin DOMAIN b2 => Layer(b2, k) = {}
  BY DEF Layer
<1>5. \A k : k \in Shared(b1, b2) <=> k \in DOMAIN b1 /\ k \in DOMAIN b2
  BY DEF Shared
<1>6. ASSUME ToSet(b1) \subseteq ToSet(b2)
      PROVE  yes /\ ~ no
  <2>1. \A k \in Chunk : Layer(b1, k) \subseteq Layer(b2, k)
    BY <1>6, LayersIncluded
  <2>2. DOMAIN b1 \subseteq DOMAIN b2
    BY <1>3, <1>4, <2>1
  <2>3. \A k \in DOMAIN b1 : ContainerIsSubset(b1[k], b2[k]) = {TRUE}
    BY <1>2, <1>5, <2>1, <2>2
  <2> QED
    BY <1>5, <2>2, <2>3
<1>7. ASSUME ~ (ToSet(b1) \subseteq ToSet(b2)),
             ~ \E k \in Shared(b1, b2) : b1[k].type = "run" /\ b2[k].type = "array"
      PROVE  ~ yes /\ no
  <2>1. PICK k \in Chunk : ~ (Layer(b1, k) \subseteq Layer(b2, k))
    BY <1>7, LayersIncluded
  <2>2. k \in DOMAIN b1
    BY <2>1 DEF Layer
  <2>3. CASE k \notin DOMAIN b2
    BY <2>2, <2>3
  <2>4. CASE k \in DOMAIN b2
    <3>1. ContainerIsSubset(b1[k], b2[k]) = {FALSE}
      BY <1>2, <1>5, <1>7, <2>1, <2>2, <2>4
    <3> QED
      BY <1>5, <2>2, <2>4, <3>1
  <2> QED
    BY <2>3, <2>4
<1> HIDE DEF yes, no
<1>8. /\ yes /\ ~ no => BitmapIsSubset(b1, b2) = {TRUE}
      /\ ~ yes /\ no => BitmapIsSubset(b1, b2) = {FALSE}
  BY <1>1
<1> QED
  BY <1>6, <1>7, <1>8

-----------------------------------------------------------------------------
(***************************************************************************)
(* Order statistics.                                                       *)
(***************************************************************************)

\* The values whose container stands before key k, and the values of the container
\* at k that are at most x.
ValuesBelow(b, k) == {v \in ToSet(b) : HighBits(v) < k}

ValuesIn(b, k, T) == {v \in ToSet(b) : HighBits(v) = k /\ LowBits(v) \in T}

\* A part of a container stands for as many values as it has low halves.
LEMMA ValuesInCount ==
  ASSUME NEW b, SoundBitmap(b), NEW k \in DOMAIN b, NEW T \in SUBSET b[k].vals
  PROVE  Cardinality(ValuesIn(b, k, T)) = Cardinality(T)
<1>1. ValuesIn(b, k, T) = {k} \X T
  <2>1. \A x \in T : <<k, x>> \in ValuesIn(b, k, T)
    BY ToSetMember DEF ValuesIn
  <2>2. \A v \in ValuesIn(b, k, T) : v = <<k, LowBits(v)>> /\ LowBits(v) \in T
    BY ToSetParts DEF ValuesIn
  <2> QED
    BY <2>1, <2>2
<1>2. IsFiniteSet({k}) /\ Cardinality({k}) = 1
  BY FS_Singleton
<1>3. IsFiniteSet(T) /\ Cardinality(T) \in Nat
  BY SoundContainerAt, LowSubsets
<1>4. Cardinality({k} \X T) = Cardinality({k}) * Cardinality(T)
  BY <1>2, <1>3, FS_Product
<1> QED
  BY <1>1, <1>2, <1>3, <1>4

\* What is stored in the container at a key, 0 when there is none.
StoredAt(b, k) == IF k \in DOMAIN b THEN b[k].card ELSE 0

\* The values below the next key are those below this one and those of its container.
LEMMA BelowNext ==
  ASSUME NEW b, SoundBitmap(b), NEW k \in Nat
  PROVE  /\ IsFiniteSet(ValuesBelow(b, k + 1))
         /\ Cardinality(ValuesBelow(b, k)) \in Nat
         /\ Cardinality(ValuesBelow(b, k + 1)) = Cardinality(ValuesBelow(b, k)) + StoredAt(b, k)
<1> DEFINE A == ValuesBelow(b, k)
           L == {v \in ToSet(b) : HighBits(v) = k}
<1>1. ValuesBelow(b, k + 1) = A \union L /\ A \intersect L = {}
  BY ToSetParts DEF ValuesBelow
<1>2. /\ IsFiniteSet(A) /\ Cardinality(A) \in Nat
      /\ IsFiniteSet(L) /\ Cardinality(L) \in Nat
  <2>1. A \in SUBSET ToSet(b) /\ L \in SUBSET ToSet(b)
    BY DEF ValuesBelow
  <2> QED
    BY <2>1, ToSetFinite
<1>3. Cardinality(L) = StoredAt(b, k)
  <2>1. CASE k \in DOMAIN b
    BY <2>1, LayerCardinality DEF StoredAt
  <2>2. CASE k \notin DOMAIN b
    <3>1. L = {}
      BY <2>2 DEF ToSet
    <3> QED
      BY <2>2, <3>1, FS_EmptySet DEF StoredAt
  <2> QED
    BY <2>1, <2>2
<1> HIDE DEF A, L
<1>4. /\ IsFiniteSet(A \union L)
      /\ Cardinality(A \union L) =
           Cardinality(A) + Cardinality(L) - Cardinality(A \intersect L)
  BY <1>2, FS_Union
<1>5. Cardinality(A \intersect L) = 0
  BY <1>1, FS_EmptySet
<1>6. Cardinality(A \union L) = Cardinality(A) + Cardinality(L)
  BY <1>2, <1>4, <1>5
<1> QED
  BY <1>1, <1>2, <1>3, <1>4, <1>6 DEF A

\* The sum of the stored cardinalities before a key is the number of values there.
\* The sum is the only function that satisfies its equation: of the places where
\* another one differed there would be a least.
LEMMA StoredBelowCounts ==
  ASSUME NEW b, SoundBitmap(b), NEW k \in 0 .. KeyMod
  PROVE  StoredBelow(b, k) = Cardinality(ValuesBelow(b, k))
<1> DEFINE N == 0 .. KeyMod
           at(j) == IF j - 1 \in DOMAIN b THEN b[j - 1].card ELSE 0
           Fits(s) == s = [j \in N |-> IF j = 0 THEN 0 ELSE s[j - 1] + at(j)]
           sum == CHOOSE s : Fits(s)
           g == [j \in N |-> Cardinality(ValuesBelow(b, j))]
<1>1. StoredBelow(b, k) = sum[k]
  BY DEF StoredBelow
<1>2. \A j \in N : j # 0 => j - 1 \in N /\ j - 1 \in Nat /\ (j - 1) + 1 = j /\ j \in Nat
  BY BitmapAssumption
<1>3. \A j \in N : at(j) = StoredAt(b, j - 1)
  BY DEF StoredAt
<1> HIDE DEF at
<1>4. Fits(g)
  <2>1. \A j \in N : g[j] = IF j = 0 THEN 0 ELSE g[j - 1] + at(j)
    <3> SUFFICES ASSUME NEW j \in N
                 PROVE  g[j] = IF j = 0 THEN 0 ELSE g[j - 1] + at(j)
      OBVIOUS
    <3>1. CASE j = 0
      <4>1. ValuesBelow(b, 0) = {}
        BY ToSetParts DEF ValuesBelow
      <4> QED
        BY <3>1, <4>1, FS_EmptySet
    <3>2. CASE j # 0
      <4> DEFINE i == j - 1
      <4>1. i \in N /\ i \in Nat /\ i + 1 = j
        BY <1>2, <3>2
      <4> HIDE DEF i
      <4>2. Cardinality(ValuesBelow(b, i + 1)) = Cardinality(ValuesBelow(b, i)) + StoredAt(b, i)
        BY <4>1, BelowNext
      <4>3. g[j] = g[i] + StoredAt(b, i)
        BY <4>1, <4>2
      <4> QED
        BY <1>3, <3>2, <4>3 DEF i
    <3> QED
      BY <3>1, <3>2
  <2> HIDE DEF N
  <2>2. g = [j \in N |-> g[j]]
    OBVIOUS
  <2> HIDE DEF g
  <2> QED
    BY <2>1, <2>2
<1>5. Fits(sum)
  <2> HIDE DEF Fits
  <2> QED
    BY <1>4, Zenon
<1>6. /\ \A j \in N : g[j] = IF j = 0 THEN 0 ELSE g[j - 1] + at(j)
      /\ \A j \in N : sum[j] = IF j = 0 THEN 0 ELSE sum[j - 1] + at(j)
  <2> HIDE DEF g, sum, N
  <2>1. \A s : Fits(s) => \A j \in N : s[j] = IF j = 0 THEN 0 ELSE s[j - 1] + at(j)
    OBVIOUS
  <2> HIDE DEF Fits
  <2> QED
    BY <1>4, <1>5, <2>1, Zenon
<1>7. g[k] = Cardinality(ValuesBelow(b, k))
  OBVIOUS
<1> HIDE DEF g, sum
<1>8. \A j \in N : sum[j] = g[j]
  <2> DEFINE T == {j \in N : sum[j] # g[j]}
  <2> SUFFICES ASSUME T # {} PROVE FALSE
    OBVIOUS
  <2>1. T \in SUBSET Nat
    BY BitmapAssumption
  <2>2. PICK m \in T : \A j \in T : m <= j
    BY <2>1, NatMinimum, Zenon
  <2>3. m \in N /\ sum[m] # g[m] /\ m \in Nat
    BY <2>1, <2>2
  <2>4. m # 0
    BY <1>6, <2>3
  <2>5. m - 1 \in N /\ m - 1 \in Nat
    BY <1>2, <2>3, <2>4
  <2>6. m - 1 \notin T
    BY <2>2, <2>3, <2>5
  <2>7. sum[m - 1] = g[m - 1]
    BY <2>5, <2>6
  <2>8. sum[m] = sum[m - 1] + at(m) /\ g[m] = g[m - 1] + at(m)
    BY <1>6, <2>3, <2>4
  <2> QED
    BY <2>3, <2>7, <2>8
<1> QED
  BY <1>1, <1>7, <1>8

\* The values up to v: those of the containers before, and those up to v in its own.
ValuesUpTo(b, v) == {u \in ToSet(b) : AsInteger(u) <= AsInteger(v)}

\* The low halves of a container that are at most x.
AtMost(b, k, x) == {y \in Layer(b, k) : y <= x}

LEMMA UpToCounts ==
  ASSUME NEW b, SoundBitmap(b), NEW v \in Value
  PROVE  /\ IsFiniteSet(ValuesUpTo(b, v))
         /\ Cardinality(ValuesUpTo(b, v)) =
              StoredBelow(b, HighBits(v)) + Cardinality(AtMost(b, HighBits(v), LowBits(v)))
         /\ StoredBelow(b, HighBits(v)) \in Nat
<1> DEFINE k == HighBits(v)
           x == LowBits(v)
           U == ValuesUpTo(b, v)
           A == ValuesBelow(b, k)
           L == ValuesIn(b, k, AtMost(b, k, x))
<1>1. /\ k \in Chunk /\ k \in Nat /\ x \in Nat /\ k \in 0 .. KeyMod
      /\ v = <<k, x>>
  <2>1. k \in Chunk /\ k \in Nat /\ x \in Nat /\ v = <<k, x>>
    BY ValueParts, KeysAreNat
  <2> HIDE DEF k
  <2>2. k \in 0 .. KeyMod
    BY <2>1, BitmapAssumption
  <2> QED
    BY <2>1, <2>2
<1>2. \A u \in ToSet(b) :
        /\ u \in Value /\ u = <<HighBits(u), LowBits(u)>>
        /\ HighBits(u) \in Nat /\ LowBits(u) \in Nat
        /\ HighBits(u) \in DOMAIN b /\ LowBits(u) \in b[HighBits(u)].vals
  BY ToSetParts
<1>3. \A u \in ToSet(b) : AsInteger(u) <= AsInteger(v) <=>
        HighBits(u) < k \/ (HighBits(u) = k /\ LowBits(u) <= x)
  <2> SUFFICES ASSUME NEW u \in ToSet(b)
               PROVE  AsInteger(u) <= AsInteger(v) <=>
                        HighBits(u) < k \/ (HighBits(u) = k /\ LowBits(u) <= x)
    OBVIOUS
  <2>1. AsInteger(u) <= AsInteger(v) <=> Precedes(u, v) \/ u = v
    BY <1>2, AsIntegerOrder
  <2>2. Precedes(u, v) <=> HighBits(u) < k \/ (HighBits(u) = k /\ LowBits(u) < x)
    BY DEF Precedes
  <2> HIDE DEF k, x
  <2>3. u = v <=> HighBits(u) = k /\ LowBits(u) = x
    BY <1>1, <1>2 DEF k, x
  <2> QED
    BY <1>1, <1>2, <2>1, <2>2, <2>3
<1>4. \A u \in ToSet(b) : HighBits(u) = k => LowBits(u) \in Layer(b, k)
  BY <1>2 DEF Layer
<1> HIDE DEF k, x
<1>5. U = A \union L /\ A \intersect L = {}
  BY <1>1, <1>2, <1>3, <1>4 DEF ValuesUpTo, ValuesBelow, ValuesIn, AtMost
<1>6. /\ IsFiniteSet(A) /\ Cardinality(A) \in Nat
      /\ IsFiniteSet(L) /\ Cardinality(L) \in Nat
  <2>1. A \in SUBSET ToSet(b) /\ L \in SUBSET ToSet(b)
    BY DEF ValuesBelow, ValuesIn
  <2> QED
    BY <2>1, ToSetFinite
<1>7. Cardinality(L) = Cardinality(AtMost(b, k, x))
  <2>1. CASE k \in DOMAIN b
    <3>1. AtMost(b, k, x) \in SUBSET b[k].vals
      BY <2>1 DEF AtMost, Layer
    <3> QED
      BY <2>1, <3>1, ValuesInCount
  <2>2. CASE k \notin DOMAIN b
    <3>1. L = {} /\ AtMost(b, k, x) = {}
      BY <2>2 DEF AtMost, Layer, ValuesIn
    <3> QED
      BY <3>1
  <2> QED
    BY <2>1, <2>2
<1>8. StoredBelow(b, k) = Cardinality(A)
  BY <1>1, StoredBelowCounts
<1> HIDE DEF A, L, U
<1>9. /\ IsFiniteSet(A \union L)
      /\ Cardinality(A \union L) =
           Cardinality(A) + Cardinality(L) - Cardinality(A \intersect L)
  BY <1>6, FS_Union
<1>10. Cardinality(A \intersect L) = 0
  BY <1>5, FS_EmptySet
<1>11. Cardinality(A \union L) = Cardinality(A) + Cardinality(L)
  BY <1>6, <1>9, <1>10
<1> QED
  BY <1>5, <1>6, <1>7, <1>8, <1>9, <1>11 DEF U, k, x

\* roaring_bitmap_rank counts the values up to v.
LEMMA BitmapRankCounts ==
  ASSUME NEW b, SoundBitmap(b), NEW v \in Value
  PROVE  BitmapRank(b, v) = Cardinality(ValuesUpTo(b, v))
<1> DEFINE k == HighBits(v)
<1>1. CASE k \in DOMAIN b
  BY <1>1, UpToCounts DEF BitmapRank, ContainerRank, AtMost, Layer
<1>2. CASE k \notin DOMAIN b
  <2>1. AtMost(b, k, LowBits(v)) = {}
    BY <1>2 DEF AtMost, Layer
  <2>2. Cardinality(AtMost(b, k, LowBits(v))) = 0
    BY <2>1, FS_EmptySet
  <2>3. BitmapRank(b, v) = StoredBelow(b, k) + 0
    BY <1>2 DEF BitmapRank
  <2> QED
    BY <2>2, <2>3, UpToCounts
<1> QED
  BY <1>1, <1>2

\* The containers before a key hold no more values than stand before it, and all of
\* them no more than there are.
LEMMA StoredUpToNext ==
  ASSUME NEW b, SoundBitmap(b), NEW j \in DOMAIN b
  PROVE  /\ StoredBelow(b, j) \in Nat /\ b[j].card \in Nat
         /\ StoredBelow(b, j) + b[j].card <= Cardinality(ToSet(b))
         /\ \A k \in DOMAIN b : j < k => StoredBelow(b, j) + b[j].card <= StoredBelow(b, k)
<1>1. \A k \in DOMAIN b : k \in Nat /\ k \in 0 .. KeyMod
  BY KeysAreNat, BitmapAssumption DEF SoundBitmap, IsBitmap
<1>2. \A k \in DOMAIN b : StoredBelow(b, k) = Cardinality(ValuesBelow(b, k))
  BY <1>1, StoredBelowCounts
<1>3. /\ Cardinality(ValuesBelow(b, j)) \in Nat
      /\ Cardinality(ValuesBelow(b, j + 1)) = Cardinality(ValuesBelow(b, j)) + b[j].card
  BY <1>1, BelowNext DEF StoredAt
<1>4. b[j].card \in Nat
  BY SoundContainerAt, SoundNonEmpty
<1>5. Cardinality(ValuesBelow(b, j + 1)) <= Cardinality(ToSet(b))
  <2>1. ValuesBelow(b, j + 1) \in SUBSET ToSet(b) /\ IsFiniteSet(ToSet(b))
    BY ToSetFinite DEF ValuesBelow
  <2> QED
    BY <2>1, FS_Subset
<1>6. \A k \in DOMAIN b : j < k =>
        Cardinality(ValuesBelow(b, j + 1)) <= Cardinality(ValuesBelow(b, k))
  <2> SUFFICES ASSUME NEW k \in DOMAIN b, j < k
               PROVE  Cardinality(ValuesBelow(b, j + 1)) <= Cardinality(ValuesBelow(b, k))
    OBVIOUS
  <2>1. ValuesBelow(b, j + 1) \subseteq ValuesBelow(b, k)
    <3>1. j \in Nat /\ k \in Nat /\ \A v \in ToSet(b) : HighBits(v) \in Nat
      BY <1>1, ToSetParts
    <3> QED
      BY <3>1 DEF ValuesBelow
  <2>2. IsFiniteSet(ValuesBelow(b, k))
    <3>1. ValuesBelow(b, k) \in SUBSET ToSet(b)
      BY DEF ValuesBelow
    <3> QED
      BY <3>1, ToSetFinite
  <2> QED
    BY <2>1, <2>2, FS_Subset
<1> QED
  BY <1>2, <1>3, <1>4, <1>5, <1>6

\* The value of a container with a given number of smaller ones is the only one.
LEMMA ContainerSelectFinds ==
  ASSUME NEW S \in SUBSET Low, NEW x \in S, NEW c, c.vals = S,
         NEW r, r = Cardinality({y \in S : y < x})
  PROVE  ContainerSelect(c, r) = x
<1> DEFINE before(z) == {y \in S : y < z}
<1>1. S \in SUBSET Nat
  BY KeysAreNat
<1>2. ASSUME NEW z \in S, NEW w \in S, z < w
      PROVE  Cardinality(before(z)) # Cardinality(before(w))
  <2>1. before(z) \subseteq before(w) /\ z \in before(w) /\ z \notin before(z)
    <3>1. z \in Nat /\ w \in Nat
      BY <1>1
    <3>2. \A y \in S : y < z => y < w
      BY <1>1, <1>2, <3>1
    <3>3. ~ (z < z)
      BY <3>1
    <3> QED
      BY <1>2, <3>2, <3>3
  <2>2. IsFiniteSet(before(w))
    <3>1. before(w) \in SUBSET Low
      OBVIOUS
    <3> QED
      BY <3>1, LowSubsets
  <2> HIDE DEF before
  <2> QED
    BY <2>1, <2>2, FS_Subset
<1>3. \A z \in S : Cardinality(before(z)) = r => z = x
  <2> SUFFICES ASSUME NEW z \in S, Cardinality(before(z)) = r, z # x
               PROVE  FALSE
    OBVIOUS
  <2>1. z < x \/ x < z
    BY <1>1
  <2> QED
    BY <1>2, <2>1
<1>4. ContainerSelect(c, r) = CHOOSE z \in S : Cardinality(before(z)) = r
  BY DEF ContainerSelect
<1>5. Cardinality(before(x)) = r
  OBVIOUS
<1> HIDE DEF before
<1> QED
  BY <1>3, <1>4, <1>5

\* roaring_bitmap_select is the inverse of rank, and fails past the last value.
LEMMA BitmapSelectFinds ==
  ASSUME NEW b, SoundBitmap(b)
  PROVE  /\ \A v \in ToSet(b) : BitmapSelect(b, Cardinality(ValuesUpTo(b, v)) - 1) = v
         /\ BitmapSelect(b, Cardinality(ToSet(b))) = <<>>
<1>1. ASSUME NEW v \in ToSet(b)
      PROVE  BitmapSelect(b, Cardinality(ValuesUpTo(b, v)) - 1) = v
  <2> DEFINE k == HighBits(v)
             x == LowBits(v)
             S == b[k].vals
             before == {y \in S : y < x}
             r == Cardinality(ValuesUpTo(b, v)) - 1
             past == {j \in DOMAIN b : StoredBelow(b, j) + b[j].card > r}
  <2>1. /\ v \in Value /\ v = <<k, x>> /\ k \in DOMAIN b /\ x \in S
        /\ x \in Nat
    BY ToSetParts
  <2>2. S \in SUBSET Low /\ S \in SUBSET Nat /\ b[k].card = Cardinality(S)
    BY <2>1, SoundContainerAt, SoundParts, KeysAreNat
  <2>3. /\ Cardinality(AtMost(b, k, x)) = Cardinality(before) + 1
        /\ Cardinality(before) \in Nat
        /\ Cardinality(before) < Cardinality(S)
    <3>1. AtMost(b, k, x) = before \union {x} /\ x \notin before
      BY <2>1, <2>2 DEF AtMost, Layer
    <3>2. before \in SUBSET Low /\ before \subseteq S /\ before # S
      BY <2>1, <2>2
    <3>3. IsFiniteSet(before) /\ Cardinality(before) \in Nat
      BY <3>2, LowSubsets
    <3>4. IsFiniteSet(S) /\ Cardinality(S) \in Nat
      BY <2>2, LowSubsets
    <3> HIDE DEF before, S, x
    <3>5. Cardinality(before \union {x}) = Cardinality(before) + 1
      BY <3>1, <3>3, FS_AddElement
    <3>6. Cardinality(before) <= Cardinality(S) /\ Cardinality(before) # Cardinality(S)
      BY <3>2, <3>4, FS_Subset
    <3> QED
      BY <3>1, <3>3, <3>4, <3>5, <3>6
  <2>4. r = StoredBelow(b, k) + Cardinality(before) /\ StoredBelow(b, k) \in Nat
    <3>1. Cardinality(ValuesUpTo(b, v)) =
            StoredBelow(b, k) + Cardinality(AtMost(b, k, x))
      BY <2>1, UpToCounts
    <3>2. StoredBelow(b, k) \in Nat
      BY <2>1, UpToCounts
    <3> HIDE DEF k, x, before
    <3> QED
      BY <2>3, <3>1, <3>2
  <2>5. \A j \in DOMAIN b : j \in Nat
    BY KeysAreNat DEF SoundBitmap, IsBitmap
  <2> HIDE DEF k, x, S, before, r
  <2>6. k \in past
    <3>1. StoredBelow(b, k) + b[k].card > r
      BY <2>2, <2>3, <2>4, LowSubsets
    <3> QED
      BY <2>1, <3>1
  <2>7. \A j \in past : k <= j
    <3> SUFFICES ASSUME NEW j \in DOMAIN b, StoredBelow(b, j) + b[j].card > r, j < k
                 PROVE  FALSE
      BY <2>1, <2>5
    <3>1. StoredBelow(b, j) + b[j].card <= StoredBelow(b, k)
      BY <2>1, StoredUpToNext
    <3>2. StoredBelow(b, j) \in Nat /\ b[j].card \in Nat
      BY StoredUpToNext
    <3> QED
      BY <2>3, <2>4, <3>1, <3>2
  <2>8. past \in SUBSET Nat /\ past # {}
    BY <2>5, <2>6
  <2> HIDE DEF past
  <2>9. Least(past) = k
    <3>1. Least(past) \in past /\ \A y \in past : Least(past) <= y
      BY <2>8, LeastIsMinimum
    <3> DEFINE l == Least(past)
    <3>2. l \in Nat /\ k \in Nat /\ l <= k /\ k <= l
      BY <2>6, <2>7, <2>8, <3>1
    <3> HIDE DEF l
    <3>3. l = k
      BY <3>2
    <3> QED
      BY <3>3 DEF l
  <2>10. BitmapSelect(b, r) = <<k, ContainerSelect(b[k], r - StoredBelow(b, k))>>
    BY <2>8, <2>9 DEF BitmapSelect, past
  <2>11. r - StoredBelow(b, k) = Cardinality(before)
    BY <2>3, <2>4
  <2>12. ContainerSelect(b[k], Cardinality(before)) = x
    BY <2>1, <2>2, ContainerSelectFinds DEF S, before
  <2> QED
    BY <2>1, <2>10, <2>11, <2>12 DEF r
<1>2. BitmapSelect(b, Cardinality(ToSet(b))) = <<>>
  <2> DEFINE n == Cardinality(ToSet(b))
             past == {j \in DOMAIN b : StoredBelow(b, j) + b[j].card > n}
  <2>1. n \in Nat
    BY ToSetFinite
  <2>2. \A j \in DOMAIN b : ~ (StoredBelow(b, j) + b[j].card > n)
    <3> SUFFICES ASSUME NEW j \in DOMAIN b
                 PROVE  ~ (StoredBelow(b, j) + b[j].card > n)
      OBVIOUS
    <3> HIDE DEF n
    <3>1. /\ StoredBelow(b, j) + b[j].card <= n
          /\ StoredBelow(b, j) \in Nat /\ b[j].card \in Nat
      BY StoredUpToNext DEF n
    <3> QED
      BY <2>1, <3>1
  <2>3. past = {}
    BY <2>2
  <2> QED
    BY <2>3 DEF BitmapSelect
<1> QED
  BY <1>1, <1>2

\* The extremes: no value is below the least of the first container, and none above
\* the greatest of the last.
LEMMA GreatestIsMaximum ==
  ASSUME NEW N \in Nat, NEW T \in SUBSET (0 .. N), T # {}
  PROVE  Greatest(T) \in T /\ \A y \in T : y <= Greatest(T)
<1> DEFINE R == {N - x : x \in T}
<1>1. R \in SUBSET Nat /\ R # {}
  <2>1. \A x \in T : N - x \in Nat
    OBVIOUS
  <2>2. PICK x \in T : TRUE
    OBVIOUS
  <2> QED
    BY <2>1, <2>2
<1>2. PICK m \in R : \A y \in R : m <= y
  BY <1>1, NatMinimum, Zenon
<1>3. PICK x \in T : m = N - x
  BY <1>2
<1>4. \A y \in T : y <= x
  <2> TAKE y \in T
  <2>1. m <= N - y /\ y \in 0 .. N /\ x \in 0 .. N
    BY <1>2
  <2> QED
    BY <1>3, <2>1
<1> QED
  BY <1>4, Zenon DEF Greatest

LEMMA ExtremesAre ==
  ASSUME NEW b, SoundBitmap(b), ToSet(b) # {}
  PROVE  /\ ValuesUpTo(b, BitmapMinimum(b)) = {BitmapMinimum(b)}
         /\ ValuesUpTo(b, BitmapMaximum(b)) = ToSet(b)
         /\ BitmapMaximum(b) \in ToSet(b)
<1> DEFINE first == BitmapMinimum(b)
           last  == BitmapMaximum(b)
<1>1. DOMAIN b # {}
  BY DEF ToSet
<1>2. DOMAIN b \in SUBSET Nat /\ DOMAIN b \in SUBSET (0 .. KeyMod) /\ KeyMod \in Nat
  BY KeysAreNat, BitmapAssumption DEF SoundBitmap, IsBitmap
<1>3. first \in ToSet(b) /\ \A w \in ToSet(b) : w = first \/ Precedes(first, w)
  <2>1. {j \in DOMAIN b : j >= 0} = DOMAIN b
    BY <1>2
  <2>2. first = LoadFirst(b, 0)
    BY <1>1, <2>1 DEF BitmapMinimum, LoadFirst
  <2>3. \E j \in DOMAIN b : j >= 0
    BY <1>1, <2>1
  <2>4. \A w \in ToSet(b) : HighBits(w) >= 0
    BY ToSetParts
  <2> HIDE DEF first
  <2> QED
    BY <2>2, <2>3, <2>4, LoadFirstLeast
<1>4. last \in ToSet(b) /\ \A w \in ToSet(b) : w = last \/ Precedes(w, last)
  <2> DEFINE k == Greatest(DOMAIN b)
             x == Greatest(b[k].vals)
  <2>1. k \in DOMAIN b /\ \A j \in DOMAIN b : j <= k
    BY <1>1, <1>2, GreatestIsMaximum
  <2> HIDE DEF k
  <2>2. b[k].vals # {} /\ b[k].vals \in SUBSET (0 .. ChunkSize - 1) /\ ChunkSize - 1 \in Nat
    BY <2>1, SoundContainerAt, ContainerAssumption DEF Low
  <2>3. x \in b[k].vals /\ \A y \in b[k].vals : y <= x
    BY <2>2, GreatestIsMaximum
  <2> HIDE DEF x
  <2>4. last = <<k, x>>
    BY DEF BitmapMaximum, k, x
  <2>5. last \in ToSet(b) /\ HighBits(last) = k /\ LowBits(last) = x
    BY <2>1, <2>3, <2>4, ToSetMember
  <2>6. ASSUME NEW w \in ToSet(b)
        PROVE  w = last \/ Precedes(w, last)
    <3>1. /\ w = <<HighBits(w), LowBits(w)>> /\ HighBits(w) \in DOMAIN b
          /\ LowBits(w) \in b[HighBits(w)].vals
          /\ HighBits(w) \in Nat /\ LowBits(w) \in Nat
      BY ToSetParts
    <3>2. HighBits(w) <= k /\ (HighBits(w) = k => LowBits(w) <= x)
      BY <2>1, <2>3, <3>1
    <3>3. k \in Nat /\ x \in Nat
      BY <1>2, <2>1, <2>2, <2>3
    <3> HIDE DEF last
    <3> QED
      BY <2>4, <2>5, <3>1, <3>2, <3>3 DEF Precedes
  <2> QED
    BY <2>5, <2>6
<1> HIDE DEF first, last
<1>5. \A w \in ToSet(b) : w \in Value
  BY DEF ToSet
<1>6. ValuesUpTo(b, first) = {first}
  <2>1. \A w \in ToSet(b) : AsInteger(w) <= AsInteger(first) <=> w = first
    <3> SUFFICES ASSUME NEW w \in ToSet(b)
                 PROVE  AsInteger(w) <= AsInteger(first) <=> w = first
      OBVIOUS
    <3>1. /\ AsInteger(w) \in Nat /\ AsInteger(first) \in Nat
          /\ AsInteger(first) < AsInteger(w) <=> Precedes(first, w)
          /\ AsInteger(w) <= AsInteger(first) <=> Precedes(w, first) \/ w = first
      BY <1>3, <1>5, AsIntegerOrder
    <3> QED
      BY <1>3, <3>1
  <2> QED
    BY <1>3, <2>1 DEF ValuesUpTo
<1>7. ValuesUpTo(b, last) = ToSet(b)
  <2>1. \A w \in ToSet(b) : AsInteger(w) <= AsInteger(last)
    BY <1>4, <1>5, AsIntegerOrder
  <2> QED
    BY <2>1 DEF ValuesUpTo
<1> QED
  BY <1>4, <1>6, <1>7 DEF first, last

=============================================================================
