-------------------------- MODULE ReplicationProofs -------------------------
(***************************************************************************)
(* What roaring_bitmap_deserialize makes of what roaring_bitmap_serialize  *)
(* has written, for every bitmap whose containers are sound; what loading  *)
(* brings back of what was saved; and what a restart of the server and a   *)
(* synchronisation of the replica bring back, for every set of keys, every *)
(* setting that does not rewrite the append-only file with commands, and   *)
(* every value of the constants.                                           *)
(***************************************************************************)
EXTENDS Replication, RdbCallbacks, BitmapsProofs, SequenceTheorems

-----------------------------------------------------------------------------
(***************************************************************************)
(* add_many.                                                               *)
(***************************************************************************)

\* The bitmaps with sound containers only, as a set.
Held == {b \in UNION {[K -> Container] : K \in SUBSET Chunk} : SoundBitmap(b)}

LEMMA HeldAreSound ==
  ASSUME NEW b
  PROVE  b \in Held <=> SoundBitmap(b)
<1>1. ASSUME SoundBitmap(b) PROVE b \in UNION {[K -> Container] : K \in SUBSET Chunk}
  <2>1. DOMAIN b \in SUBSET Chunk /\ b \in [DOMAIN b -> Container]
    BY <1>1 DEF SoundBitmap, IsBitmap
  <2> QED
    BY <2>1
<1> QED
  BY <1>1 DEF Held

\* The loop of add_many: a bitmap after each of the values.
LEMMA AddManyLoop ==
  ASSUME NEW b, SoundBitmap(b), NEW n \in Nat, NEW s, \A i \in 1 .. n : s[i] \in Value
  PROVE  \E f \in [0 .. n -> Held] :
           /\ f[0] = b
           /\ \A i \in 1 .. n : f[i] = BitmapAdd(f[i - 1], s[i])
           /\ AddMany(b, n, s) = f[n]
<1> DEFINE Loop(f) == f = [i \in 0 .. n |-> IF i = 0 THEN b ELSE BitmapAdd(f[i - 1], s[i])]
           turn == [i \in 1 .. n |-> [d \in Held |-> BitmapAdd(d, s[i])]]
           added == CHOOSE f : Loop(f)
<1>1. AddMany(b, n, s) = added[n]
  BY DEF AddMany
<1>2. turn \in [1 .. n -> [Held -> Held]]
  <2>1. \A i \in 1 .. n : \A d \in Held : BitmapAdd(d, s[i]) \in Held
    BY HeldAreSound, BitmapAddSound
  <2> QED
    BY <2>1
<1>3. b \in Held
  BY HeldAreSound
<1>4. PICK f \in [0 .. n -> Held] : f[0] = b /\ \A i \in 1 .. n : f[i] = turn[i][f[i - 1]]
  <2> HIDE DEF turn
  <2>1. \E f : States(Held, b, n, turn, f)
    BY <1>2, <1>3, LoopExists DEF Turns
  <2> QED
    BY <2>1 DEF States
<1>5. ASSUME NEW i \in 1 .. n
      PROVE  f[i - 1] \in Held /\ f[i] = BitmapAdd(f[i - 1], s[i])
  <2>1. i - 1 \in 0 .. n /\ f[i] = turn[i][f[i - 1]]
    BY <1>4
  <2>2. f[i - 1] \in Held
    BY <2>1
  <2>3. turn[i] = [d \in Held |-> BitmapAdd(d, s[i])]
    OBVIOUS
  <2> QED
    BY <2>1, <2>2, <2>3
<1>6. Loop(f)
  <2>1. \A i \in 0 .. n : i # 0 => i \in 1 .. n
    OBVIOUS
  <2>2. \A i \in 0 .. n : f[i] = IF i = 0 THEN b ELSE BitmapAdd(f[i - 1], s[i])
    BY <1>4, <1>5, <2>1
  <2>3. f = [i \in 0 .. n |-> f[i]]
    OBVIOUS
  <2> QED
    BY <2>2, <2>3
<1>7. Loop(added)
  <2> HIDE DEF Loop
  <2> QED
    BY <1>6, Zenon
<1>8. added[0] = b /\ \A i \in 1 .. n : added[i] = BitmapAdd(added[i - 1], s[i])
  <2> HIDE DEF added
  <2>1. \A i \in 1 .. n : i \in 0 .. n /\ i # 0
    OBVIOUS
  <2>2. 0 \in 0 .. n
    OBVIOUS
  <2>3. \A i \in 0 .. n : added[i] = IF i = 0 THEN b ELSE BitmapAdd(added[i - 1], s[i])
    BY <1>7
  <2> QED
    BY <2>1, <2>2, <2>3
<1> HIDE DEF added, Loop, turn
<1>9. \A i \in 0 .. n : added[i] = f[i]
  <2> DEFINE T == {i \in 0 .. n : added[i] = f[i]}
  <2>1. 0 \in T
    BY <1>4, <1>8
  <2>2. \A i \in 1 .. n : i - 1 \in T => i \in T
    BY <1>5, <1>8
  <2> HIDE DEF T
  <2>3. \A i \in 0 .. n : i \in T
    BY <2>1, <2>2, TurnByTurn
  <2> QED
    BY <2>3 DEF T
<1> QED
  BY <1>1, <1>4, <1>5, <1>9

\* add_many adds the values it is given and nothing else, and keeps a bitmap free of
\* run containers.
LEMMA AddManySound ==
  ASSUME NEW b, SoundBitmap(b), NEW n \in Nat, NEW s, \A i \in 1 .. n : s[i] \in Value
  PROVE  /\ SoundBitmap(AddMany(b, n, s))
         /\ Canonical(b) => Canonical(AddMany(b, n, s))
         /\ ToSet(AddMany(b, n, s)) = ToSet(b) \union {s[i] : i \in 1 .. n}
<1>1. PICK f \in [0 .. n -> Held] :
        /\ f[0] = b
        /\ \A i \in 1 .. n : f[i] = BitmapAdd(f[i - 1], s[i])
        /\ AddMany(b, n, s) = f[n]
  BY AddManyLoop
<1> DEFINE T == {i \in 0 .. n : /\ Canonical(b) => Canonical(f[i])
                                /\ ToSet(f[i]) = ToSet(b) \union {s[j] : j \in 1 .. i}}
<1>2. 0 \in T
  <2>1. {s[j] : j \in 1 .. 0} = {}
    OBVIOUS
  <2> QED
    BY <1>1, <2>1
<1>3. ASSUME NEW i \in 1 .. n, i - 1 \in T PROVE i \in T
  <2>1. /\ i - 1 \in 0 .. n /\ SoundBitmap(f[i - 1]) /\ s[i] \in Value
        /\ f[i] = BitmapAdd(f[i - 1], s[i])
    BY <1>1, HeldAreSound
  <2>2. /\ Canonical(f[i - 1]) => Canonical(f[i])
        /\ ToSet(f[i]) = ToSet(f[i - 1]) \union {s[i]}
    BY <2>1, BitmapAddSound
  <2>3. {s[j] : j \in 1 .. i} = {s[j] : j \in 1 .. i - 1} \union {s[i]}
    <3>1. \A j : j \in 1 .. i <=> j \in 1 .. i - 1 \/ j = i
      OBVIOUS
    <3> QED
      BY <3>1
  <2> QED
    BY <1>3, <2>2, <2>3
<1>4. n \in T
  <2> HIDE DEF T
  <2>1. \A i \in 0 .. n : i \in T
    BY <1>2, <1>3, TurnByTurn
  <2> QED
    BY <2>1
<1>5. f[n] \in Held
  BY <1>1
<1> QED
  BY <1>1, <1>4, <1>5, HeldAreSound

-----------------------------------------------------------------------------
(***************************************************************************)
(* ra_to_uint32_array.                                                     *)
(***************************************************************************)

\* The values up to v in the order of the iterator.
Passed(b, v) == {w \in ToSet(b) : w = v \/ Precedes(w, v)}

LEMMA PrecedesOrders ==
  ASSUME NEW b, SoundBitmap(b), NEW u \in ToSet(b), NEW v \in ToSet(b), NEW w \in ToSet(b)
  PROVE  /\ ~ Precedes(u, u)
         /\ u = v \/ Precedes(u, v) \/ Precedes(v, u)
         /\ Precedes(u, v) /\ Precedes(v, w) => Precedes(u, w)
<1>1. /\ u = <<HighBits(u), LowBits(u)>> /\ HighBits(u) \in Nat /\ LowBits(u) \in Nat
      /\ v = <<HighBits(v), LowBits(v)>> /\ HighBits(v) \in Nat /\ LowBits(v) \in Nat
      /\ HighBits(w) \in Nat /\ LowBits(w) \in Nat
  BY ToSetParts
<1> QED
  BY <1>1 DEF Precedes

\* The iterator starts at the value that no other precedes.
LEMMA FirstPassed ==
  ASSUME NEW b, SoundBitmap(b), ToSet(b) # {}
  PROVE  /\ CreateIterator(b) \in ToSet(b)
         /\ Passed(b, CreateIterator(b)) = {CreateIterator(b)}
<1> DEFINE r == CreateIterator(b)
<1>1. \E k \in DOMAIN b : k >= 0
  <2>1. PICK v \in ToSet(b) : TRUE
    OBVIOUS
  <2> QED
    BY <2>1, ToSetParts
<1>2. 0 \in Nat
  OBVIOUS
<1>3. r \in ToSet(b) /\ \A w \in ToSet(b) : HighBits(w) >= 0 => w = r \/ Precedes(r, w)
  BY <1>1, <1>2, LoadFirstLeast DEF CreateIterator
<1> HIDE DEF r
<1>4. \A w \in ToSet(b) : HighBits(w) >= 0
  BY ToSetParts
<1>5. \A w \in ToSet(b) : Precedes(w, r) => w = r
  BY <1>3, <1>4, PrecedesOrders
<1>6. Passed(b, r) = {r}
  BY <1>3, <1>5 DEF Passed
<1> QED
  BY <1>3, <1>6 DEF r

\* It passes the values one at a time.
LEMMA NextPassed ==
  ASSUME NEW b, SoundBitmap(b), NEW v \in ToSet(b), Passed(b, v) # ToSet(b)
  PROVE  /\ AdvanceIterator(b, v) \in ToSet(b)
         /\ AdvanceIterator(b, v) \notin Passed(b, v)
         /\ Passed(b, AdvanceIterator(b, v)) = Passed(b, v) \union {AdvanceIterator(b, v)}
<1> DEFINE r == AdvanceIterator(b, v)
<1>1. \E w \in ToSet(b) : Precedes(v, w)
  <2>1. PICK w \in ToSet(b) : w \notin Passed(b, v)
    BY DEF Passed
  <2> QED
    BY <2>1, PrecedesOrders DEF Passed
<1>2. /\ r \in ToSet(b) /\ Precedes(v, r)
      /\ \A w \in ToSet(b) : Precedes(v, w) => w = r \/ Precedes(r, w)
  BY <1>1, AdvanceIteratorNext
<1> HIDE DEF r
<1>3. r \notin Passed(b, v)
  BY <1>2, PrecedesOrders DEF Passed
<1>4. ASSUME NEW w \in ToSet(b)
      PROVE  w \in Passed(b, r) <=> w \in Passed(b, v) \/ w = r
  <2>1. Precedes(w, r) => w = v \/ Precedes(w, v)
    BY <1>2, PrecedesOrders
  <2>2. w = v \/ Precedes(w, v) => Precedes(w, r)
    BY <1>2, PrecedesOrders
  <2> QED
    BY <2>1, <2>2 DEF Passed
<1>5. Passed(b, r) = Passed(b, v) \union {r}
  BY <1>2, <1>4 DEF Passed
<1> QED
  BY <1>2, <1>3, <1>5 DEF r

\* The array holds every value of the bitmap, and nothing else.
LEMMA ArrayOfValues ==
  ASSUME NEW b, SoundBitmap(b)
  PROVE  /\ Cardinality(ToSet(b)) \in Nat
         /\ ToUint32Array(b) \in [1 .. Cardinality(ToSet(b)) -> ToSet(b)]
         /\ {ToUint32Array(b)[i] : i \in 1 .. Cardinality(ToSet(b))} = ToSet(b)
<1> DEFINE n == Cardinality(ToSet(b))
           S == ToSet(b) \union {<<>>}
           Loop(g) == g = [i \in 1 .. n |->
                             IF i = 1 THEN CreateIterator(b) ELSE AdvanceIterator(b, g[i - 1])]
           next == CHOOSE g : Loop(g)
<1>1. n \in Nat /\ IsFiniteSet(ToSet(b))
  BY ToSetFinite
<1>2. ToUint32Array(b) = next
  BY DEF ToUint32Array
<1>3. CASE n = 0
  <2>1. ToSet(b) = {} /\ 1 .. n = {}
    BY <1>1, <1>3, FS_EmptySet
  <2> DEFINE g == [i \in 1 .. n |-> CreateIterator(b)]
  <2>2. Loop(g)
    BY <2>1
  <2> HIDE DEF Loop, g
  <2>3. Loop(next)
    BY <2>2, Zenon
  <2>4. next = [i \in 1 .. n |->
                  IF i = 1 THEN CreateIterator(b) ELSE AdvanceIterator(b, next[i - 1])]
    BY <2>3 DEF Loop
  <2> HIDE DEF next, n
  <2>5. next \in [1 .. n -> ToSet(b)] /\ {next[i] : i \in 1 .. n} = {}
    BY <2>1, <2>4
  <2> QED
    BY <1>1, <1>2, <2>1, <2>5 DEF n
<1>4. CASE n # 0
  <2> DEFINE turn == [i \in 1 .. n - 1 |->
                        [v \in S |-> IF v \in ToSet(b) THEN AdvanceIterator(b, v) ELSE <<>>]]
  <2>1. n - 1 \in Nat /\ ToSet(b) # {}
    BY <1>1, <1>4, FS_EmptySet
  <2>2. CreateIterator(b) \in S /\ CreateIterator(b) \in ToSet(b)
    BY <2>1, FirstPassed
  <2>3. turn \in [1 .. n - 1 -> [S -> S]]
    <3>1. \A v \in ToSet(b) : AdvanceIterator(b, v) \in S
      BY AdvanceIteratorNext
    <3> HIDE DEF n
    <3> QED
      BY <3>1
  <2>4. PICK f \in [0 .. n - 1 -> S] :
          f[0] = CreateIterator(b) /\ \A i \in 1 .. n - 1 : f[i] = turn[i][f[i - 1]]
    <3> DEFINE m == n - 1
               a == CreateIterator(b)
    <3>1. m \in Nat /\ turn \in [1 .. m -> [S -> S]] /\ a \in S
      BY <2>1, <2>2, <2>3
    <3> HIDE DEF turn, S, n, m, a
    <3>2. \E f : States(S, a, m, turn, f)
      BY <3>1, LoopExists DEF Turns
    <3> QED
      BY <3>2 DEF States, m, a
  <2>5. ASSUME NEW i \in 1 .. n - 1, f[i - 1] \in ToSet(b)
        PROVE  f[i] = AdvanceIterator(b, f[i - 1])
    <3>1. f[i] = turn[i][f[i - 1]] /\ f[i - 1] \in S
      BY <2>4, <2>5
    <3> HIDE DEF n, S
    <3>2. turn[i] = [v \in S |-> IF v \in ToSet(b) THEN AdvanceIterator(b, v) ELSE <<>>]
      OBVIOUS
    <3> QED
      BY <2>5, <3>1, <3>2
  <2> HIDE DEF n, turn
  <2> DEFINE T == {i \in 0 .. n - 1 : /\ f[i] \in ToSet(b)
                                      /\ Passed(b, f[i]) = {f[j] : j \in 0 .. i}
                                      /\ Cardinality(Passed(b, f[i])) = i + 1}
  <2>6. 0 \in T
    <3>1. Passed(b, f[0]) = {f[0]} /\ f[0] \in ToSet(b)
      BY <2>1, <2>4, FirstPassed
    <3>2. {f[j] : j \in 0 .. 0} = {f[0]}
      OBVIOUS
    <3>3. Cardinality(Passed(b, f[0])) = 1
      BY <3>1, FS_Singleton
    <3> QED
      BY <2>1, <3>1, <3>2, <3>3
  <2>7. ASSUME NEW i \in 1 .. n - 1, i - 1 \in T PROVE i \in T
    <3>1. /\ f[i - 1] \in ToSet(b) /\ Passed(b, f[i - 1]) = {f[j] : j \in 0 .. i - 1}
          /\ Cardinality(Passed(b, f[i - 1])) = i /\ i # n
      BY <1>1, <2>7
    <3>2. Passed(b, f[i - 1]) # ToSet(b)
      BY <3>1 DEF n
    <3>3. /\ f[i] \in ToSet(b) /\ f[i] \notin Passed(b, f[i - 1])
          /\ Passed(b, f[i]) = Passed(b, f[i - 1]) \union {f[i]}
      BY <2>5, <3>1, <3>2, NextPassed
    <3>4. IsFiniteSet(Passed(b, f[i - 1]))
      <4>1. Passed(b, f[i - 1]) \in SUBSET ToSet(b)
        BY DEF Passed
      <4> QED
        BY <4>1, ToSetFinite
    <3>5. Cardinality(Passed(b, f[i])) = i + 1
      BY <3>1, <3>3, <3>4, FS_AddElement
    <3>6. {f[j] : j \in 0 .. i} = {f[j] : j \in 0 .. i - 1} \union {f[i]}
      <4>1. \A j : j \in 0 .. i <=> j \in 0 .. i - 1 \/ j = i
        OBVIOUS
      <4> QED
        BY <4>1
    <3>7. i \in 0 .. n - 1 /\ Passed(b, f[i]) = {f[j] : j \in 0 .. i}
      BY <3>1, <3>3, <3>6
    <3> QED
      BY <3>3, <3>5, <3>7
  <2> HIDE DEF T
  <2>8. \A i \in 0 .. n - 1 : i \in T
    BY <2>1, <2>6, <2>7, TurnByTurn
  <2>9. \A i \in 0 .. n - 1 : f[i] \in ToSet(b)
    BY <2>8 DEF T
  <2> DEFINE g == [i \in 1 .. n |-> f[i - 1]]
  <2>10. \A i \in 1 .. n : i # 1 => i - 1 \in 1 .. n - 1 /\ i - 1 \in 1 .. n /\ (i - 1) - 1 \in 0 .. n - 1
    BY <1>1
  <2>11. ASSUME NEW i \in 1 .. n
         PROVE  g[i] = IF i = 1 THEN CreateIterator(b) ELSE AdvanceIterator(b, g[i - 1])
    <3>1. CASE i = 1
      BY <2>4, <3>1
    <3>2. CASE i # 1
      <4>1. f[(i - 1) - 1] \in ToSet(b)
        BY <2>9, <2>10, <3>2
      <4>2. f[i - 1] = AdvanceIterator(b, f[(i - 1) - 1])
        BY <2>5, <2>10, <3>2, <4>1
      <4> QED
        BY <2>10, <3>2, <4>2
    <3> QED
      BY <3>1, <3>2
  <2>12. Loop(g)
    <3>1. g = [i \in 1 .. n |-> g[i]]
      OBVIOUS
    <3> HIDE DEF g
    <3> QED
      BY <2>11, <3>1
  <2>13. Loop(next)
    <3> HIDE DEF Loop, g
    <3> QED
      BY <2>12, Zenon
  <2>14. next = [i \in 1 .. n |-> next[i]]
    <3> HIDE DEF next
    <3> QED
      BY <2>13
  <2>15. \A i \in 1 .. n :
           next[i] = IF i = 1 THEN CreateIterator(b) ELSE AdvanceIterator(b, next[i - 1])
    <3> HIDE DEF next
    <3> QED
      BY <2>13
  <2> HIDE DEF next, g, Loop
  <2> DEFINE U == {i \in 0 .. n : i # 0 => next[i] = g[i]}
  <2>16. 0 \in U
    BY <1>1
  <2>17. ASSUME NEW i \in 1 .. n, i - 1 \in U PROVE i \in U
    <3>1. CASE i = 1
      BY <2>11, <2>15, <3>1
    <3>2. CASE i # 1
      BY <2>10, <2>11, <2>15, <2>17, <3>2
    <3> QED
      BY <3>1, <3>2
  <2>18. \A i \in 1 .. n : next[i] = g[i]
    <3> HIDE DEF U
    <3>1. \A i \in 0 .. n : i \in U
      BY <1>1, <2>16, <2>17, TurnByTurn
    <3>2. \A i \in 1 .. n : i \in 0 .. n /\ i # 0
      OBVIOUS
    <3> QED
      BY <3>1, <3>2 DEF U
  <2>19. next = g
    <3>1. g = [i \in 1 .. n |-> g[i]]
      BY DEF g
    <3> QED
      BY <2>14, <2>18, <3>1
  <2>20. g \in [1 .. n -> ToSet(b)]
    <3>1. \A i \in 1 .. n : i - 1 \in 0 .. n - 1
      BY <1>1
    <3> QED
      BY <2>9, <3>1 DEF g
  <2>21. {g[i] : i \in 1 .. n} = {f[j] : j \in 0 .. n - 1}
    <3>1. \A j \in 0 .. n - 1 : j + 1 \in 1 .. n /\ g[j + 1] = f[j]
      BY <1>1 DEF g
    <3>2. \A i \in 1 .. n : i - 1 \in 0 .. n - 1 /\ g[i] = f[i - 1]
      BY <1>1 DEF g
    <3> QED
      BY <3>1, <3>2
  <2>22. {f[j] : j \in 0 .. n - 1} = ToSet(b)
    <3>1. n - 1 \in T
      BY <2>1, <2>8
    <3>2. /\ Passed(b, f[n - 1]) = {f[j] : j \in 0 .. n - 1}
          /\ Cardinality(Passed(b, f[n - 1])) = n
      BY <1>1, <3>1 DEF T
    <3>3. Passed(b, f[n - 1]) \in SUBSET ToSet(b)
      BY DEF Passed
    <3> QED
      BY <1>1, <3>2, <3>3, FS_Subset DEF n
  <2> QED
    BY <1>1, <1>2, <2>19, <2>20, <2>21, <2>22 DEF n
<1> QED
  BY <1>3, <1>4

-----------------------------------------------------------------------------
(***************************************************************************)
(* The sum of the stored cardinalities.                                    *)
(***************************************************************************)

\* roaring_bitmap_get_cardinality adds up what the containers say, which is the number
\* of values.
LEMMA GetCardinalityExact ==
  ASSUME NEW b, SoundBitmap(b)
  PROVE  GetCardinality(b) = Cardinality(ToSet(b))
<1> DEFINE D == DOMAIN b
           pick(s) == CHOOSE x \in s : TRUE
           Sums(h) == h = [s \in SUBSET D |-> IF s = {} THEN 0
                                               ELSE b[pick(s)].card + h[s \ {pick(s)}]]
           sum == CHOOSE h : Sums(h)
           w == [s \in SUBSET D |-> Cardinality(CountedOutside(b, D \ s))]
<1>1. GetCardinality(b) = sum[D]
  BY DEF GetCardinality, MapThenSumSet, MapThenFoldSet
<1>2. ASSUME NEW s \in SUBSET D, s # {}
      PROVE  pick(s) \in s
  BY <1>2
<1> HIDE DEF pick
<1>3. ASSUME NEW s \in SUBSET D
      PROVE  w[s] = IF s = {} THEN 0 ELSE b[pick(s)].card + w[s \ {pick(s)}]
  <2>1. CASE s = {}
    BY <2>1, CountedEnds
  <2>2. CASE s # {}
    <3> DEFINE x == pick(s)
               K == D \ (s \ {x})
    <3>1. x \in s /\ K \in SUBSET DOMAIN b /\ x \in K /\ K \ {x} = D \ s
      BY <1>2, <2>2
    <3>2. b[x].card \in Nat
      BY <3>1, SoundContainerAt, SoundNonEmpty
    <3>3. w[s] = Cardinality(CountedOutside(b, K \ {x})) /\ w[s \ {x}] = Cardinality(CountedOutside(b, K))
      BY <3>1
    <3>4. Cardinality(CountedOutside(b, K)) \in Nat
      <4>1. CountedOutside(b, K) \in SUBSET ToSet(b)
        BY DEF CountedOutside
      <4> QED
        BY <4>1, ToSetFinite
    <3> HIDE DEF x, K, w
    <3>5. w[s] = b[x].card + w[s \ {x}]
      BY <3>1, <3>2, <3>3, <3>4, CountedGrows
    <3> QED
      BY <2>2, <3>5 DEF x
  <2> QED
    BY <2>1, <2>2
<1>4. Sums(w)
  <2>1. w = [s \in SUBSET D |-> w[s]]
    OBVIOUS
  <2> HIDE DEF w, D
  <2> QED
    BY <1>3, <2>1
<1>5. Sums(sum)
  <2> HIDE DEF Sums, w
  <2> QED
    BY <1>4, Zenon
<1>6. ASSUME NEW s \in SUBSET D
      PROVE  sum[s] = IF s = {} THEN 0 ELSE b[pick(s)].card + sum[s \ {pick(s)}]
  <2> HIDE DEF sum
  <2> QED
    BY <1>5
<1>7. IsFiniteSet(D)
  BY BitmapAssumption, FS_Subset DEF SoundBitmap, IsBitmap
<1>8. w[D] = Cardinality(ToSet(b))
  <2>1. D \ D = {}
    OBVIOUS
  <2> QED
    BY <2>1, CountedEnds
<1> HIDE DEF sum, w, Sums, D
<1> DEFINE T == {s \in SUBSET D : sum[s] = w[s]}
<1>9. {} \in T
  BY <1>3, <1>6
<1>10. ASSUME NEW s \in SUBSET D, s # {}, s \ {CHOOSE x \in s : TRUE} \in T
       PROVE  s \in T
  BY <1>3, <1>6, <1>10 DEF pick
<1>11. D \in T
  <2> HIDE DEF T
  <2> QED
    BY <1>7, <1>9, <1>10, OneByOne
<1> QED
  BY <1>1, <1>8, <1>11

-----------------------------------------------------------------------------
(***************************************************************************)
(* Reading what was written.                                               *)
(***************************************************************************)

\* A sound container that is not empty comes out as it went in: its cardinality less
\* one fits in 16 bits, and the reader infers its type from that.
LEMMA ContainerRestored ==
  ASSUME NEW c, Sound(c), c.vals # {}, NEW runs \in BOOLEAN, c.type = "run" => runs
  PROVE  ReadContainer(runs, WriteContainer(c)) = c
<1> DEFINE e == WriteContainer(c)
<1>1. /\ c = [type |-> c.type, vals |-> c.vals, card |-> c.card]
      /\ c.vals \in SUBSET Low /\ c.card = Cardinality(c.vals)
      /\ c.type \in {"bitset", "array", "run"}
      /\ c.type = "array" => c.card <= ArrayMax
      /\ c.type = "bitset" => c.card > ArrayMax
  BY DEF Sound, Container, ContainerType, CardExact, TypeFitsCard
<1>2. /\ c.card \in Nat /\ c.card > 0 /\ c.card <= ChunkSize
      /\ ChunkSize \in Nat /\ ArrayMax \in Nat
  BY <1>1, LowSubsets, SoundNonEmpty, ContainerAssumption
<1>3. /\ e.layout = c.type /\ e.vals = c.vals /\ (e.run <=> c.type = "run")
      /\ e.card = (c.card - 1) % ChunkSize
  BY DEF WriteContainer
<1>4. (c.card - 1) % ChunkSize = c.card - 1
  BY <1>2
<1>5. 1 + e.card = c.card
  BY <1>2, <1>3, <1>4
<1> HIDE DEF e
<1>6. InferredType(runs, e) = c.type
  <2>1. CASE c.type = "run"
    BY <1>3, <2>1 DEF InferredType
  <2>2. CASE c.type = "array"
    BY <1>1, <1>2, <1>3, <1>5, <2>2 DEF InferredType
  <2>3. CASE c.type = "bitset"
    BY <1>1, <1>2, <1>3, <1>5, <2>3 DEF InferredType
  <2> QED
    BY <1>1, <2>1, <2>2, <2>3
<1>7. ReadContainer(runs, e) = c
  BY <1>1, <1>3, <1>5, <1>6 DEF ReadContainer, RunOf, ArrayOf, BitsetOf
<1> QED
  BY <1>7 DEF e

\* The portable format gives the bitmap back container by container.
LEMMA PortableRestored ==
  ASSUME NEW b, SoundBitmap(b)
  PROVE  Deserialize(PortableSerialize(b)) = b
<1> DEFINE buf == PortableSerialize(b)
<1>1. /\ buf.format = "container" /\ buf.runs = HasRun(b)
      /\ buf.entries = [k \in DOMAIN b |-> WriteContainer(b[k])]
      /\ DOMAIN buf.entries = DOMAIN b
      /\ buf.offsets = HasOffsets(buf.runs, Cardinality(DOMAIN buf.entries))
  BY DEF PortableSerialize
<1>2. HasRun(b) \in BOOLEAN
  BY DEF HasRun
<1>3. ASSUME NEW k \in DOMAIN b
      PROVE  ReadContainer(buf.runs, buf.entries[k]) = b[k]
  <2>1. Sound(b[k]) /\ b[k].vals # {}
    BY SoundContainerAt
  <2>2. b[k].type = "run" => HasRun(b)
    BY DEF HasRun
  <2>3. ReadContainer(HasRun(b), WriteContainer(b[k])) = b[k]
    BY <1>2, <2>1, <2>2, ContainerRestored
  <2>4. buf.entries[k] = WriteContainer(b[k])
    BY <1>1
  <2> HIDE DEF buf
  <2> QED
    BY <1>1, <2>3, <2>4
<1> HIDE DEF buf
<1>4. Deserialize(buf) = [k \in DOMAIN b |-> ReadContainer(buf.runs, buf.entries[k])]
  BY <1>1 DEF Deserialize
<1>5. b = [k \in DOMAIN b |-> b[k]]
  BY DEF SoundBitmap, IsBitmap
<1> QED
  BY <1>3, <1>4, <1>5 DEF buf

\* The count of an array fits in its 32 bits as long as a container key is unused.
LEMMA CountFits ==
  ASSUME NEW b, SoundBitmap(b), Cardinality(Chunk) < KeyMod
  PROVE  GetCardinality(b) % (KeyMod * ChunkSize) = Cardinality(ToSet(b))
<1> DEFINE c == Cardinality(Chunk)
           n == Cardinality(ToSet(b))
<1>1. /\ IsFiniteSet(Chunk) /\ IsFiniteSet(Low) /\ Cardinality(Low) = ChunkSize
      /\ c \in Nat /\ KeyMod \in Nat /\ ChunkSize \in Nat /\ ChunkSize > 0
  BY LowSubsets, FS_CardinalityType, BitmapAssumption, ContainerAssumption
<1>2. IsFiniteSet(Value) /\ Cardinality(Value) = c * ChunkSize
  BY <1>1, FS_Product DEF Value
<1>3. n \in Nat /\ n <= c * ChunkSize
  <2>1. ToSet(b) \in SUBSET Value
    BY DEF ToSet
  <2> QED
    BY <1>2, <2>1, FS_Subset, FS_CardinalityType
<1> HIDE DEF n, c
<1>4. c < KeyMod
  BY DEF c
<1>5. c * ChunkSize < KeyMod * ChunkSize
  BY <1>1, <1>4
<1>6. c * ChunkSize \in Nat /\ KeyMod * ChunkSize \in Nat
  BY <1>1
<1>7. n % (KeyMod * ChunkSize) = n
  <2> DEFINE p == c * ChunkSize
             q == KeyMod * ChunkSize
  <2>1. p \in Nat /\ q \in Nat /\ n <= p /\ p < q
    BY <1>3, <1>5, <1>6
  <2> HIDE DEF p, q
  <2>2. n % q = n
    BY <1>3, <2>1
  <2> QED
    BY <2>2 DEF q
<1> QED
  BY <1>7, GetCardinalityExact DEF n

\* The array gives back the values, in containers of the type their number calls for.
LEMMA ArrayRestored ==
  ASSUME NEW b, SoundBitmap(b), Cardinality(Chunk) < KeyMod
  PROVE  /\ SoundBitmap(Deserialize(ArraySerialize(b)))
         /\ Canonical(Deserialize(ArraySerialize(b)))
         /\ ToSet(Deserialize(ArraySerialize(b))) = ToSet(b)
<1> DEFINE n == Cardinality(ToSet(b))
           s == ToUint32Array(b)
<1>1. Deserialize(ArraySerialize(b)) = AddMany(EmptyBitmap, n, s)
  BY CountFits DEF Deserialize, ArraySerialize, OfPtr
<1>2. n \in Nat /\ s \in [1 .. n -> ToSet(b)] /\ {s[i] : i \in 1 .. n} = ToSet(b)
  BY ArrayOfValues
<1>3. \A i \in 1 .. n : s[i] \in Value
  BY <1>2, ToSetParts
<1> HIDE DEF n, s
<1>4. /\ SoundBitmap(AddMany(EmptyBitmap, n, s))
      /\ Canonical(EmptyBitmap) => Canonical(AddMany(EmptyBitmap, n, s))
      /\ ToSet(AddMany(EmptyBitmap, n, s)) = ToSet(EmptyBitmap) \union {s[i] : i \in 1 .. n}
  BY <1>2, <1>3, EmptyBitmapSound, AddManySound
<1> QED
  BY <1>1, <1>2, <1>4, EmptyBitmapSound

\* A set of values has one canonical bitmap.
LEMMA CanonicalUnique ==
  ASSUME NEW a, SoundBitmap(a), Canonical(a), NEW b, SoundBitmap(b), Canonical(b),
         ToSet(a) = ToSet(b)
  PROVE  a = b
<1>1. ASSUME NEW x, SoundBitmap(x), NEW y, SoundBitmap(y), ToSet(x) = ToSet(y),
             NEW k \in DOMAIN x
      PROVE  k \in DOMAIN y /\ x[k].vals \subseteq y[k].vals
  <2>1. x[k].vals # {}
    BY <1>1, SoundContainerAt
  <2>2. ASSUME NEW z \in x[k].vals PROVE k \in DOMAIN y /\ z \in y[k].vals
    <3>1. <<k, z>> \in ToSet(y) /\ HighBits(<<k, z>>) = k /\ LowBits(<<k, z>>) = z
      BY <1>1, <2>2, ToSetMember
    <3> QED
      BY <1>1, <3>1, ToSetParts
  <2> QED
    BY <2>1, <2>2
<1>2. DOMAIN a = DOMAIN b /\ \A k \in DOMAIN a : a[k].vals = b[k].vals
  BY <1>1
<1>3. ASSUME NEW k \in DOMAIN a PROVE a[k] = b[k]
  <2>1. Sound(a[k]) /\ Sound(b[k]) /\ a[k].type # "run" /\ b[k].type # "run"
    BY <1>2, SoundContainerAt DEF Canonical
  <2>2. ASSUME NEW c, Sound(c), c.type # "run"
        PROVE  /\ c = [type |-> c.type, vals |-> c.vals, card |-> Cardinality(c.vals)]
               /\ c.type = IF Cardinality(c.vals) <= ArrayMax THEN "array" ELSE "bitset"
    <3>1. Cardinality(c.vals) \in Nat /\ ArrayMax \in Nat
      BY <2>2, LowSubsets, ContainerAssumption DEF Sound, Container
    <3> QED
      BY <2>2, <3>1 DEF Sound, Container, ContainerType, CardExact, TypeFitsCard
  <2>3. a[k].vals = b[k].vals
    BY <1>2
  <2>4. a[k] = [type |-> a[k].type, vals |-> a[k].vals, card |-> Cardinality(a[k].vals)]
    BY <2>1, <2>2
  <2>5. b[k] = [type |-> b[k].type, vals |-> b[k].vals, card |-> Cardinality(b[k].vals)]
    BY <2>1, <2>2
  <2>6. a[k].type = b[k].type
    BY <2>1, <2>2, <2>3
  <2> QED
    BY <2>3, <2>4, <2>5, <2>6
<1>4. a = [k \in DOMAIN a |-> a[k]] /\ b = [k \in DOMAIN b |-> b[k]]
  BY DEF SoundBitmap, IsBitmap
<1> QED
  BY <1>2, <1>3, <1>4

\* What is read is what was written, whichever format is the shorter: the same values
\* in sound containers, and a canonical bitmap comes back container by container.
LEMMA SerializeRestores ==
  ASSUME NEW b, SoundBitmap(b), Cardinality(Chunk) < KeyMod
  PROVE  /\ SoundBitmap(Deserialize(Serialize(b)))
         /\ ToSet(Deserialize(Serialize(b))) = ToSet(b)
         /\ Canonical(b) => Deserialize(Serialize(b)) = b
<1>1. CASE Serialize(b) = PortableSerialize(b)
  BY <1>1, PortableRestored
<1>2. CASE Serialize(b) = ArraySerialize(b)
  BY <1>2, ArrayRestored, CanonicalUnique
<1> QED
  BY <1>1, <1>2 DEF Serialize

-----------------------------------------------------------------------------
(***************************************************************************)
(* The size that is allocated.                                             *)
(***************************************************************************)

\* The writer puts behind the pointer as many bytes as size_in_bytes counts.
LEMMA PayloadExact ==
  ASSUME NEW c, Sound(c)
  PROVE  PayloadWritten(WriteContainer(c)) = PayloadSize(c)
<1>1. c.card = Cardinality(c.vals) /\ c.type \in {"bitset", "array", "run"}
  BY DEF Sound, Container, ContainerType, CardExact
<1>2. WriteContainer(c).layout = c.type /\ WriteContainer(c).vals = c.vals
  BY DEF WriteContainer
<1> QED
  BY <1>1, <1>2 DEF PayloadWritten, PayloadSize

LEMMA HeaderExact ==
  ASSUME NEW b, NEW n \in Nat, n = Cardinality(DOMAIN b)
  PROVE  HeaderSize(b) =
           (IF HasRun(b) THEN CookieBytes + FlagBytes(n) ELSE 2 * CookieBytes)
             + n * EntryBytes
             + (IF HasOffsets(HasRun(b), n) THEN n * OffsetBytes ELSE 0)
<1>1. CookieBytes \in Nat /\ EntryBytes \in Nat /\ OffsetBytes \in Nat /\ NoOffsetThreshold \in Nat
  BY SerializationAssumption
<1>2. n * (EntryBytes + OffsetBytes) = n * EntryBytes + n * OffsetBytes
  BY <1>1
<1>3. n * EntryBytes \in Nat /\ n * OffsetBytes \in Nat /\ FlagBytes(n) \in Nat
  BY <1>1 DEF FlagBytes
<1> DEFINE e == n * EntryBytes
           o == n * OffsetBytes
           f == FlagBytes(n)
           eo == n * (EntryBytes + OffsetBytes)
<1>4. HeaderSize(b) =
        IF ~HasRun(b) THEN 2 * CookieBytes + eo
        ELSE CookieBytes + f + IF n < NoOffsetThreshold THEN e ELSE eo
  BY DEF HeaderSize
<1>5. eo = e + o /\ e \in Nat /\ o \in Nat /\ f \in Nat
  BY <1>2, <1>3
<1> HIDE DEF e, o, f, eo
<1>6. HeaderSize(b) = (IF HasRun(b) THEN CookieBytes + f ELSE 2 * CookieBytes)
                        + e + (IF HasOffsets(HasRun(b), n) THEN o ELSE 0)
  BY <1>1, <1>4, <1>5 DEF HasOffsets
<1> QED
  BY <1>6 DEF e, o, f

LEMMA PortableExact ==
  ASSUME NEW b, SoundBitmap(b)
  PROVE  PortableWritten(PortableSerialize(b)) = PortableSize(b)
<1> DEFINE D == DOMAIN b
           n == Cardinality(D)
           buf == PortableSerialize(b)
           f == [k \in D |-> PayloadSize(b[k])]
           pick(s) == CHOOSE x \in s : TRUE
           Size(h) == h = [s \in SUBSET D |-> IF s = {} THEN 0
                             ELSE PayloadSize(b[pick(s)]) + h[s \ {pick(s)}]]
           Written(h) == h = [s \in SUBSET D |-> IF s = {} THEN 0
                             ELSE PayloadWritten(buf.entries[pick(s)]) + h[s \ {pick(s)}]]
<1>1. n \in Nat
  BY BitmapAssumption, FS_Subset, FS_CardinalityType DEF SoundBitmap, IsBitmap
<1>2. /\ buf.runs = HasRun(b) /\ DOMAIN buf.entries = D
      /\ buf.offsets = HasOffsets(HasRun(b), n)
      /\ buf.entries = [k \in D |-> WriteContainer(b[k])]
  BY DEF PortableSerialize
<1>3. PortableSize(b) = HeaderSize(b) + (CHOOSE h : Size(h))[D]
  BY DEF PortableSize, MapThenSumSet, MapThenFoldSet
<1>4. PortableWritten(buf) =
        (IF HasRun(b) THEN CookieBytes + FlagBytes(n) ELSE 2 * CookieBytes)
          + n * EntryBytes
          + (IF HasOffsets(HasRun(b), n) THEN n * OffsetBytes ELSE 0)
          + (CHOOSE h : Written(h))[D]
  <2> HIDE DEF buf, pick
  <2>1. MapThenSumSet(LAMBDA k : PayloadWritten(buf.entries[k]), D) = (CHOOSE h : Written(h))[D]
    BY DEF MapThenSumSet, MapThenFoldSet, pick
  <2> QED
    BY <1>2, <2>1 DEF PortableWritten
<1>5. ASSUME NEW s \in SUBSET D, s # {} PROVE pick(s) \in D
  BY <1>5
<1>6. ASSUME NEW k \in D PROVE PayloadWritten(buf.entries[k]) = PayloadSize(b[k])
  <2>1. buf.entries[k] = WriteContainer(b[k])
    BY <1>2
  <2> QED
    BY <2>1, SoundContainerAt, PayloadExact
<1>7. (CHOOSE h : Written(h)) = (CHOOSE h : Size(h))
  <2> HIDE DEF D, buf, pick
  <2>1. ASSUME NEW h PROVE Written(h) <=> Size(h)
    <3>1. \A s \in SUBSET D : s # {} =>
            PayloadWritten(buf.entries[pick(s)]) = PayloadSize(b[pick(s)])
      BY <1>5, <1>6
    <3> QED
      BY <3>1
  <2> HIDE DEF Written, Size
  <2> QED
    BY <2>1
<1> HIDE DEF n, buf, Written, Size
<1>8. HeaderSize(b) =
        (IF HasRun(b) THEN CookieBytes + FlagBytes(n) ELSE 2 * CookieBytes)
          + n * EntryBytes
          + (IF HasOffsets(HasRun(b), n) THEN n * OffsetBytes ELSE 0)
  BY <1>1, HeaderExact DEF n
<1> QED
  BY <1>3, <1>4, <1>7, <1>8 DEF buf

LEMMA BytesExact ==
  ASSUME NEW b, SoundBitmap(b)
  PROVE  BytesWritten(Serialize(b)) = SizeInBytes(b)
<1> DEFINE n == Cardinality(ToSet(b))
<1>1. CASE PortableSize(b) < SizeAsArray(b)
  <2>1. Serialize(b) = PortableSerialize(b) /\ PortableSerialize(b).format = "container"
    BY <1>1 DEF Serialize, PortableSerialize
  <2> QED
    BY <1>1, <2>1, PortableExact DEF BytesWritten, SizeInBytes
<1>2. CASE ~ (PortableSize(b) < SizeAsArray(b))
  <2>1. /\ Serialize(b) = ArraySerialize(b) /\ ArraySerialize(b).format = "array_uint32"
        /\ ArraySerialize(b).elems = ToUint32Array(b)
    BY <1>2 DEF Serialize, ArraySerialize
  <2>2. n \in Nat /\ ToUint32Array(b) \in [1 .. n -> ToSet(b)]
    BY ArrayOfValues
  <2> HIDE DEF n
  <2>3. Len(ToUint32Array(b)) = n
    BY <2>2
  <2>4. SizeAsArray(b) = n * ValueBytes + ValueBytes
    BY GetCardinalityExact DEF SizeAsArray, n
  <2>5. BytesWritten(Serialize(b)) = 1 + (ValueBytes + ValueBytes * n)
    BY <2>1, <2>3 DEF BytesWritten
  <2>6. SizeInBytes(b) = 1 + SizeAsArray(b)
    BY <1>2 DEF SizeInBytes
  <2>7. ValueBytes \in Nat
    BY SerializationAssumption
  <2>8. ValueBytes * n = n * ValueBytes /\ n * ValueBytes \in Nat
    BY <2>2, <2>7
  <2> QED
    BY <2>4, <2>5, <2>6, <2>7, <2>8
<1> QED
  BY <1>1, <1>2

-----------------------------------------------------------------------------
(***************************************************************************)
(* RoaringRdbSave and RoaringRdbLoad, on every bitmap whose containers are *)
(* sound and for every value of the constants.                             *)
(***************************************************************************)

\* The bitmap is one that the library can hand to the callbacks, and the buffer, once
\* it has been written, is its serialized form.
CallbackInv ==
  /\ SoundBitmap(value)
  /\ buffer # NoBuffer => buffer = Serialize(value)

LEMMA SoundBitmapsAreSound ==
  ASSUME NEW b \in SoundBitmaps
  PROVE  SoundBitmap(b)
<1>1. PICK K \in SUBSET Chunk : b \in [K -> SoundContainers]
  BY DEF SoundBitmaps
<1>2. ASSUME NEW c \in SoundContainers
      PROVE  Sound(c) /\ c.vals # {}
  <2>1. PICK S \in (SUBSET Low) \ {{}} : c = ByCardinality(S, Cardinality(S)) \/ c = RunOf(S)
    BY <1>2 DEF SoundContainers
  <2> QED
    BY <2>1, MadeSound
<1>3. \A k \in DOMAIN b : b[k] \in Container /\ WellFormed(b[k])
  BY <1>1, <1>2 DEF Sound, WellFormed
<1> QED
  BY <1>1, <1>3 DEF SoundBitmap, IsBitmap, WellFormedBitmap

\* The buffer belongs to the bitmap in every reachable state.
THEOREM CallbackInvariant == CallbacksSpec => []CallbackInv
<1>1. CallbacksInit => CallbackInv
  BY SoundBitmapsAreSound DEF CallbacksInit, CallbackInv
<1>2. CallbackInv /\ [CallbacksNext]_callbackVars => CallbackInv'
  <2> SUFFICES ASSUME CallbackInv, [CallbacksNext]_callbackVars PROVE CallbackInv'
    OBVIOUS
  <2>1. CASE SaveValue
    BY <2>1 DEF CallbackInv, SaveValue
  <2>2. CASE LoadCopy
    BY <2>2 DEF CallbackInv, LoadCopy
  <2>3. CASE UNCHANGED callbackVars
    BY <2>3 DEF CallbackInv, callbackVars
  <2> QED
    BY <2>1, <2>2, <2>3 DEF CallbacksNext
<1> QED
  BY <1>1, <1>2, PTL DEF CallbacksSpec

\* RoaringRdbSave allocates as many bytes as are written, whatever the containers and
\* whichever format is the shorter.
THEOREM BufferFitsHolds == CallbacksSpec => []BufferFits
<1>1. CallbackInv => BufferFits
  BY BytesExact DEF CallbackInv, BufferFits
<1> QED
  BY <1>1, CallbackInvariant, PTL

\* What is loaded is what was saved, as long as a container key is unused: the array
\* of a bitmap with all 2^32 values would be written with a count of 0.
THEOREM LoadRestoresHolds ==
  ASSUME Cardinality(Chunk) < KeyMod
  PROVE  CallbacksSpec => LoadRestores
<1>1. CallbackInv /\ [CallbacksNext]_callbackVars =>
        [LoadCopy => ToSet(copy') = ToSet(value) /\ WellFormedBitmap(copy')]_callbackVars
  <2> SUFFICES ASSUME CallbackInv, LoadCopy
               PROVE  ToSet(copy') = ToSet(value) /\ WellFormedBitmap(copy')
    OBVIOUS
  <2>1. copy' = Deserialize(Serialize(value)) /\ SoundBitmap(value)
    BY DEF CallbackInv, LoadCopy
  <2> QED
    BY <2>1, SerializeRestores DEF SoundBitmap
<1> QED
  BY <1>1, CallbackInvariant, PTL DEF CallbacksSpec, LoadRestores

-----------------------------------------------------------------------------
(***************************************************************************)
(* Commands on a keyspace.                                                 *)
(***************************************************************************)

\* The bitmaps that commands build: every container is of the type that its
\* cardinality calls for.
Built == {b \in Held : Canonical(b)}

Keyspaces == [Key -> Built]

LEMMA BuiltAre ==
  ASSUME NEW b
  PROVE  b \in Built <=> SoundBitmap(b) /\ Canonical(b)
BY HeldAreSound DEF Built

\* REMOVE takes its values away one by one.
LEMMA RemoveManyBuilt ==
  ASSUME NEW b \in Built, NEW s \in Seq(Value)
  PROVE  RemoveMany(b, s) \in Built
<1> DEFINE n == Len(s)
           Loop(f) == f = [i \in 0 .. n |-> IF i = 0 THEN b ELSE BitmapRemove(f[i - 1], s[i])]
           turn == [i \in 1 .. n |-> [d \in Built |-> BitmapRemove(d, s[i])]]
           rest == CHOOSE f : Loop(f)
<1>1. RemoveMany(b, s) = rest[n]
  BY DEF RemoveMany
<1>2. n \in Nat /\ \A i \in 1 .. n : s[i] \in Value
  BY ElementOfSeq, LenProperties
<1> HIDE DEF n
<1>3. \A i \in 1 .. n : \A d \in Built : BitmapRemove(d, s[i]) \in Built
  BY <1>2, BuiltAre, BitmapRemoveSound
<1>4. turn \in [1 .. n -> [Built -> Built]]
  BY <1>3
<1>5. PICK f \in [0 .. n -> Built] : f[0] = b /\ \A i \in 1 .. n : f[i] = turn[i][f[i - 1]]
  <2>1. b \in Built
    OBVIOUS
  <2>2. n \in Nat
    BY <1>2
  <2> HIDE DEF turn
  <2>3. \E f : States(Built, b, n, turn, f)
    BY <1>4, <2>1, <2>2, LoopExists DEF Turns
  <2> QED
    BY <2>3 DEF States
<1>6. ASSUME NEW i \in 1 .. n
      PROVE  f[i - 1] \in Built /\ f[i] = BitmapRemove(f[i - 1], s[i])
  <2>1. i - 1 \in 0 .. n /\ f[i] = turn[i][f[i - 1]]
    BY <1>2, <1>5
  <2>2. f[i - 1] \in Built
    BY <2>1
  <2>3. turn[i] = [d \in Built |-> BitmapRemove(d, s[i])]
    OBVIOUS
  <2> QED
    BY <2>1, <2>2, <2>3
<1>7. Loop(f)
  <2>1. \A i \in 0 .. n : i # 0 => i \in 1 .. n
    BY <1>2
  <2>2. \A i \in 0 .. n : f[i] = IF i = 0 THEN b ELSE BitmapRemove(f[i - 1], s[i])
    BY <1>5, <1>6, <2>1
  <2>3. f = [i \in 0 .. n |-> f[i]]
    OBVIOUS
  <2> QED
    BY <2>2, <2>3
<1>8. Loop(rest)
  <2> HIDE DEF Loop
  <2> QED
    BY <1>7, Zenon
<1>9. \A i \in 0 .. n : rest[i] = IF i = 0 THEN b ELSE BitmapRemove(rest[i - 1], s[i])
  <2> HIDE DEF rest
  <2> QED
    BY <1>8
<1> HIDE DEF rest, Loop, turn
<1> DEFINE T == {i \in 0 .. n : rest[i] = f[i]}
<1>10. 0 \in T
  BY <1>2, <1>5, <1>9
<1>11. ASSUME NEW i \in 1 .. n, i - 1 \in T PROVE i \in T
  <2>1. i \in 0 .. n /\ i # 0
    BY <1>2
  <2> QED
    BY <1>6, <1>9, <1>11, <2>1
<1>12. n \in 0 .. n /\ n \in T
  <2> HIDE DEF T
  <2>1. \A i \in 0 .. n : i \in T
    BY <1>2, <1>10, <1>11, TurnByTurn
  <2> QED
    BY <1>2, <2>1
<1> QED
  BY <1>1, <1>5, <1>12

\* A command leaves a keyspace of such bitmaps.
LEMMA ApplyBuilds ==
  ASSUME NEW d \in Keyspaces, NEW c \in Command
  PROVE  Apply(d, c) \in Keyspaces
<1>1. PICK n \in 1 .. MaxValues : c.vals \in [1 .. n -> Value]
  BY DEF Command
<1>2. c.key \in Key /\ d[c.key] \in Built /\ n \in Nat
  BY PropagationAssumption DEF Command, Keyspaces
<1>3. c.vals \in Seq(Value) /\ Len(c.vals) = n
  BY <1>1, <1>2
<1>4. AddMany(d[c.key], Len(c.vals), c.vals) \in Built
  <2>1. \A i \in 1 .. n : c.vals[i] \in Value
    BY <1>1
  <2> QED
    BY <1>2, <1>3, <2>1, AddManySound, BuiltAre
<1>5. RemoveMany(d[c.key], c.vals) \in Built
  BY <1>2, <1>3, RemoveManyBuilt
<1> QED
  BY <1>2, <1>4, <1>5 DEF Apply, Keyspaces

LEMMA NoKeysBuilt == NoKeys \in Keyspaces
BY EmptyBitmapSound, BuiltAre DEF NoKeys, Keyspaces

-----------------------------------------------------------------------------
(***************************************************************************)
(* Replaying a log.                                                        *)
(***************************************************************************)

\* A keyspace after each of the commands.
Replayed(d, log, f) ==
  /\ f \in [0 .. Len(log) -> Keyspaces]
  /\ f[0] = d
  /\ \A i \in 1 .. Len(log) : f[i] = Apply(f[i - 1], log[i])

LEMMA ReplayExists ==
  ASSUME NEW d \in Keyspaces, NEW log \in Seq(Command)
  PROVE  \E f : Replayed(d, log, f)
<1> DEFINE n == Len(log)
           turn == [i \in 1 .. n |-> [e \in Keyspaces |-> Apply(e, log[i])]]
<1>1. n \in Nat /\ \A i \in 1 .. n : log[i] \in Command
  BY ElementOfSeq, LenProperties
<1> HIDE DEF n
<1>2. turn \in [1 .. n -> [Keyspaces -> Keyspaces]]
  BY <1>1, ApplyBuilds
<1>3. PICK f \in [0 .. n -> Keyspaces] : f[0] = d /\ \A i \in 1 .. n : f[i] = turn[i][f[i - 1]]
  <2>1. d \in Keyspaces
    OBVIOUS
  <2>2. n \in Nat
    BY <1>1
  <2> HIDE DEF turn
  <2>3. \E f : States(Keyspaces, d, n, turn, f)
    BY <1>2, <2>1, <2>2, LoopExists DEF Turns
  <2> QED
    BY <2>3 DEF States
<1>4. ASSUME NEW i \in 1 .. n PROVE f[i] = Apply(f[i - 1], log[i])
  <2>1. i - 1 \in 0 .. n /\ f[i] = turn[i][f[i - 1]]
    BY <1>1, <1>3
  <2>2. f[i - 1] \in Keyspaces
    BY <2>1
  <2>3. turn[i] = [e \in Keyspaces |-> Apply(e, log[i])]
    OBVIOUS
  <2> QED
    BY <2>1, <2>2, <2>3
<1> QED
  BY <1>3, <1>4 DEF Replayed, n

\* The last of them is what Replay returns.
LEMMA ReplayEnds ==
  ASSUME NEW d, NEW log \in Seq(Command), NEW f, Replayed(d, log, f)
  PROVE  Replay(d, log) = f[Len(log)] /\ Replay(d, log) \in Keyspaces
<1> DEFINE n == Len(log)
           Loop(g) == g = [i \in 0 .. n |-> IF i = 0 THEN d ELSE Apply(g[i - 1], log[i])]
           state == CHOOSE g : Loop(g)
<1>1. Replay(d, log) = state[n]
  BY DEF Replay
<1>2. n \in Nat
  BY LenProperties
<1>3. f \in [0 .. n -> Keyspaces] /\ f[0] = d /\ \A i \in 1 .. n : f[i] = Apply(f[i - 1], log[i])
  BY DEF Replayed
<1> HIDE DEF n
<1>4. Loop(f)
  <2>1. \A i \in 0 .. n : i # 0 => i \in 1 .. n
    BY <1>2
  <2>2. \A i \in 0 .. n : f[i] = IF i = 0 THEN d ELSE Apply(f[i - 1], log[i])
    BY <1>3, <2>1
  <2>3. f = [i \in 0 .. n |-> f[i]]
    BY <1>3
  <2> QED
    BY <2>2, <2>3
<1>5. Loop(state)
  <2> HIDE DEF Loop
  <2> QED
    BY <1>4, Zenon
<1>6. \A i \in 0 .. n : state[i] = IF i = 0 THEN d ELSE Apply(state[i - 1], log[i])
  <2> HIDE DEF state
  <2> QED
    BY <1>5
<1> HIDE DEF state, Loop
<1> DEFINE T == {i \in 0 .. n : state[i] = f[i]}
<1>7. 0 \in T
  <2>1. 0 \in 0 .. n
    BY <1>2
  <2>2. state[0] = f[0]
    BY <1>3, <1>6, <2>1
  <2> QED
    BY <2>1, <2>2
<1>8. ASSUME NEW i \in 1 .. n, i - 1 \in T PROVE i \in T
  <2>1. i \in 0 .. n /\ i # 0
    BY <1>2
  <2> QED
    BY <1>3, <1>6, <1>8, <2>1
<1>9. n \in 0 .. n /\ n \in T
  <2> HIDE DEF T
  <2>1. \A i \in 0 .. n : i \in T
    BY <1>2, <1>7, <1>8, TurnByTurn
  <2> QED
    BY <1>2, <2>1
<1> QED
  BY <1>1, <1>3, <1>9 DEF n

LEMMA ReplayNothing ==
  ASSUME NEW d \in Keyspaces
  PROVE  Replay(d, <<>>) = d
<1>1. <<>> \in Seq(Command) /\ Len(<<>>) = 0
  BY EmptySeq
<1>2. PICK f : Replayed(d, <<>>, f)
  BY <1>1, ReplayExists
<1> QED
  BY <1>1, <1>2, ReplayEnds DEF Replayed

\* A command at the end of the log is executed last.
LEMMA ReplayAppend ==
  ASSUME NEW d \in Keyspaces, NEW log \in Seq(Command), NEW c \in Command
  PROVE  Replay(d, Append(log, c)) = Apply(Replay(d, log), c)
<1> DEFINE n == Len(log)
           more == Append(log, c)
<1>1. /\ n \in Nat /\ more \in Seq(Command) /\ Len(more) = n + 1
      /\ more[n + 1] = c /\ \A i \in 1 .. n : more[i] = log[i]
  BY LenProperties
<1>2. PICK f : Replayed(d, more, f)
  BY <1>1, ReplayExists
<1> HIDE DEF n, more
<1>3. /\ f \in [0 .. n + 1 -> Keyspaces] /\ f[0] = d
      /\ \A i \in 1 .. n + 1 : f[i] = Apply(f[i - 1], more[i])
  BY <1>1, <1>2 DEF Replayed
<1> DEFINE g == [i \in 0 .. n |-> f[i]]
<1>4. Replayed(d, log, g)
  <2>1. \A i \in 0 .. n : i \in 0 .. n + 1
    BY <1>1
  <2>2. g \in [0 .. n -> Keyspaces] /\ g[0] = d
    BY <1>1, <1>3, <2>1
  <2>3. ASSUME NEW i \in 1 .. n PROVE g[i] = Apply(g[i - 1], log[i])
    <3>1. i \in 0 .. n /\ i - 1 \in 0 .. n /\ i \in 1 .. n + 1
      BY <1>1
    <3> QED
      BY <1>1, <1>3, <3>1
  <2> QED
    BY <2>2, <2>3 DEF Replayed, n
<1>5. Replay(d, log) = f[n]
  <2>1. Replay(d, log) = g[n] /\ n \in 0 .. n
    BY <1>1, <1>4, ReplayEnds DEF n
  <2> QED
    BY <2>1
<1>6. f[n + 1] = Apply(f[n], c)
  <2>1. n + 1 \in 1 .. n + 1 /\ (n + 1) - 1 = n
    BY <1>1
  <2>2. f[n + 1] = Apply(f[(n + 1) - 1], more[n + 1])
    BY <1>3, <2>1
  <2> QED
    BY <1>1, <2>1, <2>2
<1> QED
  BY <1>1, <1>2, <1>5, <1>6, ReplayEnds DEF more

\* The command at its head is executed first.
LEMMA ReplayHead ==
  ASSUME NEW d \in Keyspaces, NEW log \in Seq(Command), log # <<>>
  PROVE  Replay(Apply(d, Head(log)), Tail(log)) = Replay(d, log)
<1> DEFINE n == Len(Tail(log))
           rest == Tail(log)
<1>1. /\ n \in Nat /\ rest \in Seq(Command) /\ Len(log) = n + 1
      /\ Head(log) = log[1] /\ \A i \in 1 .. n : rest[i] = log[i + 1]
  <2>1. Len(log) \in Nat /\ Len(log) # 0
    BY EmptySeq, LenProperties
  <2> QED
    BY <2>1
<1>2. PICK f : Replayed(d, log, f)
  BY ReplayExists
<1>3. n = Len(rest)
  OBVIOUS
<1> HIDE DEF n, rest
<1>4. /\ f \in [0 .. n + 1 -> Keyspaces] /\ f[0] = d
      /\ \A i \in 1 .. n + 1 : f[i] = Apply(f[i - 1], log[i])
  BY <1>1, <1>2 DEF Replayed
<1> DEFINE g == [i \in 0 .. n |-> f[i + 1]]
<1>5. f[1] = Apply(d, Head(log))
  <2>1. 1 \in 1 .. n + 1 /\ 1 - 1 = 0
    BY <1>1
  <2>2. f[1] = Apply(f[1 - 1], log[1])
    BY <1>4, <2>1
  <2> QED
    BY <1>1, <1>4, <2>1, <2>2
<1>6. Replayed(f[1], rest, g)
  <2>1. \A i \in 0 .. n : i + 1 \in 0 .. n + 1
    BY <1>1
  <2>2. 0 \in 0 .. n /\ 0 + 1 = 1
    BY <1>1
  <2>3. g \in [0 .. n -> Keyspaces] /\ g[0] = f[1]
    BY <1>4, <2>1, <2>2
  <2>4. ASSUME NEW i \in 1 .. n PROVE g[i] = Apply(g[i - 1], rest[i])
    <3>1. i \in 0 .. n /\ i - 1 \in 0 .. n /\ i + 1 \in 1 .. n + 1 /\ (i - 1) + 1 = i /\ (i + 1) - 1 = i
      BY <1>1
    <3>2. f[i + 1] = Apply(f[(i + 1) - 1], log[i + 1])
      BY <1>4, <3>1
    <3>3. g[i] = f[i + 1] /\ g[i - 1] = f[i]
      BY <3>1
    <3> HIDE DEF g
    <3> QED
      BY <1>1, <3>1, <3>2, <3>3
  <2> HIDE DEF g
  <2> QED
    BY <1>3, <2>3, <2>4 DEF Replayed
<1>7. Replay(f[1], rest) = f[n + 1]
  <2>1. Replay(f[1], rest) = g[n] /\ n \in 0 .. n
    BY <1>1, <1>3, <1>6, ReplayEnds
  <2> QED
    BY <2>1
<1> QED
  BY <1>1, <1>2, <1>5, <1>7, ReplayEnds DEF rest

-----------------------------------------------------------------------------
(***************************************************************************)
(* The inductive invariant.                                                *)
(***************************************************************************)

\* The file that a child leaves when it has written every key of the keyspace d.
Saved(d) == [k \in Key |-> IF IsEmpty(d[k]) THEN NoValue ELSE Serialize(d[k])]

\* What is kept in memory, on disk and under way.
Kept ==
  /\ setting \in Settings
  /\ up \in BOOLEAN
  /\ {db, forked, promised, replica} \subseteq Keyspaces
  /\ {LoadFile(rdb), LoadFile(aof.base)} \subseteq Keyspaces
  /\ {since, link, aof.tail} \subseteq Seq(Command)
  /\ aof = [base |-> aof.base, tail |-> aof.tail]

\* A restart finds what clients may count on.
Durable ==
  promised = IF AppendOnly THEN Replay(LoadFile(aof.base), aof.tail) ELSE LoadFile(rdb)

\* With an append-only file that is all that the server has acknowledged.
Acknowledged == up /\ AppendOnly => promised = db

\* A child exists only beside its parent, and has written the keys that are not left to
\* do as they were at the fork.  One that rewrites the append-only file leaves
\* out what the commands since the fork make up for.
Written ==
  child # "none" =>
    /\ up
    /\ file = [k \in Key |-> IF k \in todo THEN NoValue ELSE Saved(forked)[k]]
    /\ child = "rewrite" => AppendOnly /\ Replay(forked, since) = db

\* The commands under way to the replica make up for what the server has executed since
\* the fork of the child that writes for it, and after that for what the replica
\* has not executed.
Linked ==
  /\ sync = "saving" => child = "sync" /\ Replay(forked, link) = db
  /\ sync = "online" => up /\ Replay(replica, link) = db
  /\ sync \in {"none", "saving", "online"}

DeploymentInv == Kept /\ Durable /\ Acknowledged /\ Written /\ Linked

-----------------------------------------------------------------------------
(***************************************************************************)
(* Files.                                                                  *)
(***************************************************************************)

\* A complete file gives the keyspace back, container by container.
LEMMA LoadSaved ==
  ASSUME NEW d \in Keyspaces, Cardinality(Chunk) < KeyMod
  PROVE  LoadFile(Saved(d)) = d
<1>1. ASSUME NEW k \in Key
      PROVE  (IF Saved(d)[k] = NoValue THEN EmptyBitmap ELSE Deserialize(Saved(d)[k])) = d[k]
  <2>1. SoundBitmap(d[k]) /\ Canonical(d[k])
    BY BuiltAre DEF Keyspaces
  <2>2. CASE IsEmpty(d[k])
    <3>1. d[k] = [j \in {} |-> d[k][j]]
      BY <2>1, <2>2 DEF IsEmpty, SoundBitmap, IsBitmap
    <3>2. d[k] = EmptyBitmap
      BY <3>1 DEF EmptyBitmap
    <3>3. Saved(d)[k] = NoValue
      BY <2>2 DEF Saved
    <3> QED
      BY <3>2, <3>3
  <2>3. CASE ~ IsEmpty(d[k])
    <3>1. Saved(d)[k] = Serialize(d[k])
      BY <2>3 DEF Saved
    <3>2. Serialize(d[k]).format # "none"
      BY DEF Serialize, PortableSerialize, ArraySerialize
    <3>3. Serialize(d[k]) # NoValue
      BY <3>2 DEF NoValue
    <3>4. Deserialize(Serialize(d[k])) = d[k]
      BY <2>1, SerializeRestores
    <3> QED
      BY <3>1, <3>3, <3>4
  <2> QED
    BY <2>2, <2>3
<1>2. LoadFile(Saved(d)) = [k \in Key |-> d[k]]
  BY <1>1 DEF LoadFile
<1> QED
  BY <1>2 DEF Keyspaces

LEMMA LoadNoFile == LoadFile(NoFile) = NoKeys
BY DEF LoadFile, NoFile, NoKeys

\* What a child has written once nothing is left to do is the keyspace of the fork.
LEMMA WrittenLoads ==
  ASSUME Kept, Written, child # "none", todo = {}, Cardinality(Chunk) < KeyMod
  PROVE  LoadFile(file) = forked
<1>1. file = Saved(forked) /\ forked \in Keyspaces
  BY DEF Written, Kept, Saved
<1> QED
  BY <1>1, LoadSaved

-----------------------------------------------------------------------------
(***************************************************************************)
(* The steps.                                                              *)
(***************************************************************************)

LEMMA InitKeeps == DeploymentInit => DeploymentInv
<1> SUFFICES ASSUME DeploymentInit PROVE DeploymentInv
  OBVIOUS
<1>1. /\ setting \in Settings /\ up = TRUE /\ child = "none" /\ sync = "none"
      /\ db = NoKeys /\ forked = NoKeys /\ promised = NoKeys /\ replica = NoKeys
      /\ rdb = NoFile /\ aof = [base |-> NoFile, tail |-> <<>>]
      /\ since = <<>> /\ link = <<>>
  BY DEF DeploymentInit, Init, EmptyLog
<1>2. NoKeys \in Keyspaces /\ <<>> \in Seq(Command)
  BY NoKeysBuilt, EmptySeq
<1>3. Replay(NoKeys, <<>>) = NoKeys
  BY NoKeysBuilt, ReplayNothing
<1>4. Kept
  BY <1>1, <1>2, LoadNoFile DEF Kept
<1>5. Durable
  BY <1>1, <1>3, LoadNoFile DEF Durable
<1> QED
  BY <1>1, <1>4, <1>5 DEF DeploymentInv, Acknowledged, Written, Linked

LEMMA PropagateKeeps ==
  ASSUME DeploymentInv, NEW c \in Command, Propagate(c)
  PROVE  DeploymentInv'
<1>1. /\ up /\ db' = Apply(db, c)
      /\ aof' = IF AppendOnly THEN [aof EXCEPT !.tail = Append(aof.tail, c)] ELSE aof
      /\ since' = IF child = "rewrite" THEN Append(since, c) ELSE since
      /\ promised' = IF AppendOnly THEN db' ELSE promised
      /\ link' = IF sync = "none" THEN link ELSE Append(link, c)
      /\ setting' = setting /\ up' = up /\ rdb' = rdb /\ child' = child
      /\ forked' = forked /\ todo' = todo /\ file' = file
      /\ sync' = sync /\ replica' = replica
  BY DEF Propagate, Execute
<1>2. /\ db \in Keyspaces /\ forked \in Keyspaces /\ promised \in Keyspaces /\ replica \in Keyspaces
      /\ LoadFile(rdb) \in Keyspaces /\ LoadFile(aof.base) \in Keyspaces
      /\ since \in Seq(Command) /\ link \in Seq(Command) /\ aof.tail \in Seq(Command)
      /\ aof = [base |-> aof.base, tail |-> aof.tail]
  BY DEF DeploymentInv, Kept
<1>3. db' \in Keyspaces
  BY <1>1, <1>2, ApplyBuilds
<1>4. /\ aof'.base = aof.base /\ aof' = [base |-> aof'.base, tail |-> aof'.tail]
      /\ aof'.tail = IF AppendOnly THEN Append(aof.tail, c) ELSE aof.tail
  BY <1>1, <1>2
<1>5. AppendOnly' = AppendOnly
  BY <1>1 DEF AppendOnly
<1>6. Append(since, c) \in Seq(Command) /\ Append(link, c) \in Seq(Command)
      /\ Append(aof.tail, c) \in Seq(Command)
  BY <1>2
<1>7. /\ Replay(forked, Append(since, c)) = Apply(Replay(forked, since), c)
      /\ Replay(forked, Append(link, c)) = Apply(Replay(forked, link), c)
      /\ Replay(replica, Append(link, c)) = Apply(Replay(replica, link), c)
      /\ Replay(LoadFile(aof.base), Append(aof.tail, c)) =
           Apply(Replay(LoadFile(aof.base), aof.tail), c)
  BY <1>2, ReplayAppend
<1>8. Kept'
  BY <1>1, <1>2, <1>3, <1>4, <1>6 DEF DeploymentInv, Kept
<1>9. Durable'
  <2>1. CASE AppendOnly
    <3>1. Replay(LoadFile(aof.base), aof.tail) = db
      BY <1>1, <2>1 DEF DeploymentInv, Durable, Acknowledged
    <3> QED
      BY <1>1, <1>4, <1>5, <1>7, <2>1, <3>1 DEF Durable
  <2>2. CASE ~ AppendOnly
    BY <1>1, <1>5, <2>2 DEF DeploymentInv, Durable
  <2> QED
    BY <2>1, <2>2
<1>10. Acknowledged'
  BY <1>1, <1>5 DEF Acknowledged
<1>11. Written'
  BY <1>1, <1>5, <1>7 DEF DeploymentInv, Written
<1>12. Linked'
  BY <1>1, <1>7 DEF DeploymentInv, Linked
<1> QED
  BY <1>8, <1>9, <1>10, <1>11, <1>12 DEF DeploymentInv

\* A fork starts from the keyspace, with nothing to make up for.
LEMMA ForkKeeps ==
  ASSUME DeploymentInv, NEW job \in {"save", "rewrite", "sync"}, Fork(job),
         IF job = "sync" THEN sync = "none" /\ sync' = "saving" /\ link' = <<>> /\ UNCHANGED replica
         ELSE UNCHANGED <<sync, replica, link>>
  PROVE  DeploymentInv'
<1>1. /\ up /\ child = "none" /\ (job = "rewrite" => AppendOnly)
      /\ child' = job /\ forked' = db /\ todo' = Key /\ file' = NoFile /\ since' = <<>>
      /\ setting' = setting /\ up' = up /\ db' = db /\ rdb' = rdb /\ aof' = aof
      /\ promised' = promised
  BY DEF Fork, disk
<1>2. /\ replica' = replica
      /\ job = "sync" => sync' = "saving" /\ link' = <<>>
      /\ job # "sync" => sync' = sync /\ link' = link
  OBVIOUS
<1>3. db \in Keyspaces /\ <<>> \in Seq(Command) /\ Replay(db, <<>>) = db
  BY EmptySeq, ReplayNothing DEF DeploymentInv, Kept
<1>4. AppendOnly' = AppendOnly
  BY <1>1 DEF AppendOnly
<1>5. Kept'
  BY <1>1, <1>2, <1>3 DEF DeploymentInv, Kept
<1>6. Durable' /\ Acknowledged'
  BY <1>1, <1>4 DEF DeploymentInv, Durable, Acknowledged
<1>7. Written'
  BY <1>1, <1>3, <1>4 DEF Written, NoFile
<1>8. Linked'
  BY <1>1, <1>2, <1>3 DEF DeploymentInv, Linked
<1> QED
  BY <1>5, <1>6, <1>7, <1>8 DEF DeploymentInv

\* The child writes the values of a key as they were at the fork.
LEMMA ChildWritesKeeps ==
  ASSUME DeploymentInv, NEW k \in Key, ChildWrites(k), UNCHANGED <<sync, replica, link>>,
         \A s \in Settings : s.appendOnly => s.preamble
  PROVE  DeploymentInv'
<1>1. /\ k \in todo /\ todo' = todo \ {k}
      /\ file' = [file EXCEPT ![k] =
           IF IsEmpty(forked[k]) THEN NoValue
           ELSE IF child = "rewrite" /\ ~setting.preamble THEN AofRewrite(forked[k])
           ELSE RdbSave(forked[k])]
      /\ setting' = setting /\ up' = up /\ db' = db /\ rdb' = rdb /\ aof' = aof
      /\ child' = child /\ forked' = forked /\ since' = since /\ promised' = promised
      /\ sync' = sync /\ replica' = replica /\ link' = link
  BY DEF ChildWrites, disk
<1>2. AppendOnly' = AppendOnly
  BY <1>1 DEF AppendOnly
<1>3. Kept'
  BY <1>1 DEF DeploymentInv, Kept
<1>4. Durable' /\ Acknowledged' /\ Linked'
  BY <1>1, <1>2 DEF DeploymentInv, Durable, Acknowledged, Linked
<1>5. Written'
  <2> SUFFICES ASSUME child # "none"
               PROVE  file' = [j \in Key |-> IF j \in todo' THEN NoValue ELSE Saved(forked)[j]]
    BY <1>1, <1>2 DEF DeploymentInv, Written, Saved
  <2>1. file = [j \in Key |-> IF j \in todo THEN NoValue ELSE Saved(forked)[j]]
    BY DEF DeploymentInv, Written
  <2>2. ~ (child = "rewrite" /\ ~setting.preamble)
    BY DEF DeploymentInv, Written, Kept, AppendOnly
  <2>3. file' = [file EXCEPT ![k] = Saved(forked)[k]]
    BY <1>1, <2>2 DEF Saved, RdbSave
  <2> QED
    BY <1>1, <2>1, <2>3
<1> QED
  BY <1>3, <1>4, <1>5 DEF DeploymentInv

\* A complete snapshot replaces the last one.
LEMMA SaveDoneKeeps ==
  ASSUME DeploymentInv, SaveDone, UNCHANGED <<sync, replica, link>>, Cardinality(Chunk) < KeyMod
  PROVE  DeploymentInv'
<1>1. /\ child = "save" /\ todo = {} /\ rdb' = file
      /\ promised' = IF AppendOnly THEN promised ELSE forked
      /\ child' = "none" /\ forked' = NoKeys /\ since' = <<>>
      /\ setting' = setting /\ up' = up /\ db' = db /\ aof' = aof
      /\ sync' = sync /\ replica' = replica /\ link' = link
  BY DEF SaveDone, ChildEnds
<1>2. LoadFile(rdb') = forked
  BY <1>1, WrittenLoads DEF DeploymentInv
<1>3. AppendOnly' = AppendOnly
  BY <1>1 DEF AppendOnly
<1>4. NoKeys \in Keyspaces /\ <<>> \in Seq(Command)
  BY NoKeysBuilt, EmptySeq
<1>5. Kept'
  BY <1>1, <1>2, <1>4 DEF DeploymentInv, Kept
<1>6. Durable' /\ Acknowledged'
  BY <1>1, <1>2, <1>3 DEF DeploymentInv, Durable, Acknowledged
<1>7. Written' /\ Linked'
  BY <1>1 DEF DeploymentInv, Written, Linked
<1> QED
  BY <1>5, <1>6, <1>7 DEF DeploymentInv

\* A rewritten append-only file replaces the last one: its base is the keyspace of the
\* fork and the commands since then lead from there to the keyspace of now.
LEMMA RewriteDoneKeeps ==
  ASSUME DeploymentInv, RewriteDone, UNCHANGED <<sync, replica, link>>, Cardinality(Chunk) < KeyMod
  PROVE  DeploymentInv'
<1>1. /\ child = "rewrite" /\ todo = {} /\ aof' = [base |-> file, tail |-> since]
      /\ child' = "none" /\ forked' = NoKeys /\ since' = <<>>
      /\ setting' = setting /\ up' = up /\ db' = db /\ rdb' = rdb /\ promised' = promised
      /\ sync' = sync /\ replica' = replica /\ link' = link
  BY DEF RewriteDone, ChildEnds
<1>2. aof'.base = file /\ aof'.tail = since /\ aof' = [base |-> aof'.base, tail |-> aof'.tail]
  BY <1>1
<1>3. LoadFile(aof'.base) = forked
  BY <1>1, <1>2, WrittenLoads DEF DeploymentInv
<1>4. AppendOnly' = AppendOnly
  BY <1>1 DEF AppendOnly
<1>5. AppendOnly /\ up /\ Replay(forked, since) = db /\ promised = db
  BY <1>1 DEF DeploymentInv, Written, Acknowledged
<1>6. NoKeys \in Keyspaces /\ <<>> \in Seq(Command)
  BY NoKeysBuilt, EmptySeq
<1>7. Kept'
  BY <1>1, <1>2, <1>3, <1>6 DEF DeploymentInv, Kept
<1>8. Durable' /\ Acknowledged'
  BY <1>1, <1>2, <1>3, <1>4, <1>5 DEF DeploymentInv, Durable, Acknowledged
<1>9. Written' /\ Linked'
  BY <1>1 DEF DeploymentInv, Written, Linked
<1> QED
  BY <1>7, <1>8, <1>9 DEF DeploymentInv

LEMMA RestartRecovers ==
  ASSUME DeploymentInv, Restart
  PROVE  db' = promised
BY DEF DeploymentInv, Restart, Durable

LEMMA RestartKeeps ==
  ASSUME DeploymentInv, Restart, UNCHANGED <<sync, replica, link>>
  PROVE  DeploymentInv'
<1>1. /\ ~up /\ up' = TRUE
      /\ setting' = setting /\ rdb' = rdb /\ aof' = aof
      /\ child' = child /\ forked' = forked /\ todo' = todo /\ file' = file /\ since' = since
      /\ promised' = promised /\ sync' = sync /\ replica' = replica /\ link' = link
  BY DEF Restart, disk, forkage
<1>2. db' = promised
  BY RestartRecovers
<1>3. AppendOnly' = AppendOnly
  BY <1>1 DEF AppendOnly
<1>4. child = "none" /\ sync = "none"
  BY <1>1 DEF DeploymentInv, Written, Linked
<1>5. Kept'
  BY <1>1, <1>2 DEF DeploymentInv, Kept
<1>6. Durable' /\ Acknowledged'
  BY <1>1, <1>2, <1>3 DEF DeploymentInv, Durable, Acknowledged
<1>7. Written' /\ Linked'
  BY <1>1, <1>4 DEF Written, Linked
<1> QED
  BY <1>5, <1>6, <1>7 DEF DeploymentInv

\* A crash takes the child and the link with it.
LEMMA ServerCrashKeeps ==
  ASSUME DeploymentInv, ServerCrash
  PROVE  DeploymentInv'
<1>1. /\ up' = FALSE /\ db' = NoKeys
      /\ child' = "none" /\ forked' = NoKeys /\ since' = <<>>
      /\ setting' = setting /\ rdb' = rdb /\ aof' = aof /\ promised' = promised
      /\ sync' = "none" /\ link' = <<>> /\ replica' = replica
  BY DEF ServerCrash, Crash, ChildEnds, Unlinked, disk
<1>2. AppendOnly' = AppendOnly
  BY <1>1 DEF AppendOnly
<1>3. NoKeys \in Keyspaces /\ <<>> \in Seq(Command)
  BY NoKeysBuilt, EmptySeq
<1>4. Kept'
  BY <1>1, <1>3 DEF DeploymentInv, Kept
<1>5. Durable' /\ Acknowledged' /\ Written' /\ Linked'
  BY <1>1, <1>2 DEF DeploymentInv, Durable, Acknowledged, Written, Linked
<1> QED
  BY <1>4, <1>5 DEF DeploymentInv

\* The replica starts from the keyspace of the fork.
LEMMA SynchronisedKeeps ==
  ASSUME DeploymentInv, Synchronised, Cardinality(Chunk) < KeyMod
  PROVE  DeploymentInv'
<1>1. /\ sync = "saving" /\ todo = {} /\ replica' = LoadFile(file) /\ sync' = "online"
      /\ child' = "none" /\ forked' = NoKeys /\ since' = <<>>
      /\ setting' = setting /\ up' = up /\ db' = db /\ rdb' = rdb /\ aof' = aof
      /\ promised' = promised /\ link' = link
  BY DEF Synchronised, ChildEnds, disk
<1>2. child = "sync" /\ up /\ Replay(forked, link) = db
  BY <1>1 DEF DeploymentInv, Written, Linked
<1>3. replica' = forked
  BY <1>1, <1>2, WrittenLoads DEF DeploymentInv
<1>4. AppendOnly' = AppendOnly
  BY <1>1 DEF AppendOnly
<1>5. NoKeys \in Keyspaces /\ <<>> \in Seq(Command)
  BY NoKeysBuilt, EmptySeq
<1>6. Kept'
  BY <1>1, <1>3, <1>5 DEF DeploymentInv, Kept
<1>7. Durable' /\ Acknowledged' /\ Written' /\ Linked'
  BY <1>1, <1>2, <1>3, <1>4 DEF DeploymentInv, Durable, Acknowledged, Written, Linked
<1> QED
  BY <1>6, <1>7 DEF DeploymentInv

\* The replica executes what comes first on the link.
LEMMA DeliverKeeps ==
  ASSUME DeploymentInv, Deliver
  PROVE  DeploymentInv'
<1>1. /\ sync = "online" /\ link # <<>>
      /\ replica' = Apply(replica, Head(link)) /\ link' = Tail(link)
      /\ setting' = setting /\ up' = up /\ db' = db /\ rdb' = rdb /\ aof' = aof
      /\ child' = child /\ forked' = forked /\ todo' = todo /\ file' = file /\ since' = since
      /\ promised' = promised /\ sync' = sync
  BY DEF Deliver, vars, disk, forkage
<1>2. replica \in Keyspaces /\ link \in Seq(Command)
  BY DEF DeploymentInv, Kept
<1>3. Head(link) \in Command /\ Tail(link) \in Seq(Command)
  BY <1>1, <1>2, HeadTailProperties
<1>4. replica' \in Keyspaces /\ link' \in Seq(Command)
  BY <1>1, <1>2, <1>3, ApplyBuilds
<1>5. Replay(replica', link') = Replay(replica, link)
  BY <1>1, <1>2, ReplayHead
<1>6. AppendOnly' = AppendOnly
  BY <1>1 DEF AppendOnly
<1>7. Kept'
  BY <1>1, <1>4 DEF DeploymentInv, Kept
<1>8. Durable' /\ Acknowledged' /\ Written' /\ Linked'
  BY <1>1, <1>5, <1>6 DEF DeploymentInv, Durable, Acknowledged, Written, Linked
<1> QED
  BY <1>7, <1>8 DEF DeploymentInv

\* A broken connection ends the child that wrote for the replica, and no other.
LEMMA DisconnectKeeps ==
  ASSUME DeploymentInv, Disconnect
  PROVE  DeploymentInv'
<1>1. /\ sync # "none"
      /\ sync' = "none" /\ link' = <<>> /\ replica' = replica
      /\ setting' = setting /\ up' = up /\ db' = db /\ rdb' = rdb /\ aof' = aof
      /\ promised' = promised
  BY DEF Disconnect, Unlinked, disk
<1>2. \/ child' = "none" /\ forked' = NoKeys /\ since' = <<>>
      \/ /\ child' = child /\ forked' = forked /\ todo' = todo
         /\ file' = file /\ since' = since
  BY DEF Disconnect, ChildEnds, forkage
<1>3. AppendOnly' = AppendOnly
  BY <1>1 DEF AppendOnly
<1>4. NoKeys \in Keyspaces /\ <<>> \in Seq(Command)
  BY NoKeysBuilt, EmptySeq
<1>5. Kept'
  BY <1>1, <1>2, <1>4 DEF DeploymentInv, Kept
<1>6. Durable' /\ Acknowledged' /\ Linked'
  BY <1>1, <1>3 DEF DeploymentInv, Durable, Acknowledged, Linked
<1>7. Written'
  BY <1>1, <1>2, <1>3 DEF DeploymentInv, Written, Saved
<1> QED
  BY <1>5, <1>6, <1>7 DEF DeploymentInv

LEMMA StutterKeeps ==
  ASSUME DeploymentInv, UNCHANGED deployment
  PROVE  DeploymentInv'
<1>1. /\ setting' = setting /\ up' = up /\ db' = db /\ rdb' = rdb /\ aof' = aof
      /\ child' = child /\ forked' = forked /\ todo' = todo /\ file' = file /\ since' = since
      /\ promised' = promised /\ sync' = sync /\ replica' = replica /\ link' = link
  BY DEF deployment, vars, disk, forkage
<1> QED
  BY <1>1 DEF DeploymentInv, Kept, Durable, Acknowledged, Written, Linked, AppendOnly, Saved

-----------------------------------------------------------------------------
(***************************************************************************)
(* The theorems.  They leave out the settings of which persistence_rewrite *)
(* shows that they lose every key, and need a container key that is not in *)
(* use, as the count of a serialized array has 32 bits.                    *)
(***************************************************************************)

\* What is on disk, in the file that is being written and under way to the replica
\* makes up for the keyspace, in every reachable state.
THEOREM DeploymentInvariant ==
  ASSUME Cardinality(Chunk) < KeyMod, \A s \in Settings : s.appendOnly => s.preamble
  PROVE  DeploymentSpec => []DeploymentInv
<1>1. DeploymentInit => DeploymentInv
  BY InitKeeps
<1>2. DeploymentInv /\ [DeploymentNext]_deployment => DeploymentInv'
  <2> SUFFICES ASSUME DeploymentInv, [DeploymentNext]_deployment PROVE DeploymentInv'
    OBVIOUS
  <2>1. ASSUME NEW c \in Command, Propagate(c) PROVE DeploymentInv'
    BY <2>1, PropagateKeeps
  <2>2. CASE StartSync
    BY <2>2, ForkKeeps DEF StartSync
  <2>3. CASE Synchronised
    BY <2>3, SynchronisedKeeps
  <2>4. CASE Deliver
    BY <2>4, DeliverKeeps
  <2>5. CASE Disconnect
    BY <2>5, DisconnectKeeps
  <2>6. CASE ServerCrash
    BY <2>6, ServerCrashKeeps
  <2>7. CASE Alone
    <3>1. UNCHANGED <<sync, replica, link>>
      BY <2>7 DEF Alone
    <3>2. ASSUME NEW job \in {"save", "rewrite"}, Fork(job) PROVE DeploymentInv'
      BY <3>1, <3>2, ForkKeeps
    <3>3. ASSUME NEW k \in Key, ChildWrites(k) PROVE DeploymentInv'
      BY <3>1, <3>3, ChildWritesKeeps
    <3>4. CASE SaveDone
      BY <3>1, <3>4, SaveDoneKeeps
    <3>5. CASE RewriteDone
      BY <3>1, <3>5, RewriteDoneKeeps
    <3>6. CASE Restart
      BY <3>1, <3>6, RestartKeeps
    <3> QED
      BY <2>7, <3>2, <3>3, <3>4, <3>5, <3>6 DEF Alone
  <2>8. CASE UNCHANGED deployment
    BY <2>8, StutterKeeps
  <2> QED
    BY <2>1, <2>2, <2>3, <2>4, <2>5, <2>6, <2>7, <2>8 DEF DeploymentNext
<1> QED
  BY <1>1, <1>2, PTL DEF DeploymentSpec

\* A restart at any moment brings back what clients may count on: every acknowledged
\* write with an append-only file, the last complete snapshot without one.
THEOREM RestartRestoresHolds ==
  ASSUME Cardinality(Chunk) < KeyMod, \A s \in Settings : s.appendOnly => s.preamble
  PROVE  DeploymentSpec => RestartRestores
<1>1. DeploymentInv /\ [DeploymentNext]_deployment => [Restart => db' = promised]_vars
  BY RestartRecovers
<1> QED
  BY <1>1, DeploymentInvariant, PTL DEF DeploymentSpec, RestartRestores

\* A synchronised replica will be what the server is, container by container, once it
\* has executed what is under way.
THEOREM ReplicaAgreesHolds ==
  ASSUME Cardinality(Chunk) < KeyMod, \A s \in Settings : s.appendOnly => s.preamble
  PROVE  DeploymentSpec => []ReplicaAgrees
<1>1. DeploymentInv => ReplicaAgrees
  BY DEF DeploymentInv, Linked, ReplicaAgrees
<1> QED
  BY <1>1, DeploymentInvariant, PTL

=============================================================================
