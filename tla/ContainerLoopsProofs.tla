------------------------ MODULE ContainerLoopsProofs ------------------------
(***************************************************************************)
(* What holds of an array container, for memory of any size with any       *)
(* contents: its searches, its changes, and the search for the runs of a   *)
(* run container in its slots; of the loops over ranges, for containers of *)
(* any size and ranges of any length; and of the array of containers of a  *)
(* bitmap, for any number of keys, any growth and any other bitmaps.       *)
(***************************************************************************)
EXTENDS ContainerLoops, Recursion

-----------------------------------------------------------------------------
(***************************************************************************)
(* Binary search.                                                          *)
(***************************************************************************)

\* The first k slots of an array ascend; behind them there may be anything.
Ascends(a, k) == \A i, j \in 0 .. k - 1 : i < j => a[i] < a[j]

\* What binarySearch is to return: the place of the key, or the one it belongs at.
Located(a, k, key, r) ==
  \/ r \in 0 .. k - 1 /\ a[r] = key
  \/ \E p \in 0 .. k :
       /\ r = -(p + 1)
       /\ \A i \in 0 .. p - 1 : a[i] < key
       /\ \A i \in p .. k - 1 : key < a[i]

LEMMA BinarySearchFinds ==
  ASSUME NEW m \in Nat, NEW a \in [0 .. m - 1 -> Int], NEW k \in 0 .. m, Ascends(a, k),
         NEW key \in Int
  PROVE  Located(a, k, key, BinarySearch(a, k, key))
<1> DEFINE A == 0 .. k
           B == -1 .. k - 1
           D == A \X B
           Body(f) == [d \in D |->
                        LET low == d[1]  high == d[2]  middle == (low + high) \div 2
                        IN  IF low > high THEN -(low + 1)
                            ELSE IF a[middle] < key THEN f[<<middle + 1, high>>]
                            ELSE IF a[middle] > key THEN f[<<low, middle - 1>>]
                            ELSE middle]
           rank == [d \in D |-> IF d[1] <= d[2] THEN d[2] - d[1] + 1 ELSE 0]
           F == [f \in [D -> Int] |-> Body(f)]
<1>1. ASSUME NEW low \in A, NEW high \in B, low <= high
      PROVE  /\ (low + high) \div 2 \in low .. high
             /\ (low + high) \div 2 + 1 \in A
             /\ (low + high) \div 2 - 1 \in B
             /\ (low + high) \div 2 \in 0 .. m - 1
  BY <1>1
<1>12. ASSUME NEW low \in A, NEW high \in B
       PROVE  /\ <<low, high>> \in D
              /\ rank[<<low, high>>] = IF low <= high THEN high - low + 1 ELSE 0
  <2>1. <<low, high>> \in D /\ <<low, high>>[1] = low /\ <<low, high>>[2] = high
    OBVIOUS
  <2> QED
    BY <2>1
<1>13. ASSUME NEW f, NEW low \in A, NEW high \in B, low <= high
       PROVE  Body(f)[<<low, high>>] =
                LET middle == (low + high) \div 2
                IN  IF a[middle] < key THEN f[<<middle + 1, high>>]
                    ELSE IF a[middle] > key THEN f[<<low, middle - 1>>]
                    ELSE middle
  <2>1. <<low, high>> \in D /\ <<low, high>>[1] = low /\ <<low, high>>[2] = high
    OBVIOUS
  <2>2. ~ (low > high)
    BY <1>13
  <2> HIDE DEF A, B, D
  <2> QED
    BY <2>1, <2>2
<1>14. ASSUME NEW f, NEW low \in A, NEW high \in B, low > high
       PROVE  Body(f)[<<low, high>>] = -(low + 1)
  <2>1. <<low, high>> \in D
    BY <1>12, Zenon
  <2> HIDE DEF A, B, D
  <2> QED
    BY <1>14, <2>1
<1>2. Descends(D, Int, k, rank, F)
  <2>1. F \in [[D -> Int] -> [D -> Int]]
    <3>1. ASSUME NEW f \in [D -> Int] PROVE Body(f) \in [D -> Int]
      <4>1. ASSUME NEW low \in A, NEW high \in B
            PROVE  (LET middle == (low + high) \div 2
                    IN  IF low > high THEN -(low + 1)
                        ELSE IF a[middle] < key THEN f[<<middle + 1, high>>]
                        ELSE IF a[middle] > key THEN f[<<low, middle - 1>>]
                        ELSE middle) \in Int
        <5> DEFINE middle == (low + high) \div 2
        <5>1. low \in Int /\ high \in Int
          OBVIOUS
        <5>2. CASE low > high
          BY ONLY <5>1, <5>2
        <5>3. CASE low <= high
          <6>1. middle \in Int /\ <<middle + 1, high>> \in D /\ <<low, middle - 1>> \in D
            BY <1>1, <5>3, SMTT(30)
          <6> HIDE DEF middle, D
          <6>2. f[<<middle + 1, high>>] \in Int /\ f[<<low, middle - 1>>] \in Int
            BY <6>1
          <6>3. ~ (low > high)
            BY ONLY <5>1, <5>3
          <6> QED
            BY ONLY <6>1, <6>2, <6>3 DEF middle
        <5> QED
          BY ONLY <5>1, <5>2, <5>3
      <4> QED
        BY <4>1
    <3> QED
      BY <3>1
  <2>2. rank \in [D -> 0 .. k]
    <3>1. \A low \in A, high \in B : (IF low <= high THEN high - low + 1 ELSE 0) \in 0 .. k
      OBVIOUS
    <3> HIDE DEF A, B
    <3>2. \A d \in D : (IF d[1] <= d[2] THEN d[2] - d[1] + 1 ELSE 0) \in 0 .. k
      BY ONLY <3>1
    <3> HIDE DEF D
    <3> QED
      BY <3>2
  <2>3. ASSUME NEW f \in [D -> Int], NEW g \in [D -> Int], NEW d \in D,
               \A c \in D : rank[c] < rank[d] => f[c] = g[c]
        PROVE  F[f][d] = F[g][d]
    <3>1. PICK low \in A, high \in B : d = <<low, high>>
      <4> HIDE DEF A, B, Body, rank, F
      <4> QED
        OBVIOUS
    <3> DEFINE middle == (low + high) \div 2
    <3>2. F[f][d] = Body(f)[<<low, high>>] /\ F[g][d] = Body(g)[<<low, high>>]
      <4> HIDE DEF Body, D
      <4> QED
        BY <3>1, Zenon
    <3>3. CASE low > high
      <4> HIDE DEF A, B, Body, rank, F
      <4>1. Body(f)[<<low, high>>] = -(low + 1) /\ Body(g)[<<low, high>>] = -(low + 1)
        BY <1>14, <3>3, Zenon
      <4> QED
        BY <3>2, <4>1, Zenon
    <3>4. CASE low <= high
      <4>0. middle \in low .. high /\ middle + 1 \in A /\ middle - 1 \in B
        BY <1>1, <3>4
      <4> HIDE DEF middle
      <4>1. f[<<middle + 1, high>>] = g[<<middle + 1, high>>]
        <5>1. <<middle + 1, high>> \in D /\ <<low, high>> \in D
          BY <4>0
        <5>2. rank[<<middle + 1, high>>] < rank[<<low, high>>]
          <6> HIDE DEF rank, D
          <6>1. rank[<<middle + 1, high>>] = IF middle + 1 <= high THEN high - (middle + 1) + 1 ELSE 0
            BY <1>12, <4>0
          <6>2. rank[<<low, high>>] = high - low + 1
            BY <1>12, <3>4
          <6>3. low \in Int /\ high \in Int /\ middle \in low .. high
            BY <4>0
          <6> QED
            BY ONLY <3>4, <6>1, <6>2, <6>3, SMTT(30)
        <5> QED
          BY <2>3, <3>1, <5>1, <5>2
      <4>2. f[<<low, middle - 1>>] = g[<<low, middle - 1>>]
        <5>1. <<low, middle - 1>> \in D /\ <<low, high>> \in D
          BY <4>0
        <5>2. rank[<<low, middle - 1>>] < rank[<<low, high>>]
          <6> HIDE DEF rank, D
          <6>1. rank[<<low, middle - 1>>] = IF low <= middle - 1 THEN (middle - 1) - low + 1 ELSE 0
            BY <1>12, <4>0
          <6>2. rank[<<low, high>>] = high - low + 1
            BY <1>12, <3>4
          <6>3. low \in Int /\ high \in Int /\ middle \in low .. high
            BY <4>0
          <6> QED
            BY ONLY <3>4, <6>1, <6>2, <6>3, SMTT(30)
        <5> QED
          BY <2>3, <3>1, <5>1, <5>2
      <4> QED
        BY <3>2, <4>1, <4>2, Zenon DEF middle
    <3>5. low > high \/ low <= high
      OBVIOUS
    <3> HIDE DEF F, Body, rank
    <3> QED
      BY ONLY <3>3, <3>4, <3>5
  <2> QED
    BY <2>1, <2>2, <2>3 DEF Descends
<1>3. PICK w \in [D -> Int] : w = F[w]
  <2> HIDE DEF D, rank, F
  <2>1. k \in Nat
    OBVIOUS
  <2> QED
    BY <1>2, <2>1, FixpointExists
<1>4. w = Body(w)
  BY <1>3
<1> DEFINE search == CHOOSE f : f = Body(f)
<1>5. search = Body(search)
  <2> HIDE DEF Body
  <2> QED
    BY <1>4
<1>6. BinarySearch(a, k, key) = search[<<0, k - 1>>]
  BY DEF BinarySearch
<1> HIDE DEF search
\* What has been excluded when the search comes to low and high.
<1> DEFINE Closing(low, high) == /\ \A i \in 0 .. low - 1 : a[i] < key
                                 /\ \A i \in high + 1 .. k - 1 : key < a[i]
           Decided(s) == \A low \in A, high \in B :
             high - low + 1 <= s /\ Closing(low, high) => Located(a, k, key, search[<<low, high>>])
           T == {s \in 0 .. k : Decided(s)}
<1>7. ASSUME NEW low \in A, NEW high \in B, low > high, Closing(low, high)
      PROVE  Located(a, k, key, search[<<low, high>>])
  <2>1. search[<<low, high>>] = -(low + 1)
    BY <1>5, <1>7
  <2>2. \A i \in low .. k - 1 : key < a[i]
    BY <1>7
  <2> QED
    BY <1>7, <2>1, <2>2 DEF Located
<1>8. Decided(0)
  <2>1. ASSUME NEW low \in A, NEW high \in B, high - low + 1 <= 0 PROVE low > high
    BY <2>1
  <2> HIDE DEF A, B, Closing
  <2> QED
    BY <1>7, <2>1
<1>9. ASSUME NEW s \in 1 .. k, Decided(s - 1) PROVE Decided(s)
  <2> SUFFICES ASSUME NEW low \in A, NEW high \in B, high - low + 1 <= s, Closing(low, high)
               PROVE  Located(a, k, key, search[<<low, high>>])
    OBVIOUS
  <2>1. CASE low > high
    BY <1>7, <2>1
  <2>2. CASE low <= high
    <3> DEFINE middle == (low + high) \div 2
    <3>1. /\ middle \in low .. high /\ middle + 1 \in A /\ middle - 1 \in B
          /\ middle \in 0 .. m - 1 /\ middle \in 0 .. k - 1
      <4>1. /\ middle \in low .. high /\ middle + 1 \in A /\ middle - 1 \in B
            /\ middle \in 0 .. m - 1
        BY <1>1, <2>2, Zenon
      <4> HIDE DEF middle
      <4> QED
        BY <4>1
    <3>2. search[<<low, high>>] = Body(search)[<<low, high>>] /\ <<low, high>> \in D
      BY <1>5, <1>12, Zenon
    <3>9. search[<<low, high>>] = IF a[middle] < key THEN search[<<middle + 1, high>>]
                              ELSE IF a[middle] > key THEN search[<<low, middle - 1>>]
                              ELSE middle
      <4> HIDE DEF A, B, Body
      <4>1. low \in A /\ high \in B
        OBVIOUS
      <4> QED
        BY ONLY <1>13, <2>2, <3>2, <4>1 DEF middle
    <3>3. a[middle] \in Int
      BY <3>1
    <3> HIDE DEF middle, Body
    <3>4. CASE a[middle] < key
      <4>1. \A i \in 0 .. middle : a[i] < key
        <5> TAKE i \in 0 .. middle
        <5>1. i \in 0 .. k - 1 /\ i \in 0 .. m - 1 /\ a[i] \in Int
          BY <3>1
        <5>2. i < middle => a[i] < a[middle]
          BY <3>1, <5>1 DEF Ascends
        <5> QED
          BY <3>1, <3>3, <3>4, <5>1, <5>2
      <4>2. Closing(middle + 1, high) /\ high - (middle + 1) + 1 <= s - 1
        BY <3>1, <4>1
      <4> QED
        BY <1>9, <3>1, <3>9, <3>4, <4>2
    <3>5. CASE a[middle] > key
      <4>1. \A i \in middle .. k - 1 : key < a[i]
        <5> TAKE i \in middle .. k - 1
        <5>1. i \in 0 .. k - 1 /\ i \in 0 .. m - 1 /\ a[i] \in Int
          BY <3>1
        <5>2. middle < i => a[middle] < a[i]
          BY <3>1, <5>1 DEF Ascends
        <5> QED
          BY <3>1, <3>3, <3>5, <5>1, <5>2
      <4>2. Closing(low, middle - 1) /\ (middle - 1) - low + 1 <= s - 1
        BY <3>1, <4>1
      <4>3. search[<<low, high>>] = search[<<low, middle - 1>>]
        BY <3>3, <3>5, <3>9
      <4> QED
        BY <1>9, <3>1, <4>2, <4>3
    <3>6. CASE a[middle] = key
      BY <3>1, <3>9, <3>6 DEF Located
    <3> QED
      BY <3>3, <3>4, <3>5, <3>6
  <2> QED
    BY <2>1, <2>2
<1>10. k \in T
  <2> HIDE DEF Decided
  <2>1. k \in Nat
    OBVIOUS
  <2>2. 0 \in T /\ \A s \in 1 .. k : s - 1 \in T => s \in T
    BY <1>8, <1>9
  <2> HIDE DEF T
  <2>3. \A s \in 0 .. k : s \in T
    BY ONLY <2>1, <2>2, TurnByTurn
  <2> QED
    BY <2>1, <2>3
<1>11. 0 \in A /\ k - 1 \in B /\ (k - 1) - 0 + 1 <= k /\ Closing(0, k - 1)
  OBVIOUS
<1> QED
  BY <1>6, <1>10, <1>11

-----------------------------------------------------------------------------
(***************************************************************************)
(* Galloping search.                                                       *)
(***************************************************************************)

\* The span that is returned begins half way at a slot below min and ends behind the
\* array or at one that is not.
Reached(a, lower, k, min, s) ==
  /\ s \in Nat /\ s >= 1
  /\ lower + s \div 2 < k /\ a[lower + s \div 2] < min
  /\ lower + s < k => ~ (a[lower + s] < min)

LEMMA SpanReaches ==
  ASSUME NEW m \in Nat, NEW a \in [0 .. m - 1 -> Int], NEW k \in 0 .. m,
         NEW lower \in 0 .. k - 1, NEW min \in Int, a[lower] < min
  PROVE  Reached(a, lower, k, min, Span(a, lower, k, min))
<1> DEFINE D == 1 .. 2 * k
           Body(f) == [s \in D |-> IF lower + s < k /\ a[lower + s] < min THEN f[2 * s] ELSE s]
           rank == [s \in D |-> 2 * k - s]
           F == [f \in [D -> Int] |-> Body(f)]
           N == 2 * k
<1>1. N \in Nat /\ k >= 1
  OBVIOUS
<1>2. ASSUME NEW s \in D, lower + s < k
      PROVE  2 * s \in D /\ N - 2 * s < N - s
  BY <1>2
<1>3. Descends(D, Int, N, rank, F)
  <2>1. F \in [[D -> Int] -> [D -> Int]]
    <3>1. ASSUME NEW f \in [D -> Int] PROVE Body(f) \in [D -> Int]
      <4>1. ASSUME NEW s \in D
            PROVE  (IF lower + s < k /\ a[lower + s] < min THEN f[2 * s] ELSE s) \in Int
        <5>1. lower + s < k => f[2 * s] \in Int
          BY <1>2, <3>1
        <5> QED
          BY <5>1
      <4> QED
        BY <4>1
    <3> QED
      BY <3>1
  <2>2. rank \in [D -> 0 .. N]
    OBVIOUS
  <2>3. ASSUME NEW f \in [D -> Int], NEW g \in [D -> Int], NEW s \in D,
               \A c \in D : rank[c] < rank[s] => f[c] = g[c]
        PROVE  F[f][s] = F[g][s]
    <3>1. F[f][s] = Body(f)[s] /\ F[g][s] = Body(g)[s]
      OBVIOUS
    <3>2. lower + s < k => f[2 * s] = g[2 * s]
      <4>1. rank[s] = N - s
        OBVIOUS
      <4>2. 2 * s \in D => rank[2 * s] = N - 2 * s
        OBVIOUS
      <4> HIDE DEF rank, D
      <4> QED
        BY <1>2, <2>3, <4>1, <4>2
    <3> HIDE DEF F
    <3> QED
      BY <3>1, <3>2
  <2> HIDE DEF F, rank, N, D
  <2> QED
    BY <2>1, <2>2, <2>3 DEF Descends
<1>4. PICK w \in [D -> Int] : w = F[w]
  <2> HIDE DEF D, rank, F, N
  <2> QED
    BY <1>1, <1>3, FixpointExists
<1>5. w = Body(w)
  BY <1>4
<1> DEFINE span == CHOOSE f : f = Body(f)
<1>6. span = Body(span)
  <2> HIDE DEF Body
  <2> QED
    BY <1>5
<1>7. Span(a, lower, k, min) = span[1]
  BY DEF Span
<1> HIDE DEF span
<1>8. \A s \in D : span[s] = IF lower + s < k /\ a[lower + s] < min THEN span[2 * s] ELSE s
  BY <1>6
<1> DEFINE Below(s) == lower + s \div 2 < k /\ a[lower + s \div 2] < min
           T == {j \in 0 .. N :
                   \A s \in D : N - s <= j /\ Below(s) => Reached(a, lower, k, min, span[s])}
<1>9. ASSUME NEW s \in D, Below(s), ~ (lower + s < k /\ a[lower + s] < min)
      PROVE  Reached(a, lower, k, min, span[s])
  <2>1. span[s] = s
    BY <1>8, <1>9
  <2>2. s \in Nat /\ s >= 1
    OBVIOUS
  <2> HIDE DEF D, T
  <2> QED
    BY <1>9, <2>1, <2>2 DEF Reached
<1>10. 0 \in T
  <2> SUFFICES ASSUME NEW s \in D, N - s <= 0, Below(s)
               PROVE  Reached(a, lower, k, min, span[s])
    OBVIOUS
  <2>1. ~ (lower + s < k)
    OBVIOUS
  <2> QED
    BY <1>9, <2>1
<1>11. ASSUME NEW j \in 1 .. N, j - 1 \in T PROVE j \in T
  <2> SUFFICES ASSUME NEW s \in D, N - s <= j, Below(s)
               PROVE  Reached(a, lower, k, min, span[s])
    OBVIOUS
  <2>1. CASE lower + s < k /\ a[lower + s] < min
    <3>1. 2 * s \in D /\ N - 2 * s <= j - 1
      BY <1>2, <2>1
    <3>2. (2 * s) \div 2 = s
      OBVIOUS
    <3>3. Below(2 * s)
      BY <2>1, <3>2
    <3>4. span[s] = span[2 * s]
      BY <1>8, <2>1
    <3> QED
      BY <1>11, <3>1, <3>3, <3>4
  <2> QED
    BY <1>9, <2>1
<1>12. N \in T
  <2> HIDE DEF T, N
  <2>1. \A j \in 0 .. N : j \in T
    BY <1>1, <1>10, <1>11, TurnByTurn
  <2> QED
    BY <1>1, <2>1
<1>13. 1 \in D /\ N - 1 <= N /\ 1 \div 2 = 0
  OBVIOUS
<1>14. Below(1)
  BY <1>13
<1> QED
  BY <1>7, <1>12, <1>13, <1>14

\* What advanceUntil is to return between a slot below min and one that is not: the
\* first that is not.
FirstNotBelow(a, lower, upper, min, r) ==
  /\ r \in lower + 1 .. upper
  /\ a[r] >= min
  /\ \A i \in 0 .. r - 1 : a[i] < min

LEMMA AscendsTo ==
  ASSUME NEW m \in Nat, NEW a \in [0 .. m - 1 -> Int], NEW k \in 0 .. m, Ascends(a, k),
         NEW j \in 0 .. k - 1
  PROVE  /\ a[j] \in Int
         /\ \A i \in 0 .. j - 1 : a[i] \in Int /\ a[i] < a[j]
         /\ \A i \in j + 1 .. k - 1 : a[i] \in Int /\ a[j] < a[i]
<1>1. \A i \in 0 .. k - 1 : a[i] \in Int
  OBVIOUS
<1>2. ASSUME NEW i \in 0 .. j - 1 PROVE a[i] \in Int /\ a[i] < a[j]
  BY <1>1 DEF Ascends
<1>3. ASSUME NEW i \in j + 1 .. k - 1 PROVE a[i] \in Int /\ a[j] < a[i]
  BY <1>1 DEF Ascends
<1> QED
  BY <1>1, <1>2, <1>3

LEMMA BetweenFinds ==
  ASSUME NEW m \in Nat, NEW a \in [0 .. m - 1 -> Int], NEW k \in 0 .. m, Ascends(a, k),
         NEW min \in Int, NEW lower \in 0 .. k - 1, NEW upper \in 0 .. k - 1,
         lower < upper, a[lower] < min, a[upper] >= min
  PROVE  FirstNotBelow(a, lower, upper, min, Between(a, lower, upper, min))
<1> DEFINE P == lower .. upper
           D == P \X P
           Half(l, u) == (l + u) \div 2
           Next1(f, l, u) == IF l + 1 = u THEN u
                             ELSE IF a[Half(l, u)] = min THEN Half(l, u)
                             ELSE IF a[Half(l, u)] < min THEN f[<<Half(l, u), u>>]
                             ELSE f[<<l, Half(l, u)>>]
           Body(f) == [s \in D |-> Next1(f, s[1], s[2])]
\* With ends that are not in order the search may call itself with the same ones: any
\* value will do there.
           Stays(l, u) == \/ a[Half(l, u)] < min /\ Half(l, u) = l
                          \/ ~ (a[Half(l, u)] < min) /\ Half(l, u) = u
           Idle1(l, u) == l + 1 # u /\ a[Half(l, u)] # min /\ Stays(l, u)
           Tame(f) == [s \in D |-> IF Idle1(s[1], s[2]) THEN 0 ELSE Next1(f, s[1], s[2])]
           N == upper - lower
           Apart(l, u) == IF l <= u THEN u - l ELSE l - u
           rank == [s \in D |-> Apart(s[1], s[2])]
           F == [f \in [D -> Int] |-> Tame(f)]
<1>1. N \in Nat /\ \A x \in P : x \in Int /\ a[x] \in Int
  OBVIOUS
<1>2. ASSUME NEW l \in P, NEW u \in P
      PROVE  /\ Half(l, u) \in P
             /\ l + 1 < u => Half(l, u) \in l + 1 .. u - 1
             /\ l = u => Half(l, u) = l
             /\ l > u => Half(l, u) \in u .. l - 1
  OBVIOUS
<1>3. ASSUME NEW l \in P, NEW u \in P
      PROVE  <<l, u>> \in D /\ rank[<<l, u>>] = Apart(l, u) /\ Apart(l, u) \in 0 .. N
  <2>1. <<l, u>> \in D /\ <<l, u>>[1] = l /\ <<l, u>>[2] = u
    OBVIOUS
  <2>2. Apart(l, u) \in 0 .. N
    OBVIOUS
  <2> HIDE DEF Apart, D
  <2> QED
    BY <2>1, <2>2
<1>4. ASSUME NEW s \in D PROVE s[1] \in P /\ s[2] \in P /\ s = <<s[1], s[2]>>
  OBVIOUS
<1>5. ASSUME NEW l \in P, NEW u \in P, l + 1 # u
      PROVE  /\ Half(l, u) # l => Apart(Half(l, u), u) < Apart(l, u)
             /\ Half(l, u) # u => Apart(l, Half(l, u)) < Apart(l, u)
  <2> DEFINE h == Half(l, u)
  <2>1. /\ h \in P
        /\ l + 1 < u => h \in l + 1 .. u - 1
        /\ l = u => h = l
        /\ l > u => h \in u .. l - 1
    BY <1>2
  <2>2. l < u => l + 1 < u
    BY <1>5
  <2> HIDE DEF h
  <2>3. /\ h # l => Apart(h, u) < Apart(l, u)
        /\ h # u => Apart(l, h) < Apart(l, u)
    BY <2>1, <2>2
  <2> QED
    BY <2>3 DEF h
<1> HIDE DEF P, D, Half, N, Apart
<1>6. Descends(D, Int, N, rank, F)
  <2>1. F \in [[D -> Int] -> [D -> Int]]
    <3>1. ASSUME NEW f \in [D -> Int] PROVE Tame(f) \in [D -> Int]
      <4>1. ASSUME NEW s \in D
            PROVE  Next1(f, s[1], s[2]) \in Int
        <5> DEFINE l == s[1]
                   u == s[2]
        <5>1. l \in P /\ u \in P
          BY <1>4
        <5> HIDE DEF l, u
        <5>2. /\ Half(l, u) \in P /\ <<Half(l, u), u>> \in D /\ <<l, Half(l, u)>> \in D
              /\ u \in Int /\ Half(l, u) \in Int
          BY <1>1, <1>2, <1>3, <5>1
        <5>3. Next1(f, l, u) \in Int
          BY <3>1, <5>2
        <5> QED
          BY <5>3 DEF l, u
      <4> HIDE DEF Next1
      <4> QED
        BY <4>1
    <3> QED
      BY <3>1
  <2>2. rank \in [D -> 0 .. N]
    BY <1>3, <1>4
  <2>3. ASSUME NEW f \in [D -> Int], NEW g \in [D -> Int], NEW s \in D,
               \A c \in D : rank[c] < rank[s] => f[c] = g[c]
        PROVE  F[f][s] = F[g][s]
    <3>1. F[f][s] = Tame(f)[s] /\ F[g][s] = Tame(g)[s]
      OBVIOUS
    <3> DEFINE l == s[1]
               u == s[2]
    <3>2. l \in P /\ u \in P /\ s = <<l, u>>
      BY <1>4
    <3>3. /\ Tame(f)[s] = IF Idle1(l, u) THEN 0 ELSE Next1(f, l, u)
          /\ Tame(g)[s] = IF Idle1(l, u) THEN 0 ELSE Next1(g, l, u)
      OBVIOUS
    <3> HIDE DEF l, u
    <3>4. Half(l, u) \in P /\ <<Half(l, u), u>> \in D /\ <<l, Half(l, u)>> \in D
      BY <1>2, <1>3, <3>2
    <3>5. /\ rank[s] = Apart(l, u)
          /\ rank[<<Half(l, u), u>>] = Apart(Half(l, u), u)
          /\ rank[<<l, Half(l, u)>>] = Apart(l, Half(l, u))
      BY <1>3, <3>2, <3>4
    <3> HIDE DEF rank
    <3>6. ASSUME l + 1 # u, Half(l, u) # l PROVE f[<<Half(l, u), u>>] = g[<<Half(l, u), u>>]
      BY <1>5, <2>3, <3>2, <3>4, <3>5, <3>6
    <3>7. ASSUME l + 1 # u, Half(l, u) # u PROVE f[<<l, Half(l, u)>>] = g[<<l, Half(l, u)>>]
      BY <1>5, <2>3, <3>2, <3>4, <3>5, <3>7
    <3>8. ~ Idle1(l, u) => Next1(f, l, u) = Next1(g, l, u)
      BY <3>6, <3>7
    <3> HIDE DEF Tame, F, Idle1, Next1
    <3> QED
      BY <3>1, <3>3, <3>8
  <2> HIDE DEF F, rank
  <2> QED
    BY <2>1, <2>2, <2>3 DEF Descends
<1>7. PICK w \in [D -> Int] : w = F[w]
  <2> HIDE DEF rank, F
  <2>1. N \in Nat
    BY <1>1
  <2>2. 0 \in Int
    OBVIOUS
  <2> QED
    BY ONLY <1>6, <2>1, <2>2, FixpointExists
<1>8. w = Tame(w)
  BY <1>7
<1>9. w = Body(w)
  <2>1. ASSUME NEW s \in D PROVE w[s] = Body(w)[s]
    <3> DEFINE l == s[1]
               u == s[2]
    <3>1. s = <<l, u>>
      BY <1>4
    <3>2. w[s] = IF Idle1(l, u) THEN 0 ELSE Next1(w, l, u)
      BY <1>8
    <3>3. Body(w)[s] = Next1(w, l, u)
      OBVIOUS
    <3> HIDE DEF l, u, Body
    <3>4. Idle1(l, u) => Next1(w, l, u) = w[s]
      BY <3>1
    <3> QED
      BY <3>2, <3>3, <3>4
  <2>2. w \in [D -> Int] /\ Body(w) = [s \in D |-> Body(w)[s]]
    BY <1>7
  <2> HIDE DEF Body
  <2> QED
    BY <2>1, <2>2
<1> DEFINE mid == CHOOSE f : f = Body(f)
<1>10. mid = Body(mid)
  <2> HIDE DEF Body
  <2> QED
    BY <1>9
<1>11. Between(a, lower, upper, min) = mid[<<lower, upper>>]
  BY DEF Between, P, D, Half
<1> HIDE DEF mid
<1>12. ASSUME NEW l \in P, NEW u \in P PROVE mid[<<l, u>>] = Next1(mid, l, u)
  <2>1. <<l, u>> \in D /\ <<l, u>>[1] = l /\ <<l, u>>[2] = u
    BY <1>3
  <2>2. mid[<<l, u>>] = Body(mid)[<<l, u>>]
    BY <1>10
  <2> HIDE DEF Next1
  <2> QED
    BY <2>1, <2>2
<1> DEFINE Around(l, u) == l < u /\ a[l] < min /\ a[u] >= min
           T == {j \in 0 .. N : \A l, u \in P :
                   u - l <= j /\ Around(l, u) => FirstNotBelow(a, l, u, min, mid[<<l, u>>])}
<1>13. ASSUME NEW x \in P
       PROVE  /\ x \in 0 .. k - 1 /\ a[x] \in Int
              /\ a[x] < min => \A i \in 0 .. x : a[i] < min
              /\ a[x] = min => \A i \in 0 .. x - 1 : a[i] < min
  <2>1. x \in 0 .. k - 1
    BY DEF P
  <2>2. a[x] \in Int /\ \A i \in 0 .. x - 1 : a[i] \in Int /\ a[i] < a[x]
    BY <2>1, AscendsTo
  <2> QED
    BY <2>1, <2>2
<1>14. 0 \in T
  <2>1. \A l, u \in P : u - l <= 0 => ~ (l < u)
    BY <1>1
  <2> QED
    BY <1>1, <2>1
<1>15. ASSUME NEW j \in 1 .. N, j - 1 \in T PROVE j \in T
  <2> SUFFICES ASSUME NEW l \in P, NEW u \in P, u - l <= j, Around(l, u)
               PROVE  FirstNotBelow(a, l, u, min, mid[<<l, u>>])
    BY <1>1
  <2>1. l \in Int /\ u \in Int /\ l >= 0
    BY <1>1, <1>13
  <2>2. CASE l + 1 = u
    <3>1. mid[<<l, u>>] = u
      BY <1>12, <2>2
    <3>2. \A i \in 0 .. u - 1 : a[i] < min
      BY <1>13, <2>1, <2>2
    <3> QED
      BY <2>1, <2>2, <3>1, <3>2 DEF FirstNotBelow
  <2>3. CASE l + 1 < u
    <3> DEFINE h == Half(l, u)
    <3>1. h \in P /\ h \in l + 1 .. u - 1
      BY <1>2, <2>3
    <3>2. mid[<<l, u>>] = IF a[h] = min THEN h
                          ELSE IF a[h] < min THEN mid[<<h, u>>] ELSE mid[<<l, h>>]
      <4> HIDE DEF Next1, T, h
      <4>1. mid[<<l, u>>] = Next1(mid, l, u)
        BY <1>12
      <4>2. l + 1 # u
        BY ONLY <2>1, <2>3
      <4> QED
        BY ONLY <4>1, <4>2 DEF Next1, h
    <3>3. a[h] \in Int
      BY <1>13, <3>1
    <3>9. min \in Int
      OBVIOUS
    <3> HIDE DEF h, Next1
    <3>4. CASE a[h] = min
      <4>1. mid[<<l, u>>] = h
        BY <3>2, <3>4
      <4>2. \A i \in 0 .. h - 1 : a[i] < min
        BY <1>13, <3>1, <3>4
      <4> QED
        BY <2>1, <3>1, <3>4, <4>1, <4>2 DEF FirstNotBelow
    <3>5. CASE a[h] < min
      <4>1. Around(h, u) /\ u - h <= j - 1
        BY <2>1, <3>1, <3>5
      <4>2. FirstNotBelow(a, h, u, min, mid[<<h, u>>])
        BY <1>15, <3>1, <4>1
      <4>3. mid[<<l, u>>] = mid[<<h, u>>]
        BY ONLY <3>2, <3>3, <3>9, <3>5
      <4> DEFINE r == mid[<<h, u>>]
      <4>4. FirstNotBelow(a, h, u, min, r) /\ mid[<<l, u>>] = r
        BY <4>2, <4>3
      <4> HIDE DEF r, T, Around
      <4>5. h \in Int /\ l \in Int /\ u \in Int
        BY <1>1, <3>1
      <4>6. FirstNotBelow(a, l, u, min, r)
        BY ONLY <3>1, <4>4, <4>5 DEF FirstNotBelow
      <4> QED
        BY <4>4, <4>6
    <3>6. CASE a[h] > min
      <4>1. Around(l, h) /\ h - l <= j - 1
        BY <2>1, <3>1, <3>3, <3>6
      <4>2. FirstNotBelow(a, l, h, min, mid[<<l, h>>])
        BY <1>15, <3>1, <4>1
      <4>3. mid[<<l, u>>] = mid[<<l, h>>]
        BY ONLY <3>2, <3>3, <3>9, <3>6
      <4> DEFINE r == mid[<<l, h>>]
      <4>4. FirstNotBelow(a, l, h, min, r) /\ mid[<<l, u>>] = r
        BY <4>2, <4>3
      <4> HIDE DEF r, T, Around
      <4>5. h \in Int /\ l \in Int /\ u \in Int
        BY <1>1, <3>1
      <4>6. FirstNotBelow(a, l, u, min, r)
        BY ONLY <3>1, <4>4, <4>5 DEF FirstNotBelow
      <4> QED
        BY <4>4, <4>6
    <3> QED
      BY <3>3, <3>4, <3>5, <3>6
  <2> QED
    BY <2>1, <2>2, <2>3
<1>16. N \in T
  <2> HIDE DEF T
  <2>1. \A j \in 0 .. N : j \in T
    BY <1>1, <1>14, <1>15, TurnByTurn
  <2> QED
    BY <1>1, <2>1
<1>17. lower \in P /\ upper \in P /\ upper - lower <= N /\ Around(lower, upper)
  BY DEF P, N
<1> QED
  BY <1>11, <1>16, <1>17

\* What advanceUntil is to return: the first place after pos whose slot is at least min,
\* or k, the number of values; nothing is looked at when there is no place after pos.
Advanced(a, pos, k, min, r) ==
  IF pos + 1 >= k THEN r = pos + 1
  ELSE /\ r \in pos + 1 .. k
       /\ \A i \in pos + 1 .. r - 1 : a[i] < min
       /\ r < k => a[r] >= min

LEMMA AdvanceUntilFinds ==
  ASSUME NEW m \in Nat, NEW a \in [0 .. m - 1 -> Int], NEW k \in 0 .. m, Ascends(a, k),
         NEW pos \in Nat \union {-1}, NEW min \in Int
  PROVE  Advanced(a, pos, k, min, AdvanceUntil(a, pos, k, min))
<1> DEFINE lower == pos + 1
           span == Span(a, lower, k, min)
           upper == IF lower + span < k THEN lower + span ELSE k - 1
           half == lower + span \div 2
           r == AdvanceUntil(a, pos, k, min)
<1>1. r = IF lower >= k \/ a[lower] >= min THEN lower
          ELSE IF a[upper] = min THEN upper
          ELSE IF a[upper] < min THEN k
          ELSE Between(a, half, upper, min)
  BY DEF AdvanceUntil
<1>2. lower \in Nat /\ k \in Nat /\ lower = pos + 1
  OBVIOUS
<1>3. ASSUME NEW i \in 0 .. k - 1 PROVE a[i] \in Int
  OBVIOUS
<1> SUFFICES Advanced(a, pos, k, min, r)
  OBVIOUS
<1> HIDE DEF r, lower
<1>4. CASE lower >= k \/ a[lower] >= min
  BY <1>1, <1>2, <1>4 DEF Advanced
<1>5. CASE lower < k /\ ~ (a[lower] >= min)
  <2>1. lower \in 0 .. k - 1 /\ a[lower] < min
    BY <1>2, <1>3, <1>5
  <2>2. Reached(a, lower, k, min, span)
    BY <2>1, SpanReaches
  <2> HIDE DEF span
  <2>3. /\ span \in Nat /\ span >= 1 /\ half \in Nat
        /\ half \in lower .. k - 1 /\ a[half] < min
        /\ span \div 2 < span
    BY <1>2, <2>2 DEF Reached
  <2>4. upper \in half .. k - 1 /\ upper \in 0 .. k - 1 /\ (upper < k - 1 => a[upper] >= min)
    <3>1. CASE lower + span < k
      <4>1. upper = lower + span /\ ~ (a[lower + span] < min)
        BY <2>2, <3>1 DEF Reached
      <4>2. upper \in 0 .. k - 1 /\ upper \in half .. k - 1
        BY <1>2, <2>3, <3>1, <4>1
      <4> QED
        BY <1>3, <4>1, <4>2
    <3>2. CASE ~ (lower + span < k)
      <4>1. upper = k - 1
        BY <3>2
      <4> QED
        BY <1>2, <2>3, <4>1
    <3> QED
      BY <3>1, <3>2
  <2> HIDE DEF upper, half
  <2>5. a[upper] \in Int /\ a[half] \in Int /\ half \in 0 .. k - 1
    BY <1>2, <1>3, <2>3, <2>4
  <2>6. \A i \in 0 .. upper - 1 : a[i] \in Int /\ a[i] < a[upper]
    BY <2>4, AscendsTo
  <2>7. CASE a[upper] = min
    <3>1. r = upper
      BY <1>1, <1>2, <1>5, <2>1, <2>7
    <3> QED
      BY <1>2, <2>3, <2>4, <2>6, <2>7, <3>1 DEF Advanced
  <2>8. CASE a[upper] < min
    <3>1. r = k /\ upper = k - 1
      BY <1>1, <1>2, <1>5, <2>1, <2>4, <2>5, <2>8
    <3>2. \A i \in 0 .. k - 1 : a[i] < min
      BY <2>4, <2>5, <2>6, <2>8, <3>1
    <3> QED
      BY <1>2, <1>5, <3>1, <3>2 DEF Advanced
  <2>9. CASE a[upper] > min
    <3>1. r = Between(a, half, upper, min)
      BY <1>1, <1>2, <1>5, <2>1, <2>5, <2>9
    <3>2. half < upper
      BY <2>3, <2>4, <2>5, <2>9
    <3>3. FirstNotBelow(a, half, upper, min, r)
      BY <2>3, <2>4, <2>5, <2>9, <3>1, <3>2, BetweenFinds
    <3>4. r \in half + 1 .. upper /\ a[r] >= min /\ \A i \in 0 .. r - 1 : a[i] < min
      BY <3>3 DEF FirstNotBelow
    <3> QED
      BY <1>2, <1>5, <2>3, <2>4, <3>4 DEF Advanced
  <2> QED
    BY <2>5, <2>7, <2>8, <2>9
<1> QED
  BY <1>2, <1>3, <1>4, <1>5

-----------------------------------------------------------------------------
(***************************************************************************)
(* Slots that move up or down.                                             *)
(***************************************************************************)

Image(a, k) == {a[i] : i \in 0 .. k - 1}

\* m slots, the first k of which ascend.
Slots(a, m, k) == m \in Nat /\ a \in [0 .. m - 1 -> Int] /\ k \in 0 .. m /\ Ascends(a, k)

\* The slots from p on move up by one and make room for x.
MovedUp(s, k, p, x) ==
  [i \in DOMAIN s |-> IF i = p THEN x ELSE IF i > p /\ i <= k THEN s[i - 1] ELSE s[i]]

\* s has more than k slots and holds the k values of a, and x belongs at place p.
Fits(a, k, s, M, p, x) ==
  /\ M \in Nat /\ k < M /\ s \in [0 .. M - 1 -> Int]
  /\ x \in Int /\ p \in 0 .. k
  /\ \A i \in 0 .. k - 1 : s[i] = a[i]
  /\ \A i \in 0 .. p - 1 : a[i] < x
  /\ \A i \in p .. k - 1 : x < a[i]

LEMMA MovedUpIs ==
  ASSUME NEW a, NEW m, NEW k, Slots(a, m, k), NEW s, NEW M, NEW p, NEW x, Fits(a, k, s, M, p, x)
  PROVE  /\ MovedUp(s, k, p, x) \in [0 .. M - 1 -> Int]
         /\ Ascends(MovedUp(s, k, p, x), k + 1)
         /\ Image(MovedUp(s, k, p, x), k + 1) = Image(a, k) \union {x}
<1>0. /\ m \in Nat /\ a \in [0 .. m - 1 -> Int] /\ k \in 0 .. m /\ Ascends(a, k)
      /\ M \in Nat /\ k < M /\ s \in [0 .. M - 1 -> Int] /\ x \in Int /\ p \in 0 .. k
      /\ \A i \in 0 .. k - 1 : s[i] = a[i]
      /\ \A i \in 0 .. p - 1 : a[i] < x
      /\ \A i \in p .. k - 1 : x < a[i]
  BY DEF Slots, Fits
<1> USE <1>0
<1> DEFINE b == MovedUp(s, k, p, x)
<1>1. b \in [0 .. M - 1 -> Int]
  <2>1. \A i \in 0 .. M - 1 : i > p /\ i <= k => s[i - 1] \in Int
    OBVIOUS
  <2> QED
    BY <2>1 DEF MovedUp
<1>2. /\ \A i \in 0 .. p - 1 : b[i] = a[i]
      /\ b[p] = x
      /\ \A i \in p + 1 .. k : b[i] = a[i - 1]
  <2>1. \A i \in 0 .. M - 1 :
          b[i] = IF i = p THEN x ELSE IF i > p /\ i <= k THEN s[i - 1] ELSE s[i]
    BY DEF MovedUp
  <2>2. ASSUME NEW i \in 0 .. p - 1 PROVE b[i] = a[i]
    BY <2>1
  <2>3. b[p] = x
    BY <2>1
  <2>4. ASSUME NEW i \in p + 1 .. k PROVE b[i] = a[i - 1]
    <3>1. i \in 0 .. M - 1 /\ i # p /\ i > p /\ i <= k /\ i - 1 \in 0 .. k - 1
      OBVIOUS
    <3> QED
      BY <2>1, <3>1
  <2> QED
    BY <2>2, <2>3, <2>4
<1> HIDE DEF b
<1>3. \A i \in 0 .. k - 1 : a[i] \in Int
  OBVIOUS
<1>4. Ascends(b, k + 1)
  <2> SUFFICES ASSUME NEW i \in 0 .. k, NEW j \in 0 .. k, i < j PROVE b[i] < b[j]
    BY DEF Ascends
  <2>1. CASE j < p
    BY <1>2, <2>1 DEF Ascends
  <2>2. CASE j = p
    BY <1>2, <2>2
  <2>3. CASE j > p /\ i < p
    <3>1. b[i] = a[i] /\ b[j] = a[j - 1] /\ a[i] < x /\ x < a[j - 1]
      BY <1>2, <2>3
    <3>2. a[i] \in Int /\ a[j - 1] \in Int /\ x \in Int
      BY <1>3, <2>3
    <3> QED
      BY ONLY <3>1, <3>2
  <2>4. CASE j > p /\ i = p
    <3>1. b[i] = x /\ b[j] = a[j - 1] /\ x < a[j - 1]
      BY <1>2, <2>4
    <3> QED
      BY <3>1
  <2>5. CASE j > p /\ i > p
    <3>1. b[i] = a[i - 1] /\ b[j] = a[j - 1] /\ i - 1 \in 0 .. k - 1 /\ j - 1 \in 0 .. k - 1
      BY <1>2, <2>5
    <3> QED
      BY <3>1 DEF Ascends
  <2> QED
    BY <2>1, <2>2, <2>3, <2>4, <2>5
<1>5. Image(b, k + 1) \subseteq Image(a, k) \union {x}
  <2> SUFFICES ASSUME NEW i \in 0 .. k PROVE b[i] \in Image(a, k) \union {x}
    BY DEF Image
  <2>1. CASE i < p
    BY <1>2, <2>1 DEF Image
  <2>2. CASE i = p
    BY <1>2, <2>2
  <2>3. CASE i > p
    <3>1. b[i] = a[i - 1] /\ i - 1 \in 0 .. k - 1
      BY <1>2, <2>3
    <3> QED
      BY <3>1 DEF Image
  <2> QED
    BY <2>1, <2>2, <2>3
<1>6. x \in Image(b, k + 1)
  BY <1>2 DEF Image
<1>7. ASSUME NEW i \in 0 .. k - 1 PROVE a[i] \in Image(b, k + 1)
  <2>1. CASE i < p
    <3>1. b[i] = a[i] /\ i \in 0 .. (k + 1) - 1
      BY <1>2, <2>1
    <3> QED
      BY <3>1 DEF Image
  <2>2. CASE i >= p
    <3>1. b[i + 1] = a[(i + 1) - 1] /\ (i + 1) - 1 = i /\ i + 1 \in 0 .. (k + 1) - 1
      BY <1>2, <2>2
    <3> QED
      BY <3>1 DEF Image
  <2> QED
    BY <2>1, <2>2
<1>8. Image(b, k + 1) = Image(a, k) \union {x}
  <2>1. Image(a, k) \subseteq Image(b, k + 1)
    BY <1>7 DEF Image
  <2> QED
    BY <1>5, <1>6, <2>1
<1> QED
  BY <1>1, <1>4, <1>8 DEF b

\* The slots behind p move down by one.
MovedDown(a, k, p) == [i \in DOMAIN a |-> IF i >= p /\ i < k - 1 THEN a[i + 1] ELSE a[i]]

LEMMA MovedDownIs ==
  ASSUME NEW a, NEW m, NEW k, Slots(a, m, k), NEW p \in 0 .. k - 1
  PROVE  /\ MovedDown(a, k, p) \in [0 .. m - 1 -> Int]
         /\ Ascends(MovedDown(a, k, p), k - 1)
         /\ Image(MovedDown(a, k, p), k - 1) = Image(a, k) \ {a[p]}
<1>0. m \in Nat /\ a \in [0 .. m - 1 -> Int] /\ k \in 0 .. m /\ Ascends(a, k)
  BY DEF Slots
<1> USE <1>0
<1> DEFINE b == MovedDown(a, k, p)
<1>1. b \in [0 .. m - 1 -> Int]
  <2>1. \A i \in 0 .. m - 1 : i >= p /\ i < k - 1 => a[i + 1] \in Int
    OBVIOUS
  <2> QED
    BY <2>1 DEF MovedDown
<1>2. /\ \A i \in 0 .. p - 1 : b[i] = a[i]
      /\ \A i \in p .. k - 2 : b[i] = a[i + 1]
  <2>1. \A i \in 0 .. m - 1 : b[i] = IF i >= p /\ i < k - 1 THEN a[i + 1] ELSE a[i]
    BY DEF MovedDown
  <2>2. ASSUME NEW i \in 0 .. p - 1 PROVE b[i] = a[i]
    BY <2>1
  <2>3. ASSUME NEW i \in p .. k - 2 PROVE b[i] = a[i + 1]
    <3>1. i \in 0 .. m - 1 /\ i >= p /\ i < k - 1
      OBVIOUS
    <3> QED
      BY <2>1, <3>1
  <2> QED
    BY <2>2, <2>3
<1> HIDE DEF b
<1>3. \A i \in 0 .. k - 1 : a[i] \in Int
  OBVIOUS
<1>4. Ascends(b, k - 1)
  <2> SUFFICES ASSUME NEW i \in 0 .. k - 2, NEW j \in 0 .. k - 2, i < j PROVE b[i] < b[j]
    BY DEF Ascends
  <2>1. CASE j < p
    BY <1>2, <2>1 DEF Ascends
  <2>2. CASE j >= p /\ i < p
    <3>1. b[i] = a[i] /\ b[j] = a[j + 1] /\ i \in 0 .. k - 1 /\ j + 1 \in 0 .. k - 1 /\ i < j + 1
      BY <1>2, <2>2
    <3> QED
      BY <3>1 DEF Ascends
  <2>3. CASE i >= p
    <3>1. b[i] = a[i + 1] /\ b[j] = a[j + 1] /\ i + 1 \in 0 .. k - 1 /\ j + 1 \in 0 .. k - 1
      BY <1>2, <2>3
    <3> QED
      BY <3>1 DEF Ascends
  <2> QED
    BY <2>1, <2>2, <2>3
<1>5. \A i \in 0 .. k - 1 : i # p => a[i] # a[p]
  BY <1>3, AscendsTo
<1>6. ASSUME NEW i \in 0 .. k - 2 PROVE b[i] \in Image(a, k) \ {a[p]}
  <2>1. CASE i < p
    <3>1. b[i] = a[i] /\ i \in 0 .. k - 1 /\ i # p
      BY <1>2, <2>1
    <3> QED
      BY <1>5, <3>1 DEF Image
  <2>2. CASE i >= p
    <3>1. b[i] = a[i + 1] /\ i + 1 \in 0 .. k - 1 /\ i + 1 # p
      BY <1>2, <2>2
    <3> QED
      BY <1>5, <3>1 DEF Image
  <2> QED
    BY <2>1, <2>2
<1>7. ASSUME NEW i \in 0 .. k - 1, i # p PROVE a[i] \in Image(b, k - 1)
  <2>1. CASE i < p
    <3>1. b[i] = a[i] /\ i \in 0 .. (k - 1) - 1
      BY <1>2, <2>1
    <3> QED
      BY <3>1 DEF Image
  <2>2. CASE i > p
    <3>1. b[i - 1] = a[(i - 1) + 1] /\ (i - 1) + 1 = i /\ i - 1 \in 0 .. (k - 1) - 1
      BY <1>2, <2>2
    <3> QED
      BY <3>1 DEF Image
  <2> QED
    BY <1>7, <2>1, <2>2
<1>8. Image(b, k - 1) = Image(a, k) \ {a[p]}
  <2>1. Image(b, k - 1) \subseteq Image(a, k) \ {a[p]}
    BY <1>6 DEF Image
  <2>2. Image(a, k) \ {a[p]} \subseteq Image(b, k - 1)
    BY <1>7 DEF Image
  <2> QED
    BY <2>1, <2>2
<1> QED
  BY <1>1, <1>4, <1>8 DEF b

-----------------------------------------------------------------------------
(***************************************************************************)
(* The array container.                                                    *)
(***************************************************************************)

\* m slots, of which the first hold values in order.
Held(m) ==
  /\ array \in [0 .. m - 1 -> Int]
  /\ cardinality \in 0 .. m
  /\ Ascends(array, cardinality)
  /\ \A i \in 0 .. cardinality - 1 : array[i] \in Low

ArrayInv == \E m \in Nat \ {0} : Held(m)

LEMMA ValuesAreImage == Values = Image(array, cardinality)
BY DEF Values, Image

LEMMA LowIsInt == \A x \in Low : x \in Int
BY ArrayAssumption DEF Low

\* Memory for one more value holds what there was, and has a place for it.
LEMMA RoomIs ==
  ASSUME NEW m \in Nat \ {0}, Held(m), NEW s \in RoomForOneMore
  PROVE  \E M \in Nat : /\ cardinality < M /\ s \in [0 .. M - 1 -> Int]
                        /\ \A i \in 0 .. cardinality - 1 : s[i] = array[i]
<1>1. array \in [0 .. m - 1 -> Int] /\ cardinality \in 0 .. m
  BY DEF Held
<1>2. Cardinality(DOMAIN array) = m
  <2>1. Cardinality(0 .. m - 1) = IF 0 > m - 1 THEN 0 ELSE (m - 1) - 0 + 1
    BY FS_Interval
  <2> QED
    BY <1>1, <2>1
<1>3. CASE cardinality < m
  <2>1. s = array
    BY <1>2, <1>3 DEF RoomForOneMore
  <2> QED
    BY <1>1, <1>3, <2>1
<1>4. CASE ~ (cardinality < m)
  <2> DEFINE larger == GrowCapacity(m)
  <2>1. larger \in Nat /\ m < larger
    <3>1. /\ m < 64 => larger = 2 * m
          /\ m >= 64 /\ m < 1024 => larger = (m * 3) \div 2
          /\ m >= 1024 => larger = (m * 5) \div 4
      BY DEF GrowCapacity
    <3>2. m >= 64 => (m * 3) \div 2 \in Nat /\ m < (m * 3) \div 2
      OBVIOUS
    <3>3. m >= 64 => (m * 5) \div 4 \in Nat /\ m < (m * 5) \div 4
      OBVIOUS
    <3> HIDE DEF larger
    <3> QED
      BY <3>1, <3>2, <3>3
  <2>2. PICK fresh \in Memory(larger) :
          s = [i \in DOMAIN fresh |-> IF i < m THEN array[i] ELSE fresh[i]]
    BY <1>2, <1>4 DEF RoomForOneMore
  <2> HIDE DEF larger
  <2>3. fresh \in [0 .. larger - 1 -> Int]
    <3>1. FreshMemory \subseteq Int
      BY ArrayAssumption
    <3> QED
      BY <2>1, <3>1 DEF Memory
  <2>4. s \in [0 .. larger - 1 -> Int]
    BY <1>1, <2>1, <2>2, <2>3
  <2>5. \A i \in 0 .. cardinality - 1 : s[i] = array[i]
    BY <1>1, <2>1, <2>2, <2>3
  <2>6. cardinality < larger
    BY <1>1, <1>4, <2>1
  <2>7. /\ larger \in Nat /\ cardinality < larger /\ s \in [0 .. larger - 1 -> Int]
        /\ \A i \in 0 .. cardinality - 1 : s[i] = array[i]
    BY <2>1, <2>4, <2>5, <2>6
  <2> QED
    BY ONLY <2>7
<1> QED
  BY <1>3, <1>4

\* A value that is put into a place where it belongs.
LEMMA PutAt ==
  ASSUME NEW m \in Nat \ {0}, Held(m), NEW x \in Low, NEW s \in RoomForOneMore,
         NEW p \in 0 .. cardinality,
         \A i \in 0 .. p - 1 : array[i] < x, \A i \in p .. cardinality - 1 : x < array[i],
         array' = MovedUp(s, cardinality, p, x), cardinality' = cardinality + 1
  PROVE  ArrayInv' /\ Values' = Values \union {x}
<1>1. PICK M \in Nat : /\ cardinality < M /\ s \in [0 .. M - 1 -> Int]
                       /\ \A i \in 0 .. cardinality - 1 : s[i] = array[i]
  BY RoomIs
<1>2. x \in Int
  BY LowIsInt
<1>3. /\ array \in [0 .. m - 1 -> Int] /\ cardinality \in 0 .. m
      /\ Ascends(array, cardinality) /\ \A i \in 0 .. cardinality - 1 : array[i] \in Low
  BY DEF Held
<1>4. /\ array' \in [0 .. M - 1 -> Int]
      /\ Ascends(array', cardinality + 1)
      /\ Image(array', cardinality + 1) = Image(array, cardinality) \union {x}
  <2> DEFINE b == MovedUp(s, cardinality, p, x)
  <2>1. /\ b \in [0 .. M - 1 -> Int]
        /\ Ascends(b, cardinality + 1)
        /\ Image(b, cardinality + 1) = Image(array, cardinality) \union {x}
    <3>1. Fits(array, cardinality, s, M, p, x) /\ Slots(array, m, cardinality)
      BY <1>1, <1>2, <1>3 DEF Fits, Slots
    <3> QED
      BY ONLY <3>1, MovedUpIs DEF b
  <2>2. array' = b
    OBVIOUS
  <2> HIDE DEF b
  <2> QED
    BY ONLY <2>1, <2>2
<1>5. \A i \in 0 .. cardinality' - 1 : array'[i] \in Low
  <2>1. Image(array, cardinality) \subseteq Low
    BY <1>3 DEF Image
  <2> QED
    BY <1>4, <2>1 DEF Image
<1>6. M \in Nat \ {0} /\ cardinality' \in 0 .. M
  BY <1>1, <1>3
<1>7. Held(M)'
  BY <1>4, <1>5, <1>6 DEF Held
<1> QED
  BY <1>4, <1>6, <1>7, ValuesAreImage DEF ArrayInv, Values, Image

LEMMA AppendAdds ==
  ASSUME ArrayInv, NEW x \in Low, Append(x)
  PROVE  ArrayInv' /\ Values' = Values \union {x}
<1>1. PICK m \in Nat \ {0} : Held(m)
  BY DEF ArrayInv
<1>2. PICK s \in RoomForOneMore : array' = [s EXCEPT ![cardinality] = x]
  BY DEF Append
<1>3. cardinality \in Nat /\ cardinality <= m
  BY <1>1 DEF Held
<1>4. \A i \in 0 .. cardinality - 1 : array[i] < x
  <2>1. CASE cardinality = 0
    BY <2>1
  <2>2. CASE cardinality > 0
    <3>1. array[cardinality - 1] < x /\ cardinality - 1 \in 0 .. cardinality - 1
      BY <1>3, <2>2 DEF Append
    <3>2. array \in [0 .. m - 1 -> Int] /\ Ascends(array, cardinality)
      BY <1>1 DEF Held
    <3>3. /\ array[cardinality - 1] \in Int
          /\ \A i \in 0 .. (cardinality - 1) - 1 :
               array[i] \in Int /\ array[i] < array[cardinality - 1]
      BY <1>3, <3>1, <3>2, AscendsTo, SMTT(30)
    <3>4. x \in Int
      BY LowIsInt
    <3> QED
      BY <1>3, <3>1, <3>3, <3>4
  <2> QED
    BY <1>3, <2>1, <2>2
<1>5. array' = MovedUp(s, cardinality, cardinality, x)
  <2>1. PICK M \in Nat : s \in [0 .. M - 1 -> Int] /\ cardinality < M
    BY <1>1, <1>2, RoomIs
  <2>2. \A i \in 0 .. M - 1 : array'[i] = MovedUp(s, cardinality, cardinality, x)[i]
    BY <1>2, <1>3, <2>1 DEF MovedUp
  <2> QED
    BY <1>2, <1>3, <2>1, <2>2 DEF MovedUp
<1>6. cardinality' = cardinality + 1 /\ cardinality \in 0 .. cardinality
  BY <1>3 DEF Append
<1>7. \A i \in cardinality .. cardinality - 1 : x < array[i]
  BY <1>3
<1> QED
  BY <1>1, <1>2, <1>4, <1>5, <1>6, <1>7, PutAt

\* The searches on the slots that there are.
LEMMA Searched ==
  ASSUME NEW m \in Nat \ {0}, Held(m), NEW x \in Low
  PROVE  Located(array, cardinality, x, BinarySearch(array, cardinality, x))
BY BinarySearchFinds, LowIsInt DEF Held

LEMMA InsertAdds ==
  ASSUME ArrayInv, NEW x \in Low, Insert(x)
  PROVE  ArrayInv' /\ Values' = Values \union {x}
<1>1. PICK m \in Nat \ {0} : Held(m)
  BY DEF ArrayInv
<1> DEFINE loc == BinarySearch(array, cardinality, x)
<1>2. loc < 0 /\ cardinality' = cardinality + 1
  BY DEF Insert
<1>3. PICK s \in RoomForOneMore : array' = MovedUp(s, cardinality, -loc - 1, x)
  BY DEF Insert, MovedUp
<1>4. Located(array, cardinality, x, loc)
  BY <1>1, Searched
<1> HIDE DEF loc
<1>5. PICK p \in 0 .. cardinality :
        /\ loc = -(p + 1)
        /\ \A i \in 0 .. p - 1 : array[i] < x
        /\ \A i \in p .. cardinality - 1 : x < array[i]
  BY <1>2, <1>4 DEF Located
<1>6. -loc - 1 = p
  BY <1>5
<1> QED
  BY <1>1, <1>2, <1>3, <1>5, <1>6, PutAt

LEMMA RemoveTakes ==
  ASSUME ArrayInv, NEW x \in Low, Remove(x)
  PROVE  ArrayInv' /\ Values' = Values \ {x}
<1>1. PICK m \in Nat \ {0} : Held(m)
  BY DEF ArrayInv
<1> DEFINE idx == BinarySearch(array, cardinality, x)
<1>2. /\ idx >= 0 /\ cardinality' = cardinality - 1
      /\ array' = MovedDown(array, cardinality, idx)
  BY DEF Remove, MovedDown
<1>3. Located(array, cardinality, x, idx)
  BY <1>1, Searched
<1> HIDE DEF idx
<1>4. idx \in 0 .. cardinality - 1 /\ array[idx] = x
  BY <1>2, <1>3 DEF Located
<1>5. /\ array \in [0 .. m - 1 -> Int] /\ cardinality \in 0 .. m
      /\ Ascends(array, cardinality) /\ \A i \in 0 .. cardinality - 1 : array[i] \in Low
  BY <1>1 DEF Held
<1>6. /\ array' \in [0 .. m - 1 -> Int]
      /\ Ascends(array', cardinality - 1)
      /\ Image(array', cardinality - 1) = Image(array, cardinality) \ {x}
  <2> DEFINE b == MovedDown(array, cardinality, idx)
  <2>1. /\ b \in [0 .. m - 1 -> Int]
        /\ Ascends(b, cardinality - 1)
        /\ Image(b, cardinality - 1) = Image(array, cardinality) \ {array[idx]}
    <3>1. Slots(array, m, cardinality)
      BY <1>5 DEF Slots
    <3> HIDE DEF b
    <3> QED
      BY ONLY <1>4, <3>1, MovedDownIs DEF b
  <2>2. array' = b
    BY <1>2
  <2> HIDE DEF b
  <2> QED
    BY ONLY <1>4, <2>1, <2>2
<1>7. \A i \in 0 .. cardinality' - 1 : array'[i] \in Low
  <2>1. Image(array, cardinality) \subseteq Low
    BY <1>5 DEF Image
  <2> QED
    BY <1>2, <1>6, <2>1 DEF Image
<1>8. Held(m)'
  BY <1>2, <1>4, <1>5, <1>6, <1>7 DEF Held
<1> QED
  BY <1>2, <1>6, <1>8, ValuesAreImage DEF ArrayInv, Values, Image

LEMMA ShrinkKeeps ==
  ASSUME ArrayInv, ShrinkToFit
  PROVE  ArrayInv' /\ Values' = Values
<1>1. PICK m \in Nat \ {0} : Held(m)
  BY DEF ArrayInv
<1>2. /\ array \in [0 .. m - 1 -> Int] /\ cardinality \in 0 .. m
      /\ Ascends(array, cardinality) /\ \A i \in 0 .. cardinality - 1 : array[i] \in Low
  BY <1>1 DEF Held
<1>3. /\ array' = [i \in 0 .. cardinality - 1 |-> array[i]]
      /\ cardinality' = cardinality /\ cardinality >= 1
  BY <1>2 DEF ShrinkToFit
<1>4. cardinality \in Nat \ {0} /\ array' \in [0 .. cardinality - 1 -> Int]
  BY <1>2, <1>3
<1>5. \A i \in 0 .. cardinality - 1 : array'[i] = array[i]
  BY <1>3
<1>6. Ascends(array', cardinality)
  BY <1>2, <1>5 DEF Ascends
<1>7. Held(cardinality)'
  BY <1>2, <1>3, <1>4, <1>5, <1>6 DEF Held
<1> QED
  BY <1>3, <1>4, <1>5, <1>7 DEF ArrayInv, Values

-----------------------------------------------------------------------------
(***************************************************************************)
(* What is read from the slots.                                            *)
(***************************************************************************)

\* Slots that ascend hold as many values as there are slots.
LEMMA ImageCounts ==
  ASSUME NEW a, NEW m, NEW k, Slots(a, m, k)
  PROVE  IsFiniteSet(Image(a, k)) /\ Cardinality(Image(a, k)) = k
<1>0. m \in Nat /\ a \in [0 .. m - 1 -> Int] /\ k \in 0 .. m /\ Ascends(a, k)
  BY DEF Slots
<1> USE <1>0
<1> DEFINE f == [i \in 1 .. k |-> a[i - 1]]
<1>1. f \in [1 .. k -> Image(a, k)] /\ \A i \in 1 .. k : f[i] = a[i - 1]
  BY DEF Image
<1> HIDE DEF f
<1>2. \A i, j \in 1 .. k : f[i] = f[j] => i = j
  <2> SUFFICES ASSUME NEW i \in 1 .. k, NEW j \in 1 .. k, f[i] = f[j], i < j PROVE FALSE
    OBVIOUS
  <2>1. i - 1 \in 0 .. k - 1 /\ j - 1 \in 0 .. k - 1 /\ i - 1 < j - 1
    OBVIOUS
  <2>2. a[i - 1] < a[j - 1]
    BY <2>1 DEF Ascends
  <2> QED
    BY <1>1, <2>1, <2>2
<1>3. f \in Injection(1 .. k, Image(a, k))
  BY <1>1, <1>2 DEF Injection, IsInjective
<1>4. \A y \in Image(a, k) : \E i \in 1 .. k : f[i] = y
  <2> SUFFICES ASSUME NEW j \in 0 .. k - 1 PROVE \E i \in 1 .. k : f[i] = a[j]
    BY DEF Image
  <2>1. j + 1 \in 1 .. k /\ (j + 1) - 1 = j
    OBVIOUS
  <2> QED
    BY <1>1, <2>1
<1>5. f \in Surjection(1 .. k, Image(a, k))
  BY <1>1, <1>4 DEF Surjection
<1>6. ExistsBijection(1 .. k, Image(a, k))
  BY <1>3, <1>5 DEF ExistsBijection, Bijection
<1>7. k \in Nat
  OBVIOUS
<1>8. Cardinality(Image(a, k)) = k
  BY ONLY <1>6, <1>7, FS_CountingElements
<1>9. IsFiniteSet(Image(a, k))
  BY ONLY <1>6, <1>7, FS_NatBijection
<1> QED
  BY ONLY <1>8, <1>9

LEMMA AscendsPrefix ==
  ASSUME NEW a, NEW k \in Nat, Ascends(a, k), NEW j \in 0 .. k
  PROVE  Ascends(a, j)
BY DEF Ascends

LEMMA LookupIsExact ==
  ASSUME ArrayInv
  PROVE  LookupExact
<1>1. PICK m \in Nat \ {0} : Held(m)
  BY DEF ArrayInv
<1>2. /\ array \in [0 .. m - 1 -> Int] /\ cardinality \in 0 .. m
      /\ Ascends(array, cardinality)
  BY <1>1 DEF Held
<1> SUFFICES ASSUME NEW x \in Low
             PROVE  /\ Contains(x) <=> x \in Values
                    /\ Rank(x) = Cardinality({y \in Values : y <= x})
  BY DEF LookupExact
<1> DEFINE r == BinarySearch(array, cardinality, x)
<1>3. Located(array, cardinality, x, r)
  BY <1>1, Searched
<1>4. /\ Contains(x) <=> r >= 0
      /\ Rank(x) = IF r >= 0 THEN r + 1 ELSE -r - 1
  BY DEF Contains, Rank
<1>5. x \in Int
  BY LowIsInt
<1> HIDE DEF r
<1>6. cardinality \in Nat /\ \A i \in 0 .. cardinality - 1 : array[i] \in Int /\ array[i] \in Values
  <2>1. cardinality \in Nat /\ \A i \in 0 .. cardinality - 1 : array[i] \in Int
    BY <1>2
  <2>2. \A i \in 0 .. cardinality - 1 : array[i] \in Values
    BY DEF Values
  <2> QED
    BY ONLY <2>1, <2>2
\* Up to the place x has, or would have, there are the values up to x.
<1>7. ASSUME NEW p \in 0 .. cardinality,
             \A i \in 0 .. p - 1 : array[i] <= x, \A i \in p .. cardinality - 1 : x < array[i]
      PROVE  Cardinality({y \in Values : y <= x}) = p
  <2>1. {y \in Values : y <= x} = Image(array, p)
    <3>1. ASSUME NEW i \in 0 .. cardinality - 1, array[i] <= x PROVE i \in 0 .. p - 1
      BY <1>5, <1>6, <1>7, <3>1
    <3>2. ASSUME NEW y \in Values, y <= x PROVE y \in Image(array, p)
      BY <3>1, <3>2 DEF Values, Image
    <3>3. ASSUME NEW y \in Image(array, p) PROVE y \in Values /\ y <= x
      <4>1. PICK i \in 0 .. p - 1 : array[i] = y
        BY <3>3 DEF Image
      <4>2. i \in 0 .. cardinality - 1
        BY <1>6
      <4> QED
        BY <1>6, <1>7, <4>1, <4>2
    <3> QED
      BY <3>2, <3>3
  <2>2. Slots(array, m, p)
    BY <1>2, AscendsPrefix DEF Slots
  <2> QED
    BY <2>1, <2>2, ImageCounts
<1>8. CASE r \in 0 .. cardinality - 1 /\ array[r] = x
  <2>1. r + 1 \in 0 .. cardinality /\ x \in Values
    BY <1>6, <1>8
  <2>2. \A i \in 0 .. (r + 1) - 1 : array[i] <= x
    <3> TAKE i \in 0 .. (r + 1) - 1
    <3>1. i \in 0 .. cardinality - 1 /\ (i < r \/ i = r)
      BY <1>6, <1>8
    <3>2. i < r => array[i] < array[r]
      BY <1>2, <1>8, <3>1 DEF Ascends
    <3> QED
      BY <1>5, <1>6, <1>8, <3>1, <3>2
  <2>3. \A i \in r + 1 .. cardinality - 1 : x < array[i]
    BY <1>2, <1>8 DEF Ascends
  <2>4. Cardinality({y \in Values : y <= x}) = r + 1
    BY <1>7, <2>1, <2>2, <2>3
  <2> QED
    BY <1>4, <1>8, <2>1, <2>4
<1>9. ASSUME NEW p \in 0 .. cardinality, r = -(p + 1),
             \A i \in 0 .. p - 1 : array[i] < x, \A i \in p .. cardinality - 1 : x < array[i]
      PROVE  /\ Contains(x) <=> x \in Values
             /\ Rank(x) = Cardinality({y \in Values : y <= x})
  <2>1. x \notin Values
    <3> SUFFICES ASSUME NEW i \in 0 .. cardinality - 1, array[i] = x PROVE FALSE
      BY DEF Values
    <3> QED
      BY <1>5, <1>9
  <2>2. ~ (r >= 0) /\ -r - 1 = p
    BY <1>9
  <2>3. \A i \in 0 .. p - 1 : array[i] <= x
    <3> TAKE i \in 0 .. p - 1
    <3>1. i \in 0 .. cardinality - 1 /\ array[i] < x
      BY <1>6, <1>9
    <3> QED
      BY <1>5, <1>6, <3>1
  <2>4. Cardinality({y \in Values : y <= x}) = p
    BY <1>7, <1>9, <2>3
  <2> QED
    BY <1>4, <2>1, <2>2, <2>4
<1> QED
  BY <1>3, <1>8, <1>9 DEF Located

LEMMA AdvanceIsExact ==
  ASSUME ArrayInv
  PROVE  AdvanceExact
<1>1. PICK m \in Nat \ {0} : Held(m)
  BY DEF ArrayInv
<1>2. /\ array \in [0 .. m - 1 -> Int] /\ cardinality \in 0 .. m
      /\ Ascends(array, cardinality)
  BY <1>1 DEF Held
<1> SUFFICES ASSUME NEW pos \in -1 .. cardinality - 1, NEW min \in Low
             PROVE  LET r == AdvanceUntil(array, pos, cardinality, min)
                    IN  /\ r \in pos + 1 .. cardinality
                        /\ \A i \in pos + 1 .. r - 1 : array[i] < min
                        /\ r < cardinality => array[r] >= min
  BY DEF AdvanceExact
<1> DEFINE r == AdvanceUntil(array, pos, cardinality, min)
           Exact == /\ r \in pos + 1 .. cardinality
                    /\ \A i \in pos + 1 .. r - 1 : array[i] < min
                    /\ r < cardinality => array[r] >= min
<1> SUFFICES Exact
  OBVIOUS
<1>3. pos \in Nat \union {-1} /\ min \in Int
  BY <1>2, LowIsInt
<1>4. Advanced(array, pos, cardinality, min, r)
  BY <1>2, <1>3, AdvanceUntilFinds
<1> HIDE DEF r
<1>5. cardinality \in Nat /\ pos \in Int /\ pos + 1 <= cardinality
  BY <1>2
<1>6. CASE pos + 1 >= cardinality
  <2>1. r = pos + 1
    BY <1>4, <1>6 DEF Advanced
  <2> QED
    BY <1>5, <1>6, <2>1
<1>7. CASE ~ (pos + 1 >= cardinality)
  BY <1>4, <1>7 DEF Advanced
<1> QED
  BY <1>6, <1>7

-----------------------------------------------------------------------------
(***************************************************************************)
(* A run container that is searched for in the slots.                      *)
(***************************************************************************)

\* A search from before the place of a value ends there.
LEMMA AdvanceArrives ==
  ASSUME ArrayInv, NEW i \in 0 .. cardinality - 1, NEW pos \in Nat \union {-1}, pos < i
  PROVE  AdvanceUntil(array, pos, cardinality, array[i]) = i
<1>1. PICK m \in Nat \ {0} : Held(m)
  BY DEF ArrayInv
<1>2. /\ array \in [0 .. m - 1 -> Int] /\ cardinality \in 0 .. m
      /\ Ascends(array, cardinality)
  BY <1>1 DEF Held
<1> DEFINE r == AdvanceUntil(array, pos, cardinality, array[i])
<1>3. \A j \in 0 .. cardinality - 1 : array[j] \in Int
  BY <1>2
<1>4. Advanced(array, pos, cardinality, array[i], r)
  BY <1>2, <1>3, AdvanceUntilFinds
<1> HIDE DEF r
<1>5. /\ r \in pos + 1 .. cardinality
      /\ \A j \in pos + 1 .. r - 1 : array[j] < array[i]
      /\ r < cardinality => array[r] >= array[i]
  BY <1>2, <1>4 DEF Advanced
<1>6. r <= i
  <2> SUFFICES ASSUME r > i PROVE FALSE
    BY <1>5
  <2>1. i \in pos + 1 .. r - 1
    BY <1>5
  <2> QED
    BY <1>3, <1>5, <2>1
<1>7. r >= i
  <2> SUFFICES ASSUME r < i PROVE FALSE
    BY <1>5
  <2>1. r \in 0 .. cardinality - 1
    BY <1>2, <1>5
  <2>2. array[r] < array[i] /\ array[r] \in Int /\ array[i] \in Int
    BY <1>2, <1>3, <2>1 DEF Ascends
  <2>3. r < cardinality
    BY <1>2, <2>1
  <2>4. array[r] >= array[i]
    BY <1>5, <2>3
  <2> QED
    BY ONLY <2>2, <2>4
<1>8. r = i
  BY <1>5, <1>6, <1>7
<1> QED
  BY <1>8 DEF r

\* Values without a gap between them are in slots without a gap.
LEMMA PlacesAreApart ==
  ASSUME ArrayInv, NEW i \in 0 .. cardinality - 1, NEW j \in 0 .. cardinality - 1,
         array[i] <= array[j], array[i] .. array[j] \subseteq Values
  PROVE  j - i = array[j] - array[i]
<1>1. PICK m \in Nat \ {0} : Held(m)
  BY DEF ArrayInv
<1>2. /\ array \in [0 .. m - 1 -> Int] /\ cardinality \in 0 .. m
      /\ Ascends(array, cardinality)
  BY <1>1 DEF Held
<1>3. \A q \in 0 .. cardinality - 1 : array[q] \in Int
  BY <1>2
<1>4. i <= j /\ i \in Int /\ j \in Int /\ cardinality \in Nat
  <2>1. j < i => array[j] < array[i]
    BY <1>2 DEF Ascends
  <2> QED
    BY <1>2, <1>3, <2>1
<1> DEFINE k == j - i + 1
           b == [q \in 0 .. k - 1 |-> array[q + i]]
<1>5. k \in Nat /\ b \in [0 .. k - 1 -> Int] /\ \A q \in 0 .. k - 1 : b[q] = array[q + i]
  <2>1. \A q \in 0 .. k - 1 : q + i \in 0 .. cardinality - 1
    BY <1>4
  <2>2. \A q \in 0 .. k - 1 : array[q + i] \in Int
    BY <1>3, <2>1
  <2> QED
    BY <1>4, <2>2
<1>6. Ascends(b, k)
  <2> SUFFICES ASSUME NEW p \in 0 .. k - 1, NEW q \in 0 .. k - 1, p < q PROVE b[p] < b[q]
    BY DEF Ascends
  <2>1. p + i \in 0 .. cardinality - 1 /\ q + i \in 0 .. cardinality - 1 /\ p + i < q + i
    BY <1>4
  <2>2. array[p + i] < array[q + i]
    BY <1>2, <2>1 DEF Ascends
  <2> QED
    BY <1>5, <2>2
<1> HIDE DEF b
<1>7. Image(b, k) = array[i] .. array[j]
  <2>1. ASSUME NEW q \in 0 .. k - 1 PROVE b[q] \in array[i] .. array[j]
    <3>1. q + i \in 0 .. cardinality - 1 /\ i <= q + i /\ q + i <= j
      BY <1>4
    <3>2. (i < q + i => array[i] < array[q + i]) /\ (q + i < j => array[q + i] < array[j])
      BY <1>2, <3>1 DEF Ascends
    <3>3. array[i] <= array[q + i] /\ array[q + i] <= array[j]
      BY <1>3, <3>1, <3>2
    <3> QED
      BY <1>3, <1>5, <3>1, <3>3
  <2>2. ASSUME NEW y \in array[i] .. array[j] PROVE y \in Image(b, k)
    <3>1. PICK q \in 0 .. cardinality - 1 : array[q] = y
      BY DEF Values
    <3>2. i <= q /\ q <= j
      <4>1. (q < i => array[q] < array[i]) /\ (j < q => array[j] < array[q])
        BY <1>2, <3>1 DEF Ascends
      <4> QED
        BY <1>3, <3>1, <4>1
    <3>3. q - i \in 0 .. k - 1 /\ (q - i) + i = q
      BY <1>4, <3>2
    <3>4. b[q - i] = y
      BY <1>5, <3>1, <3>3
    <3> QED
      BY <3>3, <3>4 DEF Image
  <2>3. Image(b, k) \subseteq array[i] .. array[j]
    BY <2>1 DEF Image
  <2> QED
    BY <2>2, <2>3
<1>8. Cardinality(Image(b, k)) = k
  <2>1. Slots(b, k, k)
    BY <1>5, <1>6 DEF Slots
  <2> QED
    BY <2>1, ImageCounts
<1>9. Cardinality(array[i] .. array[j]) = array[j] - array[i] + 1
  BY <1>3, FS_Interval
<1> QED
  BY <1>3, <1>7, <1>8, <1>9

LEMMA StartsAre ==
  ASSUME NEW S \in SUBSET Low, NEW b \in Starts(S)
  PROVE  b \in S /\ b \in Nat /\ b \in 0 .. ChunkSize /\ b - 1 \notin S
<1>1. b \in S /\ b - 1 \notin S /\ b \in 0 .. ChunkSize - 1
  BY DEF Starts, Low
<1> QED
  BY <1>1, ArrayAssumption

\* A run ends, and where it does.
LEMMA StopIs ==
  ASSUME NEW S \in SUBSET Low, NEW b \in Starts(S)
  PROVE  /\ Stop(S, b) \in S /\ Stop(S, b) >= b
         /\ b .. Stop(S, b) \subseteq S /\ Stop(S, b) + 1 \notin S
<1>1. b \in S /\ S \subseteq Nat /\ \A y \in S : y < ChunkSize
  BY ArrayAssumption DEF Starts, Low
<1> DEFINE U == {y \in Nat : y >= b /\ y + 1 \notin S}
<1>2. U \in SUBSET Nat /\ ChunkSize \in U
  <2>1. ChunkSize \in Nat /\ ChunkSize >= b /\ ~ (ChunkSize + 1 < ChunkSize)
    BY <1>1, ArrayAssumption
  <2> QED
    BY <1>1, <2>1
<1>3. PICK y \in U : \A z \in U : y <= z
  <2> HIDE DEF U
  <2> QED
    BY <1>2, NatMinimum
<1>4. \A z \in b .. y : z \in S
  <2> TAKE z \in b .. y
  <2>1. CASE z = b
    BY <1>1, <2>1
  <2>2. CASE z # b
    <3>1. z - 1 \in Nat /\ z - 1 >= b /\ ~ (y <= z - 1) /\ (z - 1) + 1 = z
      BY <1>1, <1>3, <2>2
    <3> QED
      BY <1>3, <3>1
  <2> QED
    BY <2>1, <2>2
<1>5. y \in S /\ y >= b /\ b .. y \subseteq S /\ y + 1 \notin S
  BY <1>1, <1>3, <1>4
<1> QED
  BY <1>5 DEF Stop

\* The place at which the search for the run that starts at b begins, where f are the
\* places at which the searches for runs end.
From(S, f, b) ==
  LET before == {t \in Starts(S) : t < b}
      latest == CHOOSE t \in before : \A u \in before : u <= t
  IN  IF before = {} THEN -1 ELSE f[latest]

LEMMA FromIs ==
  ASSUME NEW S \in SUBSET Low, NEW b \in Starts(S)
  PROVE  \/ \A f : From(S, f, b) = -1
         \/ \E c \in Starts(S) : c < b /\ \A f : From(S, f, b) = f[c]
<1> DEFINE before == {t \in Starts(S) : t < b}
           latest == CHOOSE t \in before : \A u \in before : u <= t
<1>1. \A t \in Starts(S) : t \in Nat
  BY ArrayAssumption DEF Starts, Low
<1>2. \A f : From(S, f, b) = IF before = {} THEN -1 ELSE f[latest]
  BY DEF From
<1>3. CASE before = {}
  BY <1>2, <1>3
<1>4. CASE before # {}
  <2> DEFINE U == {b - t : t \in before}
  <2>1. U \in SUBSET Nat /\ U # {}
    BY <1>1, <1>4
  <2>2. PICK d \in U : \A e \in U : d <= e
    <3> HIDE DEF U
    <3> QED
      BY <2>1, NatMinimum
  <2>3. PICK t \in before : d = b - t
    BY <2>2
  <2>4. \A u \in before : u <= t
    <3> TAKE u \in before
    <3>1. b - t <= b - u
      BY <2>2, <2>3
    <3> QED
      BY <1>1, <3>1
  <2>5. latest \in before
    BY <2>3, <2>4
  <2> HIDE DEF latest
  <2> QED
    BY <1>2, <1>4, <2>5
<1> QED
  BY <1>3, <1>4

LEMMA AdvanceType ==
  ASSUME ArrayInv, NEW pos \in Nat \union {-1}, NEW min \in Int
  PROVE  AdvanceUntil(array, pos, cardinality, min) \in Nat \union {-1}
<1>1. PICK m \in Nat \ {0} : Held(m)
  BY DEF ArrayInv
<1>2. /\ array \in [0 .. m - 1 -> Int] /\ cardinality \in 0 .. m
      /\ Ascends(array, cardinality)
  BY <1>1 DEF Held
<1> DEFINE r == AdvanceUntil(array, pos, cardinality, min)
<1>3. Advanced(array, pos, cardinality, min, r)
  BY <1>2, AdvanceUntilFinds
<1> HIDE DEF r
<1>4. r \in Nat
  BY <1>2, <1>3 DEF Advanced
<1> QED
  BY <1>4 DEF r

\* The searches are defined: each begins where that for an earlier run ended.
LEMMA StopPosIs ==
  ASSUME ArrayInv, NEW S \in SUBSET Low
  PROVE  \A b \in Starts(S) :
           StopPos(S)[b] = AdvanceUntil(array, From(S, StopPos(S), b), cardinality, Stop(S, b))
<1> DEFINE D == Starts(S)
           R == Nat \union {-1}
           Body(f) == [b \in D |-> AdvanceUntil(array, From(S, f, b), cardinality, Stop(S, b))]
           rank == [b \in D |-> b]
           F == [f \in [D -> R] |-> Body(f)]
<1>1. StopPos(S) = CHOOSE f : f = Body(f)
  BY DEF StopPos, From
<1>2. Descends(D, R, ChunkSize, rank, F)
  <2>1. ASSUME NEW f \in [D -> R] PROVE Body(f) \in [D -> R]
    <3>1. ASSUME NEW b \in D
          PROVE  AdvanceUntil(array, From(S, f, b), cardinality, Stop(S, b)) \in R
      <4>1. From(S, f, b) \in R
        BY FromIs
      <4>2. Stop(S, b) \in Int
        BY StopIs, LowIsInt
      <4> QED
        BY <4>1, <4>2, AdvanceType
    <3> QED
      BY <3>1
  <2>2. rank \in [D -> 0 .. ChunkSize]
    BY StartsAre
  <2>3. ASSUME NEW f \in [D -> R], NEW g \in [D -> R], NEW b \in D,
               \A c \in D : rank[c] < rank[b] => f[c] = g[c]
        PROVE  F[f][b] = F[g][b]
    <3>1. From(S, f, b) = From(S, g, b)
      <4>1. \A c \in D : c < b => f[c] = g[c]
        BY <2>3
      <4> QED
        BY <4>1, FromIs
    <3>2. Body(f)[b] = Body(g)[b]
      BY <3>1
    <3>3. F[f] = Body(f) /\ F[g] = Body(g)
      OBVIOUS
    <3> HIDE DEF F, Body
    <3> QED
      BY <3>2, <3>3
  <2>4. F \in [[D -> R] -> [D -> R]]
    <3> HIDE DEF Body
    <3> QED
      BY <2>1
  <2> HIDE DEF D, R, rank, F
  <2> QED
    BY <2>2, <2>3, <2>4 DEF Descends
<1>3. PICK w \in [D -> R] : w = F[w]
  <2> HIDE DEF D, R, rank, F
  <2>1. -1 \in R /\ ChunkSize \in Nat
    BY ArrayAssumption DEF R
  <2> QED
    BY <1>2, <2>1, FixpointExists
<1>4. w = Body(w)
  <2> HIDE DEF Body
  <2> QED
    BY <1>3
<1>5. StopPos(S) = Body(StopPos(S))
  <2> HIDE DEF Body
  <2> QED
    BY <1>1, <1>4
<1> DEFINE f == StopPos(S)
<1>6. f = Body(f)
  BY <1>5
<1> HIDE DEF f
<1>7. \A b \in D : f[b] = AdvanceUntil(array, From(S, f, b), cardinality, Stop(S, b))
  BY <1>6
<1> QED
  BY <1>7 DEF f

\* A run lies after the runs that start before it.
LEMMA StopsBefore ==
  ASSUME NEW S \in SUBSET Low, NEW b \in Starts(S), NEW c \in Starts(S), c < b
  PROVE  Stop(S, c) < b
<1>1. b \in Nat /\ c \in Nat /\ b - 1 \notin S /\ Stop(S, c) \in Nat
  <2>1. Stop(S, c) \in S /\ Stop(S, c) >= c
    BY StopIs
  <2>2. Stop(S, c) \in Int
    BY <2>1, LowIsInt
  <2> QED
    BY <2>1, <2>2, StartsAre
<1>2. c .. Stop(S, c) \subseteq S
  BY StopIs
<1> SUFFICES ASSUME Stop(S, c) >= b PROVE FALSE
  BY <1>1
<1>3. b - 1 \in c .. Stop(S, c)
  BY <1>1
<1> QED
  BY <1>1, <1>2, <1>3

LEMMA PlaceOf ==
  ASSUME ArrayInv, NEW y \in Values
  PROVE  \E i \in 0 .. cardinality - 1 : array[i] = y
BY DEF Values

\* The search for the end of a run of values in the array ends at its slot.
LEMMA StopPosArrives ==
  ASSUME ArrayInv, NEW S \in SUBSET Values
  PROVE  \A b \in Starts(S) : /\ StopPos(S)[b] \in 0 .. cardinality - 1
                              /\ array[StopPos(S)[b]] = Stop(S, b)
<1>1. PICK m \in Nat \ {0} : Held(m)
  BY DEF ArrayInv
<1>2. /\ array \in [0 .. m - 1 -> Int] /\ cardinality \in 0 .. m
      /\ Ascends(array, cardinality) /\ \A i \in 0 .. cardinality - 1 : array[i] \in Low
  BY <1>1 DEF Held
<1>3. S \in SUBSET Low
  BY <1>2 DEF Values
<1> DEFINE f == StopPos(S)
           Arrives(b) == f[b] \in 0 .. cardinality - 1 /\ array[f[b]] = Stop(S, b)
<1>4. \A b \in Starts(S) : f[b] = AdvanceUntil(array, From(S, f, b), cardinality, Stop(S, b))
  BY <1>3, StopPosIs
<1> HIDE DEF f
<1>5. ASSUME NEW b \in Starts(S), \A c \in Starts(S) : c < b => Arrives(c)
      PROVE  Arrives(b)
  <2>1. Stop(S, b) \in S /\ Stop(S, b) >= b /\ b \in Nat
    BY <1>3, StopIs, StartsAre
  <2>2. PICK i \in 0 .. cardinality - 1 : array[i] = Stop(S, b)
    BY <2>1, PlaceOf
  <2>3. From(S, f, b) \in Nat \union {-1} /\ From(S, f, b) < i
    <3>1. CASE \A g : From(S, g, b) = -1
      BY <3>1
    <3>2. CASE \E c \in Starts(S) : c < b /\ \A g : From(S, g, b) = g[c]
      <4>1. PICK c \in Starts(S) : c < b /\ From(S, f, b) = f[c]
        BY <3>2
      <4>2. f[c] \in 0 .. cardinality - 1 /\ array[f[c]] = Stop(S, c)
        BY <1>5, <4>1
      <4>3. Stop(S, c) < b /\ Stop(S, c) \in Int
        BY <1>3, <4>1, StopsBefore, StopIs, LowIsInt
      <4>4. array[f[c]] < array[i] /\ array[f[c]] \in Int /\ array[i] \in Int
        BY <1>2, <2>1, <2>2, <4>2, <4>3
      <4>5. ~ (i < f[c]) /\ i # f[c]
        BY <1>2, <4>2, <4>4 DEF Ascends
      <4> QED
        BY <4>1, <4>2, <4>5
    <3> QED
      BY <1>3, <3>1, <3>2, FromIs
  <2>4. f[b] = i
    BY <1>4, <2>2, <2>3, AdvanceArrives
  <2> QED
    BY <2>2, <2>4
<1> DEFINE U == {b \in Starts(S) : ~ Arrives(b)}
<1> SUFFICES ASSUME U # {} PROVE FALSE
  BY DEF f
<1> HIDE DEF Arrives
<1>6. U \in SUBSET Nat
  BY <1>3, StartsAre
<1>7. PICK b \in U : \A c \in U : b <= c
  <2> HIDE DEF U
  <2> QED
    BY <1>6, NatMinimum
<1>8. \A c \in Starts(S) : c < b => Arrives(c)
  <2> SUFFICES ASSUME NEW c \in U, c < b PROVE FALSE
    OBVIOUS
  <2> QED
    BY <1>6, <1>7
<1> QED
  BY <1>5, <1>7, <1>8

LEMMA RunSubsetIsFound ==
  ASSUME ArrayInv
  PROVE  RunSubsetFound
<1>1. PICK m \in Nat \ {0} : Held(m)
  BY DEF ArrayInv
<1>2. /\ array \in [0 .. m - 1 -> Int] /\ cardinality \in 0 .. m
      /\ Ascends(array, cardinality) /\ \A i \in 0 .. cardinality - 1 : array[i] \in Low
  BY <1>1 DEF Held
<1> SUFFICES ASSUME NEW S \in SUBSET Values PROVE RunIsSubset(S)
  BY DEF RunSubsetFound
<1>3. S \in SUBSET Low
  BY <1>2 DEF Values
<1>4. Cardinality(S) <= cardinality
  <2>1. IsFiniteSet(Values) /\ Cardinality(Values) = cardinality
    <3>1. Slots(array, m, cardinality)
      BY <1>2 DEF Slots
    <3> QED
      BY <3>1, ImageCounts, ValuesAreImage
  <2> QED
    BY <2>1, FS_Subset
<1>5. ASSUME NEW b \in Starts(S)
      PROVE  /\ StartPos(S, b) # cardinality
             /\ StopPos(S)[b] - StartPos(S, b) = Stop(S, b) - b
             /\ Slot(StartPos(S, b)) = b
             /\ Slot(StopPos(S)[b]) = Stop(S, b)
  <2> DEFINE f == StopPos(S)
             e == Stop(S, b)
  <2>1. e \in S /\ e >= b /\ b \in Nat /\ e \in Nat /\ b .. e \subseteq S
    <3>1. e \in S /\ e >= b /\ b .. e \subseteq S
      BY <1>3, StopIs
    <3>2. b \in Nat /\ e \in Int
      BY <1>3, <3>1, StartsAre, LowIsInt
    <3> HIDE DEF e
    <3> QED
      BY ONLY <3>1, <3>2
  <2>2. b \in Values
    BY DEF Starts
  <2>3. PICK i \in 0 .. cardinality - 1 : array[i] = b
    BY <2>2, PlaceOf
  <2>4. f[b] \in 0 .. cardinality - 1 /\ array[f[b]] = e
    BY StopPosArrives
  <2>5. StartPos(S, b) = AdvanceUntil(array, From(S, f, b), cardinality, b)
    BY DEF StartPos, From
  <2>6. From(S, f, b) \in Nat \union {-1} /\ From(S, f, b) < i
    <3>1. CASE \A g : From(S, g, b) = -1
      BY <3>1
    <3>2. CASE \E c \in Starts(S) : c < b /\ \A g : From(S, g, b) = g[c]
      <4>1. PICK c \in Starts(S) : c < b /\ From(S, f, b) = f[c]
        BY <3>2
      <4>2. f[c] \in 0 .. cardinality - 1 /\ array[f[c]] = Stop(S, c)
        BY <4>1, StopPosArrives
      <4>3. Stop(S, c) < b
        BY <1>3, <4>1, StopsBefore
      <4>4. array[f[c]] < array[i] /\ array[f[c]] \in Int /\ array[i] \in Int
        BY <1>2, <2>3, <4>2, <4>3
      <4>5. ~ (i < f[c]) /\ i # f[c]
        BY <1>2, <4>2, <4>4 DEF Ascends
      <4> QED
        BY <4>1, <4>2, <4>5
    <3> QED
      BY <1>3, <3>1, <3>2, FromIs
  <2> HIDE DEF f, e
  <2>7. StartPos(S, b) = i
    BY <2>3, <2>5, <2>6, AdvanceArrives
  <2>8. f[b] - i = e - b
    <3>1. array[i] <= array[f[b]] /\ array[i] .. array[f[b]] \subseteq Values
      BY <2>1, <2>3, <2>4
    <3> QED
      BY <2>3, <2>4, <3>1, PlacesAreApart
  <2>9. \A j \in 0 .. cardinality - 1 : Slot(j) = array[j]
    BY <1>2 DEF Slot
  <2>10. /\ StartPos(S, b) # cardinality
         /\ f[b] - StartPos(S, b) = e - b
         /\ Slot(StartPos(S, b)) = b
         /\ Slot(f[b]) = e
    BY <1>2, <2>3, <2>4, <2>7, <2>8, <2>9
  <2> QED
    BY <2>10 DEF f, e
<1> QED
  BY <1>4, <1>5 DEF RunIsSubset

-----------------------------------------------------------------------------
(***************************************************************************)
(* The specification.                                                      *)
(***************************************************************************)

LEMMA InitHolds ==
  ASSUME LoopsInit
  PROVE  ArrayInv
<1>1. CASE Init
  <2>1. array \in [0 .. InitialCapacity - 1 -> FreshMemory] /\ cardinality = 0
    BY <1>1 DEF Init, Memory
  <2>2. FreshMemory \subseteq Int /\ InitialCapacity \in Nat \ {0}
    BY ArrayAssumption
  <2>3. cardinality \in 0 .. InitialCapacity /\ \A i : i \notin 0 .. cardinality - 1
    BY <2>1, <2>2
  <2>4. Held(InitialCapacity)
    BY <2>1, <2>2, <2>3 DEF Held, Ascends
  <2> QED
    BY <2>2, <2>4 DEF ArrayInv
<1>2. CASE ArrayAtRest
  <2>1. array \in [0 .. Capacity - 1 -> Int] /\ cardinality = 0
    BY <1>2 DEF ArrayAtRest
  <2>2. Capacity \in Nat \ {0}
    BY ArrayAssumption
  <2>3. cardinality \in 0 .. Capacity /\ \A i : i \notin 0 .. cardinality - 1
    BY <2>1, <2>2
  <2>4. Held(Capacity)
    BY <2>1, <2>2, <2>3 DEF Held, Ascends
  <2> QED
    BY <2>2, <2>4 DEF ArrayInv
<1> QED
  BY <1>1, <1>2 DEF LoopsInit

LEMMA NextHolds ==
  ASSUME ArrayInv, [LoopsNext]_loopVars
  PROVE  ArrayInv'
<1>1. CASE Next
  BY <1>1, AppendAdds, InsertAdds, RemoveTakes, ShrinkKeeps DEF Next
<1>2. CASE UNCHANGED vars
  BY <1>2 DEF vars, ArrayInv, Held, Ascends
<1> QED
  BY <1>1, <1>2 DEF LoopsNext, ArrayStep, RangesStep, MergesStep, BitsetStep, BitmapStep,
                    EntriesStep, loopVars

\* The slots in use ascend and are low halves, behind them is anything, and there is
\* room for them: add, remove and shrink_to_fit of an array container keep it so.
THEOREM ArrayInvHolds == LoopsSpec => []ArrayInv
<1>1. LoopsInit => ArrayInv
  BY InitHolds
<1>2. ArrayInv /\ [LoopsNext]_loopVars => ArrayInv'
  BY NextHolds
<1> QED
  BY <1>1, <1>2, PTL DEF LoopsSpec

\* Binary search, contains, rank and the galloping search of an array container agree
\* with the set that its slots hold, for any array, any capacity and any stale slots.
THEOREM SearchesExactHolds == LoopsSpec => []SearchesExact
<1>1. ArrayInv => SearchesExact
  BY LookupIsExact, AdvanceIsExact DEF SearchesExact
<1> QED
  BY <1>1, ArrayInvHolds, PTL

\* run_container_is_subset_array finds every run container whose values the array
\* holds.
THEOREM RunSubsetFoundHolds == LoopsSpec => []RunSubsetFound
<1>1. ArrayInv => RunSubsetFound
  BY RunSubsetIsFound
<1> QED
  BY <1>1, ArrayInvHolds, PTL

\* add and remove of an array container change one value and no other; memory that
\* grows or shrinks holds what it held.
THEOREM ArrayStepExactHolds == LoopsSpec => ArrayStepExact
<1> DEFINE Exact == \A x \in Low :
                      /\ Append(x) \/ Insert(x) => Values' = Values \union {x}
                      /\ Remove(x) => Values' = Values \ {x}
                      /\ ShrinkToFit => Values' = Values
<1>1. ArrayInv => Exact
  BY AppendAdds, InsertAdds, RemoveTakes, ShrinkKeeps
<1>2. LoopsSpec => [][Exact]_vars
  BY <1>1, ArrayInvHolds, PTL
<1> QED
  BY <1>2 DEF ArrayStepExact

-----------------------------------------------------------------------------
(***************************************************************************)
(* Division and remainder.                                                 *)
(***************************************************************************)

LEMMA Larger ==
  ASSUME NEW p \in Int, NEW q \in Int, NEW d \in Nat, p <= q
  PROVE  p * d <= q * d
OBVIOUS

LEMMA Divided ==
  ASSUME NEW v \in Nat, NEW d \in Nat \ {0}
  PROVE  /\ v \div d \in Nat /\ v % d \in 0 .. d - 1
         /\ v = (v \div d) * d + (v % d)
<1>1. v % d \in 0 .. d - 1
  OBVIOUS
<1>2. v \div d \in Int
  OBVIOUS
<1>3. v = d * (v \div d) + (v % d)
  OBVIOUS
<1>4. v \div d >= 0
  OBVIOUS
<1>5. d * (v \div d) = (v \div d) * d
  BY <1>2
<1> QED
  BY <1>1, <1>2, <1>3, <1>4, <1>5

LEMMA QuotientUnique ==
  ASSUME NEW v \in Nat, NEW d \in Nat \ {0}, NEW q \in Nat, NEW r \in 0 .. d - 1, v = q * d + r
  PROVE  v \div d = q /\ v % d = r
<1>1. v \div d \in Nat /\ v % d \in 0 .. d - 1 /\ v = (v \div d) * d + (v % d)
  BY Divided
<1> DEFINE p == v \div d
           s == v % d
<1>2. p \in Nat /\ s \in 0 .. d - 1 /\ p * d + s = q * d + r
  BY <1>1
<1> HIDE DEF p, s
<1>3. ~ (p < q)
  <2> SUFFICES ASSUME p + 1 <= q PROVE FALSE
    BY <1>2
  <2>1. (p + 1) * d <= q * d
    BY <1>2, Larger
  <2>2. (p + 1) * d = p * d + d
    BY <1>2
  <2> QED
    BY <1>2, <2>1, <2>2
<1>4. ~ (q < p)
  <2> SUFFICES ASSUME q + 1 <= p PROVE FALSE
    BY <1>2
  <2>1. (q + 1) * d <= p * d
    BY <1>2, Larger
  <2>2. (q + 1) * d = q * d + d
    BY <1>2
  <2> QED
    BY <1>2, <2>1, <2>2
<1>5. p = q
  BY <1>2, <1>3, <1>4
<1> QED
  BY <1>2, <1>5 DEF p, s

\* Two multiples of d that differ by less are the same.
LEMMA MultiplesApart ==
  ASSUME NEW d \in Nat \ {0}, NEW a \in Nat, NEW b \in Nat, a % d = 0, b % d = 0, a <= b, b < a + d
  PROVE  a = b
<1> DEFINE p == a \div d
           q == b \div d
<1>1. p \in Nat /\ q \in Nat /\ a = p * d /\ b = q * d
  BY Divided
<1> HIDE DEF p, q
<1>2. ~ (p < q)
  <2> SUFFICES ASSUME p + 1 <= q PROVE FALSE
    BY <1>1
  <2>1. (p + 1) * d <= q * d
    BY <1>1, Larger
  <2>2. (p + 1) * d = p * d + d
    BY <1>1
  <2> QED
    BY <1>1, <2>1, <2>2
<1>3. q <= p
  BY <1>1, <1>2
<1>4. q * d <= p * d
  BY <1>1, <1>3, Larger
<1> QED
  BY <1>1, <1>4

LEMMA SumOfMultiples ==
  ASSUME NEW d \in Nat \ {0}, NEW a \in Nat, NEW b \in Nat, a % d = 0
  PROVE  (a + b) % d = b % d
<1> DEFINE p == a \div d
           q == b \div d
           r == b % d
<1>1. p \in Nat /\ q \in Nat /\ r \in 0 .. d - 1 /\ a = p * d /\ b = q * d + r
  BY Divided
<1> HIDE DEF p, q, r
<1>2. a + b = (p + q) * d + r /\ p + q \in Nat /\ a + b \in Nat
  BY <1>1
<1>3. (a + b) % d = r
  BY <1>1, <1>2, QuotientUnique
<1> QED
  BY <1>3 DEF r
LEMMA SmallRemainder ==
  ASSUME NEW d \in Nat \ {0}, NEW a \in Nat, a < d
  PROVE  a % d = a
OBVIOUS

-----------------------------------------------------------------------------
(***************************************************************************)
(* The loops over ranges.                                                  *)
(***************************************************************************)

\* A step past the end of the range stays below 2^32.
StepsFit ==
  \A c \in Calls : c.op = "from_range" => c.max + c.step <= HalfMod * HalfMod

\* The container of the last value, whether it is flipped in part, and the last one
\* that is flipped as a whole.
EndKey(c) == (c.max - 1) \div HalfMod
InPart(c) == (c.max - 1) % HalfMod # HalfMod - 1
WholeKey(c) == IF InPart(c) THEN EndKey(c) - 1 ELSE EndKey(c)

\* The values of a range in step up to k.
Stepped(c, k) == {v \in c.min .. c.max - 1 : v < k /\ (v - c.min) % c.step = 0}

Asked(c) == {v \in c.min .. c.max - 1 : c.op = "from_range" => (v - c.min) % c.step = 0}

\* A turn of a loop that will end has done what lies before its counter.
RangeState(c, p, k, S) ==
  /\ c \in Calls
  /\ p \in {"start", "containers", "values", "chunks", "run", "done"}
  /\ k \in Nat
  /\ p = "start" => S = {}
  /\ p = "containers" =>
       /\ c.op = "flip" /\ k <= HalfMod - 1
       /\ WholeKey(c) < HalfMod - 1 =>
            k <= WholeKey(c) + 1 /\ c.min <= k * HalfMod /\ S = c.min .. k * HalfMod - 1
  /\ p \in {"values", "chunks"} =>
       /\ c.op = "from_range" /\ k >= c.min /\ (k - c.min) % c.step = 0
       /\ S = Stepped(c, k)
  /\ p = "chunks" => k < c.max
  /\ p = "run" =>
       /\ c.op = "decompress" /\ k <= HalfMod - 1
       /\ c.max < HalfMod => k \in c.min .. c.max /\ S = c.min .. k - 1
  /\ p = "done" => S = Asked(c)

RangeInv == active = "ranges" => RangeState(call, pc, counter, values)

CallFits(c) ==
  /\ c.min \in Nat /\ c.max \in Nat /\ c.step \in Nat \ {0}
  /\ c.min < c.max /\ c.max <= HalfMod * HalfMod

LEMMA CallsFit ==
  ASSUME NEW c \in Calls
  PROVE  CallFits(c) /\ HalfMod \in Nat \ {0, 1} /\ c.op \in {"flip", "from_range", "decompress"}
<1>1. /\ HalfMod \in Nat \ {0, 1}
      /\ c.op \in {"flip", "from_range", "decompress"}
      /\ c.min \in 0 .. HalfMod * HalfMod - 1
      /\ c.max \in c.min + 1 .. HalfMod * HalfMod
      /\ c.step \in 1 .. HalfMod * HalfMod - 1
  BY RangeAssumption
<1> DEFINE M == HalfMod * HalfMod
<1>2. M \in Nat
  BY <1>1
<1>3. c.min \in 0 .. M - 1 /\ c.max \in c.min + 1 .. M /\ c.step \in 1 .. M - 1
  BY <1>1
<1> HIDE DEF M
<1>4. c.min \in Nat /\ c.max \in Nat /\ c.step \in Nat \ {0} /\ c.min < c.max /\ c.max <= M
  BY ONLY <1>2, <1>3
<1> QED
  BY <1>1, <1>4 DEF CallFits, M

\* Where a range lies in the containers.
LEMMA Placed ==
  ASSUME NEW c, CallFits(c), HalfMod \in Nat \ {0, 1}
  PROVE  LET f == c.min \div HalfMod  e == EndKey(c)
         IN  /\ f \in Nat /\ e \in f .. HalfMod - 1
             /\ f * HalfMod <= c.min /\ c.min < f * HalfMod + HalfMod
             /\ c.min % HalfMod = 0 => c.min = f * HalfMod
             /\ e * HalfMod < c.max
             /\ IF InPart(c) THEN c.max < e * HalfMod + HalfMod
                ELSE c.max = e * HalfMod + HalfMod
<1> DEFINE H == HalfMod
           lo == c.min
           hi == c.max - 1
           f == lo \div H
           e == hi \div H
           r == lo % H
           s == hi % H
<1>1. lo \in Nat /\ hi \in Nat /\ lo <= hi /\ H \in Nat \ {0} /\ hi < H * H /\ hi + 1 = c.max
  BY DEF CallFits
<1>2. EndKey(c) = e /\ (InPart(c) <=> s # H - 1)
  BY DEF EndKey, InPart
<1> HIDE DEF H, lo, hi
<1>3. f \in Nat /\ r \in 0 .. H - 1 /\ lo = f * H + r
  BY <1>1, Divided
<1>4. e \in Nat /\ s \in 0 .. H - 1 /\ hi = e * H + s
  BY <1>1, Divided
<1> HIDE DEF f, e, r, s
<1>5. f <= e
  <2> SUFFICES ASSUME e + 1 <= f PROVE FALSE
    BY <1>3, <1>4
  <2>1. (e + 1) * H <= f * H
    BY <1>1, <1>3, <1>4, Larger
  <2>2. (e + 1) * H = e * H + H
    BY <1>1, <1>4
  <2>3. e * H \in Int /\ f * H \in Int
    BY <1>1, <1>3, <1>4
  <2> QED
    BY <1>1, <1>3, <1>4, <2>1, <2>2, <2>3
<1>6. e <= H - 1
  <2> SUFFICES ASSUME H <= e PROVE FALSE
    BY <1>1, <1>4
  <2>1. H * H <= e * H
    BY <1>1, <1>4, Larger
  <2>2. e * H \in Int /\ H * H \in Int
    BY <1>1, <1>4
  <2> QED
    BY <1>1, <1>4, <2>1, <2>2
<1>7. f * H \in Int /\ e * H \in Int
  BY <1>1, <1>3, <1>4
<1>8. /\ f \in Nat /\ e \in f .. H - 1
      /\ f * H <= lo /\ lo < f * H + H
      /\ r = 0 => lo = f * H
      /\ e * H < hi + 1
      /\ IF s # H - 1 THEN hi + 1 < e * H + H ELSE hi + 1 = e * H + H
  BY <1>1, <1>3, <1>4, <1>5, <1>6, <1>7
<1> QED
  BY <1>1, <1>2, <1>8 DEF H, lo, f, e, r, s

LEMMA ToggleNext ==
  ASSUME NEW lo \in Int, NEW k \in Int, NEW j \in Int, lo <= k, k <= j + 1
  PROVE  Ranges!Toggle(lo .. k - 1, k .. j) = lo .. j
BY DEF Ranges!Toggle

\* A step of a loop over ranges leaves the state as it should be, call by call.
LEMMA FlipStarts ==
  ASSUME RangeState(call, pc, counter, values), Ranges!FlipStart
  PROVE  RangeState(call', pc', counter', values')
<1> DEFINE H == HalfMod
           f == call.min \div H
           e == EndKey(call)
           part == call.min % H > 0
<1>1. call \in Calls /\ call' = call /\ call.op = "flip" /\ values = {}
  BY DEF RangeState, Ranges!FlipStart
<1>2. /\ CallFits(call) /\ H \in Nat \ {0, 1}
      /\ call.min \in Nat /\ call.max \in Nat /\ call.min < call.max
  BY <1>1, CallsFit DEF CallFits
<1>3. /\ f \in Nat /\ e \in f .. H - 1
      /\ f * H <= call.min /\ call.min < f * H + H
      /\ call.min % H = 0 => call.min = f * H
      /\ e * H < call.max
      /\ call.min % H \in Nat
  BY <1>2, Placed
<1>4. f * H \in Nat /\ e * H \in Nat /\ (f + 1) * H = f * H + H
  BY <1>2, <1>3
<1>5. Asked(call) = call.min .. call.max - 1
  BY <1>1 DEF Asked
<1>6. f # e => WholeKey(call) >= f /\ WholeKey(call) \in Int
  <2>1. WholeKey(call) = IF InPart(call) THEN e - 1 ELSE e
    BY DEF WholeKey
  <2>2. f \in Nat /\ e \in Nat /\ f <= e
    BY <1>2, <1>3
  <2> HIDE DEF f, e
  <2> QED
    BY ONLY <2>1, <2>2
<1>7. /\ values' = IF f = e \/ part
                   THEN Ranges!Toggle({}, call.min ..
                                            IF f = e THEN call.max - 1 ELSE f * H + (H - 1))
                   ELSE {}
      /\ counter' = IF part /\ f # e THEN f + 1 ELSE f
      /\ pc' = IF f = e THEN "done" ELSE "containers"
  BY <1>1 DEF Ranges!FlipStart, Ranges!High, Ranges!LowOf, Ranges!HbEnd, Ranges!LastInFirst,
              Ranges!LastLow, EndKey
<1>8. \A T : Ranges!Toggle({}, T) = T
  BY DEF Ranges!Toggle
<1> HIDE DEF H, f, e, part
<1>9. CASE f = e
  <2>1. values' = call.min .. call.max - 1 /\ counter' \in Nat /\ pc' = "done"
    BY <1>3, <1>7, <1>8, <1>9
  <2> QED
    BY <1>1, <1>5, <2>1 DEF RangeState
<1>10. CASE f # e /\ part
  <2>1. values' = call.min .. f * H + (H - 1) /\ counter' = f + 1 /\ pc' = "containers"
    BY <1>7, <1>8, <1>10
  <2>2. /\ f + 1 <= H - 1 /\ f + 1 \in Nat /\ f + 1 <= WholeKey(call) + 1
        /\ call.min <= (f + 1) * H
    BY <1>2, <1>3, <1>4, <1>6, <1>10
  <2>3. f * H + (H - 1) = (f + 1) * H - 1
    BY <1>2, <1>4
  <2> QED
    BY <1>1, <2>1, <2>2, <2>3 DEF RangeState, H
<1>11. CASE f # e /\ ~ part
  <2>1. values' = {} /\ counter' = f /\ pc' = "containers"
    BY <1>7, <1>11
  <2>2. call.min % H = 0
    BY <1>3, <1>11 DEF part
  <2>3. call.min = f * H /\ f <= H - 1 /\ f <= WholeKey(call) + 1
    BY <1>2, <1>3, <1>6, <1>11, <2>2
  <2>4. call.min .. f * H - 1 = {}
    BY <1>4, <2>3
  <2>5. call.min <= f * H /\ f \in Nat
    BY <1>3, <1>4, <2>3
  <2> QED
    BY <1>1, <2>1, <2>3, <2>4, <2>5 DEF RangeState, H
<1> QED
  BY <1>9, <1>10, <1>11

LEMMA FlipWholeGoes ==
  ASSUME RangeState(call, pc, counter, values), Ranges!FlipWhole
  PROVE  RangeState(call', pc', counter', values')
<1> DEFINE H == HalfMod
           w == WholeKey(call)
           k == counter
<1>1. /\ call \in Calls /\ call' = call /\ call.op = "flip" /\ k \in Nat /\ k <= H - 1
      /\ pc' = "containers"
      /\ w < H - 1 => /\ call.min <= k * H
                      /\ values = call.min .. k * H - 1
  BY DEF RangeState, Ranges!FlipWhole
<1>2. CallFits(call) /\ H \in Nat \ {0, 1} /\ call.min \in Nat
  BY <1>1, CallsFit DEF CallFits
<1>3. w \in Int
  <2>1. EndKey(call) \in (call.min \div H) .. H - 1 /\ call.min \div H \in Nat
    BY <1>2, Placed
  <2> QED
    BY <1>2, <2>1 DEF WholeKey
<1>4. /\ k <= w
      /\ values' = Ranges!Toggle(values, k * H .. k * H + (H - 1))
      /\ counter' = (k + 1) % H
  BY DEF Ranges!FlipWhole, Ranges!LastWhole, Ranges!Partial, Ranges!HbEnd, Ranges!High,
         Ranges!LowOf, Ranges!LastLow, WholeKey, InPart, EndKey
<1>5. k * H \in Nat /\ (k + 1) * H = k * H + H /\ k + 1 \in Nat
  BY <1>1, <1>2
<1>6. counter' \in Nat /\ counter' <= H - 1
  BY <1>2, <1>4, <1>5
<1> HIDE DEF w, k, H
<1>7. ASSUME w < H - 1
      PROVE  /\ counter' = k + 1 /\ k + 1 <= w + 1 /\ call.min <= (k + 1) * H
             /\ values' = call.min .. (k + 1) * H - 1
  <2>1. k + 1 < H
    BY <1>1, <1>2, <1>3, <1>4, <1>7
  <2>2. counter' = k + 1
    BY <1>2, <1>4, <1>5, <2>1, SmallRemainder
  <2>3. k * H <= (k * H + (H - 1)) + 1 /\ k * H + (H - 1) = (k + 1) * H - 1
    BY <1>2, <1>5
  <2>4. values' = call.min .. k * H + (H - 1)
    <3> DEFINE a == k * H
               z == k * H + (H - 1)
    <3>1. call.min \in Int /\ a \in Int /\ z \in Int /\ call.min <= a /\ a <= z + 1
      BY <1>1, <1>2, <1>5, <1>7, <2>3
    <3>2. values' = Ranges!Toggle(call.min .. a - 1, a .. z)
      BY <1>1, <1>4, <1>7
    <3> HIDE DEF a, z
    <3>3. values' = call.min .. z
      BY <3>1, <3>2, ToggleNext
    <3> QED
      BY <3>3 DEF z
  <2> QED
    BY <1>1, <1>2, <1>3, <1>4, <1>5, <1>7, <2>2, <2>3, <2>4
<1> QED
  BY <1>1, <1>6, <1>7 DEF RangeState, H, w

LEMMA FlipEnds ==
  ASSUME RangeState(call, pc, counter, values), Ranges!FlipEnd
  PROVE  RangeState(call', pc', counter', values')
<1> DEFINE H == HalfMod
           w == WholeKey(call)
           e == EndKey(call)
           k == counter
<1>1. /\ call \in Calls /\ call' = call /\ call.op = "flip" /\ k \in Nat /\ k <= H - 1
      /\ pc' = "done" /\ counter' = k
      /\ w < H - 1 => /\ k <= w + 1 /\ call.min <= k * H
                      /\ values = call.min .. k * H - 1
  BY DEF RangeState, Ranges!FlipEnd
<1>2. CallFits(call) /\ H \in Nat \ {0, 1} /\ call.min \in Nat /\ call.max \in Nat
  BY <1>1, CallsFit DEF CallFits
<1>3. /\ e \in Nat /\ e <= H - 1 /\ e * H < call.max
      /\ ~ InPart(call) => call.max = e * H + H
  <2>1. /\ e \in (call.min \div H) .. H - 1 /\ call.min \div H \in Nat /\ e * H < call.max
        /\ IF InPart(call) THEN call.max < e * H + H ELSE call.max = e * H + H
    BY <1>2, Placed
  <2> QED
    BY <1>2, <2>1
<1>4. /\ k > w
      /\ values' = IF InPart(call) THEN Ranges!Toggle(values, e * H .. call.max - 1) ELSE values
  BY DEF Ranges!FlipEnd, Ranges!LastWhole, Ranges!Partial, Ranges!HbEnd, Ranges!High,
         Ranges!LowOf, Ranges!LastLow, WholeKey, InPart, EndKey
<1>5. w = IF InPart(call) THEN e - 1 ELSE e
  BY DEF WholeKey
<1>6. Asked(call) = call.min .. call.max - 1
  BY <1>1 DEF Asked
<1> HIDE DEF w, k, H, e
<1>7. k = w + 1 /\ w < H - 1
  BY <1>1, <1>2, <1>3, <1>4, <1>5
<1>8. values' = call.min .. call.max - 1
  <2>1. CASE InPart(call)
    <3>1. k = e /\ e * H \in Int
      BY <1>2, <1>3, <1>5, <1>7, <2>1
    <3>2. values' = Ranges!Toggle(call.min .. e * H - 1, e * H .. call.max - 1) /\ call.min <= e * H
      BY <1>1, <1>4, <1>7, <2>1, <3>1
    <3> DEFINE a == e * H
               z == call.max - 1
    <3>3. call.min \in Int /\ a \in Int /\ z \in Int /\ call.min <= a /\ a <= z + 1
      BY <1>2, <1>3, <3>1, <3>2
    <3> HIDE DEF a, z
    <3>4. Ranges!Toggle(call.min .. a - 1, a .. z) = call.min .. z
      BY <3>3, ToggleNext
    <3> QED
      BY <3>2, <3>4 DEF a, z
  <2>2. CASE ~ InPart(call)
    <3>1. k = e + 1 /\ values' = call.min .. k * H - 1
      BY <1>1, <1>3, <1>4, <1>5, <1>7, <2>2
    <3>2. (e + 1) * H = e * H + H
      BY <1>2, <1>3
    <3> QED
      BY <1>3, <2>2, <3>1, <3>2
  <2> QED
    BY <2>1, <2>2
<1> QED
  BY <1>1, <1>6, <1>8 DEF RangeState, k

LEMMA FromRangeStarts ==
  ASSUME RangeState(call, pc, counter, values), Ranges!FromRangeStart
  PROVE  RangeState(call', pc', counter', values')
<1>1. /\ call \in Calls /\ call' = call /\ call.op = "from_range" /\ values = {} /\ values' = values
      /\ counter' = call.min /\ pc' \in {"values", "chunks"}
  BY DEF RangeState, Ranges!FromRangeStart
<1>2. CallFits(call)
  BY <1>1, CallsFit
<1>3. call.min \in Nat /\ call.max \in Nat /\ call.min < call.max /\ call.step \in Nat \ {0}
  BY <1>2 DEF CallFits
<1>4. Stepped(call, call.min) = {}
  BY <1>3 DEF Stepped
<1>5. (call.min - call.min) % call.step = 0
  BY <1>3
<1> QED
  BY <1>1, <1>3, <1>4, <1>5 DEF RangeState

\* The next value in step.
LEMMA SteppedNext ==
  ASSUME NEW c, CallFits(c), NEW k \in Nat, k >= c.min, k < c.max, (k - c.min) % c.step = 0,
         NEW z, z = k + c.step
  PROVE  /\ Stepped(c, z) = Stepped(c, k) \union {k}
         /\ (z - c.min) % c.step = 0
<1> DEFINE d == c.step
           lo == c.min
<1>1. d \in Nat \ {0} /\ lo \in Nat /\ c.max \in Nat /\ k - lo \in Nat /\ (k - lo) % d = 0
      /\ z = k + d /\ z \in Nat
  BY DEF CallFits
<1>2. ASSUME NEW v \in lo .. c.max - 1, v >= k, v < z, (v - lo) % d = 0
      PROVE  v = k
  <2>1. v - lo \in Nat /\ k - lo <= v - lo /\ v - lo < (k - lo) + d
    BY <1>1, <1>2
  <2> DEFINE a == k - lo
             b == v - lo
  <2>2. a \in Nat /\ b \in Nat /\ a % d = 0 /\ b % d = 0 /\ a <= b /\ b < a + d
    BY <1>1, <1>2, <2>1
  <2> HIDE DEF a, b
  <2>3. a = b
    BY <1>1, <2>2, MultiplesApart
  <2> QED
    BY <1>1, <1>2, <2>3 DEF a, b
<1>3. (z - lo) % d = 0
  <2> DEFINE a == k - lo
  <2>1. a \in Nat /\ a % d = 0 /\ z - lo = a + d
    BY <1>1
  <2>2. d = 1 * d + 0 /\ 0 \in 0 .. d - 1 /\ d \in Nat /\ 1 \in Nat
    BY <1>1
  <2> HIDE DEF a, d, lo
  <2>3. d % d = 0
    BY <1>1, <2>2, QuotientUnique
  <2>4. (a + d) % d = d % d
    BY <1>1, <2>1, SumOfMultiples
  <2> QED
    BY ONLY <2>1, <2>3, <2>4
<1>4. ASSUME NEW v \in lo .. c.max - 1
      PROVE  (v < z /\ (v - lo) % d = 0) <=> (v < k /\ (v - lo) % d = 0) \/ v = k
  <2>1. v < z /\ (v - lo) % d = 0 => v < k \/ v = k
    BY <1>1, <1>2, <1>4
  <2>2. v < k => v < z
    BY <1>1, <1>4
  <2>3. v = k => v < z /\ (v - lo) % d = 0
    BY <1>1, <1>4
  <2> QED
    BY <2>1, <2>2, <2>3
<1>5. k \in lo .. c.max - 1
  BY <1>1
<1> HIDE DEF lo, d
<1>6. Stepped(c, z) = {v \in lo .. c.max - 1 : v < z /\ (v - lo) % d = 0}
  BY DEF Stepped, lo, d
<1>7. Stepped(c, k) = {v \in lo .. c.max - 1 : v < k /\ (v - lo) % d = 0}
  BY DEF Stepped, lo, d
<1>8. Stepped(c, z) = Stepped(c, k) \union {k}
  BY ONLY <1>4, <1>5, <1>6, <1>7
<1> QED
  BY <1>3, <1>8 DEF lo, d

LEMMA FromRangeTakes ==
  ASSUME RangeState(call, pc, counter, values), Ranges!FromRangeValue, StepsFit
  PROVE  RangeState(call', pc', counter', values')
<1> DEFINE k == counter
           d == call.step
           M == HalfMod * HalfMod
<1>1. /\ call \in Calls /\ call' = call /\ call.op = "from_range" /\ k \in Nat /\ pc' = "values"
      /\ k >= call.min /\ k < call.max /\ (k - call.min) % d = 0
      /\ values = Stepped(call, k)
      /\ values' = values \union {k} /\ counter' = (k + d) % M
  BY DEF RangeState, Ranges!FromRangeValue, Ranges!Mod
<1>2. /\ CallFits(call) /\ M \in Nat /\ M # 0
      /\ call.min \in Nat /\ call.max \in Nat /\ d \in Nat \ {0}
  BY <1>1, CallsFit DEF CallFits
<1>3. call.max + d <= M
  BY <1>1 DEF StepsFit
<1> DEFINE z == k + d
<1>4. values' = Stepped(call, z) /\ (z - call.min) % call.step = 0
  BY <1>1, <1>2, SteppedNext
<1>5. z \in Nat /\ z < M /\ z >= call.min
  <2>1. k \in Nat /\ k >= call.min /\ k < call.max
    BY <1>1
  <2> HIDE DEF M, d, k
  <2> QED
    BY ONLY <1>2, <1>3, <2>1
<1> HIDE DEF M, z
<1>6. counter' = z
  <2>1. counter' = z % M
    BY <1>1 DEF z
  <2> QED
    BY <1>2, <1>5, <2>1, SmallRemainder
<1> QED
  BY <1>1, <1>4, <1>5, <1>6 DEF RangeState

\* What lies below the end of the range is all of it.
LEMMA SteppedAll ==
  ASSUME NEW c, CallFits(c), c.op = "from_range", NEW k \in Nat, k >= c.max
  PROVE  Stepped(c, k) = Asked(c)
BY DEF Stepped, Asked, CallFits

LEMMA FromRangeEnds ==
  ASSUME RangeState(call, pc, counter, values), Ranges!FromRangeEnd
  PROVE  RangeState(call', pc', counter', values')
<1>1. /\ call \in Calls /\ call' = call /\ call.op = "from_range" /\ counter \in Nat /\ pc' = "done"
      /\ counter' = counter /\ counter >= call.max
      /\ values = Stepped(call, counter) /\ values' = values
  BY DEF RangeState, Ranges!FromRangeEnd
<1>2. values' = Asked(call)
  BY <1>1, CallsFit, SteppedAll
<1> QED
  BY <1>1, <1>2 DEF RangeState

LEMMA DecompressStarts ==
  ASSUME RangeState(call, pc, counter, values), Ranges!DecompressStart
  PROVE  RangeState(call', pc', counter', values')
<1>1. /\ call \in Calls /\ call' = call /\ call.op = "decompress" /\ values = {} /\ values' = values
      /\ counter' = call.min /\ pc' = "run"
  BY DEF RangeState, Ranges!DecompressStart
<1>2. /\ call.min \in Nat /\ call.max \in Nat /\ call.min < call.max /\ call.max <= HalfMod
      /\ HalfMod \in Nat
  BY <1>1, CallsFit, RangeAssumption DEF CallFits
<1>3. call.min <= HalfMod - 1 /\ call.min \in call.min .. call.max /\ call.min .. call.min - 1 = {}
  BY <1>2
<1> QED
  BY <1>1, <1>2, <1>3 DEF RangeState

LEMMA DecompressTakes ==
  ASSUME RangeState(call, pc, counter, values), Ranges!DecompressValue
  PROVE  RangeState(call', pc', counter', values')
<1>1. /\ call \in Calls /\ call' = call /\ call.op = "decompress" /\ counter \in Nat /\ pc' = "run"
      /\ counter <= HalfMod - 1 /\ counter <= call.max - 1
      /\ values' = values \union {counter} /\ counter' = (counter + 1) % HalfMod
      /\ call.max < HalfMod => counter \in call.min .. call.max /\ values = call.min .. counter - 1
  BY DEF RangeState, Ranges!DecompressValue
<1>2. call.min \in Nat /\ call.max \in Nat /\ HalfMod \in Nat \ {0, 1}
  BY <1>1, CallsFit DEF CallFits
<1>3. counter' \in 0 .. HalfMod - 1
  BY <1>1, <1>2
<1>4. ASSUME call.max < HalfMod
      PROVE  /\ counter' = counter + 1 /\ counter + 1 \in call.min .. call.max
             /\ values' = call.min .. (counter + 1) - 1
  <2>1. counter' = counter + 1
    BY <1>1, <1>2, <1>4, SmallRemainder
  <2>2. values' = (call.min .. counter - 1) \union {counter} /\ counter \in call.min .. call.max
    BY <1>1, <1>4
  <2> QED
    BY <1>1, <1>2, <2>1, <2>2
<1> QED
  BY <1>1, <1>2, <1>3, <1>4 DEF RangeState

LEMMA DecompressEnds ==
  ASSUME RangeState(call, pc, counter, values), Ranges!DecompressEnd
  PROVE  RangeState(call', pc', counter', values')
<1>1. /\ call \in Calls /\ call' = call /\ call.op = "decompress" /\ counter \in Nat /\ pc' = "done"
      /\ counter <= HalfMod - 1 /\ counter > call.max - 1 /\ counter' = counter /\ values' = values
      /\ call.max < HalfMod => counter \in call.min .. call.max /\ values = call.min .. counter - 1
  BY DEF RangeState, Ranges!DecompressEnd
<1>2. call.min \in Nat /\ call.max \in Nat /\ HalfMod \in Nat
  BY <1>1, CallsFit DEF CallFits
<1>3. counter = call.max
  BY <1>1, <1>2
<1>4. values' = call.min .. call.max - 1
  BY <1>1, <1>2, <1>3
<1>5. Asked(call) = call.min .. call.max - 1
  BY <1>1 DEF Asked
<1> QED
  BY <1>1, <1>4, <1>5 DEF RangeState

\* Rounded up to a multiple.
LEMMA RoundedUp ==
  ASSUME NEW d \in Nat \ {0}, NEW t \in Nat
  PROVE  LET g == (t + d - 1) - ((t + d - 1) % d)
         IN  g \in Nat /\ g % d = 0 /\ t <= g /\ g < t + d
<1> DEFINE a == t + d - 1
           q == a \div d
           r == a % d
           g == a - r
<1>1. a \in Nat
  OBVIOUS
<1>2. q \in Nat /\ r \in 0 .. d - 1 /\ a = q * d + r
  <2> HIDE DEF a
  <2> QED
    BY <1>1, Divided
<1> HIDE DEF q, r
<1>3. g = q * d + 0 /\ g \in Nat /\ t <= g /\ g < t + d
  <2>1. q * d \in Nat
    BY <1>2
  <2> QED
    BY ONLY <1>1, <1>2, <2>1 DEF g, a
<1> HIDE DEF g, a
<1>4. g % d = 0
  <2>1. 0 \in 0 .. d - 1
    OBVIOUS
  <2> QED
    BY <1>2, <1>3, <2>1, QuotientUnique
<1> QED
  BY <1>3, <1>4 DEF g, r, a

\* The values in step of one container, and the way to the next one that is in step.
LEMMA SteppedOn ==
  ASSUME NEW c, CallFits(c), NEW k \in Nat, k >= c.min, (k - c.min) % c.step = 0,
         NEW t \in Nat, k + t <= c.max,
         NEW g \in Nat, g % c.step = 0, t <= g, g < t + c.step, NEW z, z = k + g
  PROVE  /\ Stepped(c, z) = Stepped(c, k) \union {v \in k .. k + t - 1 : (v - k) % c.step = 0}
         /\ (z - c.min) % c.step = 0
<1> DEFINE d == c.step
           lo == c.min
           hi == c.max - 1
           a == k - lo
<1>1. /\ d \in Nat \ {0} /\ lo \in Nat /\ hi \in Nat /\ z \in Nat /\ a \in Nat /\ a % d = 0
      /\ k + t <= hi + 1 /\ k >= lo /\ g % d = 0 /\ g < t + d
  BY DEF CallFits
<1>2. Stepped(c, z) = {v \in lo .. hi : v < z /\ (v - lo) % d = 0}
  BY DEF Stepped
<1>3. Stepped(c, k) = {v \in lo .. hi : v < k /\ (v - lo) % d = 0}
  BY DEF Stepped
<1> HIDE DEF d, lo, hi
<1>4. (z - lo) % d = 0
  <2>1. z - lo = a + g
    BY <1>1
  <2> HIDE DEF a
  <2>2. (a + g) % d = g % d
    BY <1>1, SumOfMultiples
  <2> QED
    BY ONLY <1>1, <2>1, <2>2
<1>5. ASSUME NEW v \in Nat, v >= k
      PROVE  (v - lo) % d = (v - k) % d
  <2> DEFINE b == v - k
  <2>1. b \in Nat /\ v - lo = a + b
    BY <1>1, <1>5
  <2> HIDE DEF a, b
  <2>2. (a + b) % d = b % d
    BY <1>1, <2>1, SumOfMultiples
  <2>3. (v - lo) % d = b % d
    BY ONLY <2>1, <2>2
  <2> QED
    BY <2>3 DEF b
<1>6. ASSUME NEW v \in Nat, v >= k, (v - k) % d = 0
      PROVE  v < z <=> v < k + t
  <2> DEFINE b == v - k
  <2>1. b \in Nat /\ (v < z <=> b < g) /\ (v < k + t <=> b < t) /\ b % d = 0
    BY <1>1, <1>6
  <2> HIDE DEF b
  <2>2. ~ (b < g /\ t <= b)
    <3> SUFFICES ASSUME b < g, t <= b PROVE FALSE
      OBVIOUS
    <3>1. b <= g /\ g < b + d
      BY <1>1, <2>1
    <3>2. b = g
      BY <1>1, <2>1, <3>1, MultiplesApart
    <3> QED
      BY <2>1, <3>2
  <2> QED
    BY <1>1, <2>1, <2>2
<1>7. ASSUME NEW v \in lo .. hi
      PROVE  v < z /\ (v - lo) % d = 0 <=>
               \/ v < k /\ (v - lo) % d = 0
               \/ v \in k .. k + t - 1 /\ (v - k) % d = 0
  <2>1. v \in Nat
    BY <1>1
  <2>2. CASE v < k
    BY <1>1, <2>1, <2>2
  <2>3. CASE v >= k
    <3>1. (v - lo) % d = (v - k) % d
      BY <1>5, <2>1, <2>3
    <3>2. (v - k) % d = 0 => (v < z <=> v < k + t)
      BY <1>6, <2>1, <2>3
    <3>3. ~ (v < k) /\ (v \in k .. k + t - 1 <=> v < k + t)
      BY <2>1, <2>3
    <3> HIDE DEF a
    <3> QED
      BY ONLY <3>1, <3>2, <3>3
  <2> QED
    BY <1>1, <2>1, <2>2, <2>3
<1>8. k .. k + t - 1 \subseteq lo .. hi
  BY <1>1
<1>9. Stepped(c, z) = Stepped(c, k) \union {v \in k .. k + t - 1 : (v - k) % d = 0}
  BY ONLY <1>2, <1>3, <1>7, <1>8
<1> QED
  BY <1>4, <1>9 DEF d, lo

LEMMA FromRangeGoes ==
  ASSUME RangeState(call, pc, counter, values), Ranges!FromRangeChunk, StepsFit
  PROVE  RangeState(call', pc', counter', values')
<1> DEFINE k == counter
           H == HalfMod
           M == HalfMod * HalfMod
           d == call.step
           base == (k \div H) * H
           first == k % H
           end == Ranges!Smaller(call.max - base, H)
           t == end - first
           g == (t + d - 1) - ((t + d - 1) % d)
           z == k + g
<1>1. /\ call \in Calls /\ call' = call /\ call.op = "from_range" /\ k \in Nat
      /\ k >= call.min /\ k < call.max /\ (k - call.min) % call.step = 0
      /\ values = Stepped(call, k)
  BY DEF RangeState, Ranges!FromRangeChunk
<1>2. /\ values' = values \union
                     {base + x : x \in {y \in first .. end - 1 : (y - first) % call.step = 0}}
      /\ counter' = z % M
      /\ pc' = IF counter' < call.max THEN "chunks" ELSE "done"
  BY DEF Ranges!FromRangeChunk, Ranges!Gap, Ranges!Mod, Ranges!High, Ranges!LowOf
<1>3. /\ CallFits(call) /\ H \in Nat \ {0, 1} /\ M \in Nat \ {0}
      /\ call.min \in Nat /\ call.max \in Nat /\ d \in Nat \ {0} /\ call.max + d <= M
  BY <1>1, CallsFit DEF CallFits, StepsFit
<1> HIDE DEF M, H
<1>4. base \in Nat /\ first \in 0 .. H - 1 /\ k = base + first
  <2> DEFINE q == k \div H
             r == k % H
  <2>1. k \in Nat /\ H \in Nat \ {0}
    BY <1>1, <1>3
  <2>2. q \in Nat /\ r \in 0 .. H - 1 /\ k = q * H + r
    BY <2>1, Divided
  <2>3. base = q * H /\ first = r
    OBVIOUS
  <2> HIDE DEF q, r, base, first, k
  <2>4. q * H \in Nat
    BY <2>1, <2>2
  <2> QED
    BY ONLY <2>2, <2>3, <2>4
<1>5. end \in Int /\ end <= H /\ end <= call.max - base /\ first < end
  <2> HIDE DEF base, first
  <2> QED
    BY <1>1, <1>3, <1>4 DEF Ranges!Smaller
<1> HIDE DEF base, first, end
<1>6. t \in Nat /\ k + t <= call.max
  BY <1>3, <1>4, <1>5
<1> HIDE DEF t
<1>7. g \in Nat /\ g % d = 0 /\ t <= g /\ g < t + d
  BY <1>3, <1>6, RoundedUp
<1> HIDE DEF g
<1>8. /\ Stepped(call, z) = Stepped(call, k) \union {v \in k .. k + t - 1 : (v - k) % call.step = 0}
      /\ (z - call.min) % call.step = 0
  BY <1>1, <1>3, <1>6, <1>7, SteppedOn
<1>9. /\ z \in Nat /\ z < M /\ z >= call.min
  <2>1. k \in Nat /\ k >= call.min
    BY <1>1
  <2> HIDE DEF k, d
  <2> QED
    BY ONLY <1>3, <1>6, <1>7, <2>1
<1> HIDE DEF z
<1>10. counter' = z
  BY <1>2, <1>3, <1>9, SmallRemainder
<1>11. {base + x : x \in {y \in first .. end - 1 : (y - first) % call.step = 0}}
         = {v \in k .. k + t - 1 : (v - k) % call.step = 0}
  <2> DEFINE A == {y \in first .. end - 1 : (y - first) % d = 0}
             B == {v \in k .. k + t - 1 : (v - k) % d = 0}
  <2>1. ASSUME NEW y \in first .. end - 1
        PROVE  base + y \in k .. k + t - 1 /\ (base + y) - k = y - first
    BY <1>4, <1>5, <2>1 DEF t
  <2>2. ASSUME NEW v \in k .. k + t - 1
        PROVE  v - base \in first .. end - 1 /\ base + (v - base) = v /\ (v - base) - first = v - k
    BY <1>4, <1>5, <2>2 DEF t
  <2> HIDE DEF d, k, t
  <2>3. ASSUME NEW y \in A PROVE base + y \in B
    BY ONLY <2>1, <2>3
  <2>4. ASSUME NEW v \in B PROVE v - base \in A /\ base + (v - base) = v
    BY ONLY <2>2, <2>4
  <2>5. {base + x : x \in A} = B
    <3> HIDE DEF A, B
    <3> QED
      BY ONLY <2>3, <2>4
  <2> QED
    BY <2>5 DEF d
<1>12. values' = Stepped(call, counter')
  BY <1>1, <1>2, <1>8, <1>10, <1>11
<1>13. counter' \in Nat /\ counter' >= call.min /\ (counter' - call.min) % call.step = 0
  BY <1>8, <1>9, <1>10
<1>14. CASE counter' < call.max
  <2>1. pc' = "chunks"
    BY <1>2, <1>14
  <2> QED
    BY <1>1, <1>12, <1>13, <1>14, <2>1 DEF RangeState
<1>15. CASE counter' >= call.max
  <2>1. pc' = "done"
    BY <1>2, <1>3, <1>13, <1>15
  <2>2. values' = Asked(call)
    BY <1>1, <1>3, <1>12, <1>13, <1>15, SteppedAll
  <2> QED
    BY <1>1, <1>13, <2>1, <2>2 DEF RangeState
<1> QED
  BY <1>3, <1>13, <1>14, <1>15

LEMMA RangeStep ==
  ASSUME RangeInv, LoopsNext, StepsFit
  PROVE  RangeInv'
<1>1. CASE RangesStep
  <2>1. active = "ranges" /\ Ranges!Next /\ RangeState(call, pc, counter, values)
    BY <1>1 DEF RangesStep, RangeInv
  <2>2. RangeState(call', pc', counter', values')
    BY <2>1, FlipStarts, FlipWholeGoes, FlipEnds, FromRangeStarts, FromRangeTakes, FromRangeGoes,
       FromRangeEnds, DecompressStarts, DecompressTakes, DecompressEnds DEF Ranges!Next
  <2> QED
    BY <2>2 DEF RangeInv, RangeState, Stepped, Asked, EndKey, InPart, WholeKey
<1>2. CASE ArrayStep \/ MergesStep \/ BitsetStep \/ BitmapStep \/ EntriesStep
  <2>1. active # "ranges" /\ active' = active
    BY <1>2 DEF ArrayStep, MergesStep, BitsetStep, BitmapStep, EntriesStep
  <2> QED
    BY <2>1 DEF RangeInv
<1> QED
  BY <1>1, <1>2 DEF LoopsNext

\* At the start nothing has been put into the answer; when nothing moves, it stays.
LEMMA RangeStarts == LoopsInit => RangeInv
<1> SUFFICES ASSUME LoopsInit, active = "ranges" PROVE RangeState(call, pc, counter, values)
  BY DEF RangeInv
<1>1. Ranges!Init
  BY DEF LoopsInit
<1> QED
  BY <1>1 DEF Ranges!Init, RangeState

LEMMA RangeStays ==
  ASSUME RangeInv, UNCHANGED loopVars
  PROVE  RangeInv'
<1>1. active' = active /\ call' = call /\ pc' = pc /\ counter' = counter /\ values' = values
  BY DEF loopVars, rangeVars
<1> QED
  BY <1>1 DEF RangeInv, RangeState

\* flip, from_range and the decompression of a run leave the range that was asked
\* for when they return, for containers of any size, ranges of any length and steps of
\* any width: the parts of the first and the last container, the whole ones between
\* them, and the step from one container into the next.  A step of from_range that
\* passes 2^32 is left out; the loops that never return are not.
THEOREM RangeExactHolds ==
  ASSUME StepsFit
  PROVE  LoopsSpec => []RangeExact
<1>1. LoopsInit => RangeInv
  BY RangeStarts
<1>2. RangeInv /\ [LoopsNext]_loopVars => RangeInv'
  BY RangeStep, RangeStays
<1>3. RangeInv => RangeExact
  BY DEF RangeInv, RangeState, RangeExact, Ranges!RangeExact, Ranges!Wanted, Asked
<1> QED
  BY <1>1, <1>2, <1>3, PTL DEF LoopsSpec

-----------------------------------------------------------------------------
(***************************************************************************)
(* The array of containers: its memory.                                    *)
(***************************************************************************)

Fields == {"size", "allocation_size", "keys", "containers", "typecodes"}

\* An array with its three parallel arrays; the places in use are inside.
IsEntries(a) ==
  /\ DOMAIN a = Fields
  /\ a.size \in Nat /\ a.allocation_size \in Nat /\ a.size <= a.allocation_size
  /\ DOMAIN a.keys = 0 .. a.allocation_size - 1
  /\ DOMAIN a.containers = 0 .. a.allocation_size - 1
  /\ DOMAIN a.typecodes = 0 .. a.allocation_size - 1

\* What is in a place.
Place(a, i) == <<a.keys[i], a.containers[i], a.typecodes[i]>>

LEMMA Reallocated ==
  ASSUME NEW a, NEW m \in Nat, a.size \in Nat, a.size <= m, NEW r, r = Keyed!ReallocArray(a, m)
  PROVE  /\ IsEntries(r) /\ r.size = a.size /\ r.allocation_size = m
         /\ \A i \in 0 .. a.size - 1 : Place(r, i) = Place(a, i)
BY DEF Keyed!ReallocArray, Keyed!Copied, IsEntries, Fields, Place

LEMMA Extended ==
  ASSUME NEW a, IsEntries(a), NEW k \in Int, NEW r, r = Keyed!ExtendArray(a, k)
  PROVE  /\ IsEntries(r) /\ r.size = a.size /\ r.allocation_size >= a.size + k
         /\ \A i \in 0 .. a.size - 1 : Place(r, i) = Place(a, i)
<1> DEFINE d == a.size + k
           m == IF a.size < SlowGrowth THEN 2 * d ELSE (5 * d) \div 4
<1>1. a.size \in Nat /\ a.allocation_size \in Nat /\ a.size <= a.allocation_size /\ d \in Int
  BY DEF IsEntries
<1>2. CASE d <= a.allocation_size
  <2>1. r = a
    BY <1>2 DEF Keyed!ExtendArray
  <2> QED
    BY <1>1, <1>2, <2>1
<1>3. CASE ~(d <= a.allocation_size)
  <2>1. r = Keyed!ReallocArray(a, m)
    BY <1>3 DEF Keyed!ExtendArray
  <2>2. d \in Nat /\ a.size <= d
    BY <1>1, <1>3
  <2> HIDE DEF d
  <2>3. m \in Nat /\ d <= m
    BY <2>2
  <2> HIDE DEF m
  <2>4. a.size <= m
    BY <1>1, <2>2, <2>3
  <2>5. /\ IsEntries(r) /\ r.size = a.size /\ r.allocation_size = m
        /\ \A i \in 0 .. a.size - 1 : Place(r, i) = Place(a, i)
    BY <1>1, <2>1, <2>3, <2>4, Reallocated
  <2> QED
    BY <2>2, <2>3, <2>5, <1>1 DEF d
<1> QED
  BY <1>2, <1>3

LEMMA StoredAt ==
  ASSUME NEW a, IsEntries(a), NEW i \in 0 .. a.allocation_size - 1, NEW key, NEW c, NEW type,
         NEW r, r = Keyed!Store(a, i, key, c, type)
  PROVE  /\ IsEntries(r) /\ r.size = a.size /\ r.allocation_size = a.allocation_size
         /\ Place(r, i) = <<key, c, type>>
         /\ \A j \in 0 .. a.allocation_size - 1 : j # i => Place(r, j) = Place(a, j)
BY DEF Keyed!Store, IsEntries, Fields, Place

LEMMA RangeMoved ==
  ASSUME NEW a, IsEntries(a), NEW to, NEW b, NEW from, NEW len,
         NEW r, r = Keyed!MoveRange(a, to, b, from, len)
  PROVE  /\ IsEntries(r) /\ r.size = a.size /\ r.allocation_size = a.allocation_size
         /\ \A j \in 0 .. a.allocation_size - 1 :
              Place(r, j) = IF j \in to .. to + len - 1 THEN Place(b, j - to + from)
                            ELSE Place(a, j)
BY DEF Keyed!MoveRange, Keyed!Moved, IsEntries, Fields, Place

LEMMA Sized ==
  ASSUME NEW a, IsEntries(a), NEW len \in 0 .. a.allocation_size, NEW r, r = [a EXCEPT !.size = len]
  PROVE  /\ IsEntries(r) /\ r.size = len /\ r.allocation_size = a.allocation_size
         /\ \A j : Place(r, j) = Place(a, j)
BY DEF IsEntries, Fields, Place

-----------------------------------------------------------------------------
(***************************************************************************)
(* What the operations on the array do to its places.                      *)
(***************************************************************************)

LEMMA Inserted ==
  ASSUME NEW a, IsEntries(a), NEW i \in 0 .. a.size, NEW key, NEW c,
         NEW r, r = Keyed!InsertNewKeyValueAt(a, i, key, c)
  PROVE  /\ IsEntries(r) /\ r.size = a.size + 1
         /\ \A j \in 0 .. a.size :
              Place(r, j) = IF j < i THEN Place(a, j)
                            ELSE IF j = i THEN <<key, c, c.type>> ELSE Place(a, j - 1)
<1> DEFINE room == Keyed!ExtendArray(a, 1)
           opened == Keyed!MoveRange(room, i + 1, room, i, a.size - i)
           full == Keyed!Store(opened, i, key, c, c.type)
<1>1. a.size \in Nat
  BY DEF IsEntries
<1>2. /\ IsEntries(room) /\ room.size = a.size /\ room.allocation_size >= a.size + 1
      /\ \A j \in 0 .. a.size - 1 : Place(room, j) = Place(a, j)
  BY Extended
<1> HIDE DEF room
<1>3. room.allocation_size \in Nat
  BY <1>2 DEF IsEntries
<1>4. /\ IsEntries(opened) /\ opened.size = a.size /\ opened.allocation_size = room.allocation_size
      /\ \A j \in 0 .. room.allocation_size - 1 :
           Place(opened, j) = IF j \in i + 1 .. i + 1 + (a.size - i) - 1
                              THEN Place(room, j - (i + 1) + i) ELSE Place(room, j)
  BY <1>2, RangeMoved
<1> HIDE DEF opened
<1>5. i \in 0 .. opened.allocation_size - 1
  BY <1>1, <1>2, <1>3, <1>4
<1>6. /\ IsEntries(full) /\ full.size = a.size /\ full.allocation_size = opened.allocation_size
      /\ Place(full, i) = <<key, c, c.type>>
      /\ \A j \in 0 .. opened.allocation_size - 1 : j # i => Place(full, j) = Place(opened, j)
  BY <1>4, <1>5, StoredAt
<1> HIDE DEF full
<1>7. r = [full EXCEPT !.size = @ + 1]
  BY DEF Keyed!InsertNewKeyValueAt, full, opened, room
<1>8. r = [full EXCEPT !.size = a.size + 1]
  BY <1>6, <1>7
<1>9. a.size + 1 \in 0 .. full.allocation_size
  BY <1>1, <1>2, <1>3, <1>4, <1>6
<1>10. IsEntries(r) /\ r.size = a.size + 1 /\ \A j : Place(r, j) = Place(full, j)
  BY <1>6, <1>8, <1>9, Sized
<1>11. ASSUME NEW j \in 0 .. a.size
       PROVE  Place(r, j) = IF j < i THEN Place(a, j)
                            ELSE IF j = i THEN <<key, c, c.type>> ELSE Place(a, j - 1)
  <2>1. j \in 0 .. room.allocation_size - 1 /\ Place(r, j) = Place(full, j)
    BY <1>1, <1>2, <1>3, <1>10
  <2>2. CASE j < i
    <3>1. j \in 0 .. a.size - 1 /\ j # i /\ j \notin i + 1 .. i + 1 + (a.size - i) - 1
      BY <1>1, <2>2
    <3> QED
      BY <1>2, <1>4, <1>6, <2>1, <2>2, <3>1
  <2>3. CASE j = i
    BY <1>6, <2>1, <2>3
  <2>4. CASE j > i
    <3>1. /\ j - 1 \in 0 .. a.size - 1 /\ j # i /\ j \in i + 1 .. i + 1 + (a.size - i) - 1
          /\ j - (i + 1) + i = j - 1 /\ ~(j < i)
      BY <1>1, <2>4
    <3> QED
      BY <1>2, <1>4, <1>6, <2>1, <3>1
  <2> QED
    BY <2>2, <2>3, <2>4
<1> QED
  BY <1>10, <1>11

LEMMA Removed ==
  ASSUME NEW a, IsEntries(a), NEW i \in 0 .. a.size - 1, NEW r, r = Keyed!RemoveAtIndex(a, i)
  PROVE  /\ IsEntries(r) /\ r.size = a.size - 1
         /\ \A j \in 0 .. a.size - 2 : Place(r, j) = IF j < i THEN Place(a, j) ELSE Place(a, j + 1)
<1> DEFINE t == Keyed!MoveRange(a, i, a, i + 1, a.size - i - 1)
<1>1. a.size \in Nat /\ a.allocation_size \in Nat /\ a.size <= a.allocation_size /\ a.size > 0
  BY DEF IsEntries
<1>2. /\ IsEntries(t) /\ t.size = a.size /\ t.allocation_size = a.allocation_size
      /\ \A j \in 0 .. a.allocation_size - 1 :
           Place(t, j) = IF j \in i .. i + (a.size - i - 1) - 1 THEN Place(a, j - i + (i + 1))
                         ELSE Place(a, j)
  BY RangeMoved
<1> HIDE DEF t
<1>3. r = [t EXCEPT !.size = @ - 1]
  BY DEF Keyed!RemoveAtIndex, t
<1>4. r = [t EXCEPT !.size = a.size - 1] /\ a.size - 1 \in 0 .. t.allocation_size
  BY <1>1, <1>2, <1>3
<1>5. IsEntries(r) /\ r.size = a.size - 1 /\ \A j : Place(r, j) = Place(t, j)
  BY <1>2, <1>4, Sized
<1>6. ASSUME NEW j \in 0 .. a.size - 2
      PROVE  Place(r, j) = IF j < i THEN Place(a, j) ELSE Place(a, j + 1)
  <2>1. /\ j \in 0 .. a.allocation_size - 1 /\ j - i + (i + 1) = j + 1
        /\ j < i => j \notin i .. i + (a.size - i - 1) - 1
        /\ ~(j < i) => j \in i .. i + (a.size - i - 1) - 1
    BY <1>1
  <2> QED
    BY <1>2, <1>5, <2>1
<1> QED
  BY <1>5, <1>6

LEMMA Appended ==
  ASSUME NEW a, IsEntries(a), NEW key, NEW c, NEW type,
         NEW r, r = Keyed!AppendEntry(a, key, c, type)
  PROVE  /\ IsEntries(r) /\ r.size = a.size + 1 /\ Place(r, a.size) = <<key, c, type>>
         /\ \A j \in 0 .. a.size - 1 : Place(r, j) = Place(a, j)
<1> DEFINE room == Keyed!ExtendArray(a, 1)
           full == Keyed!Store(room, a.size, key, c, type)
<1>1. a.size \in Nat
  BY DEF IsEntries
<1>2. /\ IsEntries(room) /\ room.size = a.size /\ room.allocation_size >= a.size + 1
      /\ \A j \in 0 .. a.size - 1 : Place(room, j) = Place(a, j)
  BY Extended
<1> HIDE DEF room
<1>3. room.allocation_size \in Nat
  BY <1>2 DEF IsEntries
<1>4. a.size \in 0 .. room.allocation_size - 1
  BY <1>1, <1>2, <1>3
<1>5. /\ IsEntries(full) /\ full.size = a.size /\ full.allocation_size = room.allocation_size
      /\ Place(full, a.size) = <<key, c, type>>
      /\ \A j \in 0 .. room.allocation_size - 1 : j # a.size => Place(full, j) = Place(room, j)
  BY <1>2, <1>4, StoredAt
<1> HIDE DEF full
<1>6. r = [full EXCEPT !.size = @ + 1]
  BY DEF Keyed!AppendEntry, full, room
<1>7. r = [full EXCEPT !.size = a.size + 1] /\ a.size + 1 \in 0 .. full.allocation_size
  BY <1>1, <1>2, <1>3, <1>5, <1>6
<1>8. IsEntries(r) /\ r.size = a.size + 1 /\ \A j : Place(r, j) = Place(full, j)
  BY <1>5, <1>7, Sized
<1>9. \A j \in 0 .. a.size - 1 : j # a.size /\ j \in 0 .. room.allocation_size - 1
  BY <1>1, <1>2, <1>3
<1> QED
  BY <1>2, <1>5, <1>8, <1>9

\* The end of a range that is appended is inside the keys.
LEMMA RangeAppended ==
  ASSUME NEW a, IsEntries(a), NEW b, NEW end \in 0 .. EntryKeys - 1,
         NEW first \in 0 .. end, NEW r, r = Keyed!AppendCopyRange(a, b, first, end)
  PROVE  /\ IsEntries(r) /\ r.size = a.size + (end - first)
         /\ \A j \in 0 .. a.size - 1 : Place(r, j) = Place(a, j)
         /\ \A j \in a.size .. a.size + (end - first) - 1 :
              Place(r, j) = Place(b, j - a.size + first)
<1> DEFINE len == end - first
           room == Keyed!ExtendArray(a, len)
           full == Keyed!MoveRange(room, a.size, b, first, len)
<1>1. a.size \in Nat /\ len \in Nat /\ len \in Int /\ end % EntryKeys = end
  <2>1. EntryKeys \in Nat \ {0}
    BY EntryAssumption
  <2>2. a.size \in Nat
    BY DEF IsEntries
  <2>3. end \in Nat /\ first \in Nat /\ first <= end /\ end < EntryKeys
    BY <2>1
  <2> QED
    BY <2>1, <2>2, <2>3, SmallRemainder
<1>2. Keyed!Max({len, 0}) = len
  BY <1>1 DEF Keyed!Max
<1>3. r = [full EXCEPT !.size = @ + len]
  BY <1>1, <1>2 DEF Keyed!AppendCopyRange
<1>4. room = Keyed!ExtendArray(a, len)
  OBVIOUS
<1> HIDE DEF len, room
<1>5. /\ IsEntries(room) /\ room.size = a.size /\ room.allocation_size >= a.size + len
      /\ \A j \in 0 .. a.size - 1 : Place(room, j) = Place(a, j)
  BY <1>1, <1>4, Extended
<1>6. room.allocation_size \in Nat
  BY <1>5 DEF IsEntries
<1>7. /\ IsEntries(full) /\ full.size = a.size /\ full.allocation_size = room.allocation_size
      /\ \A j \in 0 .. room.allocation_size - 1 :
           Place(full, j) = IF j \in a.size .. a.size + len - 1 THEN Place(b, j - a.size + first)
                            ELSE Place(room, j)
  BY <1>5, RangeMoved
<1> HIDE DEF full
<1>8. r = [full EXCEPT !.size = a.size + len] /\ a.size + len \in 0 .. full.allocation_size
  BY <1>1, <1>3, <1>5, <1>6, <1>7
<1>9. IsEntries(r) /\ r.size = a.size + len /\ \A j : Place(r, j) = Place(full, j)
  BY <1>7, <1>8, Sized
<1>10. /\ \A j \in 0 .. a.size - 1 : j \in 0 .. room.allocation_size - 1
                                    /\ j \notin a.size .. a.size + len - 1
      /\ \A j \in a.size .. a.size + len - 1 : j \in 0 .. room.allocation_size - 1
  BY <1>1, <1>5, <1>6
<1> QED
  BY <1>5, <1>7, <1>9, <1>10 DEF len

\* memcpy of all places of another array that has room.
LEMMA FilledWith ==
  ASSUME NEW a, IsEntries(a), NEW b, b.size \in 0 .. a.allocation_size,
         NEW r, r = Keyed!Filled(a, b)
  PROVE  /\ IsEntries(r) /\ r.size = b.size
         /\ \A j \in 0 .. b.size - 1 : Place(r, j) = Place(b, j)
<1> DEFINE t == Keyed!MoveRange(a, 0, b, 0, b.size)
<1>1. a.allocation_size \in Nat
  BY DEF IsEntries
<1>2. /\ IsEntries(t) /\ t.size = a.size /\ t.allocation_size = a.allocation_size
      /\ \A j \in 0 .. a.allocation_size - 1 :
           Place(t, j) = IF j \in 0 .. 0 + b.size - 1 THEN Place(b, j - 0 + 0) ELSE Place(a, j)
  BY RangeMoved
<1> HIDE DEF t
<1>3. r = [t EXCEPT !.size = b.size] /\ b.size \in 0 .. t.allocation_size
  BY <1>2 DEF Keyed!Filled, t
<1>4. IsEntries(r) /\ r.size = b.size /\ \A j : Place(r, j) = Place(t, j)
  BY <1>2, <1>3, Sized
<1>5. \A j \in 0 .. b.size - 1 :
        j \in 0 .. a.allocation_size - 1 /\ j \in 0 .. 0 + b.size - 1 /\ j - 0 + 0 = j
  BY <1>1
<1> QED
  BY <1>2, <1>4, <1>5

LEMMA Started ==
  ASSUME NEW m \in Nat, NEW r, r = Keyed!InitWithCapacity(m)
  PROVE  IsEntries(r) /\ r.size = 0 /\ r.allocation_size = m
<1> DEFINE e == [size |-> 0, keys |-> <<>>, containers |-> <<>>, typecodes |-> <<>>]
<1>1. e.size = 0
  OBVIOUS
<1>2. r = Keyed!ReallocArray(e, m)
  BY DEF Keyed!InitWithCapacity
<1> HIDE DEF e
<1> QED
  BY <1>1, <1>2, Reallocated

LEMMA CopyIs ==
  ASSUME NEW b, b.size \in Nat, NEW r, r = Keyed!Copy(b)
  PROVE  /\ IsEntries(r) /\ r.size = b.size
         /\ \A j \in 0 .. b.size - 1 : Place(r, j) = Place(b, j)
<1> DEFINE e == Keyed!InitWithCapacity(b.size)
<1>1. IsEntries(e) /\ e.allocation_size = b.size
  BY Started
<1>2. r = Keyed!Filled(e, b)
  BY DEF Keyed!Copy
<1> HIDE DEF e
<1>3. b.size \in 0 .. e.allocation_size
  BY <1>1
<1> QED
  BY <1>1, <1>2, <1>3, FilledWith

LEMMA OverwrittenIs ==
  ASSUME NEW a, IsEntries(a), NEW b, b.size \in Nat, NEW r, r = Keyed!Overwritten(a, b)
  PROVE  /\ IsEntries(r) /\ r.size = b.size
         /\ \A j \in 0 .. b.size - 1 : Place(r, j) = Place(b, j)
<1> DEFINE e == IF a.allocation_size < b.size THEN Keyed!ReallocArray(a, b.size) ELSE a
<1>1. a.size \in Nat /\ a.allocation_size \in Nat /\ a.size <= a.allocation_size
  BY DEF IsEntries
<1>2. IsEntries(e) /\ b.size \in 0 .. e.allocation_size
  <2>1. CASE a.allocation_size < b.size
    <3>1. a.size <= b.size /\ e = Keyed!ReallocArray(a, b.size)
      BY <1>1, <2>1
    <3> QED
      BY <1>1, <3>1, Reallocated
  <2>2. CASE ~(a.allocation_size < b.size)
    BY <1>1, <2>2
  <2> QED
    BY <2>1, <2>2
<1>3. r = Keyed!Filled(e, b)
  BY DEF Keyed!Overwritten
<1> HIDE DEF e
<1> QED
  BY <1>2, <1>3, FilledWith

-----------------------------------------------------------------------------
(***************************************************************************)
(* What the places hold: a container each, in the order of the keys.       *)
(***************************************************************************)

EntryKey == 0 .. EntryKeys - 1
Kept == [key : EntryKey, type : Typecodes]

\* A container of its own key and typecode is in place i; i is one of I.
Holding(a, i) ==
  /\ a.containers[i] \in Kept
  /\ a.keys[i] = a.containers[i].key /\ a.typecodes[i] = a.containers[i].type

Sorted(a, I) ==
  /\ \A i \in I : Holding(a, i)
  /\ \A i, j \in I : i < j => a.containers[i].key < a.containers[j].key

HeldBy(a, I) == {a.containers[i] : i \in I}

\* Places that take what other places hold, in the same order, hold the same.
LEMMA Carried ==
  ASSUME NEW a, NEW I \in SUBSET Int, Sorted(a, I), NEW r, NEW J \in SUBSET Int, NEW m \in [J -> I],
         \A i, j \in J : i < j => m[i] < m[j],
         \A j \in J : Place(r, j) = Place(a, m[j])
  PROVE  /\ Sorted(r, J) /\ HeldBy(r, J) = {a.containers[m[j]] : j \in J}
         /\ (\A i \in I : \E j \in J : m[j] = i) => HeldBy(r, J) = HeldBy(a, I)
<1>1. \A j \in J : /\ m[j] \in I /\ r.containers[j] = a.containers[m[j]] /\ r.keys[j] = a.keys[m[j]]
                   /\ r.typecodes[j] = a.typecodes[m[j]]
  BY DEF Place
<1>2. \A j \in J : Holding(r, j)
  <2>1. \A j \in J : Holding(a, m[j])
    BY <1>1, Zenon DEF Sorted
  <2> QED
    BY ONLY <1>1, <2>1 DEF Holding
<1>3. \A i, j \in J : i < j => r.containers[i].key < r.containers[j].key
  BY <1>1 DEF Sorted
<1>4. HeldBy(r, J) = {a.containers[m[j]] : j \in J}
  <2>1. \A j \in J : r.containers[j] = a.containers[m[j]]
    BY <1>1
  <2> QED
    BY ONLY <2>1 DEF HeldBy
<1>5. ASSUME \A i \in I : \E j \in J : m[j] = i PROVE HeldBy(r, J) = HeldBy(a, I)
  <2>1. ASSUME NEW i \in I PROVE a.containers[i] \in HeldBy(r, J)
    BY <1>4, <1>5, Zenon
  <2>2. ASSUME NEW j \in J PROVE r.containers[j] \in HeldBy(a, I)
    BY <1>1, Zenon DEF HeldBy
  <2> QED
    BY <2>1, <2>2, Zenon DEF HeldBy
<1> QED
  BY <1>2, <1>3, <1>4, <1>5 DEF Sorted

\* In particular the same places.
LEMMA Stayed ==
  ASSUME NEW a, NEW I \in SUBSET Int, Sorted(a, I), NEW r, NEW J \in SUBSET I,
         \A j \in J : Place(r, j) = Place(a, j)
  PROVE  Sorted(r, J) /\ HeldBy(r, J) = HeldBy(a, J)
<1>1. \A j \in J : /\ r.containers[j] = a.containers[j] /\ r.keys[j] = a.keys[j]
                   /\ r.typecodes[j] = a.typecodes[j]
  BY DEF Place
<1> QED
  BY <1>1 DEF Sorted, Holding, HeldBy

\* Places of two kinds, with their keys in order across them.
LEMMA Joined ==
  ASSUME NEW r, NEW I, NEW J, Sorted(r, I), Sorted(r, J),
         \A i \in I, j \in J : /\ i < j => r.containers[i].key < r.containers[j].key
                               /\ j < i => r.containers[j].key < r.containers[i].key
  PROVE  Sorted(r, I \union J) /\ HeldBy(r, I \union J) = HeldBy(r, I) \union HeldBy(r, J)
BY DEF Sorted, HeldBy

\* One place.
LEMMA Single ==
  ASSUME NEW r, NEW i \in Int, NEW c \in Kept, Place(r, i) = <<c.key, c, c.type>>
  PROVE  Sorted(r, {i}) /\ HeldBy(r, {i}) = {c} /\ r.containers[i] = c
BY DEF Sorted, HeldBy, Holding, Place

\* What the module calls the containers of the places.
LEMMA EntriesAre ==
  ASSUME NEW a, NEW I, Sorted(a, I)
  PROVE  /\ {Keyed!Container(a.keys[i], a.typecodes[i]) : i \in I} = HeldBy(a, I)
         /\ \A i \in I : a.containers[i] = Keyed!Container(a.keys[i], a.typecodes[i])
         /\ \A i, j \in I : i < j => a.keys[i] < a.keys[j]
<1>1. ASSUME NEW i \in I
      PROVE  a.containers[i] = Keyed!Container(a.keys[i], a.typecodes[i])
  BY DEF Sorted, Holding, Kept, Keyed!Container
<1>2. \A i, j \in I : i < j => a.keys[i] < a.keys[j]
  BY DEF Sorted, Holding
<1> QED
  BY <1>1, <1>2 DEF HeldBy

LEMMA CardinalityIs ==
  ASSUME NEW S
  PROVE  Keyed!Cardinality(S) = Cardinality(S)
BY DEF Keyed!Cardinality, Cardinality

\* The places in use.
Used(a) == 0 .. a.size - 1

\* As many places have keys below a key as come before the place for it.
LEMMA BelowIs ==
  ASSUME NEW a, a.size \in Nat, Sorted(a, Used(a)), NEW key \in Int
  PROVE  /\ Keyed!Below(a, key) \in 0 .. a.size
         /\ \A i \in Used(a) : i < Keyed!Below(a, key) <=> a.containers[i].key < key
<1> DEFINE B == {i \in 0 .. a.size - 1 : a.keys[i] < key}
           N == {i \in 0 .. a.size : i \notin B}
<1>1. \A i \in Used(a) : a.keys[i] = a.containers[i].key /\ a.keys[i] \in Int
  <2>1. EntryKeys \in Nat
    BY EntryAssumption
  <2> QED
    BY <2>1 DEF Sorted, Holding, Kept, EntryKey
<1>2. \A i, j \in Used(a) : i < j => a.keys[i] < a.keys[j]
  BY EntriesAre, Zenon
<1>3. N \in SUBSET Nat /\ a.size \in N
  OBVIOUS
<1>4. PICK m \in N : \A i \in N : m <= i
  <2> HIDE DEF N
  <2> QED
    BY <1>3, NatMinimum
<1>5. m \in 0 .. a.size /\ m \notin B
  BY <1>4
<1>6. ASSUME NEW i \in 0 .. m - 1 PROVE i \in B
  BY <1>4, <1>5, <1>6
<1>7. ASSUME NEW i \in B PROVE i \in 0 .. m - 1
  <2>1. i \in Used(a) /\ a.keys[i] < key
    BY DEF Used
  <2>2. CASE m < i
    <3>1. m \in Used(a) /\ ~(a.keys[m] < key)
      BY <1>5, <2>1, <2>2 DEF Used
    <3> QED
      BY <1>1, <1>2, <2>1, <2>2, <3>1
  <2>3. CASE m >= i
    BY <1>5, <2>1, <2>3 DEF Used
  <2> QED
    BY <1>5, <2>1, <2>2, <2>3 DEF Used
<1>8. B = 0 .. m - 1
  <2> HIDE DEF B
  <2> QED
    BY <1>6, <1>7
<1>9. Cardinality(B) = m
  <2>1. m \in Nat /\ 0 \in Int /\ m - 1 \in Int
    BY <1>5
  <2>2. Cardinality(0 .. m - 1) = IF 0 > m - 1 THEN 0 ELSE (m - 1) - 0 + 1
    BY <2>1, FS_Interval
  <2> HIDE DEF B
  <2> QED
    BY <1>8, <2>1, <2>2
<1>10. Keyed!Below(a, key) = m
  <2>1. Keyed!Below(a, key) = Keyed!Cardinality(B)
    BY DEF Keyed!Below
  <2> HIDE DEF B
  <2> QED
    BY <1>9, <2>1, CardinalityIs
<1>11. \A i \in Used(a) : i < m <=> i \in B
  BY <1>5, <1>8 DEF Used
<1> QED
  BY <1>1, <1>5, <1>10, <1>11 DEF Used

-----------------------------------------------------------------------------
(***************************************************************************)
(* One container of another bitmap after the other is appended.            *)
(***************************************************************************)

LEMMA EachAppended ==
  ASSUME NEW a, IsEntries(a), a.size = 0, NEW b, NEW len \in Nat,
         NEW r, r = Keyed!AppendEach(a, b, len)
  PROVE  /\ IsEntries(r) /\ r.size = len
         /\ \A j \in 0 .. len - 1 : Place(r, j) = Place(b, j)
<1> DEFINE Turn(x, i) ==
             Keyed!AppendEntry(x, b.keys[i - 1], b.containers[i - 1], b.typecodes[i - 1])
           Loop(f, m) == f = [i \in 0 .. m |-> IF i = 0 THEN a ELSE Turn(f[i - 1], i)]
           after == CHOOSE f : Loop(f, len)
           T == {m \in 0 .. len : \E f : Loop(f, m)}
<1>1. r = after[len]
  BY DEF Keyed!AppendEach
<1>2. ASSUME NEW x, IsEntries(x), NEW i \in 1 .. len
      PROVE  /\ IsEntries(Turn(x, i)) /\ Turn(x, i).size = x.size + 1
             /\ Place(Turn(x, i), x.size) = Place(b, i - 1)
             /\ \A j \in 0 .. x.size - 1 : Place(Turn(x, i), j) = Place(x, j)
  <2>1. Place(b, i - 1) = <<b.keys[i - 1], b.containers[i - 1], b.typecodes[i - 1]>>
    BY DEF Place
  <2> QED
    BY <1>2, <2>1, Appended
<1> HIDE DEF Turn
<1>3. 0 \in T
  <2>1. Loop([i \in 0 .. 0 |-> a], 0)
    OBVIOUS
  <2> HIDE DEF Loop
  <2> QED
    BY <2>1
<1>4. ASSUME NEW m \in 1 .. len, m - 1 \in T PROVE m \in T
  <2>1. PICK f : Loop(f, m - 1)
    BY <1>4
  <2> DEFINE g == [i \in 0 .. m |-> IF i = m THEN Turn(f[m - 1], m) ELSE f[i]]
  <2>2. ASSUME NEW i \in 0 .. m PROVE g[i] = IF i = 0 THEN a ELSE Turn(g[i - 1], i)
    <3>1. g[i] = IF i = m THEN Turn(f[m - 1], m) ELSE f[i]
      OBVIOUS
    <3>2. i # 0 => g[i - 1] = f[i - 1]
      OBVIOUS
    <3>3. i # m => f[i] = IF i = 0 THEN a ELSE Turn(f[i - 1], i)
      BY <2>1
    <3> QED
      BY <3>1, <3>2, <3>3
  <2>3. g = [i \in 0 .. m |-> g[i]]
    OBVIOUS
  <2>4. Loop(g, m)
    <3> HIDE DEF g
    <3> QED
      BY <2>2, <2>3
  <2> HIDE DEF Loop
  <2> QED
    BY <2>4
<1>5. Loop(after, len)
  <2>1. \A m \in 0 .. len : m \in T
    <3> HIDE DEF T
    <3> QED
      BY <1>3, <1>4, TurnByTurn
  <2>2. \E f : Loop(f, len)
    BY <2>1
  <2> HIDE DEF Loop
  <2> QED
    BY <2>2, Zenon
<1>6. after[0] = a /\ \A i \in 1 .. len : after[i] = Turn(after[i - 1], i)
  <2> HIDE DEF after
  <2>1. \A i \in 1 .. len : i \in 0 .. len /\ i # 0
    OBVIOUS
  <2>2. 0 \in 0 .. len
    OBVIOUS
  <2>3. \A i \in 0 .. len : after[i] = IF i = 0 THEN a ELSE Turn(after[i - 1], i)
    BY <1>5
  <2> QED
    BY <2>1, <2>2, <2>3
<1> HIDE DEF after, Loop, T
<1> DEFINE U == {m \in 0 .. len : /\ IsEntries(after[m]) /\ after[m].size = m
                                /\ \A j \in 0 .. m - 1 : Place(after[m], j) = Place(b, j)}
<1>7. 0 \in U
  BY <1>6
<1>8. ASSUME NEW m \in 1 .. len, m - 1 \in U PROVE m \in U
  <2>1. /\ IsEntries(after[m - 1]) /\ after[m - 1].size = m - 1
        /\ \A j \in 0 .. (m - 1) - 1 : Place(after[m - 1], j) = Place(b, j)
        /\ after[m] = Turn(after[m - 1], m)
    BY <1>6, <1>8
  <2>2. /\ IsEntries(after[m]) /\ after[m].size = (m - 1) + 1
        /\ Place(after[m], m - 1) = Place(b, m - 1)
        /\ \A j \in 0 .. (m - 1) - 1 : Place(after[m], j) = Place(after[m - 1], j)
    BY <1>2, <2>1
  <2>3. \A j \in 0 .. m - 1 : j = m - 1 \/ j \in 0 .. (m - 1) - 1
    OBVIOUS
  <2>4. \A j \in 0 .. m - 1 : Place(after[m], j) = Place(b, j)
    BY <2>1, <2>2, <2>3
  <2> QED
    BY <2>2, <2>4
<1>9. len \in U
  <2> HIDE DEF U
  <2>1. \A m \in 0 .. len : m \in U
    BY <1>7, <1>8, TurnByTurn
  <2> QED
    BY <2>1
<1> QED
  BY <1>1, <1>9

-----------------------------------------------------------------------------
(***************************************************************************)
(* The bitmaps that others hold.                                           *)
(***************************************************************************)

\* Ranked by their keys, the containers of a bitmap take its places one by one.
LEMMA BitmapIs ==
  ASSUME NEW S \in Sources, NEW b, b = Keyed!Bitmap(S)
  PROVE  /\ b.size \in Nat /\ b.size < EntryKeys
         /\ Sorted(b, Used(b)) /\ HeldBy(b, Used(b)) = S
<1> DEFINE len == Cardinality(S)
           Lower(c) == {d \in S : d.key < c.key}
           rank == [c \in S |-> Cardinality(Lower(c))]
           key == [c \in S |-> c.key]
           holds == [i \in 0 .. len - 1 |-> CHOOSE c \in S : Cardinality(Lower(c)) = i]
<1>1. /\ EntryKeys \in Nat /\ S \subseteq Kept /\ len < EntryKeys
      /\ \A c, d \in S : c.key = d.key => c = d
  BY EntryAssumption DEF Kept, EntryKey
<1>2. \A c \in S : c \in Kept /\ c.key \in EntryKey /\ c.key \in Int
  BY <1>1 DEF Kept, EntryKey
<1>3. IsFiniteSet(S)
  <2>1. key \in Injection(S, EntryKey)
    BY <1>1, <1>2 DEF Injection, IsInjective
  <2>2. 0 \in Int /\ EntryKeys - 1 \in Int
    BY <1>1
  <2>3. IsFiniteSet(EntryKey)
    BY <2>2, FS_Interval DEF EntryKey
  <2> QED
    BY <2>1, <2>3, FS_Injection
<1>4. len \in Nat
  BY <1>3, FS_CardinalityType
<1>5. \A c \in S : Lower(c) \in SUBSET S /\ IsFiniteSet(Lower(c)) /\ Cardinality(Lower(c)) \in Nat
  <2>1. \A c \in S : Lower(c) \in SUBSET S
    OBVIOUS
  <2> HIDE DEF Lower
  <2> QED
    BY <1>3, <2>1, FS_Subset, FS_CardinalityType
<1>6. ASSUME NEW c \in S, NEW d \in S, c.key < d.key PROVE rank[c] < rank[d]
  <2>1. Lower(c) \subseteq Lower(d) /\ c \in Lower(d) /\ c \notin Lower(c)
    BY <1>2, <1>6
  <2> HIDE DEF Lower
  <2>2. Cardinality(Lower(c)) <= Cardinality(Lower(d))
    BY <1>5, <2>1, FS_Subset
  <2>3. Cardinality(Lower(c)) # Cardinality(Lower(d))
    BY <1>5, <2>1, FS_Subset
  <2> QED
    BY <1>5, <2>2, <2>3
<1>7. ASSUME NEW c \in S PROVE rank[c] \in 0 .. len - 1
  <2>1. c \notin Lower(c)
    BY <1>2
  <2> HIDE DEF Lower
  <2>2. Cardinality(Lower(c)) <= len /\ Cardinality(Lower(c)) # len
    BY <1>3, <1>5, <2>1, FS_Subset
  <2> QED
    BY <1>4, <1>5, <2>2
<1>8. \A c, d \in S : rank[c] = rank[d] => c = d
  <2>1. ASSUME NEW c \in S, NEW d \in S, c # d PROVE rank[c] # rank[d]
    <3>1. c.key < d.key \/ d.key < c.key
      BY <1>1, <1>2, <2>1
    <3>2. rank[c] \in Int /\ rank[d] \in Int
      <4>1. rank[c] = Cardinality(Lower(c)) /\ rank[d] = Cardinality(Lower(d))
        OBVIOUS
      <4> QED
        BY ONLY <1>5, <4>1
    <3> HIDE DEF rank
    <3> QED
      BY <1>6, <3>1, <3>2
  <2> QED
    BY <2>1
<1>9. \A i \in 0 .. len - 1 : \E c \in S : rank[c] = i
  <2>1. rank = [c \in S |-> rank[c]]
    OBVIOUS
  <2> HIDE DEF rank
  <2>2. rank \in Injection(S, 0 .. len - 1)
    BY <1>7, <1>8, <2>1 DEF Injection, IsInjective
  <2>3. 0 \in Int /\ len - 1 \in Int
    BY <1>4
  <2>4. /\ IsFiniteSet(0 .. len - 1)
      /\ Cardinality(0 .. len - 1) = IF 0 > len - 1 THEN 0 ELSE (len - 1) - 0 + 1
    BY <2>3, FS_Interval
  <2>5. Cardinality(0 .. len - 1) = len
    BY <1>4, <2>4
  <2>6. rank \in Surjection(S, 0 .. len - 1)
    BY <2>2, <2>4, <2>5, FS_Injection
  <2> QED
    BY <2>6 DEF Surjection
<1>10. \A i \in 0 .. len - 1 : holds[i] \in S /\ rank[holds[i]] = i
  BY <1>9
<1>11. \A c \in S : holds[rank[c]] = c
  <2> HIDE DEF holds, rank
  <2> QED
    BY <1>7, <1>8, <1>10
<1>12. \A i, j \in 0 .. len - 1 : i < j => holds[i].key < holds[j].key
  <2> HIDE DEF holds, rank
  <2>1. ASSUME NEW i \in 0 .. len - 1, NEW j \in 0 .. len - 1, i < j
        PROVE  holds[i].key < holds[j].key
    <3>1. /\ holds[i] \in S /\ holds[j] \in S /\ rank[holds[i]] = i /\ rank[holds[j]] = j
          /\ holds[i].key \in Int /\ holds[j].key \in Int
      BY <1>2, <1>10
    <3>2. ~(holds[j].key < holds[i].key)
      BY <1>6, <2>1, <3>1
    <3>3. holds[i].key # holds[j].key
      BY <1>1, <2>1, <3>1
    <3> QED
      BY <3>1, <3>2, <3>3
  <2> QED
    BY <2>1
<1>13. b = [size |-> len, allocation_size |-> len, containers |-> holds,
            keys |-> [i \in 0 .. len - 1 |-> holds[i].key],
            typecodes |-> [i \in 0 .. len - 1 |-> holds[i].type]]
  <2>1. DOMAIN holds = 0 .. len - 1
    OBVIOUS
  <2>2. b = [size |-> len, allocation_size |-> len, containers |-> holds,
             keys |-> [i \in DOMAIN holds |-> holds[i].key],
             typecodes |-> [i \in DOMAIN holds |-> holds[i].type]]
    BY Zenon DEF Keyed!Bitmap, Keyed!Cardinality, Cardinality
  <2> HIDE DEF holds, Lower, len
  <2> QED
    BY <2>1, <2>2
<1> HIDE DEF holds, rank, Lower, len
<1>14. /\ b.size = len /\ Used(b) = 0 .. len - 1
       /\ \A i \in 0 .. len - 1 : /\ b.containers[i] = holds[i] /\ b.keys[i] = holds[i].key
                                /\ b.typecodes[i] = holds[i].type
  BY <1>13 DEF Used
<1>15. Sorted(b, Used(b))
  BY <1>2, <1>10, <1>12, <1>14 DEF Sorted, Holding
<1>16. HeldBy(b, Used(b)) = S
  BY <1>7, <1>10, <1>11, <1>14 DEF HeldBy
<1> QED
  BY <1>1, <1>4, <1>14, <1>15, <1>16

-----------------------------------------------------------------------------
(***************************************************************************)
(* What the operations do to the containers held.                          *)
(***************************************************************************)

LEMMA KeyIsInt == \A c \in Kept : c.key \in EntryKey /\ c.key \in Int
<1>1. EntryKeys \in Nat
  BY EntryAssumption
<1> QED
  BY <1>1 DEF Kept, EntryKey

LEMMA KeysAre ==
  ASSUME NEW a, NEW I, Sorted(a, I)
  PROVE  {a.keys[i] : i \in I} = Keyed!KeysOf(HeldBy(a, I))
BY DEF Sorted, Holding, HeldBy, Keyed!KeysOf

\* All but one place hold all but its container.
LEMMA Without ==
  ASSUME NEW a, NEW I \in SUBSET Int, Sorted(a, I), NEW i \in I
  PROVE  HeldBy(a, I \ {i}) = {e \in HeldBy(a, I) : e.key # a.containers[i].key}
<1>1. ASSUME NEW j \in I, j # i PROVE a.containers[j].key # a.containers[i].key
  <2>1. a.containers[j].key \in Int /\ a.containers[i].key \in Int
    BY KeyIsInt DEF Sorted, Holding
  <2>2. j < i \/ i < j
    BY <1>1
  <2> QED
    BY <2>1, <2>2 DEF Sorted
<1> QED
  BY <1>1 DEF HeldBy

\* The place of a key that is there is the one behind those with smaller keys.
LEMMA FoundAt ==
  ASSUME NEW a, a.size \in Nat, Sorted(a, Used(a)),
         NEW key \in Keyed!KeysOf(HeldBy(a, Used(a)))
  PROVE  /\ key \in Int /\ Keyed!Below(a, key) \in Used(a)
         /\ a.containers[Keyed!Below(a, key)].key = key
<1> DEFINE p == Keyed!Below(a, key)
<1>1. \A i \in Used(a) : a.containers[i].key \in Int
  BY KeyIsInt DEF Sorted, Holding
<1>2. PICK j \in Used(a) : a.containers[j].key = key
  BY DEF Keyed!KeysOf, HeldBy
<1>3. key \in Int
  BY <1>1, <1>2
<1>4. p \in 0 .. a.size /\ \A i \in Used(a) : i < p <=> a.containers[i].key < key
  BY <1>3, BelowIs
<1> HIDE DEF p
<1>5. ~(j < p) /\ j \in 0 .. a.size - 1
  BY <1>2, <1>3, <1>4 DEF Used
<1>6. p \in Used(a) /\ ~(a.containers[p].key < key)
  BY <1>4, <1>5 DEF Used
<1>7. ~(p < j)
  BY <1>2, <1>6 DEF Sorted
<1>8. p = j
  BY <1>4, <1>5, <1>7
<1> QED
  BY <1>2, <1>3, <1>8 DEF p

\* A container of the same key takes the place of another, or one that the other moves
\* to without passing a third.
LEMMA Overlaid ==
  ASSUME NEW a, NEW I \in SUBSET Int, Sorted(a, I), NEW i \in I, NEW k \in Int,
         \A j \in I \ {i} : j # k /\ (j < k => j < i) /\ (k < j => i < j),
         NEW c \in Kept, c.key = a.containers[i].key,
         NEW r, Place(r, k) = <<c.key, c, c.type>>,
         \A j \in I \ {i} : Place(r, j) = Place(a, j)
  PROVE  /\ Sorted(r, (I \ {i}) \union {k})
         /\ HeldBy(r, (I \ {i}) \union {k}) = {e \in HeldBy(a, I) : e.key # c.key} \union {c}
<1> DEFINE J == I \ {i}
<1>1. Sorted(r, J) /\ HeldBy(r, J) = HeldBy(a, J)
  <2>1. J \in SUBSET I /\ \A j \in J : Place(r, j) = Place(a, j)
    OBVIOUS
  <2> HIDE DEF J
  <2> QED
    BY <2>1, Stayed
<1>2. Sorted(r, {k}) /\ HeldBy(r, {k}) = {c} /\ r.containers[k] = c
  BY Single
<1>3. \A j \in J : r.containers[j] = a.containers[j]
  BY DEF Place
<1>4. \A j \in J : /\ j < k => r.containers[j].key < r.containers[k].key
                   /\ k < j => r.containers[k].key < r.containers[j].key
  BY <1>2, <1>3 DEF Sorted
<1>5. Sorted(r, J \union {k}) /\ HeldBy(r, J \union {k}) = HeldBy(r, J) \union HeldBy(r, {k})
  <2> HIDE DEF J
  <2>1. \A j \in J, l \in {k} : /\ j < l => r.containers[j].key < r.containers[l].key
                                /\ l < j => r.containers[l].key < r.containers[j].key
    BY <1>4
  <2> QED
    BY <1>1, <1>2, <2>1, Joined
<1>6. HeldBy(a, J) = {e \in HeldBy(a, I) : e.key # c.key}
  BY Without
<1> QED
  BY <1>1, <1>2, <1>5, <1>6

LEMMA InsertKeeps ==
  ASSUME NEW a, IsEntries(a), Sorted(a, Used(a)),
         NEW c \in Kept, c.key \notin Keyed!KeysOf(HeldBy(a, Used(a))),
         NEW r, r = Keyed!InsertNewKeyValueAt(a, Keyed!Below(a, c.key), c.key, c)
  PROVE  IsEntries(r) /\ Sorted(r, Used(r)) /\ HeldBy(r, Used(r)) = HeldBy(a, Used(a)) \union {c}
<1> DEFINE p == Keyed!Below(a, c.key)
           J == Used(r) \ {p}
           m == [j \in J |-> IF j < p THEN j ELSE j - 1]
<1>1. a.size \in Nat /\ c.key \in Int
  BY KeyIsInt DEF IsEntries
<1>2. p \in 0 .. a.size /\ \A i \in Used(a) : i < p <=> a.containers[i].key < c.key
  BY <1>1, BelowIs
<1>3. r = Keyed!InsertNewKeyValueAt(a, p, c.key, c)
  OBVIOUS
<1> HIDE DEF p
<1>4. /\ IsEntries(r) /\ r.size = a.size + 1
      /\ \A j \in 0 .. a.size :
           Place(r, j) = IF j < p THEN Place(a, j)
                         ELSE IF j = p THEN <<c.key, c, c.type>> ELSE Place(a, j - 1)
  BY <1>2, <1>3, Inserted
<1>5. Used(r) = 0 .. a.size /\ Used(a) = 0 .. a.size - 1 /\ Used(r) = J \union {p}
  BY <1>1, <1>2, <1>4 DEF Used
<1>6. /\ \A j \in J : m[j] \in Used(a) /\ m[j] \in Int
      /\ \A j \in J : j < p => m[j] = j
      /\ \A j \in J : ~(j < p) => m[j] = j - 1 /\ p <= m[j]
  BY <1>1, <1>2, <1>5
<1>7. \A i \in Used(a) : \E j \in J : m[j] = i
  <2> HIDE DEF m
  <2>1. ASSUME NEW i \in Used(a), i < p PROVE i \in J
    BY <1>1, <1>2, <1>5, <2>1
  <2>2. ASSUME NEW i \in Used(a), ~(i < p)
        PROVE  i + 1 \in J /\ ~(i + 1 < p) /\ (i + 1) - 1 = i
    BY <1>1, <1>2, <1>5, <2>2
  <2> HIDE DEF J
  <2> QED
    BY <1>6, <2>1, <2>2
<1>8. \A j \in J : Place(r, j) = Place(a, m[j])
  BY <1>4, <1>5, <1>6
<1>9. Sorted(r, J) /\ HeldBy(r, J) = HeldBy(a, Used(a))
  <2>1. Used(a) \in SUBSET Int /\ J \in SUBSET Int
    BY <1>5
  <2>2. m \in [J -> Used(a)] /\ \A i, j \in J : i < j => m[i] < m[j]
    BY <1>1, <1>2, <1>5
  <2> HIDE DEF J, m
  <2> QED
    BY <1>7, <1>8, <2>1, <2>2, Carried
<1> HIDE DEF J, m
<1>10. Sorted(r, {p}) /\ HeldBy(r, {p}) = {c} /\ r.containers[p] = c
  <2>1. p \in Int /\ Place(r, p) = <<c.key, c, c.type>>
    BY <1>2, <1>4
  <2> QED
    BY ONLY <2>1, c \in Kept, Single
<1>11. \A j \in J, k \in {p} : /\ j < k => r.containers[j].key < r.containers[k].key
                               /\ k < j => r.containers[k].key < r.containers[j].key
  <2>1. \A j \in J : r.containers[j] = a.containers[m[j]] /\ m[j] \in Used(a)
    BY <1>6, <1>8 DEF Place
  <2>2. \A i \in Used(a) : a.containers[i].key \in Int /\ a.containers[i].key # c.key
    BY KeyIsInt DEF Sorted, Holding, Keyed!KeysOf, HeldBy
  <2>3. ASSUME NEW j \in J, j < p PROVE r.containers[j].key < c.key
    BY <1>2, <1>6, <2>1, <2>3
  <2>4. ASSUME NEW j \in J, p < j PROVE c.key < r.containers[j].key
    <3>1. m[j] \in Used(a) /\ ~(m[j] < p) /\ m[j] \in Int
      <4>1. J \subseteq Int
        BY <1>5 DEF J
      <4> QED
        BY <1>2, <1>6, <2>4, <4>1
    <3>2. ~(a.containers[m[j]].key < c.key)
      BY <1>2, <3>1
    <3> QED
      BY <1>1, <2>1, <2>2, <3>1, <3>2
  <2> QED
    BY <1>10, <2>3, <2>4
<1>12. Sorted(r, J \union {p}) /\ HeldBy(r, J \union {p}) = HeldBy(r, J) \union HeldBy(r, {p})
  BY <1>9, <1>10, <1>11, Joined
<1> QED
  BY <1>4, <1>5, <1>9, <1>10, <1>12

LEMMA RemoveKeeps ==
  ASSUME NEW a, IsEntries(a), Sorted(a, Used(a)), NEW key \in Keyed!KeysOf(HeldBy(a, Used(a))),
         NEW r, r = Keyed!RemoveAtIndex(a, Keyed!Below(a, key))
  PROVE  /\ IsEntries(r) /\ Sorted(r, Used(r))
         /\ HeldBy(r, Used(r)) = {e \in HeldBy(a, Used(a)) : e.key # key}
<1> DEFINE p == Keyed!Below(a, key)
           I == Used(a) \ {p}
           m == [j \in Used(r) |-> IF j < p THEN j ELSE j + 1]
<1>1. a.size \in Nat
  BY DEF IsEntries
<1>2. p \in Used(a) /\ a.containers[p].key = key
  BY <1>1, FoundAt
<1>3. r = Keyed!RemoveAtIndex(a, p)
  OBVIOUS
<1> HIDE DEF p
<1>4. p \in 0 .. a.size - 1
  BY <1>2 DEF Used
<1>5. /\ IsEntries(r) /\ r.size = a.size - 1
      /\ \A j \in 0 .. a.size - 2 : Place(r, j) = IF j < p THEN Place(a, j) ELSE Place(a, j + 1)
  BY <1>3, <1>4, Removed
<1>6. Used(r) = 0 .. a.size - 2 /\ Used(a) = 0 .. a.size - 1
  BY <1>1, <1>5 DEF Used
<1>7. Sorted(a, I) /\ I \in SUBSET Int /\ Used(r) \in SUBSET Int /\ Used(a) \in SUBSET Int
  BY <1>6 DEF Sorted
<1>8. /\ m \in [Used(r) -> I] /\ \A i, j \in Used(r) : i < j => m[i] < m[j]
      /\ \A j \in Used(r) : Place(r, j) = Place(a, m[j])
  BY <1>1, <1>4, <1>5, <1>6
<1>9. \A i \in I : \E j \in Used(r) : m[j] = i
  <2>1. \A j \in Used(r) : m[j] = IF j < p THEN j ELSE j + 1
    OBVIOUS
  <2> HIDE DEF m
  <2>2. ASSUME NEW i \in I, i < p PROVE i \in Used(r)
    BY <1>1, <1>4, <1>6, <2>2
  <2>3. ASSUME NEW i \in I, ~(i < p) PROVE i - 1 \in Used(r) /\ ~(i - 1 < p) /\ (i - 1) + 1 = i
    BY <1>1, <1>4, <1>6, <2>3
  <2> HIDE DEF I
  <2> QED
    BY <2>1, <2>2, <2>3
<1>10. HeldBy(a, I) = {e \in HeldBy(a, Used(a)) : e.key # key}
  BY <1>2, <1>7, Without
<1> HIDE DEF I, m
<1>11. Sorted(r, Used(r)) /\ HeldBy(r, Used(r)) = HeldBy(a, I)
  BY <1>7, <1>8, <1>9, Carried
<1> QED
  BY <1>5, <1>10, <1>11

LEMMA ReplaceKeeps ==
  ASSUME NEW a, IsEntries(a), Sorted(a, Used(a)),
         NEW c \in Kept, c.key \in Keyed!KeysOf(HeldBy(a, Used(a))),
         NEW r, r = Keyed!Store(a, Keyed!Below(a, c.key), c.key, c, c.type)
  PROVE  /\ IsEntries(r) /\ Sorted(r, Used(r))
         /\ HeldBy(r, Used(r)) = {e \in HeldBy(a, Used(a)) : e.key # c.key} \union {c}
<1> DEFINE p == Keyed!Below(a, c.key)
<1>1. a.size \in Nat /\ a.allocation_size \in Nat /\ a.size <= a.allocation_size
  BY DEF IsEntries
<1>2. p \in Used(a) /\ a.containers[p].key = c.key
  BY <1>1, FoundAt
<1>3. r = Keyed!Store(a, p, c.key, c, c.type)
  OBVIOUS
<1> HIDE DEF p
<1>4. /\ p \in 0 .. a.allocation_size - 1 /\ p \in Int
      /\ \A j \in Used(a) : j \in 0 .. a.allocation_size - 1
  BY <1>1, <1>2 DEF Used
<1>5. /\ IsEntries(r) /\ r.size = a.size
      /\ Place(r, p) = <<c.key, c, c.type>> /\ \A j \in Used(a) \ {p} : Place(r, j) = Place(a, j)
  BY <1>3, <1>4, StoredAt
<1>6. Used(a) \in SUBSET Int /\ Used(r) = Used(a) /\ (Used(a) \ {p}) \union {p} = Used(a)
  BY <1>2, <1>5 DEF Used
<1> QED
  BY <1>2, <1>4, <1>5, <1>6, Overlaid

\* A range of as many places from s on as from f on below z.
Shift(s, f, z) == [j \in s .. s + (z - f) - 1 |-> j - s + f]

LEMMA Shifted ==
  ASSUME NEW s \in Nat, NEW f \in Nat, NEW z \in Nat, f < z
  PROVE  /\ s .. s + (z - f) - 1 \in SUBSET Int
         /\ Shift(s, f, z) \in [s .. s + (z - f) - 1 -> f .. z - 1]
         /\ \A j \in s .. s + (z - f) - 1 : Shift(s, f, z)[j] = j - s + f
         /\ \A i, j \in s .. s + (z - f) - 1 : i < j => Shift(s, f, z)[i] < Shift(s, f, z)[j]
         /\ \A k \in f .. z - 1 : \E j \in s .. s + (z - f) - 1 : Shift(s, f, z)[j] = k
<1> DEFINE J == s .. s + (z - f) - 1
           m == Shift(s, f, z)
<1>1. J \in SUBSET Int /\ m \in [J -> f .. z - 1] /\ \A j \in J : m[j] = j - s + f
  BY DEF Shift
<1>2. \A i, j \in J : i < j => m[i] < m[j]
  BY DEF Shift
<1>3. ASSUME NEW k \in f .. z - 1 PROVE \E j \in J : m[j] = k
  <2>1. k - f + s \in J /\ (k - f + s) - s + f = k
    OBVIOUS
  <2> QED
    BY ONLY <1>1, <2>1
<1> QED
  BY <1>1, <1>2, <1>3

\* What is left of another bitmap from a place on, all above what is there.
LEMMA RestKeeps ==
  ASSUME NEW a, IsEntries(a), Sorted(a, Used(a)), NEW S \in Sources, NEW b, b = Keyed!Bitmap(S),
         NEW first \in Nat, first < b.size,
         \A k \in Used(b) :
           k >= first <=> \A e \in HeldBy(a, Used(a)) : e.key < b.containers[k].key,
         NEW r, r = Keyed!AppendCopyRange(a, b, first, b.size)
  PROVE  /\ IsEntries(r) /\ Sorted(r, Used(r))
         /\ HeldBy(r, Used(r)) = HeldBy(a, Used(a))
              \union {c \in S : \A e \in HeldBy(a, Used(a)) : e.key < c.key}
         /\ {b.keys[k] : k \in first .. b.size - 1}
              = Keyed!KeysOf({c \in S : \A e \in HeldBy(a, Used(a)) : e.key < c.key})
<1>1. a.size \in Nat /\ EntryKeys \in Nat
  BY EntryAssumption DEF IsEntries
<1>2. b.size \in Nat /\ b.size < EntryKeys /\ Sorted(b, Used(b)) /\ HeldBy(b, Used(b)) = S
  BY BitmapIs
<1>3. PICK size \in Nat, end \in 0 .. EntryKeys - 1 : size = a.size /\ end = b.size
  BY <1>1, <1>2
<1> DEFINE J == size .. size + (end - first) - 1
           K == first .. end - 1
           m == Shift(size, first, end)
           Above == {c \in S : \A e \in HeldBy(a, Used(a)) : e.key < c.key}
<1>4. /\ IsEntries(r) /\ r.size = size + (end - first)
      /\ \A j \in 0 .. size - 1 : Place(r, j) = Place(a, j)
      /\ \A j \in size .. size + (end - first) - 1 : Place(r, j) = Place(b, j - size + first)
  <2>1. first \in 0 .. end /\ r = Keyed!AppendCopyRange(a, b, first, end)
    BY <1>3
  <2>2. /\ IsEntries(r) /\ r.size = a.size + (end - first)
        /\ \A j \in 0 .. a.size - 1 : Place(r, j) = Place(a, j)
        /\ \A j \in a.size .. a.size + (end - first) - 1 :
             Place(r, j) = Place(b, j - a.size + first)
    BY <2>1, RangeAppended
  <2> QED
    BY <1>3, <2>2
<1>5. /\ Used(r) = Used(a) \union J /\ Used(a) \in SUBSET Int /\ K \subseteq Used(b)
      /\ \A i \in Used(a), j \in J : i < j
  <2>1. Used(r) = 0 .. size + (end - first) - 1 /\ Used(a) = 0 .. size - 1
        /\ Used(b) = 0 .. end - 1 /\ size \in Nat /\ end \in Nat /\ first \in Nat /\ first < end
    BY <1>3, <1>4 DEF Used
  <2>2. Used(r) = Used(a) \union J
    BY ONLY <2>1
  <2>3. Used(a) \in SUBSET Int /\ K \subseteq Used(b)
    BY ONLY <2>1
  <2>4. \A i \in Used(a), j \in J : i < j
    BY ONLY <2>1
  <2> QED
    BY <2>2, <2>3, <2>4
<1>6. Sorted(r, Used(a)) /\ HeldBy(r, Used(a)) = HeldBy(a, Used(a))
  <2>1. \A j \in Used(a) : Place(r, j) = Place(a, j)
    BY <1>3, <1>4 DEF Used
  <2> QED
    BY <1>5, <2>1, Stayed
<1>7. /\ J \in SUBSET Int /\ K \in SUBSET Int /\ m \in [J -> K]
      /\ \A j \in J : m[j] = j - size + first
      /\ \A i, j \in J : i < j => m[i] < m[j]
      /\ \A k \in K : \E j \in J : m[j] = k
  <2>1. first < end /\ size \in Nat /\ end \in Nat /\ K \in SUBSET Int
    BY <1>3
  <2>2. J \in SUBSET Int /\ m \in [J -> K]
    BY <2>1, Shifted, Zenon
  <2>3. \A j \in J : m[j] = j - size + first
    BY <2>1, Shifted, Zenon
  <2>4. \A i, j \in J : i < j => m[i] < m[j]
    BY <2>1, Shifted, Zenon
  <2>5. ASSUME NEW k \in K PROVE \E j \in J : m[j] = k
    <3>1. k - first + size \in J /\ (k - first + size) - size + first = k
      BY ONLY <2>1, k \in K
    <3> QED
      BY ONLY <2>3, <3>1
  <2> QED
    BY <2>1, <2>2, <2>3, <2>4, <2>5
<1>8. \A j \in J : Place(r, j) = Place(b, m[j])
  <2> HIDE DEF m
  <2> QED
    BY <1>4, <1>7
<1>9. Sorted(b, K)
  BY <1>2, <1>5 DEF Sorted
<1> HIDE DEF J, m
<1>10. Sorted(r, J) /\ HeldBy(r, J) = HeldBy(b, K)
  <2> HIDE DEF K
  <2> QED
    BY <1>7, <1>8, <1>9, Carried
<1>11. HeldBy(b, K) = Above
  <2>1. ASSUME NEW k \in Used(b) PROVE k \in K <=> k >= first
    BY <1>3 DEF Used
  <2>2. ASSUME NEW k \in K PROVE b.containers[k] \in Above
    <3>1. k \in Used(b) /\ k >= first
      BY <1>5, <2>1, <2>2
    <3> QED
      BY <1>2, <3>1 DEF HeldBy
  <2>3. ASSUME NEW c \in Above PROVE \E k \in K : c = b.containers[k]
    <3>1. PICK k \in Used(b) : c = b.containers[k]
      BY <1>2 DEF HeldBy
    <3>2. k >= first
      BY <3>1
    <3>3. k \in K
      BY <2>1, <3>1, <3>2
    <3> QED
      BY <3>1, <3>3
  <2> HIDE DEF K, Above
  <2> QED
    BY <2>2, <2>3 DEF HeldBy
<1>12. \A i \in Used(a), j \in J : /\ i < j => r.containers[i].key < r.containers[j].key
                                   /\ j < i => r.containers[j].key < r.containers[i].key
  <2>1. ASSUME NEW i \in Used(a), NEW j \in J PROVE r.containers[i].key < r.containers[j].key
    <3>1. r.containers[i] \in HeldBy(a, Used(a)) /\ r.containers[j] \in Above
      BY <1>6, <1>10, <1>11 DEF HeldBy
    <3> QED
      BY <3>1
  <2>2. \A i \in Used(a), j \in J : ~(j < i)
    BY <1>3, <1>5 DEF Used, J
  <2> QED
    BY <2>1, <2>2
<1>13. Sorted(r, Used(r)) /\ HeldBy(r, Used(r)) = HeldBy(r, Used(a)) \union HeldBy(r, J)
  <2>1. Used(r) = Used(a) \union J
    BY <1>5
  <2> QED
    BY <1>6, <1>10, <1>12, <2>1, Joined
<1>14. {b.keys[k] : k \in K} = Keyed!KeysOf(Above)
  <2> HIDE DEF K
  <2>1. {b.keys[k] : k \in K} = Keyed!KeysOf(HeldBy(b, K))
    BY <1>9, KeysAre
  <2> QED
    BY ONLY <1>11, <2>1
<1> QED
  BY <1>3, <1>4, <1>6, <1>10, <1>11, <1>13, <1>14

\* The containers of another bitmap below a key.
LEMMA UntilKeeps ==
  ASSUME NEW a, IsEntries(a), a.size = 0, NEW S \in Sources, NEW b, b = Keyed!Bitmap(S),
         NEW key \in Int, NEW r, r = Keyed!AppendEach(a, b, Keyed!Below(b, key))
  PROVE  IsEntries(r) /\ Sorted(r, Used(r)) /\ HeldBy(r, Used(r)) = {c \in S : c.key < key}
<1> DEFINE p == Keyed!Below(b, key)
<1>1. b.size \in Nat /\ Sorted(b, Used(b)) /\ HeldBy(b, Used(b)) = S
  BY BitmapIs
<1>2. p \in 0 .. b.size /\ \A i \in Used(b) : i < p <=> b.containers[i].key < key
  BY <1>1, BelowIs
<1>3. r = Keyed!AppendEach(a, b, p)
  OBVIOUS
<1> HIDE DEF p
<1>4. IsEntries(r) /\ r.size = p /\ \A j \in 0 .. p - 1 : Place(r, j) = Place(b, j)
  <2>1. p \in Nat
    BY <1>1, <1>2
  <2> QED
    BY <1>3, <2>1, EachAppended
<1>5. /\ Used(b) \in SUBSET Int /\ Used(r) \in SUBSET Used(b)
      /\ \A j \in Used(r) : Place(r, j) = Place(b, j)
      /\ \A j \in Used(b) : j \in Used(r) <=> j < p
  BY <1>1, <1>2, <1>4 DEF Used
<1>6. Sorted(r, Used(r)) /\ HeldBy(r, Used(r)) = HeldBy(b, Used(r))
  BY <1>1, <1>5, Stayed
<1>7. HeldBy(b, Used(r)) = {c \in S : c.key < key}
  <2>1. ASSUME NEW j \in Used(r) PROVE b.containers[j] \in S /\ b.containers[j].key < key
    BY <1>1, <1>2, <1>5 DEF HeldBy
  <2>2. ASSUME NEW c \in S, c.key < key PROVE \E j \in Used(r) : c = b.containers[j]
    BY <1>1, <1>2, <1>5, <2>2 DEF HeldBy
  <2> QED
    BY <2>1, <2>2 DEF HeldBy
<1> QED
  BY <1>4, <1>6, <1>7

\* An array with the places of another holds what that holds.
LEMMA SameKeeps ==
  ASSUME NEW a, a.size \in Nat, Sorted(a, Used(a)), NEW r, r.size = a.size,
         \A j \in 0 .. a.size - 1 : Place(r, j) = Place(a, j)
  PROVE  Sorted(r, Used(r)) /\ HeldBy(r, Used(r)) = HeldBy(a, Used(a))
<1>1. /\ Used(r) = Used(a) /\ Used(a) \in SUBSET Int /\ Used(a) \in SUBSET Used(a)
      /\ \A j \in Used(a) : Place(r, j) = Place(a, j)
  BY DEF Used
<1> QED
  BY <1>1, Stayed

-----------------------------------------------------------------------------
(***************************************************************************)
(* The inductive invariant of the array of containers.  Between two turns  *)
(* of an operation in place the places kept and those still to be looked   *)
(* at count, each holds a container of its own, and these are the ones     *)
(* that are allocated.                                                     *)
(***************************************************************************)

\* The places that count.
Counted(a, s) == (0 .. s.kept - 1) \union (s.next .. a.size - 1)

\* Nothing is kept that has not been looked at.
IsSieve(a, s) ==
  /\ s \in [op : {"none", "and", "andnot"}, kept : Nat, next : Nat]
  /\ s.kept <= s.next /\ s.next <= a.size
  /\ s.op = "none" => s.next = 0

HeapOf(E) == [k \in EntryKey |-> IF k \in Keyed!KeysOf(E) THEN 1 ELSE 0]

ArrayState(a, s, h) ==
  /\ IsEntries(a) /\ IsSieve(a, s)
  /\ Sorted(a, Counted(a, s)) /\ h = HeapOf(HeldBy(a, Counted(a, s)))

Contents == HeldBy(ra, Counted(ra, sieve))

KeyedInv == active = "entries" => ArrayState(ra, sieve, heap)

\* Allocations for new keys and frees of keys that go leave the heap right.
LEMMA Accounted ==
  ASSUME NEW E, heap = HeapOf(E), NEW made, NEW freed, Keyed!Account(made, freed),
         freed \subseteq Keyed!KeysOf(E), made \intersect Keyed!KeysOf(E) \subseteq freed,
         NEW F, Keyed!KeysOf(F) = made \union (Keyed!KeysOf(E) \ freed)
  PROVE  heap' = HeapOf(F)
<1>1. heap' = [k \in EntryKey |-> heap[k] + (IF k \in made THEN 1 ELSE 0)
                                          - (IF k \in freed THEN 1 ELSE 0)]
  BY DEF Keyed!Account, Keyed!Key, EntryKey
<1>2. ASSUME NEW k \in EntryKey
      PROVE  heap[k] + (IF k \in made THEN 1 ELSE 0) - (IF k \in freed THEN 1 ELSE 0)
               = IF k \in Keyed!KeysOf(F) THEN 1 ELSE 0
  <2>1. heap[k] = IF k \in Keyed!KeysOf(E) THEN 1 ELSE 0
    BY DEF HeapOf
  <2> QED
    BY <2>1
<1> QED
  BY <1>1, <1>2 DEF HeapOf

\* Between two calls all places in use count.
LEMMA AllCounted ==
  ASSUME NEW a, NEW s, IsEntries(a), IsSieve(a, s), s.op = "none"
  PROVE  Counted(a, s) = Used(a)
<1>1. s.kept = 0 /\ s.next = 0
  BY DEF IsSieve
<1> QED
  BY <1>1 DEF Counted, Used

LEMMA IdleState ==
  ASSUME ArrayState(ra, sieve, heap), Keyed!Idle
  PROVE  /\ IsEntries(ra) /\ ra.size \in Nat /\ Sorted(ra, Used(ra))
         /\ Contents = HeldBy(ra, Used(ra)) /\ heap = HeapOf(Contents)
         /\ Keyed!Keys = Keyed!KeysOf(Contents)
<1>1. /\ IsEntries(ra) /\ Counted(ra, sieve) = Used(ra)
      /\ Sorted(ra, Counted(ra, sieve)) /\ heap = HeapOf(HeldBy(ra, Counted(ra, sieve)))
  BY AllCounted DEF ArrayState, Keyed!Idle
<1>2. Keyed!Keys = Keyed!KeysOf(HeldBy(ra, Used(ra)))
  BY <1>1, KeysAre DEF Keyed!Keys, Used
<1> QED
  BY <1>1, <1>2 DEF Contents, IsEntries

\* A call that is not in place leaves an array of other containers.
LEMMA Settled ==
  ASSUME ArrayState(ra, sieve, heap), Keyed!Idle, IsEntries(ra'), Sorted(ra', Used(ra')),
         heap' = HeapOf(HeldBy(ra', Used(ra')))
  PROVE  ArrayState(ra', sieve', heap') /\ Contents' = HeldBy(ra', Used(ra'))
<1>1. sieve' = sieve /\ sieve.op = "none" /\ IsSieve(ra, sieve)
  BY DEF Keyed!Idle, ArrayState
<1>2. IsSieve(ra', sieve')
  <2>1. ra'.size \in Nat
    BY DEF IsEntries
  <2> QED
    BY <1>1, <2>1 DEF IsSieve
<1>3. Counted(ra', sieve') = Used(ra')
  BY <1>1, <1>2, AllCounted
<1> QED
  BY <1>2, <1>3 DEF ArrayState, Contents

-----------------------------------------------------------------------------
(***************************************************************************)
(* The calls.                                                              *)
(***************************************************************************)

\* The containers of the other keys.
Rest(key) == {e \in Contents : e.key # key}

LEMMA InsertHolds ==
  ASSUME ArrayState(ra, sieve, heap), NEW c \in Kept, Keyed!InsertKey(c)
  PROVE  ArrayState(ra', sieve', heap') /\ Contents' = Rest(c.key) \union {c}
<1>1. /\ Keyed!Idle /\ c.key \notin Keyed!Keys /\ Keyed!Account({c.key}, {})
      /\ ra' = Keyed!InsertNewKeyValueAt(ra, Keyed!Below(ra, c.key), c.key, c)
  BY DEF Keyed!InsertKey
<1>2. /\ IsEntries(ra) /\ Sorted(ra, Used(ra)) /\ Contents = HeldBy(ra, Used(ra))
      /\ heap = HeapOf(Contents) /\ c.key \notin Keyed!KeysOf(Contents)
  BY <1>1, IdleState
<1>3. IsEntries(ra') /\ Sorted(ra', Used(ra')) /\ HeldBy(ra', Used(ra')) = Contents \union {c}
  BY <1>1, <1>2, InsertKeeps
<1>4. Keyed!KeysOf(Contents \union {c}) = {c.key} \union (Keyed!KeysOf(Contents) \ {})
  BY DEF Keyed!KeysOf
<1>5. heap' = HeapOf(Contents \union {c})
  <2>1. {} \subseteq Keyed!KeysOf(Contents) /\ {c.key} \intersect Keyed!KeysOf(Contents) \subseteq {}
    BY <1>2
  <2> QED
    BY <1>1, <1>2, <1>4, <2>1, Accounted, Zenon
<1>6. Rest(c.key) = Contents
  BY <1>2 DEF Keyed!KeysOf, Rest
<1> QED
  BY <1>1, <1>3, <1>5, <1>6, Settled

LEMMA RemoveHolds ==
  ASSUME ArrayState(ra, sieve, heap), NEW key, Keyed!RemoveKey(key)
  PROVE  ArrayState(ra', sieve', heap') /\ Contents' = Rest(key)
<1>1. /\ Keyed!Idle /\ key \in Keyed!Keys /\ Keyed!Account({}, {key})
      /\ ra' = Keyed!RemoveAtIndex(ra, Keyed!Below(ra, key))
  BY DEF Keyed!RemoveKey
<1>2. /\ IsEntries(ra) /\ Sorted(ra, Used(ra)) /\ Contents = HeldBy(ra, Used(ra))
      /\ heap = HeapOf(Contents) /\ key \in Keyed!KeysOf(Contents)
  BY <1>1, IdleState
<1>3. IsEntries(ra') /\ Sorted(ra', Used(ra')) /\ HeldBy(ra', Used(ra')) = Rest(key)
  BY <1>1, <1>2, RemoveKeeps DEF Rest
<1>4. Keyed!KeysOf(Rest(key)) = {} \union (Keyed!KeysOf(Contents) \ {key})
  BY DEF Keyed!KeysOf, Rest
<1>5. heap' = HeapOf(Rest(key))
  BY <1>1, <1>2, <1>4, Accounted
<1> QED
  BY <1>1, <1>3, <1>5, Settled

LEMMA ReplaceHolds ==
  ASSUME ArrayState(ra, sieve, heap), NEW c \in Kept, Keyed!ReplaceContainer(c)
  PROVE  ArrayState(ra', sieve', heap') /\ Contents' = Rest(c.key) \union {c}
<1>1. /\ Keyed!Idle /\ c.key \in Keyed!Keys /\ Keyed!Account({c.key}, {c.key})
      /\ ra' = Keyed!Store(ra, Keyed!Below(ra, c.key), c.key, c, c.type)
  BY DEF Keyed!ReplaceContainer
<1>2. /\ IsEntries(ra) /\ Sorted(ra, Used(ra)) /\ Contents = HeldBy(ra, Used(ra))
      /\ heap = HeapOf(Contents) /\ c.key \in Keyed!KeysOf(Contents)
  BY <1>1, IdleState
<1>3. /\ IsEntries(ra') /\ Sorted(ra', Used(ra'))
      /\ HeldBy(ra', Used(ra')) = Rest(c.key) \union {c}
  BY <1>1, <1>2, ReplaceKeeps DEF Rest
<1>4. Keyed!KeysOf(Rest(c.key) \union {c}) = {c.key} \union (Keyed!KeysOf(Contents) \ {c.key})
  BY DEF Keyed!KeysOf, Rest
<1>5. heap' = HeapOf(Rest(c.key) \union {c})
  BY <1>1, <1>2, <1>4, Accounted
<1> QED
  BY <1>1, <1>3, <1>5, Settled

\* What a bitmap is replaced by, when its containers are freed and others allocated.
LEMMA ReplacedHolds ==
  ASSUME ArrayState(ra, sieve, heap), Keyed!Idle, NEW F, IsEntries(ra'), Sorted(ra', Used(ra')),
         HeldBy(ra', Used(ra')) = F, Keyed!Account(Keyed!KeysOf(F), Keyed!Keys)
  PROVE  ArrayState(ra', sieve', heap') /\ Contents' = F
<1>1. heap = HeapOf(Contents) /\ Keyed!Keys = Keyed!KeysOf(Contents)
  BY IdleState
<1>2. heap' = HeapOf(F)
  BY <1>1, Accounted
<1> QED
  BY <1>2, Settled

LEMMA OverwriteHolds ==
  ASSUME ArrayState(ra, sieve, heap), NEW S \in Sources, Keyed!Overwrite(S)
  PROVE  ArrayState(ra', sieve', heap') /\ Contents' = S
<1> DEFINE b == Keyed!Bitmap(S)
<1>1. /\ Keyed!Idle /\ Keyed!Account(Keyed!KeysOf(S), Keyed!Keys)
      /\ ra' = Keyed!Overwritten(ra, b)
  BY DEF Keyed!Overwrite
<1>2. b.size \in Nat /\ Sorted(b, Used(b)) /\ HeldBy(b, Used(b)) = S
  BY BitmapIs
<1> HIDE DEF b
<1>3. IsEntries(ra') /\ ra'.size = b.size /\ \A j \in 0 .. b.size - 1 : Place(ra', j) = Place(b, j)
  BY <1>1, <1>2, IdleState, OverwrittenIs
<1>4. Sorted(ra', Used(ra')) /\ HeldBy(ra', Used(ra')) = S
  BY <1>2, <1>3, SameKeeps
<1> QED
  BY <1>1, <1>3, <1>4, ReplacedHolds

LEMMA DeserializeHolds ==
  ASSUME ArrayState(ra, sieve, heap), NEW S \in Sources, Keyed!Deserialize(S)
  PROVE  ArrayState(ra', sieve', heap') /\ Contents' = S
<1> DEFINE b == Keyed!Bitmap(S)
<1>1. Keyed!Idle /\ Keyed!Account(Keyed!KeysOf(S), Keyed!Keys) /\ ra' = Keyed!Copy(b)
  BY DEF Keyed!Deserialize
<1>2. b.size \in Nat /\ Sorted(b, Used(b)) /\ HeldBy(b, Used(b)) = S
  BY BitmapIs
<1> HIDE DEF b
<1>3. IsEntries(ra') /\ ra'.size = b.size /\ \A j \in 0 .. b.size - 1 : Place(ra', j) = Place(b, j)
  BY <1>1, <1>2, CopyIs
<1>4. Sorted(ra', Used(ra')) /\ HeldBy(ra', Used(ra')) = S
  BY <1>2, <1>3, SameKeeps
<1> QED
  BY <1>1, <1>3, <1>4, ReplacedHolds

LEMMA CopyAndFreeHolds ==
  ASSUME ArrayState(ra, sieve, heap), Keyed!CopyAndFree
  PROVE  ArrayState(ra', sieve', heap') /\ Contents' = Contents
<1>1. Keyed!Idle /\ Keyed!Account(Keyed!Keys, Keyed!Keys) /\ ra' = Keyed!Copy(ra)
  BY DEF Keyed!CopyAndFree
<1>2. /\ ra.size \in Nat /\ Sorted(ra, Used(ra)) /\ Contents = HeldBy(ra, Used(ra))
      /\ Keyed!Keys = Keyed!KeysOf(Contents)
  BY <1>1, IdleState
<1>3. /\ IsEntries(ra') /\ ra'.size = ra.size
      /\ \A j \in 0 .. ra.size - 1 : Place(ra', j) = Place(ra, j)
  BY <1>1, <1>2, CopyIs
<1>4. Sorted(ra', Used(ra')) /\ HeldBy(ra', Used(ra')) = Contents
  BY <1>2, <1>3, SameKeeps
<1> QED
  BY <1>1, <1>2, <1>3, <1>4, ReplacedHolds

LEMMA CreateHolds ==
  ASSUME ArrayState(ra, sieve, heap), NEW capacity \in Nat, Keyed!Create(capacity)
  PROVE  ArrayState(ra', sieve', heap')
<1>1. Keyed!Idle /\ Keyed!Account({}, Keyed!Keys) /\ ra' = Keyed!InitWithCapacity(capacity)
  BY DEF Keyed!Create
<1>2. IsEntries(ra') /\ ra'.size = 0
  BY <1>1, Started
<1>3. Used(ra') = {}
  BY <1>2 DEF Used
<1>4. Sorted(ra', Used(ra')) /\ HeldBy(ra', Used(ra')) = {} /\ Keyed!KeysOf({}) = {}
  BY <1>3 DEF Sorted, HeldBy, Keyed!KeysOf
<1> QED
  BY <1>1, <1>2, <1>4, ReplacedHolds

LEMMA ShrinkHolds ==
  ASSUME ArrayState(ra, sieve, heap), Keyed!ShrinkToFit
  PROVE  ArrayState(ra', sieve', heap') /\ Contents' = Contents
<1>1. Keyed!Idle /\ heap' = heap /\ ra' = Keyed!ReallocArray(ra, ra.size)
  BY DEF Keyed!ShrinkToFit
<1>2. /\ ra.size \in Nat /\ Sorted(ra, Used(ra)) /\ Contents = HeldBy(ra, Used(ra))
      /\ heap = HeapOf(Contents)
  BY <1>1, IdleState
<1>3. /\ IsEntries(ra') /\ ra'.size = ra.size
      /\ \A i \in 0 .. ra.size - 1 : Place(ra', i) = Place(ra, i)
  BY <1>1, <1>2, Reallocated
<1>4. Sorted(ra', Used(ra')) /\ HeldBy(ra', Used(ra')) = Contents
  BY <1>2, <1>3, SameKeeps
<1> QED
  BY <1>1, <1>2, <1>3, <1>4, Settled

LEMMA UntilHolds ==
  ASSUME ArrayState(ra, sieve, heap), NEW S \in Sources, NEW key \in Int,
         Keyed!AppendUntil(S, key)
  PROVE  ArrayState(ra', sieve', heap') /\ Contents' = {c \in S : c.key < key}
<1> DEFINE b == Keyed!Bitmap(S)
           F == {c \in S : c.key < key}
<1>1. /\ Keyed!Idle /\ ra.size = 0 /\ Keyed!Account({k \in Keyed!KeysOf(S) : k < key}, {})
      /\ ra' = Keyed!AppendEach(ra, b, Keyed!Below(b, key))
  BY DEF Keyed!AppendUntil
<1>2. IsEntries(ra) /\ Contents = HeldBy(ra, Used(ra)) /\ Keyed!Keys = Keyed!KeysOf(Contents)
  BY <1>1, IdleState
<1>3. Keyed!Keys = {}
  BY <1>1 DEF Keyed!Keys
<1>4. IsEntries(ra') /\ Sorted(ra', Used(ra')) /\ HeldBy(ra', Used(ra')) = F
  <2> HIDE DEF b
  <2>1. b = Keyed!Bitmap(S)
    BY DEF b
  <2> QED
    BY <1>1, <1>2, <2>1, UntilKeeps
<1>5. Keyed!KeysOf(F) = {k \in Keyed!KeysOf(S) : k < key}
  BY DEF Keyed!KeysOf
<1> HIDE DEF F
<1>6. Keyed!Account(Keyed!KeysOf(F), Keyed!Keys)
  BY <1>1, <1>3, <1>5
<1> QED
  BY <1>1, <1>4, <1>6, ReplacedHolds DEF F

\* The largest key is the last one.
LEMMA MaxIs ==
  ASSUME NEW a, a.size \in Nat \ {0}, Sorted(a, Used(a)),
         NEW K, K = Keyed!KeysOf(HeldBy(a, Used(a)))
  PROVE  /\ Keyed!Max(K) \in K /\ Keyed!Max(K) \in Int
         /\ \A k \in K : k \in Int /\ k <= Keyed!Max(K)
<1> DEFINE l == a.size - 1
<1>1. l \in Used(a) /\ \A i \in Used(a) : i = l \/ i < l
  BY DEF Used
<1> HIDE DEF l
<1>2. \A i \in Used(a) : a.containers[i].key \in Int
  BY KeyIsInt DEF Sorted, Holding
<1>3. \A k \in K : \E i \in Used(a) : k = a.containers[i].key
  BY DEF Keyed!KeysOf, HeldBy
<1>4. \A i \in Used(a) : a.containers[i].key \in K
  BY DEF Keyed!KeysOf, HeldBy
<1>5. \A i \in Used(a) : a.containers[i].key <= a.containers[l].key
  BY <1>1, <1>2 DEF Sorted
<1>6. \E x \in K : \A y \in K : x >= y
  <2>1. \A y \in K : a.containers[l].key >= y
    BY <1>1, <1>2, <1>3, <1>5
  <2> QED
    BY <1>1, <1>4, <2>1
<1>7. \A k \in K : k \in Int
  BY <1>2, <1>3
<1>8. Keyed!Max(K) \in K /\ \A y \in K : Keyed!Max(K) >= y
  BY <1>6 DEF Keyed!Max
<1> QED
  BY <1>7, <1>8

LEMMA RestHolds ==
  ASSUME ArrayState(ra, sieve, heap), NEW S \in Sources, Keyed!AppendRest(S)
  PROVE  /\ ArrayState(ra', sieve', heap')
         /\ Contents' = Contents \union {c \in S : \A e \in Contents : e.key < c.key}
<1> DEFINE b == Keyed!Bitmap(S)
           first == IF ra.size = 0 THEN 0 ELSE Keyed!Below(b, Keyed!Max(Keyed!Keys) + 1)
           Above == {c \in S : \A e \in Contents : e.key < c.key}
<1>1. /\ Keyed!Idle /\ first < b.size /\ ra' = Keyed!AppendCopyRange(ra, b, first, b.size)
      /\ Keyed!Account({b.keys[i] : i \in first .. b.size - 1}, {})
  BY DEF Keyed!AppendRest
<1>2. /\ IsEntries(ra) /\ ra.size \in Nat /\ Sorted(ra, Used(ra)) /\ Contents = HeldBy(ra, Used(ra))
      /\ heap = HeapOf(Contents) /\ Keyed!Keys = Keyed!KeysOf(Contents)
  BY <1>1, IdleState
<1>3. b.size \in Nat /\ Sorted(b, Used(b)) /\ HeldBy(b, Used(b)) = S /\ b = Keyed!Bitmap(S)
  BY BitmapIs
<1> HIDE DEF b
<1>4. \A k \in Used(b) : b.containers[k].key \in Int
  BY <1>3, KeyIsInt DEF Sorted, Holding
<1>5. /\ first \in Nat
      /\ \A k \in Used(b) : k >= first <=> \A e \in Contents : e.key < b.containers[k].key
  <2>1. CASE ra.size = 0
    <3>1. first = 0 /\ Contents = {} /\ \A k \in Used(b) : k >= 0
      BY <1>2, <2>1 DEF HeldBy, Used
    <3> HIDE DEF first
    <3> QED
      BY <3>1
  <2>2. CASE ra.size # 0
    <3> DEFINE M == Keyed!Max(Keyed!Keys)
    <3>1. /\ M \in Keyed!KeysOf(Contents) /\ M \in Int
          /\ \A k \in Keyed!KeysOf(Contents) : k \in Int /\ k <= M
      BY <1>2, <2>2, MaxIs
    <3>2. first = Keyed!Below(b, M + 1)
      BY <2>2
    <3> HIDE DEF first, M
    <3>3. first \in 0 .. b.size /\ \A k \in Used(b) : k < first <=> b.containers[k].key < M + 1
      BY <1>3, <3>1, <3>2, BelowIs
    <3>4. ASSUME NEW k \in Used(b)
          PROVE  k >= first <=> \A e \in Contents : e.key < b.containers[k].key
      <4>1. b.containers[k].key \in Int /\ k \in Int
        BY <1>4 DEF Used
      <4>2. k >= first <=> M < b.containers[k].key
        BY <1>3, <3>1, <3>3, <4>1
      <4>3. ASSUME M < b.containers[k].key, NEW e \in Contents PROVE e.key < b.containers[k].key
        <5>1. e.key \in Keyed!KeysOf(Contents)
          BY DEF Keyed!KeysOf
        <5>2. e.key \in Int /\ e.key <= M
          BY <3>1, <5>1
        <5> QED
          BY ONLY <3>1, <4>1, <4>3, <5>2
      <4>4. ASSUME \A e \in Contents : e.key < b.containers[k].key PROVE M < b.containers[k].key
        BY <3>1, <4>4 DEF Keyed!KeysOf
      <4> QED
        BY <4>2, <4>3, <4>4
    <3> QED
      BY <1>3, <3>3, <3>4
  <2> QED
    BY <2>1, <2>2
<1> HIDE DEF first
<1>6. /\ IsEntries(ra') /\ Sorted(ra', Used(ra')) /\ HeldBy(ra', Used(ra')) = Contents \union Above
      /\ {b.keys[k] : k \in first .. b.size - 1} = Keyed!KeysOf(Above)
  BY <1>1, <1>2, <1>3, <1>5, RestKeeps
<1>7. Keyed!KeysOf(Contents \union Above) = Keyed!KeysOf(Above) \union (Keyed!KeysOf(Contents) \ {})
  BY DEF Keyed!KeysOf
<1>8. Keyed!KeysOf(Above) \intersect Keyed!KeysOf(Contents) = {}
  <2>1. ASSUME NEW c \in Above, NEW e \in Contents PROVE c.key # e.key
    <3>1. e.key < c.key
      OBVIOUS
    <3>2. e.key \in Int
      BY <1>2, KeyIsInt DEF HeldBy, Sorted, Holding
    <3> QED
      BY <3>1, <3>2
  <2> HIDE DEF Above
  <2> QED
    BY <2>1 DEF Keyed!KeysOf
<1> HIDE DEF Above
<1>9. heap' = HeapOf(Contents \union Above)
  <2>1. Keyed!Account(Keyed!KeysOf(Above), {})
    BY <1>1, <1>6
  <2> QED
    BY <1>2, <1>7, <1>8, <2>1, Accounted
<1> QED
  BY <1>1, <1>6, <1>9, Settled DEF Above

-----------------------------------------------------------------------------
(***************************************************************************)
(* The turns of an operation in place.                                     *)
(***************************************************************************)

LEMMA BeginHolds ==
  ASSUME ArrayState(ra, sieve, heap), NEW op \in {"and", "andnot"}, Keyed!Begin(op)
  PROVE  ArrayState(ra', sieve', heap')
<1>1. /\ sieve.op = "none" /\ sieve' = [sieve EXCEPT !.op = op] /\ ra' = ra /\ heap' = heap
  BY DEF Keyed!Begin
<1>2. sieve \in [op : {"none", "and", "andnot"}, kept : Nat, next : Nat]
  BY DEF ArrayState, IsSieve
<1>3. /\ sieve' \in [op : {"none", "and", "andnot"}, kept : Nat, next : Nat]
      /\ sieve'.kept = sieve.kept /\ sieve'.next = sieve.next /\ sieve'.op # "none"
  BY <1>1, <1>2
<1> QED
  BY <1>1, <1>3 DEF ArrayState, IsSieve, Counted

\* The fields of a sieve that looks at another place.
LEMMA SieveTurn ==
  ASSUME ArrayState(ra, sieve, heap), sieve.op # "none", sieve.next < ra.size
  PROVE  /\ IsEntries(ra) /\ ra.size \in Nat /\ sieve.kept \in Nat /\ sieve.next \in Nat
         /\ sieve.kept <= sieve.next /\ sieve.next \in Counted(ra, sieve)
         /\ Counted(ra, sieve) \in SUBSET Int /\ Sorted(ra, Counted(ra, sieve))
         /\ heap = HeapOf(Contents)
         /\ Holding(ra, sieve.next) /\ ra.containers[sieve.next] \in Contents
<1>1. /\ IsEntries(ra) /\ sieve.kept \in Nat /\ sieve.next \in Nat /\ sieve.kept <= sieve.next
      /\ ra.size \in Nat
  BY DEF ArrayState, IsSieve, IsEntries
<1>2. sieve.next \in Counted(ra, sieve) /\ Counted(ra, sieve) \in SUBSET Int
  BY <1>1 DEF Counted
<1>3. Sorted(ra, Counted(ra, sieve)) /\ heap = HeapOf(Contents)
  BY DEF ArrayState, Contents
<1> QED
  BY <1>1, <1>2, <1>3 DEF Sorted, Contents, HeldBy

\* A container stays in the next place kept, with the same or another result.
LEMMA KeptHolds ==
  ASSUME ArrayState(ra, sieve, heap), sieve.op # "none", sieve.next < ra.size,
         NEW c \in Kept, c.key = ra.containers[sieve.next].key, IsEntries(ra'), ra'.size = ra.size,
         Place(ra', sieve.kept) = <<c.key, c, c.type>>,
         \A j \in 0 .. ra.size - 1 : j # sieve.kept => Place(ra', j) = Place(ra, j),
         sieve' = [sieve EXCEPT !.kept = @ + 1, !.next = @ + 1], heap' = heap
  PROVE  ArrayState(ra', sieve', heap') /\ Contents' = Rest(c.key) \union {c}
<1> DEFINE I == Counted(ra, sieve)
           i == sieve.next
           k == sieve.kept
<1>1. /\ ra.size \in Nat /\ k \in Nat /\ i \in Nat /\ k <= i /\ i \in I /\ I \in SUBSET Int
      /\ Sorted(ra, I) /\ heap = HeapOf(Contents) /\ ra.containers[i] \in Contents /\ i < ra.size
  BY SieveTurn
<1>2. /\ sieve' \in [op : {"none", "and", "andnot"}, kept : Nat, next : Nat]
      /\ sieve'.kept = k + 1 /\ sieve'.next = i + 1 /\ sieve'.op = sieve.op
  <2>1. sieve \in [op : {"none", "and", "andnot"}, kept : Nat, next : Nat]
    BY DEF ArrayState, IsSieve
  <2>2. sieve' = [op |-> sieve.op, kept |-> k + 1, next |-> i + 1]
    BY <2>1
  <2>3. k + 1 \in Nat /\ i + 1 \in Nat /\ sieve.op \in {"none", "and", "andnot"}
    BY <1>1, <2>1
  <2> HIDE DEF i, k
  <2> QED
    BY ONLY <2>2, <2>3
<1>3. IsSieve(ra', sieve')
  BY <1>1, <1>2 DEF IsSieve
<1>4. Counted(ra', sieve') = (I \ {i}) \union {k}
  BY <1>1, <1>2 DEF Counted
<1>5. \A j \in I \ {i} : j # k /\ (j < k => j < i) /\ (k < j => i < j) /\ j \in 0 .. ra.size - 1
  BY <1>1 DEF Counted
<1> HIDE DEF I, i, k
<1>6. /\ Sorted(ra', (I \ {i}) \union {k})
      /\ HeldBy(ra', (I \ {i}) \union {k}) = {e \in HeldBy(ra, I) : e.key # c.key} \union {c}
  <2>1. /\ k \in Int /\ \A j \in I \ {i} : j # k /\ (j < k => j < i) /\ (k < j => i < j)
        /\ \A j \in I \ {i} : Place(ra', j) = Place(ra, j)
    BY <1>1, <1>5 DEF k
  <2>2. c.key = ra.containers[i].key /\ Place(ra', k) = <<c.key, c, c.type>>
    BY DEF i, k
  <2> QED
    BY ONLY <1>1, <2>1, <2>2, c \in Kept, Overlaid
<1>7. /\ HeldBy(ra', (I \ {i}) \union {k}) = Rest(c.key) \union {c}
      /\ Contents' = HeldBy(ra', (I \ {i}) \union {k})
  BY <1>4, <1>6 DEF Rest, Contents, I
<1>8. Keyed!KeysOf(Rest(c.key) \union {c}) = Keyed!KeysOf(Contents)
  BY <1>1 DEF Keyed!KeysOf, Rest, i
<1>9. heap' = HeapOf(Rest(c.key) \union {c})
  <2>1. heap' = HeapOf(Contents)
    BY <1>1
  <2> QED
    BY ONLY <1>8, <2>1 DEF HeapOf
<1> QED
  BY <1>3, <1>4, <1>6, <1>7, <1>9 DEF ArrayState

LEMMA KeepResultHolds ==
  ASSUME ArrayState(ra, sieve, heap), NEW type \in Typecodes, Keyed!KeepResult(type)
  PROVE  /\ ArrayState(ra', sieve', heap')
         /\ Contents' = Rest(ra.keys[sieve.next])
                          \union {Keyed!Container(ra.keys[sieve.next], type)}
<1> DEFINE key == ra.keys[sieve.next]
           c == Keyed!Container(key, type)
<1>1. /\ sieve.op # "none" /\ sieve.next < ra.size /\ heap' = heap
      /\ ra' = Keyed!Store(ra, sieve.kept, key, c, type)
      /\ sieve' = [sieve EXCEPT !.kept = @ + 1, !.next = @ + 1]
  BY DEF Keyed!KeepResult, Keyed!Sifting
<1>2. /\ IsEntries(ra) /\ sieve.kept \in Nat /\ sieve.next \in Nat /\ sieve.kept <= sieve.next
      /\ Holding(ra, sieve.next)
  BY <1>1, SieveTurn
<1>3. key = ra.containers[sieve.next].key /\ key \in EntryKey
  BY <1>2, KeyIsInt DEF Holding
<1> HIDE DEF key
<1>4. c \in Kept /\ c.key = key /\ c.type = type
  BY <1>3 DEF Keyed!Container, Kept
<1> HIDE DEF c
<1>5. ra.size \in Nat /\ ra.allocation_size \in Nat /\ ra.size <= ra.allocation_size
  BY <1>2 DEF IsEntries
<1>6. /\ sieve.kept \in 0 .. ra.allocation_size - 1
      /\ \A j \in 0 .. ra.size - 1 : j \in 0 .. ra.allocation_size - 1
  BY <1>1, <1>2, <1>5
<1>7. /\ IsEntries(ra') /\ ra'.size = ra.size /\ Place(ra', sieve.kept) = <<key, c, type>>
      /\ \A j \in 0 .. ra.allocation_size - 1 : j # sieve.kept => Place(ra', j) = Place(ra, j)
  BY <1>1, <1>2, <1>6, StoredAt
<1>8. /\ c.key = ra.containers[sieve.next].key /\ Place(ra', sieve.kept) = <<c.key, c, c.type>>
      /\ \A j \in 0 .. ra.size - 1 : j # sieve.kept => Place(ra', j) = Place(ra, j)
  BY ONLY <1>3, <1>4, <1>6, <1>7
<1>9. ArrayState(ra', sieve', heap') /\ Contents' = Rest(c.key) \union {c}
  BY <1>1, <1>4, <1>7, <1>8, KeptHolds, Zenon
<1> QED
  BY <1>4, <1>9, Zenon DEF c, key

LEMMA KeepContainerHolds ==
  ASSUME ArrayState(ra, sieve, heap), Keyed!KeepContainer
  PROVE  ArrayState(ra', sieve', heap') /\ Contents' = Contents
<1> DEFINE i == sieve.next
           c == ra.containers[i]
<1>1. /\ sieve.op # "none" /\ sieve.next < ra.size /\ heap' = heap
      /\ ra' = IF i = sieve.kept THEN ra
               ELSE Keyed!Store(ra, sieve.kept, ra.keys[i], ra.containers[i], ra.typecodes[i])
      /\ sieve' = [sieve EXCEPT !.kept = @ + 1, !.next = @ + 1]
  BY DEF Keyed!KeepContainer, Keyed!Sifting
<1>2. /\ IsEntries(ra) /\ sieve.kept \in Nat /\ i \in Nat /\ sieve.kept <= i
      /\ Holding(ra, i) /\ c \in Contents /\ i \in Counted(ra, sieve)
      /\ Counted(ra, sieve) \in SUBSET Int /\ Sorted(ra, Counted(ra, sieve))
  BY <1>1, SieveTurn
<1>3. c \in Kept /\ Place(ra, i) = <<c.key, c, c.type>>
  BY <1>2 DEF Holding, Place
<1>4. ra.size \in Nat /\ ra.allocation_size \in Nat /\ ra.size <= ra.allocation_size
  BY <1>2 DEF IsEntries
<1>5. /\ sieve.kept \in 0 .. ra.allocation_size - 1
      /\ \A j \in 0 .. ra.size - 1 : j \in 0 .. ra.allocation_size - 1
  BY <1>1, <1>2, <1>4
<1>6. /\ IsEntries(ra') /\ ra'.size = ra.size /\ Place(ra', sieve.kept) = <<c.key, c, c.type>>
      /\ \A j \in 0 .. ra.size - 1 : j # sieve.kept => Place(ra', j) = Place(ra, j)
  <2>1. CASE i = sieve.kept
    <3>1. ra' = ra
      BY <1>1, <2>1
    <3> QED
      BY <1>2, <1>3, <2>1, <3>1
  <2>2. CASE i # sieve.kept
    <3>1. ra' = Keyed!Store(ra, sieve.kept, ra.keys[i], ra.containers[i], ra.typecodes[i])
      BY <1>1, <2>2
    <3>2. Place(ra', sieve.kept) = Place(ra, i)
      BY <1>2, <1>5, <3>1, StoredAt DEF Place
    <3> QED
      BY <1>2, <1>3, <1>5, <3>1, <3>2, StoredAt
  <2> QED
    BY <2>1, <2>2
<1>7. ArrayState(ra', sieve', heap') /\ Contents' = Rest(c.key) \union {c}
  <2> HIDE DEF i
  <2>1. c.key = ra.containers[sieve.next].key
    BY DEF i
  <2> HIDE DEF c
  <2> QED
    BY <1>1, <1>3, <1>6, <2>1, KeptHolds
<1>8. Rest(c.key) \union {c} = Contents
  <2>1. HeldBy(ra, Counted(ra, sieve) \ {i}) = Rest(c.key)
    BY <1>2, Without DEF Rest, Contents
  <2> QED
    BY <1>2, <2>1 DEF HeldBy, Contents
<1> QED
  BY <1>7, <1>8

LEMMA DropHolds ==
  ASSUME ArrayState(ra, sieve, heap), Keyed!DropContainer
  PROVE  ArrayState(ra', sieve', heap') /\ Contents' = Rest(ra.keys[sieve.next])
<1> DEFINE i == sieve.next
           key == ra.keys[i]
           I == Counted(ra, sieve)
<1>1. /\ sieve.op # "none" /\ sieve.next < ra.size /\ ra' = ra
      /\ sieve' = [sieve EXCEPT !.next = @ + 1]
      /\ Keyed!Account({}, {ra.containers[i].key})
  BY DEF Keyed!DropContainer, Keyed!Sifting
<1>2. /\ IsEntries(ra) /\ ra.size \in Nat /\ sieve.kept \in Nat /\ i \in Nat /\ sieve.kept <= i
      /\ i \in I /\ I \in SUBSET Int /\ Sorted(ra, I) /\ heap = HeapOf(Contents)
      /\ Holding(ra, i) /\ ra.containers[i] \in Contents
  BY <1>1, SieveTurn
<1>3. key = ra.containers[i].key
  BY <1>2 DEF Holding
<1>4. /\ sieve' \in [op : {"none", "and", "andnot"}, kept : Nat, next : Nat]
      /\ sieve'.kept = sieve.kept /\ sieve'.next = i + 1 /\ sieve'.op = sieve.op
  <2>1. sieve \in [op : {"none", "and", "andnot"}, kept : Nat, next : Nat]
    BY DEF ArrayState, IsSieve
  <2> QED
    BY <1>1, <1>2, <2>1
<1>5. IsSieve(ra', sieve') /\ Counted(ra', sieve') = I \ {i}
  BY <1>1, <1>2, <1>4 DEF IsSieve, Counted
<1>6. Sorted(ra', I \ {i})
  BY <1>1, <1>2 DEF Sorted
<1>7. HeldBy(ra', I \ {i}) = Rest(key)
  <2>1. HeldBy(ra, I \ {i}) = {e \in HeldBy(ra, I) : e.key # ra.containers[i].key}
    BY <1>2, Without
  <2> QED
    BY <1>1, <1>3, <2>1 DEF Rest, Contents
<1>8. Keyed!KeysOf(Rest(key)) = {} \union (Keyed!KeysOf(Contents) \ {key})
  BY DEF Keyed!KeysOf, Rest
<1>9. key \in Keyed!KeysOf(Contents)
  BY <1>2, <1>3 DEF Keyed!KeysOf
<1>10. heap' = HeapOf(Rest(key))
  <2> HIDE DEF key
  <2>1. Keyed!Account({}, {key})
    BY <1>1, <1>3
  <2> QED
    BY <1>2, <1>8, <1>9, <2>1, Accounted
<1> QED
  BY <1>1, <1>2, <1>5, <1>6, <1>7, <1>10 DEF ArrayState, Contents

\* Nothing is left to look at, and the places kept are all places.
LEMMA EndAndHolds ==
  ASSUME ArrayState(ra, sieve, heap), Keyed!EndAnd
  PROVE  ArrayState(ra', sieve', heap') /\ Contents' = Contents
<1>1. /\ sieve.next = ra.size /\ ra' = [ra EXCEPT !.size = sieve.kept]
      /\ sieve' = Keyed!NoSieve /\ heap' = heap
  BY DEF Keyed!EndAnd
<1>2. /\ IsEntries(ra) /\ sieve.kept \in Nat /\ sieve.next \in Nat /\ sieve.kept <= sieve.next
      /\ Sorted(ra, Counted(ra, sieve)) /\ heap = HeapOf(HeldBy(ra, Counted(ra, sieve)))
  BY DEF ArrayState, IsSieve
<1>3. ra.size \in Nat /\ ra.allocation_size \in Nat /\ ra.size <= ra.allocation_size
  BY <1>2 DEF IsEntries
<1>4. sieve.kept \in 0 .. ra.allocation_size
  BY <1>1, <1>2, <1>3
<1>5. IsEntries(ra') /\ ra'.size = sieve.kept /\ \A j : Place(ra', j) = Place(ra, j)
  BY <1>1, <1>2, <1>4, Sized
<1>6. IsSieve(ra', sieve') /\ Counted(ra', sieve') = Counted(ra, sieve)
  BY <1>1, <1>2, <1>3, <1>5 DEF IsSieve, Counted, Keyed!NoSieve
<1>7. Counted(ra, sieve) \in SUBSET Int
  BY <1>1, <1>2 DEF Counted
<1>8. /\ Sorted(ra', Counted(ra, sieve))
      /\ HeldBy(ra', Counted(ra, sieve)) = HeldBy(ra, Counted(ra, sieve))
  BY <1>2, <1>5, <1>7, Stayed
<1> QED
  BY <1>1, <1>2, <1>5, <1>6, <1>8 DEF ArrayState, Contents

\* What was not looked at slides to the places kept.
LEMMA EndAndNotHolds ==
  ASSUME ArrayState(ra, sieve, heap), Keyed!EndAndNot
  PROVE  ArrayState(ra', sieve', heap') /\ Contents' = Contents
<1>1. /\ IsEntries(ra) /\ sieve.kept \in Nat /\ sieve.next \in Nat /\ sieve.kept <= sieve.next
      /\ Sorted(ra, Counted(ra, sieve)) /\ heap = HeapOf(HeldBy(ra, Counted(ra, sieve)))
      /\ sieve.next <= ra.size
  BY DEF ArrayState, IsSieve
<1>2. ra.size \in Nat /\ ra.allocation_size \in Nat /\ ra.size <= ra.allocation_size
  BY <1>1 DEF IsEntries
<1>3. PICK k \in Nat, i \in Nat, z \in Nat : k = sieve.kept /\ i = sieve.next /\ z = ra.size
  BY <1>1, <1>2
<1>4. k <= i /\ i <= z /\ z <= ra.allocation_size
  BY <1>1, <1>2, <1>3
<1> DEFINE t == IF i > k /\ z - i > 0 THEN Keyed!MoveRange(ra, k, ra, i, z - i) ELSE ra
           I == (0 .. k - 1) \union (i .. z - 1)
           J == 0 .. k + (z - i) - 1
           m == [j \in J |-> IF j < k THEN j ELSE j - k + i]
<1>5. sieve' = Keyed!NoSieve /\ heap' = heap /\ ra' = [t EXCEPT !.size = k + (z - i)]
  BY <1>3 DEF Keyed!EndAndNot
<1>6. Counted(ra, sieve) = I
  BY <1>3 DEF Counted
<1>7. /\ I \in SUBSET Int /\ J \in SUBSET Int /\ m \in [J -> I]
      /\ \A j \in J : m[j] = IF j < k THEN j ELSE j - k + i
      /\ \A l, j \in J : l < j => m[l] < m[j]
  BY <1>4
<1>8. \A l \in I : \E j \in J : m[j] = l
  <2> HIDE DEF m
  <2>1. ASSUME NEW l \in I, l < k PROVE l \in J /\ m[l] = l
    <3>1. l \in J
      BY <1>4, <2>1
    <3> QED
      BY <1>7, <2>1, <3>1
  <2>2. ASSUME NEW l \in I, ~(l < k) PROVE l - i + k \in J /\ m[l - i + k] = l
    <3>1. l - i + k \in J /\ ~(l - i + k < k) /\ (l - i + k) - k + i = l
      BY <1>4, <2>2
    <3> QED
      BY <1>7, <3>1
  <2> QED
    BY <2>1, <2>2
<1>9. /\ IsEntries(t) /\ t.allocation_size = ra.allocation_size
      /\ \A j \in J : Place(t, j) = Place(ra, m[j])
  <2>1. CASE i > k /\ z - i > 0
    <3>1. t = Keyed!MoveRange(ra, k, ra, i, z - i)
      BY <2>1
    <3> HIDE DEF t, m
    <3>2. /\ IsEntries(t) /\ t.allocation_size = ra.allocation_size
          /\ \A j \in 0 .. ra.allocation_size - 1 :
               Place(t, j) = IF j \in k .. k + (z - i) - 1 THEN Place(ra, j - k + i)
                             ELSE Place(ra, j)
      BY <1>1, <3>1, RangeMoved
    <3>3. \A j \in J : /\ j \in 0 .. ra.allocation_size - 1
                       /\ j < k <=> j \notin k .. k + (z - i) - 1
      BY <1>2, <1>4
    <3> QED
      BY <1>7, <3>2, <3>3
  <2>2. CASE ~(i > k /\ z - i > 0)
    <3>1. t = ra
      BY <2>2
    <3>2. \A j \in J : m[j] = j
      BY <1>4, <2>2
    <3> HIDE DEF t, m
    <3> QED
      BY <1>1, <3>1, <3>2
  <2> QED
    BY <2>1, <2>2
<1> HIDE DEF t, m
<1>10. /\ IsEntries(ra') /\ ra'.size = k + (z - i) /\ \A j \in J : Place(ra', j) = Place(ra, m[j])
  <2>1. k + (z - i) \in 0 .. t.allocation_size
    BY <1>2, <1>4, <1>9
  <2> QED
    BY <1>5, <1>9, <2>1, Sized
<1>11. IsSieve(ra', sieve') /\ Counted(ra', sieve') = J
  BY <1>4, <1>5, <1>10 DEF IsSieve, Counted, Keyed!NoSieve
<1>12. Sorted(ra', J) /\ HeldBy(ra', J) = HeldBy(ra, I)
  <2> HIDE DEF I, J
  <2> QED
    BY <1>1, <1>6, <1>7, <1>8, <1>10, Carried
<1> QED
  BY <1>1, <1>5, <1>6, <1>10, <1>11, <1>12 DEF ArrayState, Contents

-----------------------------------------------------------------------------
(***************************************************************************)
(* The theorem.                                                            *)
(***************************************************************************)

LEMMA KeyedStarts == LoopsInit => KeyedInv
<1> SUFFICES ASSUME LoopsInit, active = "entries" PROVE ArrayState(ra, sieve, heap)
  BY DEF KeyedInv
<1>1. /\ ra = Keyed!InitWithCapacity(InitialSize) /\ sieve = Keyed!NoSieve
      /\ heap = [k \in EntryKey |-> 0]
  BY DEF LoopsInit, Keyed!Init, Keyed!Key, EntryKey
<1>2. IsEntries(ra) /\ ra.size = 0
  BY <1>1, EntryAssumption, Started
<1>3. IsSieve(ra, sieve) /\ Counted(ra, sieve) = {}
  BY <1>1, <1>2 DEF IsSieve, Counted, Keyed!NoSieve
<1>4. HeapOf(HeldBy(ra, {})) = [k \in EntryKey |-> 0]
  BY DEF HeapOf, HeldBy, Keyed!KeysOf
<1> QED
  BY <1>1, <1>2, <1>3, <1>4 DEF ArrayState, Sorted

LEMMA KeyedGoes ==
  ASSUME ArrayState(ra, sieve, heap), Keyed!Next
  PROVE  ArrayState(ra', sieve', heap')
<1>1. Keyed!Containers = Kept /\ Keyed!Key \subseteq Int
  <2>1. EntryKeys \in Nat
    BY EntryAssumption
  <2> QED
    BY <2>1 DEF Keyed!Containers, Keyed!Key, Kept, EntryKey
<1>2. 0 .. InitialSize \subseteq Nat
  BY EntryAssumption
<1> QED
  BY <1>1, <1>2, InsertHolds, ReplaceHolds, RemoveHolds, RestHolds, OverwriteHolds,
     DeserializeHolds, UntilHolds, CreateHolds, CopyAndFreeHolds, ShrinkHolds, BeginHolds,
     KeepResultHolds, KeepContainerHolds, DropHolds, EndAndHolds, EndAndNotHolds DEF Keyed!Next

LEMMA KeyedStep ==
  ASSUME KeyedInv, LoopsNext
  PROVE  KeyedInv'
<1>1. CASE EntriesStep
  BY <1>1, KeyedGoes DEF EntriesStep, KeyedInv
<1>2. CASE ArrayStep \/ RangesStep \/ MergesStep \/ BitsetStep \/ BitmapStep
  <2>1. active # "entries" /\ active' = active
    BY <1>2 DEF ArrayStep, RangesStep, MergesStep, BitsetStep, BitmapStep
  <2> QED
    BY <2>1 DEF KeyedInv
<1> QED
  BY <1>1, <1>2 DEF LoopsNext

LEMMA KeyedStays ==
  ASSUME KeyedInv, UNCHANGED loopVars
  PROVE  KeyedInv'
BY DEF loopVars, entryVars, KeyedInv, ArrayState, IsEntries, IsSieve, Sorted, Counted, HeapOf,
   HeldBy, Holding

\* The invariant says what the module says of its places.
LEMMA EntriesAreSound ==
  ASSUME ArrayState(ra, sieve, heap)
  PROVE  Keyed!EntriesSound /\ Keyed!Entries = Contents
<1>1. /\ IsEntries(ra) /\ Sorted(ra, Counted(ra, sieve))
      /\ heap = HeapOf(HeldBy(ra, Counted(ra, sieve)))
  BY DEF ArrayState
<1>2. Keyed!Places = Counted(ra, sieve)
  BY DEF Keyed!Places, Counted
<1>3. Keyed!Entries = Contents
  BY <1>1, <1>2, EntriesAre DEF Keyed!Entries, Contents
<1>4. /\ \A i \in Keyed!Places : ra.containers[i] = Keyed!Container(ra.keys[i], ra.typecodes[i])
      /\ \A i, j \in Keyed!Places : i < j => ra.keys[i] < ra.keys[j]
  BY <1>1, <1>2, EntriesAre
<1>5. heap = [k \in Keyed!Key |-> IF k \in Keyed!KeysOf(Keyed!Entries) THEN 1 ELSE 0]
  BY <1>1, <1>3 DEF HeapOf, Contents, Keyed!Key, EntryKey
<1>6. {DOMAIN ra.keys, DOMAIN ra.containers, DOMAIN ra.typecodes} = {0 .. ra.allocation_size - 1}
  BY <1>1 DEF IsEntries
<1> QED
  BY <1>1, <1>3, <1>4, <1>5, <1>6 DEF Keyed!EntriesSound, IsEntries

\* Calls and turns change the entries they are about.
LEMMA KeyedStepIsExact ==
  ASSUME ArrayState(ra, sieve, heap), Keyed!Entries = Contents, Keyed!Entries' = Contents'
  PROVE  Keyed!StepExact
<1>1. Keyed!Containers = Kept /\ Keyed!Key \subseteq Int
  <2>1. EntryKeys \in Nat
    BY EntryAssumption
  <2> QED
    BY <2>1 DEF Keyed!Containers, Keyed!Key, Kept, EntryKey
<1>2. \A key : Keyed!Others(key) = Rest(key)
  BY DEF Keyed!Others, Rest
<1>3. \A c \in Keyed!Containers :
        Keyed!InsertKey(c) \/ Keyed!ReplaceContainer(c)
          => Keyed!Entries' = Keyed!Others(c.key) \union {c}
  BY <1>1, <1>2, InsertHolds, ReplaceHolds
<1>4. \A key \in Keyed!Key : Keyed!RemoveKey(key) => Keyed!Entries' = Keyed!Others(key)
  BY <1>2, RemoveHolds
<1>5. \A S \in Sources :
        /\ Keyed!AppendRest(S) => Keyed!Entries' = Keyed!Entries
                                    \union {c \in S : \A e \in Keyed!Entries : e.key < c.key}
        /\ Keyed!Overwrite(S) \/ Keyed!Deserialize(S) => Keyed!Entries' = S
        /\ \A key \in Keyed!Key :
             Keyed!AppendUntil(S, key) => Keyed!Entries' = {c \in S : c.key < key}
  BY <1>1, RestHolds, OverwriteHolds, DeserializeHolds, UntilHolds
<1>6. Keyed!CopyAndFree \/ Keyed!ShrinkToFit \/ Keyed!KeepContainer \/ Keyed!EndAnd
          \/ Keyed!EndAndNot
        => Keyed!Entries' = Keyed!Entries
  BY CopyAndFreeHolds, ShrinkHolds, KeepContainerHolds, EndAndHolds, EndAndNotHolds
<1>7. \A type \in Typecodes :
        Keyed!KeepResult(type) =>
          Keyed!Entries' = Keyed!Others(ra.keys[sieve.next])
                             \union {Keyed!Container(ra.keys[sieve.next], type)}
  BY <1>2, KeepResultHolds
<1>8. Keyed!DropContainer => Keyed!Entries' = Keyed!Others(ra.keys[sieve.next])
  BY <1>2, DropHolds
<1> QED
  BY <1>3, <1>4, <1>5, <1>6, <1>7, <1>8 DEF Keyed!StepExact

\* In every step of the array of containers, for any number of keys, any growth and any
\* contents of other bitmaps: the places that count stay inside the allocation and in
\* the order of their keys, each with its own container, exactly these containers are
\* allocated, and every call and every turn in place changes the entries it is about
\* and no others.
THEOREM EntriesExactHolds == LoopsSpec => EntriesExact
<1>1. LoopsInit => KeyedInv
  BY KeyedStarts
<1>2. KeyedInv /\ [LoopsNext]_loopVars => KeyedInv'
  BY KeyedStep, KeyedStays
<1>3. KeyedInv /\ KeyedInv' /\ [LoopsNext]_loopVars
        => [active = "entries" => Keyed!EntriesSound' /\ Keyed!StepExact]_entryVars
  <2> SUFFICES ASSUME KeyedInv, KeyedInv', [LoopsNext]_loopVars, active = "entries"
               PROVE  UNCHANGED entryVars \/ (Keyed!EntriesSound' /\ Keyed!StepExact)
    OBVIOUS
  <2>1. CASE UNCHANGED loopVars
    BY <2>1 DEF loopVars, entryVars
  <2>2. CASE LoopsNext
    <3>1. active' = "entries"
      BY <2>2 DEF LoopsNext, ArrayStep, RangesStep, MergesStep, BitsetStep, BitmapStep, EntriesStep
    <3>2. ArrayState(ra, sieve, heap) /\ (ArrayState(ra, sieve, heap))'
      BY <3>1 DEF KeyedInv
    <3>3. Keyed!Entries = Contents
      BY <3>2, EntriesAreSound
    <3>4. (ArrayState(ra, sieve, heap) => Keyed!EntriesSound /\ Keyed!Entries = Contents)'
      BY EntriesAreSound, PTL
    <3> QED
      BY <3>2, <3>3, <3>4, KeyedStepIsExact
  <2> QED
    BY <2>1, <2>2
<1> QED
  BY <1>1, <1>2, <1>3, PTL DEF LoopsSpec, EntriesExact

=============================================================================
