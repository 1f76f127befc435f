------------------------- MODULE SharedBitmapsProofs ------------------------
(***************************************************************************)
(* Copy-on-write, for every number of bitmaps, of objects and of container *)
(* keys, and every sequence of calls: memory and bitmaps always give one   *)
(* and the same account of the values that the bitmaps have, in which each *)
(* shared container counts its holders and every other one has a single    *)
(* holder.  From it follow the four properties that the run asks about.    *)
(*                                                                         *)
(* The theorems are about a program that leaves copy-on-write on in every  *)
(* bitmap and has no run containers.                                       *)
(***************************************************************************)
EXTENDS SharedContainersProofs, FunctionTheorems

-----------------------------------------------------------------------------
(***************************************************************************)
(* The course of a call.  The keys of P are those of x1 that are still to  *)
(* be looked at, those of Q are those of the second operand, of which B    *)
(* has the values.  Keys below all of them are as the call is to leave     *)
(* them, E; the other ones are as they were.                               *)
(***************************************************************************)

\* The low halves of the values of S under the key k, and those of all keys.
Layer(S, k) == {x \in Lows : Width * k + x \in S}
Layers(S) == [k \in Nat |-> Layer(S, k)]

\* The values of one bitmap, and those of one without any.
Vals(v, b) == [k \in Nat |-> Val(v, b, k)]
Nothing == [k \in Nat |-> {}]

\* The key k is below all keys that are left.
Behind(k, P, Q) == \A r \in P \union Q : k < r

\* What a call makes of the values A and B of one key.
Due(op, A, B) ==
  CASE op \in {"and", "and_inplace"} -> A \intersect B
    [] op \in {"or", "or_inplace", "consume"} -> A \union B
    [] op \in {"xor", "xor_inplace", "flip", "flip_inplace"} -> SymDiff(A, B)
    [] op \in {"andnot", "andnot_inplace"} -> A \ B
    [] OTHER -> A

\* What a call has done and has left to do, key by key.
OnCourse(op, x1, to, B, v, E, P, Q) ==
  /\ P \subseteq Nat /\ Q \subseteq Nat
  /\ \A k \in Nat :
       /\ Val(v, x1, k) # {} /\ k \notin P => Behind(k, P, Q)
       /\ B[k] # {} /\ k \notin Q => Behind(k, P, Q)
       /\ Behind(k, P, Q) => Val(v, to, k) = E[k]
       /\ ~Behind(k, P, Q) =>
            /\ Due(op, Val(v, x1, k), B[k]) = E[k]
            /\ x1 # to => Val(v, to, k) = {}

LEMMA SymDiffIs ==
  ASSUME NEW A, NEW B
  PROVE  SymDiff(A, B) = (A \ B) \union (B \ A)
BY DEF SymDiff

LEMMA DueIs ==
  ASSUME NEW A, NEW B
  PROVE  /\ \A op : Due(op, {}, {}) = {}
         /\ \A op \in {"and", "and_inplace"} :
              Due(op, A, B) = A \intersect B /\ Due(op, A, {}) = {} /\ Due(op, {}, B) = {}
         /\ \A op \in {"or", "or_inplace", "consume"} :
              Due(op, A, B) = A \union B /\ Due(op, A, {}) = A /\ Due(op, {}, B) = B
         /\ \A op \in {"xor", "xor_inplace", "flip", "flip_inplace"} :
              Due(op, A, B) = SymDiff(A, B) /\ Due(op, A, {}) = A /\ Due(op, {}, B) = B
         /\ \A op \in {"andnot", "andnot_inplace"} :
              Due(op, A, B) = A \ B /\ Due(op, A, {}) = A /\ Due(op, {}, B) = {}
         /\ \A op \in {"copy", "convert", "remove_run_compression"} : Due(op, A, B) = A
<1>1. SymDiff({}, {}) = {} /\ SymDiff(A, {}) = A /\ SymDiff({}, B) = B
  BY SymDiffIs
<1>0. A \union {} = A /\ {} \union B = B /\ A \ {} = A /\ {} \ B = {}
  OBVIOUS
<1>2. ASSUME NEW op \in {"and", "and_inplace"}
      PROVE  \A C, D : Due(op, C, D) = C \intersect D
  BY <1>2 DEF Due
<1>3. ASSUME NEW op \in {"or", "or_inplace", "consume"}
      PROVE  \A C, D : Due(op, C, D) = C \union D
  BY <1>3 DEF Due
<1>4. ASSUME NEW op \in {"xor", "xor_inplace", "flip", "flip_inplace"}
      PROVE  \A C, D : Due(op, C, D) = SymDiff(C, D)
  BY <1>4 DEF Due
<1>5. ASSUME NEW op \in {"andnot", "andnot_inplace"}
      PROVE  \A C, D : Due(op, C, D) = C \ D
  BY <1>5 DEF Due
<1>6. ASSUME NEW op, op \notin {"and", "and_inplace", "or", "or_inplace", "consume", "xor",
                                "xor_inplace", "flip", "flip_inplace", "andnot", "andnot_inplace"}
      PROVE  \A C, D : Due(op, C, D) = C
  BY <1>6 DEF Due
<1>7. ASSUME NEW op PROVE Due(op, {}, {}) = {}
  BY <1>1, <1>2, <1>3, <1>4, <1>5, <1>6
<1> QED
  <2>1. \A op \in {"and", "and_inplace"} :
          Due(op, A, B) = A \intersect B /\ Due(op, A, {}) = {} /\ Due(op, {}, B) = {}
    BY <1>2
  <2>2. \A op \in {"or", "or_inplace", "consume"} :
          Due(op, A, B) = A \union B /\ Due(op, A, {}) = A /\ Due(op, {}, B) = B
    <3> SUFFICES ASSUME NEW op \in {"or", "or_inplace", "consume"}
                 PROVE  Due(op, A, B) = A \union B /\ Due(op, A, {}) = A
                        /\ Due(op, {}, B) = B
      OBVIOUS
    <3>1. \A C, D : Due(op, C, D) = C \union D
      BY <1>3
    <3>2. Due(op, A, B) = A \union B
      BY ONLY <3>1
    <3>3. Due(op, A, {}) = A \union {}
      BY ONLY <3>1
    <3>4. Due(op, {}, B) = {} \union B
      BY ONLY <3>1
    <3> QED
      BY <1>0, <3>2, <3>3, <3>4
  <2>3. \A op \in {"xor", "xor_inplace", "flip", "flip_inplace"} :
          Due(op, A, B) = SymDiff(A, B) /\ Due(op, A, {}) = A /\ Due(op, {}, B) = B
    BY <1>1, <1>4
  <2>4. \A op \in {"andnot", "andnot_inplace"} :
          Due(op, A, B) = A \ B /\ Due(op, A, {}) = A /\ Due(op, {}, B) = {}
    <3> SUFFICES ASSUME NEW op \in {"andnot", "andnot_inplace"}
                 PROVE  Due(op, A, B) = A \ B /\ Due(op, A, {}) = A
                        /\ Due(op, {}, B) = {}
      OBVIOUS
    <3>1. Due(op, A, B) = A \ B /\ Due(op, A, {}) = A \ {} /\ Due(op, {}, B) = {} \ B
      BY <1>5
    <3> QED
      BY <1>0, <3>1
  <2>5. \A op \in {"copy", "convert", "remove_run_compression"} : Due(op, A, B) = A
    BY <1>6
  <2> QED
    BY <1>7, <2>1, <2>2, <2>3, <2>4, <2>5

LEMMA DueNone ==
  \A op : Due(op, {}, {}) = {}
BY DueIs

LEMMA CourseBegin ==
  ASSUME NEW op, NEW x1, NEW to, NEW B, NEW v, NEW E, NEW P,
         NEW Q, P \subseteq Nat, Q \subseteq Nat,
         \A k \in Nat : /\ Val(v, x1, k) # {} => k \in P
                        /\ B[k] # {} => k \in Q
                        /\ E[k] = Due(op, Val(v, x1, k), B[k])
                        /\ x1 # to => Val(v, to, k) = {}
  PROVE  OnCourse(op, x1, to, B, v, E, P, Q)
<1>1. ASSUME NEW k \in Nat, Behind(k, P, Q) PROVE Val(v, to, k) = E[k]
  <2>1. k \notin P /\ k \notin Q
    BY <1>1 DEF Behind
  <2>2. Val(v, x1, k) = {} /\ B[k] = {}
    BY <2>1
  <2>3. E[k] = {}
    BY <2>2, DueNone
  <2> QED
    BY <2>2, <2>3
<1> QED
  BY <1>1 DEF OnCourse

LEMMA CourseStep ==
  ASSUME NEW op, NEW x1, NEW to, NEW B, NEW v, NEW E, NEW P, NEW Q,
         OnCourse(op, x1, to, B, v, E, P, Q),
         NEW k \in P \union Q, \A r \in P \union Q : k <= r,
         NEW C, NEW w, Val(w, to, k) = Due(op, Val(v, x1, k), B[k]),
         \A j \in Nat : j # k => /\ Val(w, to, j) = Val(v, to, j)
                                 /\ Val(w, x1, j) = Val(v, x1, j)
                                 /\ C[j] = B[j]
  PROVE  OnCourse(op, x1, to, C, w, E, P \ {k}, Q \ {k})
<1> DEFINE L == P \ {k}
           M == Q \ {k}
<1>1. P \subseteq Nat /\ Q \subseteq Nat /\ k \in Nat
  BY DEF OnCourse
<1>2. Behind(k, L, M)
  <2>1. ASSUME NEW r \in L \union M PROVE k < r
    <3>1. r \in P \union Q /\ r # k /\ r \in Nat
      BY <1>1
    <3>2. k <= r
      BY <3>1
    <3> QED
      BY <1>1, <3>1, <3>2
  <2> QED
    BY <2>1 DEF Behind
<1>3. \A j \in Nat : Behind(j, P, Q) => Behind(j, L, M)
  BY DEF Behind
<1>4. ~Behind(k, P, Q)
  BY <1>1 DEF Behind
<1>5. ASSUME NEW j \in Nat, j # k, Behind(j, L, M), ~Behind(j, P, Q)
      PROVE  j \notin P /\ j \notin Q
  BY <1>5 DEF Behind
<1> HIDE DEF L, M
<1>6. ASSUME NEW j \in Nat, j # k, Behind(j, L, M)
      PROVE  Val(w, to, j) = E[j]
  <2>1. CASE Behind(j, P, Q)
    BY <1>6, <2>1 DEF OnCourse
  <2>2. CASE ~Behind(j, P, Q)
    <3>1. j \notin P /\ j \notin Q
      BY <1>5, <1>6, <2>2
    <3>2. Val(v, x1, j) = {} /\ B[j] = {}
      BY <2>2, <3>1 DEF OnCourse
    <3>3. E[j] = Due(op, {}, {}) /\ Val(v, to, j) = {}
      BY <2>2, <3>2 DEF OnCourse
    <3> QED
      BY <1>6, <3>3, DueNone
  <2> QED
    BY <2>1, <2>2
<1>7. Val(w, to, k) = E[k]
  BY <1>1, <1>4 DEF OnCourse
<1>8. ASSUME NEW j \in Nat, ~Behind(j, L, M)
      PROVE  /\ Due(op, Val(w, x1, j), C[j]) = E[j]
             /\ x1 # to => Val(w, to, j) = {}
  <2>1. j # k /\ ~Behind(j, P, Q)
    BY <1>2, <1>3, <1>8
  <2> QED
    BY <2>1 DEF OnCourse
<1>9. ASSUME NEW j \in Nat
      PROVE  /\ Val(w, x1, j) # {} /\ j \notin L => Behind(j, L, M)
             /\ C[j] # {} /\ j \notin M => Behind(j, L, M)
  <2>1. CASE j = k
    BY <1>2, <2>1
  <2>2. CASE j # k
    <3>1. (j \notin L => j \notin P) /\ (j \notin M => j \notin Q)
      BY <2>2 DEF L, M
    <3> QED
      BY <1>3, <2>2, <3>1 DEF OnCourse
  <2> QED
    BY <2>1, <2>2
<1>10. L \subseteq Nat /\ M \subseteq Nat
  BY <1>1 DEF L, M
<1>11. OnCourse(op, x1, to, C, w, E, L, M)
  BY <1>6, <1>7, <1>8, <1>9, <1>10 DEF OnCourse
<1> QED
  BY <1>11 DEF L, M

\* Keys that are passed over: they stay as they are, since the other operand lacks them.
LEMMA CourseSkip ==
  ASSUME NEW op, NEW x1, NEW to, NEW B, NEW v, NEW E, NEW P, NEW Q,
         OnCourse(op, x1, to, B, v, E, P, Q), NEW L \in SUBSET P, NEW M \in SUBSET Q,
         \A j \in (P \ L) \union (Q \ M) : Behind(j, L, M),
         \A A : \/ M = Q /\ Due(op, A, {}) = IF x1 = to THEN A ELSE {}
                \/ L = P /\ Due(op, {}, A) = {}
  PROVE  OnCourse(op, x1, to, B, v, E, L, M)
<1>1. P \subseteq Nat /\ Q \subseteq Nat
  BY DEF OnCourse
<1>2. \A j \in Nat : Behind(j, P, Q) => Behind(j, L, M)
  BY DEF Behind
<1>3. ASSUME NEW j \in Nat, Behind(j, L, M), ~Behind(j, P, Q)
      PROVE  Val(v, to, j) = E[j]
  <2> DEFINE A == Val(v, x1, j)
             C == B[j]
  <2>0. /\ j \notin P => A = {}
        /\ j \notin Q => C = {}
        /\ Due(op, A, C) = E[j]
        /\ x1 # to => Val(v, to, j) = {}
        /\ x1 = to => Val(v, to, j) = A
    BY <1>3 DEF OnCourse
  <2>1. j \notin L /\ j \notin M
    BY <1>1, <1>3 DEF Behind
  <2> HIDE DEF A, C
  <2>2. CASE M = Q /\ Due(op, A, {}) = IF x1 = to THEN A ELSE {}
    BY <2>0, <2>1, <2>2
  <2>3. CASE L = P /\ Due(op, {}, C) = {}
    BY <2>0, <2>1, <2>3
  <2>4. CASE M = Q /\ L = P
    BY <1>3, <2>4
  <2>5. \/ M = Q /\ Due(op, A, {}) = IF x1 = to THEN A ELSE {}
        \/ L = P /\ Due(op, {}, A) = {}
    OBVIOUS
  <2>6. \/ M = Q /\ Due(op, C, {}) = IF x1 = to THEN C ELSE {}
        \/ L = P /\ Due(op, {}, C) = {}
    OBVIOUS
  <2> QED
    BY <2>2, <2>3, <2>4, <2>5, <2>6
<1>4. ASSUME NEW j \in Nat
      PROVE  /\ Val(v, x1, j) # {} /\ j \notin L => Behind(j, L, M)
             /\ B[j] # {} /\ j \notin M => Behind(j, L, M)
  BY <1>2 DEF OnCourse
<1> QED
  BY <1>1, <1>2, <1>3, <1>4 DEF OnCourse

LEMMA CourseEnd ==
  ASSUME NEW op, NEW x1, NEW to, NEW B, NEW v, NEW E, NEW P, NEW Q,
         OnCourse(op, x1, to, B, v, E, P, Q),
         \/ P = {} /\ Q = {}
         \/ Q = {} /\ \A A : Due(op, A, {}) = IF x1 = to THEN A ELSE {}
         \/ P = {} /\ \A A : Due(op, {}, A) = {}
  PROVE  \A k \in Nat : Val(v, to, k) = E[k]
<1> SUFFICES ASSUME NEW k \in Nat PROVE Val(v, to, k) = E[k]
  OBVIOUS
<1>1. CASE Behind(k, P, Q)
  BY <1>1 DEF OnCourse
<1>2. CASE ~Behind(k, P, Q)
  <2> DEFINE A == Val(v, x1, k)
             C == B[k]
  <2>0. /\ k \notin P => A = {}
        /\ k \notin Q => C = {}
        /\ Due(op, A, C) = E[k]
        /\ x1 # to => Val(v, to, k) = {}
        /\ x1 = to => Val(v, to, k) = A
    BY <1>2 DEF OnCourse
  <2>1. ~(P = {} /\ Q = {})
    BY <1>2 DEF Behind
  <2> HIDE DEF A, C
  <2> QED
    BY <2>0, <2>1
<1> QED
  BY <1>1, <1>2

\* No place from p on has been given up; a position of a loop is such a place.
Unspent(X, b, p) == \A i \in Nat : i >= p => <<b, i>> \notin X
Ahead(bs, X, b, p) == p \in 1 .. Count(bs, b) + 1 /\ Unspent(X, b, p)

\* The position q has one key less ahead of it.
NextRest(bs, b, p, k, q) == q \in 1 .. Count(bs, b) + 1 /\ Rest(bs, b, q) = Rest(bs, b, p) \ {k}

\* The first of the keys that are left.
Foremost(k, P, Q) == k \in P \union Q /\ \A r \in P \union Q : k <= r

LEMMA AheadOwned ==
  ASSUME NEW m, NEW bs, NEW X, NEW v, World(m, bs, X, v), NEW b \in DOMAIN bs, NEW p,
         Ahead(bs, X, b, p)
  PROVE  /\ Count(bs, b) \in Nat /\ p \in Nat \ {0}
         /\ \A i \in p .. Count(bs, b) : i \in Owned(bs, X, b) /\ KeyIn(bs, b, i) \in Nat
         /\ \A i \in p .. Count(bs, b) : \A j \in p .. Count(bs, b) :
              i < j => KeyIn(bs, b, i) < KeyIn(bs, b, j)
         /\ p <= Count(bs, b) => p \in Owned(bs, X, b)
<1>1. PICK h : Rep(bs, X, h)
  BY DEF World
<1>2. Count(bs, b) \in Nat /\ \A i : i \in Owned(bs, X, b) <=> i \in 1 .. Count(bs, b) /\ <<b, i>> \notin X
  BY <1>1, CountIs
<1>3. p \in Nat \ {0}
  BY <1>2 DEF Ahead
<1>4. ASSUME NEW i \in p .. Count(bs, b)
      PROVE  i \in Owned(bs, X, b) /\ KeyIn(bs, b, i) \in Nat
  <2>1. i \in 1 .. Count(bs, b) /\ i \in Nat /\ i >= p
    BY <1>2, <1>3
  <2>2. i \in Owned(bs, X, b)
    BY <1>2, <2>1 DEF Ahead, Unspent
  <2> QED
    BY <1>1, <2>2, PlaceIs
<1>5. ASSUME NEW i \in p .. Count(bs, b), NEW j \in p .. Count(bs, b), i < j
      PROVE  KeyIn(bs, b, i) < KeyIn(bs, b, j)
  <2>1. i \in Owned(bs, X, b) /\ j \in Owned(bs, X, b)
    BY <1>4
  <2> QED
    BY <1>1, <1>5, <2>1, PlaceIs
<1>6. ASSUME p <= Count(bs, b) PROVE p \in Owned(bs, X, b)
  <2>1. p \in p .. Count(bs, b)
    BY <1>2, <1>3, <1>6
  <2> QED
    BY <1>4, <2>1
<1> QED
  BY <1>2, <1>3, <1>4, <1>5, <1>6

LEMMA RestIs ==
  ASSUME NEW m, NEW bs, NEW X, NEW v, World(m, bs, X, v), NEW b \in DOMAIN bs, NEW p,
         Ahead(bs, X, b, p),
         NEW R, R = Rest(bs, b, p), NEW n, n = Count(bs, b), NEW k, k = KeyIn(bs, b, p),
         NEW q, q = p + 1
  PROVE  /\ R \subseteq Nat /\ n \in Nat /\ p \in 1 .. n + 1
         /\ p <= n => /\ k \in R /\ k \in Nat /\ \A r \in R : k <= r
                      /\ NextRest(bs, b, p, k, q) /\ p \in Owned(bs, X, b)
         /\ ~(p <= n) => R = {}
<1> DEFINE K(i) == KeyIn(bs, b, i)
<1>1. /\ n \in Nat /\ p \in Nat \ {0}
      /\ \A i \in p .. n : i \in Owned(bs, X, b) /\ K(i) \in Nat
      /\ \A i \in p .. n : \A j \in p .. n : i < j => K(i) < K(j)
      /\ p <= n => p \in Owned(bs, X, b)
  BY AheadOwned
<1>2. p \in 1 .. n + 1
  BY DEF Ahead
<1>3. R = {K(i) : i \in p .. n} /\ Rest(bs, b, q) = {K(i) : i \in q .. n} /\ k = K(p)
  BY DEF Rest
<1> HIDE DEF K
<1>4. R \subseteq Nat
  BY <1>1, <1>3
<1>5. ASSUME p <= n
      PROVE  /\ k \in R /\ k \in Nat /\ \A r \in R : k <= r
             /\ NextRest(bs, b, p, k, q)
  <2>1. p \in p .. n
    BY <1>1, <1>5
  <2>2. k \in R /\ k \in Nat
    BY <1>1, <1>3, <2>1
  <2>3. ASSUME NEW i \in p .. n, i # p PROVE K(p) < K(i)
    BY <1>1, <2>1, <2>3
  <2>4. ASSUME NEW r \in R PROVE k <= r
    <3>1. PICK i \in p .. n : r = K(i)
      BY <1>3
    <3>2. K(i) \in Nat /\ K(p) \in Nat
      BY <1>1, <2>1
    <3> QED
      BY <1>3, <2>3, <3>1, <3>2
  <2>5. Rest(bs, b, q) = R \ {k}
    <3>1. ASSUME NEW i \in q .. n PROVE K(i) \in R /\ K(i) # k
      <4>1. i \in p .. n /\ i # p
        BY <1>1
      <4>2. K(i) \in Nat /\ K(p) \in Nat
        BY <1>1, <2>1, <4>1
      <4> QED
        BY <1>3, <2>3, <4>1, <4>2
    <3>2. ASSUME NEW r \in R, r # k PROVE \E i \in q .. n : r = K(i)
      <4>1. PICK i \in p .. n : r = K(i)
        BY <1>3
      <4>2. i # p
        BY <1>3, <3>2, <4>1
      <4>3. i \in q .. n
        BY <1>1, <4>2
      <4> QED
        BY <4>1, <4>3
    <3> QED
      BY <1>3, <3>1, <3>2
  <2>6. q \in 1 .. n + 1
    BY <1>1, <1>5
  <2> QED
    BY <2>2, <2>4, <2>5, <2>6 DEF NextRest
<1>6. ASSUME ~(p <= n) PROVE R = {}
  <2>1. p .. n = {}
    BY <1>1, <1>6
  <2> QED
    BY <1>3, <2>1
<1> QED
  BY <1>1, <1>2, <1>4, <1>5, <1>6

LEMMA NextRestNot ==
  ASSUME NEW bs, NEW b, NEW p \in 1 .. Count(bs, b) + 1, NEW k, k \notin Rest(bs, b, p)
  PROVE  NextRest(bs, b, p, k, p)
BY DEF NextRest

\* All bitmaps but the one that is written to share what is copied of them.
Sharers(bs, to) == \A b \in DOMAIN bs : b # to => Sharer(bs, b)

\* A call on its way: the places of x1 from p1 on are still to be looked at.
Going(m, bs, v, X, op, x1, to, p1, B, Q, E) ==
  /\ World(m, bs, X, v) /\ x1 \in DOMAIN bs /\ to \in DOMAIN bs /\ Sharers(bs, to)
  /\ Ahead(bs, X, x1, p1) /\ (x1 # to => Whole(X, to))
  /\ OnCourse(op, x1, to, B, v, E, Rest(bs, x1, p1), Q)

\* The same values under every key but k.
SameBut(C, B, k) == \A j \in Nat : j # k => C[j] = B[j]

\* What a turn leaves that deals with the key k, whichever values the second operand
\* has there.
Goes(s, bs, v, Y, op, x1, to, q1, B, Q, E, k, S) ==
  \E n, u, w : /\ s = Pair(n, u) /\ Sets(v, w, to, k, S) /\ Alike(bs, u, to)
               /\ \A C : SameBut(C, B, k) => Going(n, u, w, Y, op, x1, to, q1, C, Q, E)

\* The place of x1 that is next once the key k is dealt with by a change of the bitmap to,
\* whose places from i on are then those from j on.
Onwards(bs, Y, x1, to, p1, k, i, j, q1) ==
  /\ Unspent(Y, x1, q1)
  /\ IF x1 = to THEN /\ q1 = j /\ Rest(bs, to, i) = Rest(bs, to, p1) \ {k}
                     /\ i \in 1 .. Count(bs, to) + 1
     ELSE NextRest(bs, x1, p1, k, q1) /\ Whole(Y, to)

LEMMA SharersAlike ==
  ASSUME NEW bs, NEW u, NEW a, Alike(bs, u, a), NEW to, Sharers(bs, to)
  PROVE  Sharers(u, to)
BY DEF Alike, Sharers, Sharer

LEMMA AlikeNext ==
  ASSUME NEW bs, NEW u, NEW to, Alike(bs, u, to), NEW b \in DOMAIN bs, b # to,
         Count(bs, b) \in Nat,
         NEW p, NEW k, NEW q, NextRest(bs, b, p, k, q)
  PROVE  q \in 1 .. Count(u, b) + 1 /\ Rest(u, b, q) = Rest(bs, b, p) \ {k}
<1>1. q \in Nat \ {0}
  BY DEF NextRest
<1>2. Count(u, b) = Count(bs, b) /\ \A i \in Nat \ {0} : Rest(u, b, i) = Rest(bs, b, i)
  BY AlikeRest
<1> QED
  BY <1>1, <1>2 DEF NextRest

LEMMA Advances ==
  ASSUME NEW m, NEW bs, NEW v, NEW X, NEW op, NEW x1, NEW to, NEW p1, NEW B, NEW Q, NEW E,
         Going(m, bs, v, X, op, x1, to, p1, B, Q, E),
         NEW k, Foremost(k, Rest(bs, x1, p1), Q), NEW S, S = Due(op, Val(v, x1, k), B[k]),
         NEW s, NEW Y, NEW i, NEW j, Reaches(s, bs, Y, v, to, k, S, i, j),
         NEW q1, Onwards(bs, Y, x1, to, p1, k, i, j, q1), NEW R, R = Q \ {k}
  PROVE  Goes(s, bs, v, Y, op, x1, to, q1, B, R, E, k, S)
<1>1. /\ World(m, bs, X, v) /\ x1 \in DOMAIN bs /\ to \in DOMAIN bs /\ Sharers(bs, to)
      /\ Ahead(bs, X, x1, p1)
      /\ OnCourse(op, x1, to, B, v, E, Rest(bs, x1, p1), Q)
  BY DEF Going
<1>2. PICK n, u : /\ s = Pair(n, u) /\ Leaves(n, u, Y, v, to, k, S)
                  /\ Alike(bs, u, to) /\ Moves(bs, u, to, i, j)
  BY DEF Reaches
<1>3. PICK w : World(n, u, Y, w) /\ Sets(v, w, to, k, S)
  BY <1>2 DEF Leaves
<1> DEFINE P == Rest(bs, x1, p1)
<1>4. Rest(u, x1, q1) = P \ {k} /\ q1 \in 1 .. Count(u, x1) + 1
  <2>1. CASE x1 = to
    <3>1. q1 = j /\ Rest(bs, to, i) = P \ {k} /\ i \in 1 .. Count(bs, to) + 1
      BY <2>1 DEF Onwards
    <3>2. Rest(u, to, j) = Rest(bs, to, i) /\ j \in 1 .. Count(u, to) + 1
      BY <1>2, <3>1 DEF Moves
    <3> QED
      BY <2>1, <3>1, <3>2
  <2>2. CASE x1 # to
    <3>1. NextRest(bs, x1, p1, k, q1)
      BY <2>2 DEF Onwards
    <3>2. Count(bs, x1) \in Nat
      BY <1>1, AheadOwned
    <3> QED
      BY <1>1, <1>2, <2>2, <3>1, <3>2, AlikeNext
  <2> QED
    BY <2>1, <2>2
<1>5. ASSUME NEW C, SameBut(C, B, k) PROVE Going(n, u, w, Y, op, x1, to, q1, C, R, E)
  <2>1. Val(w, to, k) = S /\ \A l \in Nat : l # k => Val(w, to, l) = Val(v, to, l) /\ Val(w, x1, l) = Val(v, x1, l)
    BY <1>3 DEF Sets
  <2>2. \A l \in Nat : l # k => C[l] = B[l]
    BY <1>5 DEF SameBut
  <2>3. k \in P \union Q /\ \A r \in P \union Q : k <= r
    BY DEF Foremost
  <2> HIDE DEF P
  <2>4. OnCourse(op, x1, to, C, w, E, P \ {k}, Q \ {k})
    <3>1. OnCourse(op, x1, to, B, v, E, P, Q)
      BY <1>1 DEF P
    <3>2. Val(w, to, k) = Due(op, Val(v, x1, k), B[k])
      BY <2>1
    <3>3. \A l \in Nat : l # k => /\ Val(w, to, l) = Val(v, to, l)
                                  /\ Val(w, x1, l) = Val(v, x1, l)
                                  /\ C[l] = B[l]
      BY <2>1, <2>2
    <3> QED
      BY <2>3, <3>1, <3>2, <3>3, CourseStep
  <2>5. OnCourse(op, x1, to, C, w, E, Rest(u, x1, q1), R)
    BY <1>4, <2>4 DEF P
  <2>6. Ahead(u, Y, x1, q1) /\ (x1 # to => Whole(Y, to))
    BY <1>4 DEF Ahead, Onwards
  <2>7. Sharers(u, to) /\ DOMAIN u = DOMAIN bs
    BY <1>1, <1>2, SharersAlike DEF Alike
  <2> QED
    BY <1>1, <1>3, <2>5, <2>6, <2>7 DEF Going
<1> QED
  BY <1>2, <1>3, <1>5 DEF Goes

\* With a second bitmap.
Going2(m, bs, v, X, op, x1, x2, to, p1, p2, E) ==
  /\ x2 \in DOMAIN bs /\ x2 # to /\ Ahead(bs, X, x2, p2)
  /\ Going(m, bs, v, X, op, x1, to, p1, Vals(v, x2), Rest(bs, x2, p2), E)

\* What no step does to the other bitmaps.
Elsewhere(bs, u, v, w, G) ==
  \A b \in DOMAIN bs \ G : b \in DOMAIN u /\ \A k : Val(w, b, k) = Val(v, b, k)

\* What a turn leaves of the calls with two bitmaps.
Goes2(s, bs, v, Y, op, x1, x2, to, q1, q2, E) ==
  \E n, u, w : /\ s = Pair(n, u) /\ Elsewhere(bs, u, v, w, {to})
               /\ Going2(n, u, w, Y, op, x1, x2, to, q1, q2, E)

LEMMA Advances2 ==
  ASSUME NEW m, NEW bs, NEW v, NEW X, NEW op, NEW x1, NEW x2, NEW to, NEW p1, NEW p2, NEW E,
         Going2(m, bs, v, X, op, x1, x2, to, p1, p2, E),
         NEW k, Foremost(k, Rest(bs, x1, p1), Rest(bs, x2, p2)),
         NEW S, S = Due(op, Val(v, x1, k), Val(v, x2, k)),
         NEW s, NEW Y, NEW i, NEW j, Reaches(s, bs, Y, v, to, k, S, i, j),
         NEW q1, Onwards(bs, Y, x1, to, p1, k, i, j, q1),
         NEW q2, NextRest(bs, x2, p2, k, q2), Unspent(Y, x2, q2)
  PROVE  Goes2(s, bs, v, Y, op, x1, x2, to, q1, q2, E)
<1> DEFINE B == Vals(v, x2)
           Q == Rest(bs, x2, p2)
           R == Q \ {k}
<1>1. /\ x2 \in DOMAIN bs /\ x2 # to /\ Ahead(bs, X, x2, p2)
      /\ Going(m, bs, v, X, op, x1, to, p1, B, Q, E)
  BY DEF Going2
<1>2. World(m, bs, X, v) /\ OnCourse(op, x1, to, B, v, E, Rest(bs, x1, p1), Q)
  BY <1>1 DEF Going
<1>3. k \in Nat
  BY <1>2 DEF Foremost, OnCourse
<1>4. B[k] = Val(v, x2, k)
  BY <1>3 DEF Vals
<1> HIDE DEF B, Q, R
<1>5. Goes(s, bs, v, Y, op, x1, to, q1, B, R, E, k, S)
  <2>1. Foremost(k, Rest(bs, x1, p1), Q) /\ R = Q \ {k} /\ S = Due(op, Val(v, x1, k), B[k])
    BY <1>4 DEF Q, R
  <2> QED
    BY <1>1, <2>1, Advances
<1>6. PICK n, u, w : /\ s = Pair(n, u) /\ Sets(v, w, to, k, S) /\ Alike(bs, u, to)
                     /\ \A C : SameBut(C, B, k) => Going(n, u, w, Y, op, x1, to, q1, C, R, E)
  BY <1>5 DEF Goes
<1>7. SameBut(Vals(w, x2), B, k)
  BY <1>1, <1>6 DEF Sets, SameBut, Vals, B
<1>8. Count(bs, x2) \in Nat
  BY <1>1, <1>2, AheadOwned
<1>9. Rest(u, x2, q2) = R /\ q2 \in 1 .. Count(u, x2) + 1
  BY <1>1, <1>6, <1>8, AlikeNext DEF R, Q
<1>10. Going(n, u, w, Y, op, x1, to, q1, Vals(w, x2), Rest(u, x2, q2), E)
  BY <1>6, <1>7, <1>9
<1>11. Ahead(u, Y, x2, q2) /\ x2 \in DOMAIN u
  BY <1>1, <1>6, <1>9 DEF Ahead, Alike
<1>12. Elsewhere(bs, u, v, w, {to})
  BY <1>6 DEF Elsewhere, Alike, Sets
<1> QED
  BY <1>1, <1>6, <1>10, <1>11, <1>12 DEF Goes2, Going2

\* Where a call with two bitmaps stands.
LEMMA Standing ==
  ASSUME NEW m, NEW bs, NEW v, NEW X, NEW op, NEW x1, NEW x2, NEW to, NEW p1, NEW p2, NEW E,
         Going2(m, bs, v, X, op, x1, x2, to, p1, p2, E)
  PROVE  /\ World(m, bs, X, v) /\ x1 \in DOMAIN bs /\ x2 \in DOMAIN bs /\ to \in DOMAIN bs /\ x2 # to
         /\ Sharers(bs, to) /\ Ahead(bs, X, x1, p1) /\ Ahead(bs, X, x2, p2)
         /\ (x1 # to => Whole(X, to))
         /\ OnCourse(op, x1, to, Vals(v, x2), v, E, Rest(bs, x1, p1), Rest(bs, x2, p2))
         /\ \A k \in Nat : Vals(v, x2)[k] = Val(v, x2, k)
BY DEF Going2, Going, Vals

\* Both are at the key k.
Meets(bs, x1, p1, x2, p2, k) ==
  /\ p1 <= Count(bs, x1) /\ p2 <= Count(bs, x2)
  /\ k = KeyIn(bs, x1, p1) /\ k = KeyIn(bs, x2, p2)

LEMMA MeetFirst ==
  ASSUME NEW m, NEW bs, NEW v, NEW X, NEW op, NEW x1, NEW x2, NEW to, NEW p1, NEW p2, NEW E,
         Going2(m, bs, v, X, op, x1, x2, to, p1, p2, E), NEW k, Meets(bs, x1, p1, x2, p2, k),
         NEW q1, q1 = p1 + 1, NEW q2, q2 = p2 + 1
  PROVE  /\ Foremost(k, Rest(bs, x1, p1), Rest(bs, x2, p2)) /\ k \in Nat
         /\ NextRest(bs, x1, p1, k, q1) /\ NextRest(bs, x2, p2, k, q2)
         /\ p1 \in Owned(bs, X, x1) /\ p2 \in Owned(bs, X, x2)
<1> DEFINE P == Rest(bs, x1, p1)
           Q == Rest(bs, x2, p2)
           n1 == Count(bs, x1)
           n2 == Count(bs, x2)
<1>1. World(m, bs, X, v) /\ x1 \in DOMAIN bs /\ x2 \in DOMAIN bs /\ Ahead(bs, X, x1, p1) /\ Ahead(bs, X, x2, p2)
  BY Standing
<1> HIDE DEF P, Q, n1, n2
<1>2. k \in P /\ k \in Nat /\ (\A r \in P : k <= r) /\ NextRest(bs, x1, p1, k, q1) /\ p1 \in Owned(bs, X, x1)
  <2>1. /\ World(m, bs, X, v) /\ x1 \in DOMAIN bs /\ Ahead(bs, X, x1, p1) /\ p1 <= Count(bs, x1)
        /\ k = KeyIn(bs, x1, p1) /\ q1 = p1 + 1
    BY <1>1 DEF Meets
  <2> QED
    BY ONLY <2>1, RestIs DEF P
<1>3. (\A r \in Q : k <= r) /\ NextRest(bs, x2, p2, k, q2) /\ p2 \in Owned(bs, X, x2)
  <2>1. /\ World(m, bs, X, v) /\ x2 \in DOMAIN bs /\ Ahead(bs, X, x2, p2) /\ p2 <= Count(bs, x2)
        /\ k = KeyIn(bs, x2, p2) /\ q2 = p2 + 1
    BY <1>1 DEF Meets
  <2> QED
    BY ONLY <2>1, RestIs DEF Q
<1>4. Foremost(k, P, Q)
  BY <1>2, <1>3 DEF Foremost
<1> QED
  BY <1>2, <1>3, <1>4 DEF P, Q

LEMMA ForemostOnly ==
  ASSUME NEW op, NEW x1, NEW to, NEW B, NEW v, NEW E, NEW P, NEW Q,
         OnCourse(op, x1, to, B, v, E, P, Q), NEW k, Foremost(k, P, Q)
  PROVE  /\ k \in Nat /\ (k \notin P => Val(v, x1, k) = {}) /\ (k \notin Q => B[k] = {})
         /\ x1 # to => \A j \in Nat : Val(v, to, j) # {} => j < k
<1>1. P \subseteq Nat /\ Q \subseteq Nat /\ k \in P \union Q
  BY DEF OnCourse, Foremost
<1>2. k \in Nat /\ ~Behind(k, P, Q)
  BY <1>1 DEF Behind
<1>3. \A j \in Nat : Behind(j, P, Q) => j < k
  BY <1>1 DEF Behind
<1> QED
  BY <1>2, <1>3 DEF OnCourse

LEMMA BeforeFirst ==
  ASSUME NEW m, NEW bs, NEW v, NEW X, NEW op, NEW x1, NEW x2, NEW to, NEW p1, NEW p2, NEW E,
         Going2(m, bs, v, X, op, x1, x2, to, p1, p2, E), p1 <= Count(bs, x1),
         NEW k, k = KeyIn(bs, x1, p1), p2 <= Count(bs, x2) => k < KeyIn(bs, x2, p2),
         NEW q1, q1 = p1 + 1
  PROVE  /\ Foremost(k, Rest(bs, x1, p1), Rest(bs, x2, p2)) /\ k \in Nat
         /\ NextRest(bs, x1, p1, k, q1) /\ NextRest(bs, x2, p2, k, p2)
         /\ p1 \in Owned(bs, X, x1) /\ Val(v, x2, k) = {}
         /\ Behind(k, Rest(bs, x1, q1), Rest(bs, x2, p2))
<1> DEFINE P == Rest(bs, x1, p1)
           Q == Rest(bs, x2, p2)
           n1 == Count(bs, x1)
           n2 == Count(bs, x2)
           l  == KeyIn(bs, x2, p2)
<1>1. /\ World(m, bs, X, v) /\ x1 \in DOMAIN bs /\ x2 \in DOMAIN bs
      /\ Ahead(bs, X, x1, p1) /\ Ahead(bs, X, x2, p2)
      /\ OnCourse(op, x1, to, Vals(v, x2), v, E, P, Q)
      /\ \A j \in Nat : Vals(v, x2)[j] = Val(v, x2, j)
  BY Standing
<1> HIDE DEF P, Q, n1, n2, l
<1>2. /\ k \in P /\ k \in Nat /\ (\A r \in P : k <= r) /\ P \subseteq Nat
      /\ NextRest(bs, x1, p1, k, q1) /\ p1 \in Owned(bs, X, x1)
  BY <1>1, RestIs DEF P, n1
<1> DEFINE z == p2 + 1
<1> HIDE DEF z
<1>3. Q \subseteq Nat /\ (p2 <= n2 => l \in Nat /\ \A r \in Q : l <= r) /\ (~(p2 <= n2) => Q = {})
  BY <1>1, RestIs DEF Q, n2, l, z
<1>4. \A r \in Q : k < r
  <2>1. CASE p2 <= n2
    <3>1. k < l
      BY <2>1 DEF n2, l
    <3> QED
      BY <1>2, <1>3, <2>1, <3>1
  <2>2. CASE ~(p2 <= n2)
    BY <1>3, <2>2
  <2> QED
    BY <2>1, <2>2
<1>5. k \notin Q /\ Foremost(k, P, Q)
  BY <1>2, <1>3, <1>4 DEF Foremost
<1>6. Val(v, x2, k) = {}
  BY <1>1, <1>2, <1>5, ForemostOnly
<1>7. NextRest(bs, x2, p2, k, p2)
  BY <1>1, <1>5, NextRestNot DEF Ahead, Q
<1>8. Behind(k, Rest(bs, x1, q1), Q)
  <2>1. Rest(bs, x1, q1) = P \ {k}
    BY <1>2 DEF NextRest, P
  <2>2. \A r \in P \ {k} : k < r
    BY <1>2
  <2> QED
    BY <1>4, <2>1, <2>2 DEF Behind
<1> QED
  BY <1>2, <1>5, <1>6, <1>7, <1>8 DEF P, Q

LEMMA AfterFirst ==
  ASSUME NEW m, NEW bs, NEW v, NEW X, NEW op, NEW x1, NEW x2, NEW to, NEW p1, NEW p2, NEW E,
         Going2(m, bs, v, X, op, x1, x2, to, p1, p2, E), p2 <= Count(bs, x2),
         NEW k, k = KeyIn(bs, x2, p2), p1 <= Count(bs, x1) => k < KeyIn(bs, x1, p1),
         NEW q2, q2 = p2 + 1
  PROVE  /\ Foremost(k, Rest(bs, x1, p1), Rest(bs, x2, p2)) /\ k \in Nat
         /\ NextRest(bs, x2, p2, k, q2) /\ NextRest(bs, x1, p1, k, p1)
         /\ p2 \in Owned(bs, X, x2) /\ Val(v, x1, k) = {}
<1> DEFINE P == Rest(bs, x1, p1)
           Q == Rest(bs, x2, p2)
           n1 == Count(bs, x1)
           n2 == Count(bs, x2)
           l  == KeyIn(bs, x1, p1)
<1>1. /\ World(m, bs, X, v) /\ x1 \in DOMAIN bs /\ x2 \in DOMAIN bs
      /\ Ahead(bs, X, x1, p1) /\ Ahead(bs, X, x2, p2)
      /\ OnCourse(op, x1, to, Vals(v, x2), v, E, P, Q)
  BY Standing
<1> HIDE DEF P, Q, n1, n2, l
<1>2. /\ k \in Q /\ k \in Nat /\ (\A r \in Q : k <= r) /\ Q \subseteq Nat
      /\ NextRest(bs, x2, p2, k, q2) /\ p2 \in Owned(bs, X, x2)
  BY <1>1, RestIs DEF Q, n2
<1> DEFINE z == p1 + 1
<1> HIDE DEF z
<1>3. P \subseteq Nat /\ (p1 <= n1 => l \in Nat /\ \A r \in P : l <= r) /\ (~(p1 <= n1) => P = {})
  BY <1>1, RestIs DEF P, n1, l, z
<1>4. \A r \in P : k < r
  <2>1. CASE p1 <= n1
    <3>1. k < l
      BY <2>1 DEF n1, l
    <3> QED
      BY <1>2, <1>3, <2>1, <3>1
  <2>2. CASE ~(p1 <= n1)
    BY <1>3, <2>2
  <2> QED
    BY <2>1, <2>2
<1>5. k \notin P /\ Foremost(k, P, Q)
  BY <1>2, <1>3, <1>4 DEF Foremost
<1>6. Val(v, x1, k) = {}
  BY <1>1, <1>2, <1>5, ForemostOnly
<1>7. NextRest(bs, x1, p1, k, p1)
  BY <1>1, <1>5, NextRestNot DEF Ahead, P
<1> QED
  BY <1>2, <1>5, <1>6, <1>7 DEF P, Q

\* The values of a key of a bitmap: natural keys only.
LEMMA ValKeys ==
  ASSUME NEW m, NEW bs, NEW X, NEW v, World(m, bs, X, v), NEW b, NEW k, Val(v, b, k) # {}
  PROVE  k \in Nat /\ b \in DOMAIN bs /\ Val(v, b, k) \subseteq Lows
         /\ \E i \in Owned(bs, X, b) : KeyIn(bs, b, i) = k
<1>1. PICK h : Good(m, h, v) /\ Rep(bs, X, h)
  BY DEF World
<1>2. Full(v)
  BY DEF World
<1>3. <<b, k>> \in DOMAIN h
  BY <1>1, <1>2, ValHeld
<1>4. b \in DOMAIN bs /\ \E i \in Owned(bs, X, b) : KeyIn(bs, b, i) = k
  BY <1>1, <1>3, KeyPlace
<1>5. PICK i \in Owned(bs, X, b) : KeyIn(bs, b, i) = k
  BY <1>4
<1>6. k \in Nat
  BY <1>1, <1>4, <1>5, PlaceIs
<1>7. Val(v, b, k) \subseteq Lows
  BY <1>4, <1>5, ReadPlace
<1> QED
  BY <1>4, <1>6, <1>7

LEMMA FreshBelow ==
  ASSUME NEW m, NEW bs, NEW v, NEW X, NEW op, NEW x1, NEW to, NEW p1, NEW B, NEW Q, NEW E,
         Going(m, bs, v, X, op, x1, to, p1, B, Q, E), x1 # to, NEW k, Foremost(k, Rest(bs, x1, p1), Q)
  PROVE  (\A j : Val(v, to, j) # {} => j < k) /\ Val(v, to, k) = {} /\ k \in Nat
<1>1. World(m, bs, X, v) /\ OnCourse(op, x1, to, B, v, E, Rest(bs, x1, p1), Q)
  BY DEF Going
<1>2. k \in Nat /\ \A j \in Nat : Val(v, to, j) # {} => j < k
  BY <1>1, ForemostOnly
<1>3. \A j : Val(v, to, j) # {} => j \in Nat
  BY <1>1, ValKeys
<1> QED
  BY <1>2, <1>3

LEMMA MinIs ==
  ASSUME NEW D, D \subseteq Nat, D # {}
  PROVE  Min(D) \in D /\ \A x \in D : Min(D) <= x
<1>1. D \in SUBSET Nat
  OBVIOUS
<1>2. \E z \in D : \A y \in D : z <= y
  BY <1>1, NatMinimum, Zenon
<1>3. Min(D) \in D /\ \A y \in D : Min(D) <= y
  BY <1>2, Zenon DEF Min
<1> QED
  BY <1>3

\* AdvanceUntil.
Until(bs, b, key, pos) ==
  Min({i \in pos + 1 .. Count(bs, b) : KeyIn(bs, b, i) >= key} \union {Count(bs, b) + 1})

LEMMA UntilIs ==
  ASSUME NEW m, NEW bs, NEW X, NEW v, World(m, bs, X, v), NEW b \in DOMAIN bs, NEW p,
         Ahead(bs, X, b, p),
         p <= Count(bs, b), NEW key \in Nat, KeyIn(bs, b, p) < key, NEW q, q = Until(bs, b, key, p)
  PROVE  /\ Ahead(bs, X, b, q) /\ q > p
         /\ Rest(bs, b, q) = {r \in Rest(bs, b, p) : r >= key}
<1> DEFINE n == Count(bs, b)
           K(i) == KeyIn(bs, b, i)
           D == {i \in p + 1 .. n : K(i) >= key} \union {n + 1}
<1>1. /\ n \in Nat /\ p \in Nat \ {0}
      /\ \A i \in p .. n : K(i) \in Nat
      /\ \A i \in p .. n : \A j \in p .. n : i < j => K(i) < K(j)
  BY AheadOwned
<1>2. Rest(bs, b, q) = {K(i) : i \in q .. n} /\ Rest(bs, b, p) = {K(i) : i \in p .. n}
  BY DEF Rest
<1>3. q \in D /\ \A x \in D : q <= x
  <2>1. D \subseteq Nat /\ D # {}
    BY <1>1
  <2>2. q = Min(D)
    BY DEF Until
  <2> HIDE DEF D
  <2> QED
    BY <2>1, <2>2, MinIs
<1>4. p <= n /\ K(p) < key
  OBVIOUS
<1> HIDE DEF K, n
<1>5. q \in p + 1 .. n + 1 /\ (q <= n => K(q) >= key)
  BY <1>1, <1>3, <1>4
<1>6. \A i \in p + 1 .. n : i < q => ~ (K(i) >= key)
  BY <1>1, <1>3, <1>5
<1>7. ASSUME NEW i \in q .. n PROVE i \in p .. n /\ K(i) >= key
  <2>1. i \in p .. n /\ q \in p .. n /\ q <= n
    BY <1>1, <1>5
  <2>2. K(i) \in Nat /\ K(q) \in Nat /\ K(q) >= key
    BY <1>1, <1>5, <2>1
  <2>3. q < i => K(q) < K(i)
    BY <1>1, <2>1
  <2>4. q = i \/ q < i
    BY <1>1, <1>5
  <2> QED
    BY <2>1, <2>2, <2>3, <2>4
<1>8. ASSUME NEW i \in p .. n, K(i) >= key PROVE i \in q .. n
  <2>1. i # p
    BY <1>1, <1>4, <1>8
  <2>2. i \in p + 1 .. n
    BY <1>1, <2>1
  <2>3. ~ (i < q)
    BY <1>6, <1>8, <2>2
  <2> QED
    BY <1>1, <1>5, <2>2, <2>3
<1>9. Rest(bs, b, q) = {r \in Rest(bs, b, p) : r >= key}
  BY <1>2, <1>7, <1>8
<1>10. Ahead(bs, X, b, q)
  <2>1. q \in 1 .. n + 1
    BY <1>1, <1>5
  <2>2. \A i \in Nat : i >= q => i >= p
    BY <1>1, <1>5
  <2> QED
    BY <2>1, <2>2 DEF Ahead, Unspent, n
<1> QED
  BY <1>1, <1>5, <1>9, <1>10

\* The operations whose loops end with the first bitmap, and with the second.
Skips1(op, x1, to) == \A A : Due(op, A, {}) = IF x1 = to THEN A ELSE {}
Skips2(op) == \A A : Due(op, {}, A) = {}

LEMMA SkipFirst ==
  ASSUME NEW m, NEW bs, NEW v, NEW X, NEW op, NEW x1, NEW x2, NEW to, NEW p1, NEW p2, NEW E,
         Going2(m, bs, v, X, op, x1, x2, to, p1, p2, E), p1 <= Count(bs, x1), p2 <= Count(bs, x2),
         NEW k, k = KeyIn(bs, x2, p2), KeyIn(bs, x1, p1) < k,
         NEW q1, q1 = Until(bs, x1, k, p1),
         Skips1(op, x1, to)
  PROVE  Going2(m, bs, v, X, op, x1, x2, to, q1, p2, E)
<1> DEFINE P == Rest(bs, x1, p1)
           L == Rest(bs, x1, q1)
           Q == Rest(bs, x2, p2)
           B == Vals(v, x2)
<1>1. /\ World(m, bs, X, v) /\ x1 \in DOMAIN bs /\ x2 \in DOMAIN bs /\ to \in DOMAIN bs /\ x2 # to
      /\ Sharers(bs, to) /\ Ahead(bs, X, x1, p1) /\ Ahead(bs, X, x2, p2)
      /\ (x1 # to => Whole(X, to))
      /\ OnCourse(op, x1, to, B, v, E, P, Q)
  BY Standing
<1> DEFINE n2 == Count(bs, x2)
           z == p2 + 1
<1> HIDE DEF P, L, Q, n2, z, B
<1>2. k \in Nat /\ Q \subseteq Nat /\ \A r \in Q : k <= r
  <2>1. p2 <= n2
    BY DEF n2
  <2> QED
    BY <1>1, <2>1, RestIs DEF Q, n2, z
<1>3. Ahead(bs, X, x1, q1) /\ L = {r \in P : r >= k}
  BY <1>1, <1>2, UntilIs DEF P, L
<1>4. P \subseteq Nat
  BY <1>1 DEF OnCourse
<1>5. \A j \in (P \ L) \union (Q \ Q) : Behind(j, L, Q)
  BY <1>2, <1>3, <1>4 DEF Behind
<1>6. OnCourse(op, x1, to, B, v, E, L, Q)
  <2>1. L \in SUBSET P /\ Q \in SUBSET Q
    BY <1>3
  <2>2. \A A : Due(op, A, {}) = IF x1 = to THEN A ELSE {}
    BY DEF Skips1
  <2> QED
    BY <1>1, <1>5, <2>1, <2>2, CourseSkip
<1> QED
  BY <1>1, <1>3, <1>6 DEF Going2, Going, L, Q, B

LEMMA SkipSecond ==
  ASSUME NEW m, NEW bs, NEW v, NEW X, NEW op, NEW x1, NEW x2, NEW to, NEW p1, NEW p2, NEW E,
         Going2(m, bs, v, X, op, x1, x2, to, p1, p2, E), p1 <= Count(bs, x1), p2 <= Count(bs, x2),
         NEW k, k = KeyIn(bs, x1, p1), KeyIn(bs, x2, p2) < k,
         NEW q2, q2 = Until(bs, x2, k, p2),
         Skips2(op)
  PROVE  Going2(m, bs, v, X, op, x1, x2, to, p1, q2, E)
<1> DEFINE P == Rest(bs, x1, p1)
           M == Rest(bs, x2, q2)
           Q == Rest(bs, x2, p2)
           B == Vals(v, x2)
<1>1. /\ World(m, bs, X, v) /\ x1 \in DOMAIN bs /\ x2 \in DOMAIN bs /\ to \in DOMAIN bs /\ x2 # to
      /\ Sharers(bs, to) /\ Ahead(bs, X, x1, p1) /\ Ahead(bs, X, x2, p2)
      /\ (x1 # to => Whole(X, to))
      /\ OnCourse(op, x1, to, B, v, E, P, Q)
  BY Standing
<1> DEFINE n1 == Count(bs, x1)
           z == p1 + 1
<1> HIDE DEF P, M, Q, n1, z, B
<1>2. k \in Nat /\ P \subseteq Nat /\ \A r \in P : k <= r
  <2>1. p1 <= n1
    BY DEF n1
  <2> QED
    BY <1>1, <2>1, RestIs DEF P, n1, z
<1>3. Ahead(bs, X, x2, q2) /\ M = {r \in Q : r >= k}
  BY <1>1, <1>2, UntilIs DEF Q, M
<1>4. Q \subseteq Nat
  BY <1>1 DEF OnCourse
<1>5. \A j \in (P \ P) \union (Q \ M) : Behind(j, P, M)
  BY <1>2, <1>3, <1>4 DEF Behind
<1>6. OnCourse(op, x1, to, B, v, E, P, M)
  <2>1. M \in SUBSET Q /\ P \in SUBSET P
    BY <1>3
  <2>2. \A A : Due(op, {}, A) = {}
    BY DEF Skips2
  <2> QED
    BY <1>1, <1>5, <2>1, <2>2, CourseSkip
<1> QED
  BY <1>1, <1>3, <1>6 DEF Going2, Going, P, M, B

\* The end of the loop.
LEMMA Ends2 ==
  ASSUME NEW m, NEW bs, NEW v, NEW X, NEW op, NEW x1, NEW x2, NEW to, NEW p1, NEW p2, NEW E,
         Going2(m, bs, v, X, op, x1, x2, to, p1, p2, E),
         \/ ~ (p1 <= Count(bs, x1)) /\ ~ (p2 <= Count(bs, x2))
         \/ ~ (p1 <= Count(bs, x1)) /\ Skips2(op)
         \/ ~ (p2 <= Count(bs, x2)) /\ Skips1(op, x1, to)
  PROVE  \A k \in Nat : Val(v, to, k) = E[k]
<1> DEFINE P == Rest(bs, x1, p1)
           Q == Rest(bs, x2, p2)
           B == Vals(v, x2)
           n1 == Count(bs, x1)
           n2 == Count(bs, x2)
           z1 == p1 + 1
           z2 == p2 + 1
<1>1. /\ World(m, bs, X, v) /\ x1 \in DOMAIN bs /\ x2 \in DOMAIN bs
      /\ Ahead(bs, X, x1, p1) /\ Ahead(bs, X, x2, p2)
      /\ OnCourse(op, x1, to, B, v, E, P, Q)
  BY Standing
<1>0. \/ ~ (p1 <= n1) /\ ~ (p2 <= n2)
      \/ ~ (p1 <= n1) /\ Skips2(op)
      \/ ~ (p2 <= n2) /\ Skips1(op, x1, to)
  OBVIOUS
<1> HIDE DEF P, Q, n1, n2, z1, z2, B
<1>2. ~ (p1 <= n1) => P = {}
  BY <1>1, RestIs DEF P, n1, z1
<1>3. ~ (p2 <= n2) => Q = {}
  BY <1>1, RestIs DEF Q, n2, z2
<1>4. \/ P = {} /\ Q = {}
      \/ Q = {} /\ \A A : Due(op, A, {}) = IF x1 = to THEN A ELSE {}
      \/ P = {} /\ \A A : Due(op, {}, A) = {}
  BY <1>0, <1>2, <1>3 DEF Skips1, Skips2
<1> QED
  BY <1>1, <1>4, CourseEnd

-----------------------------------------------------------------------------
(***************************************************************************)
(* The turns of the calls that make a bitmap.                              *)
(***************************************************************************)
LEMMA StaysReaches ==
  ASSUME NEW n, NEW bs, NEW X, NEW v, World(n, bs, X, v), NEW b \in DOMAIN bs, NEW k,
         Val(v, b, k) = {},
         NEW i
  PROVE  Reaches(Pair(n, bs), bs, X, v, b, k, {}, i, i)
<1>1. Sets(v, v, b, k, {})
  BY DEF Sets
<1>2. Leaves(n, bs, X, v, b, k, {})
  BY <1>1 DEF Leaves
<1>3. Alike(bs, bs, b) /\ Moves(bs, bs, b, i, i)
  BY DEF Alike, Moves, SameKeys
<1> QED
  BY <1>2, <1>3 DEF Reaches

LEMMA FreshOnwards ==
  ASSUME NEW bs, NEW x1, NEW to, x1 # to, NEW p1, NEW k, NEW q1,
         NextRest(bs, x1, p1, k, q1), NEW i, NEW j
  PROVE  Onwards(bs, {}, x1, to, p1, k, i, j, q1)
BY DEF Onwards, Unspent, Whole

\* A container computed for the answer.
Resulting(m, bs, to, k, new, S) ==
  IF S = {} THEN WithMemory(Pair(m, bs), ContainerFree(new.memory, new.container))
  ELSE Append1(WithMemory(Pair(m, bs), new.memory), to, k, new.container)

LEMMA ResultReaches ==
  ASSUME NEW m, NEW bs, NEW X, NEW v, World(m, bs, X, v), NEW to \in DOMAIN bs,
         Whole(X, to),
         NEW k \in Nat, \A j : Val(v, to, j) # {} => j < k, Val(v, to, k) = {},
         NEW kind \in Kinds, NEW S \in SUBSET Lows, NEW new, new = Allocate(m, k, kind, S)
  PROVE  \E i, j : Reaches(Resulting(m, bs, to, k, new, S), bs, X, v, to, k, S, i, j)
<1>1. CASE S = {}
  <2> DEFINE n == ContainerFree(new.memory, new.container)
  <2>1. World(n, bs, X, v)
    BY AllocateDropped
  <2>2. Resulting(m, bs, to, k, new, S) = Pair(n, bs)
    BY <1>1, WithMemoryIs DEF Resulting
  <2> HIDE DEF n
  <2>3. Reaches(Pair(n, bs), bs, X, v, to, k, {}, 1, 1)
    BY <2>1, StaysReaches
  <2> QED
    BY <1>1, <2>2, <2>3
<1>2. CASE S # {}
  <2> DEFINE s == Append1(Pair(new.memory, bs), to, k, new.container)
             x == Count(bs, to) + 1
             y == Count(bs, to) + 2
  <2>1. Reaches(s, bs, X, v, to, k, S, x, y)
    BY <1>2, AllocateAppend
  <2>2. Resulting(m, bs, to, k, new, S) = s
    BY <1>2, WithMemoryIs DEF Resulting
  <2> HIDE DEF s, x, y
  <2> QED
    BY <2>1, <2>2
<1> QED
  BY <1>1, <1>2

LEMMA FirstCopied ==
  ASSUME NEW m, NEW bs, NEW v, NEW X, NEW op, NEW x1, NEW to, NEW p1, NEW B, NEW Q, NEW E,
         Going(m, bs, v, X, op, x1, to, p1, B, Q, E), x1 # to, NEW k, k = KeyIn(bs, x1, p1),
         p1 <= Count(bs, x1), Foremost(k, Rest(bs, x1, p1), Q)
  PROVE  /\ \E i, j : Reaches(AppendCopy(Pair(m, bs), to, x1, p1), bs, X, v, to, k, Val(v, x1, k), i, j)
         /\ AppendCopy(Pair(m, bs), to, x1, p1)
              = Append1(CopyOf(Pair(m, bs), x1, p1).state, to, k, CopyOf(Pair(m, bs), x1, p1).copy)
<1>1. /\ World(m, bs, X, v) /\ x1 \in DOMAIN bs /\ to \in DOMAIN bs /\ Sharers(bs, to)
      /\ Ahead(bs, X, x1, p1) /\ Whole(X, to)
  BY DEF Going
<1>2. p1 \in Owned(bs, X, x1)
  BY <1>1, AheadOwned
<1>3. \A j : Val(v, to, j) # {} => j < k
  BY FreshBelow
<1>4. Sharer(bs, x1)
  BY <1>1 DEF Sharers
<1> DEFINE s == AppendCopy(Pair(m, bs), to, x1, p1)
           x == Count(bs, to) + 1
           y == Count(bs, to) + 2
           got == CopyOf(Pair(m, bs), x1, p1)
<1>5. Reaches(s, bs, X, v, to, k, Val(v, x1, k), x, y) /\ s = Append1(got.state, to, k, got.copy)
  BY <1>1, <1>2, <1>3, <1>4, CopyReaches
<1> HIDE DEF s, x, y, got
<1>6. \E i, j : Reaches(s, bs, X, v, to, k, Val(v, x1, k), i, j)
  BY <1>5
<1> QED
  BY <1>5, <1>6 DEF s, got

LEMMA SecondCopied ==
  ASSUME NEW m, NEW bs, NEW v, NEW X, NEW op, NEW x1, NEW x2, NEW to, NEW p1, NEW p2, NEW E,
         Going2(m, bs, v, X, op, x1, x2, to, p1, p2, E), x1 # to, NEW k, k = KeyIn(bs, x2, p2),
         p2 <= Count(bs, x2), Foremost(k, Rest(bs, x1, p1), Rest(bs, x2, p2))
  PROVE  /\ \E i, j : Reaches(AppendCopy(Pair(m, bs), to, x2, p2), bs, X, v, to, k, Val(v, x2, k), i, j)
         /\ AppendCopy(Pair(m, bs), to, x2, p2)
              = Append1(CopyOf(Pair(m, bs), x2, p2).state, to, k, CopyOf(Pair(m, bs), x2, p2).copy)
<1>1. /\ World(m, bs, X, v) /\ x2 \in DOMAIN bs /\ to \in DOMAIN bs /\ Sharers(bs, to)
      /\ Ahead(bs, X, x2, p2) /\ Whole(X, to) /\ x2 # to
  BY Standing
<1>2. p2 \in Owned(bs, X, x2)
  BY <1>1, AheadOwned
<1>3. \A j : Val(v, to, j) # {} => j < k
  BY FreshBelow DEF Going2
<1>4. Sharer(bs, x2)
  BY <1>1 DEF Sharers
<1> DEFINE s == AppendCopy(Pair(m, bs), to, x2, p2)
           x == Count(bs, to) + 1
           y == Count(bs, to) + 2
           got == CopyOf(Pair(m, bs), x2, p2)
<1>5. Reaches(s, bs, X, v, to, k, Val(v, x2, k), x, y) /\ s = Append1(got.state, to, k, got.copy)
  BY <1>1, <1>2, <1>3, <1>4, CopyReaches
<1> HIDE DEF s, x, y, got
<1>6. \E i, j : Reaches(s, bs, X, v, to, k, Val(v, x2, k), i, j)
  BY <1>5
<1> QED
  BY <1>5, <1>6 DEF s, got

\* A turn at which the bitmaps meet under a key, and at which only one of them has it.
LEMMA MeetGoes ==
  ASSUME NEW m, NEW bs, NEW v, NEW op, NEW x1, NEW x2, NEW to, NEW p1, NEW p2, NEW E,
         Going2(m, bs, v, {}, op, x1, x2, to, p1, p2, E), x1 # to,
         NEW k, Meets(bs, x1, p1, x2, p2, k), NEW q1, q1 = p1 + 1, NEW q2, q2 = p2 + 1,
         NEW kind \in Kinds,
         NEW S \in SUBSET Lows, S = Due(op, Val(v, x1, k), Val(v, x2, k)),
         NEW new, new = Allocate(m, k, kind, S)
  PROVE  Goes2(Resulting(m, bs, to, k, new, S), bs, v, {}, op, x1, x2, to, q1, q2, E)
<1>1. /\ Foremost(k, Rest(bs, x1, p1), Rest(bs, x2, p2)) /\ k \in Nat
      /\ NextRest(bs, x1, p1, k, q1) /\ NextRest(bs, x2, p2, k, q2)
  BY MeetFirst
<1>2. World(m, bs, {}, v) /\ to \in DOMAIN bs /\ Whole({}, to)
  BY Standing
<1>3. (\A j : Val(v, to, j) # {} => j < k) /\ Val(v, to, k) = {}
  BY <1>1, FreshBelow DEF Going2
<1> DEFINE s == Resulting(m, bs, to, k, new, S)
<1>4. PICK i, j : Reaches(s, bs, {}, v, to, k, S, i, j)
  BY <1>1, <1>2, <1>3, ResultReaches
<1>5. Onwards(bs, {}, x1, to, p1, k, i, j, q1)
  BY <1>1, FreshOnwards
<1>6. Unspent({}, x2, q2)
  BY DEF Unspent
<1> HIDE DEF s
<1>7. Goes2(s, bs, v, {}, op, x1, x2, to, q1, q2, E)
  BY <1>1, <1>4, <1>5, <1>6, Advances2
<1> QED
  BY <1>7 DEF s

LEMMA BeforeGoes ==
  ASSUME NEW m, NEW bs, NEW v, NEW op, NEW x1, NEW x2, NEW to, NEW p1, NEW p2, NEW E,
         Going2(m, bs, v, {}, op, x1, x2, to, p1, p2, E), x1 # to, p1 <= Count(bs, x1),
         NEW k, k = KeyIn(bs, x1, p1), p2 <= Count(bs, x2) => k < KeyIn(bs, x2, p2),
         NEW q1, q1 = p1 + 1, \A A : Due(op, A, {}) = A
  PROVE  /\ Goes2(AppendCopy(Pair(m, bs), to, x1, p1), bs, v, {}, op, x1, x2, to, q1, p2, E)
         /\ AppendCopy(Pair(m, bs), to, x1, p1)
              = Append1(CopyOf(Pair(m, bs), x1, p1).state, to, k, CopyOf(Pair(m, bs), x1, p1).copy)
<1>1. /\ Foremost(k, Rest(bs, x1, p1), Rest(bs, x2, p2))
      /\ NextRest(bs, x1, p1, k, q1) /\ NextRest(bs, x2, p2, k, p2) /\ Val(v, x2, k) = {}
  BY BeforeFirst
<1> DEFINE s == AppendCopy(Pair(m, bs), to, x1, p1)
           S == Val(v, x1, k)
<1>2. \E i, j : Reaches(s, bs, {}, v, to, k, S, i, j)
  BY <1>1, FirstCopied DEF Going2
<1>3. s = Append1(CopyOf(Pair(m, bs), x1, p1).state, to, k, CopyOf(Pair(m, bs), x1, p1).copy)
  BY <1>1, FirstCopied DEF Going2
<1>4. PICK i, j : Reaches(s, bs, {}, v, to, k, S, i, j)
  BY <1>2
<1>5. Onwards(bs, {}, x1, to, p1, k, i, j, q1)
  BY <1>1, FreshOnwards
<1>6. Unspent({}, x2, p2) /\ S = Due(op, S, Val(v, x2, k))
  BY <1>1 DEF Unspent
<1> HIDE DEF s
<1>7. Goes2(s, bs, v, {}, op, x1, x2, to, q1, p2, E)
  BY <1>1, <1>4, <1>5, <1>6, Advances2
<1> QED
  BY <1>3, <1>7 DEF s

LEMMA AfterGoes ==
  ASSUME NEW m, NEW bs, NEW v, NEW op, NEW x1, NEW x2, NEW to, NEW p1, NEW p2, NEW E,
         Going2(m, bs, v, {}, op, x1, x2, to, p1, p2, E), x1 # to, p2 <= Count(bs, x2),
         NEW k, k = KeyIn(bs, x2, p2), p1 <= Count(bs, x1) => k < KeyIn(bs, x1, p1),
         NEW q2, q2 = p2 + 1, \A A : Due(op, {}, A) = A
  PROVE  /\ Goes2(AppendCopy(Pair(m, bs), to, x2, p2), bs, v, {}, op, x1, x2, to, p1, q2, E)
         /\ AppendCopy(Pair(m, bs), to, x2, p2)
              = Append1(CopyOf(Pair(m, bs), x2, p2).state, to, k, CopyOf(Pair(m, bs), x2, p2).copy)
<1>1. /\ Foremost(k, Rest(bs, x1, p1), Rest(bs, x2, p2))
      /\ NextRest(bs, x2, p2, k, q2) /\ NextRest(bs, x1, p1, k, p1) /\ Val(v, x1, k) = {}
  BY AfterFirst
<1> DEFINE s == AppendCopy(Pair(m, bs), to, x2, p2)
           S == Val(v, x2, k)
<1>2. \E i, j : Reaches(s, bs, {}, v, to, k, S, i, j)
  BY <1>1, SecondCopied
<1>3. s = Append1(CopyOf(Pair(m, bs), x2, p2).state, to, k, CopyOf(Pair(m, bs), x2, p2).copy)
  BY <1>1, SecondCopied
<1>4. PICK i, j : Reaches(s, bs, {}, v, to, k, S, i, j)
  BY <1>2
<1>5. Onwards(bs, {}, x1, to, p1, k, i, j, p1)
  BY <1>1, FreshOnwards
<1>6. Unspent({}, x2, q2) /\ S = Due(op, Val(v, x1, k), S)
  BY <1>1 DEF Unspent
<1> HIDE DEF s
<1>7. Goes2(s, bs, v, {}, op, x1, x2, to, p1, q2, E)
  BY <1>1, <1>4, <1>5, <1>6, Advances2
<1> QED
  BY <1>3, <1>7 DEF s

-----------------------------------------------------------------------------
(***************************************************************************)
(* The turns of the calls that change a bitmap by another one.             *)
(***************************************************************************)
LEMMA GapIs ==
  ASSUME NEW b, NEW lo \in Nat, NEW p \in Nat \ {0}, lo <= p
  PROVE  /\ Gap(b, lo, p - 1) \union {<<b, p>>} = Gap(b, lo, p)
         /\ Unspent(Gap(b, lo, p), b, p + 1)
         /\ \A a : a # b => Whole(Gap(b, lo, p), a)
         /\ \A a, q : a # b => Unspent(Gap(b, lo, p), a, q)
<1>1. lo .. p = lo .. p - 1 \union {p}
  OBVIOUS
<1>2. \A a, i, h : <<a, i>> \in Gap(b, lo, h) <=> a = b /\ i \in lo .. h
  BY InGap
<1> DEFINE G == Gap(b, lo, p)
<1>3. G = {<<b, i>> : i \in lo .. p} /\ Gap(b, lo, p - 1) = {<<b, i>> : i \in lo .. p - 1}
  BY DEF Gap
<1>4. Gap(b, lo, p - 1) \union {<<b, p>>} = G
  BY <1>1, <1>3
<1> HIDE DEF G
<1>5. Unspent(G, b, p + 1)
  <2>1. ASSUME NEW i \in Nat, i >= p + 1 PROVE <<b, i>> \notin G
    <3>1. i \notin lo .. p
      BY <2>1
    <3> QED
      BY <1>2, <3>1 DEF G
  <2> QED
    BY <2>1 DEF Unspent
<1>6. \A a : a # b => Whole(G, a) /\ \A q : Unspent(G, a, q)
  BY <1>2 DEF Whole, Unspent, G
<1> QED
  BY <1>4, <1>5, <1>6 DEF G

LEMMA SameOnwards ==
  ASSUME NEW bs, NEW x1, NEW p1, NEW k, NEW q1, NextRest(bs, x1, p1, k, q1), NEW Y,
         Unspent(Y, x1, q1)
  PROVE  Onwards(bs, Y, x1, x1, p1, k, q1, q1, q1)
BY DEF Onwards, NextRest

LEMMA LeavesReaches ==
  ASSUME NEW n, NEW bs, NEW Y, NEW v, NEW b, NEW k, NEW S, Leaves(n, bs, Y, v, b, k, S),
         NEW i
  PROVE  Reaches(Pair(n, bs), bs, Y, v, b, k, S, i, i)
<1>1. Alike(bs, bs, b) /\ Moves(bs, bs, b, i, i)
  BY DEF Alike, Moves, SameKeys
<1> QED
  BY <1>1 DEF Reaches

\* What both have under a key, written into the first one's container: kept, or freed.
LEMMA KeepGoes ==
  ASSUME NEW m, NEW bs, NEW v, NEW X, NEW op, NEW x1, NEW x2, NEW p1, NEW p2, NEW E,
         Going2(m, bs, v, X, op, x1, x2, x1, p1, p2, E),
         NEW size \in Nat, size < p1, X = Gap(x1, size + 1, p1 - 1),
         NEW k, Meets(bs, x1, p1, x2, p2, k), NEW q1, q1 = p1 + 1, NEW q2, q2 = p2 + 1,
         NEW S, S = Due(op, Val(v, x1, k), Val(v, x2, k)), NEW n, NEW c,
         Pending(n, c, bs, X, v, x1, k, S),
         NEW Y, Y = IF S = {} THEN Gap(x1, size + 1, p1) ELSE Gap(x1, size + 2, p1),
         NEW s, s = IF S = {} THEN Pair(ContainerFree(n, c), bs) ELSE Kept(Pair(n, bs), x1, size, k, c)
  PROVE  Goes2(s, bs, v, Y, op, x1, x2, x1, q1, q2, E)
<1>1. /\ Foremost(k, Rest(bs, x1, p1), Rest(bs, x2, p2)) /\ k \in Nat
      /\ NextRest(bs, x1, p1, k, q1) /\ NextRest(bs, x2, p2, k, q2)
      /\ p1 \in Owned(bs, X, x1)
  BY MeetFirst
<1>2. World(m, bs, X, v) /\ x1 \in DOMAIN bs /\ x2 # x1 /\ Ahead(bs, X, x1, p1) /\ x2 \in DOMAIN bs
  BY Standing
<1>3. Full(v)
  BY <1>2 DEF World
<1>4. p1 \in Nat \ {0} /\ p1 \in 1 .. Count(bs, x1) /\ k = KeyIn(bs, x1, p1)
  BY <1>2, AheadOwned DEF Meets, Ahead
<1>5. Reaches(s, bs, Y, v, x1, k, S, q1, q1) /\ Unspent(Y, x1, q1) /\ Unspent(Y, x2, q2)
  <2>1. CASE S = {}
    <3> DEFINE lo == size + 1
    <3>1. lo \in Nat /\ lo <= p1
      BY <1>4
    <3>2. Y = X \union {<<x1, p1>>} /\ Unspent(Y, x1, q1) /\ Unspent(Y, x2, q2)
      <4> HIDE DEF lo
      <4>1. /\ Gap(x1, lo, p1 - 1) \union {<<x1, p1>>} = Gap(x1, lo, p1)
            /\ Unspent(Gap(x1, lo, p1), x1, p1 + 1)
            /\ \A a, q : a # x1 => Unspent(Gap(x1, lo, p1), a, q)
        BY <1>4, <3>1, GapIs
      <4> QED
        BY <1>2, <2>1, <4>1 DEF lo
    <3>3. Leaves(ContainerFree(n, c), bs, Y, v, x1, k, {})
      BY <1>1, <1>2, <1>4, <3>2, PendingGiveUp
    <3> DEFINE f == ContainerFree(n, c)
    <3>4. s = Pair(f, bs)
      BY <2>1
    <3> HIDE DEF f
    <3>5. Leaves(f, bs, Y, v, x1, k, S)
      BY <2>1, <3>3 DEF f
    <3> QED
      BY <3>2, <3>4, <3>5, LeavesReaches
  <2>2. CASE S # {}
    <3> DEFINE lo == size + 2
    <3>1. lo \in Nat /\ lo <= p1 + 1 /\ Y = Gap(x1, lo, p1)
      BY <1>4, <2>2
    <3>2. Unspent(Y, x1, q1) /\ Unspent(Y, x2, q2)
      <4>1. \A a, i : <<a, i>> \in Y <=> a = x1 /\ i \in lo .. p1
        BY <3>1, InGap
      <4>2. \A i \in Nat : i >= q1 => i \notin lo .. p1
        BY <1>4, <3>1
      <4> HIDE DEF lo
      <4> QED
        BY <1>2, <4>1, <4>2 DEF Unspent
    <3>3. Reaches(Kept(Pair(n, bs), x1, size, k, c), bs, Y, v, x1, k, S, q1, q1)
      <4>1. Y = Gap(x1, size + 2, p1) /\ size < p1
        BY <3>1
      <4> HIDE DEF lo
      <4>2. Full(v) /\ x1 \in DOMAIN bs /\ p1 \in 1 .. Count(bs, x1) /\ k = KeyIn(bs, x1, p1)
        BY <1>2, <1>3, <1>4
      <4> QED
        BY <2>2, <4>1, <4>2, PendingKeep
    <3> QED
      BY <2>2, <3>2, <3>3
  <2> QED
    BY <2>1, <2>2
<1>6. Onwards(bs, Y, x1, x1, p1, k, q1, q1, q1)
  BY <1>1, <1>5, SameOnwards
<1> QED
  BY <1>1, <1>5, <1>6, Advances2

\* A key that the other one lacks: its container is freed, or kept as it is.
LEMMA PassGoes ==
  ASSUME NEW m, NEW bs, NEW v, NEW X, NEW op, NEW x1, NEW x2, NEW p1, NEW p2, NEW E,
         Going2(m, bs, v, X, op, x1, x2, x1, p1, p2, E),
         NEW size \in Nat, size < p1, X = Gap(x1, size + 1, p1 - 1), p1 <= Count(bs, x1),
         NEW k, k = KeyIn(bs, x1, p1), p2 <= Count(bs, x2) => k < KeyIn(bs, x2, p2),
         NEW q1, q1 = p1 + 1, NEW c, c = ConIn(bs, x1, p1)
  PROVE  /\ (\A A : Due(op, A, {}) = {}) =>
              Goes2(Pair(ContainerFree(m, c), bs), bs, v, Gap(x1, size + 1, p1), op, x1, x2, x1, q1, p2, E)
         /\ (\A A : Due(op, A, {}) = A) =>
              Goes2(Kept(Pair(m, bs), x1, size, k, c), bs, v, Gap(x1, size + 2, p1), op, x1, x2, x1, q1, p2, E)
<1>1. /\ Foremost(k, Rest(bs, x1, p1), Rest(bs, x2, p2)) /\ k \in Nat
      /\ NextRest(bs, x1, p1, k, q1) /\ NextRest(bs, x2, p2, k, p2)
      /\ p1 \in Owned(bs, X, x1) /\ Val(v, x2, k) = {}
  BY BeforeFirst
<1>2. World(m, bs, X, v) /\ x1 \in DOMAIN bs /\ x2 # x1 /\ Ahead(bs, X, x1, p1) /\ x2 \in DOMAIN bs
  BY Standing
<1>4. p1 \in Nat \ {0} /\ p1 \in 1 .. Count(bs, x1)
  BY <1>2, AheadOwned DEF Ahead
<1>5. ASSUME \A A : Due(op, A, {}) = {}
      PROVE  Goes2(Pair(ContainerFree(m, c), bs), bs, v, Gap(x1, size + 1, p1), op, x1, x2, x1, q1, p2, E)
  <2> DEFINE lo == size + 1
             Y == Gap(x1, lo, p1)
  <2>1. lo \in Nat /\ lo <= p1
    BY <1>4
  <2>2. Y = X \union {<<x1, p1>>} /\ Unspent(Y, x1, q1) /\ Unspent(Y, x2, p2)
    <3>0. X = Gap(x1, lo, p1 - 1)
      OBVIOUS
    <3> HIDE DEF lo
    <3>1. /\ Gap(x1, lo, p1 - 1) \union {<<x1, p1>>} = Gap(x1, lo, p1)
          /\ Unspent(Gap(x1, lo, p1), x1, p1 + 1)
          /\ \A a, q : a # x1 => Unspent(Gap(x1, lo, p1), a, q)
      BY <1>4, <2>1, GapIs
    <3> QED
      BY <1>2, <3>0, <3>1
  <2> HIDE DEF Y
  <2>3. Leaves(ContainerFree(m, c), bs, Y, v, x1, k, {})
    BY <1>1, <1>2, <2>2, FreePlace
  <2> DEFINE s == Pair(ContainerFree(m, c), bs)
  <2>4. Reaches(s, bs, Y, v, x1, k, {}, q1, q1)
    BY <2>3, LeavesReaches
  <2>5. Onwards(bs, Y, x1, x1, p1, k, q1, q1, q1)
    BY <1>1, <2>2, SameOnwards
  <2>6. {} = Due(op, Val(v, x1, k), Val(v, x2, k))
    BY <1>1, <1>5
  <2> HIDE DEF s
  <2>7. Goes2(s, bs, v, Y, op, x1, x2, x1, q1, p2, E)
    BY <1>1, <2>2, <2>4, <2>5, <2>6, Advances2
  <2> QED
    BY <2>7 DEF s, Y
<1>6. ASSUME \A A : Due(op, A, {}) = A
      PROVE  Goes2(Kept(Pair(m, bs), x1, size, k, c), bs, v, Gap(x1, size + 2, p1), op, x1, x2, x1, q1, p2, E)
  <2> DEFINE lo == size + 2
             Y == Gap(x1, lo, p1)
             s == Kept(Pair(m, bs), x1, size, k, c)
             S == Val(v, x1, k)
  <2>1. lo \in Nat
    OBVIOUS
  <2>2. Unspent(Y, x1, q1) /\ Unspent(Y, x2, p2)
    <3>1. \A a, i : <<a, i>> \in Y <=> a = x1 /\ i \in lo .. p1
      BY InGap
    <3>2. \A i \in Nat : i >= q1 => i \notin lo .. p1
      BY <1>4, <2>1
    <3> HIDE DEF lo, Y
    <3> QED
      BY <1>2, <3>1, <3>2 DEF Unspent
  <2>3. Reaches(s, bs, Y, v, x1, k, S, q1, q1)
    <3>1. Y = Gap(x1, size + 2, p1)
      OBVIOUS
    <3> HIDE DEF lo, Y
    <3> QED
      BY <1>2, <1>4, <3>1, KeepPlace
  <2> HIDE DEF s, Y
  <2>4. Onwards(bs, Y, x1, x1, p1, k, q1, q1, q1)
    BY <1>1, <2>2, SameOnwards
  <2>5. S = Due(op, Val(v, x1, k), Val(v, x2, k))
    BY <1>1, <1>6
  <2>6. Goes2(s, bs, v, Y, op, x1, x2, x1, q1, p2, E)
    BY <1>1, <2>2, <2>3, <2>4, <2>5, Advances2
  <2> QED
    BY <2>6 DEF s, Y
<1> QED
  BY <1>5, <1>6

\* A container that is written stays at its place, or goes if it is empty.
LEMMA SetGoes ==
  ASSUME NEW m, NEW bs, NEW v, NEW op, NEW x1, NEW x2, NEW p1, NEW p2, NEW E,
         Going2(m, bs, v, {}, op, x1, x2, x1, p1, p2, E),
         NEW k, Meets(bs, x1, p1, x2, p2, k), NEW q1, q1 = p1 + 1, NEW q2, q2 = p2 + 1,
         NEW S, S = Due(op, Val(v, x1, k), Val(v, x2, k)), NEW n, NEW c,
         Pending(n, c, bs, {}, v, x1, k, S)
  PROVE  /\ S # {} => Goes2(SetAt(Pair(n, bs), x1, p1, c), bs, v, {}, op, x1, x2, x1, q1, q2, E)
         /\ S = {} => Goes2(Change(Pair(ContainerFree(n, c), bs), x1, RemoveAt(EntriesIn(bs, x1), p1)),
                            bs, v, {}, op, x1, x2, x1, p1, q2, E)
<1>1. /\ Foremost(k, Rest(bs, x1, p1), Rest(bs, x2, p2)) /\ k \in Nat
      /\ NextRest(bs, x1, p1, k, q1) /\ NextRest(bs, x2, p2, k, q2)
      /\ p1 \in Owned(bs, {}, x1)
  BY MeetFirst
<1>2. World(m, bs, {}, v) /\ x1 \in DOMAIN bs /\ x2 # x1 /\ Ahead(bs, {}, x1, p1) /\ x2 \in DOMAIN bs
  BY Standing
<1>3. Full(v)
  BY <1>2 DEF World
<1>4. p1 \in Nat \ {0} /\ p1 \in 1 .. Count(bs, x1) /\ k = KeyIn(bs, x1, p1) /\ Count(bs, x1) \in Nat
  BY <1>2, AheadOwned DEF Meets, Ahead
<1>5. Unspent({}, x2, q2) /\ Unspent({}, x1, q1) /\ Unspent({}, x1, p1) /\ Whole({}, x1)
  BY DEF Unspent, Whole
<1>6. ASSUME S # {}
      PROVE  Goes2(SetAt(Pair(n, bs), x1, p1, c), bs, v, {}, op, x1, x2, x1, q1, q2, E)
  <2> DEFINE s == SetAt(Pair(n, bs), x1, p1, c)
  <2>1. q1 \in Nat \ {0}
    BY <1>4
  <2>2. Reaches(s, bs, {}, v, x1, k, S, q1, q1)
    <3>1. Pending(n, c, bs, {}, v, x1, KeyIn(bs, x1, p1), S)
      BY <1>4
    <3>2. Reaches(s, bs, {}, v, x1, KeyIn(bs, x1, p1), S, q1, q1)
      BY <1>1, <1>2, <1>3, <1>6, <2>1, <3>1, PendingSet
    <3> QED
      BY <1>4, <3>2
  <2>3. Onwards(bs, {}, x1, x1, p1, k, q1, q1, q1)
    BY <1>1, <1>5, SameOnwards
  <2> HIDE DEF s
  <2>4. Goes2(s, bs, v, {}, op, x1, x2, x1, q1, q2, E)
    BY <1>1, <1>5, <2>2, <2>3, Advances2
  <2> QED
    BY <2>4 DEF s
<1>7. ASSUME S = {}
      PROVE  Goes2(Change(Pair(ContainerFree(n, c), bs), x1, RemoveAt(EntriesIn(bs, x1), p1)),
                   bs, v, {}, op, x1, x2, x1, p1, q2, E)
  <2> DEFINE s == Change(Pair(ContainerFree(n, c), bs), x1, RemoveAt(EntriesIn(bs, x1), p1))
  <2>2. Reaches(s, bs, {}, v, x1, k, S, q1, p1)
    <3>1. Pending(n, c, bs, {}, v, x1, KeyIn(bs, x1, p1), S)
      BY <1>4
    <3>2. Reaches(s, bs, {}, v, x1, KeyIn(bs, x1, p1), {}, p1 + 1, p1)
      BY <1>2, <1>4, <1>5, <3>1, PendingRemove
    <3> QED
      BY <1>4, <1>7, <3>2
  <2>3. Onwards(bs, {}, x1, x1, p1, k, q1, p1, p1)
    BY <1>1, <1>5 DEF Onwards, NextRest
  <2> HIDE DEF s
  <2>4. Goes2(s, bs, v, {}, op, x1, x2, x1, p1, q2, E)
    BY <1>1, <1>5, <2>2, <2>3, Advances2
  <2> QED
    BY <2>4 DEF s
<1> QED
  BY <1>6, <1>7

\* A container that already is what it is to become.
LEMMA StayGoes ==
  ASSUME NEW m, NEW bs, NEW v, NEW op, NEW x1, NEW x2, NEW p1, NEW p2, NEW E,
         Going2(m, bs, v, {}, op, x1, x2, x1, p1, p2, E),
         NEW k, Foremost(k, Rest(bs, x1, p1), Rest(bs, x2, p2)),
         NEW q1, NextRest(bs, x1, p1, k, q1), NEW q2, NextRest(bs, x2, p2, k, q2),
         Val(v, x1, k) = Due(op, Val(v, x1, k), Val(v, x2, k))
  PROVE  Goes2(Pair(m, bs), bs, v, {}, op, x1, x2, x1, q1, q2, E)
<1>2. World(m, bs, {}, v)
  BY Standing
<1>5. Unspent({}, x2, q2) /\ Unspent({}, x1, q1)
  BY DEF Unspent
<1> DEFINE S == Val(v, x1, k)
<1>6. Leaves(m, bs, {}, v, x1, k, S)
  <2>1. Sets(v, v, x1, k, S)
    BY DEF Sets
  <2> HIDE DEF S
  <2> QED
    BY <1>2, <2>1 DEF Leaves
<1> DEFINE s == Pair(m, bs)
<1>7. Reaches(s, bs, {}, v, x1, k, S, q1, q1)
  BY <1>6, LeavesReaches
<1>8. Onwards(bs, {}, x1, x1, p1, k, q1, q1, q1)
  BY <1>5, SameOnwards
<1>9. S = Due(op, Val(v, x1, k), Val(v, x2, k))
  OBVIOUS
<1> HIDE DEF s, S
<1>10. Goes2(s, bs, v, {}, op, x1, x2, x1, q1, q2, E)
  BY <1>5, <1>7, <1>8, <1>9, Advances2
<1> QED
  BY <1>10 DEF s

\* A key that only the second one has comes to its place.
LEMMA KeysBefore ==
  ASSUME NEW m, NEW bs, NEW v, NEW op, NEW x1, NEW p1, NEW B, NEW Q, NEW E,
         Going(m, bs, v, {}, op, x1, x1, p1, B, Q, E), NEW k, Foremost(k, Rest(bs, x1, p1), Q),
         k \notin Rest(bs, x1, p1)
  PROVE  \A j \in 1 .. Count(bs, x1) :
           IF j < p1 THEN KeyIn(bs, x1, j) < k ELSE k < KeyIn(bs, x1, j)
<1>1. /\ World(m, bs, {}, v) /\ x1 \in DOMAIN bs /\ Ahead(bs, {}, x1, p1)
      /\ OnCourse(op, x1, x1, B, v, E, Rest(bs, x1, p1), Q)
  BY DEF Going
<1>2. /\ Count(bs, x1) \in Nat /\ p1 \in Nat \ {0}
  BY <1>1, AheadOwned
<1>3. Ahead(bs, {}, x1, 1)
  BY <1>2 DEF Ahead, Unspent
<1>4. /\ \A i \in 1 .. Count(bs, x1) : i \in Owned(bs, {}, x1) /\ KeyIn(bs, x1, i) \in Nat
      /\ \A i \in 1 .. Count(bs, x1) : \A j \in 1 .. Count(bs, x1) :
           i < j => KeyIn(bs, x1, i) < KeyIn(bs, x1, j)
  BY <1>1, <1>3, AheadOwned
<1>5. k \in Nat /\ \A r \in Rest(bs, x1, p1) : k < r
  <2>1. k \in Nat /\ Rest(bs, x1, p1) \subseteq Nat /\ \A r \in Rest(bs, x1, p1) : k <= r
    BY <1>1 DEF OnCourse, Foremost
  <2>2. \A r \in Rest(bs, x1, p1) : r # k
    OBVIOUS
  <2> QED
    BY <2>1, <2>2
<1> SUFFICES ASSUME NEW j \in 1 .. Count(bs, x1)
             PROVE  IF j < p1 THEN KeyIn(bs, x1, j) < k ELSE k < KeyIn(bs, x1, j)
  OBVIOUS
<1> DEFINE r == KeyIn(bs, x1, j)
<1>6. CASE j < p1
  <2>1. r \in Nat /\ r \notin Rest(bs, x1, p1)
    <3>1. \A i \in p1 .. Count(bs, x1) : i \in 1 .. Count(bs, x1) /\ j < i
      BY <1>2, <1>6
    <3>2. \A i \in p1 .. Count(bs, x1) : KeyIn(bs, x1, j) < KeyIn(bs, x1, i)
      BY <1>4, <3>1
    <3>3. \A i \in p1 .. Count(bs, x1) : KeyIn(bs, x1, j) # KeyIn(bs, x1, i)
      BY <1>2, <1>4, <3>1, <3>2
    <3> QED
      BY <1>4, <3>3 DEF Rest
  <2>2. Val(v, x1, r) # {}
    BY <1>1, <1>4, ReadPlace
  <2> HIDE DEF r
  <2>3. Behind(r, Rest(bs, x1, p1), Q)
    BY <1>1, <2>1, <2>2 DEF OnCourse
  <2>4. r < k
    BY <2>3 DEF Behind, Foremost
  <2> QED
    BY <1>6, <2>4 DEF r
<1>7. CASE ~(j < p1)
  <2>1. j \in p1 .. Count(bs, x1)
    BY <1>2, <1>7
  <2>2. r \in Rest(bs, x1, p1)
    BY <2>1 DEF Rest
  <2> HIDE DEF r
  <2>3. k < r
    BY <1>5, <2>2
  <2> QED
    BY <1>7, <2>3 DEF r
<1> QED
  BY <1>6, <1>7

LEMMA InsertGoes ==
  ASSUME NEW m, NEW bs, NEW v, NEW op, NEW x1, NEW x2, NEW p1, NEW p2, NEW E,
         Going2(m, bs, v, {}, op, x1, x2, x1, p1, p2, E), p1 <= Count(bs, x1), p2 <= Count(bs, x2),
         NEW k, k = KeyIn(bs, x2, p2), k < KeyIn(bs, x1, p1), NEW q1, q1 = p1 + 1,
         NEW q2, q2 = p2 + 1, \A A : Due(op, {}, A) = A,
         NEW got, got = CopyOf(Pair(m, bs), x2, p2)
  PROVE  Goes2(Change(got.state, x1, InsertAt(EntriesIn(got.state.bitmaps, x1), p1, Entry(k, got.copy))),
               bs, v, {}, op, x1, x2, x1, q1, q2, E)
<1>1. /\ Foremost(k, Rest(bs, x1, p1), Rest(bs, x2, p2)) /\ k \in Nat
      /\ NextRest(bs, x2, p2, k, q2) /\ NextRest(bs, x1, p1, k, p1)
      /\ p2 \in Owned(bs, {}, x2) /\ Val(v, x1, k) = {}
  BY AfterFirst
<1>2. /\ World(m, bs, {}, v) /\ x1 \in DOMAIN bs /\ x2 \in DOMAIN bs /\ x2 # x1 /\ Sharer(bs, x2)
      /\ Ahead(bs, {}, x1, p1)
  BY Standing DEF Sharers
<1>3. /\ p1 \in Nat \ {0} /\ Count(bs, x1) \in Nat /\ p1 \in 1 .. Count(bs, x1) + 1
      /\ \A i \in p1 .. Count(bs, x1) : KeyIn(bs, x1, i) \in Nat
      /\ \A i \in p1 .. Count(bs, x1) : \A j \in p1 .. Count(bs, x1) :
              i < j => KeyIn(bs, x1, i) < KeyIn(bs, x1, j)
  BY <1>2, AheadOwned DEF Ahead
<1>4. Whole({}, x1) /\ Unspent({}, x1, q1) /\ Unspent({}, x2, q2)
  BY DEF Whole, Unspent
<1>5. k \notin Rest(bs, x1, p1)
  <2>1. \A i \in p1 .. Count(bs, x1) : i = p1 \/ p1 < i
    BY <1>3
  <2>2. \A i \in p1 .. Count(bs, x1) : k < KeyIn(bs, x1, i)
    BY <1>1, <1>3, <2>1
  <2>3. \A i \in p1 .. Count(bs, x1) : k # KeyIn(bs, x1, i)
    BY <1>1, <1>3, <2>2
  <2> QED
    BY <2>3 DEF Rest
<1>6. \A j \in 1 .. Count(bs, x1) : IF j < p1 THEN KeyIn(bs, x1, j) < k ELSE k < KeyIn(bs, x1, j)
  BY <1>1, <1>5, KeysBefore DEF Going2
<1> DEFINE s == Change(got.state, x1, InsertAt(EntriesIn(got.state.bitmaps, x1), p1, Entry(k, got.copy)))
           S == Val(v, x2, k)
<1>7. Reaches(s, bs, {}, v, x1, k, S, p1, q1)
  BY <1>1, <1>2, <1>3, <1>4, <1>6, InsertCopyReaches
<1>8. Onwards(bs, {}, x1, x1, p1, k, p1, q1, q1)
  BY <1>1, <1>3, <1>4 DEF Onwards, NextRest
<1>9. S = Due(op, Val(v, x1, k), Val(v, x2, k))
  BY <1>1
<1> HIDE DEF s, S
<1>10. Goes2(s, bs, v, {}, op, x1, x2, x1, q1, q2, E)
  BY <1>1, <1>4, <1>7, <1>8, <1>9, Advances2
<1> QED
  BY <1>10 DEF s

LEMMA AppendGoes ==
  ASSUME NEW m, NEW bs, NEW v, NEW op, NEW x1, NEW x2, NEW p1, NEW p2, NEW E,
         Going2(m, bs, v, {}, op, x1, x2, x1, p1, p2, E), ~(p1 <= Count(bs, x1)), p2 <= Count(bs, x2),
         NEW k, k = KeyIn(bs, x2, p2), NEW q1, q1 = p1 + 1, NEW q2, q2 = p2 + 1,
         \A A : Due(op, {}, A) = A
  PROVE  Goes2(AppendCopy(Pair(m, bs), x1, x2, p2), bs, v, {}, op, x1, x2, x1, q1, q2, E)
<1>1. /\ Foremost(k, Rest(bs, x1, p1), Rest(bs, x2, p2)) /\ k \in Nat
      /\ NextRest(bs, x2, p2, k, q2) /\ NextRest(bs, x1, p1, k, p1)
      /\ p2 \in Owned(bs, {}, x2) /\ Val(v, x1, k) = {}
  BY AfterFirst
<1>2. /\ World(m, bs, {}, v) /\ x1 \in DOMAIN bs /\ x2 \in DOMAIN bs /\ x2 # x1 /\ Sharer(bs, x2)
      /\ Ahead(bs, {}, x1, p1)
      /\ OnCourse(op, x1, x1, Vals(v, x2), v, E, Rest(bs, x1, p1), Rest(bs, x2, p2))
  BY Standing DEF Sharers
<1>3. p1 = Count(bs, x1) + 1 /\ Count(bs, x1) \in Nat /\ p1 \in Nat
  BY <1>2, AheadOwned DEF Ahead
<1>4. Whole({}, x1) /\ Unspent({}, x1, q1) /\ Unspent({}, x2, q2)
  BY DEF Whole, Unspent
<1>5. Rest(bs, x1, p1) = {}
  <2>1. p1 .. Count(bs, x1) = {}
    BY <1>3
  <2> QED
    BY <2>1 DEF Rest
<1>6. \A j : Val(v, x1, j) # {} => j < k
  <2> SUFFICES ASSUME NEW j, Val(v, x1, j) # {}
               PROVE  j < k
    OBVIOUS
  <2>1. j \in Nat
    BY <1>2, ValKeys
  <2>2. Behind(j, Rest(bs, x1, p1), Rest(bs, x2, p2))
    BY <1>2, <1>5, <2>1 DEF OnCourse
  <2> QED
    BY <1>1, <2>2 DEF Behind, Foremost
<1> DEFINE s == AppendCopy(Pair(m, bs), x1, x2, p2)
           S == Val(v, x2, k)
<1>7. Reaches(s, bs, {}, v, x1, k, S, p1, q1)
  <2>1. Reaches(s, bs, {}, v, x1, k, S, Count(bs, x1) + 1, Count(bs, x1) + 2)
    BY <1>1, <1>2, <1>4, <1>6, CopyReaches
  <2>2. q1 = Count(bs, x1) + 2
    BY <1>3
  <2> QED
    BY <1>3, <2>1, <2>2
<1>8. Onwards(bs, {}, x1, x1, p1, k, p1, q1, q1)
  <2>1. p1 \in 1 .. Count(bs, x1) + 1
    BY <1>2 DEF Ahead
  <2> QED
    BY <1>4, <1>5, <2>1 DEF Onwards
<1>9. S = Due(op, Val(v, x1, k), Val(v, x2, k))
  BY <1>1
<1> HIDE DEF s, S
<1>10. Goes2(s, bs, v, {}, op, x1, x2, x1, q1, q2, E)
  BY <1>1, <1>4, <1>7, <1>8, <1>9, Advances2
<1> QED
  BY <1>10 DEF s

-----------------------------------------------------------------------------
(***************************************************************************)
(* The invariant: at every step there are values v of which memory and     *)
(* bitmaps are a sound account, and the call is on its course.             *)
(***************************************************************************)

\* The calls, by what their loops do with the bitmaps.
Making == {"and", "or", "xor", "andnot"}
Gapped == {"and_inplace", "andnot_inplace"}
TwoOps == Making \union Gapped \union {"or_inplace", "xor_inplace", "consume"}
OneOps == {"copy", "convert", "remove_run_compression"}
LoopOps == TwoOps \union OneOps \union {"flip", "flip_inplace", "free"}

\* The places that the call has given up.
Hole(op, x1, x2, p1, p2, n) ==
  IF op \in Gapped THEN Gap(x1, n + 1, p1 - 1)
  ELSE IF op = "consume" THEN Gap(x1, 1, p1 - 1) \union Gap(x2, 1, p2 - 1)
  ELSE {}

\* Which of the bitmaps of a call may be the same.
Roles(op, x1, x2, to) ==
  /\ op \in Making \union {"copy", "consume", "flip"} => x1 # to
  /\ op \in LoopOps \ (Making \union {"copy", "consume", "flip"}) => to = x1
  /\ op = "consume" => x1 # x2

\* The call c at other positions.
Turned(c, p1, p2, n, hb) ==
  [op |-> c.op, stage |-> c.stage, x1 |-> c.x1, x2 |-> c.x2, to |-> c.to, pos1 |-> p1,
   pos2 |-> p2, size |-> n, hb |-> hb, range |-> c.range, expected |-> c.expected]
IsCall(c) == c = Turned(c, c.pos1, c.pos2, c.size, c.hb)

\* The course of the calls with two bitmaps, and of those with one.
Course2(m, bs, v, op, x1, x2, to, p1, p2, n, E) ==
  /\ n \in Nat /\ (op \in Gapped => n < p1)
  /\ Going2(m, bs, v, Hole(op, x1, x2, p1, p2, n), op, x1, x2, to, p1, p2, E)
Course1(m, bs, v, op, x1, to, p1, E) == Going(m, bs, v, {}, op, x1, to, p1, Nothing, {}, E)

\* The values that a flip of the range inverts, and the keys that have them.
RangeOf(range) == [k \in Nat |-> {x \in Lows : Width * k + x \in range[1] .. range[2] - 1}]

\* The last key of a range, and the ranges that a flip does not refuse.
LastOf(range) == High(range[2] - 1)
Ranges == {r \in Nat \X Nat : r[1] < r[2]}

\* The course of a flip.
Flipping(m, bs, v, op, x1, to, p1, hb, range, E) ==
  /\ range \in Ranges /\ hb \in High(range[1]) .. LastOf(range) + 1
  /\ Going(m, bs, v, {}, op, x1, to, p1, RangeOf(range), hb .. LastOf(range), E)

\* The place at which a flip in place is: that of the first key from hb on.
FlippingAt(m, bs, v, x1, hb, range, E) ==
  \E p : /\ Flipping(m, bs, v, "flip_inplace", x1, x1, p, hb, range, E)
         /\ \A k \in Nat : Val(v, x1, k) # {} => (k \in Rest(bs, x1, p) <=> k >= hb)

\* The course of roaring_bitmap_free.
Freeing(m, bs, v, x1, p1) ==
  /\ x1 \in DOMAIN bs /\ World(m, bs, Gap(x1, 1, p1 - 1), v) /\ Sharers(bs, x1)
  /\ Ahead(bs, Gap(x1, 1, p1 - 1), x1, p1)

\* The course of every call.
Course(m, bs, v, op, x1, x2, to, p1, p2, n, hb, range, E) ==
  /\ op \in TwoOps => Course2(m, bs, v, op, x1, x2, to, p1, p2, n, E)
  /\ op \in OneOps => Course1(m, bs, v, op, x1, to, p1, E)
  /\ op = "flip" => Flipping(m, bs, v, op, x1, to, p1, hb, range, E)
  /\ op = "flip_inplace" => FlippingAt(m, bs, v, x1, hb, range, E)
  /\ op = "free" => Freeing(m, bs, v, x1, p1)

\* A call within its loop, a call that has ended, and no call.
Looping(m, bs, v, c) ==
  /\ c.op \in LoopOps /\ Roles(c.op, c.x1, c.x2, c.to)
  /\ Course(m, bs, v, c.op, c.x1, c.x2, c.to, c.pos1, c.pos2, c.size, c.hb, c.range, Layers(c.expected))
Finished(m, bs, v, c) ==
  /\ World(m, bs, {}, v) /\ Sharers(bs, c.to)
  /\ c.op # "free" => c.to \in DOMAIN bs /\ \A k \in Nat : Val(v, c.to, k) = Layer(c.expected, k)
Resting(m, bs, v) == World(m, bs, {}, v) /\ \A b \in DOMAIN bs : Sharer(bs, b)

\* The invariant for given values.
On(m, bs, v, c) ==
  /\ IsCall(c) /\ c.expected \in SUBSET Nat /\ c.stage \in {"idle", "loop", "done"}
  /\ c.stage = "idle" => c = NoCall /\ Resting(m, bs, v)
  /\ c.stage = "loop" => Looping(m, bs, v, c)
  /\ c.stage = "done" => Finished(m, bs, v, c)

\* What every step does: to the bitmaps that the call is not about, nothing.
Steps(v) ==
  \E w : /\ On(memory', bitmaps', w, call')
         /\ Elsewhere(bitmaps, bitmaps', v, w, Touched(call) \union Touched(call'))

LEMMA TurnedIs ==
  ASSUME NEW c, NEW p1, NEW p2, NEW n, NEW hb, NEW d, d = Turned(c, p1, p2, n, hb)
  PROVE  /\ d.op = c.op /\ d.stage = c.stage /\ d.x1 = c.x1 /\ d.x2 = c.x2 /\ d.to = c.to
         /\ d.pos1 = p1 /\ d.pos2 = p2 /\ d.size = n /\ d.hb = hb /\ d.range = c.range
         /\ d.expected = c.expected /\ IsCall(d) /\ Touched(d) = Touched(c)
BY DEF Turned, IsCall, Touched

LEMMA CallField ==
  ASSUME NEW c, IsCall(c), NEW x
  PROVE  /\ [c EXCEPT !.pos1 = x] = Turned(c, x, c.pos2, c.size, c.hb)
         /\ [c EXCEPT !.pos2 = x] = Turned(c, c.pos1, x, c.size, c.hb)
         /\ [c EXCEPT !.size = x] = Turned(c, c.pos1, c.pos2, x, c.hb)
         /\ [c EXCEPT !.hb = x] = Turned(c, c.pos1, c.pos2, c.size, x)
<1>1. [c EXCEPT !.pos1 = x] = Turned(c, x, c.pos2, c.size, c.hb)
  BY DEF Turned, IsCall
<1>2. [c EXCEPT !.pos2 = x] = Turned(c, c.pos1, x, c.size, c.hb)
  BY DEF Turned, IsCall
<1>3. [c EXCEPT !.size = x] = Turned(c, c.pos1, c.pos2, x, c.hb)
  BY DEF Turned, IsCall
<1>4. [c EXCEPT !.hb = x] = Turned(c, c.pos1, c.pos2, c.size, x)
  BY DEF Turned, IsCall
<1> QED
  BY <1>1, <1>2, <1>3, <1>4

LEMMA TurnedTwice ==
  ASSUME NEW c, NEW p1, NEW p2, NEW n, NEW hb, NEW q1, NEW q2, NEW l, NEW x
  PROVE  Turned(Turned(c, p1, p2, n, hb), q1, q2, l, x) = Turned(c, q1, q2, l, x)
BY DEF Turned

LEMMA CallMoves ==
  ASSUME NEW c, IsCall(c), NEW p1, NEW p2
  PROVE  /\ [c EXCEPT !.pos1 = p1, !.pos2 = p2] = Turned(c, p1, p2, c.size, c.hb)
         /\ \A n : [c EXCEPT !.pos1 = p1, !.pos2 = p2, !.size = n] = Turned(c, p1, p2, n, c.hb)
         /\ \A n : [c EXCEPT !.pos1 = p1, !.size = n] = Turned(c, p1, c.pos2, n, c.hb)
         /\ \A hb : [c EXCEPT !.hb = hb] = Turned(c, c.pos1, c.pos2, c.size, hb)
         /\ \A hb : [c EXCEPT !.hb = hb, !.pos1 = p1] = Turned(c, p1, c.pos2, c.size, hb)
<1> DEFINE d == [c EXCEPT !.pos1 = p1]
<1>1. d = Turned(c, p1, c.pos2, c.size, c.hb)
  BY CallField
<1>2. /\ IsCall(d) /\ d.pos1 = p1 /\ d.pos2 = c.pos2 /\ d.size = c.size /\ d.hb = c.hb
      /\ \A q1, q2, l, x : Turned(d, q1, q2, l, x) = Turned(c, q1, q2, l, x)
  <2> HIDE DEF d
  <2> QED
    BY <1>1, TurnedIs, TurnedTwice
<1> DEFINE e == [d EXCEPT !.pos2 = p2]
<1>3. e = Turned(c, p1, p2, c.size, c.hb)
  <2> HIDE DEF d
  <2>1. [d EXCEPT !.pos2 = p2] = Turned(d, d.pos1, p2, d.size, d.hb)
    BY <1>2, CallField
  <2> QED
    BY <1>2, <2>1
<1>4. /\ IsCall(e) /\ e.pos1 = p1 /\ e.pos2 = p2 /\ e.size = c.size /\ e.hb = c.hb
      /\ \A q1, q2, l, x : Turned(e, q1, q2, l, x) = Turned(c, q1, q2, l, x)
  <2> HIDE DEF e
  <2> QED
    BY <1>3, TurnedIs, TurnedTwice
<1>5. [c EXCEPT !.pos1 = p1, !.pos2 = p2] = Turned(c, p1, p2, c.size, c.hb)
  BY <1>3 DEF e, d
<1>6. ASSUME NEW n PROVE [c EXCEPT !.pos1 = p1, !.pos2 = p2, !.size = n] = Turned(c, p1, p2, n, c.hb)
  <2>1. [e EXCEPT !.size = n] = Turned(c, p1, p2, n, c.hb)
    <3> HIDE DEF e
    <3>1. [e EXCEPT !.size = n] = Turned(e, e.pos1, e.pos2, n, e.hb)
      BY <1>4, CallField
    <3> QED
      BY <1>4, <3>1
  <2> QED
    BY <2>1 DEF e, d
<1>7. ASSUME NEW n PROVE [c EXCEPT !.pos1 = p1, !.size = n] = Turned(c, p1, c.pos2, n, c.hb)
  <2>1. [d EXCEPT !.size = n] = Turned(c, p1, c.pos2, n, c.hb)
    <3> HIDE DEF d
    <3>1. [d EXCEPT !.size = n] = Turned(d, d.pos1, d.pos2, n, d.hb)
      BY <1>2, CallField
    <3> QED
      BY <1>2, <3>1
  <2> QED
    BY <2>1 DEF d
<1>8. ASSUME NEW hb PROVE [c EXCEPT !.hb = hb] = Turned(c, c.pos1, c.pos2, c.size, hb)
  BY CallField
<1>9. ASSUME NEW hb PROVE [c EXCEPT !.hb = hb, !.pos1 = p1] = Turned(c, p1, c.pos2, c.size, hb)
  <2> DEFINE f == [c EXCEPT !.hb = hb]
  <2>1. f = Turned(c, c.pos1, c.pos2, c.size, hb)
    BY CallField
  <2> HIDE DEF f
  <2>2. /\ IsCall(f) /\ f.pos1 = c.pos1 /\ f.pos2 = c.pos2 /\ f.size = c.size /\ f.hb = hb
        /\ \A q1, q2, l, x : Turned(f, q1, q2, l, x) = Turned(c, q1, q2, l, x)
    BY <2>1, TurnedIs, TurnedTwice
  <2>3. [f EXCEPT !.pos1 = p1] = Turned(c, p1, c.pos2, c.size, hb)
    <3>1. [f EXCEPT !.pos1 = p1] = Turned(f, p1, f.pos2, f.size, f.hb)
      BY <2>2, CallField
    <3> QED
      BY <2>2, <3>1
  <2> QED
    BY <2>3 DEF f
<1> QED
  BY <1>5, <1>6, <1>7, <1>8, <1>9

\* The call at its end.
Ended(c) == [c EXCEPT !.stage = "done"]

LEMMA EndedIs ==
  ASSUME NEW c, IsCall(c), NEW d, d = Ended(c)
  PROVE  /\ d.op = c.op /\ d.stage = "done" /\ d.x1 = c.x1 /\ d.x2 = c.x2 /\ d.to = c.to
         /\ d.expected = c.expected /\ IsCall(d) /\ Touched(d) = Touched(c)
BY DEF Turned, IsCall, Touched, Ended

LEMMA BecomeIs ==
  ASSUME NEW n, NEW u, Become(Pair(n, u))
  PROVE  memory' = n /\ bitmaps' = u
BY DEF Become, Pair

\* What the module calls by names of its own.
LEMMA Terms ==
  /\ State = Pair(memory, bitmaps)
  /\ Left1 <=> call.pos1 <= Count(bitmaps, call.x1)
  /\ Left2 <=> call.pos2 <= Count(bitmaps, call.x2)
  /\ Key1 = KeyIn(bitmaps, call.x1, call.pos1) /\ Key2 = KeyIn(bitmaps, call.x2, call.pos2)
  /\ C1 = ConIn(bitmaps, call.x1, call.pos1) /\ C2 = ConIn(bitmaps, call.x2, call.pos2)
  /\ \A b, key, pos : AdvanceUntil(b, key, pos) = Until(bitmaps, b, key, pos)
  /\ \A b : Entries(b) = EntriesIn(bitmaps, b) /\ Size(b) = Count(bitmaps, b)
  /\ \A b, i : KeyAt(b, i) = KeyIn(bitmaps, b, i) /\ At(b, i) = ConIn(bitmaps, b, i)
<1>1. State = Pair(memory, bitmaps)
  BY DEF State, Pair
<1>2. \A b : Entries(b) = EntriesIn(bitmaps, b) /\ Size(b) = Count(bitmaps, b)
  BY DEF Entries, EntriesIn, Size, Count
<1>3. \A b, i : KeyAt(b, i) = KeyIn(bitmaps, b, i) /\ At(b, i) = ConIn(bitmaps, b, i)
  BY DEF Entries, KeyAt, KeyIn, At, ConIn
<1>4. \A b, key, pos : AdvanceUntil(b, key, pos) = Until(bitmaps, b, key, pos)
  BY <1>2, <1>3 DEF AdvanceUntil, Until
<1> QED
  BY <1>1, <1>2, <1>3, <1>4 DEF Left1, Left2, Key1, Key2, C1, C2

\* A call with two bitmaps, taken to pieces.
LEMMA Taken2 ==
  ASSUME NEW v, On(memory, bitmaps, v, call), call.stage = "loop", call.op \in TwoOps
  PROVE  /\ Roles(call.op, call.x1, call.x2, call.to) /\ call.size \in Nat /\ IsCall(call)
         /\ call.op \in Gapped => call.size < call.pos1
         /\ Going2(memory, bitmaps, v, Hole(call.op, call.x1, call.x2, call.pos1, call.pos2, call.size),
                   call.op, call.x1, call.x2, call.to, call.pos1, call.pos2, Layers(call.expected))
BY DEF On, Looping, Course, Course2

LEMMA StandsGoes2 ==
  ASSUME NEW m, NEW bs, NEW v, NEW X, NEW op, NEW x1, NEW x2, NEW to, NEW p1, NEW p2, NEW E,
         Going2(m, bs, v, X, op, x1, x2, to, p1, p2, E)
  PROVE  Goes2(Pair(m, bs), bs, v, X, op, x1, x2, to, p1, p2, E)
<1>1. Elsewhere(bs, bs, v, v, {to})
  BY DEF Elsewhere
<1> QED
  BY <1>1 DEF Goes2

LEMMA ElsewhereMore ==
  ASSUME NEW bs, NEW u, NEW v, NEW w, NEW G, NEW H, Elsewhere(bs, u, v, w, G), G \subseteq H
  PROVE  Elsewhere(bs, u, v, w, H)
BY DEF Elsewhere

LEMMA Turn2 ==
  ASSUME NEW v, On(memory, bitmaps, v, call), call.stage = "loop", call.op \in TwoOps,
         NEW p1, NEW p2, NEW n \in Nat, call.op \in Gapped => n < p1,
         NEW s, Become(s),
         NEW Y, Y = Hole(call.op, call.x1, call.x2, p1, p2, n),
         Goes2(s, bitmaps, v, Y,
               call.op, call.x1, call.x2, call.to, p1, p2, Layers(call.expected)),
         call' = Turned(call, p1, p2, n, call.hb)
  PROVE  Steps(v)
<1>1. PICK m, u, w : /\ s = Pair(m, u) /\ Elsewhere(bitmaps, u, v, w, {call.to})
                     /\ Going2(m, u, w, Y, call.op, call.x1,
                               call.x2, call.to, p1, p2, Layers(call.expected))
  BY DEF Goes2
<1>2. memory' = m /\ bitmaps' = u
  BY <1>1, BecomeIs
<1> DEFINE d == call'
<1>3. /\ d.op = call.op /\ d.stage = call.stage /\ d.x1 = call.x1 /\ d.x2 = call.x2 /\ d.to = call.to
      /\ d.pos1 = p1 /\ d.pos2 = p2 /\ d.size = n /\ d.hb = call.hb /\ d.range = call.range
      /\ d.expected = call.expected /\ IsCall(d) /\ Touched(d) = Touched(call)
  BY TurnedIs
<1>4. /\ call.op \in LoopOps /\ Roles(call.op, call.x1, call.x2, call.to)
      /\ call.expected \in SUBSET Nat
  BY DEF On, Looping
<1> HIDE DEF d
<1>5. Course2(m, u, w, call.op, call.x1, call.x2, call.to, p1, p2, n, Layers(call.expected))
  BY <1>1 DEF Course2
<1>6. Course(m, u, w, call.op, call.x1, call.x2, call.to, p1, p2, n, call.hb, call.range, Layers(call.expected))
  <2>1. /\ call.op \notin OneOps /\ call.op # "flip" /\ call.op # "flip_inplace" /\ call.op # "free"
    BY DEF TwoOps, OneOps, Making, Gapped
  <2> QED
    BY <1>5, <2>1 DEF Course
<1>7. Looping(m, u, w, d)
  BY <1>3, <1>4, <1>6 DEF Looping
<1>8. On(m, u, w, d)
  BY <1>3, <1>4, <1>7 DEF On
<1>9. Elsewhere(bitmaps, u, v, w, Touched(call) \union Touched(d))
  <2>1. {call.to} \subseteq Touched(call) \union Touched(d)
    BY DEF Touched
  <2> QED
    BY <1>1, <2>1, ElsewhereMore
<1> QED
  BY <1>2, <1>8, <1>9 DEF Steps, d

\* The end of a call.
LEMMA Closing ==
  ASSUME NEW v, On(memory, bitmaps, v, call), call.op # "free", call' = Ended(call),
         NEW w, World(memory', bitmaps', {}, w),
         Sharers(bitmaps', call.to), call.to \in DOMAIN bitmaps',
         \A k \in Nat : Val(w, call.to, k) = Layers(call.expected)[k],
         Elsewhere(bitmaps, bitmaps', v, w, {call.to})
  PROVE  Steps(v)
<1> DEFINE d == call'
<1>1. IsCall(call) /\ call.expected \in SUBSET Nat
  BY DEF On
<1>2. /\ d.op = call.op /\ d.stage = "done" /\ d.to = call.to
      /\ d.expected = call.expected /\ IsCall(d) /\ Touched(d) = Touched(call)
  BY <1>1, EndedIs
<1> HIDE DEF d
<1>3. Finished(memory', bitmaps', w, d)
  BY <1>2 DEF Finished, Layers
<1>4. On(memory', bitmaps', w, d)
  BY <1>1, <1>2, <1>3 DEF On
<1>5. Elsewhere(bitmaps, bitmaps', v, w, Touched(call) \union Touched(d))
  <2>1. {call.to} \subseteq Touched(call) \union Touched(d)
    BY DEF Touched
  <2> QED
    BY <2>1, ElsewhereMore
<1> QED
  BY <1>4, <1>5 DEF Steps, d

LEMMA Closing2 ==
  ASSUME NEW v,
         On(memory, bitmaps, v, call), call.stage = "loop", call.op \in TwoOps \ (Gapped \union {"consume"}),
         UNCHANGED <<memory, bitmaps>>, call' = Ended(call),
         \/ ~Left1 /\ ~Left2
         \/ ~Left1 /\ Skips2(call.op)
         \/ ~Left2 /\ Skips1(call.op, call.x1, call.to)
  PROVE  Steps(v)
<1>1. Going2(memory, bitmaps, v, {}, call.op, call.x1, call.x2, call.to, call.pos1, call.pos2,
             Layers(call.expected))
  BY Taken2 DEF Hole
<1>2. \A k \in Nat : Val(v, call.to, k) = Layers(call.expected)[k]
  BY <1>1, Ends2, Terms
<1>3. World(memory, bitmaps, {}, v) /\ call.to \in DOMAIN bitmaps /\ Sharers(bitmaps, call.to)
  BY <1>1, Standing
<1>4. Elsewhere(bitmaps, bitmaps, v, v, {call.to})
  BY DEF Elsewhere
<1>5. call.op # "free"
  BY DEF TwoOps, Gapped, Making
<1> QED
  BY <1>2, <1>3, <1>4, <1>5, Closing

\* What a turn sees at which both bitmaps have the same key.
LEMMA MetIs ==
  ASSUME NEW v, On(memory, bitmaps, v, call), call.stage = "loop", call.op \in TwoOps, Meet
  PROVE  /\ Meets(bitmaps, call.x1, call.pos1, call.x2, call.pos2, Key1) /\ Key1 \in Nat
         /\ Values1 = Val(v, call.x1, Key1) /\ Values2 = Val(v, call.x2, Key1) /\ BothRead = memory
         /\ Values1 \subseteq Lows /\ Values2 \subseteq Lows /\ Values1 # {} /\ Values2 # {}
         /\ Read(memory, C1) = memory
<1> DEFINE X == Hole(call.op, call.x1, call.x2, call.pos1, call.pos2, call.size)
<1>1. Going2(memory, bitmaps, v, X, call.op, call.x1, call.x2, call.to, call.pos1, call.pos2,
             Layers(call.expected))
  BY Taken2
<1> HIDE DEF X
<1>2. Meets(bitmaps, call.x1, call.pos1, call.x2, call.pos2, Key1)
  BY Terms DEF Meet, Meets
<1>3. /\ Key1 \in Nat /\ call.pos1 \in Owned(bitmaps, X, call.x1) /\ call.pos2 \in Owned(bitmaps, X, call.x2)
  BY <1>1, <1>2, MeetFirst
<1>4. World(memory, bitmaps, X, v) /\ call.x1 \in DOMAIN bitmaps /\ call.x2 \in DOMAIN bitmaps
  BY <1>1, Standing
<1>5. C1 = ConIn(bitmaps, call.x1, call.pos1) /\ C2 = ConIn(bitmaps, call.x2, call.pos2)
  BY Terms
<1>6. Key1 = KeyIn(bitmaps, call.x1, call.pos1)
  BY <1>2 DEF Meets
<1>61. Key1 = KeyIn(bitmaps, call.x2, call.pos2)
  BY <1>2 DEF Meets
<1>7. /\ ValuesAt(memory, C1) = Val(v, call.x1, Key1) /\ Val(v, call.x1, Key1) # {}
      /\ Val(v, call.x1, Key1) \subseteq Lows /\ Read(memory, C1) = memory
  BY <1>3, <1>4, <1>5, <1>6, ReadPlace
<1>8. /\ ValuesAt(memory, C2) = Val(v, call.x2, Key1) /\ Val(v, call.x2, Key1) # {}
      /\ Val(v, call.x2, Key1) \subseteq Lows /\ Read(memory, C2) = memory
  BY <1>3, <1>4, <1>5, <1>61, ReadPlace
<1> QED
  BY <1>2, <1>3, <1>7, <1>8 DEF Values1, Values2, BothRead

\* How far a call with two bitmaps and no gaps has come.
LEMMA TakenWhole ==
  ASSUME NEW v, On(memory, bitmaps, v, call), call.stage = "loop",
         call.op \in TwoOps \ (Gapped \union {"consume"})
  PROVE  /\ Roles(call.op, call.x1, call.x2, call.to) /\ call.size \in Nat /\ IsCall(call)
         /\ Going2(memory, bitmaps, v, {}, call.op, call.x1, call.x2, call.to, call.pos1, call.pos2,
                   Layers(call.expected))
BY Taken2 DEF Hole

LEMMA TurnWhole ==
  ASSUME NEW v, On(memory, bitmaps, v, call), call.stage = "loop",
         call.op \in TwoOps \ (Gapped \union {"consume"}),
         NEW p1, NEW p2, NEW s, Become(s), Move(p1, p2),
         Goes2(s, bitmaps, v, {}, call.op, call.x1, call.x2, call.to, p1, p2, Layers(call.expected))
  PROVE  Steps(v)
<1>1. call.size \in Nat /\ IsCall(call)
  BY TakenWhole
<1>2. call' = Turned(call, p1, p2, call.size, call.hb)
  BY <1>1, CallMoves, Zenon DEF Move
<1>3. {} = Hole(call.op, call.x1, call.x2, p1, p2, call.size)
  BY DEF Hole
<1>4. (call.op \in Gapped => call.size < p1) /\ call.op \in TwoOps
  OBVIOUS
<1> QED
  BY <1>1, <1>2, <1>3, <1>4, Turn2

LEMMA ResultTurn ==
  ASSUME NEW v, On(memory, bitmaps, v, call), call.stage = "loop", call.op \in Making,
         Meet, NEW S, S = Due(call.op, Values1, Values2), S \subseteq Lows, AppendResult(S),
         Move(call.pos1 + 1, call.pos2 + 1)
  PROVE  Steps(v)
<1>1. call.op \in TwoOps \ (Gapped \union {"consume"}) /\ call.op \in TwoOps
  BY DEF TwoOps, Gapped, Making
<1>2. /\ Roles(call.op, call.x1, call.x2, call.to)
      /\ Going2(memory, bitmaps, v, {}, call.op, call.x1, call.x2, call.to, call.pos1, call.pos2,
                   Layers(call.expected))
  BY <1>1, TakenWhole
<1>3. /\ Meets(bitmaps, call.x1, call.pos1, call.x2, call.pos2, Key1)
      /\ Values1 = Val(v, call.x1, Key1) /\ Values2 = Val(v, call.x2, Key1) /\ BothRead = memory
  BY <1>1, MetIs
<1>4. call.x1 # call.to
  BY <1>2 DEF Roles
<1>5. PICK kind \in Kinds :
        LET new == Allocate(BothRead, Key1, kind, S)
        IN  Become(Resulting(memory, bitmaps, call.to, Key1, new, S))
  BY Terms DEF AppendResult, Resulting
<1> DEFINE new == Allocate(memory, Key1, kind, S)
           s == Resulting(memory, bitmaps, call.to, Key1, new, S)
<1>6. Become(s)
  BY <1>3, <1>5
<1>7. Goes2(s, bitmaps, v, {}, call.op, call.x1, call.x2, call.to, call.pos1 + 1, call.pos2 + 1,
            Layers(call.expected))
  <2>1. S = Due(call.op, Val(v, call.x1, Key1), Val(v, call.x2, Key1))
    BY <1>3
  <2> QED
    BY <1>2, <1>3, <1>4, <2>1, MeetGoes
<1> HIDE DEF s, new
<1> QED
  BY <1>1, <1>6, <1>7, TurnWhole

\* A key that only one of them has, copied to the answer.
LEMMA CopyFirstTurn ==
  ASSUME NEW v, On(memory, bitmaps, v, call), call.stage = "loop", call.op \in Making,
         Left1, Left2 => Key1 < Key2, \A A : Due(call.op, A, {}) = A,
         \/ Become(AppendCopy(State, call.to, call.x1, call.pos1))
         \/ CopyTo(call.x1, call.pos1),
         Move(call.pos1 + 1, call.pos2)
  PROVE  Steps(v)
<1>1. call.op \in TwoOps \ (Gapped \union {"consume"}) /\ call.op \in TwoOps
  BY DEF TwoOps, Gapped, Making
<1>2. /\ Roles(call.op, call.x1, call.x2, call.to)
      /\ Going2(memory, bitmaps, v, {}, call.op, call.x1, call.x2, call.to, call.pos1, call.pos2,
                   Layers(call.expected))
  BY <1>1, TakenWhole
<1>4. call.x1 # call.to
  BY <1>2 DEF Roles
<1> DEFINE k == Key1
           s == AppendCopy(State, call.to, call.x1, call.pos1)
           got == CopyOf(State, call.x1, call.pos1)
<1>5. /\ k = KeyIn(bitmaps, call.x1, call.pos1) /\ call.pos1 <= Count(bitmaps, call.x1)
      /\ call.pos2 <= Count(bitmaps, call.x2) => k < KeyIn(bitmaps, call.x2, call.pos2)
      /\ State = Pair(memory, bitmaps) /\ KeyAt(call.x1, call.pos1) = k
  BY Terms
<1>6. /\ Goes2(s, bitmaps, v, {}, call.op, call.x1, call.x2, call.to, call.pos1 + 1, call.pos2,
               Layers(call.expected))
      /\ s = Append1(got.state, call.to, k, got.copy)
  <2> HIDE DEF k
  <2> QED
    BY <1>2, <1>4, <1>5, BeforeGoes
<1>7. Become(s)
  BY <1>5, <1>6 DEF CopyTo
<1> HIDE DEF s, k, got
<1> QED
  BY <1>1, <1>6, <1>7, TurnWhole

LEMMA CopySecondTurn ==
  ASSUME NEW v, On(memory, bitmaps, v, call), call.stage = "loop", call.op \in Making,
         Left2, Left1 => Key2 < Key1, \A A : Due(call.op, {}, A) = A,
         \/ Become(AppendCopy(State, call.to, call.x2, call.pos2))
         \/ CopyTo(call.x2, call.pos2),
         Move(call.pos1, call.pos2 + 1)
  PROVE  Steps(v)
<1>1. call.op \in TwoOps \ (Gapped \union {"consume"}) /\ call.op \in TwoOps
  BY DEF TwoOps, Gapped, Making
<1>2. /\ Roles(call.op, call.x1, call.x2, call.to)
      /\ Going2(memory, bitmaps, v, {}, call.op, call.x1, call.x2, call.to, call.pos1, call.pos2,
                   Layers(call.expected))
  BY <1>1, TakenWhole
<1>4. call.x1 # call.to
  BY <1>2 DEF Roles
<1> DEFINE k == Key2
           s == AppendCopy(State, call.to, call.x2, call.pos2)
           got == CopyOf(State, call.x2, call.pos2)
<1>5. /\ k = KeyIn(bitmaps, call.x2, call.pos2) /\ call.pos2 <= Count(bitmaps, call.x2)
      /\ call.pos1 <= Count(bitmaps, call.x1) => k < KeyIn(bitmaps, call.x1, call.pos1)
      /\ State = Pair(memory, bitmaps) /\ KeyAt(call.x2, call.pos2) = k
  BY Terms
<1>6. /\ Goes2(s, bitmaps, v, {}, call.op, call.x1, call.x2, call.to, call.pos1, call.pos2 + 1,
               Layers(call.expected))
      /\ s = Append1(got.state, call.to, k, got.copy)
  <2> HIDE DEF k
  <2> QED
    BY <1>2, <1>4, <1>5, AfterGoes
<1>7. Become(s)
  BY <1>5, <1>6 DEF CopyTo
<1> HIDE DEF s, k, got
<1> QED
  BY <1>1, <1>6, <1>7, TurnWhole

\* Keys that are passed over.
LEMMA SkipFirstTurn ==
  ASSUME NEW v, On(memory, bitmaps, v, call), call.stage = "loop", call.op \in Making,
         Before, Skips1(call.op, call.x1, call.to), UNCHANGED <<memory, bitmaps>>,
         Move(AdvanceUntil(call.x1, Key2, call.pos1), call.pos2)
  PROVE  Steps(v)
<1>1. call.op \in TwoOps \ (Gapped \union {"consume"})
  BY DEF TwoOps, Gapped, Making
<1>2. Going2(memory, bitmaps, v, {}, call.op, call.x1, call.x2, call.to, call.pos1, call.pos2,
             Layers(call.expected))
  BY <1>1, TakenWhole
<1> DEFINE q == Until(bitmaps, call.x1, Key2, call.pos1)
           s == Pair(memory, bitmaps)
<1>3. /\ Key1 = KeyIn(bitmaps, call.x1, call.pos1) /\ call.pos1 <= Count(bitmaps, call.x1)
      /\ Key2 = KeyIn(bitmaps, call.x2, call.pos2) /\ call.pos2 <= Count(bitmaps, call.x2)
      /\ Key1 < Key2 /\ q = AdvanceUntil(call.x1, Key2, call.pos1)
  BY Terms DEF Before
<1>4. Going2(memory, bitmaps, v, {}, call.op, call.x1, call.x2, call.to, q, call.pos2,
             Layers(call.expected))
  BY <1>2, <1>3, SkipFirst
<1>5. Goes2(s, bitmaps, v, {}, call.op, call.x1, call.x2, call.to, q, call.pos2,
            Layers(call.expected))
  <2> HIDE DEF q
  <2> QED
    BY <1>4, StandsGoes2
<1>6. Become(s) /\ Move(q, call.pos2)
  BY <1>3 DEF Become, Pair
<1> HIDE DEF q, s
<1> QED
  BY <1>1, <1>5, <1>6, TurnWhole

LEMMA SkipSecondTurn ==
  ASSUME NEW v,
         On(memory, bitmaps, v, call), call.stage = "loop", call.op \in Making \union Gapped,
         After, Skips2(call.op), UNCHANGED <<memory, bitmaps>>,
         Move(call.pos1, AdvanceUntil(call.x2, Key1, call.pos2))
  PROVE  Steps(v)
<1>1. call.op \in TwoOps /\ call.op # "consume"
  BY DEF TwoOps, Gapped, Making
<1> DEFINE X == Hole(call.op, call.x1, call.x2, call.pos1, call.pos2, call.size)
<1>2. Going2(memory, bitmaps, v, X, call.op, call.x1, call.x2, call.to, call.pos1, call.pos2,
             Layers(call.expected))
  BY <1>1, Taken2
<1> DEFINE q == Until(bitmaps, call.x2, Key1, call.pos2)
           s == Pair(memory, bitmaps)
<1>3. /\ Key1 = KeyIn(bitmaps, call.x1, call.pos1) /\ call.pos1 <= Count(bitmaps, call.x1)
      /\ Key2 = KeyIn(bitmaps, call.x2, call.pos2) /\ call.pos2 <= Count(bitmaps, call.x2)
      /\ Key2 < Key1 /\ q = AdvanceUntil(call.x2, Key1, call.pos2)
  <2>1. Key1 \in Nat /\ Key2 \in Nat
    <3> HIDE DEF X
    <3>1. /\ World(memory, bitmaps, X, v) /\ call.x1 \in DOMAIN bitmaps /\ call.x2 \in DOMAIN bitmaps
          /\ Ahead(bitmaps, X, call.x1, call.pos1) /\ Ahead(bitmaps, X, call.x2, call.pos2)
      BY <1>2, Standing
    <3>2. call.pos1 \in Owned(bitmaps, X, call.x1) /\ call.pos2 \in Owned(bitmaps, X, call.x2)
      BY <3>1, Terms, AheadOwned DEF After
    <3>3. KeyIn(bitmaps, call.x1, call.pos1) \in Nat
      BY <3>1, <3>2, ReadPlace
    <3>4. KeyIn(bitmaps, call.x2, call.pos2) \in Nat
      BY <3>1, <3>2, ReadPlace
    <3> QED
      BY <3>3, <3>4, Terms
  <2> QED
    BY <2>1, Terms DEF After
<1>4. Going2(memory, bitmaps, v, X, call.op, call.x1, call.x2, call.to, call.pos1, q,
             Layers(call.expected))
  <2> HIDE DEF X
  <2> QED
    BY <1>2, <1>3, SkipSecond
<1>41. X = Hole(call.op, call.x1, call.x2, call.pos1, q, call.size)
  BY <1>1 DEF Hole
<1>5. Goes2(s, bitmaps, v, X, call.op, call.x1, call.x2, call.to, call.pos1, q,
            Layers(call.expected))
  <2> HIDE DEF q, X
  <2> QED
    BY <1>4, StandsGoes2
<1>6. Become(s) /\ Move(call.pos1, q)
  BY <1>3 DEF Become, Pair
<1>7. IsCall(call) /\ call.size \in Nat /\ (call.op \in Gapped => call.size < call.pos1)
  BY <1>1, Taken2
<1>8. call' = Turned(call, call.pos1, q, call.size, call.hb)
  BY <1>6, <1>7, CallMoves, Zenon DEF Move
<1> HIDE DEF q, s, X
<1> QED
  BY <1>1, <1>41, <1>5, <1>6, <1>7, <1>8, Turn2

\* After Key1 > Key2 the second key is the smaller one.
LEMMA AfterIs ==
  ASSUME NEW v, On(memory, bitmaps, v, call), call.stage = "loop", call.op \in TwoOps, After
  PROVE  Key2 < Key1
<1> DEFINE X == Hole(call.op, call.x1, call.x2, call.pos1, call.pos2, call.size)
<1>2. Going2(memory, bitmaps, v, X, call.op, call.x1, call.x2, call.to, call.pos1, call.pos2,
             Layers(call.expected))
  BY Taken2
<1> HIDE DEF X
<1>3. /\ World(memory, bitmaps, X, v) /\ call.x1 \in DOMAIN bitmaps /\ call.x2 \in DOMAIN bitmaps
      /\ Ahead(bitmaps, X, call.x1, call.pos1) /\ Ahead(bitmaps, X, call.x2, call.pos2)
  BY <1>2, Standing
<1>4. call.pos1 \in Owned(bitmaps, X, call.x1) /\ call.pos2 \in Owned(bitmaps, X, call.x2)
  BY <1>3, Terms, AheadOwned DEF After
<1>5. KeyIn(bitmaps, call.x1, call.pos1) \in Nat
  BY <1>3, <1>4, ReadPlace
<1>6. KeyIn(bitmaps, call.x2, call.pos2) \in Nat
  BY <1>3, <1>4, ReadPlace
<1> QED
  BY <1>5, <1>6, Terms DEF After

LEMMA DoneIs ==
  ASSUME Done
  PROVE  call' = Ended(call)
BY DEF Done, Ended

LEMMA AndSteps ==
  ASSUME NEW v, On(memory, bitmaps, v, call), AndTurn
  PROVE  Steps(v)
<1>1. call.stage = "loop" /\ call.op = "and"
  BY DEF AndTurn, Doing
<1>2. call.op \in Making /\ call.op \in TwoOps \ (Gapped \union {"consume"}) /\ call.op \in TwoOps
  BY <1>1 DEF TwoOps, Making, Gapped
<1>3. call.x1 # call.to
  BY <1>1, <1>2, TakenWhole DEF Roles
<1>4. /\ \A A, B : Due(call.op, A, B) = A \intersect B
      /\ \A A : Due(call.op, A, {}) = {} /\ Due(call.op, {}, A) = {}
  BY <1>1, DueIs
<1>5. Skips1(call.op, call.x1, call.to) /\ Skips2(call.op)
  BY <1>3, <1>4 DEF Skips1, Skips2
<1>6. CASE Meet /\ AppendResult(Values1 \intersect Values2) /\ Move(call.pos1 + 1, call.pos2 + 1)
  <2>1. Values1 \intersect Values2 \subseteq Lows
    BY <1>1, <1>2, <1>6, MetIs
  <2>2. Values1 \intersect Values2 = Due(call.op, Values1, Values2)
    BY <1>4
  <2> QED
    BY <1>1, <1>2, <1>6, <2>1, <2>2, ResultTurn
<1>7. CASE Before /\ UNCHANGED <<memory, bitmaps>> /\ Move(AdvanceUntil(call.x1, Key2, call.pos1), call.pos2)
  BY <1>1, <1>2, <1>5, <1>7, SkipFirstTurn
<1>8. CASE After /\ UNCHANGED <<memory, bitmaps>> /\ Move(call.pos1, AdvanceUntil(call.x2, Key1, call.pos2))
  BY <1>1, <1>2, <1>5, <1>8, SkipSecondTurn
<1>9. CASE ~(Left1 /\ Left2) /\ Done /\ UNCHANGED <<memory, bitmaps>>
  BY <1>1, <1>2, <1>5, <1>9, Closing2, DoneIs
<1> QED
  BY <1>6, <1>7, <1>8, <1>9 DEF AndTurn

LEMMA UniteSteps ==
  ASSUME NEW v,
         On(memory, bitmaps, v, call), call.stage = "loop", call.op \in {"or", "xor"},
         NEW S, UniteTurn(S),
         Values1 \subseteq Lows /\ Values2 \subseteq Lows =>
           S = Due(call.op, Values1, Values2) /\ S \subseteq Lows
  PROVE  Steps(v)
<1>2. call.op \in Making /\ call.op \in TwoOps \ (Gapped \union {"consume"}) /\ call.op \in TwoOps
  BY DEF TwoOps, Making, Gapped
<1>4. \A A : Due(call.op, A, {}) = A /\ Due(call.op, {}, A) = A
  BY DueIs
<1>5. CASE Meet /\ AppendResult(S) /\ Move(call.pos1 + 1, call.pos2 + 1)
  <2>1. Values1 \subseteq Lows /\ Values2 \subseteq Lows
    BY <1>2, <1>5, MetIs
  <2> QED
    BY <1>2, <1>5, <2>1, ResultTurn
<1>6. CASE Before /\ CopyTo(call.x1, call.pos1) /\ Move(call.pos1 + 1, call.pos2)
  <2>1. Left1 /\ (Left2 => Key1 < Key2)
    BY <1>6 DEF Before
  <2> QED
    BY <1>2, <1>4, <1>6, <2>1, CopyFirstTurn
<1>7. CASE After /\ CopyTo(call.x2, call.pos2) /\ Move(call.pos1, call.pos2 + 1)
  <2>1. Left2 /\ (Left1 => Key2 < Key1)
    BY <1>2, <1>7, AfterIs DEF After
  <2> QED
    BY <1>2, <1>4, <1>7, <2>1, CopySecondTurn
<1>8. CASE /\ ~Left1 /\ Left2 /\ Move(call.pos1, call.pos2 + 1)
           /\ Become(AppendCopy(State, call.to, call.x2, call.pos2))
  BY <1>2, <1>4, <1>8, CopySecondTurn
<1>9. CASE /\ Left1 /\ ~Left2 /\ Move(call.pos1 + 1, call.pos2)
           /\ Become(AppendCopy(State, call.to, call.x1, call.pos1))
  BY <1>2, <1>4, <1>9, CopyFirstTurn
<1>10. CASE ~Left1 /\ ~Left2 /\ Done /\ UNCHANGED <<memory, bitmaps>>
  BY <1>2, <1>10, Closing2, DoneIs
<1> QED
  BY <1>5, <1>6, <1>7, <1>8, <1>9, <1>10 DEF UniteTurn

LEMMA OrXorSteps ==
  ASSUME NEW v, On(memory, bitmaps, v, call), OrTurn \/ XorTurn
  PROVE  Steps(v)
<1>1. CASE OrTurn
  <2>1. call.stage = "loop" /\ call.op = "or" /\ UniteTurn(Values1 \union Values2)
    BY <1>1 DEF OrTurn, Doing
  <2>2. Values1 \union Values2 = Due(call.op, Values1, Values2)
    BY <2>1, DueIs
  <2>3. Values1 \subseteq Lows /\ Values2 \subseteq Lows => Values1 \union Values2 \subseteq Lows
    OBVIOUS
  <2> QED
    BY <2>1, <2>2, <2>3, UniteSteps
<1>2. CASE XorTurn
  <2>1. call.stage = "loop" /\ call.op = "xor" /\ UniteTurn(SymDiff(Values1, Values2))
    BY <1>2 DEF XorTurn, Doing
  <2>2. SymDiff(Values1, Values2) = Due(call.op, Values1, Values2)
    BY <2>1, DueIs
  <2>3. Values1 \subseteq Lows /\ Values2 \subseteq Lows => SymDiff(Values1, Values2) \subseteq Lows
    BY SymDiffIs
  <2> QED
    BY <2>1, <2>2, <2>3, UniteSteps
<1> QED
  BY <1>1, <1>2

LEMMA AndNotSteps ==
  ASSUME NEW v, On(memory, bitmaps, v, call), AndNotTurn
  PROVE  Steps(v)
<1>1. call.stage = "loop" /\ call.op = "andnot"
  BY DEF AndNotTurn, Doing
<1>2. call.op \in Making /\ call.op \in TwoOps \ (Gapped \union {"consume"}) /\ call.op \in TwoOps
  BY <1>1 DEF TwoOps, Making, Gapped
<1>4. /\ \A A, B : Due(call.op, A, B) = A \ B
      /\ \A A : Due(call.op, A, {}) = A /\ Due(call.op, {}, A) = {}
  BY <1>1, DueIs
<1>5. Skips2(call.op)
  BY <1>4 DEF Skips2
<1>6. CASE Meet /\ AppendResult(Values1 \ Values2) /\ Move(call.pos1 + 1, call.pos2 + 1)
  <2>1. Values1 \ Values2 \subseteq Lows
    BY <1>1, <1>2, <1>6, MetIs
  <2>2. Values1 \ Values2 = Due(call.op, Values1, Values2)
    BY <1>4
  <2> QED
    BY <1>1, <1>2, <1>6, <2>1, <2>2, ResultTurn
<1>7. CASE /\ (Before \/ (Left1 /\ ~Left2))
           /\ Become(AppendCopy(State, call.to, call.x1, call.pos1))
           /\ Move(call.pos1 + 1, call.pos2)
  <2>1. Left1 /\ (Left2 => Key1 < Key2)
    BY <1>7 DEF Before
  <2> QED
    BY <1>1, <1>2, <1>4, <1>7, <2>1, CopyFirstTurn
<1>8. CASE After /\ UNCHANGED <<memory, bitmaps>> /\ Move(call.pos1, AdvanceUntil(call.x2, Key1, call.pos2))
  BY <1>1, <1>2, <1>5, <1>8, SkipSecondTurn
<1>9. CASE ~Left1 /\ Done /\ UNCHANGED <<memory, bitmaps>>
  BY <1>1, <1>2, <1>5, <1>9, Closing2, DoneIs
<1> QED
  BY <1>6, <1>7, <1>8, <1>9 DEF AndNotTurn

\* A call with two bitmaps that writes the first one.
Inplace == {"and_inplace", "andnot_inplace", "or_inplace", "xor_inplace"}

LEMMA WrittenMet ==
  ASSUME NEW v,
         On(memory, bitmaps, v, call), call.stage = "loop", call.op \in Inplace, Meet,
         NEW X, X = Hole(call.op, call.x1, call.x2, call.pos1, call.pos2, call.size),
         NEW own, own = ExtractCopy(memory, C1)
  PROVE  /\ Read(own.memory, C2) = own.memory
         /\ ValuesAt(own.memory, own.container) = Values1
         /\ ValuesAt(own.memory, C2) = Values2
         /\ \A S \in SUBSET Lows : \A r \in InPlace(own.memory, own.container, S) :
              Pending(r.memory, r.container, bitmaps, X, v, call.x1, Key1, S)
<1>0. call.op \in TwoOps
  BY DEF Inplace, TwoOps, Gapped
<1>1. /\ Going2(memory, bitmaps, v, X, call.op, call.x1, call.x2, call.to, call.pos1, call.pos2,
                Layers(call.expected))
      /\ Roles(call.op, call.x1, call.x2, call.to)
  BY <1>0, Taken2
<1>2. Meets(bitmaps, call.x1, call.pos1, call.x2, call.pos2, Key1)
  BY Terms DEF Meet, Meets
<1>3. /\ Key1 \in Nat /\ call.pos1 \in Owned(bitmaps, X, call.x1) /\ call.pos2 \in Owned(bitmaps, X, call.x2)
  BY <1>1, <1>2, MeetFirst
<1>4. /\ World(memory, bitmaps, X, v) /\ call.x1 \in DOMAIN bitmaps /\ call.x2 \in DOMAIN bitmaps
      /\ call.x2 # call.to
  BY <1>1, Standing
<1>5. call.to = call.x1
  BY <1>1 DEF Roles, Inplace, Making, LoopOps, TwoOps, Gapped
<1>6. C1 = ConIn(bitmaps, call.x1, call.pos1) /\ C2 = ConIn(bitmaps, call.x2, call.pos2)
  BY Terms
<1>7. Values1 = Val(v, call.x1, Key1) /\ Values2 = Val(v, call.x2, Key1)
  BY <1>0, MetIs
<1> DEFINE b == call.x1
           d == call.x2
           i == call.pos1
           j == call.pos2
           k == KeyIn(bitmaps, b, i)
           l == KeyIn(bitmaps, d, j)
<1>8. k = Key1 /\ l = Key1
  BY <1>2 DEF Meets
<1> HIDE DEF k, l
<1>9. /\ ValuesAt(own.memory, own.container) = Val(v, b, k)
      /\ \A a \in DOMAIN bitmaps : \A n \in Owned(bitmaps, X, a) : a # b =>
                  /\ Read(own.memory, ConIn(bitmaps, a, n)) = own.memory
                  /\ ValuesAt(own.memory, ConIn(bitmaps, a, n)) = Val(v, a, KeyIn(bitmaps, a, n))
      /\ \A S \in SUBSET Lows : \A r \in InPlace(own.memory, own.container, S) :
                  Pending(r.memory, r.container, bitmaps, X, v, b, k, S)
  BY <1>3, <1>4, <1>6, ExtractReads DEF k
<1>10. Read(own.memory, C2) = own.memory /\ ValuesAt(own.memory, C2) = Val(v, d, l)
  BY <1>3, <1>4, <1>5, <1>6, <1>9 DEF l
<1> QED
  BY <1>7, <1>8, <1>9, <1>10

LEMMA KeepTurn ==
  ASSUME NEW v, On(memory, bitmaps, v, call), call.stage = "loop", call.op \in Gapped, Meet,
         NEW r, NEW S, S = Due(call.op, Values1, Values2),
         Pending(r.memory, r.container, bitmaps,
                 Hole(call.op, call.x1, call.x2, call.pos1, call.pos2, call.size), v, call.x1, Key1, S),
         KeepOrFree(r)
  PROVE  Steps(v)
<1>0. call.op \in TwoOps /\ call.op # "consume"
  BY DEF TwoOps, Gapped
<1> DEFINE X == Hole(call.op, call.x1, call.x2, call.pos1, call.pos2, call.size)
           n == call.size
           p1 == call.pos1
           p2 == call.pos2
           x1 == call.x1
           x2 == call.x2
           k == Key1
           E == Layers(call.expected)
<1>1. /\ Going2(memory, bitmaps, v, X, call.op, x1, x2, call.to, p1, p2, E)
      /\ Roles(call.op, call.x1, call.x2, call.to) /\ n \in Nat /\ n < p1 /\ IsCall(call)
  BY <1>0, Taken2
<1>2. X = Gap(x1, n + 1, p1 - 1)
  BY DEF Hole
<1>3. call.to = x1
  BY <1>1 DEF Roles, Making, LoopOps, TwoOps, Gapped
<1>4. Meets(bitmaps, x1, p1, x2, p2, k) /\ Values1 = Val(v, x1, k) /\ Values2 = Val(v, x2, k)
  BY <1>0, MetIs
<1>5. Pending(r.memory, r.container, bitmaps, X, v, x1, k, S)
  OBVIOUS
<1>6. ValuesOf(r) = S
  <2> HIDE DEF X, k
  <2> QED
    BY <1>5, PendingRead DEF ValuesOf
<1>7. p1 \in Nat
  <2> HIDE DEF X
  <2>1. World(memory, bitmaps, X, v) /\ Ahead(bitmaps, X, x1, p1) /\ x1 \in DOMAIN bitmaps
    BY <1>1, Standing
  <2> QED
    BY <2>1, AheadOwned
<1> DEFINE Y == IF S = {} THEN Gap(x1, n + 1, p1) ELSE Gap(x1, n + 2, p1)
           s == IF S = {} THEN Pair(ContainerFree(r.memory, r.container), bitmaps)
                ELSE Kept(Pair(r.memory, bitmaps), x1, n, k, r.container)
           l == IF S = {} THEN n ELSE n + 1
<1>8. Become(s) /\ call' = Turned(call, p1 + 1, p2 + 1, l, call.hb)
  <2>1. CASE S = {}
    <3>1. Become(WithMemory(State, ContainerFree(r.memory, r.container)))
          /\ call' = [call EXCEPT !.pos1 = call.pos1 + 1, !.pos2 = call.pos2 + 1]
      BY <1>6, <2>1 DEF KeepOrFree
    <3>2. WithMemory(State, ContainerFree(r.memory, r.container)) = s
      BY <2>1, Terms, WithMemoryIs
    <3>3. call' = Turned(call, p1 + 1, p2 + 1, call.size, call.hb)
      BY <1>1, <3>1, CallMoves, Zenon
    <3> QED
      BY <2>1, <3>1, <3>2, <3>3
  <2>2. CASE S # {}
    <3>1. Become([WithMemory(State, r.memory) EXCEPT
                    !.bitmaps[call.x1].entries[call.size + 1] = Entry(Key1, r.container)])
          /\ call' = [call EXCEPT !.pos1 = call.pos1 + 1, !.pos2 = call.pos2 + 1, !.size = call.size + 1]
      BY <1>6, <2>2 DEF KeepOrFree
    <3>2. [WithMemory(State, r.memory) EXCEPT
                    !.bitmaps[call.x1].entries[call.size + 1] = Entry(Key1, r.container)] = s
      <4>1. WithMemory(State, r.memory) = Pair(r.memory, bitmaps)
        BY Terms, WithMemoryIs
      <4>2. s = Kept(Pair(r.memory, bitmaps), x1, n, k, r.container)
        BY <2>2
      <4> QED
        BY <4>1, <4>2 DEF Kept
    <3>3. call' = Turned(call, p1 + 1, p2 + 1, call.size + 1, call.hb)
      <4>1. \A q1, q2, q : [call EXCEPT !.pos1 = q1, !.pos2 = q2, !.size = q]
                             = Turned(call, q1, q2, q, call.hb)
        BY <1>1, CallMoves, Zenon
      <4>2. [call EXCEPT !.pos1 = call.pos1 + 1, !.pos2 = call.pos2 + 1, !.size = call.size + 1]
              = Turned(call, p1 + 1, p2 + 1, call.size + 1, call.hb)
        BY <4>1
      <4> QED
        BY <3>1, <4>2
    <3> QED
      BY <2>2, <3>1, <3>2, <3>3
  <2> QED
    BY <2>1, <2>2
<1>9. /\ Goes2(s, bitmaps, v, Y, call.op, x1, x2, x1, p1 + 1, p2 + 1, E)
  <2>1. S = Due(call.op, Val(v, x1, k), Val(v, x2, k))
    BY <1>4
  <2>2. Going2(memory, bitmaps, v, X, call.op, x1, x2, x1, p1, p2, E)
    BY <1>1, <1>3
  <2> HIDE DEF X, k, E, n, p1, p2, x1, x2
  <2> QED
    BY <1>1, <1>2, <1>4, <1>5, <2>1, <2>2, KeepGoes
<1>10. Y = Hole(call.op, x1, x2, p1 + 1, p2 + 1, l) /\ l \in Nat /\ l < p1 + 1
  <2>1. p1 + 1 - 1 = p1 /\ n + 1 + 1 = n + 2
    BY <1>1, <1>7
  <2> QED
    BY <1>1, <1>7, <2>1 DEF Hole
<1> HIDE DEF Y, s, l, E
<1>11. Goes2(s, bitmaps, v, Y, call.op, call.x1, call.x2, call.to, p1 + 1, p2 + 1, E)
  BY <1>3, <1>9
<1> QED
  BY <1>0, <1>8, <1>10, <1>11, Turn2 DEF E

LEMMA ToBecome ==
  ASSUME NEW n, NEW u, memory' = n, bitmaps' = u
  PROVE  Become(Pair(n, u))
BY DEF Become, Pair

LEMMA GappedHole ==
  ASSUME NEW op \in Gapped, NEW x1, NEW x2, NEW p \in Nat, NEW p2, NEW n \in Nat
  PROVE  /\ Hole(op, x1, x2, p + 1, p2, n) = Gap(x1, n + 1, p)
         /\ Hole(op, x1, x2, p + 1, p2, n + 1) = Gap(x1, n + 2, p)
<1>1. \A q, l : Hole(op, x1, x2, q, p2, l) = Gap(x1, l + 1, q - 1)
  BY DEF Hole
<1>2. p + 1 - 1 = p /\ n + 1 + 1 = n + 2
  OBVIOUS
<1>3. Hole(op, x1, x2, p + 1, p2, n) = Gap(x1, n + 1, p + 1 - 1)
  BY <1>1
<1>4. Hole(op, x1, x2, p + 1, p2, n + 1) = Gap(x1, n + 1 + 1, p + 1 - 1)
  BY <1>1
<1> QED
  BY <1>2, <1>3, <1>4

\* The same at a key that the other one lacks.
LEMMA PassTurn ==
  ASSUME NEW v, On(memory, bitmaps, v, call), call.stage = "loop", call.op \in Gapped,
         Left1, Left2 => Key1 < Key2,
         \/ /\ \A A : Due(call.op, A, {}) = {}
            /\ Become(WithMemory(State, ContainerFree(memory, C1))) /\ Move(call.pos1 + 1, call.pos2)
         \/ /\ \A A : Due(call.op, A, {}) = A
            /\ memory' = memory
            /\ bitmaps' = [bitmaps EXCEPT ![call.x1].entries[call.size + 1] = Entry(Key1, C1)]
            /\ call' = [call EXCEPT !.pos1 = @ + 1, !.size = @ + 1]
  PROVE  Steps(v)
<1>0. call.op \in TwoOps /\ call.op # "consume"
  BY DEF TwoOps, Gapped
<1> DEFINE X == Hole(call.op, call.x1, call.x2, call.pos1, call.pos2, call.size)
           n == call.size
           p1 == call.pos1
           p2 == call.pos2
           x1 == call.x1
           x2 == call.x2
           k == Key1
           c == C1
           E == Layers(call.expected)
<1>1. /\ Going2(memory, bitmaps, v, X, call.op, x1, x2, call.to, p1, p2, E)
      /\ Roles(call.op, call.x1, call.x2, call.to) /\ n \in Nat /\ n < p1 /\ IsCall(call)
  BY <1>0, Taken2
<1>2. X = Gap(x1, n + 1, p1 - 1)
  BY DEF Hole
<1>3. call.to = x1
  BY <1>1 DEF Roles, Making, LoopOps, TwoOps, Gapped
<1>4. /\ k = KeyIn(bitmaps, x1, p1) /\ c = ConIn(bitmaps, x1, p1) /\ p1 <= Count(bitmaps, x1)
      /\ p2 <= Count(bitmaps, x2) => k < KeyIn(bitmaps, x2, p2)
  BY Terms
<1>5. World(memory, bitmaps, X, v) /\ Ahead(bitmaps, X, x1, p1) /\ x1 \in DOMAIN bitmaps
  <2> HIDE DEF X
  <2> QED
    BY <1>1, Standing
<1>6. p1 \in Nat /\ p1 \in 1 .. Count(bitmaps, x1)
  <2> HIDE DEF X
  <2> QED
    BY <1>4, <1>5, AheadOwned DEF Ahead
<1>7. Going2(memory, bitmaps, v, X, call.op, x1, x2, x1, p1, p2, E)
  BY <1>1, <1>3
<1> DEFINE Y1 == Gap(x1, n + 1, p1)
           Y2 == Gap(x1, n + 2, p1)
           s1 == Pair(ContainerFree(memory, c), bitmaps)
           s2 == Kept(Pair(memory, bitmaps), x1, n, k, c)
<1>8. /\ (\A A : Due(call.op, A, {}) = {}) =>
              Goes2(s1, bitmaps, v, Y1, call.op, x1, x2, x1, p1 + 1, p2, E)
      /\ (\A A : Due(call.op, A, {}) = A) =>
              Goes2(s2, bitmaps, v, Y2, call.op, x1, x2, x1, p1 + 1, p2, E)
  <2> HIDE DEF X, k, E, n, p1, p2, x1, x2, c
  <2> QED
    BY <1>1, <1>2, <1>4, <1>7, PassGoes
<1>9. /\ Y1 = Hole(call.op, x1, x2, p1 + 1, p2, n) /\ n < p1 + 1
      /\ Y2 = Hole(call.op, x1, x2, p1 + 1, p2, n + 1) /\ n + 1 \in Nat /\ n + 1 < p1 + 1
  <2>1. n < p1 + 1 /\ n + 1 < p1 + 1 /\ n + 1 \in Nat
    BY <1>1, <1>6
  <2>2. Y1 = Hole(call.op, x1, x2, p1 + 1, p2, n) /\ Y2 = Hole(call.op, x1, x2, p1 + 1, p2, n + 1)
    BY <1>1, <1>6, GappedHole
  <2> QED
    BY <2>1, <2>2
<1>10. CASE /\ \A A : Due(call.op, A, {}) = {}
            /\ Become(WithMemory(State, ContainerFree(memory, C1))) /\ Move(call.pos1 + 1, call.pos2)
  <2>1. Become(s1)
    BY <1>10, Terms, WithMemoryIs
  <2>2. call' = Turned(call, p1 + 1, p2, n, call.hb)
    BY <1>1, <1>10, CallMoves, Zenon DEF Move
  <2>3. Goes2(s1, bitmaps, v, Y1, call.op, call.x1, call.x2, call.to, p1 + 1, p2, E)
    BY <1>3, <1>8, <1>10
  <2> HIDE DEF Y1, s1, E
  <2> QED
    BY <1>0, <1>1, <1>9, <2>1, <2>2, <2>3, Turn2 DEF E
<1>11. CASE /\ \A A : Due(call.op, A, {}) = A
            /\ memory' = memory
            /\ bitmaps' = [bitmaps EXCEPT ![call.x1].entries[call.size + 1] = Entry(Key1, C1)]
            /\ call' = [call EXCEPT !.pos1 = @ + 1, !.size = @ + 1]
  <2>1. s2 = Pair(memory, KeptIn(bitmaps, x1, n, k, c))
    <3>1. Y2 = Gap(x1, n + 2, p1)
      OBVIOUS
    <3> HIDE DEF X, Y2, k, E, n, p1, x1, c
    <3> QED
      BY <1>1, <1>2, <1>4, <1>5, <1>6, <3>1, KeepPlace
  <2>2. bitmaps' = KeptIn(bitmaps, x1, n, k, c)
    BY <1>11 DEF KeptIn
  <2>3. Become(s2)
    BY <1>11, <2>1, <2>2, ToBecome
  <2>4. call' = Turned(call, p1 + 1, p2, n + 1, call.hb)
    <3>1. \A q1, q : [call EXCEPT !.pos1 = q1, !.size = q] = Turned(call, q1, call.pos2, q, call.hb)
      BY <1>1, CallMoves, Zenon
    <3>2. [call EXCEPT !.pos1 = call.pos1 + 1, !.size = call.size + 1]
            = Turned(call, p1 + 1, p2, n + 1, call.hb)
      BY <3>1
    <3>3. call' = [call EXCEPT !.pos1 = call.pos1 + 1, !.size = call.size + 1]
      BY <1>11
    <3> QED
      BY <3>2, <3>3
  <2>5. Goes2(s2, bitmaps, v, Y2, call.op, call.x1, call.x2, call.to, p1 + 1, p2, E)
    BY <1>3, <1>8, <1>11
  <2> HIDE DEF Y2, s2, E
  <2> QED
    BY <1>0, <1>1, <1>9, <2>3, <2>4, <2>5, Turn2 DEF E
<1> QED
  BY <1>10, <1>11

\* The gap is closed when the call ends.
LEMMA ClosingGap ==
  ASSUME NEW v, On(memory, bitmaps, v, call), call.stage = "loop", call.op \in Gapped,
         call' = Ended(call), Become(Change(State, call.x1, Shifted(Entries(call.x1), call.pos1, call.size))),
         \/ ~Left1 /\ Skips2(call.op)
         \/ ~Left2 /\ Skips1(call.op, call.x1, call.to)
  PROVE  Steps(v)
<1>0. call.op \in TwoOps /\ call.op # "consume" /\ call.op # "free"
  BY DEF TwoOps, Gapped
<1> DEFINE X == Hole(call.op, call.x1, call.x2, call.pos1, call.pos2, call.size)
           n == call.size
           p1 == call.pos1
           p2 == call.pos2
           x1 == call.x1
           x2 == call.x2
           E == Layers(call.expected)
<1>1. /\ Going2(memory, bitmaps, v, X, call.op, x1, x2, call.to, p1, p2, E)
      /\ Roles(call.op, call.x1, call.x2, call.to) /\ n \in Nat /\ n < p1 /\ IsCall(call)
  BY <1>0, Taken2
<1>2. X = Gap(x1, n + 1, p1 - 1)
  BY DEF Hole
<1>3. call.to = x1
  BY <1>1 DEF Roles, Making, LoopOps, TwoOps, Gapped
<1>4. /\ World(memory, bitmaps, X, v) /\ Ahead(bitmaps, X, x1, p1) /\ x1 \in DOMAIN bitmaps
      /\ Sharers(bitmaps, call.to)
  <2> HIDE DEF X
  <2> QED
    BY <1>1, Standing
<1>5. p1 \in 1 .. Count(bitmaps, x1) + 1
  BY <1>4 DEF Ahead
<1>6. \A k \in Nat : Val(v, call.to, k) = E[k]
  <2> HIDE DEF X, E
  <2> QED
    BY <1>1, Ends2, Terms
<1> DEFINE s == Change(Pair(memory, bitmaps), x1, Shifted(EntriesIn(bitmaps, x1), p1, n))
<1>7. Become(s)
  BY Terms
<1>8. Closes(s, bitmaps, v, x1)
  <2> HIDE DEF X, n, p1, x1
  <2> QED
    BY <1>1, <1>2, <1>4, <1>5, CloseGap DEF s
<1> HIDE DEF s
<1>9. PICK m, u : s = Pair(m, u) /\ World(m, u, {}, v) /\ Alike(bitmaps, u, x1)
  BY <1>8 DEF Closes
<1>10. memory' = m /\ bitmaps' = u
  BY <1>7, <1>9, BecomeIs
<1>11. World(memory', bitmaps', {}, v) /\ Alike(bitmaps, bitmaps', x1)
  BY <1>9, <1>10
<1>12. Sharers(bitmaps', call.to)
  BY <1>4, <1>11, SharersAlike
<1>13. call.to \in DOMAIN bitmaps' /\ Elsewhere(bitmaps, bitmaps', v, v, {call.to})
  BY <1>3, <1>4, <1>11 DEF Alike, Elsewhere
<1> QED
  BY <1>0, <1>6, <1>11, <1>12, <1>13, Closing

LEMMA AndInplaceSteps ==
  ASSUME NEW v, On(memory, bitmaps, v, call), AndInplaceTurn
  PROVE  Steps(v)
<1>1. call.stage = "loop" /\ call.op = "and_inplace"
  BY DEF AndInplaceTurn, Doing
<1>2. call.op \in Gapped /\ call.op \in TwoOps /\ call.op \in Inplace /\ call.op \in Making \union Gapped
  BY <1>1 DEF TwoOps, Gapped, Inplace
<1>4. /\ \A A, B : Due(call.op, A, B) = A \intersect B
      /\ \A A : Due(call.op, A, {}) = {} /\ Due(call.op, {}, A) = {}
  BY <1>1, DueIs
<1>5. Skips2(call.op)
  BY <1>4 DEF Skips2
<1>6. ASSUME Meet, NEW r \in Written(C1, {call.x2}, LAMBDA A, B : A \intersect B), KeepOrFree(r)
      PROVE  Steps(v)
  <2> DEFINE X == Hole(call.op, call.x1, call.x2, call.pos1, call.pos2, call.size)
             own == ExtractCopy(memory, C1)
             S == Values1 \intersect Values2
  <2>1. /\ Read(own.memory, C2) = own.memory
        /\ ValuesAt(own.memory, own.container) = Values1
        /\ ValuesAt(own.memory, C2) = Values2
        /\ \A T \in SUBSET Lows : \A q \in InPlace(own.memory, own.container, T) :
              Pending(q.memory, q.container, bitmaps, X, v, call.x1, Key1, T)
    BY <1>1, <1>2, <1>6, WrittenMet
  <2>2. r \in InPlace(own.memory, own.container, S)
    BY <1>6, <2>1 DEF Written
  <2>3. S \subseteq Lows
    BY <1>1, <1>2, <1>6, MetIs
  <2>4. Pending(r.memory, r.container, bitmaps, X, v, call.x1, Key1, S)
    BY <2>1, <2>2, <2>3
  <2>5. S = Due(call.op, Values1, Values2)
    BY <1>4
  <2> QED
    BY <1>1, <1>2, <1>6, <2>4, <2>5, KeepTurn
<1>7. CASE /\ (Before \/ (Left1 /\ ~Left2))
           /\ Become(WithMemory(State, ContainerFree(memory, C1))) /\ Move(call.pos1 + 1, call.pos2)
  <2>1. Left1 /\ (Left2 => Key1 < Key2)
    BY <1>7 DEF Before
  <2> QED
    BY <1>1, <1>2, <1>4, <1>7, <2>1, PassTurn
<1>8. CASE After /\ UNCHANGED <<memory, bitmaps>> /\ Move(call.pos1, AdvanceUntil(call.x2, Key1, call.pos2))
  BY <1>1, <1>2, <1>5, <1>8, SkipSecondTurn
<1>9. CASE /\ ~Left1 /\ Done
           /\ Become(Change(State, call.x1, SubSeq(Entries(call.x1), 1, call.size)))
  <2> DEFINE X == Hole(call.op, call.x1, call.x2, call.pos1, call.pos2, call.size)
             n == call.size
             p1 == call.pos1
             x1 == call.x1
  <2>1. /\ Going2(memory, bitmaps, v, X, call.op, x1, call.x2, call.to, p1, call.pos2,
                  Layers(call.expected))
        /\ n \in Nat /\ n < p1
    BY <1>1, <1>2, Taken2
  <2>2. X = Gap(x1, n + 1, p1 - 1)
    BY <1>2 DEF Hole
  <2>3. World(memory, bitmaps, X, v) /\ Ahead(bitmaps, X, x1, p1) /\ x1 \in DOMAIN bitmaps
    <3> HIDE DEF X
    <3> QED
      BY <2>1, Standing
  <2>4. p1 \in 1 .. Count(bitmaps, x1) + 1 /\ p1 = Count(bitmaps, x1) + 1
    <3> HIDE DEF X
    <3>1. p1 \in 1 .. Count(bitmaps, x1) + 1 /\ Count(bitmaps, x1) \in Nat
      BY <2>3, AheadOwned DEF Ahead
    <3> QED
      BY <1>9, <3>1, Terms
  <2>5. SubSeq(EntriesIn(bitmaps, x1), 1, n) = Shifted(EntriesIn(bitmaps, x1), p1, n)
    <3> HIDE DEF X, n, p1, x1
    <3> QED
      BY <2>1, <2>2, <2>3, <2>4, CloseGap
  <2>6. SubSeq(Entries(call.x1), 1, call.size) = Shifted(Entries(call.x1), call.pos1, call.size)
    BY <2>5, Terms
  <2>7. call' = Ended(call)
    BY <1>9, DoneIs
  <2>8. Become(Change(State, call.x1, Shifted(Entries(call.x1), call.pos1, call.size)))
    BY <1>9, <2>6
  <2> HIDE DEF X, n, p1, x1
  <2> QED
    BY <1>1, <1>2, <1>5, <1>9, <2>7, <2>8, ClosingGap
<1> QED
  BY <1>6, <1>7, <1>8, <1>9 DEF AndInplaceTurn

LEMMA AndNotInplaceSteps ==
  ASSUME NEW v, On(memory, bitmaps, v, call), AndNotInplaceTurn
  PROVE  Steps(v)
<1>1. call.stage = "loop" /\ call.op = "andnot_inplace"
  BY DEF AndNotInplaceTurn, Doing
<1>2. call.op \in Gapped /\ call.op \in TwoOps /\ call.op \in Inplace /\ call.op \in Making \union Gapped
  BY <1>1 DEF TwoOps, Gapped, Inplace
<1>3. call.to = call.x1
  BY <1>1, <1>2, Taken2 DEF Roles, Making, LoopOps
<1>4. /\ \A A, B : Due(call.op, A, B) = A \ B
      /\ \A A : Due(call.op, A, {}) = A /\ Due(call.op, {}, A) = {}
  BY <1>1, DueIs
<1>5. Skips2(call.op) /\ Skips1(call.op, call.x1, call.to)
  BY <1>3, <1>4 DEF Skips2, Skips1
<1>6. ASSUME Meet, NEW r \in Written(C1, {call.x2}, LAMBDA A, B : A \ B), KeepOrFree(r)
      PROVE  Steps(v)
  <2> DEFINE X == Hole(call.op, call.x1, call.x2, call.pos1, call.pos2, call.size)
             own == ExtractCopy(memory, C1)
             S == Values1 \ Values2
  <2>1. /\ Read(own.memory, C2) = own.memory
        /\ ValuesAt(own.memory, own.container) = Values1
        /\ ValuesAt(own.memory, C2) = Values2
        /\ \A T \in SUBSET Lows : \A q \in InPlace(own.memory, own.container, T) :
              Pending(q.memory, q.container, bitmaps, X, v, call.x1, Key1, T)
    BY <1>1, <1>2, <1>6, WrittenMet
  <2>2. r \in InPlace(own.memory, own.container, S)
    BY <1>6, <2>1 DEF Written
  <2>3. S \subseteq Lows
    BY <1>1, <1>2, <1>6, MetIs
  <2>4. Pending(r.memory, r.container, bitmaps, X, v, call.x1, Key1, S)
    BY <2>1, <2>2, <2>3
  <2>5. S = Due(call.op, Values1, Values2)
    BY <1>4
  <2> QED
    BY <1>1, <1>2, <1>6, <2>4, <2>5, KeepTurn
<1>7. CASE /\ Before /\ memory' = memory
           /\ bitmaps' = [bitmaps EXCEPT ![call.x1].entries[call.size + 1] = Entry(Key1, C1)]
           /\ call' = [call EXCEPT !.pos1 = @ + 1, !.size = @ + 1]
  <2>1. Left1 /\ (Left2 => Key1 < Key2)
    BY <1>7 DEF Before
  <2> QED
    BY <1>1, <1>2, <1>4, <1>7, <2>1, PassTurn
<1>8. CASE After /\ UNCHANGED <<memory, bitmaps>> /\ Move(call.pos1, AdvanceUntil(call.x2, Key1, call.pos2))
  BY <1>1, <1>2, <1>5, <1>8, SkipSecondTurn
<1>9. CASE /\ ~(Left1 /\ Left2) /\ Done
           /\ Become(Change(State, call.x1, Shifted(Entries(call.x1), call.pos1, call.size)))
  BY <1>1, <1>2, <1>5, <1>9, DoneIs, ClosingGap
<1> QED
  BY <1>6, <1>7, <1>8, <1>9 DEF AndNotInplaceTurn

\* What roaring_bitmap_or_inplace and roaring_bitmap_xor_inplace have in common.
LEMMA TakeOverSteps ==
  ASSUME NEW v, On(memory, bitmaps, v, call), call.stage = "loop",
         call.op \in {"or_inplace", "xor_inplace"}, TakeOver
  PROVE  Steps(v)
<1>2. call.op \in TwoOps \ (Gapped \union {"consume"}) /\ call.op \in TwoOps
  BY DEF TwoOps, Gapped
<1> DEFINE x1 == call.x1
           x2 == call.x2
           p1 == call.pos1
           p2 == call.pos2
           E == Layers(call.expected)
<1>3. /\ Going2(memory, bitmaps, v, {}, call.op, x1, x2, call.to, p1, p2, E)
      /\ call.to = x1
  BY <1>2, TakenWhole DEF Roles, Making, LoopOps
<1>31. Going2(memory, bitmaps, v, {}, call.op, x1, x2, x1, p1, p2, E)
  BY <1>3
<1>4. \A A : Due(call.op, A, {}) = A /\ Due(call.op, {}, A) = A
  BY DueIs
<1>5. Skips1(call.op, call.x1, call.to)
  BY <1>3, <1>4 DEF Skips1
<1>6. CASE Before /\ UNCHANGED <<memory, bitmaps>> /\ Move(call.pos1 + 1, call.pos2)
  <2> DEFINE k == Key1
  <2>1. /\ k = KeyIn(bitmaps, x1, p1) /\ p1 <= Count(bitmaps, x1)
        /\ p2 <= Count(bitmaps, x2) => k < KeyIn(bitmaps, x2, p2)
    BY <1>6, Terms DEF Before
  <2> HIDE DEF k, x1, x2, p1, p2, E
  <2>2. /\ Foremost(k, Rest(bitmaps, x1, p1), Rest(bitmaps, x2, p2))
        /\ NextRest(bitmaps, x1, p1, k, p1 + 1) /\ NextRest(bitmaps, x2, p2, k, p2)
        /\ Val(v, x2, k) = {}
    BY <1>31, <2>1, BeforeFirst
  <2>3. Val(v, x1, k) = Due(call.op, Val(v, x1, k), Val(v, x2, k))
    BY <1>4, <2>2
  <2> DEFINE s == Pair(memory, bitmaps)
  <2>4. Goes2(s, bitmaps, v, {}, call.op, x1, x2, x1, p1 + 1, p2, E)
    BY <1>31, <2>2, <2>3, StayGoes
  <2>5. Become(s) /\ Move(p1 + 1, p2)
    BY <1>6, ToBecome DEF p1, p2
  <2>6. Goes2(s, bitmaps, v, {}, call.op, call.x1, call.x2, call.to, p1 + 1, p2, Layers(call.expected))
    BY <1>3, <2>4 DEF x1, x2, E
  <2> HIDE DEF s
  <2> QED
    BY <1>2, <2>5, <2>6, TurnWhole
<1>7. CASE /\ After /\ Move(call.pos1 + 1, call.pos2 + 1)
           /\ LET got == CopyOf(State, call.x2, call.pos2)
              IN  Become(Change(got.state, call.x1,
                          InsertAt(got.state.bitmaps[call.x1].entries, call.pos1,
                                   Entry(Key2, got.copy))))
  <2> DEFINE k == Key2
             got == CopyOf(Pair(memory, bitmaps), x2, p2)
             s == Change(got.state, x1, InsertAt(EntriesIn(got.state.bitmaps, x1), p1, Entry(k, got.copy)))
  <2>1. /\ k = KeyIn(bitmaps, x2, p2) /\ p1 <= Count(bitmaps, x1) /\ p2 <= Count(bitmaps, x2)
        /\ k < KeyIn(bitmaps, x1, p1)
    BY <1>2, <1>7, AfterIs, Terms DEF After
  <2>2. Become(s)
    BY <1>7, Terms DEF EntriesIn
  <2>3. Goes2(s, bitmaps, v, {}, call.op, x1, x2, x1, p1 + 1, p2 + 1, E)
    <3> HIDE DEF k, x1, x2, p1, p2, E, got
    <3> QED
      BY <1>31, <1>4, <2>1, InsertGoes DEF got
  <2>4. Goes2(s, bitmaps, v, {}, call.op, call.x1, call.x2, call.to, p1 + 1, p2 + 1, Layers(call.expected))
    BY <1>3, <2>3
  <2> HIDE DEF s
  <2> QED
    BY <1>2, <1>7, <2>2, <2>4, TurnWhole
<1>8. CASE /\ ~Left1 /\ Left2 /\ Move(call.pos1 + 1, call.pos2 + 1)
           /\ Become(AppendCopy(State, call.x1, call.x2, call.pos2))
  <2> DEFINE s == AppendCopy(Pair(memory, bitmaps), x1, x2, p2)
  <2>1. ~(p1 <= Count(bitmaps, x1)) /\ p2 <= Count(bitmaps, x2)
    BY <1>8, Terms
  <2>2. Become(s)
    BY <1>8, Terms
  <2>3. Goes2(s, bitmaps, v, {}, call.op, x1, x2, x1, p1 + 1, p2 + 1, E)
    <3> HIDE DEF x1, x2, p1, p2, E
    <3> QED
      BY <1>31, <1>4, <2>1, AppendGoes
  <2>4. Goes2(s, bitmaps, v, {}, call.op, call.x1, call.x2, call.to, p1 + 1, p2 + 1, Layers(call.expected))
    BY <1>3, <2>3
  <2> HIDE DEF s
  <2> QED
    BY <1>2, <1>8, <2>2, <2>4, TurnWhole
<1>9. CASE ~Left2 /\ Done /\ UNCHANGED <<memory, bitmaps>>
  BY <1>2, <1>5, <1>9, Closing2, DoneIs
<1> QED
  BY <1>6, <1>7, <1>8, <1>9 DEF TakeOver

\* What both have under a key, written.
LEMMA SetTurn ==
  ASSUME NEW v, On(memory, bitmaps, v, call), call.stage = "loop",
         call.op \in {"or_inplace", "xor_inplace"}, Meet,
         NEW r, NEW S, S = Due(call.op, Values1, Values2),
         Pending(r.memory, r.container, bitmaps, {}, v, call.x1, Key1, S),
         \/ /\ S # {} /\ Move(call.pos1 + 1, call.pos2 + 1)
            /\ Become(SetAt(WithMemory(State, r.memory), call.x1, call.pos1, r.container))
         \/ /\ S = {} /\ Move(call.pos1, call.pos2 + 1)
            /\ Become(Change(WithMemory(State, ContainerFree(r.memory, r.container)),
                             call.x1, RemoveAt(Entries(call.x1), call.pos1)))
  PROVE  Steps(v)
<1>2. call.op \in TwoOps \ (Gapped \union {"consume"}) /\ call.op \in TwoOps
  BY DEF TwoOps, Gapped
<1> DEFINE x1 == call.x1
           x2 == call.x2
           p1 == call.pos1
           p2 == call.pos2
           E == Layers(call.expected)
           k == Key1
<1>3. /\ Going2(memory, bitmaps, v, {}, call.op, x1, x2, call.to, p1, p2, E)
      /\ call.to = x1
  BY <1>2, TakenWhole DEF Roles, Making, LoopOps
<1>31. Going2(memory, bitmaps, v, {}, call.op, x1, x2, x1, p1, p2, E)
  BY <1>3
<1>4. /\ Meets(bitmaps, x1, p1, x2, p2, k) /\ S = Due(call.op, Val(v, x1, k), Val(v, x2, k))
  BY <1>2, MetIs
<1> DEFINE n == r.memory
           c == r.container
           s1 == SetAt(Pair(n, bitmaps), x1, p1, c)
           s2 == Change(Pair(ContainerFree(n, c), bitmaps), x1, RemoveAt(EntriesIn(bitmaps, x1), p1))
<1>5. /\ S # {} => Goes2(s1, bitmaps, v, {}, call.op, x1, x2, x1, p1 + 1, p2 + 1, E)
      /\ S = {} => Goes2(s2, bitmaps, v, {}, call.op, x1, x2, x1, p1, p2 + 1, E)
  <2>1. Pending(n, c, bitmaps, {}, v, x1, k, S)
    OBVIOUS
  <2> HIDE DEF x1, x2, p1, p2, E, k, n, c
  <2> QED
    BY <1>31, <1>4, <2>1, SetGoes
<1>6. CASE /\ S # {} /\ Move(call.pos1 + 1, call.pos2 + 1)
           /\ Become(SetAt(WithMemory(State, r.memory), call.x1, call.pos1, r.container))
  <2>1. Become(s1)
    BY <1>6, Terms, WithMemoryIs
  <2>2. Goes2(s1, bitmaps, v, {}, call.op, call.x1, call.x2, call.to, p1 + 1, p2 + 1, Layers(call.expected))
    BY <1>3, <1>5, <1>6
  <2> HIDE DEF s1
  <2> QED
    BY <1>2, <1>6, <2>1, <2>2, TurnWhole
<1>7. CASE /\ S = {} /\ Move(call.pos1, call.pos2 + 1)
           /\ Become(Change(WithMemory(State, ContainerFree(r.memory, r.container)),
                             call.x1, RemoveAt(Entries(call.x1), call.pos1)))
  <2>1. Become(s2)
    BY <1>7, Terms, WithMemoryIs
  <2>2. Goes2(s2, bitmaps, v, {}, call.op, call.x1, call.x2, call.to, p1, p2 + 1, Layers(call.expected))
    BY <1>3, <1>5, <1>7
  <2> HIDE DEF s2
  <2> QED
    BY <1>2, <1>7, <2>1, <2>2, TurnWhole
<1> QED
  BY <1>6, <1>7

LEMMA OrInplaceSteps ==
  ASSUME NEW v, On(memory, bitmaps, v, call), OrInplaceTurn
  PROVE  Steps(v)
<1>1. call.stage = "loop" /\ call.op = "or_inplace"
  BY DEF OrInplaceTurn, Doing
<1>2. /\ call.op \in TwoOps \ (Gapped \union {"consume"}) /\ call.op \in TwoOps /\ call.op \in Inplace
      /\ call.op \in {"or_inplace", "xor_inplace"}
  BY <1>1 DEF TwoOps, Gapped, Inplace
<1>3. /\ Going2(memory, bitmaps, v, {}, call.op, call.x1, call.x2, call.to, call.pos1, call.pos2,
                Layers(call.expected))
      /\ call.to = call.x1
  BY <1>1, <1>2, TakenWhole DEF Roles, Making, LoopOps
<1>4. \A A, B : Due(call.op, A, B) = A \union B
  BY <1>1, DueIs
<1>5. CASE Meet /\ Move(call.pos1 + 1, call.pos2 + 1) /\ Values1 = Lows
           /\ Become(WithMemory(State, Read(memory, C1)))
  <2> DEFINE k == Key1
             s == Pair(memory, bitmaps)
  <2>1. /\ Meets(bitmaps, call.x1, call.pos1, call.x2, call.pos2, k)
        /\ Values1 = Val(v, call.x1, k) /\ Values2 = Val(v, call.x2, k)
        /\ Values2 \subseteq Lows /\ Read(memory, C1) = memory
    BY <1>2, <1>5, <1>1, MetIs
  <2>2. Become(s)
    BY <1>5, <2>1, Terms, WithMemoryIs
  <2>3. Val(v, call.x1, k) = Due(call.op, Val(v, call.x1, k), Val(v, call.x2, k))
    BY <1>4, <1>5, <2>1
  <2> HIDE DEF s, k
  <2>4. /\ Foremost(k, Rest(bitmaps, call.x1, call.pos1), Rest(bitmaps, call.x2, call.pos2))
        /\ NextRest(bitmaps, call.x1, call.pos1, k, call.pos1 + 1)
        /\ NextRest(bitmaps, call.x2, call.pos2, k, call.pos2 + 1)
    BY <1>3, <2>1, MeetFirst
  <2>5. Goes2(s, bitmaps, v, {}, call.op, call.x1, call.x2, call.x1, call.pos1 + 1, call.pos2 + 1,
              Layers(call.expected))
    BY <1>3, <2>3, <2>4, StayGoes DEF s
  <2> QED
    BY <1>1, <1>2, <1>3, <1>5, <2>2, <2>5, TurnWhole
<1>6. ASSUME Meet, Move(call.pos1 + 1, call.pos2 + 1),
             NEW r \in Written(C1, {call.x2}, LAMBDA A, B : A \union B),
             Become(SetAt(WithMemory(State, r.memory), call.x1, call.pos1, r.container))
      PROVE  Steps(v)
  <2> DEFINE own == ExtractCopy(memory, C1)
             S == Values1 \union Values2
  <2>0. {} = Hole(call.op, call.x1, call.x2, call.pos1, call.pos2, call.size)
    BY <1>2 DEF Hole
  <2>1. /\ Read(own.memory, C2) = own.memory
        /\ ValuesAt(own.memory, own.container) = Values1
        /\ ValuesAt(own.memory, C2) = Values2
        /\ \A T \in SUBSET Lows : \A q \in InPlace(own.memory, own.container, T) :
              Pending(q.memory, q.container, bitmaps, {}, v, call.x1, Key1, T)
    BY <1>1, <1>2, <1>6, <2>0, WrittenMet
  <2>2. r \in InPlace(own.memory, own.container, S)
    BY <1>6, <2>1 DEF Written
  <2>3. S \subseteq Lows /\ S # {}
    BY <1>1, <1>2, <1>6, MetIs
  <2>4. Pending(r.memory, r.container, bitmaps, {}, v, call.x1, Key1, S)
    BY <2>1, <2>2, <2>3
  <2>5. S = Due(call.op, Values1, Values2)
    BY <1>4
  <2> HIDE DEF S
  <2> QED
    BY <1>1, <1>2, <1>6, <2>3, <2>4, <2>5, SetTurn
<1>7. CASE TakeOver
  BY <1>1, <1>2, <1>7, TakeOverSteps
<1> QED
  BY <1>5, <1>6, <1>7 DEF OrInplaceTurn

LEMMA XorInplaceSteps ==
  ASSUME NEW v, On(memory, bitmaps, v, call), XorInplaceTurn
  PROVE  Steps(v)
<1>1. call.stage = "loop" /\ call.op = "xor_inplace"
  BY DEF XorInplaceTurn, Doing
<1>2. /\ call.op \in TwoOps \ (Gapped \union {"consume"}) /\ call.op \in TwoOps /\ call.op \in Inplace
      /\ call.op \in {"or_inplace", "xor_inplace"}
  BY <1>1 DEF TwoOps, Gapped, Inplace
<1>4. \A A, B : Due(call.op, A, B) = SymDiff(A, B)
  BY <1>1, DueIs
<1>6. ASSUME Meet, NEW r \in Written(C1, {call.x2}, SymDiff),
             IF ValuesOf(r) = {}
             THEN /\ Move(call.pos1, call.pos2 + 1)
                  /\ Become(Change(WithMemory(State, ContainerFree(r.memory, r.container)),
                                   call.x1, RemoveAt(Entries(call.x1), call.pos1)))
             ELSE /\ Move(call.pos1 + 1, call.pos2 + 1)
                  /\ Become(SetAt(WithMemory(State, r.memory), call.x1, call.pos1,
                                  r.container))
      PROVE  Steps(v)
  <2> DEFINE own == ExtractCopy(memory, C1)
             S == SymDiff(Values1, Values2)
  <2>0. {} = Hole(call.op, call.x1, call.x2, call.pos1, call.pos2, call.size)
    BY <1>2 DEF Hole
  <2>1. /\ Read(own.memory, C2) = own.memory
        /\ ValuesAt(own.memory, own.container) = Values1
        /\ ValuesAt(own.memory, C2) = Values2
        /\ \A T \in SUBSET Lows : \A q \in InPlace(own.memory, own.container, T) :
              Pending(q.memory, q.container, bitmaps, {}, v, call.x1, Key1, T)
    BY <1>1, <1>2, <1>6, <2>0, WrittenMet
  <2>2. r \in InPlace(own.memory, own.container, S)
    BY <1>6, <2>1 DEF Written
  <2>3. S \subseteq Lows
    BY <1>1, <1>2, <1>6, MetIs, SymDiffIs
  <2>4. Pending(r.memory, r.container, bitmaps, {}, v, call.x1, Key1, S)
    BY <2>1, <2>2, <2>3
  <2>5. S = Due(call.op, Values1, Values2)
    BY <1>4
  <2> HIDE DEF S
  <2>6. ValuesOf(r) = S
    BY <2>4, PendingRead DEF ValuesOf
  <2> QED
    BY <1>1, <1>2, <1>6, <2>4, <2>5, <2>6, SetTurn
<1>7. CASE TakeOver
  BY <1>1, <1>2, <1>7, TakeOverSteps
<1> QED
  BY <1>6, <1>7 DEF XorInplaceTurn

-----------------------------------------------------------------------------
(***************************************************************************)
(* The union that consumes its arguments.                                  *)
(***************************************************************************)

\* What a turn of the union leaves that consumes its arguments.
GoesOver(s, bs, v, Y, op, x1, x2, to, q1, q2, E) ==
  \E n, u, w : /\ s = Pair(n, u) /\ Elsewhere(bs, u, v, w, {to, x1, x2})
               /\ Going2(n, u, w, Y, op, x1, x2, to, q1, q2, E)

LEMMA TakesAdvance ==
  ASSUME NEW m, NEW bs, NEW v, NEW X, NEW op, NEW x1, NEW x2, NEW to, NEW p1, NEW p2, NEW E,
         Going2(m, bs, v, X, op, x1, x2, to, p1, p2, E), x1 # to,
         NEW k, Foremost(k, Rest(bs, x1, p1), Rest(bs, x2, p2)),
         NEW S, S = Due(op, Val(v, x1, k), Val(v, x2, k)),
         NEW s, NEW Y, NEW G, G \subseteq {x1, x2}, TakesOver(s, bs, Y, v, to, G, k, S),
         NEW q1, NextRest(bs, x1, p1, k, q1), NEW q2, NextRest(bs, x2, p2, k, q2),
         Unspent(Y, x1, q1), Unspent(Y, x2, q2), Whole(Y, to)
  PROVE  GoesOver(s, bs, v, Y, op, x1, x2, to, q1, q2, E)
<1>1. /\ World(m, bs, X, v) /\ x1 \in DOMAIN bs /\ x2 \in DOMAIN bs /\ to \in DOMAIN bs /\ x2 # to
      /\ Sharers(bs, to) /\ Ahead(bs, X, x1, p1) /\ Ahead(bs, X, x2, p2)
      /\ OnCourse(op, x1, to, Vals(v, x2), v, E, Rest(bs, x1, p1), Rest(bs, x2, p2))
      /\ \A l \in Nat : Vals(v, x2)[l] = Val(v, x2, l)
  BY Standing
<1>2. PICK n, u, w : /\ s = Pair(n, u) /\ World(n, u, Y, w)
                     /\ Alike(bs, u, to) /\ Takes(v, w, to, G, k, S)
  BY DEF TakesOver
<1>3. Count(bs, x1) \in Nat /\ Count(bs, x2) \in Nat
  BY <1>1, AheadOwned
<1> DEFINE P == Rest(bs, x1, p1)
           Q == Rest(bs, x2, p2)
<1>4. Rest(u, x1, q1) = P \ {k} /\ q1 \in 1 .. Count(u, x1) + 1
  BY <1>1, <1>2, <1>3, AlikeNext
<1>5. Rest(u, x2, q2) = Q \ {k} /\ q2 \in 1 .. Count(u, x2) + 1
  BY <1>1, <1>2, <1>3, AlikeNext
<1> HIDE DEF P, Q
<1>6. k \in P \union Q /\ (\A r \in P \union Q : k <= r) /\ k \in Nat
  BY <1>1 DEF Foremost, OnCourse, P, Q
<1>7. /\ Val(w, to, k) = S
      /\ \A l \in Nat : l # k => Val(w, to, l) = Val(v, to, l) /\ Val(w, x1, l) = Val(v, x1, l)
                                 /\ Val(w, x2, l) = Val(v, x2, l)
  BY <1>2 DEF Takes
<1> DEFINE B == Vals(v, x2)
           C == Vals(w, x2)
<1>8. /\ Val(w, to, k) = Due(op, Val(v, x1, k), B[k])
      /\ \A l \in Nat : l # k => /\ Val(w, to, l) = Val(v, to, l)
                                 /\ Val(w, x1, l) = Val(v, x1, l)
                                 /\ C[l] = B[l]
  BY <1>1, <1>6, <1>7 DEF Vals
<1>9. OnCourse(op, x1, to, B, v, E, P, Q)
  BY <1>1 DEF P, Q
<1> HIDE DEF B, C
<1>10. OnCourse(op, x1, to, C, w, E, P \ {k}, Q \ {k})
  BY <1>6, <1>8, <1>9, CourseStep
<1>11. Going(n, u, w, Y, op, x1, to, q1, C, Q \ {k}, E)
  <2>1. Sharers(u, to) /\ DOMAIN u = DOMAIN bs
    BY <1>1, <1>2, SharersAlike DEF Alike
  <2>2. Ahead(u, Y, x1, q1)
    BY <1>4 DEF Ahead
  <2>3. OnCourse(op, x1, to, C, w, E, Rest(u, x1, q1), Q \ {k})
    BY <1>4, <1>10
  <2> QED
    BY <1>1, <1>2, <2>1, <2>2, <2>3 DEF Going
<1>12. Going2(n, u, w, Y, op, x1, x2, to, q1, q2, E)
  <2>1. Ahead(u, Y, x2, q2) /\ x2 \in DOMAIN u
    BY <1>1, <1>2, <1>5 DEF Ahead, Alike
  <2>2. Going(n, u, w, Y, op, x1, to, q1, Vals(w, x2), Rest(u, x2, q2), E)
    BY <1>5, <1>11 DEF C
  <2> QED
    BY <1>1, <2>1, <2>2 DEF Going2
<1>13. Elsewhere(bs, u, v, w, {to, x1, x2})
  BY <1>2 DEF Elsewhere, Alike, Takes
<1> QED
  BY <1>2, <1>12, <1>13 DEF GoesOver

\* The places that both have given up.
Gaps(x1, p1, x2, p2) == Gap(x1, 1, p1 - 1) \union Gap(x2, 1, p2 - 1)

LEMMA GapsIn ==
  ASSUME NEW x1, NEW x2, NEW a, NEW q, NEW i, NEW j
  PROVE  <<a, q>> \in Gaps(x1, i, x2, j) <=> (a = x1 /\ q \in 1 .. i - 1) \/ (a = x2 /\ q \in 1 .. j - 1)
BY InGap DEF Gaps

LEMMA GapMore ==
  ASSUME NEW b, NEW p \in Nat \ {0}, NEW q, q = p + 1
  PROVE  Gap(b, 1, q - 1) = Gap(b, 1, p - 1) \union {<<b, p>>}
<1>1. 1 \in Nat /\ 1 <= p /\ q - 1 = p
  OBVIOUS
<1>2. Gap(b, 1, p - 1) \union {<<b, p>>} = Gap(b, 1, p)
  BY ONLY <1>1, p \in Nat \ {0}, GapIs, Zenon
<1> QED
  BY <1>1, <1>2

LEMMA GapsFirst ==
  ASSUME NEW x1, NEW x2, NEW p1 \in Nat \ {0}, NEW p2, NEW q1, q1 = p1 + 1,
         NEW X, X = Gaps(x1, p1, x2, p2), NEW Y, Y = Gaps(x1, q1, x2, p2)
  PROVE  Y = X \union {<<x1, p1>>}
<1> DEFINE A == Gap(x1, 1, p1 - 1)
           B == Gap(x2, 1, p2 - 1)
           C == Gap(x1, 1, q1 - 1)
<1>1. C = A \union {<<x1, p1>>}
  BY GapMore
<1>2. X = A \union B /\ Y = C \union B
  BY DEF Gaps
<1> HIDE DEF A, B, C
<1> QED
  BY <1>1, <1>2

LEMMA GapsSecond ==
  ASSUME NEW x1, NEW x2, NEW p1, NEW p2 \in Nat \ {0}, NEW q2, q2 = p2 + 1,
         NEW X, X = Gaps(x1, p1, x2, p2), NEW Y, Y = Gaps(x1, p1, x2, q2)
  PROVE  Y = X \union {<<x2, p2>>}
<1> DEFINE A == Gap(x1, 1, p1 - 1)
           B == Gap(x2, 1, p2 - 1)
           C == Gap(x2, 1, q2 - 1)
<1>1. C = B \union {<<x2, p2>>}
  BY GapMore
<1>2. X = A \union B /\ Y = A \union C
  BY DEF Gaps
<1> HIDE DEF A, B, C
<1> QED
  BY <1>1, <1>2

LEMMA GapsSpare ==
  ASSUME NEW x1, NEW x2, x1 # x2, NEW i \in Nat \ {0}, NEW j \in Nat \ {0},
         NEW X, X = Gaps(x1, i, x2, j)
  PROVE  /\ \A a : a # x1 /\ a # x2 => Whole(X, a)
         /\ Unspent(X, x1, i) /\ Unspent(X, x2, j)
<1>1. \A q \in Nat : (q >= i => q \notin 1 .. i - 1) /\ (q >= j => q \notin 1 .. j - 1)
  OBVIOUS
<1>2. \A a, q : <<a, q>> \in X <=> (a = x1 /\ q \in 1 .. i - 1) \/ (a = x2 /\ q \in 1 .. j - 1)
  BY GapsIn
<1>3. Unspent(X, x1, i) /\ Unspent(X, x2, j)
  BY <1>1, <1>2 DEF Unspent
<1> QED
  BY <1>2, <1>3 DEF Whole

LEMMA ConsumeMeetGoes ==
  ASSUME NEW m, NEW bs, NEW v, NEW X, NEW op, NEW x1, NEW x2, NEW to, NEW p1, NEW p2, NEW E,
         Going2(m, bs, v, X, op, x1, x2, to, p1, p2, E), x1 # to, x1 # x2,
         X = Gaps(x1, p1, x2, p2),
         NEW k, Meets(bs, x1, p1, x2, p2, k), NEW q1, q1 = p1 + 1, NEW q2, q2 = p2 + 1,
         NEW Y, Y = Gaps(x1, q1, x2, q2),
         NEW c, c = ConIn(bs, x1, p1), NEW e, e = ConIn(bs, x2, p2),
         NEW first, first = ExtractCopy(m, c),
         NEW second, second = ExtractCopy(first.memory, e),
         NEW S, S = Due(op, Val(v, x1, k), Val(v, x2, k)), S \subseteq Lows, S # {},
         NEW r \in InPlace(Read(second.memory, second.container), first.container, S)
  PROVE  GoesOver(Append1(Pair(ContainerFree(r.memory, second.container), bs), to, k, r.container),
                  bs, v, Y, op, x1, x2, to, q1, q2, E)
<1>1. /\ Foremost(k, Rest(bs, x1, p1), Rest(bs, x2, p2)) /\ k \in Nat
      /\ NextRest(bs, x1, p1, k, q1) /\ NextRest(bs, x2, p2, k, q2)
      /\ p1 \in Owned(bs, X, x1) /\ p2 \in Owned(bs, X, x2)
  BY MeetFirst
<1>2. /\ World(m, bs, X, v) /\ x1 \in DOMAIN bs /\ x2 \in DOMAIN bs /\ to \in DOMAIN bs /\ x2 # to
      /\ Ahead(bs, X, x1, p1) /\ Ahead(bs, X, x2, p2) /\ Whole(X, to)
  BY Standing
<1>3. p1 \in Nat \ {0} /\ p2 \in Nat \ {0}
  BY <1>2, AheadOwned
<1>4. \A l : Val(v, to, l) # {} => l < k
  BY <1>1, FreshBelow DEF Going2
<1>5. /\ Y = (X \union {<<x1, p1>>}) \union {<<x2, p2>>}
      /\ Whole(Y, to) /\ Unspent(Y, x1, q1) /\ Unspent(Y, x2, q2)
  <2>1. Y = (X \union {<<x1, p1>>}) \union {<<x2, p2>>}
    <3> DEFINE Z == Gaps(x1, q1, x2, p2)
    <3>1. Z = X \union {<<x1, p1>>}
      BY <1>3, GapsFirst
    <3> HIDE DEF Z
    <3>2. Y = Z \union {<<x2, p2>>}
      BY <1>3, GapsSecond DEF Z
    <3> QED
      BY <3>1, <3>2
  <2>2. q1 \in Nat \ {0} /\ q2 \in Nat \ {0} /\ to # x1 /\ to # x2
    BY <1>2, <1>3
  <2>3. Whole(Y, to) /\ Unspent(Y, x1, q1) /\ Unspent(Y, x2, q2)
    BY ONLY <2>2, x1 # x2, Y = Gaps(x1, q1, x2, q2), GapsSpare
  <2> QED
    BY <2>1, <2>3
<1> DEFINE s == Append1(Pair(ContainerFree(r.memory, second.container), bs), to, k, r.container)
           G == {x1, x2}
<1>6. TakesOver(s, bs, Y, v, to, G, k, S)
  <2>1. k = KeyIn(bs, x1, p1) /\ k = KeyIn(bs, x2, p2) /\ S \in SUBSET Lows
    BY DEF Meets
  <2>2. Consuming(m, bs, X, v, x1, p1, x2, p2, to, k, Y, c, e, first, second)
    BY <1>1, <1>2, <1>4, <1>5, <2>1 DEF Consuming
  <2>3. \A T \in SUBSET Lows :
              \A q \in InPlace(Read(second.memory, second.container), first.container, T) :
                T # {} =>
                TakesOver(Append1(Pair(ContainerFree(q.memory, second.container), bs), to, k, q.container),
                          bs, Y, v, to, {x1, x2}, k, T)
    BY ONLY <2>2, ConsumeMeets
  <2> QED
    BY <2>1, <2>3
<1> HIDE DEF s
<1>7. GoesOver(s, bs, v, Y, op, x1, x2, to, q1, q2, E)
  BY <1>1, <1>5, <1>6, TakesAdvance
<1> QED
  BY <1>7 DEF s

\* What one of them lacks moves as it is.
LEMMA ConsumeFirstGoes ==
  ASSUME NEW m, NEW bs, NEW v, NEW X, NEW op, NEW x1, NEW x2, NEW to, NEW p1, NEW p2, NEW E,
         Going2(m, bs, v, X, op, x1, x2, to, p1, p2, E), x1 # to, x1 # x2,
         X = Gaps(x1, p1, x2, p2), p1 <= Count(bs, x1),
         NEW k, k = KeyIn(bs, x1, p1), p2 <= Count(bs, x2) => k < KeyIn(bs, x2, p2),
         NEW q1, q1 = p1 + 1, NEW Y, Y = Gaps(x1, q1, x2, p2), NEW c, c = ConIn(bs, x1, p1), \A A : Due(op, A, {}) = A
  PROVE  GoesOver(Append1(Pair(m, bs), to, k, c), bs, v, Y, op, x1, x2, to, q1, p2, E)
<1>1. /\ Foremost(k, Rest(bs, x1, p1), Rest(bs, x2, p2)) /\ k \in Nat
      /\ NextRest(bs, x1, p1, k, q1) /\ NextRest(bs, x2, p2, k, p2)
      /\ p1 \in Owned(bs, X, x1) /\ Val(v, x2, k) = {}
  BY BeforeFirst
<1>2. /\ World(m, bs, X, v) /\ x1 \in DOMAIN bs /\ x2 \in DOMAIN bs /\ to \in DOMAIN bs /\ x2 # to
      /\ Ahead(bs, X, x1, p1) /\ Ahead(bs, X, x2, p2) /\ Whole(X, to)
  BY Standing
<1>3. p1 \in Nat \ {0} /\ p2 \in Nat \ {0}
  BY <1>2, AheadOwned
<1>4. \A l : Val(v, to, l) # {} => l < k
  BY <1>1, FreshBelow DEF Going2
<1>5. /\ Y = X \union {<<x1, p1>>}
      /\ Whole(Y, to) /\ Unspent(Y, x1, q1) /\ Unspent(Y, x2, p2)
  <2>1. Y = X \union {<<x1, p1>>}
    BY <1>3, GapsFirst
  <2>2. q1 \in Nat \ {0} /\ p2 \in Nat \ {0} /\ to # x1 /\ to # x2
    BY <1>2, <1>3
  <2>3. Whole(Y, to) /\ Unspent(Y, x1, q1) /\ Unspent(Y, x2, p2)
    BY ONLY <2>2, x1 # x2, Y = Gaps(x1, q1, x2, p2), GapsSpare
  <2> QED
    BY <2>1, <2>3
<1> DEFINE s == Append1(Pair(m, bs), to, k, c)
           G == {x1}
           S == Val(v, x1, k)
<1>6. TakesOver(s, bs, Y, v, to, G, k, S)
  BY <1>1, <1>2, <1>4, <1>5, HandOverTakes
<1>7. G \subseteq {x1, x2} /\ S = Due(op, Val(v, x1, k), Val(v, x2, k))
  BY <1>1
<1> HIDE DEF s, G, S
<1>8. GoesOver(s, bs, v, Y, op, x1, x2, to, q1, p2, E)
  BY <1>1, <1>5, <1>6, <1>7, TakesAdvance
<1> QED
  BY <1>8 DEF s

LEMMA ConsumeSecondGoes ==
  ASSUME NEW m, NEW bs, NEW v, NEW X, NEW op, NEW x1, NEW x2, NEW to, NEW p1, NEW p2, NEW E,
         Going2(m, bs, v, X, op, x1, x2, to, p1, p2, E), x1 # to, x1 # x2,
         X = Gaps(x1, p1, x2, p2), p2 <= Count(bs, x2),
         NEW k, k = KeyIn(bs, x2, p2), p1 <= Count(bs, x1) => k < KeyIn(bs, x1, p1),
         NEW q2, q2 = p2 + 1, NEW Y, Y = Gaps(x1, p1, x2, q2), NEW c, c = ConIn(bs, x2, p2), \A A : Due(op, {}, A) = A
  PROVE  GoesOver(Append1(Pair(m, bs), to, k, c), bs, v, Y, op, x1, x2, to, p1, q2, E)
<1>1. /\ Foremost(k, Rest(bs, x1, p1), Rest(bs, x2, p2)) /\ k \in Nat
      /\ NextRest(bs, x2, p2, k, q2) /\ NextRest(bs, x1, p1, k, p1)
      /\ p2 \in Owned(bs, X, x2) /\ Val(v, x1, k) = {}
  BY AfterFirst
<1>2. /\ World(m, bs, X, v) /\ x1 \in DOMAIN bs /\ x2 \in DOMAIN bs /\ to \in DOMAIN bs /\ x2 # to
      /\ Ahead(bs, X, x1, p1) /\ Ahead(bs, X, x2, p2) /\ Whole(X, to)
  BY Standing
<1>3. p1 \in Nat \ {0} /\ p2 \in Nat \ {0}
  BY <1>2, AheadOwned
<1>4. \A l : Val(v, to, l) # {} => l < k
  BY <1>1, FreshBelow DEF Going2
<1>5. /\ Y = X \union {<<x2, p2>>}
      /\ Whole(Y, to) /\ Unspent(Y, x1, p1) /\ Unspent(Y, x2, q2)
  <2>1. Y = X \union {<<x2, p2>>}
    BY <1>3, GapsSecond
  <2>2. p1 \in Nat \ {0} /\ q2 \in Nat \ {0} /\ to # x1 /\ to # x2
    BY <1>2, <1>3
  <2>3. Whole(Y, to) /\ Unspent(Y, x1, p1) /\ Unspent(Y, x2, q2)
    BY ONLY <2>2, x1 # x2, Y = Gaps(x1, p1, x2, q2), GapsSpare
  <2> QED
    BY <2>1, <2>3
<1> DEFINE s == Append1(Pair(m, bs), to, k, c)
           G == {x2}
           S == Val(v, x2, k)
<1>6. TakesOver(s, bs, Y, v, to, G, k, S)
  BY <1>1, <1>2, <1>4, <1>5, HandOverTakes
<1>7. G \subseteq {x1, x2} /\ S = Due(op, Val(v, x1, k), Val(v, x2, k))
  BY <1>1
<1> HIDE DEF s, G, S
<1>8. GoesOver(s, bs, v, Y, op, x1, x2, to, p1, q2, E)
  BY <1>1, <1>5, <1>6, <1>7, TakesAdvance
<1> QED
  BY <1>8 DEF s

LEMMA TurnOver ==
  ASSUME NEW v, On(memory, bitmaps, v, call), call.stage = "loop", call.op = "consume",
         NEW p1, NEW p2, NEW s, Become(s), Move(p1, p2),
         NEW Y, Y = Gaps(call.x1, p1, call.x2, p2),
         GoesOver(s, bitmaps, v, Y,
                  call.op, call.x1, call.x2, call.to, p1, p2, Layers(call.expected))
  PROVE  Steps(v)
<1>1. PICK m, u, w : /\ s = Pair(m, u) /\ Elsewhere(bitmaps, u, v, w, {call.to, call.x1, call.x2})
                     /\ Going2(m, u, w, Y, call.op, call.x1,
                               call.x2, call.to, p1, p2, Layers(call.expected))
  BY DEF GoesOver
<1>2. memory' = m /\ bitmaps' = u
  BY <1>1, BecomeIs
<1> DEFINE d == call'
           n == call.size
<1>21. IsCall(call) /\ n \in Nat
  BY Taken2 DEF TwoOps
<1>22. d = Turned(call, p1, p2, n, call.hb)
  BY <1>21, CallMoves, Zenon DEF Move
<1>3. /\ d.op = call.op /\ d.stage = call.stage /\ d.x1 = call.x1 /\ d.x2 = call.x2 /\ d.to = call.to
      /\ d.pos1 = p1 /\ d.pos2 = p2 /\ d.size = n /\ d.hb = call.hb /\ d.range = call.range
      /\ d.expected = call.expected /\ IsCall(d) /\ Touched(d) = Touched(call)
  BY <1>22, TurnedIs
<1>4. /\ call.op \in LoopOps /\ Roles(call.op, call.x1, call.x2, call.to)
      /\ call.expected \in SUBSET Nat
  BY DEF On, Looping
<1> HIDE DEF d, n
<1>40. Y = Hole(call.op, call.x1, call.x2, p1, p2, n)
  BY DEF Hole, Gaps, Gapped
<1>41. call.op \notin Gapped
  BY DEF Gapped
<1>5. Course2(m, u, w, call.op, call.x1, call.x2, call.to, p1, p2, n, Layers(call.expected))
  BY <1>1, <1>21, <1>40, <1>41 DEF Course2
<1>6. Course(m, u, w, call.op, call.x1, call.x2, call.to, p1, p2, n, call.hb, call.range, Layers(call.expected))
  <2>1. /\ call.op \notin OneOps /\ call.op # "flip" /\ call.op # "flip_inplace" /\ call.op # "free"
    BY DEF OneOps
  <2> QED
    BY <1>5, <2>1 DEF Course
<1>7. Looping(m, u, w, d)
  BY <1>3, <1>4, <1>6 DEF Looping
<1>8. On(m, u, w, d)
  BY <1>3, <1>4, <1>7 DEF On
<1>9. Elsewhere(bitmaps, u, v, w, Touched(call) \union Touched(d))
  <2>1. {call.to, call.x1, call.x2} \subseteq Touched(call) \union Touched(d)
    BY DEF Touched
  <2> QED
    BY <1>1, <2>1, ElsewhereMore
<1> QED
  BY <1>2, <1>8, <1>9 DEF Steps, d

\* A call that begins.
LEMMA RestWhole ==
  ASSUME NEW m, NEW bs, NEW v, World(m, bs, {}, v), NEW b \in DOMAIN bs
  PROVE  /\ Ahead(bs, {}, b, 1) /\ Rest(bs, b, 1) \subseteq Nat
         /\ \A k : Val(v, b, k) # {} => k \in Rest(bs, b, 1)
<1>1. PICK h : Rep(bs, {}, h)
  BY DEF World
<1>2. Count(bs, b) \in Nat
  BY <1>1, RepTypes DEF Count
<1>3. Ahead(bs, {}, b, 1)
  BY <1>2 DEF Ahead, Unspent
<1>4. Rest(bs, b, 1) \subseteq Nat
  BY <1>3, RestIs
<1>5. ASSUME NEW k, Val(v, b, k) # {}
      PROVE  k \in Rest(bs, b, 1)
  <2>1. PICK i \in Owned(bs, {}, b) : KeyIn(bs, b, i) = k
    BY <1>5, ValKeys
  <2>2. i \in 1 .. Count(bs, b)
    BY <2>1 DEF Owned, Count
  <2> QED
    BY <2>1, <2>2 DEF Rest
<1> QED
  BY <1>3, <1>4, <1>5

LEMMA BeginGoing ==
  ASSUME NEW m, NEW bs, NEW v, World(m, bs, {}, v), NEW x1 \in DOMAIN bs,
         NEW to \in DOMAIN bs,
         Sharers(bs, to), NEW op, NEW B, NEW Q, Q \subseteq Nat, NEW E,
         \A k \in Nat : /\ B[k] # {} => k \in Q
                        /\ E[k] = Due(op, Val(v, x1, k), B[k])
                        /\ x1 # to => Val(v, to, k) = {}
  PROVE  Going(m, bs, v, {}, op, x1, to, 1, B, Q, E)
<1> DEFINE P == Rest(bs, x1, 1)
<1>1. /\ Ahead(bs, {}, x1, 1) /\ P \subseteq Nat
      /\ \A k : Val(v, x1, k) # {} => k \in P
  BY RestWhole
<1> HIDE DEF P
<1>2. OnCourse(op, x1, to, B, v, E, P, Q)
  BY <1>1, CourseBegin
<1> QED
  BY <1>1, <1>2 DEF Going, P, Whole

LEMMA BeginGoing2 ==
  ASSUME NEW m, NEW bs, NEW v, World(m, bs, {}, v), NEW x1 \in DOMAIN bs,
         NEW x2 \in DOMAIN bs,
         NEW to \in DOMAIN bs, x2 # to, Sharers(bs, to), NEW op, NEW E,
         \A k \in Nat : /\ E[k] = Due(op, Val(v, x1, k), Val(v, x2, k))
                        /\ x1 # to => Val(v, to, k) = {}
  PROVE  Going2(m, bs, v, {}, op, x1, x2, to, 1, 1, E)
<1> DEFINE Q == Rest(bs, x2, 1)
           B == Vals(v, x2)
<1>1. /\ Ahead(bs, {}, x2, 1) /\ Q \subseteq Nat
      /\ \A k : Val(v, x2, k) # {} => k \in Q
  BY RestWhole
<1>2. \A k \in Nat : B[k] = Val(v, x2, k)
  BY DEF Vals
<1> HIDE DEF Q, B
<1>3. Going(m, bs, v, {}, op, x1, to, 1, B, Q, E)
  BY <1>1, <1>2, BeginGoing
<1> QED
  BY <1>1, <1>3 DEF Going2, Q, B

\* The calls that begin, as they are entered.
LEMMA EnterRecord ==
  ASSUME NEW op, NEW x1, NEW x2, NEW to, NEW expected,
         NEW c, c = Enter(op, x1, x2, to, expected)
  PROVE  c =
          [op |-> op, stage |-> "loop", x1 |-> x1, x2 |-> x2, to |-> to, pos1 |-> 1, pos2 |-> 1,
           size |-> 0, hb |-> 0, range |-> <<0, 0>>, expected |-> expected]
BY DEF Enter, NoCall

LEMMA EnterIs ==
  ASSUME NEW op, NEW x1, NEW x2, NEW to, NEW expected,
         NEW c, c = Enter(op, x1, x2, to, expected)
  PROVE  /\ c.op = op /\ c.stage = "loop" /\ c.x1 = x1 /\ c.x2 = x2 /\ c.to = to /\ c.pos1 = 1
         /\ c.pos2 = 1 /\ c.size = 0 /\ c.hb = 0 /\ c.range = <<0, 0>> /\ c.expected = expected
         /\ IsCall(c) /\ to \in Touched(c)
<1>1. c = [op |-> op, stage |-> "loop", x1 |-> x1, x2 |-> x2, to |-> to, pos1 |-> 1, pos2 |-> 1,
           size |-> 0, hb |-> 0, range |-> <<0, 0>>, expected |-> expected]
  BY EnterRecord
<1> QED
  BY <1>1 DEF IsCall, Turned, Touched

\* What begins with the program at rest: a loop with one bitmap.
LEMMA BeginOne ==
  ASSUME NEW op \in OneOps, NEW x1, NEW x2, NEW to, NEW expected \in SUBSET Nat, NEW c,
         c = Enter(op, x1, x2, to, expected), op = "copy" <=> x1 # to,
         NEW m, NEW bs, NEW v, World(m, bs, {}, v), x1 \in DOMAIN bs, to \in DOMAIN bs,
         Sharers(bs, to),
         \A k \in Nat : /\ Layer(expected, k) = Val(v, x1, k)
                        /\ x1 # to => Val(v, to, k) = {}
  PROVE  On(m, bs, v, c)
<1> DEFINE E == Layers(expected)
<1>1. \A k \in Nat : /\ Nothing[k] # {} => k \in {}
                     /\ E[k] = Due(op, Val(v, x1, k), Nothing[k])
                     /\ x1 # to => Val(v, to, k) = {}
  BY DueIs DEF Nothing, Layers, OneOps
<1> HIDE DEF E
<1>2. Going(m, bs, v, {}, op, x1, to, 1, Nothing, {}, E)
  BY <1>1, BeginGoing
<1>3. /\ c.op = op /\ c.stage = "loop" /\ c.x1 = x1 /\ c.x2 = x2 /\ c.to = to /\ c.pos1 = 1
      /\ c.expected = expected /\ IsCall(c)
  BY EnterIs
<1>4. Roles(op, x1, x2, to) /\ op \in LoopOps
  BY DEF Roles, OneOps, LoopOps, Making
<1>5. Course1(m, bs, v, op, x1, to, 1, E)
  BY <1>2 DEF Course1
<1>6. /\ op \notin TwoOps /\ op # "flip" /\ op # "flip_inplace" /\ op # "free"
  BY DEF OneOps, TwoOps, Making, Gapped
<1>7. Course(m, bs, v, op, x1, x2, to, 1, c.pos2, c.size, c.hb, c.range, E)
  BY <1>5, <1>6 DEF Course
<1>8. Looping(m, bs, v, c)
  BY <1>3, <1>4, <1>7 DEF Looping, E
<1> QED
  BY <1>3, <1>8 DEF On

\* A loop with two bitmaps.
LEMMA BeginTwo ==
  ASSUME NEW op \in TwoOps, NEW x1, NEW x2, NEW to, NEW expected \in SUBSET Nat, NEW c,
         c = Enter(op, x1, x2, to, expected), Roles(op, x1, x2, to),
         NEW m, NEW bs, NEW v, World(m, bs, {}, v), x1 \in DOMAIN bs, x2 \in DOMAIN bs,
         to \in DOMAIN bs, x2 # to, Sharers(bs, to),
         \A k \in Nat : /\ Layer(expected, k) = Due(op, Val(v, x1, k), Val(v, x2, k))
                        /\ x1 # to => Val(v, to, k) = {}
  PROVE  On(m, bs, v, c)
<1> DEFINE E == Layers(expected)
<1>1. \A k \in Nat : /\ E[k] = Due(op, Val(v, x1, k), Val(v, x2, k))
                     /\ x1 # to => Val(v, to, k) = {}
  BY DEF Layers
<1> HIDE DEF E
<1>2. Going2(m, bs, v, {}, op, x1, x2, to, 1, 1, E)
  BY <1>1, BeginGoing2
<1>3. /\ c.op = op /\ c.stage = "loop" /\ c.x1 = x1 /\ c.x2 = x2 /\ c.to = to /\ c.pos1 = 1
      /\ c.pos2 = 1 /\ c.size = 0 /\ c.expected = expected /\ IsCall(c)
  BY EnterIs
<1>4. op \in LoopOps
  BY DEF LoopOps
<1>5. Hole(op, x1, x2, 1, 1, 0) = {}
  <2>1. \A b : Gap(b, 1, 1 - 1) = {} /\ Gap(b, 0 + 1, 1 - 1) = {}
    BY DEF Gap
  <2> QED
    BY <2>1 DEF Hole
<1>6. Course2(m, bs, v, op, x1, x2, to, 1, 1, 0, E)
  BY <1>2, <1>5 DEF Course2
<1>7. /\ op \notin OneOps /\ op # "flip" /\ op # "flip_inplace" /\ op # "free"
  BY DEF OneOps, TwoOps, Making, Gapped
<1>8. Course(m, bs, v, op, x1, x2, to, 1, 1, 0, c.hb, c.range, E)
  BY <1>6, <1>7 DEF Course
<1>9. Looping(m, bs, v, c)
  BY <1>3, <1>4, <1>8 DEF Looping, E
<1> QED
  BY <1>3, <1>9 DEF On

LEMMA ConsumeTaken ==
  ASSUME NEW v, On(memory, bitmaps, v, call), call.stage = "loop", call.op = "consume",
         NEW X, X = Gaps(call.x1, call.pos1, call.x2, call.pos2)
  PROVE  /\ Going2(memory, bitmaps, v, X, call.op, call.x1, call.x2, call.to, call.pos1, call.pos2,
                   Layers(call.expected))
         /\ call.x1 # call.to /\ call.x1 # call.x2 /\ call.op \in TwoOps
<1>1. call.op \in TwoOps /\ call.op \notin Gapped
  BY DEF TwoOps, Gapped
<1>2. X = Hole(call.op, call.x1, call.x2, call.pos1, call.pos2, call.size)
  BY <1>1 DEF Hole, Gaps
<1> QED
  BY <1>1, <1>2, Taken2 DEF Roles

\* Both have the key: a container of the answer is made from the two.
LEMMA ConsumeMeetTurn ==
  ASSUME NEW v,
         On(memory, bitmaps, v, call), call.stage = "loop", call.op = "consume", Meet,
         Move(call.pos1 + 1, call.pos2 + 1),
         NEW first, first = ExtractCopy(memory, C1),
         NEW second, second = ExtractCopy(first.memory, C2),
         NEW S, S = ValuesAt(second.memory, first.container)
                      \union ValuesAt(second.memory, second.container),
         NEW r \in InPlace(Read(second.memory, second.container), first.container, S),
         Become(Append1(WithMemory(State, ContainerFree(r.memory, second.container)),
                        call.to, Key1, r.container))
  PROVE  Steps(v)
<1> DEFINE X == Gaps(call.x1, call.pos1, call.x2, call.pos2)
           Y == Gaps(call.x1, call.pos1 + 1, call.x2, call.pos2 + 1)
           k == Key1
           n == ContainerFree(r.memory, second.container)
           s == Append1(Pair(n, bitmaps), call.to, k, r.container)
           E == Layers(call.expected)
<1>1. /\ Going2(memory, bitmaps, v, X, call.op, call.x1, call.x2, call.to, call.pos1, call.pos2, E)
      /\ call.x1 # call.to /\ call.x1 # call.x2 /\ call.op \in TwoOps
  BY ConsumeTaken
<1>2. /\ Meets(bitmaps, call.x1, call.pos1, call.x2, call.pos2, k)
      /\ Values1 = Val(v, call.x1, k) /\ Values2 = Val(v, call.x2, k)
      /\ Values1 \subseteq Lows /\ Values2 \subseteq Lows /\ Values1 # {} /\ k \in Nat
  BY <1>1, MetIs
<1>3. C1 = ConIn(bitmaps, call.x1, call.pos1) /\ C2 = ConIn(bitmaps, call.x2, call.pos2)
  BY Terms
<1>4. s = Append1(WithMemory(State, n), call.to, Key1, r.container)
  BY Terms, WithMemoryIs
<1>5. Become(s)
  BY <1>4
<1> HIDE DEF X, Y, k, s, E
<1>6. /\ ValuesAt(second.memory, first.container) = Val(v, call.x1, k)
      /\ ValuesAt(second.memory, second.container) = Val(v, call.x2, k)
  <2>1. /\ World(memory, bitmaps, X, v) /\ call.x1 \in DOMAIN bitmaps /\ call.x2 \in DOMAIN bitmaps
        /\ call.to \in DOMAIN bitmaps /\ call.x2 # call.to /\ Whole(X, call.to)
    BY <1>1, Standing
  <2>2. /\ Foremost(k, Rest(bitmaps, call.x1, call.pos1), Rest(bitmaps, call.x2, call.pos2))
        /\ call.pos1 \in Owned(bitmaps, X, call.x1) /\ call.pos2 \in Owned(bitmaps, X, call.x2)
    BY <1>1, <1>2, MeetFirst
  <2>3. \A l : Val(v, call.to, l) # {} => l < k
    BY <1>1, <2>2, FreshBelow DEF Going2
  <2>4. k = KeyIn(bitmaps, call.x1, call.pos1) /\ k = KeyIn(bitmaps, call.x2, call.pos2)
    BY <1>2 DEF Meets
  <2> DEFINE Z == (X \union {<<call.x1, call.pos1>>}) \union {<<call.x2, call.pos2>>}
  <2>5. Consuming(memory, bitmaps, X, v, call.x1, call.pos1, call.x2, call.pos2, call.to, k,
                  Z, C1, C2, first, second)
    BY <1>1, <1>3, <2>1, <2>2, <2>3, <2>4 DEF Consuming
  <2> HIDE DEF Z
  <2> QED
    BY ONLY <2>5, ConsumeReads
<1>7. S = Due(call.op, Val(v, call.x1, k), Val(v, call.x2, k))
  BY <1>6, DueIs
<1>8. S \subseteq Lows /\ S # {}
  BY <1>2, <1>6
<1>9. GoesOver(s, bitmaps, v, Y, call.op, call.x1, call.x2, call.to, call.pos1 + 1, call.pos2 + 1, E)
  <2> DEFINE c == C1
             e == C2
  <2>0. first = ExtractCopy(memory, c) /\ second = ExtractCopy(first.memory, e)
    OBVIOUS
  <2>1. c = ConIn(bitmaps, call.x1, call.pos1) /\ e = ConIn(bitmaps, call.x2, call.pos2)
    BY <1>3
  <2>2. s = Append1(Pair(ContainerFree(r.memory, second.container), bitmaps), call.to, k, r.container)
    BY DEF s
  <2>3. X = Gaps(call.x1, call.pos1, call.x2, call.pos2)
        /\ Y = Gaps(call.x1, call.pos1 + 1, call.x2, call.pos2 + 1)
    BY DEF X, Y
  <2>4. r \in InPlace(Read(second.memory, second.container), first.container, S)
    OBVIOUS
  <2> HIDE DEF c, e
  <2>5. GoesOver(Append1(Pair(ContainerFree(r.memory, second.container), bitmaps), call.to, k, r.container),
                 bitmaps, v, Y, call.op, call.x1, call.x2, call.to, call.pos1 + 1, call.pos2 + 1, E)
    BY ONLY <1>1, <1>2, <1>7, <1>8, <2>0, <2>1, <2>3, <2>4, ConsumeMeetGoes
  <2> QED
    BY <2>2, <2>5
<1> QED
  BY <1>5, <1>9, TurnOver DEF Y, E

\* The arguments go, and the repair of the answer begins.
LEMMA ConsumeEnds ==
  ASSUME NEW v, On(memory, bitmaps, v, call), call.stage = "loop", call.op = "consume",
         ~Left1, ~Left2, memory' = memory, Gone({call.x1, call.x2}),
         call' = [NoCall EXCEPT !.op = "convert", !.stage = "loop", !.x1 = call.to,
                                !.to = call.to, !.expected = call.expected]
  PROVE  Steps(v)
<1> DEFINE X == Gaps(call.x1, call.pos1, call.x2, call.pos2)
           E == Layers(call.expected)
           G == {call.x1, call.x2}
           u == [b \in DOMAIN bitmaps \ G |-> bitmaps[b]]
           c == Enter("convert", call.to, 0, call.to, call.expected)
<1>1. /\ Going2(memory, bitmaps, v, X, call.op, call.x1, call.x2, call.to, call.pos1, call.pos2, E)
      /\ call.x1 # call.to /\ call.x1 # call.x2
  BY ConsumeTaken
<1>2. ~ (call.pos1 <= Count(bitmaps, call.x1)) /\ ~ (call.pos2 <= Count(bitmaps, call.x2))
  BY Terms
<1>3. call' = c /\ bitmaps' = u
  <2> DEFINE d == [op |-> "convert", stage |-> "loop", x1 |-> call.to, x2 |-> 0, to |-> call.to,
                   pos1 |-> 1, pos2 |-> 1, size |-> 0, hb |-> 0, range |-> <<0, 0>>,
                   expected |-> call.expected]
  <2>1. c = d
    BY EnterRecord
  <2>2. call' = d
    BY DEF NoCall
  <2> QED
    BY <2>1, <2>2 DEF Gone, Live
<1> HIDE DEF E, X
<1>4. \A k \in Nat : Val(v, call.to, k) = E[k]
  BY <1>1, <1>2, Ends2
<1>5. /\ World(memory, bitmaps, X, v) /\ call.x1 \in DOMAIN bitmaps /\ call.x2 \in DOMAIN bitmaps
      /\ call.to \in DOMAIN bitmaps /\ call.x2 # call.to /\ Sharers(bitmaps, call.to)
      /\ Ahead(bitmaps, X, call.x1, call.pos1) /\ Ahead(bitmaps, X, call.x2, call.pos2)
  BY <1>1, Standing
<1>6. \A b \in G : \A k : Val(v, b, k) = {}
  <2> SUFFICES ASSUME NEW b \in G, NEW k, Val(v, b, k) # {}
               PROVE  FALSE
    OBVIOUS
  <2>1. PICK i \in Owned(bitmaps, X, b) : TRUE
    BY <1>5, ValKeys
  <2>2. i \in 1 .. Count(bitmaps, b) /\ <<b, i>> \notin X
    BY <2>1 DEF Owned, Count
  <2>3. Count(bitmaps, call.x1) \in Nat /\ Count(bitmaps, call.x2) \in Nat
        /\ call.pos1 \in Nat /\ call.pos2 \in Nat
    BY <1>5, AheadOwned
  <2>4. /\ b = call.x1 => i \in 1 .. call.pos1 - 1
        /\ b = call.x2 => i \in 1 .. call.pos2 - 1
    BY <1>2, <2>2, <2>3
  <2> QED
    BY <2>2, <2>4, GapsIn DEF X
<1>7. World(memory, u, {}, v)
  <2>1. \A a \in DOMAIN bitmaps \ G : \A i : <<a, i>> \in X <=> <<a, i>> \in {}
    BY GapsIn DEF X
  <2> HIDE DEF G
  <2> QED
    BY <1>5, <1>6, <2>1, GoneWorld
<1>8. call.to \in DOMAIN u /\ Sharers(u, call.to)
  BY <1>1, <1>5 DEF Sharers, Sharer
<1>9. \A b \in DOMAIN bitmaps : b \notin G => b \in DOMAIN u
  OBVIOUS
<1> HIDE DEF u
<1>10. call.expected \in SUBSET Nat
  BY DEF On
<1>11. On(memory, u, v, c)
  <2>1. \A k \in Nat : Layer(call.expected, k) = Val(v, call.to, k)
    BY <1>4 DEF E, Layers
  <2>2. "convert" \in OneOps
    BY DEF OneOps
  <2> QED
    BY <1>7, <1>8, <1>10, <2>1, <2>2, BeginOne
<1>12. Elsewhere(bitmaps, u, v, v, Touched(call) \union Touched(c))
  <2>1. G \subseteq Touched(call) \union Touched(c)
    BY DEF Touched
  <2> QED
    BY <1>9, <2>1 DEF Elsewhere
<1> HIDE DEF c
<1> QED
  BY <1>3, <1>11, <1>12 DEF Steps

LEMMA ConsumeSteps ==
  ASSUME NEW v, On(memory, bitmaps, v, call), ConsumeTurn
  PROVE  Steps(v)
<1> DEFINE X == Gaps(call.x1, call.pos1, call.x2, call.pos2)
           E == Layers(call.expected)
<1>1. call.stage = "loop" /\ call.op = "consume"
  BY DEF ConsumeTurn, Doing
<1>2. /\ Going2(memory, bitmaps, v, X, call.op, call.x1, call.x2, call.to, call.pos1, call.pos2, E)
      /\ call.x1 # call.to /\ call.x1 # call.x2 /\ call.op \in TwoOps
  BY <1>1, ConsumeTaken
<1>3. (\A A : Due(call.op, A, {}) = A) /\ (\A A : Due(call.op, {}, A) = A)
  BY <1>1, DueIs
<1>4. CASE Left1 /\ (Left2 => Key1 < Key2) /\ Become(Append1(State, call.to, Key1, C1))
           /\ Move(call.pos1 + 1, call.pos2)
  <2> DEFINE k == Key1
             c == C1
             Y == Gaps(call.x1, call.pos1 + 1, call.x2, call.pos2)
             s == Append1(Pair(memory, bitmaps), call.to, k, c)
  <2>1. /\ k = KeyIn(bitmaps, call.x1, call.pos1) /\ call.pos1 <= Count(bitmaps, call.x1)
        /\ call.pos2 <= Count(bitmaps, call.x2) => k < KeyIn(bitmaps, call.x2, call.pos2)
    BY <1>4, Terms
  <2>2. c = ConIn(bitmaps, call.x1, call.pos1)
    BY Terms
  <2>3. Become(s)
    BY <1>4, Terms
  <2> HIDE DEF k, c, E
  <2>4. GoesOver(s, bitmaps, v, Y, call.op, call.x1, call.x2, call.to, call.pos1 + 1, call.pos2, E)
    BY <1>2, <1>3, <2>1, <2>2, ConsumeFirstGoes
  <2> HIDE DEF s
  <2> QED
    BY <1>1, <1>4, <2>3, <2>4, TurnOver DEF E
<1>5. CASE Left2 /\ (Left1 => Key2 < Key1) /\ Become(Append1(State, call.to, Key2, C2))
           /\ Move(call.pos1, call.pos2 + 1)
  <2> DEFINE k == Key2
             c == C2
             Y == Gaps(call.x1, call.pos1, call.x2, call.pos2 + 1)
             s == Append1(Pair(memory, bitmaps), call.to, k, c)
  <2>1. /\ k = KeyIn(bitmaps, call.x2, call.pos2) /\ call.pos2 <= Count(bitmaps, call.x2)
        /\ call.pos1 <= Count(bitmaps, call.x1) => k < KeyIn(bitmaps, call.x1, call.pos1)
    BY <1>5, Terms
  <2>2. c = ConIn(bitmaps, call.x2, call.pos2)
    BY Terms
  <2>3. Become(s)
    BY <1>5, Terms
  <2> HIDE DEF k, c, E
  <2>4. GoesOver(s, bitmaps, v, Y, call.op, call.x1, call.x2, call.to, call.pos1, call.pos2 + 1, E)
    BY <1>2, <1>3, <2>1, <2>2, ConsumeSecondGoes
  <2> HIDE DEF s
  <2> QED
    BY <1>1, <1>5, <2>3, <2>4, TurnOver DEF E
<1>6. ASSUME Meet, Move(call.pos1 + 1, call.pos2 + 1),
             LET first  == ExtractCopy(memory, C1)
                 second == ExtractCopy(first.memory, C2)
                 S      == ValuesAt(second.memory, first.container)
                             \union ValuesAt(second.memory, second.container)
             IN  \E r \in InPlace(Read(second.memory, second.container), first.container, S) :
                   Become(Append1(WithMemory(State, ContainerFree(r.memory, second.container)),
                                  call.to, Key1, r.container))
      PROVE  Steps(v)
  <2> DEFINE first  == ExtractCopy(memory, C1)
             second == ExtractCopy(first.memory, C2)
             S      == ValuesAt(second.memory, first.container)
                         \union ValuesAt(second.memory, second.container)
  <2>1. PICK r \in InPlace(Read(second.memory, second.container), first.container, S) :
               Become(Append1(WithMemory(State, ContainerFree(r.memory, second.container)),
                              call.to, Key1, r.container))
    BY <1>6
  <2>2. first = ExtractCopy(memory, C1) /\ second = ExtractCopy(first.memory, C2)
        /\ S = ValuesAt(second.memory, first.container)
                         \union ValuesAt(second.memory, second.container)
    OBVIOUS
  <2> HIDE DEF first, second, S
  <2> QED
    BY <1>1, <1>6, <2>1, <2>2, ConsumeMeetTurn
<1>7. ASSUME ~Left1, ~Left2, memory' = memory, Gone({call.x1, call.x2}),
             call' = [NoCall EXCEPT !.op = "convert", !.stage = "loop", !.x1 = call.to,
                                    !.to = call.to, !.expected = call.expected]
      PROVE  Steps(v)
  BY <1>1, <1>7, ConsumeEnds
<1> HIDE DEF X, E
<1> QED
  BY <1>4, <1>5, <1>6, <1>7 DEF ConsumeTurn, Before, After

-----------------------------------------------------------------------------
(***************************************************************************)
(* The turns of the calls with one bitmap.                                 *)
(***************************************************************************)

\* What a turn leaves of the calls with one bitmap.
Goes1(s, bs, v, op, x1, to, q1, B, Q, E) ==
  \E n, u, w : /\ s = Pair(n, u) /\ Elsewhere(bs, u, v, w, {to})
               /\ Going(n, u, w, {}, op, x1, to, q1, B, Q, E)

LEMMA Advances1 ==
  ASSUME NEW m, NEW bs, NEW v, NEW op, NEW x1, NEW to, NEW p1, NEW B, NEW Q, NEW E,
         Going(m, bs, v, {}, op, x1, to, p1, B, Q, E),
         NEW k, Foremost(k, Rest(bs, x1, p1), Q), NEW S, S = Due(op, Val(v, x1, k), B[k]),
         NEW s, NEW i, NEW j, Reaches(s, bs, {}, v, to, k, S, i, j),
         NEW q1, Onwards(bs, {}, x1, to, p1, k, i, j, q1), NEW R, R = Q \ {k}
  PROVE  Goes1(s, bs, v, op, x1, to, q1, B, R, E)
<1>1. Goes(s, bs, v, {}, op, x1, to, q1, B, R, E, k, S)
  BY Advances
<1>2. PICK n, u, w : /\ s = Pair(n, u) /\ Sets(v, w, to, k, S) /\ Alike(bs, u, to)
                     /\ \A C : SameBut(C, B, k) => Going(n, u, w, {}, op, x1, to, q1, C, R, E)
  BY <1>1 DEF Goes
<1>3. SameBut(B, B, k)
  BY DEF SameBut
<1>4. Going(n, u, w, {}, op, x1, to, q1, B, R, E)
  BY <1>2, <1>3
<1>5. Elsewhere(bs, u, v, w, {to})
  BY <1>2 DEF Elsewhere, Sets, Alike
<1> QED
  BY <1>2, <1>4, <1>5 DEF Goes1

\* Where a call with one bitmap stands.
LEMMA FirstPlace ==
  ASSUME NEW m, NEW bs, NEW v, NEW op, NEW x1, NEW to, NEW p1, NEW B, NEW Q, NEW E,
         Going(m, bs, v, {}, op, x1, to, p1, B, Q, E), p1 <= Count(bs, x1),
         NEW k, k = KeyIn(bs, x1, p1), \A r \in Q : k <= r, NEW q1, q1 = p1 + 1
  PROVE  /\ Foremost(k, Rest(bs, x1, p1), Q) /\ k \in Nat /\ NextRest(bs, x1, p1, k, q1)
         /\ World(m, bs, {}, v) /\ x1 \in DOMAIN bs /\ p1 \in Owned(bs, {}, x1)
         /\ p1 \in Nat \ {0} /\ p1 \in 1 .. Count(bs, x1) /\ Count(bs, x1) \in Nat
<1>1. /\ World(m, bs, {}, v) /\ x1 \in DOMAIN bs /\ Ahead(bs, {}, x1, p1)
  BY DEF Going
<1>2. /\ p1 \in Nat \ {0} /\ Count(bs, x1) \in Nat
  BY <1>1, AheadOwned
<1>3. /\ k \in Rest(bs, x1, p1) /\ k \in Nat /\ \A r \in Rest(bs, x1, p1) : k <= r
      /\ NextRest(bs, x1, p1, k, q1) /\ p1 \in Owned(bs, {}, x1)
  BY <1>1, RestIs
<1> QED
  BY <1>1, <1>2, <1>3 DEF Foremost

LEMMA CopyGoes1 ==
  ASSUME NEW m, NEW bs, NEW v, NEW op, NEW x1, NEW to, NEW p1, NEW B, NEW Q, NEW E,
         Going(m, bs, v, {}, op, x1, to, p1, B, Q, E), x1 # to, p1 <= Count(bs, x1),
         NEW k, k = KeyIn(bs, x1, p1), \A r \in Q : k < r, NEW q1, q1 = p1 + 1,
         \A A : Due(op, A, {}) = A
  PROVE  Goes1(AppendCopy(Pair(m, bs), to, x1, p1), bs, v, op, x1, to, q1, B, Q, E)
<1>1. k \in Nat /\ Q \subseteq Nat
  <2>1. /\ World(m, bs, {}, v) /\ x1 \in DOMAIN bs /\ Ahead(bs, {}, x1, p1)
        /\ OnCourse(op, x1, to, B, v, E, Rest(bs, x1, p1), Q)
    BY DEF Going
  <2>2. k \in Nat
    BY <2>1, RestIs
  <2> QED
    BY <2>1, <2>2 DEF OnCourse
<1>2. (\A r \in Q : k <= r) /\ k \notin Q
  BY <1>1
<1>3. /\ Foremost(k, Rest(bs, x1, p1), Q) /\ NextRest(bs, x1, p1, k, q1)
  BY <1>2, FirstPlace
<1>4. B[k] = {}
  <2>1. OnCourse(op, x1, to, B, v, E, Rest(bs, x1, p1), Q)
    BY DEF Going
  <2> QED
    BY <1>2, <1>3, <2>1, ForemostOnly
<1> DEFINE s == AppendCopy(Pair(m, bs), to, x1, p1)
           S == Val(v, x1, k)
<1>5. PICK i, j : Reaches(s, bs, {}, v, to, k, S, i, j)
  BY <1>3, FirstCopied
<1>6. S = Due(op, Val(v, x1, k), B[k])
  BY <1>4
<1>7. Onwards(bs, {}, x1, to, p1, k, i, j, q1)
  BY <1>3, FreshOnwards
<1>8. Q = Q \ {k}
  BY <1>2
<1> HIDE DEF s, S
<1>9. Goes1(s, bs, v, op, x1, to, q1, B, Q, E)
  BY <1>3, <1>5, <1>6, <1>7, <1>8, Advances1
<1> QED
  BY <1>9 DEF s

LEMMA SetReaches1 ==
  ASSUME NEW m, NEW bs, NEW v, NEW op, NEW x1, NEW p1, NEW B, NEW Q, NEW E,
         Going(m, bs, v, {}, op, x1, x1, p1, B, Q, E), p1 <= Count(bs, x1),
         NEW k, k = KeyIn(bs, x1, p1), \A r \in Q : k <= r, NEW q1, q1 = p1 + 1,
         NEW S, NEW n, NEW c, Pending(n, c, bs, {}, v, x1, k, S)
  PROVE  /\ Foremost(k, Rest(bs, x1, p1), Q)
         /\ S # {} => /\ Reaches(SetAt(Pair(n, bs), x1, p1, c), bs, {}, v, x1, k, S, q1, q1)
                      /\ Onwards(bs, {}, x1, x1, p1, k, q1, q1, q1)
         /\ S = {} => /\ Reaches(Change(Pair(ContainerFree(n, c), bs), x1, RemoveAt(EntriesIn(bs, x1), p1)),
                                 bs, {}, v, x1, k, S, q1, p1)
                      /\ Onwards(bs, {}, x1, x1, p1, k, q1, p1, p1)
<1>1. /\ Foremost(k, Rest(bs, x1, p1), Q) /\ k \in Nat /\ NextRest(bs, x1, p1, k, q1)
      /\ World(m, bs, {}, v) /\ x1 \in DOMAIN bs /\ p1 \in Owned(bs, {}, x1)
      /\ p1 \in Nat \ {0} /\ p1 \in 1 .. Count(bs, x1) /\ Count(bs, x1) \in Nat
  BY FirstPlace
<1>3. Full(v)
  BY <1>1 DEF World
<1>5. Unspent({}, x1, q1) /\ Unspent({}, x1, p1) /\ Whole({}, x1)
  BY DEF Unspent, Whole
<1>6. ASSUME S # {}
      PROVE  /\ Reaches(SetAt(Pair(n, bs), x1, p1, c), bs, {}, v, x1, k, S, q1, q1)
             /\ Onwards(bs, {}, x1, x1, p1, k, q1, q1, q1)
  <2>1. q1 \in Nat \ {0}
    BY <1>1
  <2>2. Reaches(SetAt(Pair(n, bs), x1, p1, c), bs, {}, v, x1, k, S, q1, q1)
    <3>1. Pending(n, c, bs, {}, v, x1, KeyIn(bs, x1, p1), S)
      OBVIOUS
    <3>2. Reaches(SetAt(Pair(n, bs), x1, p1, c), bs, {}, v, x1, KeyIn(bs, x1, p1), S, q1, q1)
      BY <1>1, <1>3, <1>6, <2>1, <3>1, PendingSet
    <3> QED
      BY <3>2
  <2> QED
    BY <1>1, <1>5, <2>2, SameOnwards
<1>7. ASSUME S = {}
      PROVE  /\ Reaches(Change(Pair(ContainerFree(n, c), bs), x1, RemoveAt(EntriesIn(bs, x1), p1)),
                        bs, {}, v, x1, k, S, q1, p1)
             /\ Onwards(bs, {}, x1, x1, p1, k, q1, p1, p1)
  <2> DEFINE s == Change(Pair(ContainerFree(n, c), bs), x1, RemoveAt(EntriesIn(bs, x1), p1))
  <2>2. Reaches(s, bs, {}, v, x1, k, S, q1, p1)
    <3>1. Pending(n, c, bs, {}, v, x1, KeyIn(bs, x1, p1), S)
      OBVIOUS
    <3>2. Reaches(s, bs, {}, v, x1, KeyIn(bs, x1, p1), {}, p1 + 1, p1)
      BY <1>1, <1>5, <3>1, PendingRemove
    <3> QED
      BY <1>7, <3>2
  <2>3. Onwards(bs, {}, x1, x1, p1, k, q1, p1, p1)
    BY <1>1, <1>5 DEF Onwards, NextRest
  <2> QED
    BY <2>2, <2>3
<1> QED
  BY <1>1, <1>6, <1>7

LEMMA SetGoes1 ==
  ASSUME NEW m, NEW bs, NEW v, NEW op, NEW x1, NEW p1, NEW B, NEW Q, NEW E,
         Going(m, bs, v, {}, op, x1, x1, p1, B, Q, E), p1 <= Count(bs, x1),
         NEW k, k = KeyIn(bs, x1, p1), \A r \in Q : k <= r, NEW q1, q1 = p1 + 1,
         NEW S, S = Due(op, Val(v, x1, k), B[k]), NEW n, NEW c,
         Pending(n, c, bs, {}, v, x1, k, S),
         NEW R, R = Q \ {k}
  PROVE  /\ S # {} => Goes1(SetAt(Pair(n, bs), x1, p1, c), bs, v, op, x1, x1, q1, B, R, E)
         /\ S = {} => Goes1(Change(Pair(ContainerFree(n, c), bs), x1, RemoveAt(EntriesIn(bs, x1), p1)),
                            bs, v, op, x1, x1, p1, B, R, E)
<1> DEFINE s == SetAt(Pair(n, bs), x1, p1, c)
           t == Change(Pair(ContainerFree(n, c), bs), x1, RemoveAt(EntriesIn(bs, x1), p1))
<1>1. /\ Foremost(k, Rest(bs, x1, p1), Q)
      /\ S # {} => Reaches(s, bs, {}, v, x1, k, S, q1, q1) /\ Onwards(bs, {}, x1, x1, p1, k, q1, q1, q1)
      /\ S = {} => Reaches(t, bs, {}, v, x1, k, S, q1, p1) /\ Onwards(bs, {}, x1, x1, p1, k, q1, p1, p1)
  BY SetReaches1
<1> HIDE DEF s, t
<1>2. S # {} => Goes1(s, bs, v, op, x1, x1, q1, B, R, E)
  BY <1>1, Advances1
<1>3. S = {} => Goes1(t, bs, v, op, x1, x1, p1, B, R, E)
  BY <1>1, Advances1
<1> QED
  BY <1>2, <1>3 DEF s, t

LEMMA EndsOne ==
  ASSUME NEW m, NEW bs, NEW v, NEW op, NEW x1, NEW to, NEW p1, NEW B, NEW Q, NEW E,
         Going(m, bs, v, {}, op, x1, to, p1, B, Q, E), Q = {},
         ~ (p1 <= Count(bs, x1)) \/ Skips1(op, x1, to)
  PROVE  \A k \in Nat : Val(v, to, k) = E[k]
<1>1. /\ World(m, bs, {}, v) /\ x1 \in DOMAIN bs /\ Ahead(bs, {}, x1, p1)
      /\ OnCourse(op, x1, to, B, v, E, Rest(bs, x1, p1), Q)
  BY DEF Going
<1>2. ~ (p1 <= Count(bs, x1)) => Rest(bs, x1, p1) = {}
  BY <1>1, RestIs
<1> DEFINE P == Rest(bs, x1, p1)
<1> HIDE DEF P
<1>3. OnCourse(op, x1, to, B, v, E, P, Q) /\ (~ (p1 <= Count(bs, x1)) => P = {})
  BY <1>1, <1>2 DEF P
<1> QED
  BY <1>3, CourseEnd DEF Skips1

LEMMA Taken1 ==
  ASSUME NEW v, On(memory, bitmaps, v, call), call.stage = "loop", call.op \in OneOps
  PROVE  /\ Roles(call.op, call.x1, call.x2, call.to) /\ IsCall(call) /\ call.op # "free"
         /\ Going(memory, bitmaps, v, {}, call.op, call.x1, call.to, call.pos1, Nothing, {},
                  Layers(call.expected))
<1>1. call.op # "free"
  BY DEF OneOps
<1> QED
  BY <1>1 DEF On, Looping, Course, Course1

LEMMA Turn1 ==
  ASSUME NEW v, On(memory, bitmaps, v, call), call.stage = "loop", call.op \in OneOps,
         NEW p1, NEW s, Become(s), Move(p1, call.pos2),
         Goes1(s, bitmaps, v, call.op, call.x1, call.to, p1, Nothing, {}, Layers(call.expected))
  PROVE  Steps(v)
<1>1. PICK m, u, w : /\ s = Pair(m, u) /\ Elsewhere(bitmaps, u, v, w, {call.to})
                     /\ Going(m, u, w, {}, call.op, call.x1, call.to, p1, Nothing, {},
                              Layers(call.expected))
  BY DEF Goes1
<1>2. memory' = m /\ bitmaps' = u
  BY <1>1, BecomeIs
<1> DEFINE d == call'
<1>21. IsCall(call) /\ Roles(call.op, call.x1, call.x2, call.to)
  BY Taken1
<1>22. d = Turned(call, p1, call.pos2, call.size, call.hb)
  BY <1>21, CallMoves, Zenon DEF Move
<1>3. /\ d.op = call.op /\ d.stage = call.stage /\ d.x1 = call.x1 /\ d.x2 = call.x2 /\ d.to = call.to
      /\ d.pos1 = p1 /\ d.expected = call.expected /\ IsCall(d) /\ Touched(d) = Touched(call)
  BY <1>22, TurnedIs
<1>4. call.op \in LoopOps /\ call.expected \in SUBSET Nat
  BY DEF On, Looping
<1> HIDE DEF d
<1>5. Course1(m, u, w, call.op, call.x1, call.to, p1, Layers(call.expected))
  BY <1>1 DEF Course1
<1>6. Course(m, u, w, call.op, call.x1, call.x2, call.to, p1, d.pos2, d.size, d.hb, d.range,
             Layers(call.expected))
  <2>1. /\ call.op \notin TwoOps /\ call.op # "flip" /\ call.op # "flip_inplace" /\ call.op # "free"
    BY DEF TwoOps, OneOps, Making, Gapped
  <2> QED
    BY <1>5, <2>1 DEF Course
<1>7. Looping(m, u, w, d)
  BY <1>3, <1>4, <1>21, <1>6 DEF Looping
<1>8. On(m, u, w, d)
  BY <1>3, <1>4, <1>7 DEF On
<1>9. Elsewhere(bitmaps, u, v, w, Touched(call) \union Touched(d))
  <2>1. {call.to} \subseteq Touched(call) \union Touched(d)
    BY DEF Touched
  <2> QED
    BY <1>1, <2>1, ElsewhereMore
<1> QED
  BY <1>2, <1>8, <1>9 DEF Steps, d

LEMMA Closing1 ==
  ASSUME NEW v, On(memory, bitmaps, v, call), call.stage = "loop", call.op \in OneOps,
         UNCHANGED <<memory, bitmaps>>, Done, ~Left1
  PROVE  Steps(v)
<1>1. Going(memory, bitmaps, v, {}, call.op, call.x1, call.to, call.pos1, Nothing, {},
            Layers(call.expected)) /\ call.op # "free"
  BY Taken1
<1>2. \A k \in Nat : Val(v, call.to, k) = Layers(call.expected)[k]
  BY <1>1, EndsOne, Terms
<1>3. World(memory, bitmaps, {}, v) /\ call.to \in DOMAIN bitmaps /\ Sharers(bitmaps, call.to)
  BY <1>1 DEF Going
<1>4. Elsewhere(bitmaps, bitmaps, v, v, {call.to})
  BY DEF Elsewhere
<1>5. call' = Ended(call)
  BY DEF Done, Ended
<1> QED
  BY <1>1, <1>2, <1>3, <1>4, <1>5, Closing

LEMMA CopySteps ==
  ASSUME NEW v, On(memory, bitmaps, v, call), CopyTurn
  PROVE  Steps(v)
<1>1. call.stage = "loop" /\ call.op = "copy" /\ call.op \in OneOps
  BY DEF CopyTurn, Doing, OneOps
<1>2. CASE /\ Left1 /\ Move(call.pos1 + 1, call.pos2)
           /\ Become(AppendCopy(State, call.to, call.x1, call.pos1))
  <2> DEFINE s == AppendCopy(Pair(memory, bitmaps), call.to, call.x1, call.pos1)
             E == Layers(call.expected)
  <2>1. Become(s)
    BY <1>2, Terms
  <2>2. Going(memory, bitmaps, v, {}, call.op, call.x1, call.to, call.pos1, Nothing, {}, E)
        /\ call.x1 # call.to
    BY <1>1, Taken1 DEF Roles
  <2>3. call.pos1 <= Count(bitmaps, call.x1) /\ \A A : Due(call.op, A, {}) = A
    BY <1>1, <1>2, Terms, DueIs
  <2> HIDE DEF E
  <2>4. Goes1(s, bitmaps, v, call.op, call.x1, call.to, call.pos1 + 1, Nothing, {}, E)
    BY <2>2, <2>3, CopyGoes1
  <2> HIDE DEF s
  <2> QED
    BY <1>1, <1>2, <2>1, <2>4, Turn1 DEF E
<1>3. CASE ~Left1 /\ Done /\ UNCHANGED <<memory, bitmaps>>
  BY <1>1, <1>3, Closing1
<1> QED
  BY <1>2, <1>3 DEF CopyTurn

\* A call that writes x1, where it stands.
LEMMA WrittenOne ==
  ASSUME NEW v,
         On(memory, bitmaps, v, call), call.stage = "loop", call.op \in OneOps \ {"copy"}, Left1
  PROVE  /\ Going(memory, bitmaps, v, {}, call.op, call.x1, call.x1, call.pos1, Nothing, {},
                  Layers(call.expected))
         /\ call.pos1 <= Count(bitmaps, call.x1) /\ call.to = call.x1
         /\ World(memory, bitmaps, {}, v) /\ call.x1 \in DOMAIN bitmaps
         /\ call.pos1 \in Owned(bitmaps, {}, call.x1)
         /\ C1 = ConIn(bitmaps, call.x1, call.pos1) /\ \A A, B : Due(call.op, A, B) = A
<1>1. /\ Going(memory, bitmaps, v, {}, call.op, call.x1, call.to, call.pos1, Nothing, {},
               Layers(call.expected))
      /\ call.to = call.x1
  BY Taken1 DEF Roles, OneOps, LoopOps, Making
<1>2. call.pos1 <= Count(bitmaps, call.x1) /\ C1 = ConIn(bitmaps, call.x1, call.pos1)
  BY Terms
<1>3. Going(memory, bitmaps, v, {}, call.op, call.x1, call.x1, call.pos1, Nothing, {},
               Layers(call.expected))
  BY <1>1
<1>4. /\ World(memory, bitmaps, {}, v) /\ call.x1 \in DOMAIN bitmaps
      /\ call.pos1 \in Owned(bitmaps, {}, call.x1)
  BY <1>2, <1>3, FirstPlace
<1>5. \A A, B : Due(call.op, A, B) = A
  BY DueIs DEF OneOps
<1> QED
  BY <1>1, <1>2, <1>3, <1>4, <1>5

\* What a bitmap has at a place, once it has taken it for itself.
Writes(own, bs, v, b, k) ==
  \A T \in SUBSET Lows : \A q \in InPlace(own.memory, own.container, T) :
    Pending(q.memory, q.container, bs, {}, v, b, k, T)

LEMMA WrittenPlace ==
  ASSUME NEW m, NEW bs, NEW v, World(m, bs, {}, v), NEW b \in DOMAIN bs,
         NEW i \in Owned(bs, {}, b),
         NEW k, k = KeyIn(bs, b, i), NEW c, c = ConIn(bs, b, i),
         NEW own, own = ExtractCopy(m, c)
  PROVE  /\ Val(v, b, k) # {} /\ Val(v, b, k) \subseteq Lows /\ k \in Nat
         /\ ValuesAt(own.memory, own.container) = Val(v, b, k)
         /\ Writes(own, bs, v, b, k)
<1>1. Val(v, b, k) # {} /\ Val(v, b, k) \subseteq Lows /\ k \in Nat
  BY ReadPlace
<1> DEFINE l == KeyIn(bs, b, i)
           X == {}
           e == ExtractCopy(m, ConIn(bs, b, i))
<1>2. /\ ValuesAt(e.memory, e.container) = Val(v, b, l)
      /\ \A S \in SUBSET Lows : \A r \in InPlace(e.memory, e.container, S) :
              Pending(r.memory, r.container, bs, X, v, b, l, S)
  <2>1. World(m, bs, X, v) /\ b \in DOMAIN bs /\ i \in Owned(bs, X, b)
    OBVIOUS
  <2> HIDE DEF X
  <2> QED
    BY ONLY <2>1, ExtractReads
<1>3. l = k /\ e = own
  OBVIOUS
<1> HIDE DEF l, e
<1>4. Writes(own, bs, v, b, k)
  BY <1>2, <1>3 DEF Writes
<1> QED
  BY <1>1, <1>2, <1>3, <1>4

\* What a container is written to under the key that is next.
LEMMA PlacePending ==
  ASSUME NEW m, NEW bs, NEW v, World(m, bs, {}, v), NEW b \in DOMAIN bs,
         NEW i \in Owned(bs, {}, b),
         NEW k, k = KeyIn(bs, b, i), NEW c, c = ConIn(bs, b, i),
         NEW own, own = ExtractCopy(m, c),
         NEW S \in SUBSET Lows, NEW r \in InPlace(own.memory, own.container, S)
  PROVE  Pending(r.memory, r.container, bs, {}, v, b, k, S) /\ ValuesOf(r) = S
<1>1. Writes(own, bs, v, b, k)
  <2>1. /\ World(m, bs, {}, v) /\ b \in DOMAIN bs /\ i \in Owned(bs, {}, b) /\ k = KeyIn(bs, b, i)
        /\ c = ConIn(bs, b, i) /\ own = ExtractCopy(m, c)
    OBVIOUS
  <2> QED
    BY ONLY <2>1, WrittenPlace
<1>2. Pending(r.memory, r.container, bs, {}, v, b, k, S)
  BY <1>1 DEF Writes
<1> QED
  BY <1>2, PendingRead DEF ValuesOf

LEMMA WriteGoes1 ==
  ASSUME NEW m, NEW bs, NEW v, NEW op, NEW x1, NEW p1, NEW B, NEW Q, NEW E,
         Going(m, bs, v, {}, op, x1, x1, p1, B, Q, E), p1 <= Count(bs, x1),
         NEW k, k = KeyIn(bs, x1, p1), \A r \in Q : k <= r, NEW q1, q1 = p1 + 1,
         NEW R, R = Q \ {k}, NEW c, c = ConIn(bs, x1, p1), NEW own, own = ExtractCopy(m, c),
         NEW S \in SUBSET Lows, S = Due(op, Val(v, x1, k), B[k]),
         NEW r \in InPlace(own.memory, own.container, S)
  PROVE  /\ ValuesOf(r) = S
         /\ S # {} => Goes1(SetAt(Pair(r.memory, bs), x1, p1, r.container), bs, v, op, x1, x1, q1, B, R, E)
         /\ S = {} => Goes1(Change(Pair(ContainerFree(r.memory, r.container), bs), x1,
                                   RemoveAt(EntriesIn(bs, x1), p1)),
                            bs, v, op, x1, x1, p1, B, R, E)
<1>1. /\ World(m, bs, {}, v) /\ x1 \in DOMAIN bs /\ p1 \in Owned(bs, {}, x1)
  <2>1. /\ Going(m, bs, v, {}, op, x1, x1, p1, B, Q, E) /\ p1 <= Count(bs, x1)
        /\ k = KeyIn(bs, x1, p1) /\ (\A j \in Q : k <= j) /\ q1 = p1 + 1
    OBVIOUS
  <2> QED
    BY ONLY <2>1, FirstPlace
<1> DEFINE n == r.memory
           d == r.container
<1>2. Pending(n, d, bs, {}, v, x1, k, S) /\ ValuesOf(r) = S
  <2>1. /\ World(m, bs, {}, v) /\ x1 \in DOMAIN bs /\ p1 \in Owned(bs, {}, x1)
        /\ k = KeyIn(bs, x1, p1) /\ c = ConIn(bs, x1, p1) /\ own = ExtractCopy(m, c)
        /\ S \in SUBSET Lows /\ r \in InPlace(own.memory, own.container, S)
    BY <1>1
  <2> QED
    BY ONLY <2>1, PlacePending
<1> HIDE DEF n, d
<1>3. /\ S # {} => Goes1(SetAt(Pair(n, bs), x1, p1, d), bs, v, op, x1, x1, q1, B, R, E)
      /\ S = {} => Goes1(Change(Pair(ContainerFree(n, d), bs), x1, RemoveAt(EntriesIn(bs, x1), p1)),
                            bs, v, op, x1, x1, p1, B, R, E)
  <2>1. /\ Going(m, bs, v, {}, op, x1, x1, p1, B, Q, E) /\ p1 <= Count(bs, x1)
        /\ k = KeyIn(bs, x1, p1) /\ (\A j \in Q : k <= j) /\ q1 = p1 + 1
        /\ S = Due(op, Val(v, x1, k), B[k]) /\ Pending(n, d, bs, {}, v, x1, k, S) /\ R = Q \ {k}
    BY <1>2
  <2> QED
    BY ONLY <2>1, SetGoes1
<1> QED
  BY <1>2, <1>3 DEF n, d

LEMMA ConvertSteps ==
  ASSUME NEW v, On(memory, bitmaps, v, call), ConvertTurn
  PROVE  Steps(v)
<1>1. call.stage = "loop" /\ call.op = "convert" /\ call.op \in OneOps \ {"copy"} /\ call.op \in OneOps
  BY DEF ConvertTurn, Doing, OneOps
<1>2. ASSUME Left1, Move(call.pos1 + 1, call.pos2), NEW r, r \in Written(C1, {}, LAMBDA A, B : A),
             Become(SetAt(WithMemory(State, r.memory), call.x1, call.pos1, r.container))
      PROVE  Steps(v)
  <2> DEFINE op == call.op
             x1 == call.x1
             p1 == call.pos1
             q1 == p1 + 1
             k == KeyIn(bitmaps, x1, p1)
             d == C1
             S == Val(v, x1, k)
             own == ExtractCopy(memory, d)
             s == SetAt(Pair(r.memory, bitmaps), x1, p1, r.container)
             E == Layers(call.expected)
  <2>1. /\ Going(memory, bitmaps, v, {}, op, x1, x1, p1, Nothing, {}, E)
        /\ p1 <= Count(bitmaps, x1) /\ call.to = x1
        /\ World(memory, bitmaps, {}, v) /\ x1 \in DOMAIN bitmaps
        /\ p1 \in Owned(bitmaps, {}, x1)
        /\ d = ConIn(bitmaps, x1, p1) /\ \A A, B : Due(op, A, B) = A
    BY <1>1, <1>2, WrittenOne
  <2>2. r \in InPlace(own.memory, own.container, ValuesAt(own.memory, own.container))
    BY <1>2 DEF Written
  <2>3. Become(s)
    BY <1>2, Terms, WithMemoryIs
  <2>4. own = ExtractCopy(memory, d) /\ k = KeyIn(bitmaps, x1, p1) /\ q1 = p1 + 1
    OBVIOUS
  <2> HIDE DEF own, k, d, x1, p1, q1, E, op
  <2>5. /\ S # {} /\ S \in SUBSET Lows /\ ValuesAt(own.memory, own.container) = S
    <3>1. /\ World(memory, bitmaps, {}, v) /\ x1 \in DOMAIN bitmaps /\ p1 \in Owned(bitmaps, {}, x1)
          /\ k = KeyIn(bitmaps, x1, p1) /\ d = ConIn(bitmaps, x1, p1) /\ own = ExtractCopy(memory, d)
      BY <2>1, <2>4
    <3> QED
      BY ONLY <3>1, WrittenPlace
  <2>6. S = Due(op, Val(v, x1, k), Nothing[k]) /\ {} = {} \ {k}
    BY <2>1
  <2>7. r \in InPlace(own.memory, own.container, S)
    BY <2>2, <2>5
  <2> HIDE DEF S
  <2>8. Goes1(s, bitmaps, v, op, x1, x1, q1, Nothing, {}, E)
    <3>1. /\ Going(memory, bitmaps, v, {}, op, x1, x1, p1, Nothing, {}, E) /\ p1 <= Count(bitmaps, x1)
          /\ k = KeyIn(bitmaps, x1, p1) /\ (\A j \in {} : k <= j) /\ q1 = p1 + 1
          /\ {} = {} \ {k} /\ d = ConIn(bitmaps, x1, p1) /\ own = ExtractCopy(memory, d)
          /\ S \in SUBSET Lows /\ S = Due(op, Val(v, x1, k), Nothing[k])
          /\ r \in InPlace(own.memory, own.container, S)
      BY <2>1, <2>4, <2>5, <2>6, <2>7
    <3>2. S # {} => Goes1(s, bitmaps, v, op, x1, x1, q1, Nothing, {}, E)
      BY ONLY <3>1, WriteGoes1
    <3> QED
      BY <2>5, <3>2
  <2>9. Goes1(s, bitmaps, v, call.op, call.x1, call.to, call.pos1 + 1, Nothing, {}, Layers(call.expected))
    BY <2>1, <2>8 DEF E, x1, p1, q1, op
  <2> HIDE DEF s
  <2> QED
    BY <1>1, <1>2, <2>3, <2>9, Turn1
<1>3. CASE ~Left1 /\ Done /\ UNCHANGED <<memory, bitmaps>>
  BY <1>1, <1>3, Closing1
<1> QED
  BY <1>2, <1>3 DEF ConvertTurn

LEMMA StayGoes1 ==
  ASSUME NEW m, NEW bs, NEW v, NEW op, NEW x1, NEW p1, NEW B, NEW E,
         Going(m, bs, v, {}, op, x1, x1, p1, B, {}, E), p1 <= Count(bs, x1),
         NEW k, k = KeyIn(bs, x1, p1), NEW q1, q1 = p1 + 1,
         Val(v, x1, k) = Due(op, Val(v, x1, k), B[k])
  PROVE  Goes1(Pair(m, bs), bs, v, op, x1, x1, q1, B, {}, E)
<1>1. /\ Foremost(k, Rest(bs, x1, p1), {}) /\ k \in Nat /\ NextRest(bs, x1, p1, k, q1)
      /\ World(m, bs, {}, v) /\ x1 \in DOMAIN bs
  BY FirstPlace
<1> DEFINE s == Pair(m, bs)
           S == Val(v, x1, k)
<1>2. Reaches(s, bs, {}, v, x1, k, S, q1, q1)
  <2>1. Sets(v, v, x1, k, S)
    BY DEF Sets
  <2>2. Leaves(m, bs, {}, v, x1, k, S)
    BY <1>1, <2>1 DEF Leaves
  <2> QED
    BY <2>2, LeavesReaches
<1>3. Onwards(bs, {}, x1, x1, p1, k, q1, q1, q1)
  BY <1>1, SameOnwards DEF Unspent
<1>4. {} = {} \ {k}
  OBVIOUS
<1> HIDE DEF s, S
<1>5. Goes1(s, bs, v, op, x1, x1, q1, B, {}, E)
  <2>1. S = Due(op, Val(v, x1, k), B[k])
    BY DEF S
  <2> QED
    BY <1>1, <1>2, <1>3, <1>4, <2>1, Advances1
<1> QED
  BY <1>5 DEF s

\* There are no run containers here, so there is nothing to do.
LEMMA RemoveRunCompressionSteps ==
  ASSUME NEW v, On(memory, bitmaps, v, call), RemoveRunCompressionTurn, "run" \notin Kinds
  PROVE  Steps(v)
<1>1. /\ call.stage = "loop" /\ call.op = "remove_run_compression" /\ call.op \in OneOps \ {"copy"}
      /\ call.op \in OneOps
  BY DEF RemoveRunCompressionTurn, Doing, OneOps
<1>2. ASSUME Left1, Move(call.pos1 + 1, call.pos2),
             Unwrap(memory, C1).type # "run" => Become(State)
      PROVE  Steps(v)
  <2> DEFINE x1 == call.x1
             p1 == call.pos1
             k == KeyIn(bitmaps, x1, p1)
             E == Layers(call.expected)
             s == Pair(memory, bitmaps)
  <2>1. /\ Going(memory, bitmaps, v, {}, call.op, x1, x1, p1, Nothing, {}, E)
        /\ p1 <= Count(bitmaps, x1) /\ call.to = x1
        /\ World(memory, bitmaps, {}, v) /\ x1 \in DOMAIN bitmaps
        /\ p1 \in Owned(bitmaps, {}, x1)
        /\ C1 = ConIn(bitmaps, x1, p1) /\ \A A, B : Due(call.op, A, B) = A
    BY <1>1, <1>2, WrittenOne
  <2>2. Unwrap(memory, C1).type \in Kinds
    BY <2>1, ReadPlace
  <2>3. Become(s)
    BY <1>2, <2>2, Terms
  <2>4. Val(v, x1, k) = Due(call.op, Val(v, x1, k), Nothing[k])
    BY <2>1
  <2> HIDE DEF k, E
  <2>5. Goes1(s, bitmaps, v, call.op, x1, x1, p1 + 1, Nothing, {}, E)
    <3>1. k = KeyIn(bitmaps, x1, p1)
      BY DEF k
    <3> QED
      BY <2>1, <2>4, <3>1, StayGoes1
  <2>9. Goes1(s, bitmaps, v, call.op, call.x1, call.to, call.pos1 + 1, Nothing, {}, Layers(call.expected))
    BY <2>1, <2>5 DEF E
  <2> HIDE DEF s
  <2> QED
    BY <1>1, <1>2, <2>3, <2>9, Turn1
<1>3. CASE ~Left1 /\ Done /\ UNCHANGED <<memory, bitmaps>>
  BY <1>1, <1>3, Closing1
<1>4. \/ /\ Left1 /\ Move(call.pos1 + 1, call.pos2)
         /\ Unwrap(memory, C1).type # "run" => Become(State)
      \/ ~Left1 /\ Done /\ UNCHANGED <<memory, bitmaps>>
  BY DEF RemoveRunCompressionTurn
<1> QED
  BY <1>2, <1>3, <1>4

\* What a call that frees a bitmap has let go of.
Freed(x1, p1) == Gap(x1, 1, p1 - 1)

LEMMA FreedIs ==
  ASSUME NEW x1, NEW p \in Nat \ {0}, NEW q, q = p + 1
  PROVE  /\ Freed(x1, q) = Freed(x1, p) \union {<<x1, p>>}
         /\ Unspent(Freed(x1, q), x1, q)
         /\ \A a, i : <<a, i>> \in Freed(x1, p) <=> a = x1 /\ i \in 1 .. p - 1
<1>1. Gap(x1, 1, p - 1) \union {<<x1, p>>} = Gap(x1, 1, p) /\ Unspent(Gap(x1, 1, p), x1, p + 1)
  <2> DEFINE lo == 1
  <2>1. lo \in Nat /\ lo <= p
    OBVIOUS
  <2> HIDE DEF lo
  <2>2. Gap(x1, lo, p - 1) \union {<<x1, p>>} = Gap(x1, lo, p) /\ Unspent(Gap(x1, lo, p), x1, p + 1)
    BY ONLY <2>1, p \in Nat \ {0}, GapIs, Zenon
  <2> QED
    BY <2>2 DEF lo
<1>2. q - 1 = p
  OBVIOUS
<1>3. \A a, i : <<a, i>> \in Freed(x1, p) <=> a = x1 /\ i \in 1 .. p - 1
  BY InGap DEF Freed
<1> QED
  BY <1>1, <1>2, <1>3 DEF Freed

LEMMA FreeOne ==
  ASSUME NEW m, NEW bs, NEW v, NEW x1, NEW p1,
         Freeing(m, bs, v, x1, p1), p1 <= Count(bs, x1),
         NEW c, c = ConIn(bs, x1, p1), NEW q1, q1 = p1 + 1
  PROVE  \E w : Freeing(ContainerFree(m, c), bs, w, x1, q1) /\ Elsewhere(bs, bs, v, w, {x1})
<1> DEFINE X == Freed(x1, p1)
           Y == Freed(x1, q1)
           k == KeyIn(bs, x1, p1)
<1>1. x1 \in DOMAIN bs /\ World(m, bs, X, v) /\ Sharers(bs, x1) /\ Ahead(bs, X, x1, p1)
  BY DEF Freeing, Freed
<1> HIDE DEF X, k
<1>2. Count(bs, x1) \in Nat /\ p1 \in Nat \ {0} /\ p1 \in Owned(bs, X, x1)
  BY <1>1, AheadOwned
<1>3. Y = X \union {<<x1, p1>>} /\ Unspent(Y, x1, q1)
  BY <1>2, FreedIs DEF X
<1>4. q1 \in 1 .. Count(bs, x1) + 1
  BY <1>2
<1> HIDE DEF Y
<1>5. Leaves(ContainerFree(m, c), bs, Y, v, x1, KeyIn(bs, x1, p1), {})
  BY <1>1, <1>2, <1>3, FreePlace
<1>6. PICK w : World(ContainerFree(m, c), bs, Y, w) /\ Sets(v, w, x1, KeyIn(bs, x1, p1), {})
  BY <1>5 DEF Leaves
<1>7. Ahead(bs, Y, x1, q1)
  BY <1>3, <1>4 DEF Ahead
<1>8. Freeing(ContainerFree(m, c), bs, w, x1, q1)
  BY <1>1, <1>6, <1>7 DEF Freeing, Y, Freed
<1>9. Elsewhere(bs, bs, v, w, {x1})
  BY <1>6 DEF Elsewhere, Sets
<1> QED
  BY <1>8, <1>9

LEMMA FreeLast ==
  ASSUME NEW m, NEW bs, NEW v, NEW x1, NEW p1,
         Freeing(m, bs, v, x1, p1), ~(p1 <= Count(bs, x1)),
         NEW u, u = [b \in DOMAIN bs \ {x1} |-> bs[b]]
  PROVE  World(m, u, {}, v) /\ Sharers(u, x1) /\ Elsewhere(bs, u, v, v, {x1})
<1> DEFINE X == Freed(x1, p1)
           G == {x1}
<1>1. x1 \in DOMAIN bs /\ World(m, bs, X, v) /\ Sharers(bs, x1) /\ Ahead(bs, X, x1, p1)
  BY DEF Freeing, Freed
<1>2. Count(bs, x1) \in Nat /\ p1 \in Nat \ {0}
  <2> HIDE DEF X
  <2> QED
    BY <1>1, AheadOwned
<1>3. \A a, i : <<a, i>> \in X <=> a = x1 /\ i \in 1 .. p1 - 1
  BY <1>2, FreedIs
<1> HIDE DEF X
<1>4. \A b \in G : \A k : Val(v, b, k) = {}
  <2> SUFFICES ASSUME NEW k, Val(v, x1, k) # {}
               PROVE  FALSE
    OBVIOUS
  <2>1. PICK i \in Owned(bs, X, x1) : TRUE
    BY <1>1, ValKeys
  <2>2. i \in 1 .. Count(bs, x1) /\ <<x1, i>> \notin X
    BY <2>1 DEF Owned, Count
  <2> QED
    BY <1>2, <1>3, <2>2
<1>5. World(m, u, {}, v)
  <2>1. \A a \in DOMAIN bs \ G : \A i : <<a, i>> \in X <=> <<a, i>> \in {}
    BY <1>3
  <2> HIDE DEF G
  <2>2. World(m, [b \in DOMAIN bs \ G |-> bs[b]], {}, v)
    BY <1>1, <1>4, <2>1, GoneWorld
  <2> QED
    BY <2>2 DEF G
<1>6. Sharers(u, x1)
  BY <1>1 DEF Sharers, Sharer
<1>7. Elsewhere(bs, u, v, v, {x1})
  BY DEF Elsewhere
<1> QED
  BY <1>5, <1>6, <1>7

LEMMA FreeSteps ==
  ASSUME NEW v, On(memory, bitmaps, v, call), FreeTurn
  PROVE  Steps(v)
<1>1. call.stage = "loop" /\ call.op = "free" /\ call.op \in LoopOps
  BY DEF FreeTurn, Doing, LoopOps
<1>2. call.op \notin TwoOps /\ call.op \notin OneOps /\ call.op # "flip" /\ call.op # "flip_inplace"
  BY <1>1 DEF TwoOps, OneOps, Making, Gapped
<1>3. /\ IsCall(call) /\ call.expected \in SUBSET Nat /\ call.to = call.x1
      /\ Roles(call.op, call.x1, call.x2, call.to)
      /\ Freeing(memory, bitmaps, v, call.x1, call.pos1)
  <2>1. Looping(memory, bitmaps, v, call) /\ IsCall(call) /\ call.expected \in SUBSET Nat
    BY <1>1 DEF On
  <2>2. Roles(call.op, call.x1, call.x2, call.to) /\ Freeing(memory, bitmaps, v, call.x1, call.pos1)
    BY <1>1, <2>1 DEF Looping, Course
  <2>3. call.to = call.x1
    BY <1>1, <1>2, <2>2 DEF Roles, Making, LoopOps
  <2> QED
    BY <2>1, <2>2, <2>3
<1>4. CASE /\ Left1 /\ Move(call.pos1 + 1, call.pos2)
           /\ Become(WithMemory(State, ContainerFree(memory, C1)))
  <2> DEFINE n == ContainerFree(memory, C1)
             q1 == call.pos1 + 1
             d == call'
  <2>1. memory' = n /\ bitmaps' = bitmaps
    BY <1>4, Terms, WithMemoryIs, BecomeIs
  <2>2. call.pos1 <= Count(bitmaps, call.x1) /\ C1 = ConIn(bitmaps, call.x1, call.pos1)
    BY <1>4, Terms
  <2>3. PICK w : Freeing(n, bitmaps, w, call.x1, q1) /\ Elsewhere(bitmaps, bitmaps, v, w, {call.x1})
    BY <1>3, <2>2, FreeOne
  <2>4. d = Turned(call, q1, call.pos2, call.size, call.hb)
    BY <1>3, <1>4, CallMoves, Zenon DEF Move
  <2> HIDE DEF n, q1, d
  <2>5. /\ d.op = call.op /\ d.stage = call.stage /\ d.x1 = call.x1 /\ d.x2 = call.x2 /\ d.to = call.to
        /\ d.pos1 = q1 /\ d.expected = call.expected /\ IsCall(d) /\ Touched(d) = Touched(call)
    BY <2>4, TurnedIs
  <2>6. Course(n, bitmaps, w, d.op, d.x1, d.x2, d.to, d.pos1, d.pos2, d.size, d.hb, d.range,
               Layers(d.expected))
    BY <1>1, <1>2, <2>3, <2>5 DEF Course
  <2>7. Looping(n, bitmaps, w, d)
    BY <1>1, <1>3, <2>5, <2>6 DEF Looping
  <2>8. On(n, bitmaps, w, d)
    BY <1>1, <1>3, <2>5, <2>7 DEF On
  <2>9. Elsewhere(bitmaps, bitmaps, v, w, Touched(call) \union Touched(d))
    <3>1. {call.x1} \subseteq Touched(call) \union Touched(d)
      BY <1>3 DEF Touched
    <3> QED
      BY <2>3, <3>1, ElsewhereMore
  <2> QED
    BY <2>1, <2>8, <2>9 DEF Steps, d
<1>5. CASE ~Left1 /\ Done /\ memory' = memory /\ Gone({call.x1})
  <2> DEFINE d == call'
             u == bitmaps'
  <2>1. u = [b \in DOMAIN bitmaps \ {call.x1} |-> bitmaps[b]]
    BY <1>5 DEF Gone, Live
  <2>2. ~(call.pos1 <= Count(bitmaps, call.x1))
    BY <1>5, Terms
  <2>3. World(memory, u, {}, v) /\ Sharers(u, call.x1) /\ Elsewhere(bitmaps, u, v, v, {call.x1})
    BY <1>3, <2>1, <2>2, FreeLast
  <2>4. d = Ended(call)
    BY <1>5 DEF Done, Ended
  <2>5. /\ d.op = call.op /\ d.stage = "done" /\ d.to = call.to
        /\ d.expected = call.expected /\ IsCall(d) /\ Touched(d) = Touched(call)
    BY <1>3, <2>4, EndedIs
  <2> HIDE DEF d, u
  <2>6. Finished(memory, u, v, d)
    BY <1>1, <1>3, <2>3, <2>5 DEF Finished
  <2>7. On(memory, u, v, d)
    BY <1>3, <2>5, <2>6 DEF On
  <2>8. Elsewhere(bitmaps, u, v, v, Touched(call) \union Touched(d))
    <3>1. {call.x1} \subseteq Touched(call) \union Touched(d)
      BY <1>3 DEF Touched
    <3> QED
      BY <2>3, <3>1, ElsewhereMore
  <2> QED
    BY <1>5, <2>7, <2>8 DEF Steps, d, u
<1> QED
  BY <1>4, <1>5 DEF FreeTurn

-----------------------------------------------------------------------------
(***************************************************************************)
(* Values, and the keys that they are under.                               *)
(***************************************************************************)
LEMMA Widths ==
  ASSUME NEW a \in Nat, NEW b \in Nat, a < b
  PROVE  Width * a + Width <= Width * b
<1>1. Width \in Nat \ {0}
  BY SharedAssumption
<1>2. PICK d \in Nat : b = a + d + 1
  <2>1. b - a - 1 \in Nat /\ b = a + (b - a - 1) + 1
    OBVIOUS
  <2> QED
    BY <2>1
<1>3. Width * b = Width * a + Width * d + Width
  BY <1>1, <1>2
<1>4. Width * d \in Nat /\ Width * a \in Nat
  BY <1>1
<1> QED
  BY <1>1, <1>3, <1>4

LEMMA HighIs ==
  ASSUME NEW x \in Nat
  PROVE  High(x) \in Nat /\ Low(x) \in Lows /\ x = Width * High(x) + Low(x)
BY SharedAssumption DEF High, Low, Lows

LEMMA KeyOnce ==
  ASSUME NEW a \in Nat, NEW b \in Nat, NEW x \in Lows,
         NEW y \in Lows, Width * a + x = Width * b + y
  PROVE  a = b /\ x = y
<1>1. Width \in Nat \ {0} /\ x \in 0 .. Width - 1 /\ y \in 0 .. Width - 1
  BY SharedAssumption DEF Lows
<1>2. Width * a \in Nat /\ Width * b \in Nat
  BY <1>1
<1>3. ~(a < b)
  BY <1>1, <1>2, Widths
<1>4. ~(b < a)
  BY <1>1, <1>2, Widths
<1> QED
  BY <1>1, <1>2, <1>3, <1>4

LEMMA HighLow ==
  ASSUME NEW k \in Nat, NEW l \in Lows
  PROVE  Width * k + l \in Nat /\ High(Width * k + l) = k /\ Low(Width * k + l) = l
<1>1. Width * k + l \in Nat
  BY SharedAssumption DEF Lows
<1> DEFINE x == Width * k + l
<1>2. High(x) \in Nat /\ Low(x) \in Lows /\ x = Width * High(x) + Low(x)
  <2> HIDE DEF x
  <2> QED
    BY <1>1, HighIs DEF x
<1>3. High(x) = k /\ Low(x) = l
  BY <1>2, KeyOnce
<1> QED
  BY <1>1, <1>3

\* The keys that a range flips something under.
LEMMA RangeKeys ==
  ASSUME NEW range \in Ranges, NEW k \in Nat
  PROVE  /\ High(range[1]) \in Nat /\ LastOf(range) \in Nat /\ High(range[1]) <= LastOf(range)
         /\ RangeOf(range)[k] # {} <=> k \in High(range[1]) .. LastOf(range)
         /\ RangeOf(range)[k] \in SUBSET Lows
<1> DEFINE a == range[1]
           z == range[2] - 1
           f == High(a)
           l == High(z)
<1>1. a \in Nat /\ z \in Nat /\ a <= z
  BY DEF Ranges
<1>2. /\ f \in Nat /\ Low(a) \in Lows /\ a = Width * f + Low(a)
      /\ l \in Nat /\ Low(z) \in Lows /\ z = Width * l + Low(z)
  BY <1>1, HighIs
<1>3. Width \in Nat \ {0} /\ Lows = 0 .. Width - 1
  BY SharedAssumption DEF Lows
<1>4. RangeOf(range)[k] = {x \in Lows : Width * k + x \in a .. z}
  BY DEF RangeOf
<1> HIDE DEF a, z
<1>5. Width * k \in Nat /\ Width * f \in Nat /\ Width * l \in Nat
  BY <1>2, <1>3
<1> HIDE DEF f, l
<1>6. ASSUME NEW x \in Lows, Width * k + x \in a .. z
      PROVE  k \in f .. l
  <2>1. ~(k < f)
    BY <1>1, <1>2, <1>3, <1>5, <1>6, Widths
  <2>2. ~(l < k)
    BY <1>1, <1>2, <1>3, <1>5, <1>6, Widths
  <2> QED
    BY <1>2, <2>1, <2>2
<1>7. ASSUME k \in f .. l
      PROVE  \E x \in Lows : Width * k + x \in a .. z
  <2>1. CASE k = f
    <3>1. Width * k + Low(a) \in a .. z
      BY <1>1, <1>2, <2>1
    <3> QED
      BY <1>2, <3>1
  <2>2. CASE f < k
    <3>1. a <= Width * k
      BY <1>1, <1>2, <1>3, <1>5, <2>2, Widths
    <3>2. Width * k <= Width * l
      <4>1. CASE k < l
        BY <1>2, <1>3, <1>5, <4>1, Widths
      <4> QED
        BY <1>2, <1>5, <1>7, <4>1
    <3>3. Width * k + 0 \in a .. z
      BY <1>1, <1>2, <1>3, <1>5, <3>1, <3>2
    <3> QED
      BY <1>3, <3>3
  <2> QED
    BY <1>2, <1>7, <2>1, <2>2
<1>8. f <= l
  <2>1. ~(l < f)
    BY <1>1, <1>2, <1>3, <1>5, Widths
  <2> QED
    BY <1>2, <2>1
<1>9. High(range[1]) = f /\ LastOf(range) = l
  BY DEF f, l, a, z, LastOf
<1> QED
  BY <1>2, <1>4, <1>6, <1>7, <1>8, <1>9

LEMMA FlipTerms ==
  ASSUME call.hb \in Nat
  PROVE  FlippedLows(call.hb) = RangeOf(call.range)[call.hb] /\ LastKey = LastOf(call.range)
BY DEF FlippedLows, RangeOf, LastKey, LastOf

-----------------------------------------------------------------------------
(***************************************************************************)
(* The turns of a flip.                                                    *)
(***************************************************************************)
LEMMA FlipResult ==
  ASSUME NEW m, NEW bs, NEW v, NEW op, NEW x1, NEW to, NEW p1, NEW B, NEW Q, NEW E,
         Going(m, bs, v, {}, op, x1, to, p1, B, Q, E), x1 # to,
         NEW k, Foremost(k, Rest(bs, x1, p1), Q), NEW q1, NextRest(bs, x1, p1, k, q1),
         NEW kind \in Kinds, NEW S \in SUBSET Lows, S = Due(op, Val(v, x1, k), B[k]),
         NEW new, new = Allocate(m, k, kind, S), NEW R, R = Q \ {k}
  PROVE  Goes1(Resulting(m, bs, to, k, new, S), bs, v, op, x1, to, q1, B, R, E)
<1>1. (\A j : Val(v, to, j) # {} => j < k) /\ Val(v, to, k) = {} /\ k \in Nat
  <2>1. /\ Going(m, bs, v, {}, op, x1, to, p1, B, Q, E) /\ x1 # to /\ Foremost(k, Rest(bs, x1, p1), Q)
    OBVIOUS
  <2> QED
    BY ONLY <2>1, FreshBelow
<1>2. World(m, bs, {}, v) /\ to \in DOMAIN bs /\ Whole({}, to)
  BY DEF Going, Whole
<1> DEFINE s == Resulting(m, bs, to, k, new, S)
<1>3. \E i, j : Reaches(s, bs, {}, v, to, k, S, i, j)
  <2>1. /\ World(m, bs, {}, v) /\ to \in DOMAIN bs /\ Whole({}, to) /\ k \in Nat
        /\ (\A j \in Nat : Val(v, to, j) # {} => j < k) /\ (\A j : Val(v, to, j) # {} => j < k)
        /\ Val(v, to, k) = {} /\ kind \in Kinds /\ S \in SUBSET Lows /\ new = Allocate(m, k, kind, S)
    BY <1>1, <1>2
  <2> QED
    BY ONLY <2>1, ResultReaches
<1> HIDE DEF s
<1>4. PICK i, j : Reaches(s, bs, {}, v, to, k, S, i, j)
  BY <1>3
<1>5. Onwards(bs, {}, x1, to, p1, k, i, j, q1)
  BY FreshOnwards
<1>6. Goes1(s, bs, v, op, x1, to, q1, B, R, E)
  <2>1. /\ Going(m, bs, v, {}, op, x1, to, p1, B, Q, E) /\ Foremost(k, Rest(bs, x1, p1), Q)
        /\ S = Due(op, Val(v, x1, k), B[k]) /\ Reaches(s, bs, {}, v, to, k, S, i, j)
        /\ Onwards(bs, {}, x1, to, p1, k, i, j, q1) /\ R = Q \ {k}
    BY <1>4, <1>5
  <2> QED
    BY ONLY <2>1, Advances1
<1> QED
  BY <1>6 DEF s

\* A key that the bitmap lacks comes next.
LEMMA KeyFirst ==
  ASSUME NEW m, NEW bs, NEW v, NEW op, NEW x1, NEW to, NEW p1, NEW B, NEW Q, NEW E,
         Going(m, bs, v, {}, op, x1, to, p1, B, Q, E),
         NEW k \in Nat, k \in Q, \A r \in Q : k <= r, p1 <= Count(bs, x1) => k < KeyIn(bs, x1, p1)
  PROVE  /\ Foremost(k, Rest(bs, x1, p1), Q) /\ NextRest(bs, x1, p1, k, p1) /\ k \notin Rest(bs, x1, p1)
         /\ Val(v, x1, k) = {}
<1> DEFINE R == Rest(bs, x1, p1)
           n == Count(bs, x1)
           l == KeyIn(bs, x1, p1)
           q == p1 + 1
<1>1. World(m, bs, {}, v) /\ x1 \in DOMAIN bs /\ Ahead(bs, {}, x1, p1)
      /\ OnCourse(op, x1, to, B, v, E, R, Q)
  BY DEF Going
<1>2. /\ R \subseteq Nat /\ n \in Nat /\ p1 \in 1 .. n + 1
      /\ p1 <= n => l \in Nat /\ \A r \in R : l <= r
      /\ ~(p1 <= n) => R = {}
  <2>1. R = Rest(bs, x1, p1) /\ n = Count(bs, x1) /\ l = KeyIn(bs, x1, p1) /\ q = p1 + 1
    OBVIOUS
  <2> HIDE DEF R, n, l, q
  <2> QED
    BY <1>1, <2>1, RestIs
<1>3. \A r \in R : k < r
  <2> HIDE DEF R
  <2>1. CASE p1 <= n
    BY <1>2, <2>1
  <2> QED
    BY <1>2, <2>1
<1> HIDE DEF R
<1>4. k \notin R /\ Foremost(k, R, Q)
  BY <1>2, <1>3 DEF Foremost
<1>5. Val(v, x1, k) = {}
  BY <1>1, <1>4, ForemostOnly
<1>6. NextRest(bs, x1, p1, k, p1)
  BY <1>2, <1>4, NextRestNot DEF R
<1> QED
  BY <1>4, <1>5, <1>6 DEF R

LEMMA FlipTaken ==
  ASSUME NEW v, On(memory, bitmaps, v, call), call.stage = "loop", call.op = "flip"
  PROVE  /\ IsCall(call) /\ call.x1 # call.to /\ Roles(call.op, call.x1, call.x2, call.to)
         /\ call.expected \in SUBSET Nat /\ call.op \in LoopOps
         /\ Flipping(memory, bitmaps, v, call.op, call.x1, call.to, call.pos1, call.hb, call.range,
                     Layers(call.expected))
<1>1. Looping(memory, bitmaps, v, call) /\ IsCall(call) /\ call.expected \in SUBSET Nat
  BY DEF On
<1> QED
  BY <1>1 DEF Looping, Course, Roles

LEMMA FlipTurned ==
  ASSUME NEW v, On(memory, bitmaps, v, call), call.stage = "loop", call.op = "flip",
         NEW p1, NEW hb, NEW s,
         Become(s), call' = Turned(call, p1, call.pos2, call.size, hb),
         hb \in High(call.range[1]) .. LastOf(call.range) + 1, NEW Q, Q = hb .. LastOf(call.range),
         Goes1(s, bitmaps, v, call.op, call.x1, call.to, p1, RangeOf(call.range), Q,
               Layers(call.expected))
  PROVE  Steps(v)
<1>1. PICK m, u, w : /\ s = Pair(m, u) /\ Elsewhere(bitmaps, u, v, w, {call.to})
                     /\ Going(m, u, w, {}, call.op, call.x1, call.to, p1, RangeOf(call.range), Q,
                              Layers(call.expected))
  BY DEF Goes1
<1>2. memory' = m /\ bitmaps' = u
  BY <1>1, BecomeIs
<1> DEFINE d == call'
<1>3. /\ d.op = call.op /\ d.stage = call.stage /\ d.x1 = call.x1 /\ d.x2 = call.x2 /\ d.to = call.to
      /\ d.pos1 = p1 /\ d.hb = hb /\ d.range = call.range
      /\ d.expected = call.expected /\ IsCall(d) /\ Touched(d) = Touched(call)
  BY TurnedIs
<1>4. /\ IsCall(call) /\ Roles(call.op, call.x1, call.x2, call.to)
      /\ call.expected \in SUBSET Nat /\ call.op \in LoopOps /\ call.range \in Ranges
  BY FlipTaken DEF Flipping
<1> HIDE DEF d
<1>5. Flipping(m, u, w, call.op, call.x1, call.to, p1, hb, call.range, Layers(call.expected))
  BY <1>1, <1>4 DEF Flipping
<1>6. Course(m, u, w, call.op, call.x1, call.x2, call.to, p1, d.pos2, d.size, hb, call.range,
             Layers(call.expected))
  <2>1. call.op \notin TwoOps /\ call.op \notin OneOps
    BY DEF TwoOps, OneOps, Making, Gapped
  <2> QED
    BY <1>5, <2>1 DEF Course
<1>7. Looping(m, u, w, d)
  BY <1>3, <1>4, <1>6 DEF Looping
<1>8. On(m, u, w, d)
  BY <1>3, <1>4, <1>7 DEF On
<1>9. Elsewhere(bitmaps, u, v, w, Touched(call) \union Touched(d))
  <2>1. {call.to} \subseteq Touched(call) \union Touched(d)
    BY DEF Touched
  <2> QED
    BY <1>1, <2>1, ElsewhereMore
<1> QED
  BY <1>2, <1>8, <1>9 DEF Steps, d

LEMMA FlipStands ==
  ASSUME NEW range, NEW hb, range \in Ranges, hb \in High(range[1]) .. LastOf(range) + 1,
         NEW last, last = LastOf(range), NEW Q, Q = hb .. last
  PROVE  /\ hb \in Nat /\ last \in Nat /\ \A r \in Q : r \in Nat /\ hb <= r
         /\ hb <= last => /\ hb \in Q /\ Q \ {hb} = hb + 1 .. last
                          /\ hb + 1 \in High(range[1]) .. last + 1
         /\ hb > last => Q = {}
BY RangeKeys

LEMMA FlipMoves ==
  ASSUME NEW c, IsCall(c), NEW p1, NEW hb, NEW d, d = [c EXCEPT !.hb = hb, !.pos1 = p1]
  PROVE  d = Turned(c, p1, c.pos2, c.size, hb)
<1> DEFINE f == [c EXCEPT !.hb = hb]
<1>1. f = Turned(c, c.pos1, c.pos2, c.size, hb)
  BY CallField
<1>2. d = [f EXCEPT !.pos1 = p1]
  OBVIOUS
<1> HIDE DEF f
<1>3. /\ IsCall(f) /\ f.pos1 = c.pos1 /\ f.pos2 = c.pos2 /\ f.size = c.size /\ f.hb = hb
      /\ \A q1, q2, l, x : Turned(f, q1, q2, l, x) = Turned(c, q1, q2, l, x)
  BY <1>1, TurnedIs, TurnedTwice
<1>4. [f EXCEPT !.pos1 = p1] = Turned(f, p1, f.pos2, f.size, f.hb)
  BY <1>3, CallField
<1>5. [f EXCEPT !.pos1 = p1] = Turned(c, p1, c.pos2, c.size, hb)
  BY ONLY <1>3, <1>4
<1> QED
  BY ONLY <1>2, <1>5

LEMMA FlipSteps ==
  ASSUME NEW v, On(memory, bitmaps, v, call), FlipTurn
  PROVE  Steps(v)
<1> DEFINE op == call.op
           x1 == call.x1
           to == call.to
           p1 == call.pos1
           hb == call.hb
           range == call.range
           last == LastOf(range)
           first == High(range[1])
           Q == hb .. last
           B == RangeOf(range)
           E == Layers(call.expected)
           k == KeyIn(bitmaps, x1, p1)
           q1 == p1 + 1
           hb1 == hb + 1
           R == hb1 .. last
<1>1. call.stage = "loop" /\ op = "flip"
  BY DEF FlipTurn, Doing
<1>2. /\ IsCall(call) /\ x1 # to
      /\ Flipping(memory, bitmaps, v, op, x1, to, p1, hb, range, E)
  BY <1>1, FlipTaken
<1>3. /\ range \in Ranges /\ hb \in first .. last + 1
      /\ Going(memory, bitmaps, v, {}, op, x1, to, p1, B, Q, E)
  BY <1>2 DEF Flipping
<1>4. /\ hb \in Nat /\ last \in Nat /\ \A r \in Q : r \in Nat /\ hb <= r
      /\ hb <= last => /\ hb \in Q /\ Q \ {hb} = R /\ hb1 \in first .. last + 1
      /\ hb > last => Q = {}
  <2>1. range \in Ranges /\ hb \in High(range[1]) .. LastOf(range) + 1 /\ last = LastOf(range) /\ Q = hb .. last
    BY <1>3
  <2> HIDE DEF hb, range, last, Q
  <2>2. /\ hb \in Nat /\ last \in Nat /\ \A r \in Q : r \in Nat /\ hb <= r
        /\ hb <= last => /\ hb \in Q /\ Q \ {hb} = hb + 1 .. last
                         /\ hb + 1 \in High(range[1]) .. last + 1
        /\ hb > last => Q = {}
    BY ONLY <2>1, FlipStands
  <2> QED
    BY <2>2
<1>5. /\ Left1 <=> p1 <= Count(bitmaps, x1)
      /\ Key1 = k /\ C1 = ConIn(bitmaps, x1, p1) /\ LastKey = last
      /\ State = Pair(memory, bitmaps) /\ FlippedLows(hb) = B[hb]
  BY <1>4, Terms, FlipTerms
<1>6. B[hb] \in SUBSET Lows /\ (hb <= last => B[hb] # {})
  <2>1. /\ B[hb] # {} <=> hb \in first .. last
        /\ B[hb] \in SUBSET Lows
    BY <1>3, <1>4, RangeKeys
  <2> QED
    BY <1>3, <1>4, <2>1
<1>7. \A A, C : Due(op, A, {}) = A /\ Due(op, {}, C) = C /\ Due(op, A, C) = SymDiff(A, C)
  BY <1>1, DueIs
<1>8. to \in DOMAIN bitmaps /\ World(memory, bitmaps, {}, v)
  BY <1>3 DEF Going
<1>9. CASE /\ Left1 /\ (Key1 < hb \/ hb > LastKey)
           /\ Become(AppendCopy(State, to, x1, p1))
           /\ Move(p1 + 1, call.pos2)
  <2> DEFINE s == AppendCopy(Pair(memory, bitmaps), to, x1, p1)
  <2>1. p1 <= Count(bitmaps, x1) /\ Become(s)
    BY <1>5, <1>9
  <2>2. call' = Turned(call, q1, call.pos2, call.size, hb)
    BY <1>2, <1>9, CallMoves, Zenon DEF Move
  <2>3. p1 \in Owned(bitmaps, {}, x1) /\ x1 \in DOMAIN bitmaps
    BY <1>3, <2>1, AheadOwned DEF Going
  <2>4. k \in Nat
    BY <1>8, <2>3, ReadPlace
  <2>5. \A r \in Q : k < r
    BY <1>4, <1>5, <1>9, <2>4
  <2> HIDE DEF k, q1, Q, B, E
  <2>6. Goes1(s, bitmaps, v, op, x1, to, q1, B, Q, E)
    <3>1. /\ Going(memory, bitmaps, v, {}, op, x1, to, p1, B, Q, E) /\ x1 # to
          /\ p1 <= Count(bitmaps, x1) /\ k = KeyIn(bitmaps, x1, p1) /\ (\A r \in Q : k < r)
          /\ q1 = p1 + 1 /\ (\A A : Due(op, A, {}) = A)
      BY <1>2, <1>3, <1>7, <2>1, <2>5 DEF k, q1
    <3> QED
      BY ONLY <3>1, CopyGoes1
  <2> HIDE DEF s
  <2> QED
    BY <1>1, <1>3, <2>1, <2>2, <2>6, FlipTurned DEF B, Q, E
<1>10. ASSUME hb <= LastKey, Left1, Key1 = hb, call' = [call EXCEPT !.hb = @ + 1, !.pos1 = @ + 1],
              NEW kind \in Kinds,
              LET S   == SymDiff(Values1, FlippedLows(hb))
                  new == Allocate(Read(memory, C1), hb, kind, S)
              IN  Become(IF S = {} THEN WithMemory(State, ContainerFree(new.memory, new.container))
                         ELSE Append1(WithMemory(State, new.memory), to, hb, new.container))
       PROVE  Steps(v)
  <2> DEFINE S == SymDiff(Values1, FlippedLows(hb))
             new == Allocate(memory, hb, kind, S)
             s == Resulting(memory, bitmaps, to, hb, new, S)
  <2>1. p1 <= Count(bitmaps, x1) /\ k = hb /\ hb <= last
    BY <1>5, <1>10
  <2>2. p1 \in Owned(bitmaps, {}, x1) /\ x1 \in DOMAIN bitmaps
    BY <1>3, <2>1, AheadOwned DEF Going
  <2>3. Read(memory, C1) = memory /\ Values1 = Val(v, x1, hb) /\ Val(v, x1, hb) \subseteq Lows
    BY <1>5, <1>8, <2>1, <2>2, ReadPlace DEF Values1
  <2>4. S = Due(op, Val(v, x1, hb), B[hb]) /\ S \in SUBSET Lows
    <3>1. S = SymDiff(Val(v, x1, hb), B[hb])
      BY <1>5, <2>3
    <3>2. S \in SUBSET Lows
      BY <1>6, <2>3, <3>1, SymDiffIs
    <3> QED
      BY <1>7, <3>1, <3>2
  <2>5. Become(s)
    BY <1>5, <1>10, <2>3 DEF Resulting
  <2>6. call' = Turned(call, q1, call.pos2, call.size, hb1)
    <3>1. call' = [call EXCEPT !.hb = hb1, !.pos1 = q1] /\ IsCall(call)
      BY <1>2, <1>10
    <3> HIDE DEF hb1, q1
    <3> QED
      BY ONLY <3>1, FlipMoves
  <2>7. Foremost(hb, Rest(bitmaps, x1, p1), Q) /\ NextRest(bitmaps, x1, p1, hb, q1)
    <3>1. /\ Going(memory, bitmaps, v, {}, op, x1, to, p1, B, Q, E)
          /\ p1 <= Count(bitmaps, x1) /\ hb = KeyIn(bitmaps, x1, p1) /\ (\A r \in Q : hb <= r)
          /\ q1 = p1 + 1
      BY <1>3, <1>4, <2>1
    <3> HIDE DEF op, x1, to, p1, hb, range, last, first, Q, B, E, k, q1, hb1, R
    <3> QED
      BY ONLY <3>1, FirstPlace
  <2> HIDE DEF S, new, s, q1, Q, R, B, E
  <2>8. Goes1(s, bitmaps, v, op, x1, to, q1, B, R, E)
    <3>1. /\ Going(memory, bitmaps, v, {}, op, x1, to, p1, B, Q, E) /\ x1 # to
          /\ Foremost(hb, Rest(bitmaps, x1, p1), Q) /\ NextRest(bitmaps, x1, p1, hb, q1)
          /\ kind \in Kinds /\ S \in SUBSET Lows /\ S = Due(op, Val(v, x1, hb), B[hb])
          /\ new = Allocate(memory, hb, kind, S) /\ R = Q \ {hb}
      BY <1>2, <1>3, <1>4, <2>1, <2>4, <2>7 DEF new
    <3> HIDE DEF op, x1, to, p1, hb
    <3>2. Goes1(Resulting(memory, bitmaps, to, hb, new, S), bitmaps, v, op, x1, to, q1, B, R, E)
      BY ONLY <3>1, FlipResult
    <3> QED
      BY <3>2 DEF s
  <2>9. hb1 \in first .. last + 1
    BY <1>4, <2>1
  <2> HIDE DEF hb1
  <2> QED
    BY <1>1, <2>5, <2>6, <2>8, <2>9, FlipTurned DEF R, B, E
<1>11. ASSUME hb <= LastKey, ~(Left1 /\ Key1 <= hb), NextKey, NEW kind \in Kinds,
              LET new == Allocate(memory, hb, kind, FlippedLows(hb))
              IN  Become(Append1(WithMemory(State, new.memory), to, hb, new.container))
       PROVE  Steps(v)
  <2> DEFINE S == B[hb]
             new == Allocate(memory, hb, kind, S)
             s == Resulting(memory, bitmaps, to, hb, new, S)
  <2>1. hb <= last /\ S # {} /\ S \in SUBSET Lows
    BY <1>5, <1>6, <1>11
  <2>2. p1 <= Count(bitmaps, x1) => hb < KeyIn(bitmaps, x1, p1)
    <3>1. ASSUME p1 <= Count(bitmaps, x1)
          PROVE  k \in Nat
      <4>1. p1 \in Owned(bitmaps, {}, x1) /\ x1 \in DOMAIN bitmaps
        BY <1>3, <3>1, AheadOwned DEF Going
      <4> QED
        BY <1>8, <4>1, ReadPlace
    <3> QED
      BY <1>4, <1>5, <1>11, <3>1
  <2>3. Become(s)
    BY <1>5, <1>11, <2>1 DEF Resulting
  <2>4. call' = Turned(call, p1, call.pos2, call.size, hb1)
    BY <1>2, <1>11, CallMoves, Zenon DEF NextKey
  <2>5. /\ Foremost(hb, Rest(bitmaps, x1, p1), Q) /\ NextRest(bitmaps, x1, p1, hb, p1)
        /\ Val(v, x1, hb) = {}
    <3>1. /\ Going(memory, bitmaps, v, {}, op, x1, to, p1, B, Q, E) /\ hb \in Nat /\ hb \in Q
          /\ (\A r \in Q : hb <= r) /\ (p1 <= Count(bitmaps, x1) => hb < KeyIn(bitmaps, x1, p1))
      BY <1>3, <1>4, <2>1, <2>2
    <3> HIDE DEF op, x1, to, p1, hb, range, last, first, Q, B, E, k, q1, hb1, R
    <3> QED
      BY ONLY <3>1, KeyFirst
  <2>6. S = Due(op, Val(v, x1, hb), B[hb])
    BY <1>7, <2>5
  <2> HIDE DEF S, new, s, Q, R, B, E
  <2>7. Goes1(s, bitmaps, v, op, x1, to, p1, B, R, E)
    <3>1. /\ Going(memory, bitmaps, v, {}, op, x1, to, p1, B, Q, E) /\ x1 # to
          /\ Foremost(hb, Rest(bitmaps, x1, p1), Q) /\ NextRest(bitmaps, x1, p1, hb, p1)
          /\ kind \in Kinds /\ S \in SUBSET Lows /\ S = Due(op, Val(v, x1, hb), B[hb])
          /\ new = Allocate(memory, hb, kind, S) /\ R = Q \ {hb}
      BY <1>2, <1>3, <1>4, <2>1, <2>5, <2>6 DEF new
    <3> HIDE DEF op, x1, to, p1, hb
    <3>2. Goes1(Resulting(memory, bitmaps, to, hb, new, S), bitmaps, v, op, x1, to, p1, B, R, E)
      BY ONLY <3>1, FlipResult
    <3> QED
      BY <3>2 DEF s
  <2>8. hb1 \in first .. last + 1
    BY <1>4, <2>1
  <2> HIDE DEF hb1
  <2> QED
    BY <1>1, <2>3, <2>4, <2>7, <2>8, FlipTurned DEF R, B, E
<1>12. CASE hb > LastKey /\ ~Left1 /\ Done /\ UNCHANGED <<memory, bitmaps>>
  <2>1. ~(p1 <= Count(bitmaps, x1)) /\ Q = {}
    BY <1>4, <1>5, <1>12
  <2>2. call' = Ended(call)
    BY <1>12 DEF Done, Ended
  <2>3. Sharers(bitmaps, to)
    BY <1>3 DEF Going
  <2> HIDE DEF Q, B, E, op, x1, to, p1
  <2>4. \A r \in Nat : Val(v, to, r) = E[r]
    BY <1>3, <2>1, EndsOne
  <2>5. Elsewhere(bitmaps, bitmaps, v, v, {to})
    BY DEF Elsewhere
  <2> QED
    BY <1>1, <1>8, <1>12, <2>2, <2>3, <2>4, <2>5, Closing DEF E, op, to
<1> QED
  BY <1>1, <1>9, <1>10, <1>11, <1>12 DEF FlipTurn

-----------------------------------------------------------------------------
(***************************************************************************)
(* The place of a key.                                                     *)
(***************************************************************************)

\* The first place whose key is not below the one asked for.
Index(bs, b, key) ==
  Min({i \in 1 .. Count(bs, b) : KeyIn(bs, b, i) >= key} \union {Count(bs, b) + 1})

\* The first place from which on the keys are not below the one asked for.
Splits(bs, b, key, i) ==
  /\ i \in 1 .. Count(bs, b) + 1
  /\ \A j \in 1 .. Count(bs, b) : IF j < i THEN KeyIn(bs, b, j) < key ELSE KeyIn(bs, b, j) >= key

\* The key is there.
Found(bs, b, key, i) == i <= Count(bs, b) /\ KeyIn(bs, b, i) = key

\* The places of a bitmap of which nothing has been given up.
LEMMA WholeOwned ==
  ASSUME NEW m, NEW bs, NEW X, NEW v, World(m, bs, X, v), NEW b \in DOMAIN bs, Whole(X, b)
  PROVE  /\ Count(bs, b) \in Nat
         /\ \A i \in 1 .. Count(bs, b) : /\ i \in Owned(bs, X, b) /\ KeyIn(bs, b, i) \in Nat
                                         /\ Val(v, b, KeyIn(bs, b, i)) # {}
         /\ \A i \in 1 .. Count(bs, b) : \A j \in 1 .. Count(bs, b) :
              i < j => KeyIn(bs, b, i) < KeyIn(bs, b, j)
         /\ \A k : Val(v, b, k) # {} => \E i \in 1 .. Count(bs, b) : KeyIn(bs, b, i) = k
<1>1. Ahead(bs, X, b, 1)
  <2>1. PICK h : Rep(bs, X, h)
    BY DEF World
  <2>2. Count(bs, b) \in Nat
    BY <2>1, RepTypes DEF Count
  <2> QED
    BY <2>2 DEF Ahead, Unspent, Whole
<1>2. /\ Count(bs, b) \in Nat
      /\ \A i \in 1 .. Count(bs, b) : i \in Owned(bs, X, b) /\ KeyIn(bs, b, i) \in Nat
      /\ \A i \in 1 .. Count(bs, b) : \A j \in 1 .. Count(bs, b) :
           i < j => KeyIn(bs, b, i) < KeyIn(bs, b, j)
  BY <1>1, AheadOwned
<1>3. ASSUME NEW i \in 1 .. Count(bs, b)
      PROVE  Val(v, b, KeyIn(bs, b, i)) # {}
  <2>1. i \in Owned(bs, X, b)
    BY <1>2
  <2> QED
    BY <2>1, ReadPlace
<1>4. ASSUME NEW k, Val(v, b, k) # {}
      PROVE  \E i \in 1 .. Count(bs, b) : KeyIn(bs, b, i) = k
  <2>1. PICK i \in Owned(bs, X, b) : KeyIn(bs, b, i) = k
    BY <1>4, ValKeys
  <2>2. i \in 1 .. Count(bs, b)
    BY <2>1 DEF Owned, Count
  <2> QED
    BY <2>1, <2>2
<1> QED
  BY <1>2, <1>3, <1>4

LEMMA AllOwned ==
  ASSUME NEW m, NEW bs, NEW v, World(m, bs, {}, v), NEW b \in DOMAIN bs
  PROVE  /\ Count(bs, b) \in Nat
         /\ \A i \in 1 .. Count(bs, b) : /\ i \in Owned(bs, {}, b) /\ KeyIn(bs, b, i) \in Nat
                                         /\ Val(v, b, KeyIn(bs, b, i)) # {}
         /\ \A i \in 1 .. Count(bs, b) : \A j \in 1 .. Count(bs, b) :
              i < j => KeyIn(bs, b, i) < KeyIn(bs, b, j)
         /\ \A k : Val(v, b, k) # {} => \E i \in 1 .. Count(bs, b) : KeyIn(bs, b, i) = k
<1>1. Whole({}, b)
  BY DEF Whole
<1> QED
  BY <1>1, WholeOwned

LEMMA SplitsIs ==
  ASSUME NEW n \in Nat, NEW K, \A i \in 1 .. n : K[i] \in Nat,
         \A i \in 1 .. n : \A j \in 1 .. n : i < j => K[i] < K[j],
         NEW key \in Nat, NEW i, i = Min({j \in 1 .. n : K[j] >= key} \union {n + 1})
  PROVE  /\ i \in 1 .. n + 1
         /\ \A j \in 1 .. n : IF j < i THEN K[j] < key ELSE K[j] >= key
<1> DEFINE D == {j \in 1 .. n : K[j] >= key} \union {n + 1}
<1>1. D \subseteq Nat /\ D # {}
  OBVIOUS
<1>2. i \in D /\ \A x \in D : i <= x
  <2>1. i = Min(D)
    OBVIOUS
  <2> HIDE DEF D
  <2> QED
    BY ONLY <1>1, <2>1, MinIs
<1>3. i \in 1 .. n + 1 /\ (i <= n => K[i] >= key)
  BY <1>2
<1>4. \A j \in 1 .. n : j < i => ~(K[j] >= key)
  BY <1>2, <1>3
<1>5. ASSUME NEW j \in 1 .. n, ~(j < i)
      PROVE  K[j] >= key
  <2>1. i \in 1 .. n /\ K[i] >= key /\ (i = j \/ i < j)
    BY <1>3, <1>5
  <2>2. K[i] \in Nat /\ K[j] \in Nat /\ (i < j => K[i] < K[j])
    BY <2>1
  <2> QED
    BY <2>1, <2>2
<1> QED
  BY <1>3, <1>4, <1>5

LEMMA IndexSplits ==
  ASSUME NEW m, NEW bs, NEW v, World(m, bs, {}, v), NEW b \in DOMAIN bs, NEW key \in Nat
  PROVE  Splits(bs, b, key, Index(bs, b, key))
<1> DEFINE n == Count(bs, b)
           K == [i \in 1 .. n |-> KeyIn(bs, b, i)]
           i == Index(bs, b, key)
<1>1. /\ n \in Nat /\ \A j \in 1 .. n : KeyIn(bs, b, j) \in Nat
      /\ \A l \in 1 .. n : \A j \in 1 .. n : l < j => KeyIn(bs, b, l) < KeyIn(bs, b, j)
  BY AllOwned
<1>2. \A j \in 1 .. n : K[j] = KeyIn(bs, b, j)
  OBVIOUS
<1>3. {j \in 1 .. n : K[j] >= key} = {j \in 1 .. n : KeyIn(bs, b, j) >= key}
  BY <1>2
<1>4. i = Min({j \in 1 .. n : K[j] >= key} \union {n + 1})
  BY <1>3 DEF Index
<1> HIDE DEF K, i
<1>5. /\ i \in 1 .. n + 1
      /\ \A j \in 1 .. n : IF j < i THEN K[j] < key ELSE K[j] >= key
  <2>1. (\A j \in 1 .. n : K[j] \in Nat) /\ \A l \in 1 .. n : \A j \in 1 .. n : l < j => K[l] < K[j]
    BY <1>1, <1>2
  <2>2. n \in Nat /\ key \in Nat
    BY <1>1
  <2> HIDE DEF n
  <2> QED
    BY ONLY <1>4, <2>1, <2>2, SplitsIs
<1>6. \A j \in 1 .. n : IF j < i THEN KeyIn(bs, b, j) < key ELSE KeyIn(bs, b, j) >= key
  BY <1>2, <1>5
<1> QED
  BY <1>5, <1>6 DEF Splits, i

LEMMA SplitsOnce ==
  ASSUME NEW m, NEW bs, NEW v, World(m, bs, {}, v), NEW b \in DOMAIN bs, NEW key \in Nat,
         NEW i, Splits(bs, b, key, i), NEW p, Splits(bs, b, key, p)
  PROVE  i = p
<1>1. Count(bs, b) \in Nat /\ \A j \in 1 .. Count(bs, b) : KeyIn(bs, b, j) \in Nat
  BY AllOwned
<1>2. i \in 1 .. Count(bs, b) + 1 /\ p \in 1 .. Count(bs, b) + 1
  BY DEF Splits
<1>3. ~(i < p)
  <2> SUFFICES ASSUME i < p PROVE FALSE
    OBVIOUS
  <2>1. i \in 1 .. Count(bs, b)
    BY <1>1, <1>2
  <2>2. KeyIn(bs, b, i) < key /\ KeyIn(bs, b, i) >= key
    BY <1>1, <1>2, <2>1 DEF Splits
  <2> QED
    BY <1>1, <2>1, <2>2
<1>4. ~(p < i)
  <2> SUFFICES ASSUME p < i PROVE FALSE
    OBVIOUS
  <2>1. p \in 1 .. Count(bs, b)
    BY <1>1, <1>2
  <2>2. KeyIn(bs, b, p) < key /\ KeyIn(bs, b, p) >= key
    BY <1>1, <1>2, <2>1 DEF Splits
  <2> QED
    BY <1>1, <2>1, <2>2
<1> QED
  BY <1>1, <1>2, <1>3, <1>4

LEMMA FoundIs ==
  ASSUME NEW m, NEW bs, NEW v, World(m, bs, {}, v), NEW b \in DOMAIN bs, NEW key \in Nat,
         NEW i, Splits(bs, b, key, i)
  PROVE  /\ Found(bs, b, key, i) <=> Val(v, b, key) # {}
         /\ Found(bs, b, key, i) <=> \E j \in 1 .. Count(bs, b) : KeyIn(bs, b, j) = key
         /\ ~Found(bs, b, key, i) => \A j \in 1 .. Count(bs, b) :
              IF j < i THEN KeyIn(bs, b, j) < key ELSE key < KeyIn(bs, b, j)
<1> DEFINE n == Count(bs, b)
<1>1. /\ n \in Nat /\ \A j \in 1 .. n : KeyIn(bs, b, j) \in Nat /\ Val(v, b, KeyIn(bs, b, j)) # {}
      /\ \A l \in 1 .. n : \A j \in 1 .. n : l < j => KeyIn(bs, b, l) < KeyIn(bs, b, j)
      /\ \A k : Val(v, b, k) # {} => \E j \in 1 .. n : KeyIn(bs, b, j) = k
  BY AllOwned
<1>2. /\ i \in 1 .. n + 1
      /\ \A j \in 1 .. n : IF j < i THEN KeyIn(bs, b, j) < key ELSE KeyIn(bs, b, j) >= key
  BY DEF Splits
<1>3. Found(bs, b, key, i) <=> i <= n /\ KeyIn(bs, b, i) = key
  BY DEF Found
<1> HIDE DEF n
<1>4. ASSUME NEW j \in 1 .. n, KeyIn(bs, b, j) = key
      PROVE  i = j
  <2>1. ~(j < i)
    BY <1>1, <1>2, <1>4
  <2>2. CASE i < j
    <3>1. i \in 1 .. n
      BY <1>1, <1>2, <2>2
    <3>2. KeyIn(bs, b, i) < KeyIn(bs, b, j) /\ KeyIn(bs, b, i) >= key /\ KeyIn(bs, b, i) \in Nat
      BY <1>1, <1>2, <2>2, <3>1
    <3> QED
      BY <1>4, <3>2
  <2> QED
    BY <1>1, <1>2, <2>1, <2>2
<1>5. Found(bs, b, key, i) <=> \E j \in 1 .. n : KeyIn(bs, b, j) = key
  BY <1>1, <1>2, <1>3, <1>4
<1>6. Found(bs, b, key, i) <=> Val(v, b, key) # {}
  BY <1>1, <1>2, <1>3, <1>5
<1>7. ASSUME ~Found(bs, b, key, i), NEW j \in 1 .. n
      PROVE  IF j < i THEN KeyIn(bs, b, j) < key ELSE key < KeyIn(bs, b, j)
  <2>1. KeyIn(bs, b, j) # key /\ KeyIn(bs, b, j) \in Nat
    BY <1>1, <1>5, <1>7
  <2> QED
    BY <1>2, <2>1
<1> QED
  BY <1>5, <1>6, <1>7 DEF n

\* The keys that a flip in place is still to look at are those from hb on.
From(bs, v, x1, p, hb) ==
  \A k \in Nat : Val(v, x1, k) # {} => (k \in Rest(bs, x1, p) <=> k >= hb)

LEMMA FromSplits ==
  ASSUME NEW m, NEW bs, NEW v, World(m, bs, {}, v), NEW x1 \in DOMAIN bs, NEW p,
         Ahead(bs, {}, x1, p),
         NEW hb \in Nat, From(bs, v, x1, p, hb)
  PROVE  Splits(bs, x1, hb, p)
<1> DEFINE n == Count(bs, x1)
<1>1. /\ n \in Nat /\ \A j \in 1 .. n : KeyIn(bs, x1, j) \in Nat /\ Val(v, x1, KeyIn(bs, x1, j)) # {}
      /\ \A l \in 1 .. n : \A j \in 1 .. n : l < j => KeyIn(bs, x1, l) < KeyIn(bs, x1, j)
  BY AllOwned
<1>2. p \in 1 .. n + 1
  BY DEF Ahead
<1> SUFFICES ASSUME NEW j \in 1 .. n
             PROVE  IF j < p THEN KeyIn(bs, x1, j) < hb ELSE KeyIn(bs, x1, j) >= hb
  BY <1>2 DEF Splits
<1> DEFINE k == KeyIn(bs, x1, j)
<1>3. k \in Nat /\ (k \in Rest(bs, x1, p) <=> k >= hb)
  BY <1>1 DEF From
<1>4. CASE j < p
  <2>1. ASSUME NEW i \in p .. n PROVE KeyIn(bs, x1, i) # k
    <3>1. i \in 1 .. n /\ j < i
      BY <1>1, <1>2, <1>4
    <3>2. KeyIn(bs, x1, j) < KeyIn(bs, x1, i) /\ KeyIn(bs, x1, i) \in Nat
      BY <1>1, <3>1
    <3> QED
      BY <1>3, <3>2
  <2>2. k \notin Rest(bs, x1, p)
    BY <2>1 DEF Rest
  <2> QED
    BY <1>3, <1>4, <2>2
<1>5. CASE ~(j < p)
  <2>1. j \in p .. n
    BY <1>1, <1>2, <1>5
  <2>2. k \in Rest(bs, x1, p)
    BY <2>1 DEF Rest
  <2> QED
    BY <1>3, <1>5, <2>2
<1> QED
  BY <1>4, <1>5

\* What a turn of a flip leaves.
FlipsOn(s, bs, v, op, x1, q1, B, Q, E, hb) ==
  \E n, u, w : /\ s = Pair(n, u) /\ Elsewhere(bs, u, v, w, {x1})
               /\ Going(n, u, w, {}, op, x1, x1, q1, B, Q, E) /\ From(u, w, x1, q1, hb)

LEMMA FlipAdvances ==
  ASSUME NEW m, NEW bs, NEW v, NEW op, NEW x1, NEW p1, NEW B, NEW Q, NEW E,
         Going(m, bs, v, {}, op, x1, x1, p1, B, Q, E), NEW k \in Nat,
         Foremost(k, Rest(bs, x1, p1), Q), NEW S, S = Due(op, Val(v, x1, k), B[k]),
         NEW s, NEW i, NEW j, Reaches(s, bs, {}, v, x1, k, S, i, j),
         NEW q1, Onwards(bs, {}, x1, x1, p1, k, i, j, q1), NEW R, R = Q \ {k},
         From(bs, v, x1, p1, k), NEW l, l = k + 1
  PROVE  FlipsOn(s, bs, v, op, x1, q1, B, R, E, l)
<1>1. Goes(s, bs, v, {}, op, x1, x1, q1, B, R, E, k, S)
  BY Advances
<1>2. PICK n, u, w : /\ s = Pair(n, u) /\ Sets(v, w, x1, k, S) /\ Alike(bs, u, x1)
                     /\ \A C : SameBut(C, B, k) => Going(n, u, w, {}, op, x1, x1, q1, C, R, E)
  BY <1>1 DEF Goes
<1>3. SameBut(B, B, k)
  BY DEF SameBut
<1>4. Going(n, u, w, {}, op, x1, x1, q1, B, R, E)
  BY <1>2, <1>3
<1>5. Elsewhere(bs, u, v, w, {x1})
  BY <1>2 DEF Elsewhere, Sets, Alike
<1>6. Rest(u, x1, q1) = Rest(bs, x1, p1) \ {k}
  <2>1. PICK n2, u2 : s = Pair(n2, u2) /\ Moves(bs, u2, x1, i, j)
    BY DEF Reaches
  <2>2. u2 = u
    <3>1. Pair(n, u) = Pair(n2, u2)
      BY <1>2, <2>1
    <3>2. Pair(n, u).bitmaps = u /\ Pair(n2, u2).bitmaps = u2
      BY ONLY PairIs
    <3> QED
      BY ONLY <3>1, <3>2
  <2>3. Rest(u, x1, j) = Rest(bs, x1, i)
    BY <2>1, <2>2 DEF Moves
  <2>4. q1 = j /\ Rest(bs, x1, i) = Rest(bs, x1, p1) \ {k}
    BY DEF Onwards
  <2> QED
    BY <2>3, <2>4
<1>7. From(u, w, x1, q1, l)
  <2> SUFFICES ASSUME NEW r \in Nat, Val(w, x1, r) # {}
               PROVE  r \in Rest(u, x1, q1) <=> r >= l
    BY DEF From
  <2>1. CASE r = k
    BY <1>6, <2>1
  <2>2. CASE r # k
    <3>1. Val(w, x1, r) = Val(v, x1, r)
      BY <1>2, <2>2 DEF Sets
    <3>2. r \in Rest(bs, x1, p1) <=> r >= k
      BY <3>1 DEF From
    <3> QED
      BY <1>6, <2>2, <3>2
  <2> QED
    BY <2>1, <2>2
<1> QED
  BY <1>2, <1>4, <1>5, <1>7 DEF FlipsOn

\* The flip of a container at its place.
FlipsAt(m, bs, v, op, x1, p1, B, Q, E, k, q1, R, c, own, S, r, l) ==
  /\ Going(m, bs, v, {}, op, x1, x1, p1, B, Q, E) /\ p1 <= Count(bs, x1)
  /\ k = KeyIn(bs, x1, p1) /\ (\A j \in Q : k <= j) /\ q1 = p1 + 1
  /\ R = Q \ {k} /\ c = ConIn(bs, x1, p1) /\ own = ExtractCopy(m, c)
  /\ S \in SUBSET Lows /\ S = Due(op, Val(v, x1, k), B[k])
  /\ r \in InPlace(own.memory, own.container, S)
  /\ From(bs, v, x1, p1, k) /\ l = k + 1

LEMMA FlipWrites ==
  ASSUME NEW m, NEW bs, NEW v, NEW op, NEW x1, NEW p1, NEW B, NEW Q, NEW E, NEW k, NEW q1,
         NEW R, NEW c,
         NEW own, NEW S, NEW r, NEW l,
         FlipsAt(m, bs, v, op, x1, p1, B, Q, E, k, q1, R, c, own, S, r, l)
  PROVE  /\ ValuesOf(r) = S
         /\ S # {} => FlipsOn(SetAt(Pair(r.memory, bs), x1, p1, r.container), bs, v, op, x1, q1, B, R, E, l)
         /\ S = {} => FlipsOn(Change(Pair(ContainerFree(r.memory, r.container), bs), x1,
                                   RemoveAt(EntriesIn(bs, x1), p1)),
                            bs, v, op, x1, p1, B, R, E, l)
<1> SUFFICES ASSUME /\ Going(m, bs, v, {}, op, x1, x1, p1, B, Q, E) /\ p1 <= Count(bs, x1)
                    /\ k = KeyIn(bs, x1, p1) /\ (\A j \in Q : k <= j) /\ q1 = p1 + 1
                    /\ R = Q \ {k} /\ c = ConIn(bs, x1, p1) /\ own = ExtractCopy(m, c)
                    /\ S \in SUBSET Lows /\ S = Due(op, Val(v, x1, k), B[k])
                    /\ r \in InPlace(own.memory, own.container, S)
                    /\ From(bs, v, x1, p1, k) /\ l = k + 1
             PROVE  /\ ValuesOf(r) = S
                    /\ S # {} => FlipsOn(SetAt(Pair(r.memory, bs), x1, p1, r.container), bs, v, op, x1, q1, B, R, E, l)
                    /\ S = {} => FlipsOn(Change(Pair(ContainerFree(r.memory, r.container), bs), x1,
                                   RemoveAt(EntriesIn(bs, x1), p1)),
                            bs, v, op, x1, p1, B, R, E, l)
  BY DEF FlipsAt
<1>1. /\ World(m, bs, {}, v) /\ x1 \in DOMAIN bs /\ p1 \in Owned(bs, {}, x1) /\ k \in Nat
  <2>1. /\ Going(m, bs, v, {}, op, x1, x1, p1, B, Q, E) /\ p1 <= Count(bs, x1)
        /\ k = KeyIn(bs, x1, p1) /\ (\A j \in Q : k <= j) /\ q1 = p1 + 1
    OBVIOUS
  <2> QED
    BY ONLY <2>1, FirstPlace
<1> DEFINE n == r.memory
           d == r.container
<1>2. Pending(n, d, bs, {}, v, x1, k, S) /\ ValuesOf(r) = S
  <2>1. /\ World(m, bs, {}, v) /\ x1 \in DOMAIN bs /\ p1 \in Owned(bs, {}, x1)
        /\ k = KeyIn(bs, x1, p1) /\ c = ConIn(bs, x1, p1) /\ own = ExtractCopy(m, c)
        /\ S \in SUBSET Lows /\ r \in InPlace(own.memory, own.container, S)
    BY <1>1
  <2> QED
    BY ONLY <2>1, PlacePending
<1> HIDE DEF n, d
<1> DEFINE s == SetAt(Pair(n, bs), x1, p1, d)
           t == Change(Pair(ContainerFree(n, d), bs), x1, RemoveAt(EntriesIn(bs, x1), p1))
<1>3. /\ Foremost(k, Rest(bs, x1, p1), Q)
      /\ S # {} => Reaches(s, bs, {}, v, x1, k, S, q1, q1) /\ Onwards(bs, {}, x1, x1, p1, k, q1, q1, q1)
      /\ S = {} => Reaches(t, bs, {}, v, x1, k, S, q1, p1) /\ Onwards(bs, {}, x1, x1, p1, k, q1, p1, p1)
  <2>1. /\ Going(m, bs, v, {}, op, x1, x1, p1, B, Q, E) /\ p1 <= Count(bs, x1)
        /\ k = KeyIn(bs, x1, p1) /\ (\A j \in Q : k <= j) /\ q1 = p1 + 1
        /\ Pending(n, d, bs, {}, v, x1, k, S)
    BY <1>2
  <2> QED
    BY ONLY <2>1, SetReaches1
<1> HIDE DEF s, t
<1>4. /\ Going(m, bs, v, {}, op, x1, x1, p1, B, Q, E) /\ k \in Nat /\ S = Due(op, Val(v, x1, k), B[k])
      /\ R = Q \ {k} /\ From(bs, v, x1, p1, k) /\ l = k + 1
  BY <1>1
<1>5. S # {} => FlipsOn(s, bs, v, op, x1, q1, B, R, E, l)
  BY ONLY <1>3, <1>4, FlipAdvances
<1>6. S = {} => FlipsOn(t, bs, v, op, x1, p1, B, R, E, l)
  BY ONLY <1>3, <1>4, FlipAdvances
<1> QED
  BY <1>2, <1>5, <1>6 DEF n, d, s, t

\* A key that only the range has comes to its place.
LEMMA FlipInserts ==
  ASSUME NEW m, NEW bs, NEW v, NEW op, NEW x1, NEW p1, NEW B, NEW Q, NEW E,
         Going(m, bs, v, {}, op, x1, x1, p1, B, Q, E),
         NEW k \in Nat, k \in Q, \A r \in Q : k <= r, p1 <= Count(bs, x1) => k < KeyIn(bs, x1, p1),
         NEW q1, q1 = p1 + 1, NEW R, R = Q \ {k}, NEW kind \in Kinds,
         NEW S \in SUBSET Lows, S # {}, S = Due(op, {}, B[k]),
         NEW new, new = Allocate(m, k, kind, S),
         From(bs, v, x1, p1, k), NEW l, l = k + 1
  PROVE  FlipsOn(Change(Pair(new.memory, bs), x1, InsertAt(EntriesIn(bs, x1), p1, Entry(k, new.container))),
                 bs, v, op, x1, q1, B, R, E, l)
<1>1. /\ Foremost(k, Rest(bs, x1, p1), Q) /\ NextRest(bs, x1, p1, k, p1) /\ k \notin Rest(bs, x1, p1)
      /\ Val(v, x1, k) = {}
  <2>1. /\ Going(m, bs, v, {}, op, x1, x1, p1, B, Q, E) /\ k \in Nat /\ k \in Q /\ (\A r \in Q : k <= r)
        /\ p1 <= Count(bs, x1) => k < KeyIn(bs, x1, p1)
    OBVIOUS
  <2> QED
    BY ONLY <2>1, KeyFirst
<1>2. \A j \in 1 .. Count(bs, x1) :
           IF j < p1 THEN KeyIn(bs, x1, j) < k ELSE k < KeyIn(bs, x1, j)
  <2>1. Going(m, bs, v, {}, op, x1, x1, p1, B, Q, E)
    OBVIOUS
  <2> QED
    BY ONLY <1>1, <2>1, KeysBefore
<1>3. World(m, bs, {}, v) /\ x1 \in DOMAIN bs /\ Whole({}, x1) /\ p1 \in 1 .. Count(bs, x1) + 1
      /\ Count(bs, x1) \in Nat
  BY AheadOwned DEF Going, Whole, Ahead
<1> DEFINE s == Change(Pair(new.memory, bs), x1, InsertAt(EntriesIn(bs, x1), p1, Entry(k, new.container)))
<1>4. Reaches(s, bs, {}, v, x1, k, S, p1, p1 + 1)
  <2> DEFINE e == Allocate(m, k, kind, S)
  <2>1. Reaches(Change(Pair(e.memory, bs), x1, InsertAt(EntriesIn(bs, x1), p1, Entry(k, e.container))),
                bs, {}, v, x1, k, S, p1, p1 + 1)
    <3> DEFINE X == {}
    <3>1. /\ World(m, bs, X, v) /\ x1 \in DOMAIN bs /\ Whole(X, x1) /\ p1 \in 1 .. Count(bs, x1) + 1
          /\ k \in Nat /\ kind \in Kinds /\ S \in SUBSET Lows /\ S # {}
      BY <1>3
    <3> HIDE DEF X
    <3>2. Reaches(Change(Pair(e.memory, bs), x1, InsertAt(EntriesIn(bs, x1), p1, Entry(k, e.container))),
                bs, X, v, x1, k, S, p1, p1 + 1)
      BY ONLY <1>2, <3>1, AllocateInsert
    <3> QED
      BY <3>2 DEF X
  <2>2. e = new
    OBVIOUS
  <2> HIDE DEF e
  <2> QED
    BY <2>1, <2>2
<1> HIDE DEF s
<1>5. Onwards(bs, {}, x1, x1, p1, k, p1, q1, q1)
  BY <1>1, <1>3 DEF Onwards, NextRest, Unspent
<1>6. FlipsOn(s, bs, v, op, x1, q1, B, R, E, l)
  <2>1. /\ Going(m, bs, v, {}, op, x1, x1, p1, B, Q, E) /\ k \in Nat
        /\ Foremost(k, Rest(bs, x1, p1), Q) /\ S = Due(op, Val(v, x1, k), B[k])
        /\ Reaches(s, bs, {}, v, x1, k, S, p1, q1)
        /\ Onwards(bs, {}, x1, x1, p1, k, p1, q1, q1) /\ R = Q \ {k}
        /\ From(bs, v, x1, p1, k) /\ l = k + 1
    BY <1>1, <1>4, <1>5
  <2> QED
    BY ONLY <2>1, FlipAdvances
<1> QED
  BY <1>6 DEF s

LEMMA FlipInTaken ==
  ASSUME NEW v, On(memory, bitmaps, v, call), call.stage = "loop", call.op = "flip_inplace"
  PROVE  /\ IsCall(call) /\ call.to = call.x1 /\ Roles(call.op, call.x1, call.x2, call.to)
         /\ call.expected \in SUBSET Nat /\ call.op \in LoopOps
         /\ \E p : /\ Flipping(memory, bitmaps, v, call.op, call.x1, call.x1, p, call.hb, call.range,
                               Layers(call.expected))
                   /\ From(bitmaps, v, call.x1, p, call.hb)
<1>1. Looping(memory, bitmaps, v, call) /\ IsCall(call) /\ call.expected \in SUBSET Nat
  BY DEF On
<1>2. FlippingAt(memory, bitmaps, v, call.x1, call.hb, call.range, Layers(call.expected))
  BY <1>1 DEF Looping, Course
<1>3. call.to = call.x1
  BY <1>1 DEF Looping, Roles, Making
<1> QED
  BY <1>1, <1>2, <1>3 DEF Looping, FlippingAt, From

LEMMA FlipInTurned ==
  ASSUME NEW v, On(memory, bitmaps, v, call), call.stage = "loop", call.op = "flip_inplace",
         NEW q1, NEW hb, NEW s,
         Become(s), call' = Turned(call, call.pos1, call.pos2, call.size, hb),
         hb \in High(call.range[1]) .. LastOf(call.range) + 1, NEW Q, Q = hb .. LastOf(call.range),
         call.range \in Ranges,
         FlipsOn(s, bitmaps, v, call.op, call.x1, q1, RangeOf(call.range), Q,
                 Layers(call.expected), hb)
  PROVE  Steps(v)
<1>1. PICK m, u, w : /\ s = Pair(m, u) /\ Elsewhere(bitmaps, u, v, w, {call.x1})
                     /\ Going(m, u, w, {}, call.op, call.x1, call.x1, q1, RangeOf(call.range), Q,
                              Layers(call.expected))
                     /\ From(u, w, call.x1, q1, hb)
  BY DEF FlipsOn
<1>2. memory' = m /\ bitmaps' = u
  BY <1>1, BecomeIs
<1> DEFINE d == call'
<1>3. /\ d.op = call.op /\ d.stage = call.stage /\ d.x1 = call.x1 /\ d.x2 = call.x2 /\ d.to = call.to
      /\ d.hb = hb /\ d.range = call.range
      /\ d.expected = call.expected /\ IsCall(d) /\ Touched(d) = Touched(call)
  BY TurnedIs
<1>4. /\ IsCall(call) /\ Roles(call.op, call.x1, call.x2, call.to) /\ call.to = call.x1
      /\ call.expected \in SUBSET Nat /\ call.op \in LoopOps
  BY FlipInTaken
<1> HIDE DEF d
<1>5. FlippingAt(m, u, w, call.x1, hb, call.range, Layers(call.expected))
  <2>1. Flipping(m, u, w, call.op, call.x1, call.x1, q1, hb, call.range, Layers(call.expected))
    BY <1>1, <1>4 DEF Flipping
  <2> QED
    BY <1>1, <2>1 DEF FlippingAt, From
<1>6. Course(m, u, w, call.op, call.x1, call.x2, call.to, d.pos1, d.pos2, d.size, hb, call.range,
             Layers(call.expected))
  <2>1. call.op \notin TwoOps /\ call.op \notin OneOps
    BY DEF TwoOps, OneOps, Making, Gapped
  <2> QED
    BY <1>5, <2>1 DEF Course
<1>7. Looping(m, u, w, d)
  BY <1>3, <1>4, <1>6 DEF Looping
<1>8. On(m, u, w, d)
  BY <1>3, <1>4, <1>7 DEF On
<1>9. Elsewhere(bitmaps, u, v, w, Touched(call) \union Touched(d))
  <2>1. {call.x1} \subseteq Touched(call) \union Touched(d)
    BY <1>4 DEF Touched
  <2> QED
    BY <1>1, <2>1, ElsewhereMore
<1> QED
  BY <1>2, <1>8, <1>9 DEF Steps, d

\* The names that the module has for a place.
LEMMA PlaceTerms ==
  ASSUME NEW b, NEW key
  PROVE  /\ IndexOf(b, key) = Index(bitmaps, b, key)
         /\ Has(b, key) <=> \E j \in 1 .. Count(bitmaps, b) : KeyIn(bitmaps, b, j) = key
         /\ \A i : At(b, i) = ConIn(bitmaps, b, i)
         /\ Entries(b) = EntriesIn(bitmaps, b)
<1>1. Size(b) = Count(bitmaps, b) /\ \A i : KeyAt(b, i) = KeyIn(bitmaps, b, i)
  BY Terms
<1> QED
  BY <1>1, Terms DEF IndexOf, Index, Has

LEMMA WrittenIs ==
  ASSUME NEW c, NEW T, NEW r, r \in Written(c, {}, LAMBDA A, B : SymDiff(A, T)),
         NEW own, own = ExtractCopy(memory, c),
         NEW V, V = ValuesAt(own.memory, own.container)
  PROVE  r \in InPlace(own.memory, own.container, SymDiff(V, T))
BY DEF Written

LEMMA FlipInplaceSteps ==
  ASSUME NEW v, On(memory, bitmaps, v, call), FlipInplaceTurn
  PROVE  Steps(v)
<1> DEFINE op == call.op
           x1 == call.x1
           hb == call.hb
           range == call.range
           last == LastOf(range)
           first == High(range[1])
           Q == hb .. last
           B == RangeOf(range)
           E == Layers(call.expected)
           i == IndexOf(x1, hb)
           hb1 == hb + 1
           R == hb1 .. last
<1>1. call.stage = "loop" /\ op = "flip_inplace"
  BY DEF FlipInplaceTurn, Doing
<1>2. IsCall(call) /\ call.to = x1
  BY <1>1, FlipInTaken
<1>3. PICK p : /\ Flipping(memory, bitmaps, v, op, x1, x1, p, hb, range, E)
               /\ From(bitmaps, v, x1, p, hb)
  BY <1>1, FlipInTaken
<1>4. /\ range \in Ranges /\ hb \in first .. last + 1
      /\ Going(memory, bitmaps, v, {}, op, x1, x1, p, B, Q, E)
  BY <1>3 DEF Flipping
<1>5. /\ hb \in Nat /\ last \in Nat /\ \A r \in Q : r \in Nat /\ hb <= r
      /\ hb <= last => /\ hb \in Q /\ Q \ {hb} = R /\ hb1 \in first .. last + 1
      /\ hb > last => Q = {}
  <2>1. range \in Ranges /\ hb \in High(range[1]) .. LastOf(range) + 1 /\ last = LastOf(range) /\ Q = hb .. last
    BY <1>4
  <2> HIDE DEF hb, range, last, Q
  <2>2. /\ hb \in Nat /\ last \in Nat /\ \A r \in Q : r \in Nat /\ hb <= r
        /\ hb <= last => /\ hb \in Q /\ Q \ {hb} = hb + 1 .. last
                         /\ hb + 1 \in High(range[1]) .. last + 1
        /\ hb > last => Q = {}
    BY ONLY <2>1, FlipStands
  <2> QED
    BY <2>2
<1>6. LastKey = last /\ State = Pair(memory, bitmaps) /\ FlippedLows(hb) = B[hb]
  BY <1>5, Terms, FlipTerms
<1>7. B[hb] \in SUBSET Lows /\ (hb <= last => B[hb] # {})
  <2>1. /\ B[hb] # {} <=> hb \in first .. last
        /\ B[hb] \in SUBSET Lows
    BY <1>4, <1>5, RangeKeys
  <2> QED
    BY <1>4, <1>5, <2>1
<1>8. \A A, C : Due(op, A, {}) = A /\ Due(op, {}, C) = C /\ Due(op, A, C) = SymDiff(A, C)
  BY <1>1, DueIs
<1>9. x1 \in DOMAIN bitmaps /\ World(memory, bitmaps, {}, v) /\ Ahead(bitmaps, {}, x1, p)
      /\ Sharers(bitmaps, x1)
  BY <1>4 DEF Going
<1>10. i = p /\ Splits(bitmaps, x1, hb, p)
  <2>1. i = Index(bitmaps, x1, hb)
    BY PlaceTerms
  <2> HIDE DEF i
  <2>2. Splits(bitmaps, x1, hb, p) /\ Splits(bitmaps, x1, hb, Index(bitmaps, x1, hb))
    BY <1>3, <1>5, <1>9, FromSplits, IndexSplits
  <2> QED
    BY <1>5, <1>9, <2>1, <2>2, SplitsOnce
<1>11. Has(x1, hb) <=> p <= Count(bitmaps, x1) /\ KeyIn(bitmaps, x1, p) = hb
  BY <1>5, <1>9, <1>10, FoundIs, PlaceTerms DEF Found
<1>12. ASSUME hb <= LastKey, Has(x1, hb), NextKey,
              NEW r,
              r \in Written(At(x1, i), {}, LAMBDA A, C : SymDiff(A, FlippedLows(hb))),
              Become(IF ValuesOf(r) = {}
                     THEN Change(WithMemory(State, ContainerFree(r.memory, r.container)),
                                 x1, RemoveAt(Entries(x1), i))
                     ELSE SetAt(WithMemory(State, r.memory), x1, i, r.container))
       PROVE  Steps(v)
  <2> DEFINE c == ConIn(bitmaps, x1, p)
             own == ExtractCopy(memory, c)
             V == Val(v, x1, hb)
             S == SymDiff(V, B[hb])
             s == SetAt(Pair(r.memory, bitmaps), x1, p, r.container)
             t == Change(Pair(ContainerFree(r.memory, r.container), bitmaps), x1,
                         RemoveAt(EntriesIn(bitmaps, x1), p))
             q1 == p + 1
  <2>1. p <= Count(bitmaps, x1) /\ hb = KeyIn(bitmaps, x1, p) /\ hb <= last /\ p \in Owned(bitmaps, {}, x1)
    BY <1>6, <1>9, <1>11, <1>12, AheadOwned
  <2>2. ValuesAt(own.memory, own.container) = V /\ V \subseteq Lows
    <3> DEFINE k == hb
    <3>1. /\ World(memory, bitmaps, {}, v) /\ x1 \in DOMAIN bitmaps /\ p \in Owned(bitmaps, {}, x1)
          /\ k = KeyIn(bitmaps, x1, p) /\ c = ConIn(bitmaps, x1, p) /\ own = ExtractCopy(memory, c)
      BY <1>9, <2>1
    <3> HIDE DEF k, c, own, x1
    <3>2. Val(v, x1, k) \subseteq Lows /\ ValuesAt(own.memory, own.container) = Val(v, x1, k)
      BY ONLY <3>1, WrittenPlace
    <3> QED
      BY <3>2 DEF k
  <2>3. r \in InPlace(own.memory, own.container, S)
    <3>1. At(x1, i) = c /\ FlippedLows(hb) = B[hb]
      BY <1>6, <1>10, PlaceTerms
    <3>2. r \in Written(c, {}, LAMBDA A, C : SymDiff(A, B[hb]))
      BY <1>12, <3>1 DEF Written
    <3> QED
      BY <2>2, <3>2, WrittenIs
  <2>4. S \in SUBSET Lows /\ S = Due(op, V, B[hb])
    BY <1>7, <1>8, <2>2, SymDiffIs
  <2>5. Become(IF ValuesOf(r) = {} THEN t ELSE s)
    BY <1>6, <1>10, <1>12, WithMemoryIs, PlaceTerms
  <2>6. call' = Turned(call, call.pos1, call.pos2, call.size, hb1)
    BY <1>2, <1>12, CallMoves, Zenon DEF NextKey
  <2>7. /\ ValuesOf(r) = S
        /\ S # {} => FlipsOn(s, bitmaps, v, op, x1, q1, B, R, E, hb1)
        /\ S = {} => FlipsOn(t, bitmaps, v, op, x1, p, B, R, E, hb1)
    <3> DEFINE k == hb
    <3>1. /\ Going(memory, bitmaps, v, {}, op, x1, x1, p, B, Q, E) /\ p <= Count(bitmaps, x1)
          /\ k = KeyIn(bitmaps, x1, p) /\ (\A j \in Q : k <= j) /\ q1 = p + 1
          /\ R = Q \ {k} /\ c = ConIn(bitmaps, x1, p) /\ own = ExtractCopy(memory, c)
          /\ S \in SUBSET Lows /\ S = Due(op, Val(v, x1, k), B[k])
          /\ r \in InPlace(own.memory, own.container, S)
          /\ From(bitmaps, v, x1, p, k) /\ hb1 = k + 1
      BY <1>3, <1>4, <1>5, <2>1, <2>3, <2>4
    <3> HIDE DEF k, op, x1, hb, range, last, first, Q, B, E, i, hb1, R, c, own, V, S, q1
    <3>2. FlipsAt(memory, bitmaps, v, op, x1, p, B, Q, E, k, q1, R, c, own, S, r, hb1)
      BY ONLY <3>1 DEF FlipsAt
    <3> QED
      BY ONLY <3>2, FlipWrites
  <2>8. hb1 \in first .. last + 1
    BY <1>5, <2>1
  <2> HIDE DEF s, t, S, hb1, q1
  <2>9. CASE S = {}
    <3>1. Become(t) /\ FlipsOn(t, bitmaps, v, op, x1, p, B, R, E, hb1)
      BY <2>5, <2>7, <2>9
    <3> QED
      BY <1>1, <1>4, <2>6, <2>8, <3>1, FlipInTurned
  <2>10. CASE S # {}
    <3>1. Become(s) /\ FlipsOn(s, bitmaps, v, op, x1, q1, B, R, E, hb1)
      BY <2>5, <2>7, <2>10
    <3> QED
      BY <1>1, <1>4, <2>6, <2>8, <3>1, FlipInTurned
  <2> QED
    BY <2>9, <2>10
<1>13. ASSUME hb <= LastKey, ~Has(x1, hb), NextKey, NEW kind \in Kinds,
              LET new == Allocate(memory, hb, kind, FlippedLows(hb))
              IN  Become(Change(WithMemory(State, new.memory), x1,
                                InsertAt(Entries(x1), i, Entry(hb, new.container))))
       PROVE  Steps(v)
  <2> DEFINE S == B[hb]
             new == Allocate(memory, hb, kind, S)
             s == Change(Pair(new.memory, bitmaps), x1,
                         InsertAt(EntriesIn(bitmaps, x1), p, Entry(hb, new.container)))
             q1 == p + 1
  <2>1. hb <= last /\ S # {} /\ S \in SUBSET Lows
    BY <1>6, <1>7, <1>13
  <2>2. p <= Count(bitmaps, x1) => hb < KeyIn(bitmaps, x1, p)
    <3>1. ASSUME p <= Count(bitmaps, x1)
          PROVE  KeyIn(bitmaps, x1, p) \in Nat /\ KeyIn(bitmaps, x1, p) >= hb
      <4>1. p \in 1 .. Count(bitmaps, x1)
        BY <1>9, <3>1, AheadOwned DEF Ahead
      <4> QED
        BY <1>9, <1>10, <4>1, AllOwned DEF Splits
    <3> QED
      BY <1>5, <1>11, <1>13, <3>1
  <2>3. Become(s)
    BY <1>6, <1>10, <1>13, WithMemoryIs, PlaceTerms
  <2>4. call' = Turned(call, call.pos1, call.pos2, call.size, hb1)
    BY <1>2, <1>13, CallMoves, Zenon DEF NextKey
  <2>5. FlipsOn(s, bitmaps, v, op, x1, q1, B, R, E, hb1)
    <3> DEFINE k == hb
    <3>1. /\ Going(memory, bitmaps, v, {}, op, x1, x1, p, B, Q, E) /\ k \in Nat /\ k \in Q
          /\ (\A r \in Q : k <= r) /\ (p <= Count(bitmaps, x1) => k < KeyIn(bitmaps, x1, p))
          /\ q1 = p + 1 /\ R = Q \ {k} /\ kind \in Kinds /\ S \in SUBSET Lows /\ S # {}
          /\ S = Due(op, {}, B[k]) /\ new = Allocate(memory, k, kind, S)
          /\ From(bitmaps, v, x1, p, k) /\ hb1 = k + 1
      BY <1>3, <1>4, <1>5, <1>8, <2>1, <2>2
    <3>2. s = Change(Pair(new.memory, bitmaps), x1,
                     InsertAt(EntriesIn(bitmaps, x1), p, Entry(k, new.container)))
      OBVIOUS
    <3> HIDE DEF k, op, x1, hb, range, last, first, Q, B, E, i, hb1, R, S, q1, new, s
    <3>3. FlipsOn(Change(Pair(new.memory, bitmaps), x1,
                         InsertAt(EntriesIn(bitmaps, x1), p, Entry(k, new.container))),
                  bitmaps, v, op, x1, q1, B, R, E, hb1)
      BY ONLY <3>1, FlipInserts
    <3> QED
      BY <3>2, <3>3
  <2>6. hb1 \in first .. last + 1
    BY <1>5, <2>1
  <2> HIDE DEF s, hb1, q1
  <2> QED
    BY <1>1, <1>4, <2>3, <2>4, <2>5, <2>6, FlipInTurned
<1>14. CASE hb > LastKey /\ Done /\ UNCHANGED <<memory, bitmaps>>
  <2>1. Q = {}
    BY <1>5, <1>6, <1>14
  <2>2. call' = Ended(call)
    BY <1>14 DEF Done, Ended
  <2>3. Skips1(op, x1, x1)
    BY <1>8 DEF Skips1
  <2> HIDE DEF Q, B, E, op, x1
  <2>4. \A r \in Nat : Val(v, x1, r) = E[r]
    BY <1>4, <2>1, <2>3, EndsOne
  <2>5. Elsewhere(bitmaps, bitmaps, v, v, {x1})
    BY DEF Elsewhere
  <2> QED
    BY <1>1, <1>2, <1>9, <1>14, <2>2, <2>4, <2>5, Closing DEF E, op, x1
<1> QED
  BY <1>1, <1>12, <1>13, <1>14 DEF FlipInplaceTurn

-----------------------------------------------------------------------------
(***************************************************************************)
(* What a bitmap contains, and what a call is to make of it.               *)
(***************************************************************************)

\* What a bitmap contains.
ContentsIn(m, bs, b) ==
  UNION {{Width * KeyIn(bs, b, i) + y : y \in ValuesAt(m, ConIn(bs, b, i))} : i \in 1 .. Count(bs, b)}

LEMMA InContents ==
  ASSUME NEW m, NEW bs, NEW b, NEW y
  PROVE  y \in ContentsIn(m, bs, b) <=>
           \E i \in 1 .. Count(bs, b) : \E x \in ValuesAt(m, ConIn(bs, b, i)) :
             y = Width * KeyIn(bs, b, i) + x
BY DEF ContentsIn

LEMMA ContentsAre ==
  ASSUME NEW m, NEW bs, NEW X, NEW v, World(m, bs, X, v), NEW b \in DOMAIN bs, Whole(X, b)
  PROVE  /\ ContentsIn(m, bs, b) \subseteq Nat
         /\ \A y \in Nat : y \in ContentsIn(m, bs, b) <=> Low(y) \in Val(v, b, High(y))
<1>1. \A i \in 1 .. Count(bs, b) :
        /\ KeyIn(bs, b, i) \in Nat /\ ValuesAt(m, ConIn(bs, b, i)) = Val(v, b, KeyIn(bs, b, i))
        /\ Val(v, b, KeyIn(bs, b, i)) \subseteq Lows
  BY WholeOwned, ReadPlace
<1>2. \A k : Val(v, b, k) # {} => \E i \in 1 .. Count(bs, b) : KeyIn(bs, b, i) = k
  BY WholeOwned
<1>3. ASSUME NEW y, y \in ContentsIn(m, bs, b)
      PROVE  y \in Nat /\ Low(y) \in Val(v, b, High(y))
  <2>1. PICK i \in 1 .. Count(bs, b) : \E x \in ValuesAt(m, ConIn(bs, b, i)) :
               y = Width * KeyIn(bs, b, i) + x
    BY <1>3, InContents
  <2>2. PICK x \in ValuesAt(m, ConIn(bs, b, i)) : y = Width * KeyIn(bs, b, i) + x
    BY <2>1
  <2> DEFINE k == KeyIn(bs, b, i)
  <2>3. k \in Nat /\ x \in Val(v, b, k) /\ x \in Lows /\ y = Width * k + x
    BY <1>1, <2>2
  <2> HIDE DEF k
  <2>4. y \in Nat /\ High(y) = k /\ Low(y) = x
    BY <2>3, HighLow
  <2> QED
    BY <2>3, <2>4
<1>4. ASSUME NEW y \in Nat, Low(y) \in Val(v, b, High(y))
      PROVE  y \in ContentsIn(m, bs, b)
  <2>1. PICK i \in 1 .. Count(bs, b) : KeyIn(bs, b, i) = High(y)
    BY <1>2, <1>4
  <2>2. Low(y) \in ValuesAt(m, ConIn(bs, b, i))
    BY <1>1, <1>4, <2>1
  <2>3. y = Width * KeyIn(bs, b, i) + Low(y)
    BY <2>1, HighIs
  <2> QED
    BY <2>2, <2>3, InContents
<1> QED
  BY <1>3, <1>4

LEMMA ContentsLayer ==
  ASSUME NEW m, NEW bs, NEW X, NEW v, World(m, bs, X, v), NEW b \in DOMAIN bs, Whole(X, b),
         NEW k \in Nat
  PROVE  Layer(ContentsIn(m, bs, b), k) = Val(v, b, k)
<1>1. Val(v, b, k) \subseteq Lows
  BY ValKeys
<1>2. \A l \in Lows : Width * k + l \in Nat /\ High(Width * k + l) = k /\ Low(Width * k + l) = l
  BY HighLow
<1> DEFINE C == ContentsIn(m, bs, b)
<1>3. \A y \in Nat : y \in C <=> Low(y) \in Val(v, b, High(y))
  BY ContentsAre
<1> HIDE DEF C
<1>4. \A l \in Lows : Width * k + l \in C <=> l \in Val(v, b, k)
  BY <1>2, <1>3
<1>5. Layer(C, k) = Val(v, b, k)
  BY <1>1, <1>4 DEF Layer
<1> QED
  BY <1>5 DEF C

\* Sets of natural numbers that have the same layers are the same.
LEMMA SameLayers ==
  ASSUME NEW A \in SUBSET Nat, NEW B \in SUBSET Nat, \A k \in Nat : Layer(A, k) = Layer(B, k)
  PROVE  A = B
<1>1. ASSUME NEW S \in SUBSET Nat, NEW T \in SUBSET Nat, \A k \in Nat : Layer(S, k) = Layer(T, k),
             NEW y \in S
      PROVE  y \in T
  <2>1. y \in Nat /\ High(y) \in Nat /\ Low(y) \in Lows /\ y = Width * High(y) + Low(y)
    BY <1>1, HighIs
  <2>2. Low(y) \in Layer(S, High(y))
    BY <1>1, <2>1 DEF Layer
  <2>3. Low(y) \in Layer(T, High(y))
    BY <1>1, <2>1, <2>2
  <2> QED
    BY <2>1, <2>3 DEF Layer
<1>2. A \subseteq B
  BY <1>1
<1>3. B \subseteq A
  BY <1>1
<1> QED
  BY <1>2, <1>3

\* What the call is to leave under each key.
LEMMA ResultLayer ==
  ASSUME NEW op \in TwoOps, NEW A \in SUBSET Nat, NEW B \in SUBSET Nat, NEW k \in Nat
  PROVE  /\ Result(op, A, B) \subseteq Nat
         /\ Layer(Result(op, A, B), k) = Due(op, Layer(A, k), Layer(B, k))
<1>1. CASE op \in {"and", "and_inplace"}
  <2>1. Result(op, A, B) = A \intersect B
    BY <1>1 DEF Result
  <2>2. Due(op, Layer(A, k), Layer(B, k)) = Layer(A, k) \intersect Layer(B, k)
    BY <1>1, DueIs
  <2> QED
    BY <2>1, <2>2 DEF Layer
<1>2. CASE op \in {"or", "or_inplace", "consume"}
  <2>1. Result(op, A, B) = A \union B
    BY <1>2 DEF Result
  <2>2. Due(op, Layer(A, k), Layer(B, k)) = Layer(A, k) \union Layer(B, k)
    BY <1>2, DueIs
  <2> QED
    BY <2>1, <2>2 DEF Layer
<1>3. CASE op \in {"xor", "xor_inplace"}
  <2>1. Result(op, A, B) = (A \ B) \union (B \ A)
    BY <1>3, SymDiffIs DEF Result
  <2>2. Due(op, Layer(A, k), Layer(B, k))
          = (Layer(A, k) \ Layer(B, k)) \union (Layer(B, k) \ Layer(A, k))
    BY <1>3, DueIs, SymDiffIs
  <2> QED
    BY <2>1, <2>2 DEF Layer
<1>4. CASE op \in {"andnot", "andnot_inplace"}
  <2>1. Result(op, A, B) = A \ B
    BY <1>4 DEF Result
  <2>2. Due(op, Layer(A, k), Layer(B, k)) = Layer(A, k) \ Layer(B, k)
    BY <1>4, DueIs
  <2> QED
    BY <2>1, <2>2 DEF Layer
<1> QED
  BY <1>1, <1>2, <1>3, <1>4 DEF TwoOps, Making, Gapped

LEMMA FlipLayer ==
  ASSUME NEW op \in {"flip", "flip_inplace"}, NEW A \in SUBSET Nat, NEW range \in Ranges,
         NEW k \in Nat, NEW S, S = SymDiff(A, range[1] .. range[2] - 1)
  PROVE  S \subseteq Nat /\ Layer(S, k) = Due(op, Layer(A, k), RangeOf(range)[k])
<1> DEFINE R == range[1] .. range[2] - 1
<1>1. R \subseteq Nat
  BY DEF Ranges
<1>2. RangeOf(range)[k] = Layer(R, k)
  BY DEF RangeOf, Layer
<1>3. S = (A \ R) \union (R \ A)
  BY SymDiffIs
<1>4. Due(op, Layer(A, k), RangeOf(range)[k])
        = (Layer(A, k) \ RangeOf(range)[k]) \union (RangeOf(range)[k] \ Layer(A, k))
  BY DueIs, SymDiffIs
<1> HIDE DEF R
<1> QED
  BY <1>1, <1>2, <1>3, <1>4 DEF Layer

-----------------------------------------------------------------------------
(***************************************************************************)
(* The calls that begin.                                                   *)
(***************************************************************************)
LEMMA IdleIs ==
  ASSUME NEW v, On(memory, bitmaps, v, call), Idle
  PROVE  /\ World(memory, bitmaps, {}, v) /\ \A b \in DOMAIN bitmaps : Sharer(bitmaps, b)
         /\ Live = DOMAIN bitmaps /\ \A to : Sharers(bitmaps, to)
BY DEF On, Idle, Resting, Live, Sharers

LEMMA BegunSteps ==
  ASSUME NEW v, On(memory', bitmaps', v, call'), DOMAIN bitmaps \subseteq DOMAIN bitmaps'
  PROVE  Steps(v)
<1>1. Elsewhere(bitmaps, bitmaps', v, v, Touched(call) \union Touched(call'))
  BY DEF Elsewhere
<1> QED
  BY <1>1 DEF Steps

\* A bitmap of which the values are known.
LEMMA ContentsTerms ==
  ASSUME NEW v, On(memory, bitmaps, v, call), Idle, NEW b \in Live
  PROVE  /\ Contents(b) \in SUBSET Nat /\ b \in DOMAIN bitmaps
         /\ \A k \in Nat : Layer(Contents(b), k) = Val(v, b, k)
         /\ Size(b) = Count(bitmaps, b) /\ Count(bitmaps, b) \in Nat
         /\ Size(b) = 0 => \A k : Val(v, b, k) = {}
<1>1. World(memory, bitmaps, {}, v) /\ b \in DOMAIN bitmaps
  BY IdleIs
<1>2. Contents(b) = ContentsIn(memory, bitmaps, b)
  BY DEF Contents, ContentsIn, KeyAt, At, Size, Entries, KeyIn, ConIn, Count
<1>3. Size(b) = Count(bitmaps, b)
  BY Terms
<1>4. /\ Count(bitmaps, b) \in Nat
      /\ \A k : Val(v, b, k) # {} => \E i \in 1 .. Count(bitmaps, b) : KeyIn(bitmaps, b, i) = k
  BY <1>1, AllOwned
<1>8. Whole({}, b)
  BY DEF Whole
<1>5. ContentsIn(memory, bitmaps, b) \in SUBSET Nat
  BY <1>1, <1>8, ContentsAre
<1>6. \A k \in Nat : Layer(ContentsIn(memory, bitmaps, b), k) = Val(v, b, k)
  BY <1>1, <1>8, ContentsLayer
<1>7. ASSUME Count(bitmaps, b) = 0, NEW k  PROVE Val(v, b, k) = {}
  BY <1>4, <1>7
<1> QED
  BY <1>1, <1>2, <1>3, <1>4, <1>5, <1>6, <1>7

\* A new bitmap for the answer.
LEMMA MadeIs ==
  ASSUME NEW v, On(memory, bitmaps, v, call), Idle, NEW to \in Slots \ Live,
         NEW flag \in BOOLEAN,
         Made(to, flag)
  PROVE  /\ World(memory, bitmaps', {}, v) /\ to \in DOMAIN bitmaps' /\ Sharers(bitmaps', to)
         /\ DOMAIN bitmaps \subseteq DOMAIN bitmaps' /\ \A k : Val(v, to, k) = {}
         /\ \A b \in Live : b # to /\ b \in DOMAIN bitmaps'
<1> DEFINE u == bitmaps'
<1>1. World(memory, bitmaps, {}, v) /\ Live = DOMAIN bitmaps /\ \A b \in DOMAIN bitmaps : Sharer(bitmaps, b)
  BY IdleIs
<1>2. u = With(bitmaps, to, flag)
  BY DEF Made, With, Live
<1>3. to \in Slots /\ to \notin DOMAIN bitmaps
  BY <1>1
<1> HIDE DEF u
<1>4. /\ World(memory, u, {}, v) /\ DOMAIN u = DOMAIN bitmaps \union {to}
      /\ \A k : Val(v, to, k) = {}
      /\ \A b \in DOMAIN bitmaps : b # to /\ u[b] = bitmaps[b]
  <2>1. /\ World(memory, With(bitmaps, to, flag), {}, v)
        /\ DOMAIN With(bitmaps, to, flag) = DOMAIN bitmaps \union {to}
        /\ \A k : Val(v, to, k) = {}
        /\ \A b \in DOMAIN bitmaps : b # to /\ With(bitmaps, to, flag)[b] = bitmaps[b]
    BY <1>1, <1>3, MadeWorld
  <2> QED
    BY <1>2, <2>1
<1>5. Sharers(u, to)
  BY <1>1, <1>4 DEF Sharers, Sharer
<1>6. /\ World(memory, u, {}, v) /\ to \in DOMAIN u /\ Sharers(u, to)
      /\ DOMAIN bitmaps \subseteq DOMAIN u /\ (\A k : Val(v, to, k) = {})
      /\ \A b \in Live : b # to /\ b \in DOMAIN u
  BY <1>1, <1>4, <1>5
<1> QED
  BY <1>6 DEF u

LEMMA CowIs ==
  ASSUME NEW v, On(memory, bitmaps, v, call), Idle, NEW b \in Live
  PROVE  bitmaps[b].cow \in BOOLEAN
BY IdleIs DEF Sharer

LEMMA CombineSteps ==
  ASSUME NEW v, On(memory, bitmaps, v, call), Combine
  PROVE  Steps(v)
<1> DEFINE u == bitmaps'
           c == call'
<1>1. PICK op \in {"and", "or", "xor", "andnot"}, x1 \in Live, x2 \in Live, to \in Slots \ Live :
        /\ Idle /\ memory' = memory
        /\ Made(to, bitmaps[x1].cow /\ bitmaps[x2].cow)
        /\ IF op \in {"or", "xor"} /\ Size(x1) = 0
           THEN c = Enter("copy", x2, x2, to, Result(op, Contents(x1), Contents(x2)))
           ELSE IF op # "and" /\ Size(x2) = 0
           THEN c = Enter("copy", x1, x2, to, Result(op, Contents(x1), Contents(x2)))
           ELSE c = Enter(op, x1, x2, to, Result(op, Contents(x1), Contents(x2)))
  BY DEF Combine
<1> DEFINE flag == bitmaps[x1].cow /\ bitmaps[x2].cow
           S == Result(op, Contents(x1), Contents(x2))
<1>2. flag \in BOOLEAN /\ Made(to, flag)
  BY <1>1, CowIs
<1> HIDE DEF flag
<1>3. /\ World(memory, u, {}, v) /\ to \in DOMAIN u /\ Sharers(u, to)
      /\ DOMAIN bitmaps \subseteq DOMAIN u /\ (\A k : Val(v, to, k) = {})
      /\ x1 # to /\ x2 # to /\ x1 \in DOMAIN u /\ x2 \in DOMAIN u
  BY <1>1, <1>2, MadeIs
<1>4. op \in TwoOps /\ op \in Making /\ "copy" \in OneOps
  BY DEF TwoOps, Making, OneOps
<1>5. /\ Contents(x1) \in SUBSET Nat /\ Contents(x2) \in SUBSET Nat
      /\ \A k \in Nat : Layer(Contents(x1), k) = Val(v, x1, k)
      /\ \A k \in Nat : Layer(Contents(x2), k) = Val(v, x2, k)
      /\ Size(x1) = 0 => \A k : Val(v, x1, k) = {}
      /\ Size(x2) = 0 => \A k : Val(v, x2, k) = {}
  BY <1>1, ContentsTerms
<1>6. S \in SUBSET Nat /\ \A k \in Nat : Layer(S, k) = Due(op, Val(v, x1, k), Val(v, x2, k))
  <2> DEFINE A == Contents(x1)
             B == Contents(x2)
  <2>1. A \in SUBSET Nat /\ B \in SUBSET Nat
    BY <1>5
  <2>2. (\A k \in Nat : Layer(A, k) = Val(v, x1, k)) /\ \A k \in Nat : Layer(B, k) = Val(v, x2, k)
    BY <1>5
  <2>3. S = Result(op, A, B)
    OBVIOUS
  <2> HIDE DEF A, B, S
  <2>4. S \subseteq Nat
    <3>1. 0 \in Nat
      OBVIOUS
    <3> QED
      BY <1>4, <2>1, <2>3, <3>1, ResultLayer
  <2>5. \A k \in Nat : Layer(S, k) = Due(op, Layer(A, k), Layer(B, k))
    BY <1>4, <2>1, <2>3, ResultLayer
  <2> QED
    BY <2>2, <2>4, <2>5
<1> HIDE DEF S, u, c
<1>7. CASE op \in {"or", "xor"} /\ Size(x1) = 0 /\ c = Enter("copy", x2, x2, to, S)
  <2>1. \A k \in Nat : Layer(S, k) = Val(v, x2, k)
    <3>1. \A B : Due(op, {}, B) = B
      BY <1>7, DueIs
    <3>2. \A k : Val(v, x1, k) = {}
      BY <1>5, <1>7
    <3> QED
      BY <1>6, <3>1, <3>2
  <2>2. On(memory, u, v, c)
    BY <1>3, <1>4, <1>6, <1>7, <2>1, BeginOne
  <2> QED
    BY <1>1, <1>3, <2>2, BegunSteps DEF u, c
<1>8. CASE op # "and" /\ Size(x2) = 0 /\ c = Enter("copy", x1, x2, to, S)
  <2>1. op \in {"or", "xor", "andnot"}
    BY <1>8
  <2>2. \A k \in Nat : Layer(S, k) = Val(v, x1, k)
    <3>1. \A A : Due(op, A, {}) = A
      BY <2>1, DueIs
    <3>2. \A k : Val(v, x2, k) = {}
      BY <1>5, <1>8
    <3> QED
      BY <1>6, <3>1, <3>2
  <2>3. On(memory, u, v, c)
    BY <1>3, <1>4, <1>6, <1>8, <2>2, BeginOne
  <2> QED
    BY <1>1, <1>3, <2>3, BegunSteps DEF u, c
<1>9. CASE c = Enter(op, x1, x2, to, S)
  <2>1. Roles(op, x1, x2, to)
    BY <1>3, <1>4 DEF Roles, LoopOps, TwoOps, OneOps, Making
  <2>2. On(memory, u, v, c)
    BY <1>3, <1>4, <1>6, <1>9, <2>1, BeginTwo
  <2> QED
    BY <1>1, <1>3, <2>2, BegunSteps DEF u, c
<1> QED
  BY <1>1, <1>7, <1>8, <1>9 DEF S, c

LEMMA ConsumeBegins ==
  ASSUME NEW v, On(memory, bitmaps, v, call), Consume
  PROVE  Steps(v)
<1> DEFINE u == bitmaps'
           c == call'
           op == "consume"
<1>1. PICK x1 \in Live, x2 \in Live, to \in Slots \ Live :
        /\ Idle /\ memory' = memory /\ x1 # x2 /\ Made(to, FALSE)
        /\ c = Enter(op, x1, x2, to, Result(op, Contents(x1), Contents(x2)))
  BY Zenon DEF Consume
<1> DEFINE S == Result(op, Contents(x1), Contents(x2))
<1>3. /\ World(memory, u, {}, v) /\ to \in DOMAIN u /\ Sharers(u, to)
      /\ DOMAIN bitmaps \subseteq DOMAIN u /\ (\A k : Val(v, to, k) = {})
      /\ x1 # to /\ x2 # to /\ x1 \in DOMAIN u /\ x2 \in DOMAIN u
  BY <1>1, MadeIs
<1>4. op \in TwoOps
  BY DEF TwoOps
<1>5. /\ Contents(x1) \in SUBSET Nat /\ Contents(x2) \in SUBSET Nat
      /\ \A k \in Nat : Layer(Contents(x1), k) = Val(v, x1, k)
      /\ \A k \in Nat : Layer(Contents(x2), k) = Val(v, x2, k)
  BY <1>1, ContentsTerms
<1>7. Roles(op, x1, x2, to)
  BY <1>1, <1>3 DEF Roles, LoopOps, TwoOps, OneOps, Making
<1> HIDE DEF op
<1>6. S \in SUBSET Nat /\ \A k \in Nat : Layer(S, k) = Due(op, Val(v, x1, k), Val(v, x2, k))
  BY <1>4, <1>5, ResultLayer
<1> HIDE DEF S, u, c
<1>8. c = Enter(op, x1, x2, to, S)
  BY <1>1 DEF S
<1>9. On(memory, u, v, c)
  BY <1>3, <1>4, <1>6, <1>7, <1>8, BeginTwo
<1> QED
  BY <1>1, <1>3, <1>9, BegunSteps DEF u, c

LEMMA CopyBegins ==
  ASSUME NEW v, On(memory, bitmaps, v, call), Copy
  PROVE  Steps(v)
<1> DEFINE u == bitmaps'
           c == call'
           op == "copy"
<1>1. PICK x1 \in Live, to \in Slots \ Live :
        /\ Idle /\ memory' = memory /\ Made(to, bitmaps[x1].cow)
        /\ c = Enter(op, x1, 0, to, Contents(x1))
  BY Zenon DEF Copy
<1> DEFINE S == Contents(x1)
           flag == bitmaps[x1].cow
<1>2. flag \in BOOLEAN /\ Made(to, flag)
  BY <1>1, CowIs
<1> HIDE DEF flag
<1>3. /\ World(memory, u, {}, v) /\ to \in DOMAIN u /\ Sharers(u, to)
      /\ DOMAIN bitmaps \subseteq DOMAIN u /\ (\A k : Val(v, to, k) = {})
      /\ x1 # to /\ x1 \in DOMAIN u
  BY <1>1, <1>2, MadeIs
<1>4. op \in OneOps
  BY DEF OneOps
<1>5. S \in SUBSET Nat /\ \A k \in Nat : Layer(S, k) = Val(v, x1, k)
  BY <1>1, ContentsTerms
<1>6. op = "copy"
  OBVIOUS
<1> HIDE DEF op, S, u, c
<1>8. c = Enter(op, x1, 0, to, S)
  BY <1>1 DEF S
<1>9. On(memory, u, v, c)
  BY <1>3, <1>4, <1>5, <1>6, <1>8, BeginOne
<1> QED
  BY <1>1, <1>3, <1>9, BegunSteps DEF u, c

LEMMA RewriteBegins ==
  ASSUME NEW v, On(memory, bitmaps, v, call), Rewrite
  PROVE  Steps(v)
<1> DEFINE u == bitmaps'
           c == call'
<1>1. PICK op \in {"convert", "remove_run_compression"}, x1 \in Live :
        /\ Idle /\ UNCHANGED <<memory, bitmaps>>
        /\ c = Enter(op, x1, 0, x1, Contents(x1))
  BY Zenon DEF Rewrite
<1> DEFINE S == Contents(x1)
<1>3. World(memory, bitmaps, {}, v) /\ x1 \in DOMAIN bitmaps /\ Sharers(bitmaps, x1)
  BY <1>1, IdleIs
<1>4. op \in OneOps /\ op # "copy"
  BY DEF OneOps
<1>5. S \in SUBSET Nat /\ \A k \in Nat : Layer(S, k) = Val(v, x1, k)
  BY <1>1, ContentsTerms
<1> HIDE DEF S, c
<1>8. c = Enter(op, x1, 0, x1, S)
  BY <1>1 DEF S
<1>9. On(memory, bitmaps, v, c)
  BY <1>3, <1>4, <1>5, <1>8, BeginOne
<1> QED
  BY <1>1, <1>9, BegunSteps DEF c

\* Calls that are done as soon as they begin.
LEMMA FinishedSteps ==
  ASSUME NEW v, NEW op, NEW x1, NEW x2, NEW to, NEW S \in SUBSET Nat, op # "free",
         call' = Ended(Enter(op, x1, x2, to, S)),
         NEW w, World(memory', bitmaps', {}, w),
         Sharers(bitmaps', to), to \in DOMAIN bitmaps',
         \A k \in Nat : Val(w, to, k) = Layer(S, k),
         Elsewhere(bitmaps, bitmaps', v, w, {to})
  PROVE  Steps(v)
<1> DEFINE c == Enter(op, x1, x2, to, S)
           d == call'
           m == memory'
           u == bitmaps'
<1>1. c.op = op /\ c.to = to /\ c.expected = S /\ IsCall(c) /\ to \in Touched(c)
  BY EnterIs
<1>2. d = Ended(c)
  OBVIOUS
<1> HIDE DEF c, d, m, u
<1>3. d.op = c.op /\ d.stage = "done" /\ d.to = c.to /\ d.expected = c.expected /\ IsCall(d) /\ Touched(d) = Touched(c)
  BY <1>1, <1>2, EndedIs
<1>4. /\ World(m, u, {}, w) /\ Sharers(u, to) /\ to \in DOMAIN u
      /\ Elsewhere(bitmaps, u, v, w, {to})
  BY DEF m, u
<1>5. Finished(m, u, w, d)
  BY <1>1, <1>3, <1>4 DEF Finished
<1>6. On(m, u, w, d)
  BY <1>1, <1>3, <1>5 DEF On
<1>7. Elsewhere(bitmaps, u, v, w, Touched(call) \union Touched(d))
  BY <1>1, <1>3, <1>4, ElsewhereMore
<1> QED
  BY <1>6, <1>7 DEF Steps, m, u, d

LEMMA CombineInplaceSteps ==
  ASSUME NEW v, On(memory, bitmaps, v, call), CombineInplace
  PROVE  Steps(v)
<1> DEFINE c == call'
<1>1. PICK op \in {"and_inplace", "or_inplace", "xor_inplace", "andnot_inplace"},
           x1 \in Live, x2 \in Live :
        /\ Idle /\ UNCHANGED <<memory, bitmaps>>
        /\ IF x1 = x2 THEN op = "and_inplace" /\ c = [Enter(op, x1, x2, x1, Contents(x1))
                                                        EXCEPT !.stage = "done"]
           ELSE IF op \in {"or_inplace", "xor_inplace"} /\ Size(x1) = 0
             THEN c = Enter("copy", x2, 0, x1, Result(op, Contents(x1), Contents(x2)))
           ELSE c = Enter(op, x1, x2, x1, Result(op, Contents(x1), Contents(x2)))
  BY DEF CombineInplace
<1>2. /\ World(memory, bitmaps, {}, v) /\ Sharers(bitmaps, x1)
      /\ x1 \in DOMAIN bitmaps /\ x2 \in DOMAIN bitmaps
  BY <1>1, IdleIs
<1>4. op \in TwoOps /\ op \notin Making /\ op # "consume" /\ op \notin OneOps /\ op # "flip" /\ "copy" \in OneOps
  BY DEF TwoOps, Making, OneOps, Gapped
<1> DEFINE S == Result(op, Contents(x1), Contents(x2))
<1>5. /\ Contents(x1) \in SUBSET Nat /\ Contents(x2) \in SUBSET Nat
      /\ \A k \in Nat : Layer(Contents(x1), k) = Val(v, x1, k)
      /\ \A k \in Nat : Layer(Contents(x2), k) = Val(v, x2, k)
      /\ Size(x1) = 0 => \A k : Val(v, x1, k) = {}
  BY <1>1, ContentsTerms
<1>6. S \in SUBSET Nat /\ \A k \in Nat : Layer(S, k) = Due(op, Val(v, x1, k), Val(v, x2, k))
  <2> DEFINE A == Contents(x1)
             B == Contents(x2)
  <2>1. A \in SUBSET Nat /\ B \in SUBSET Nat
    BY <1>5
  <2>2. (\A k \in Nat : Layer(A, k) = Val(v, x1, k)) /\ \A k \in Nat : Layer(B, k) = Val(v, x2, k)
    BY <1>5
  <2>3. S = Result(op, A, B)
    OBVIOUS
  <2> HIDE DEF A, B, S
  <2>4. S \subseteq Nat
    <3>1. 0 \in Nat
      OBVIOUS
    <3> QED
      BY <1>4, <2>1, <2>3, <3>1, ResultLayer
  <2>5. \A k \in Nat : Layer(S, k) = Due(op, Layer(A, k), Layer(B, k))
    BY <1>4, <2>1, <2>3, ResultLayer
  <2> QED
    BY <2>2, <2>4, <2>5
<1> HIDE DEF S, c
<1>7. CASE x1 = x2 /\ op = "and_inplace"
            /\ c = [Enter(op, x1, x2, x1, Contents(x1)) EXCEPT !.stage = "done"]
  <2>1. c = Ended(Enter(op, x1, x2, x1, Contents(x1)))
    BY <1>7 DEF Ended
  <2>2. Elsewhere(bitmaps, bitmaps, v, v, {x1})
    BY DEF Elsewhere
  <2>3. op # "free" /\ call' = Ended(Enter(op, x1, x2, x1, Contents(x1)))
    BY <1>7, <2>1 DEF c
  <2> QED
    BY <1>1, <1>2, <1>5, <2>2, <2>3, FinishedSteps
<1>8. CASE /\ x1 # x2 /\ op \in {"or_inplace", "xor_inplace"} /\ Size(x1) = 0
           /\ c = Enter("copy", x2, 0, x1, S)
  <2>1. \A k \in Nat : Layer(S, k) = Val(v, x2, k)
    <3>1. \A B : Due(op, {}, B) = B
      BY <1>8, DueIs
    <3>2. \A k : Val(v, x1, k) = {}
      BY <1>5, <1>8
    <3> QED
      BY <1>6, <3>1, <3>2
  <2>2. On(memory, bitmaps, v, c)
    BY <1>2, <1>4, <1>5, <1>6, <1>8, <2>1, BeginOne
  <2> QED
    BY <1>1, <2>2, BegunSteps DEF c
<1>9. CASE x1 # x2 /\ c = Enter(op, x1, x2, x1, S)
  <2>1. Roles(op, x1, x2, x1)
    BY <1>4 DEF Roles, OneOps
  <2>2. On(memory, bitmaps, v, c)
    BY <1>2, <1>4, <1>6, <1>9, <2>1, BeginTwo
  <2> QED
    BY <1>1, <2>2, BegunSteps DEF c
<1> QED
  BY <1>1, <1>7, <1>8, <1>9 DEF S

LEMMA FreeBegins ==
  ASSUME NEW v, On(memory, bitmaps, v, call), FreeBitmap
  PROVE  Steps(v)
<1> DEFINE c == call'
<1>1. PICK x1 \in Live : Idle /\ UNCHANGED <<memory, bitmaps>> /\ c = Enter("free", x1, 0, x1, {})
  BY DEF FreeBitmap
<1>2. World(memory, bitmaps, {}, v) /\ Sharers(bitmaps, x1) /\ x1 \in DOMAIN bitmaps
  BY <1>1, IdleIs
<1>3. Gap(x1, 1, 1 - 1) = {}
  BY DEF Gap
<1>4. Ahead(bitmaps, {}, x1, 1)
  BY <1>2, RestWhole
<1>5. Freeing(memory, bitmaps, v, x1, 1)
  BY <1>2, <1>3, <1>4 DEF Freeing
<1> HIDE DEF c
<1>6. /\ c.op = "free" /\ c.stage = "loop" /\ c.x1 = x1 /\ c.to = x1 /\ c.pos1 = 1
      /\ c.expected = {} /\ IsCall(c)
  BY <1>1, EnterIs
<1>7. Roles(c.op, c.x1, c.x2, c.to) /\ c.op \in LoopOps
  BY <1>6 DEF Roles, LoopOps, Making, TwoOps, OneOps
<1>8. c.op \notin TwoOps /\ c.op \notin OneOps
  BY <1>6 DEF TwoOps, OneOps, Making, Gapped
<1>9. Looping(memory, bitmaps, v, c)
  BY <1>5, <1>6, <1>7, <1>8 DEF Looping, Course
<1>10. On(memory, bitmaps, v, c)
  BY <1>6, <1>9 DEF On
<1> QED
  BY <1>1, <1>10, BegunSteps DEF c

LEMMA CreateSteps ==
  ASSUME NEW v, On(memory, bitmaps, v, call), Create
  PROVE  Steps(v)
<1> DEFINE S == {}
<1>1. PICK to \in Slots \ Live : Idle /\ memory' = memory /\ Finish("create", to, S) /\ Made(to, FALSE)
  BY DEF Create
<1>2. /\ World(memory, bitmaps', {}, v) /\ to \in DOMAIN bitmaps' /\ Sharers(bitmaps', to)
      /\ DOMAIN bitmaps \subseteq DOMAIN bitmaps' /\ \A k : Val(v, to, k) = {}
  BY <1>1, MadeIs
<1>3. call' = Ended(Enter("create", to, 0, to, S))
  BY <1>1 DEF Finish, Ended
<1>4. Elsewhere(bitmaps, bitmaps', v, v, {to})
  BY <1>2 DEF Elsewhere
<1>5. \A k \in Nat : Val(v, to, k) = Layer(S, k)
  BY <1>2 DEF Layer
<1>6. S \in SUBSET Nat
  OBVIOUS
<1> HIDE DEF S
<1> QED
  BY <1>1, <1>2, <1>3, <1>4, <1>5, <1>6, FinishedSteps

\* The calls that flip, as they are entered.
FlipStart(op, x1, to, range, S, hb) ==
  [Enter(op, x1, 0, to, S) EXCEPT !.hb = hb, !.range = range]

LEMMA FlipCallIs ==
  ASSUME NEW op, NEW x1, NEW to, NEW range, NEW S, NEW hb, NEW c,
         c = FlipStart(op, x1, to, range, S, hb)
  PROVE  /\ c.op = op /\ c.stage = "loop" /\ c.x1 = x1 /\ c.x2 = 0 /\ c.to = to /\ c.pos1 = 1
         /\ c.hb = hb /\ c.range = range /\ c.expected = S /\ IsCall(c) /\ to \in Touched(c)
<1> DEFINE e == [op |-> op, stage |-> "loop", x1 |-> x1, x2 |-> 0, to |-> to, pos1 |-> 1, pos2 |-> 1,
                 size |-> 0, hb |-> 0, range |-> <<0, 0>>, expected |-> S]
<1>1. Enter(op, x1, 0, to, S) = e
  BY EnterRecord
<1>2. c = [e EXCEPT !.hb = hb, !.range = range]
  BY <1>1 DEF FlipStart
<1>3. c = [op |-> op, stage |-> "loop", x1 |-> x1, x2 |-> 0, to |-> to, pos1 |-> 1, pos2 |-> 1,
           size |-> 0, hb |-> hb, range |-> range, expected |-> S]
  BY <1>2
<1> HIDE DEF e
<1>4. /\ c.op = op /\ c.stage = "loop" /\ c.x1 = x1 /\ c.x2 = 0 /\ c.to = to /\ c.pos1 = 1
      /\ c.pos2 = 1 /\ c.size = 0 /\ c.hb = hb /\ c.range = range /\ c.expected = S
  BY ONLY <1>3
<1>5. IsCall(c)
  BY ONLY <1>3, <1>4 DEF IsCall, Turned
<1>6. to \in Touched(c)
  BY <1>4 DEF Touched
<1> QED
  BY ONLY <1>4, <1>5, <1>6

\* The keys of a bitmap from a place on are those from the key there on.
LEMMA SplitsFrom ==
  ASSUME NEW m, NEW bs, NEW v, World(m, bs, {}, v), NEW x1 \in DOMAIN bs, NEW hb \in Nat,
         NEW p, Splits(bs, x1, hb, p)
  PROVE  /\ From(bs, v, x1, p, hb) /\ Ahead(bs, {}, x1, p) /\ Rest(bs, x1, p) \subseteq Nat
         /\ \A k \in Rest(bs, x1, p) : k >= hb
<1> DEFINE n == Count(bs, x1)
           K(i) == KeyIn(bs, x1, i)
<1>1. /\ n \in Nat /\ \A i \in 1 .. n : K(i) \in Nat
      /\ \A k : Val(v, x1, k) # {} => \E i \in 1 .. n : K(i) = k
  BY AllOwned
<1>2. p \in 1 .. n + 1 /\ \A j \in 1 .. n : IF j < p THEN K(j) < hb ELSE K(j) >= hb
  BY DEF Splits
<1>3. \A k : k \in Rest(bs, x1, p) <=> \E j \in p .. n : K(j) = k
  BY DEF Rest
<1>4. Ahead(bs, {}, x1, p)
  BY <1>2 DEF Ahead, Unspent
<1> HIDE DEF n, K
<1>5. \A k \in Rest(bs, x1, p) : k \in Nat /\ k >= hb
  BY <1>1, <1>2, <1>3
<1>6. ASSUME NEW k \in Nat, Val(v, x1, k) # {}, k >= hb  PROVE k \in Rest(bs, x1, p)
  <2>1. PICK i \in 1 .. n : K(i) = k
    BY <1>1, <1>6
  <2>2. ~(i < p)
    BY <1>1, <1>2, <1>6, <2>1
  <2>3. i \in p .. n
    BY <1>1, <1>2, <2>2
  <2> QED
    BY <1>3, <2>1, <2>3
<1>7. From(bs, v, x1, p, hb)
  BY <1>5, <1>6 DEF From
<1> QED
  BY <1>4, <1>5, <1>7

\* A flip of a bitmap in place begins at the first key of the range.
LEMMA FlipInBegins ==
  ASSUME NEW m, NEW bs, NEW v, World(m, bs, {}, v), NEW x1 \in DOMAIN bs, Sharers(bs, x1),
         NEW range \in Ranges, NEW E, NEW op, op = "flip_inplace",
         NEW B, B = RangeOf(range),
         \A k \in Nat : E[k] = Due(op, Val(v, x1, k), B[k]),
         NEW hb, hb = High(range[1])
  PROVE  FlippingAt(m, bs, v, x1, hb, range, E)
<1> DEFINE p == Index(bs, x1, hb)
           last == LastOf(range)
           Q == hb .. last
           P == Rest(bs, x1, p)
<1>1. hb \in Nat /\ last \in Nat /\ hb <= last
  BY RangeKeys
<1>2. Splits(bs, x1, hb, p)
  BY <1>1, IndexSplits
<1> HIDE DEF p
<1>3. /\ From(bs, v, x1, p, hb) /\ Ahead(bs, {}, x1, p) /\ P \subseteq Nat
      /\ \A k \in P : k >= hb
  BY <1>1, <1>2, SplitsFrom
<1>4. \A k \in Nat : B[k] # {} => k \in Q
  BY RangeKeys
<1>5. \A k \in Nat : Val(v, x1, k) # {} /\ k \notin P => k < hb
  BY <1>1, <1>3 DEF From
<1>6. Q \subseteq Nat /\ hb \in Q /\ \A r \in Q : r >= hb
  BY <1>1
<1>7. \A A : Due(op, A, {}) = A
  BY DueIs
<1> HIDE DEF last, Q, P
<1>8. \A k \in Nat : Behind(k, P, Q) <=> k < hb
  BY <1>1, <1>3, <1>6 DEF Behind
<1>9. \A k \in Nat : k < hb => B[k] = {}
  BY <1>1, <1>4, <1>6
<1>10. \A k \in Nat : k < hb => Val(v, x1, k) = E[k]
  BY <1>7, <1>9
<1>11. OnCourse(op, x1, x1, B, v, E, P, Q)
  BY <1>3, <1>4, <1>5, <1>6, <1>8, <1>10 DEF OnCourse
<1>12. Going(m, bs, v, {}, op, x1, x1, p, B, Q, E)
  BY <1>3, <1>11 DEF Going, P
<1>13. hb \in hb .. last + 1
  BY <1>1
<1>14. Flipping(m, bs, v, op, x1, x1, p, hb, range, E)
  BY <1>12, <1>13 DEF Flipping, Q, last
<1> QED
  BY <1>3, <1>14 DEF FlippingAt, From

LEMMA FlipBegins ==
  ASSUME NEW v, On(memory, bitmaps, v, call), Flip
  PROVE  Steps(v)
<1> DEFINE c == call'
           u == bitmaps'
<1>1. PICK x1 \in Live, range \in FlipRanges :
        \/ \E to \in Slots \ Live :
             /\ Idle /\ memory' = memory /\ FlipCall("flip", x1, to, range)
             /\ Made(to, bitmaps[x1].cow)
        \/ Idle /\ FlipCall("flip_inplace", x1, x1, range) /\ UNCHANGED <<memory, bitmaps>>
  BY DEF Flip
<1>2. Idle /\ range \in Ranges
  BY <1>1, SharedAssumption DEF Ranges
<1> DEFINE hb == High(range[1])
           A == Contents(x1)
           S == SymDiff(A, range[1] .. range[2] - 1)
           B == RangeOf(range)
           last == LastOf(range)
           Q == hb .. last
           E == Layers(S)
<1>3. A \in SUBSET Nat /\ \A k \in Nat : Layer(A, k) = Val(v, x1, k)
  BY <1>2, ContentsTerms
<1>4. hb \in Nat /\ last \in Nat /\ hb <= last /\ \A k \in Nat : B[k] # {} => k \in Q
  BY <1>2, RangeKeys
<1> HIDE DEF A
<1>5. ASSUME NEW op \in {"flip", "flip_inplace"}
      PROVE  S \in SUBSET Nat /\ \A k \in Nat : E[k] = Due(op, Val(v, x1, k), B[k])
  <2>0. S = SymDiff(A, range[1] .. range[2] - 1) /\ B = RangeOf(range)
    OBVIOUS
  <2>2. \A k \in Nat : E[k] = Layer(S, k)
    BY DEF Layers
  <2> HIDE DEF S, E, B
  <2>1. \A k \in Nat : S \subseteq Nat /\ Layer(S, k) = Due(op, Layer(A, k), B[k])
    BY <1>2, <1>3, <2>0, FlipLayer, Zenon
  <2>3. S \in SUBSET Nat
    <3>1. 0 \in Nat
      OBVIOUS
    <3> QED
      BY <2>1, <3>1
  <2> QED
    BY <1>3, <2>1, <2>2, <2>3
<1> HIDE DEF c, u, S, B, E
<1>6. CASE \E to \in Slots \ Live : memory' = memory /\ FlipCall("flip", x1, to, range) /\ Made(to, bitmaps[x1].cow)
  <2>1. PICK to \in Slots \ Live : memory' = memory /\ FlipCall("flip", x1, to, range) /\ Made(to, bitmaps[x1].cow)
    BY <1>6
  <2> DEFINE flag == bitmaps[x1].cow
  <2>2. flag \in BOOLEAN /\ Made(to, flag)
    BY <1>2, <2>1, CowIs
  <2> HIDE DEF flag
  <2>3. /\ World(memory, u, {}, v) /\ to \in DOMAIN u /\ Sharers(u, to)
        /\ DOMAIN bitmaps \subseteq DOMAIN u /\ (\A k : Val(v, to, k) = {})
        /\ x1 # to /\ x1 \in DOMAIN u
    BY <1>2, <2>2, MadeIs DEF u
  <2>4. c = FlipStart("flip", x1, to, range, S, hb)
    BY <2>1 DEF FlipCall, FlipStart, c, S, A
  <2> HIDE DEF hb
  <2>5. /\ c.op = "flip" /\ c.stage = "loop" /\ c.x1 = x1 /\ c.x2 = 0 /\ c.to = to /\ c.pos1 = 1
        /\ c.hb = hb /\ c.range = range /\ c.expected = S /\ IsCall(c)
    BY <2>4, FlipCallIs
  <2>6. Q \subseteq Nat /\ hb \in hb .. last + 1
    BY <1>4
  <2> HIDE DEF Q
  <2>7. Going(memory, u, v, {}, "flip", x1, to, 1, B, Q, E)
    <3>1. \A k \in Nat : /\ B[k] # {} => k \in Q
                         /\ E[k] = Due("flip", Val(v, x1, k), B[k])
                         /\ x1 # to => Val(v, to, k) = {}
      BY <1>4, <1>5, <2>3
    <3> QED
      BY <2>3, <2>6, <3>1, BeginGoing
  <2>8. Flipping(memory, u, v, "flip", x1, to, 1, hb, range, E)
    BY <1>2, <2>6, <2>7 DEF Flipping, Q, last, B, hb
  <2>9. Roles(c.op, c.x1, c.x2, c.to) /\ c.op \in LoopOps /\ c.op \notin TwoOps /\ c.op \notin OneOps
    BY <2>3, <2>5 DEF Roles, LoopOps, TwoOps, OneOps, Making, Gapped
  <2>10. Looping(memory, u, v, c)
    BY <2>5, <2>8, <2>9 DEF Looping, Course, E
  <2>11. On(memory, u, v, c)
    <3>1. S \in SUBSET Nat
      BY <1>5
    <3> QED
      BY <2>5, <2>10, <3>1 DEF On
  <2> QED
    BY <2>1, <2>3, <2>11, BegunSteps DEF u, c
<1>7. CASE FlipCall("flip_inplace", x1, x1, range) /\ UNCHANGED <<memory, bitmaps>>
  <2>1. c = FlipStart("flip_inplace", x1, x1, range, S, hb)
    BY <1>7 DEF FlipCall, FlipStart, c, S, A
  <2>2. /\ World(memory, bitmaps, {}, v) /\ Sharers(bitmaps, x1) /\ x1 \in DOMAIN bitmaps
    BY <1>2, IdleIs
  <2>3. \A k \in Nat : E[k] = Due("flip_inplace", Val(v, x1, k), B[k])
    BY <1>5
  <2>4. FlippingAt(memory, bitmaps, v, x1, hb, range, E)
    BY <1>2, <2>2, <2>3, FlipInBegins DEF B
  <2> HIDE DEF hb
  <2>5. /\ c.op = "flip_inplace" /\ c.stage = "loop" /\ c.x1 = x1 /\ c.x2 = 0 /\ c.to = x1
        /\ c.hb = hb /\ c.range = range /\ c.expected = S /\ IsCall(c)
    BY <2>1, FlipCallIs
  <2>6. Roles(c.op, c.x1, c.x2, c.to) /\ c.op \in LoopOps /\ c.op \notin TwoOps /\ c.op \notin OneOps
    BY <2>5 DEF Roles, LoopOps, TwoOps, OneOps, Making, Gapped
  <2>7. Looping(memory, bitmaps, v, c)
    BY <2>4, <2>5, <2>6 DEF Looping, Course, E
  <2>8. On(memory, bitmaps, v, c)
    <3>1. S \in SUBSET Nat
      BY <1>5
    <3> QED
      BY <2>5, <2>7, <3>1 DEF On
  <2> QED
    BY <1>7, <2>8, BegunSteps DEF c
<1> QED
  BY <1>1, <1>6, <1>7

-----------------------------------------------------------------------------
(***************************************************************************)
(* One value added or removed.                                             *)
(***************************************************************************)

\* The values A with x, and what that is under its key.
Adds(A, x, h, l, T, S) ==
  /\ A \in SUBSET Nat /\ x \in Nat /\ h = High(x) /\ l = Low(x)
  /\ T = A \union {x} /\ S = Layer(A, h) \union {l}

LEMMA OneMore ==
  ASSUME NEW A, NEW x, NEW h, NEW l, NEW T, NEW S, Adds(A, x, h, l, T, S)
  PROVE  \A j \in Nat : Layer(T, j) = IF j = h THEN S ELSE Layer(A, j)
<1> SUFFICES ASSUME NEW j \in Nat
             PROVE  Layer(T, j) = IF j = h THEN S ELSE Layer(A, j)
  OBVIOUS
<1>0. /\ A \in SUBSET Nat /\ x \in Nat /\ h = High(x) /\ l = Low(x)
      /\ T = A \union {x} /\ S = Layer(A, h) \union {l}
  BY DEF Adds
<1>1. h \in Nat /\ l \in Lows /\ x = Width * h + l
  BY <1>0, HighIs
<1>2. \A y \in Lows : Width * j + y = x <=> j = h /\ y = l
  <2>1. \A y \in Lows : Width * j + y = x => j = h /\ y = l
    BY <1>1, KeyOnce
  <2> QED
    BY <1>1, <2>1
<1>3. CASE j = h
  <2>1. \A y \in Lows : Width * j + y = x <=> y = l
    BY <1>2, <1>3
  <2> QED
    BY <1>0, <1>1, <1>3, <2>1 DEF Layer
<1>4. CASE j # h
  <2>1. \A y \in Lows : Width * j + y # x
    BY <1>2, <1>4
  <2> QED
    BY <1>0, <1>4, <2>1 DEF Layer
<1> QED
  BY <1>3, <1>4

\* The values A without x, and what that is under its key.
Drops(A, x, h, l, T, S) ==
  /\ A \in SUBSET Nat /\ x \in Nat /\ h = High(x) /\ l = Low(x)
  /\ T = A \ {x} /\ S = Layer(A, h) \ {l}

LEMMA OneLess ==
  ASSUME NEW A, NEW x, NEW h, NEW l, NEW T, NEW S, Drops(A, x, h, l, T, S)
  PROVE  \A j \in Nat : Layer(T, j) = IF j = h THEN S ELSE Layer(A, j)
<1> SUFFICES ASSUME NEW j \in Nat
             PROVE  Layer(T, j) = IF j = h THEN S ELSE Layer(A, j)
  OBVIOUS
<1>0. /\ A \in SUBSET Nat /\ x \in Nat /\ h = High(x) /\ l = Low(x)
      /\ T = A \ {x} /\ S = Layer(A, h) \ {l}
  BY DEF Drops
<1>1. h \in Nat /\ l \in Lows /\ x = Width * h + l
  BY <1>0, HighIs
<1>2. \A y \in Lows : Width * j + y = x <=> j = h /\ y = l
  <2>1. \A y \in Lows : Width * j + y = x => j = h /\ y = l
    BY <1>1, KeyOnce
  <2> QED
    BY <1>1, <2>1
<1>3. CASE j = h
  <2>1. \A y \in Lows : Width * j + y = x <=> y = l
    BY <1>2, <1>3
  <2> QED
    BY <1>0, <1>1, <1>3, <2>1 DEF Layer
<1>4. CASE j # h
  <2>1. \A y \in Lows : Width * j + y # x
    BY <1>2, <1>4
  <2> QED
    BY <1>0, <1>4, <2>1 DEF Layer
<1> QED
  BY <1>3, <1>4

\* A call that is over once it has changed the values of one key.
LEMMA ReachedSteps ==
  ASSUME NEW v, On(memory, bitmaps, v, call), Idle, NEW x1 \in Live, NEW op, op # "free",
         NEW T \in SUBSET Nat, Finish(op, x1, T), NEW k, NEW S,
         \A j \in Nat : Layer(T, j) = IF j = k THEN S ELSE Val(v, x1, j),
         NEW s, Become(s), NEW i, NEW l, Reaches(s, bitmaps, {}, v, x1, k, S, i, l)
  PROVE  Steps(v)
<1>1. PICK n, u : /\ s = Pair(n, u) /\ Leaves(n, u, {}, v, x1, k, S) /\ Alike(bitmaps, u, x1)
  BY DEF Reaches
<1>2. memory' = n /\ bitmaps' = u
  BY <1>1, BecomeIs
<1>3. PICK w : World(n, u, {}, w) /\ Sets(v, w, x1, k, S)
  BY <1>1 DEF Leaves
<1>4. Sharers(bitmaps, x1) /\ x1 \in DOMAIN bitmaps
  BY IdleIs
<1>5. Sharers(u, x1) /\ x1 \in DOMAIN u /\ DOMAIN u = DOMAIN bitmaps
  BY <1>1, <1>4, SharersAlike DEF Alike
<1>6. Elsewhere(bitmaps, u, v, w, {x1})
  BY <1>3, <1>5 DEF Elsewhere, Sets
<1>7. \A j \in Nat : Val(w, x1, j) = Layer(T, j)
  BY <1>3 DEF Sets
<1>8. call' = Ended(Enter(op, x1, 0, x1, T))
  BY DEF Finish, Ended
<1>9. /\ World(memory', bitmaps', {}, w) /\ Sharers(bitmaps', x1) /\ x1 \in DOMAIN bitmaps'
      /\ Elsewhere(bitmaps, bitmaps', v, w, {x1})
  BY <1>2, <1>3, <1>5, <1>6
<1> QED
  BY <1>7, <1>8, <1>9, FinishedSteps

LEMMA WrittenAdd ==
  ASSUME NEW c, NEW l, NEW r, r \in Written(c, {}, LAMBDA A, B : A \union {l}),
         NEW own, own = ExtractCopy(memory, c),
         NEW V, V = ValuesAt(own.memory, own.container)
  PROVE  r \in InPlace(own.memory, own.container, V \union {l})
BY DEF Written

LEMMA WrittenRemove ==
  ASSUME NEW c, NEW l, NEW r, r \in Written(c, {}, LAMBDA A, B : A \ {l}),
         NEW own, own = ExtractCopy(memory, c),
         NEW V, V = ValuesAt(own.memory, own.container)
  PROVE  r \in InPlace(own.memory, own.container, V \ {l})
BY DEF Written

\* The place that a value has or is to have.
LEMMA ValuePlace ==
  ASSUME NEW v, On(memory, bitmaps, v, call), Idle, NEW x1 \in Live, NEW x \in Nat,
         NEW k, k = High(x), NEW i, i = IndexOf(x1, k)
  PROVE  /\ World(memory, bitmaps, {}, v) /\ x1 \in DOMAIN bitmaps /\ k \in Nat /\ Low(x) \in Lows
         /\ Full(v) /\ Whole({}, x1) /\ Count(bitmaps, x1) \in Nat
         /\ i \in 1 .. Count(bitmaps, x1) + 1
         /\ Has(x1, k) => /\ i \in Owned(bitmaps, {}, x1) /\ k = KeyIn(bitmaps, x1, i)
                          /\ i \in 1 .. Count(bitmaps, x1) /\ At(x1, i) = ConIn(bitmaps, x1, i)
         /\ ~Has(x1, k) => /\ Val(v, x1, k) = {}
                           /\ \A j \in 1 .. Count(bitmaps, x1) :
                                IF j < i THEN KeyIn(bitmaps, x1, j) < k ELSE k < KeyIn(bitmaps, x1, j)
<1>1. World(memory, bitmaps, {}, v) /\ x1 \in DOMAIN bitmaps
  BY IdleIs
<1>2. k \in Nat /\ Low(x) \in Lows
  BY HighIs
<1>3. /\ i = Index(bitmaps, x1, k) /\ At(x1, i) = ConIn(bitmaps, x1, i)
      /\ Has(x1, k) <=> \E j \in 1 .. Count(bitmaps, x1) : KeyIn(bitmaps, x1, j) = k
  BY PlaceTerms
<1>4. Splits(bitmaps, x1, k, i)
  BY <1>1, <1>2, <1>3, IndexSplits
<1>5. /\ Has(x1, k) <=> Found(bitmaps, x1, k, i)
      /\ Found(bitmaps, x1, k, i) <=> Val(v, x1, k) # {}
      /\ ~Found(bitmaps, x1, k, i) => \A j \in 1 .. Count(bitmaps, x1) :
              IF j < i THEN KeyIn(bitmaps, x1, j) < k ELSE k < KeyIn(bitmaps, x1, j)
  BY <1>1, <1>2, <1>3, <1>4, FoundIs
<1>6. /\ Count(bitmaps, x1) \in Nat
      /\ \A j \in 1 .. Count(bitmaps, x1) : j \in Owned(bitmaps, {}, x1)
  BY <1>1, AllOwned
<1>7. i \in 1 .. Count(bitmaps, x1) + 1
  BY <1>4 DEF Splits
<1>8. Full(v) /\ Whole({}, x1)
  BY <1>1 DEF World, Whole
<1>9. Has(x1, k) => i \in 1 .. Count(bitmaps, x1) /\ k = KeyIn(bitmaps, x1, i)
  BY <1>5, <1>6, <1>7 DEF Found
<1> QED
  BY <1>1, <1>2, <1>3, <1>5, <1>6, <1>7, <1>8, <1>9

LEMMA AddSteps ==
  ASSUME NEW v, On(memory, bitmaps, v, call), AddValue, "plain" \in Kinds
  PROVE  Steps(v)
<1>1. PICK x1 \in Live, x \in Elements :
        /\ Idle /\ Finish("add", x1, Contents(x1) \union {x})
        /\ IF Has(x1, High(x))
           THEN \E r \in Written(At(x1, IndexOf(x1, High(x))), {}, LAMBDA A, B : A \union {Low(x)}) :
                  Become(SetAt(WithMemory(State, r.memory), x1, IndexOf(x1, High(x)), r.container))
           ELSE LET new == Allocate(memory, High(x), "plain", {Low(x)})
                IN  Become(Change(WithMemory(State, new.memory), x1,
                                  InsertAt(Entries(x1), IndexOf(x1, High(x)),
                                           Entry(High(x), new.container))))
  BY DEF AddValue
<1> DEFINE k == High(x)
           i == IndexOf(x1, k)
           l == Low(x)
           T == Contents(x1) \union {x}
           V == Val(v, x1, k)
           S == V \union {l}
<1>2. x \in Nat
  BY SharedAssumption
<1>3. /\ World(memory, bitmaps, {}, v) /\ x1 \in DOMAIN bitmaps /\ k \in Nat /\ l \in Lows
      /\ Full(v) /\ Whole({}, x1) /\ Count(bitmaps, x1) \in Nat
      /\ i \in 1 .. Count(bitmaps, x1) + 1
      /\ Has(x1, k) => /\ i \in Owned(bitmaps, {}, x1) /\ k = KeyIn(bitmaps, x1, i)
                       /\ i \in 1 .. Count(bitmaps, x1) /\ At(x1, i) = ConIn(bitmaps, x1, i)
      /\ ~Has(x1, k) => /\ V = {}
                        /\ \A j \in 1 .. Count(bitmaps, x1) :
                             IF j < i THEN KeyIn(bitmaps, x1, j) < k ELSE k < KeyIn(bitmaps, x1, j)
  BY <1>1, <1>2, ValuePlace
<1>4. Contents(x1) \in SUBSET Nat /\ \A j \in Nat : Layer(Contents(x1), j) = Val(v, x1, j)
  BY <1>1, ContentsTerms
<1>5. T \in SUBSET Nat /\ \A j \in Nat : Layer(T, j) = IF j = k THEN S ELSE Val(v, x1, j)
  <2> DEFINE A == Contents(x1)
  <2> HIDE DEF A
  <2>1. /\ A \in SUBSET Nat /\ k = High(x) /\ l = Low(x) /\ x \in Nat /\ T = A \union {x}
        /\ k \in Nat /\ \A j \in Nat : Layer(A, j) = Val(v, x1, j)
    BY <1>2, <1>3, <1>4 DEF A
  <2>2. S = Layer(A, k) \union {l}
    BY <2>1
  <2> HIDE DEF k, l, T, S
  <2>3. \A j \in Nat : Layer(T, j) = IF j = k THEN S ELSE Layer(A, j)
    <3>1. Adds(A, x, k, l, T, S)
      BY <2>1, <2>2 DEF Adds
    <3> QED
      BY <3>1, OneMore
  <2>4. \A j \in Nat : Layer(T, j) = IF j = k THEN S ELSE Val(v, x1, j)
    BY <2>1, <2>3
  <2>5. T \in SUBSET Nat
    BY <2>1
  <2> QED
    BY <2>4, <2>5
<1>6. S \in SUBSET Lows /\ S # {} /\ (V = {} => S = {l})
  <2>1. V \subseteq Lows
    BY <1>3, ValKeys
  <2> QED
    BY <1>3, <2>1
<1>7. Finish("add", x1, T) /\ Idle
  BY <1>1
<1>8. CASE Has(x1, k)
  <2>1. PICK r : /\ r \in Written(At(x1, i), {}, LAMBDA A, B : A \union {l})
                 /\ Become(SetAt(WithMemory(State, r.memory), x1, i, r.container))
    BY <1>1, <1>8
  <2> DEFINE c == ConIn(bitmaps, x1, i)
             own == ExtractCopy(memory, c)
             W == ValuesAt(own.memory, own.container)
             s == SetAt(WithMemory(State, r.memory), x1, i, r.container)
  <2>2. At(x1, i) = c /\ i \in Owned(bitmaps, {}, x1) /\ k = KeyIn(bitmaps, x1, i)
    BY <1>3, <1>8
  <2>3. r \in InPlace(own.memory, own.container, W \union {l})
    <3>1. r \in Written(c, {}, LAMBDA A, B : A \union {l})
      BY <2>1, <2>2
    <3> HIDE DEF c, l
    <3> QED
      BY ONLY <3>1, WrittenAdd
  <2>4. W = V
    BY <1>3, <2>2, WrittenPlace
  <2>5. r \in InPlace(own.memory, own.container, S)
    BY <2>3, <2>4
  <2>6. s = SetAt(Pair(r.memory, bitmaps), x1, i, r.container)
    BY Terms, WithMemoryIs
  <2> HIDE DEF k, i, l, c, S, V, T, s
  <2>7. Pending(r.memory, r.container, bitmaps, {}, v, x1, k, S)
    <3>1. /\ World(memory, bitmaps, {}, v) /\ x1 \in DOMAIN bitmaps /\ i \in Owned(bitmaps, {}, x1)
          /\ k = KeyIn(bitmaps, x1, i) /\ c = ConIn(bitmaps, x1, i) /\ own = ExtractCopy(memory, c)
          /\ S \in SUBSET Lows /\ r \in InPlace(own.memory, own.container, S)
      BY <1>3, <1>6, <2>2, <2>5 DEF c
    <3> HIDE DEF own
    <3> QED
      BY ONLY <3>1, PlacePending
  <2>8. Reaches(s, bitmaps, {}, v, x1, k, S, 1, 1)
    <3>1. Pending(r.memory, r.container, bitmaps, {}, v, x1, KeyIn(bitmaps, x1, i), S)
      BY <2>2, <2>7
    <3>2. Reaches(SetAt(Pair(r.memory, bitmaps), x1, i, r.container), bitmaps, {}, v, x1, KeyIn(bitmaps, x1, i), S, 1, 1)
      BY <1>3, <1>6, <2>2, <3>1, PendingSet
    <3> QED
      BY <2>2, <2>6, <3>2
  <2>9. Become(s)
    BY <2>1 DEF s
  <2> QED
    BY <1>5, <1>7, <2>8, <2>9, ReachedSteps
<1>9. CASE ~Has(x1, k)
  <2> DEFINE new == Allocate(memory, k, "plain", S)
             s == Change(Pair(new.memory, bitmaps), x1,
                         InsertAt(EntriesIn(bitmaps, x1), i, Entry(k, new.container)))
  <2>1. S = {l}
    BY <1>3, <1>6, <1>9
  <2>2. Become(s)
    <3>1. State = Pair(memory, bitmaps) /\ Entries(x1) = EntriesIn(bitmaps, x1)
      BY Terms
    <3>2. WithMemory(State, Allocate(memory, k, "plain", {l}).memory) = Pair(Allocate(memory, k, "plain", {l}).memory, bitmaps)
      BY <3>1, WithMemoryIs
    <3> QED
      BY <1>1, <1>9, <2>1, <3>1, <3>2
  <2>3. Reaches(s, bitmaps, {}, v, x1, k, S, i, i + 1)
    <3>1. /\ World(memory, bitmaps, {}, v) /\ x1 \in DOMAIN bitmaps /\ Whole({}, x1)
          /\ k \in Nat /\ i \in 1 .. Count(bitmaps, x1) + 1 /\ "plain" \in Kinds
          /\ S \in SUBSET Lows /\ S # {}
          /\ \A j \in 1 .. Count(bitmaps, x1) : IF j < i THEN KeyIn(bitmaps, x1, j) < k ELSE k < KeyIn(bitmaps, x1, j)
      BY <1>3, <1>6, <1>9
    <3> HIDE DEF k, i, S
    <3> QED
      BY <3>1, AllocateInsert
  <2> HIDE DEF k, S, s, T, V
  <2> QED
    BY <1>5, <1>7, <2>2, <2>3, ReachedSteps
<1> QED
  BY <1>8, <1>9

LEMMA RemoveSteps ==
  ASSUME NEW v, On(memory, bitmaps, v, call), RemoveValue
  PROVE  Steps(v)
<1>1. PICK x1 \in Live, x \in Elements :
        /\ Idle /\ Finish("remove", x1, Contents(x1) \ {x})
        /\ IF ~Has(x1, High(x)) THEN UNCHANGED <<memory, bitmaps>>
           ELSE \E r \in Written(At(x1, IndexOf(x1, High(x))), {}, LAMBDA A, B : A \ {Low(x)}) :
                  Become(IF ValuesOf(r) = {}
                         THEN Change(WithMemory(State, ContainerFree(r.memory, r.container)),
                                     x1, RemoveAt(Entries(x1), IndexOf(x1, High(x))))
                         ELSE SetAt(WithMemory(State, r.memory), x1, IndexOf(x1, High(x)), r.container))
  BY DEF RemoveValue
<1> DEFINE k == High(x)
           i == IndexOf(x1, k)
           l == Low(x)
           T == Contents(x1) \ {x}
           V == Val(v, x1, k)
           S == V \ {l}
<1>2. x \in Nat
  BY SharedAssumption
<1>3. /\ World(memory, bitmaps, {}, v) /\ x1 \in DOMAIN bitmaps /\ k \in Nat /\ l \in Lows
      /\ Full(v) /\ Whole({}, x1) /\ Count(bitmaps, x1) \in Nat
      /\ Has(x1, k) => /\ i \in Owned(bitmaps, {}, x1) /\ k = KeyIn(bitmaps, x1, i)
                       /\ i \in 1 .. Count(bitmaps, x1) /\ At(x1, i) = ConIn(bitmaps, x1, i)
      /\ ~Has(x1, k) => V = {}
  BY <1>1, <1>2, ValuePlace, ZenonT(30)
<1>4. Contents(x1) \in SUBSET Nat /\ \A j \in Nat : Layer(Contents(x1), j) = Val(v, x1, j)
  BY <1>1, ContentsTerms
<1>5. T \in SUBSET Nat /\ \A j \in Nat : Layer(T, j) = IF j = k THEN S ELSE Val(v, x1, j)
  <2> DEFINE A == Contents(x1)
  <2> HIDE DEF A
  <2>1. /\ A \in SUBSET Nat /\ k = High(x) /\ l = Low(x) /\ x \in Nat /\ T = A \ {x}
        /\ k \in Nat /\ \A j \in Nat : Layer(A, j) = Val(v, x1, j)
    BY <1>2, <1>3, <1>4 DEF A
  <2>2. S = Layer(A, k) \ {l}
    BY <2>1
  <2> HIDE DEF k, l, T, S
  <2>3. \A j \in Nat : Layer(T, j) = IF j = k THEN S ELSE Layer(A, j)
    <3>1. Drops(A, x, k, l, T, S)
      BY <2>1, <2>2 DEF Drops
    <3> QED
      BY <3>1, OneLess
  <2>4. \A j \in Nat : Layer(T, j) = IF j = k THEN S ELSE Val(v, x1, j)
    BY <2>1, <2>3
  <2>5. T \in SUBSET Nat
    BY <2>1
  <2> QED
    BY <2>4, <2>5
<1>6. S \in SUBSET Lows
  <2>1. V \subseteq Lows
    BY <1>3, ValKeys
  <2> QED
    BY <2>1
<1>7. Finish("remove", x1, T) /\ Idle
  BY <1>1
<1>8. CASE Has(x1, k)
  <2>1. PICK r : /\ r \in Written(At(x1, i), {}, LAMBDA A, B : A \ {l})
                 /\ Become(IF ValuesOf(r) = {}
                         THEN Change(WithMemory(State, ContainerFree(r.memory, r.container)),
                                     x1, RemoveAt(Entries(x1), i))
                         ELSE SetAt(WithMemory(State, r.memory), x1, i, r.container))
    BY <1>1, <1>8
  <2> DEFINE c == ConIn(bitmaps, x1, i)
             own == ExtractCopy(memory, c)
             W == ValuesAt(own.memory, own.container)
             s == SetAt(Pair(r.memory, bitmaps), x1, i, r.container)
             t == Change(Pair(ContainerFree(r.memory, r.container), bitmaps), x1, RemoveAt(EntriesIn(bitmaps, x1), i))
  <2>2. /\ At(x1, i) = c /\ i \in Owned(bitmaps, {}, x1) /\ k = KeyIn(bitmaps, x1, i)
        /\ i \in 1 .. Count(bitmaps, x1)
    BY <1>3, <1>8
  <2>3. r \in InPlace(own.memory, own.container, W \ {l})
    <3>1. r \in Written(c, {}, LAMBDA A, B : A \ {l})
      BY <2>1, <2>2
    <3> HIDE DEF c, l
    <3> QED
      BY ONLY <3>1, WrittenRemove
  <2>4. W = V
    BY <1>3, <2>2, WrittenPlace
  <2>5. r \in InPlace(own.memory, own.container, S)
    BY <2>3, <2>4
  <2>6. /\ SetAt(WithMemory(State, r.memory), x1, i, r.container) = s
        /\ Change(WithMemory(State, ContainerFree(r.memory, r.container)), x1, RemoveAt(Entries(x1), i)) = t
    BY Terms, WithMemoryIs
  <2>10. IF ValuesOf(r) = {} THEN Become(t) ELSE Become(s)
    BY <2>1, <2>6
  <2> HIDE DEF k, i, l, c, S, V, T, s, t
  <2>7. Pending(r.memory, r.container, bitmaps, {}, v, x1, k, S) /\ ValuesOf(r) = S
    <3>1. /\ World(memory, bitmaps, {}, v) /\ x1 \in DOMAIN bitmaps /\ i \in Owned(bitmaps, {}, x1)
          /\ k = KeyIn(bitmaps, x1, i) /\ c = ConIn(bitmaps, x1, i) /\ own = ExtractCopy(memory, c)
          /\ S \in SUBSET Lows /\ r \in InPlace(own.memory, own.container, S)
      BY <1>3, <1>6, <2>2, <2>5 DEF c
    <3> HIDE DEF own
    <3> QED
      BY ONLY <3>1, PlacePending
  <2>8. Pending(r.memory, r.container, bitmaps, {}, v, x1, KeyIn(bitmaps, x1, i), S)
    BY <2>2, <2>7
  <2>9. CASE S = {}
    <3>1. Reaches(t, bitmaps, {}, v, x1, KeyIn(bitmaps, x1, i), {}, i + 1, i)
      BY <1>3, <2>2, <2>8, PendingRemove DEF t
    <3>2. Reaches(t, bitmaps, {}, v, x1, k, S, i + 1, i)
      BY <2>2, <2>9, <3>1
    <3>3. Become(t)
      BY <2>7, <2>9, <2>10
    <3> QED
      BY <1>5, <1>7, <3>2, <3>3, ReachedSteps
  <2>11. CASE S # {}
    <3>1. Reaches(s, bitmaps, {}, v, x1, KeyIn(bitmaps, x1, i), S, 1, 1)
      BY <1>3, <2>2, <2>8, <2>11, PendingSet DEF s
    <3>2. Reaches(s, bitmaps, {}, v, x1, k, S, 1, 1)
      BY <2>2, <3>1
    <3>3. Become(s)
      BY <2>7, <2>10, <2>11
    <3> QED
      BY <1>5, <1>7, <3>2, <3>3, ReachedSteps
  <2> QED
    BY <2>9, <2>11
<1>9. CASE ~Has(x1, k)
  <2>1. memory' = memory /\ bitmaps' = bitmaps /\ V = {}
    BY <1>1, <1>3, <1>9
  <2>2. Reaches(Pair(memory, bitmaps), bitmaps, {}, v, x1, k, {}, 1, 1)
    BY <1>3, <2>1, StaysReaches
  <2>3. S = {}
    BY <2>1
  <2>4. Become(Pair(memory, bitmaps))
    BY <2>1, ToBecome
  <2> HIDE DEF k, S, T, V
  <2> QED
    BY <1>5, <1>7, <2>2, <2>3, <2>4, ReachedSteps
<1> QED
  BY <1>8, <1>9

-----------------------------------------------------------------------------
(***************************************************************************)
(* Every step.                                                             *)
(***************************************************************************)
LEMMA ReturnSteps ==
  ASSUME NEW v, On(memory, bitmaps, v, call), Return, Flags = {TRUE}
  PROVE  Steps(v)
<1>1. call.stage = "done"
  BY DEF Return
<1>2. World(memory, bitmaps, {}, v)
  BY <1>1 DEF On, Finished
<1>3. /\ World(memory', bitmaps', {}, v) /\ DOMAIN bitmaps' = DOMAIN bitmaps /\ call' = NoCall
      /\ \A b \in DOMAIN bitmaps' : bitmaps'[b].cow = TRUE
  BY <1>2, ReturnWorld
<1>4. IsCall(NoCall) /\ NoCall.expected = {} /\ NoCall.stage = "idle"
  BY DEF IsCall, Turned, NoCall
<1>5. Resting(memory', bitmaps', v)
  BY <1>3 DEF Resting, Sharer
<1>6. On(memory', bitmaps', v, call')
  BY <1>3, <1>4, <1>5 DEF On
<1> QED
  BY <1>3, <1>6, BegunSteps

LEMMA StutterSteps ==
  ASSUME NEW v, On(memory, bitmaps, v, call), UNCHANGED vars
  PROVE  Steps(v)
<1>1. memory' = memory /\ bitmaps' = bitmaps /\ call' = call
  BY DEF vars
<1>2. On(memory', bitmaps', v, call')
  BY <1>1
<1> QED
  BY <1>1, <1>2, BegunSteps

LEMMA NextSteps ==
  ASSUME NEW v, On(memory, bitmaps, v, call), [Next]_vars,
         Flags = {TRUE}, "plain" \in Kinds, "run" \notin Kinds
  PROVE  Steps(v)
<1>1. ASSUME Turn  PROVE Steps(v)
  <2>1. CASE AndTurn  BY <2>1, AndSteps
  <2>2. CASE OrTurn \/ XorTurn  BY <2>2, OrXorSteps
  <2>3. CASE AndNotTurn  BY <2>3, AndNotSteps
  <2>4. CASE CopyTurn  BY <2>4, CopySteps
  <2>5. CASE ConsumeTurn  BY <2>5, ConsumeSteps
  <2>6. CASE AndInplaceTurn  BY <2>6, AndInplaceSteps
  <2>7. CASE OrInplaceTurn  BY <2>7, OrInplaceSteps
  <2>8. CASE XorInplaceTurn  BY <2>8, XorInplaceSteps
  <2>9. CASE AndNotInplaceTurn  BY <2>9, AndNotInplaceSteps
  <2>10. CASE ConvertTurn  BY <2>10, ConvertSteps
  <2>11. CASE RemoveRunCompressionTurn  BY <2>11, RemoveRunCompressionSteps
  <2>12. CASE FlipTurn  BY <2>12, FlipSteps
  <2>13. CASE FlipInplaceTurn  BY <2>13, FlipInplaceSteps
  <2>14. CASE FreeTurn  BY <2>14, FreeSteps
  <2> QED
    BY <1>1, <2>1, <2>2, <2>3, <2>4, <2>5, <2>6, <2>7, <2>8, <2>9, <2>10, <2>11, <2>12,
       <2>13,
       <2>14 DEF Turn
<1>2. CASE Combine  BY <1>2, CombineSteps
<1>3. CASE CombineInplace  BY <1>3, CombineInplaceSteps
<1>4. CASE Consume  BY <1>4, ConsumeBegins
<1>5. CASE Copy  BY <1>5, CopyBegins
<1>6. CASE Rewrite  BY <1>6, RewriteBegins
<1>7. CASE Flip  BY <1>7, FlipBegins
<1>8. CASE Create  BY <1>8, CreateSteps
<1>9. CASE AddValue  BY <1>9, AddSteps
<1>10. CASE RemoveValue  BY <1>10, RemoveSteps
<1>11. CASE FreeBitmap  BY <1>11, FreeBegins
<1>12. CASE Return  BY <1>12, ReturnSteps
<1>13. CASE UNCHANGED vars  BY <1>13, StutterSteps
<1> QED
  BY <1>1, <1>2, <1>3, <1>4, <1>5, <1>6, <1>7, <1>8, <1>9, <1>10, <1>11, <1>12,
     <1>13 DEF Next

\* The inductive invariant: there are values of which memory and bitmaps are a sound account.
SharingInv == \E v : On(memory, bitmaps, v, call)

LEMMA SharingStarts ==
  ASSUME Init
  PROVE  SharingInv
<1> DEFINE e == <<>>
           v == Parts(e, e)
<1>1. memory = Mem(e) /\ bitmaps = e /\ call = NoCall
  BY DEF Init, NoMemory, Mem
<1>2. DOMAIN e = {} /\ IsFiniteSet({}) /\ e \in [DOMAIN e -> Objects \union Wrappers]
      /\ e \in [DOMAIN e -> Pointers] /\ e \in [DOMAIN e -> BitmapRecords]
  BY FS_EmptySet
<1>3. DOMAIN v = {}
  BY <1>2 DEF Parts
<1> HIDE DEF e
<1>4. Sound(e, e)
  BY <1>2 DEF Sound, Typed
<1>5. Good(memory, e, v)
  BY <1>1, <1>4 DEF Good
<1> HIDE DEF v
<1>6. Rep(bitmaps, {}, e)
  BY <1>1, <1>2 DEF Rep
<1>7. World(memory, bitmaps, {}, v)
  BY <1>3, <1>5, <1>6 DEF World, Full
<1>8. Resting(memory, bitmaps, v)
  BY <1>1, <1>2, <1>7 DEF Resting
<1>9. IsCall(NoCall) /\ NoCall.expected = {} /\ NoCall.stage = "idle"
  BY DEF IsCall, Turned, NoCall
<1>10. On(memory, bitmaps, v, call)
  BY <1>1, <1>8, <1>9 DEF On
<1> QED
  BY <1>10 DEF SharingInv

\* Places are given up in the bitmaps that the call is about, in no other.
LEMMA OnWorld ==
  ASSUME NEW m, NEW bs, NEW v, NEW c, On(m, bs, v, c)
  PROVE  \E X : World(m, bs, X, v) /\ \A b : b \notin Touched(c) => Whole(X, b)
<1>0. \A b : Whole({}, b)
  BY DEF Whole
<1>1. CASE c.stage = "idle"
  BY <1>0, <1>1 DEF On, Resting
<1>2. CASE c.stage = "done"
  BY <1>0, <1>2 DEF On, Finished
<1>3. CASE c.stage = "loop"
  <2> DEFINE H == Hole(c.op, c.x1, c.x2, c.pos1, c.pos2, c.size)
             F == Gap(c.x1, 1, c.pos1 - 1)
  <2>1. /\ c.op \in LoopOps /\ Roles(c.op, c.x1, c.x2, c.to)
        /\ Course(m, bs, v, c.op, c.x1, c.x2, c.to, c.pos1, c.pos2, c.size, c.hb, c.range,
                  Layers(c.expected))
    BY <1>3 DEF On, Looping
  <2>2. ASSUME c.op \in TwoOps
        PROVE  World(m, bs, H, v) /\ \A b : b \notin Touched(c) => Whole(H, b)
    <3>1. World(m, bs, H, v)
      BY <2>1, <2>2 DEF Course, Course2, Going2, Going
    <3>2. c.op \in Gapped => c.x1 = c.to
      BY <2>1 DEF Roles, LoopOps, TwoOps, Gapped, Making
    <3>3. c.to \in Touched(c) /\ (c.op = "consume" => c.x1 \in Touched(c) /\ c.x2 \in Touched(c))
      BY DEF Touched
    <3>4. ASSUME NEW b, b \notin Touched(c), NEW i, <<b, i>> \in H  PROVE FALSE
      BY <3>2, <3>3, <3>4, InGap DEF Hole
    <3> QED
      BY <3>1, <3>4 DEF Whole
  <2>3. ASSUME c.op \in OneOps \union {"flip", "flip_inplace"}
        PROVE  World(m, bs, {}, v)
    BY <2>1, <2>3 DEF Course, Course1, Flipping, FlippingAt, Going
  <2>4. ASSUME c.op = "free"
        PROVE  World(m, bs, F, v) /\ \A b : b \notin Touched(c) => Whole(F, b)
    <3>1. World(m, bs, F, v)
      BY <2>1, <2>4 DEF Course, Freeing
    <3>2. c.to = c.x1
      BY <2>1, <2>4 DEF Roles, LoopOps, Making
    <3>3. c.to \in Touched(c)
      BY DEF Touched
    <3>4. ASSUME NEW b, b \notin Touched(c), NEW i, <<b, i>> \in F  PROVE FALSE
      BY <3>2, <3>3, <3>4, InGap
    <3> QED
      BY <3>1, <3>4 DEF Whole
  <2> HIDE DEF H, F
  <2> QED
    BY <1>0, <2>1, <2>2, <2>3, <2>4 DEF LoopOps
<1> QED
  BY <1>1, <1>2, <1>3 DEF On

LEMMA NotMisused ==
  ASSUME SharingInv
  PROVE  NoMisuse
<1>1. PICK v : On(memory, bitmaps, v, call)
  BY DEF SharingInv
<1>2. PICK X : World(memory, bitmaps, X, v)
  BY <1>1, OnWorld
<1> QED
  BY <1>2 DEF World, Good, Mem, NoMisuse

LEMMA SharingStays ==
  ASSUME SharingInv, [Next]_vars, Flags = {TRUE}, "plain" \in Kinds, "run" \notin Kinds
  PROVE  SharingInv'
BY NextSteps DEF SharingInv, Steps

\* The invariant holds in every state of a program that leaves copy-on-write on.
THEOREM SharingHolds ==
  ASSUME Flags = {TRUE}, "plain" \in Kinds, "run" \notin Kinds
  PROVE  Spec => []SharingInv
<1>1. Init => SharingInv
  BY SharingStarts
<1>2. SharingInv /\ [Next]_vars => SharingInv'
  BY SharingStays
<1> QED
  BY <1>1, <1>2, PTL DEF Spec

\* No call reads, writes or frees a container that container_free or
\* shared_container_free has released, and none takes a container for another type than
\* it is, however bitmaps were copied, written and freed before.  The hypotheses: every
\* bitmap has its copy_on_write flag set, and no container is one of runs; with them
\* roaring_bitmap_remove_run_compression frees the runs inside a wrapper too early.
THEOREM NoMisuseHolds ==
  ASSUME Flags = {TRUE}, "plain" \in Kinds, "run" \notin Kinds
  PROVE  Spec => []NoMisuse
<1>1. SharingInv => NoMisuse
  BY NotMisused
<1> QED
  BY <1>1, SharingHolds, PTL

\* What a bitmap contains that the call is not about is what the invariant says it has.
LEMMA UntouchedHas ==
  ASSUME NEW m, NEW bs, NEW v, NEW c, On(m, bs, v, c),
         NEW b \in DOMAIN bs, b \notin Touched(c)
  PROVE  /\ ContentsIn(m, bs, b) \in SUBSET Nat
         /\ \A k \in Nat : Layer(ContentsIn(m, bs, b), k) = Val(v, b, k)
<1>1. PICK X : World(m, bs, X, v) /\ Whole(X, b)
  BY OnWorld
<1> QED
  BY <1>1, ContentsAre, ContentsLayer

LEMMA OtherContents ==
  ASSUME NEW b
  PROVE  /\ Contents(b) = ContentsIn(memory, bitmaps, b)
         /\ Contents(b)' = ContentsIn(memory', bitmaps', b)
<1>1. Contents(b) = ContentsIn(memory, bitmaps, b)
  BY DEF Contents, ContentsIn, KeyAt, At, Size, Entries, KeyIn, ConIn, Count
<1>2. Contents(b)' = ContentsIn(memory', bitmaps', b)
  BY DEF Contents, ContentsIn, KeyAt, At, Size, Entries, KeyIn, ConIn, Count
<1> QED
  BY <1>1, <1>2

LEMMA OthersStay ==
  ASSUME NEW v, On(memory, bitmaps, v, call), Steps(v),
         NEW b \in Live \ (Touched(call) \union Touched(call'))
  PROVE  b \in Live' /\ Contents(b)' = Contents(b)
<1>1. PICK w : /\ On(memory', bitmaps', w, call')
               /\ Elsewhere(bitmaps, bitmaps', v, w, Touched(call) \union Touched(call'))
  BY DEF Steps
<1>2. b \in DOMAIN bitmaps /\ b \notin Touched(call) /\ b \notin Touched(call')
  BY DEF Live
<1>3. b \in DOMAIN bitmaps' /\ \A k : Val(w, b, k) = Val(v, b, k)
  BY <1>1, <1>2 DEF Elsewhere
<1> DEFINE A == ContentsIn(memory, bitmaps, b)
           B == ContentsIn(memory', bitmaps', b)
<1>4. A \in SUBSET Nat /\ \A k \in Nat : Layer(A, k) = Val(v, b, k)
  BY <1>2, UntouchedHas
<1>5. B \in SUBSET Nat /\ \A k \in Nat : Layer(B, k) = Val(w, b, k)
  BY <1>1, <1>2, <1>3, UntouchedHas
<1> HIDE DEF A, B
<1>6. B = A
  BY <1>3, <1>4, <1>5, SameLayers
<1> QED
  BY <1>3, <1>6, OtherContents DEF Live, A, B

\* A step of a call changes the contents of no bitmap that the call is not about: what
\* ra_get_writable_copy_if_shared and the operations in place write to is never seen
\* through a copy, whichever containers are shared.
THEOREM OthersUntouchedHolds ==
  ASSUME Flags = {TRUE}, "plain" \in Kinds, "run" \notin Kinds
  PROVE  Spec => OthersUntouched
<1> DEFINE Same == \A b \in Live \ (Touched(call) \union Touched(call')) :
                     b \in Live' /\ Contents(b)' = Contents(b)
<1>1. SharingInv /\ [Next]_vars => [Same]_vars
  <2> SUFFICES ASSUME SharingInv, [Next]_vars  PROVE Same
    OBVIOUS
  <2>1. PICK v : On(memory, bitmaps, v, call)
    BY DEF SharingInv
  <2>2. Steps(v)
    BY <2>1, NextSteps
  <2> QED
    BY <2>1, <2>2, OthersStay
<1> QED
  BY <1>1, SharingHolds, PTL DEF Spec, OthersUntouched

-----------------------------------------------------------------------------

LEMMA AnswerIs ==
  ASSUME SharingInv
  PROVE  AnswerExact
<1> SUFFICES ASSUME call.stage = "done", call.op # "free"
             PROVE  /\ Contents(call.to) = call.expected
                    /\ \A i \in 1 .. Size(call.to) : ValuesAt(memory, At(call.to, i)) # {}
                    /\ \A i \in 2 .. Size(call.to) : KeyAt(call.to, i - 1) < KeyAt(call.to, i)
  BY DEF AnswerExact
<1>1. PICK v : On(memory, bitmaps, v, call)
  BY DEF SharingInv
<1> DEFINE b == call.to
<1>2. /\ World(memory, bitmaps, {}, v) /\ b \in DOMAIN bitmaps
      /\ \A k \in Nat : Val(v, b, k) = Layer(call.expected, k)
      /\ call.expected \in SUBSET Nat
  BY <1>1 DEF On, Finished
<1>3. Whole({}, b)
  BY DEF Whole
<1> HIDE DEF b
<1> DEFINE A == ContentsIn(memory, bitmaps, b)
<1>4. A \in SUBSET Nat /\ \A k \in Nat : Layer(A, k) = Val(v, b, k)
  BY <1>2, <1>3, ContentsAre, ContentsLayer
<1> HIDE DEF A
<1>5. A = call.expected
  BY <1>2, <1>4, SameLayers
<1>6. /\ Count(bitmaps, b) \in Nat
      /\ \A i \in 1 .. Count(bitmaps, b) :
           i \in Owned(bitmaps, {}, b) /\ Val(v, b, KeyIn(bitmaps, b, i)) # {}
      /\ \A i \in 1 .. Count(bitmaps, b) : \A j \in 1 .. Count(bitmaps, b) :
           i < j => KeyIn(bitmaps, b, i) < KeyIn(bitmaps, b, j)
  BY <1>2, AllOwned
<1>7. \A i \in 1 .. Count(bitmaps, b) : ValuesAt(memory, ConIn(bitmaps, b, i)) # {}
  BY <1>2, <1>6, ReadPlace
<1>8. \A i \in 2 .. Count(bitmaps, b) : KeyIn(bitmaps, b, i - 1) < KeyIn(bitmaps, b, i)
  BY <1>6
<1>9. /\ Size(b) = Count(bitmaps, b)
      /\ \A i : KeyAt(b, i) = KeyIn(bitmaps, b, i) /\ At(b, i) = ConIn(bitmaps, b, i)
  BY Terms
<1>10. Contents(b) = A
  BY OtherContents DEF A
<1> QED
  BY <1>5, <1>7, <1>8, <1>9, <1>10 DEF b

\* What a call leaves in its target is what the operation promises of its arguments as
\* they were at its beginning, under increasing keys and with no empty container,
\* though the loops hand over, share and free containers on their way.
THEOREM AnswerExactHolds ==
  ASSUME Flags = {TRUE}, "plain" \in Kinds, "run" \notin Kinds
  PROVE  Spec => []AnswerExact
<1>1. SharingInv => AnswerExact
  BY AnswerIs
<1> QED
  BY <1>1, SharingHolds, PTL

-----------------------------------------------------------------------------
(***************************************************************************)
(* The counters.                                                           *)
(***************************************************************************)

\* The places of all bitmaps, those that lead to an object, and the wrappers that do.
PairsIn(bs) == UNION {{<<b, i>> : i \in 1 .. Count(bs, b)} : b \in DOMAIN bs}
PairsAt(bs, a) == {p \in PairsIn(bs) : ConIn(bs, p[1], p[2]).at = a}
WrappersAt(o, a) == {x \in DOMAIN o : o[x].kind = "shared" /\ o[x].inner.at = a}

LEMMA InPairs ==
  ASSUME NEW bs, NEW p
  PROVE  p \in PairsIn(bs) <=> \E b \in DOMAIN bs : \E i \in 1 .. Count(bs, b) : p = <<b, i>>
BY DEF PairsIn

\* A place is a holder.
LEMMA PlaceHolds ==
  ASSUME NEW bs, NEW h, Rep(bs, {}, h), NEW b \in DOMAIN bs
  PROVE  /\ \A i \in 1 .. Count(bs, b) : /\ <<b, KeyIn(bs, b, i)>> \in DOMAIN h
                                         /\ h[<<b, KeyIn(bs, b, i)>>] = ConIn(bs, b, i)
         /\ \A i, j \in 1 .. Count(bs, b) : KeyIn(bs, b, i) = KeyIn(bs, b, j) => i = j
         /\ \A p \in DOMAIN h : p[1] = b => \E i \in 1 .. Count(bs, b) : p = <<b, KeyIn(bs, b, i)>>
<1> DEFINE s == bs[b].entries
           O == Owned(bs, {}, b)
<1>1. Shows(s, O, h, b)
  BY DEF Rep
<1>2. O = 1 .. Count(bs, b)
  BY DEF Owned, Count
<1> HIDE DEF s, O
<1>3. \A i, j \in O : s[i].key = s[j].key => i = j
  BY <1>1, ShownAre
<1>4. /\ \A i \in O : <<b, s[i].key>> \in DOMAIN h /\ h[<<b, s[i].key>>] = s[i].c
      /\ \A p \in DOMAIN h : p[1] = b => \E i \in O : p = <<b, s[i].key>>
  BY <1>1 DEF Shows
<1>5. \A i : KeyIn(bs, b, i) = s[i].key /\ ConIn(bs, b, i) = s[i].c
  BY DEF KeyIn, ConIn, s
<1> QED
  BY <1>2, <1>3, <1>4, <1>5

LEMMA PairsCounted ==
  ASSUME NEW bs, NEW h, Rep(bs, {}, h), IsFiniteSet(DOMAIN h), NEW a
  PROVE  Cardinality(PairsAt(bs, a)) = Cardinality(HoldersOf(h, a))
<1> DEFINE P == PairsAt(bs, a)
           H == HoldersOf(h, a)
           K(p) == <<p[1], KeyIn(bs, p[1], p[2])>>
           F == [p \in P |-> K(p)]
<1>1. IsFiniteSet(H)
  <2>1. H \subseteq DOMAIN h
    BY DEF HoldersOf
  <2> QED
    BY <2>1, FS_Subset
<1>2. ASSUME NEW p \in P
      PROVE  /\ p[1] \in DOMAIN bs /\ p[2] \in 1 .. Count(bs, p[1]) /\ p = <<p[1], p[2]>>
             /\ K(p) \in H
  <2>1. PICK b \in DOMAIN bs : \E i \in 1 .. Count(bs, b) : p = <<b, i>>
    BY InPairs DEF PairsAt
  <2>2. PICK i \in 1 .. Count(bs, b) : p = <<b, i>>
    BY <2>1
  <2>3. ConIn(bs, b, i).at = a
    BY <2>2 DEF PairsAt
  <2>4. <<b, KeyIn(bs, b, i)>> \in H
    BY <2>1, <2>2, <2>3, PlaceHolds DEF HoldersOf
  <2> QED
    BY <2>1, <2>2, <2>4
<1>3. F \in [P -> H]
  BY <1>2
<1>4. ASSUME NEW p \in P, NEW q \in P, F[p] = F[q]  PROVE p = q
  <2>1. p[1] = q[1] /\ KeyIn(bs, p[1], p[2]) = KeyIn(bs, q[1], q[2])
    BY <1>4
  <2>2. /\ p[1] \in DOMAIN bs /\ p[2] \in 1 .. Count(bs, p[1]) /\ p = <<p[1], p[2]>>
        /\ q[2] \in 1 .. Count(bs, q[1]) /\ q = <<q[1], q[2]>>
    BY <1>2
  <2>3. p[2] = q[2]
    BY <2>1, <2>2, PlaceHolds
  <2> QED
    BY <2>1, <2>2, <2>3
<1>5. ASSUME NEW r \in H  PROVE \E p \in P : F[p] = r
  <2>1. r \in DOMAIN h /\ h[r].at = a /\ r[1] \in DOMAIN bs
    BY DEF HoldersOf, Rep
  <2>2. PICK i \in 1 .. Count(bs, r[1]) : r = <<r[1], KeyIn(bs, r[1], i)>>
    BY <2>1, PlaceHolds
  <2>3. ConIn(bs, r[1], i).at = a
    BY <2>1, <2>2, PlaceHolds
  <2>4. <<r[1], i>> \in P
    BY <2>1, <2>2, <2>3, InPairs DEF PairsAt
  <2>5. F[<<r[1], i>>] = r
    BY <2>2, <2>4
  <2> QED
    BY <2>4, <2>5
<1> HIDE DEF P, H, F
<1>6. ExistsBijection(P, H)
  <2>1. F \in Surjection(P, H)
    BY <1>3, <1>5 DEF Surjection
  <2>2. F \in Bijection(P, H)
    BY <1>3, <1>4, <2>1, Fun_IsBij
  <2> QED
    BY <2>2, Fun_ExistsBij
<1>7. ExistsBijection(H, P)
  BY <1>6, Fun_ExistsBijSymmetric
<1>8. Cardinality(P) = Cardinality(H)
  BY <1>1, <1>7, FS_Bijection
<1> QED
  BY <1>8 DEF P, H

\* What leads to a wrapper: holders; what leads to a container: a holder or a wrapper.
LEMMA WrappersCounted ==
  ASSUME NEW o, NEW h, Sound(o, h), NEW a \in DOMAIN o
  PROVE  /\ o[a].kind = "shared" =>
              /\ a.what = "wrapper" /\ WrapperSound(o, h, a) /\ WrappersAt(o, a) = {}
         /\ o[a].kind # "shared" =>
              /\ a.what = "container" /\ ContainerSound(o, h, a)
              /\ WrappersAt(o, a) = IF WrapperAddress(a) \in DOMAIN o THEN {WrapperAddress(a)} ELSE {}
<1>1. \A x \in DOMAIN o : x \in Addresses /\ x.what \in {"container", "wrapper"}
  BY DEF Sound, Typed, Addresses
<1>2. \A x \in DOMAIN o : /\ x.what = "wrapper" => WrapperSound(o, h, x)
                          /\ x.what = "container" => ContainerSound(o, h, x)
  BY DEF Sound
<1>3. \A x \in DOMAIN o : o[x].kind = "shared" <=> x.what = "wrapper"
  <2>1. \A x \in DOMAIN o : x.what = "wrapper" => o[x].kind = "shared"
    BY <1>2 DEF WrapperSound, Wrappers
  <2>2. \A x \in DOMAIN o : x.what = "container" => o[x].kind # "shared"
    BY <1>2, KindsAssumption DEF ContainerSound, Objects
  <2> QED
    BY <1>1, <2>1, <2>2
<1>4. \A x \in DOMAIN o : x.what = "wrapper" =>
        /\ o[x].inner.at \in DOMAIN o /\ o[x].inner.at.what = "container"
        /\ x = WrapperAddress(o[x].inner.at)
  BY <1>2 DEF WrapperSound
<1>5. ASSUME o[a].kind = "shared"  PROVE WrappersAt(o, a) = {}
  BY <1>3, <1>4, <1>5 DEF WrappersAt
<1>6. ASSUME o[a].kind # "shared"
      PROVE  WrappersAt(o, a) = IF WrapperAddress(a) \in DOMAIN o THEN {WrapperAddress(a)} ELSE {}
  <2> DEFINE w == WrapperAddress(a)
  <2>1. a.what = "container" /\ a \in Addresses
    BY <1>1, <1>3, <1>6
  <2>2. w.what = "wrapper"
    BY <2>1, WrapperOf
  <2>3. \A x \in WrappersAt(o, a) : x = w
    BY <1>3, <1>4 DEF WrappersAt
  <2>4. ASSUME w \in DOMAIN o  PROVE w \in WrappersAt(o, a)
    <3> DEFINE y == o[w].inner.at
    <3>1. y \in Addresses /\ y.what = "container" /\ w = WrapperAddress(y)
      BY <1>1, <1>4, <2>2, <2>4
    <3> HIDE DEF y
    <3>2. y = a
      BY <2>1, <3>1, WrappersApart
    <3>3. o[w].kind = "shared"
      BY <1>3, <2>2, <2>4
    <3> HIDE DEF w
    <3> QED
      BY <2>4, <3>2, <3>3 DEF WrappersAt, y
  <2>5. WrappersAt(o, a) \subseteq DOMAIN o
    BY DEF WrappersAt
  <2> HIDE DEF w
  <2>6. WrappersAt(o, a) = IF w \in DOMAIN o THEN {w} ELSE {}
    BY <2>3, <2>4, <2>5
  <2> QED
    BY <2>6 DEF w
<1> QED
  BY <1>1, <1>2, <1>3, <1>5, <1>6

LEMMA CountersAre ==
  ASSUME NEW o, NEW h, Sound(o, h), NEW bs, Rep(bs, {}, h), NEW a \in DOMAIN o,
         NEW n, n = Cardinality(PairsAt(bs, a)) + Cardinality(WrappersAt(o, a))
  PROVE  IF o[a].kind = "shared"
         THEN o[a].counter = n /\ n > 0 /\ Fits(Mem(o), o[a].inner)
         ELSE n = 1
<1>1. IsFiniteSet(DOMAIN h)
  BY DEF Sound, Typed
<1>2. Cardinality(PairsAt(bs, a)) = Cardinality(HoldersOf(h, a))
  BY <1>1, PairsCounted
<1>3. IsFiniteSet(HoldersOf(h, a))
  <2>1. HoldersOf(h, a) \subseteq DOMAIN h
    BY DEF HoldersOf
  <2> QED
    BY <1>1, <2>1, FS_Subset
<1>4. CASE o[a].kind = "shared"
  <2>1. WrapperSound(o, h, a) /\ WrappersAt(o, a) = {}
    BY <1>4, WrappersCounted
  <2>2. Cardinality(WrappersAt(o, a)) = 0
    BY <2>1, FS_EmptySet
  <2>3. Cardinality(HoldersOf(h, a)) \in Nat /\ Cardinality(HoldersOf(h, a)) # 0
    <3>1. HoldersOf(h, a) # {}
      BY <2>1 DEF WrapperSound
    <3> QED
      BY <1>3, <3>1, FS_EmptySet, FS_CardinalityType
  <2>4. o[a].counter = Cardinality(HoldersOf(h, a))
    BY <2>1 DEF WrapperSound
  <2>5. Fits(Mem(o), o[a].inner)
    BY <2>1 DEF WrapperSound, Fits, Mem
  <2> QED
    BY <1>2, <1>4, <2>2, <2>3, <2>4, <2>5
<1>5. CASE o[a].kind # "shared"
  <2>1. /\ ContainerSound(o, h, a)
        /\ WrappersAt(o, a) = IF WrapperAddress(a) \in DOMAIN o THEN {WrapperAddress(a)} ELSE {}
    BY <1>5, WrappersCounted
  <2>2. CASE WrapperAddress(a) \in DOMAIN o
    <3>1. HoldersOf(h, a) = {} /\ WrappersAt(o, a) = {WrapperAddress(a)}
      BY <2>1, <2>2 DEF ContainerSound
    <3>2. Cardinality(HoldersOf(h, a)) = 0 /\ Cardinality(WrappersAt(o, a)) = 1
      BY <3>1, FS_EmptySet, FS_Singleton
    <3>3. n = 1
      BY <1>2, <3>2
    <3> QED
      BY <1>5, <3>3
  <2>3. CASE WrapperAddress(a) \notin DOMAIN o
    <3>1. PICK p : HoldersOf(h, a) = {p}
      BY <2>1, <2>3 DEF ContainerSound
    <3>2. WrappersAt(o, a) = {}
      BY <2>1, <2>3
    <3>3. Cardinality(HoldersOf(h, a)) = 1 /\ Cardinality(WrappersAt(o, a)) = 0
      <4>1. Cardinality({p}) = 1
        BY FS_Singleton
      <4> QED
        BY <3>1, <3>2, <4>1, FS_EmptySet
    <3>4. n = 1
      BY <1>2, <3>3
    <3> QED
      BY <1>5, <3>4
  <2> QED
    BY <2>2, <2>3
<1> QED
  BY <1>4, <1>5

LEMMA CountersAtRest ==
  ASSUME SharingInv
  PROVE  CountersExact
<1> SUFFICES ASSUME AtRest
             PROVE  /\ \A p \in Pairs : Fits(memory, At(p[1], p[2]))
                    /\ \A a \in DOMAIN memory.objects :
                         IF memory.objects[a].kind = "shared"
                         THEN /\ memory.objects[a].counter = References(a) /\ References(a) > 0
                              /\ Fits(memory, memory.objects[a].inner)
                         ELSE References(a) = 1
  BY DEF CountersExact
<1>1. PICK v : On(memory, bitmaps, v, call)
  BY DEF SharingInv
<1>2. World(memory, bitmaps, {}, v)
  BY <1>1 DEF On, Resting, Finished, AtRest
<1>3. PICK h, o : memory = Mem(o) /\ Sound(o, h) /\ Rep(bitmaps, {}, h)
  BY <1>2 DEF World, Good
<1>4. memory.objects = o
  BY <1>3 DEF Mem
<1>5. \A b, i : At(b, i) = ConIn(bitmaps, b, i)
  BY Terms
<1>6. Pairs = PairsIn(bitmaps)
  BY DEF Pairs, PairsIn, Size, Entries, Count, Live
<1>7. ASSUME NEW p \in Pairs  PROVE Fits(memory, At(p[1], p[2]))
  <2>1. PICK b \in DOMAIN bitmaps : \E i \in 1 .. Count(bitmaps, b) : p = <<b, i>>
    BY <1>6, <1>7, InPairs
  <2>2. PICK i \in 1 .. Count(bitmaps, b) : p = <<b, i>>
    BY <2>1
  <2> DEFINE q == <<b, KeyIn(bitmaps, b, i)>>
  <2>3. q \in DOMAIN h /\ h[q] = ConIn(bitmaps, b, i)
    BY <1>3, <2>1, <2>2, PlaceHolds
  <2> HIDE DEF q
  <2>4. h[q].at \in DOMAIN o /\ o[h[q].at].kind = h[q].type
    BY <1>3, <2>3 DEF Sound, HolderSound
  <2>5. At(p[1], p[2]) = h[q]
    BY <1>5, <2>2, <2>3
  <2> QED
    BY <1>4, <2>4, <2>5 DEF Fits
<1>8. ASSUME NEW a \in DOMAIN o
      PROVE  References(a) = Cardinality(PairsAt(bitmaps, a)) + Cardinality(WrappersAt(o, a))
  <2>1. {p \in Pairs : At(p[1], p[2]).at = a} = PairsAt(bitmaps, a)
    BY <1>5, <1>6 DEF PairsAt
  <2>2. {x \in DOMAIN memory.objects :
           memory.objects[x].kind = "shared" /\ memory.objects[x].inner.at = a} = WrappersAt(o, a)
    BY <1>4 DEF WrappersAt
  <2> QED
    BY <2>1, <2>2 DEF References
<1>9. ASSUME NEW a \in DOMAIN o
      PROVE  IF o[a].kind = "shared"
             THEN o[a].counter = References(a) /\ References(a) > 0 /\ Fits(memory, o[a].inner)
             ELSE References(a) = 1
  BY <1>3, <1>8, <1>9, CountersAre
<1> QED
  BY <1>4, <1>7, <1>9

\* Between calls the counter of each shared container is the number of entries and
\* wrappers that lead to it, every other container has one holder, and each typecode is
\* that of the container: the last shared_container_free releases it and nothing leaks.
THEOREM CountersExactHolds ==
  ASSUME Flags = {TRUE}, "plain" \in Kinds, "run" \notin Kinds
  PROVE  Spec => []CountersExact
<1>1. SharingInv => CountersExact
  BY CountersAtRest
<1> QED
  BY <1>1, SharingHolds, PTL

=============================================================================
