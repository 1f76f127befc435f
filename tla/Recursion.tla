------------------------------ MODULE Recursion -----------------------------
(***************************************************************************)
(* Lemmas for definitions by recursion: that the function which a loop or  *)
(* a recursive call stands for exists, and how to argue about it with the  *)
(* least turn, or the smallest set, at which a claim would fail.           *)
(***************************************************************************)
EXTENDS Integers, TLAPS, FiniteSets, FiniteSetTheorems, WellFoundedInduction

\* A set of numbers that is not empty has a least one.
LEMMA NatMinimum ==
  ASSUME NEW T \in SUBSET Nat, T # {}
  PROVE  \E x \in T : \A y \in T : x <= y
<1> DEFINE R == OpToRel(<, Nat)
<1>1. IsWellFoundedOn(R, Nat)
  BY NatLessThanWellFounded
<1>2. \A x, y \in Nat : y < x => <<y, x>> \in R
  BY DEF OpToRel
<1> HIDE DEF R
<1>3. PICK x \in T : \A y \in T : ~ (<<y, x>> \in R)
  BY <1>1, WFMin, Zenon
<1>4. \A y \in T : x <= y
  <2> TAKE y \in T
  <2>1. x \in Nat /\ y \in Nat /\ ~ (y < x)
    BY <1>2, <1>3
  <2> QED
    BY <2>1
<1> QED
  BY <1>3, <1>4, Zenon

-----------------------------------------------------------------------------
(***************************************************************************)
(* Loops.  A function that is defined by recursion on the turn exists, and *)
(* its values are determined turn by turn.                                 *)
(***************************************************************************)

\* What holds before the first turn, and after each turn if it held before it, holds
\* after all of them.  T is the set of turns after which it holds.
LEMMA TurnByTurn ==
  ASSUME NEW n \in Nat, NEW T, 0 \in T, \A i \in 1 .. n : i - 1 \in T => i \in T
  PROVE  \A i \in 0 .. n : i \in T
<1> DEFINE U == {i \in 0 .. n : i \notin T}
<1> SUFFICES ASSUME U # {} PROVE FALSE
  OBVIOUS
<1>1. U \in SUBSET Nat
  OBVIOUS
<1> HIDE DEF U
<1>2. PICK m \in U : \A j \in U : m <= j
  BY <1>1, NatMinimum, Zenon
<1>3. m \in 1 .. n /\ m \notin T /\ m - 1 \in 0 .. n /\ ~ (m <= m - 1)
  BY <1>2 DEF U
<1>4. m - 1 \in T
  BY <1>2, <1>3 DEF U
<1> QED
  BY <1>3, <1>4

\* A loop of n turns over a state in S: what each turn does, and the state after it
\* when the first one starts from a.
Turns(S, n, turn) == turn \in [1 .. n -> [S -> S]]

States(S, a, n, turn, f) ==
  /\ f \in [0 .. n -> S]
  /\ f[0] = a
  /\ \A i \in 1 .. n : f[i] = turn[i][f[i - 1]]

LEMMA LoopExists ==
  ASSUME NEW S, NEW a \in S, NEW n \in Nat, NEW turn, Turns(S, n, turn)
  PROVE  \E f : States(S, a, n, turn, f)
<1> USE DEF Turns
<1> DEFINE Runs(f, m) == /\ f \in [0 .. m -> S]
                         /\ f[0] = a
                         /\ \A i \in 1 .. m : f[i] = turn[i][f[i - 1]]
           T == {m \in 0 .. n : \E f : Runs(f, m)}
<1>1. 0 \in T
  <2>1. Runs([i \in 0 .. 0 |-> a], 0)
    OBVIOUS
  <2> HIDE DEF Runs
  <2>2. 0 \in 0 .. n /\ \E f : Runs(f, 0)
    BY <2>1
  <2> QED
    BY <2>2
<1>2. ASSUME NEW m \in 1 .. n, m - 1 \in T PROVE m \in T
  <2>1. PICK f : Runs(f, m - 1)
    BY <1>2
  <2>2. m - 1 \in Nat /\ m \in Nat /\ m # 0 /\ m \in 0 .. n
    OBVIOUS
  <2>3. f \in [0 .. m - 1 -> S] /\ f[m - 1] \in S /\ turn[m] \in [S -> S]
    BY <2>1, <2>2
  <2> DEFINE g == [i \in 0 .. m |-> IF i = m THEN turn[m][f[m - 1]] ELSE f[i]]
  <2>4. g \in [0 .. m -> S]
    <3>1. \A i \in 0 .. m : i # m => i \in 0 .. m - 1
      BY <2>2
    <3>2. turn[m][f[m - 1]] \in S
      BY <2>3
    <3> QED
      BY <2>3, <3>1, <3>2
  <2>5. g[0] = a /\ g[m] = turn[m][f[m - 1]] /\ g[m - 1] = f[m - 1]
    BY <2>1, <2>2
  <2>6. ASSUME NEW i \in 1 .. m, i # m PROVE g[i] = turn[i][g[i - 1]]
    <3>1. i \in 1 .. m - 1 /\ i \in 0 .. m /\ i - 1 \in 0 .. m /\ i - 1 # m
      BY <2>2, <2>6
    <3>2. f[i] = turn[i][f[i - 1]]
      BY <2>1, <3>1
    <3>3. g[i] = f[i] /\ g[i - 1] = f[i - 1]
      BY <2>6, <3>1
    <3> QED
      BY <3>2, <3>3
  <2>7. \A i \in 1 .. m : g[i] = turn[i][g[i - 1]]
    BY <2>5, <2>6
  <2> HIDE DEF g
  <2>8. Runs(g, m)
    BY <2>4, <2>5, <2>7
  <2> QED
    BY <2>2, <2>8
<1>3. n \in T
  <2> HIDE DEF T
  <2>1. \A i \in 0 .. n : i \in T
    BY <1>1, <1>2, TurnByTurn
  <2> QED
    BY <2>1
<1> QED
  BY <1>3 DEF States

\* A property of the empty set that passes from a set without its chosen member to
\* the set holds of a finite set.  T is the set of sets that have it.
LEMMA OneByOne ==
  ASSUME NEW D, IsFiniteSet(D), NEW T, {} \in T,
         \A s \in SUBSET D : s # {} /\ s \ {CHOOSE x \in s : TRUE} \in T => s \in T
  PROVE  D \in T
<1> SUFFICES ASSUME D \notin T PROVE FALSE
  OBVIOUS
<1> DEFINE N == {Cardinality(s) : s \in {u \in SUBSET D : u \notin T}}
<1>1. \A s \in SUBSET D : IsFiniteSet(s) /\ Cardinality(s) \in Nat
  BY FS_Subset, FS_CardinalityType
<1>2. N \in SUBSET Nat /\ N # {}
  BY <1>1
<1> HIDE DEF N
<1>3. PICK m \in N : \A j \in N : m <= j
  BY <1>2, NatMinimum, Zenon
<1>4. PICK s \in SUBSET D : s \notin T /\ m = Cardinality(s)
  BY <1>3 DEF N
<1> DEFINE x == CHOOSE x \in s : TRUE
<1>5. s # {}
  BY <1>4
<1>6. x \in s
  BY <1>5
<1>7. s \ {x} \notin T
  BY <1>4, <1>5
<1> HIDE DEF x
<1>8. s \ {x} \in SUBSET D /\ Cardinality(s \ {x}) = m - 1
  BY <1>1, <1>4, <1>6, FS_RemoveElement
<1>9. m - 1 \in N
  BY <1>7, <1>8 DEF N
<1>10. m \in Nat /\ m <= m - 1
  BY <1>2, <1>3, <1>9
<1> QED
  BY <1>10

-----------------------------------------------------------------------------
(***************************************************************************)
(* Recursive functions.                                                    *)
(***************************************************************************)

\* A functional over functions from D to S whose value at d depends on the values at
\* lower ranks only: that is a recursive function as it is meant to be written.
Descends(D, S, n, rank, F) ==
  /\ F \in [[D -> S] -> [D -> S]]
  /\ rank \in [D -> 0 .. n]
  /\ \A f, g \in [D -> S] : \A d \in D :
       (\A c \in D : rank[c] < rank[d] => f[c] = g[c]) => F[f][d] = F[g][d]

\* Such a definition defines something: applied often enough, F changes nothing any more.
LEMMA FixpointExists ==
  ASSUME NEW D, NEW S, NEW s \in S, NEW n \in Nat, NEW rank, NEW F, Descends(D, S, n, rank, F)
  PROVE  \E f \in [D -> S] : f = F[f]
<1> DEFINE Fs == [D -> S]
           a == [d \in D |-> s]
           m == n + 1
           turn == [i \in 1 .. m |-> F]
<1>1. /\ F \in [Fs -> Fs] /\ rank \in [D -> 0 .. n] /\ a \in Fs /\ m \in Nat
      /\ \A f, g \in Fs : \A d \in D :
           (\A c \in D : rank[c] < rank[d] => f[c] = g[c]) => F[f][d] = F[g][d]
  BY DEF Descends
<1>2. Turns(Fs, m, turn)
  BY <1>1 DEF Turns
<1>3. \A i \in 1 .. m : turn[i] = F
  OBVIOUS
<1> HIDE DEF Fs, a, turn
<1>4. PICK f : States(Fs, a, m, turn, f)
  BY <1>1, <1>2, LoopExists
<1>5. f \in [0 .. m -> Fs] /\ \A i \in 1 .. m : f[i] = F[f[i - 1]]
  BY <1>3, <1>4 DEF States
<1> DEFINE T == {i \in 0 .. m : \A d \in D : rank[d] < i => F[f[i]][d] = f[i][d]}
<1>6. 0 \in T
  BY <1>1
<1>7. ASSUME NEW i \in 1 .. m, i - 1 \in T PROVE i \in T
  <2>1. f[i] \in Fs /\ f[i - 1] \in Fs /\ f[i] = F[f[i - 1]] /\ i \in 0 .. m
    BY <1>1, <1>5
  <2>2. ASSUME NEW d \in D, rank[d] < i PROVE F[f[i]][d] = f[i][d]
    <3>1. \A c \in D : rank[c] < rank[d] => rank[c] < i - 1
      BY <1>1, <2>2
    <3>2. \A c \in D : rank[c] < rank[d] => f[i][c] = f[i - 1][c]
      BY <1>7, <2>1, <3>1
    <3> QED
      BY <1>1, <2>1, <3>2
  <2> QED
    BY <2>1, <2>2
<1>8. m \in T
  <2> HIDE DEF T
  <2>1. \A i \in 0 .. m : i \in T
    BY <1>1, <1>6, <1>7, TurnByTurn
  <2> QED
    BY <1>1, <2>1
<1>9. f[m] \in Fs /\ F[f[m]] \in Fs
  BY <1>1, <1>5
<1>10. \A d \in D : F[f[m]][d] = f[m][d]
  BY <1>1, <1>8
<1>11. F[f[m]] = f[m]
  BY <1>9, <1>10 DEF Fs
<1> QED
  BY <1>9, <1>11 DEF Fs

=============================================================================
