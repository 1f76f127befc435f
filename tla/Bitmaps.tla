------------------------------- MODULE Bitmaps ------------------------------
(***************************************************************************)
(* roaring_bitmap_t as the module's commands see it: a finite map from the *)
(* high half of a value (the key of a container) to its container.         *)
(*                                                                         *)
(* The arrays behind it (keys, containers, type codes, kept sorted by key) *)
(* are abstracted to that map; each operation is one function call, with   *)
(* the containers it computes and drops.                                   *)
(***************************************************************************)
EXTENDS Containers

CONSTANTS
  KeyMod,        \* number of container keys, 2^16 in the code
  Chunk          \* the keys that the values of an instance use

ASSUME BitmapAssumption ==
  /\ KeyMod \in Nat \ {0}
  /\ Chunk \subseteq 0 .. KeyMod - 1
  /\ IsFiniteSet(Chunk)

\* uint32_t split as the code splits it: val >> 16 and val & 0xFFFF.
Value == Chunk \X Low

HighBits(v) == v[1]
LowBits(v)  == v[2]

IsBitmap(b) == DOMAIN b \subseteq Chunk /\ b \in [DOMAIN b -> Container]

\* roaring_bitmap_create
EmptyBitmap == [k \in {} |-> ArrayOf({}, 0)]

\* The set of values that a bitmap stands for.
ToSet(b) == {v \in Value : HighBits(v) \in DOMAIN b /\ LowBits(v) \in b[HighBits(v)].vals}

Contains(b, v) ==
  /\ HighBits(v) \in DOMAIN b
  /\ ContainerContains(b[HighBits(v)], LowBits(v))

\* roaring_bitmap_is_empty: no container, whatever the containers hold.
IsEmpty(b) == DOMAIN b = {}

(***************************************************************************)
(* Single values.                                                          *)
(***************************************************************************)

\* The container at key k, or the array created for a key that has none.
ContainerAt(b, k) == IF k \in DOMAIN b THEN b[k] ELSE ArrayOf({}, 0)

Put(b, k, c) == [j \in DOMAIN b \union {k} |-> IF j = k THEN c ELSE b[j]]

Drop(b, K) == [j \in DOMAIN b \ K |-> b[j]]

\* One turn of roaring_bitmap_add_many.  Whether the container is sought or is
\* still at hand from the value before, it is the one at the key of the value.
BitmapAdd(b, v) ==
  Put(b, HighBits(v), ContainerAdd(ContainerAt(b, HighBits(v)), LowBits(v)))

BitmapRemove(b, v) ==
  LET k == HighBits(v)
      c == ContainerRemove(b[k], LowBits(v))
  IN  IF k \notin DOMAIN b THEN b
      ELSE IF NonZero(c) THEN Put(b, k, c)
      ELSE Drop(b, {k})

(***************************************************************************)
(* x1 |= x2.                                                               *)
(***************************************************************************)

\* The containers of x2 past the last key of x1.
Beyond(x1, x2) == {k \in DOMAIN x2 : \A j \in DOMAIN x1 : j < k}

\* Mutant: the last container of x2 is not copied.
AppendCopyRangeStopsShort(x1, x2) ==
  {k \in Beyond(x1, x2) : \E j \in DOMAIN x2 : k < j}

\* ra_append_copy_range copies them in one go and takes its bounds as uint16_t:
\* with all 2^16 containers in x2 the end of the range wraps around to 0.
AppendCopyRange(x1, x2) ==
  IF Cardinality(DOMAIN x2) % KeyMod = 0 THEN {} ELSE Beyond(x1, x2)

\* Where both have a key the container of x1 is left alone once it is full.
OrAt(x1, x2, k) ==
  CASE k \notin DOMAIN x2 -> x1[k]
    [] k \notin DOMAIN x1 -> x2[k]
    [] k \in DOMAIN x1 /\ k \in DOMAIN x2 ->
         IF IsFull(x1[k]) THEN x1[k] ELSE ContainerIor(x1[k], x2[k])

OrInplace(x1, x2) ==
  LET appended == AppendCopyRange(x1, x2)
      merged   == DOMAIN x1 \union (DOMAIN x2 \ Beyond(x1, x2))
  IN  IF DOMAIN x2 = {} THEN x1
      ELSE IF DOMAIN x1 = {} THEN x2
      ELSE [k \in merged \union appended |-> OrAt(x1, x2, k)]

(***************************************************************************)
(* x1 &= ~x2.                                                              *)
(***************************************************************************)

AndNotAt(x1, x2, k) ==
  IF k \in DOMAIN x2 THEN ContainerIandnot(x1[k], x2[k]) ELSE x1[k]

\* Mutant: containers left without a value stay in the bitmap.
AndNotInplaceKeepsEmpty(x1, x2) == [k \in DOMAIN x1 |-> AndNotAt(x1, x2, k)]

\* Containers left without a value are freed and squeezed out of the array.
AndNotInplace(x1, x2) ==
  LET kept == {k \in DOMAIN x1 : k \in DOMAIN x2 => NonZero(AndNotAt(x1, x2, k))}
  IN  [k \in kept |-> AndNotAt(x1, x2, k)]

(***************************************************************************)
(* The iterator: values in increasing order, container by container.       *)
(***************************************************************************)

\* The order of the 32-bit integers.
Precedes(v, w) ==
  \/ HighBits(v) < HighBits(w)
  \/ HighBits(v) = HighBits(w) /\ LowBits(v) < LowBits(w)

Least(S) == CHOOSE x \in S : \A y \in S : x <= y

\* loadfirstvalue on the containers whose key is at least lo: <<>> is the end.
LoadFirst(b, lo) ==
  LET rest == {k \in DOMAIN b : k >= lo}
  IN  IF rest = {} THEN <<>>
      ELSE <<Least(rest), Least(b[Least(rest)].vals)>>

CreateIterator(b) == LoadFirst(b, 0)

\* Mutant: the iterator leaves a container before its last value.
AdvanceIteratorSkips(b, v) ==
  LET later == {x \in b[HighBits(v)].vals : x > LowBits(v) + 1}
  IN  IF later # {} THEN <<HighBits(v), Least(later)>>
      ELSE LoadFirst(b, HighBits(v) + 1)

AdvanceIterator(b, v) ==
  LET later == {x \in b[HighBits(v)].vals : x > LowBits(v)}
  IN  IF later # {} THEN <<HighBits(v), Least(later)>>
      ELSE LoadFirst(b, HighBits(v) + 1)

(***************************************************************************)
(* The representation invariant of a bitmap.                               *)
(***************************************************************************)

WellFormedBitmap(b) == \A k \in DOMAIN b : WellFormed(b[k])

\* Bitmaps written by add_many and remove alone never hold a run container, so
\* the type of each container is a function of its cardinality.
Canonical(b) == \A k \in DOMAIN b : WellFormed(b[k]) /\ b[k].type # "run"

=============================================================================
