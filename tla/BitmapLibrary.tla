---------------------------- MODULE BitmapLibrary ---------------------------
(***************************************************************************)
(* A program that holds bitmaps in variables and calls the library on      *)
(* them, one call after the other.  Results become arguments of later      *)
(* calls, so every pair of representations that the operations themselves  *)
(* can produce meets in every operation.                                   *)
(***************************************************************************)
EXTENDS BitmapOps, Sequences

CONSTANTS
  Register,      \* the variables of the program
  Single,        \* the values in use that are added and removed one by one
  Ranges,        \* the ranges in use, as pairs of a first and a last value
  Steps          \* the steps of from_range in use

\* A range may make a container under each key that it passes, so these are in use.
ASSUME LibraryAssumption ==
  /\ Single \subseteq Value
  /\ Ranges \subseteq {p \in Value \X Value :
                      /\ AsInteger(p[1]) <= AsInteger(p[2])
                      /\ HighBits(p[1]) .. HighBits(p[2]) \subseteq Chunk}
  /\ Steps \subseteq Nat \ {0}

VARIABLE reg

libraryVars == <<reg>>

\* The integers that a range stands for.
Between(first, last) ==
  {v \in Value : AsInteger(first) <= AsInteger(v) /\ AsInteger(v) <= AsInteger(last)}

\* The calls on a range that return; what the others do is in RangeLoops.
Flippable == {p \in Ranges : FlipEnds(p[1], p[2])}

(***************************************************************************)
(* The calls.                                                              *)
(***************************************************************************)

LibraryInit == reg = [r \in Register |-> EmptyBitmap]

Assign(r, b) == reg' = [reg EXCEPT ![r] = b]

Create(r) == Assign(r, EmptyBitmap)

Add(r, v) == Assign(r, BitmapAdd(reg[r], v))

Remove(r, v) == Assign(r, BitmapRemove(reg[r], v))

MakeRange(r, p, step) ==
  Assign(r, FromRange(AsInteger(p[1]), AsInteger(p[2]) + 1, step))

FlipRange(r, p) == Assign(r, FlipInplace(reg[r], p[1], p[2]))

FlipInto(r, q, p) == Assign(r, Flip(reg[q], p[1], p[2]))

Optimize(r) == Assign(r, RunOptimize(reg[r]))

Decompress(r) ==
  /\ RemoveRunCompressionEnds(reg[r])
  /\ Assign(r, RemoveRunCompression(reg[r]))

And(r, q)    == Assign(r, BitmapAnd(reg[r], reg[q]))
Or(r, q)     == Assign(r, BitmapOr(reg[r], reg[q]))
Xor(r, q)    == Assign(r, BitmapXor(reg[r], reg[q]))
Andnot(r, q) == Assign(r, BitmapAndnot(reg[r], reg[q]))

OrInto(r, q)     == r # q /\ Assign(r, OrInplace(reg[r], reg[q]))
XorInto(r, q)    == r # q /\ Assign(r, BitmapXorInplace(reg[r], reg[q]))
AndnotInto(r, q) == r # q /\ Assign(r, AndNotInplace(reg[r], reg[q]))

LibraryNext ==
  \E r \in Register :
    \/ Create(r)
    \/ \E v \in Single : Add(r, v)
    \/ \E v \in Single : Remove(r, v)
    \/ \E p \in Ranges, step \in Steps : MakeRange(r, p, step)
    \/ \E p \in Flippable : FlipRange(r, p)
    \/ \E q \in Register, p \in Flippable : FlipInto(r, q, p)
    \/ Optimize(r)
    \/ Decompress(r)
    \/ \E q \in Register : And(r, q)
    \/ \E q \in Register : Or(r, q)
    \/ \E q \in Register : Xor(r, q)
    \/ \E q \in Register : Andnot(r, q)
    \/ \E q \in Register : OrInto(r, q)
    \/ \E q \in Register : XorInto(r, q)
    \/ \E q \in Register : AndnotInto(r, q)

LibrarySpec == LibraryInit /\ [][LibraryNext]_libraryVars

(***************************************************************************)
(* Properties.                                                             *)
(***************************************************************************)

\* No operation leaves an empty container behind, a stored cardinality that is off,
\* or a container whose type a reader of the serialized form would infer wrongly.
AllWellFormed == \A r \in Register : WellFormedBitmap(reg[r])

\* The value of a bitmap is a set, whatever represents it: two operands give the
\* union, the intersection, the difference and the symmetric difference of their
\* sets, into a new bitmap and in place.
AlgebraExact ==
  \A q, r \in Register :
    LET S == ToSet(reg[q])
        T == ToSet(reg[r])
    IN  /\ ToSet(BitmapAnd(reg[q], reg[r])) = S \intersect T
        /\ ToSet(BitmapOr(reg[q], reg[r])) = S \union T
        /\ ToSet(BitmapXor(reg[q], reg[r])) = SymmetricDifference(S, T)
        /\ ToSet(BitmapAndnot(reg[q], reg[r])) = S \ T
        /\ q # r =>
             /\ ToSet(OrInplace(reg[q], reg[r])) = S \union T
             /\ ToSet(BitmapXorInplace(reg[q], reg[r])) = SymmetricDifference(S, T)
             /\ ToSet(AndNotInplace(reg[q], reg[r])) = S \ T

\* Negating a range changes the values in it and no others, and conversions between
\* representations change none at all.
RangesExact ==
  \A r \in Register :
    /\ \A p \in Flippable :
         \A f \in {FlipInplace(reg[r], p[1], p[2]), Flip(reg[r], p[1], p[2])} :
           ToSet(f) = SymmetricDifference(ToSet(reg[r]), Between(p[1], p[2]))
    /\ ToSet(RunOptimize(reg[r])) = ToSet(reg[r])
    /\ ToSet(RemoveRunCompression(reg[r])) = ToSet(reg[r])

\* roaring_bitmap_equals and roaring_bitmap_is_subset look at keys, types and stored
\* cardinalities first; they still decide equality and inclusion of the sets, with
\* any two representations but one: an inclusion is never missed, and can only be
\* made up when runs are sought in an array.
ComparisonsExact ==
  \A q, r \in Register :
    /\ BitmapEquals(reg[q], reg[r]) <=> ToSet(reg[q]) = ToSet(reg[r])
    /\ ToSet(reg[q]) \subseteq ToSet(reg[r]) => BitmapIsSubset(reg[q], reg[r]) = {TRUE}
    /\ \/ ToSet(reg[q]) \subseteq ToSet(reg[r])
       \/ BitmapIsSubset(reg[q], reg[r]) = {FALSE}
       \/ \E k \in Shared(reg[q], reg[r]) : reg[q][k].type = "run" /\ reg[r][k].type = "array"

\* rank counts the values up to v, select is its inverse and fails past the last
\* value, and the extremes are those of the set.
OrderExact ==
  \A r \in Register :
    LET S == ToSet(reg[r])
        UpTo(v) == {u \in S : AsInteger(u) <= AsInteger(v)}
    IN  /\ \A v \in Value : BitmapRank(reg[r], v) = Cardinality(UpTo(v))
        /\ \A v \in S : BitmapSelect(reg[r], Cardinality(UpTo(v)) - 1) = v
        /\ BitmapSelect(reg[r], Cardinality(S)) = <<>>
        /\ S # {} =>
             /\ UpTo(BitmapMinimum(reg[r])) = {BitmapMinimum(reg[r])}
             /\ UpTo(BitmapMaximum(reg[r])) = S /\ BitmapMaximum(reg[r]) \in S

\* What is asked of bitmaps that the operations produced is answered as their sets
\* would.
QueriesExact == ComparisonsExact /\ OrderExact

=============================================================================
