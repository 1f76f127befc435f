------------------------------ MODULE MCLibrary -----------------------------
(***************************************************************************)
(* An instance of BitmapLibrary and of ManyBitmaps for TLC.  In each       *)
(* behaviour a program either calls the library on bitmaps in its          *)
(* variables, one call after the other, or makes one call on many bitmaps  *)
(* that it was given; the variables of the other part keep their values.   *)
(***************************************************************************)
EXTENDS BitmapLibrary, ManyBitmaps

FirstTwo == {0, 1}

\* Every value of the first container and one of the second.
FewOfSecond == {<<0, lo>> : lo \in Low} \union {<<1, 0>>}

\* Inside the first container, from its start, to its end and all of it; over its end,
\* and over all of it, into the second.
SomeRanges ==
  {<<<<0, 1>>, <<0, 3>>>>, <<<<0, 0>>, <<0, 1>>>>, <<<<0, 2>>, <<0, LastLow>>>>,
   <<<<0, 0>>, <<0, LastLow>>>>, <<<<0, 1>>, <<1, 0>>>>, <<<<0, 0>>, <<1, 0>>>>}

One(c) == [k \in {0} |-> c]

\* Every type of container and several sizes at the first key: an array, runs, a run
\* of everything and bitsets that are disjoint, that overlap, that make everything
\* together and that take each other away; and bitmaps with the other key.
GivenBitmaps ==
  {EmptyBitmap,
   One(ArrayOf({2}, 1)), One(ArrayOf({1, 2}, 2)),
   One(RunOf({1, 2})), One(RunOf({3})), One(RunOf(Low)),
   One(BitsetOf({0, 1, 3}, 3)), One(BitsetOf({1, 3, 4}, 3)),
   [k \in {1} |-> BitsetOf({1, 2, 3}, 3)],
   [k \in {0, 1} |-> IF k = 0 THEN BitsetOf({2, 3, 4}, 3) ELSE ArrayOf({0}, 1)]}

NoMany ==
  /\ x = <<>>
  /\ method = "or_many"
  /\ pc = "done"
  /\ next = 1
  /\ pq = <<>>
  /\ answer = EmptyBitmap

EitherInit == LibraryInit /\ (NoMany \/ Init)

LibraryStep == x = <<>> /\ LibraryNext /\ UNCHANGED vars

ManyStep == Next /\ UNCHANGED libraryVars

EitherSpec ==
  /\ EitherInit
  /\ [][LibraryStep \/ ManyStep]_<<libraryVars, vars>>
  /\ WF_<<libraryVars, vars>>(ManyStep)

=============================================================================
