--------------------------- MODULE MCContainerLoops -------------------------
(***************************************************************************)
(* Instances of ContainerLoops for TLC.                                    *)
(***************************************************************************)
EXTENDS ContainerLoops

\* Memory that was zero when it was allocated, or that held a high value.
Stale == {0, ChunkSize - 1}

\* Ranges.

RangeCalls(op, Steps) ==
  {[op |-> op, min |-> min, max |-> max, step |-> step] :
     min \in 0 .. HalfMod * HalfMod - 1, max \in 1 .. HalfMod * HalfMod, step \in Steps}

Flips == {c \in RangeCalls("flip", {1}) : c.min < c.max}

FromRanges ==
  {c \in RangeCalls("from_range", 1 .. HalfMod + 2) :
     c.min < c.max /\ c.max < HalfMod * HalfMod}

Runs ==
  {c \in RangeCalls("decompress", {1}) :
     c.min < c.max /\ c.max <= HalfMod /\ c.max - c.min <= ArrayMax}

\* The calls whose counter does not meet the end of its type: a negation that does
\* not end with the last container as a whole, a step past max that stays below
\* 2^32, a run that ends before the last low half.  The loops of the code do not
\* return for the others, or return something else: a wrapped step of from_range may
\* get past max the next time round.
Safe ==
  {c \in Flips : c.max < HalfMod * HalfMod \/ c.min \div HalfMod = HalfMod - 1}
    \union {c \in FromRanges : c.max + c.step <= HalfMod * HalfMod}
    \union {c \in Runs : c.max < HalfMod}

\* Two containers, or one and a range or a value.

\* Values at both ends of a container, next to each other and apart, and all of it.
Lows == 0 .. MergeSize - 1
Sets == (SUBSET {0, 1, 2, 3, MergeSize - 1} \ {{}}) \union {Lows}

\* Arrays of two vectors and more.
LongSets == {S \in SUBSET Lows : Cardinality(S) > 2 * Lanes}

Calling(ops, As, Bs, froms, tos) ==
  [ops |-> ops, As |-> As, Bs |-> Bs, froms |-> froms, tos |-> tos]

PairLoops ==
  {"union", "union_inplace", "array_run_union", "array_run_union_inplace",
   "xor", "array_run_xor", "intersection", "andnot", "run_array_andnot",
   "is_subset", "array_is_subset", "array_is_subset_run", "run_equals_array",
   "array_union", "array_xor", "array_andnot", "array_andnot_inplace",
   "array_intersection", "array_intersection_inplace",
   "array_intersection_skewed", "array_intersection_skewed_inplace",
   "array_run_intersection", "array_run_intersection_inplace",
   "array_run_andnot", "array_run_andnot_inplace", "run_array_subtract"}

VectorLoopOps ==
  {"vector_union", "vector_xor", "vector_intersection", "vector_andnot",
   "vector_andnot_inplace"}

Every ==
  {Calling(PairLoops \union VectorLoopOps, Sets, Sets, {0}, {0}),
   Calling(VectorLoopOps, LongSets, LongSets, {0}, {0}),
   Calling({"negation", "negation_inplace", "array_negation"}, Sets, {{}}, Lows, 0 .. MergeSize),
   Calling({"from_array"}, Sets, {{}}, {0}, {0}),
   Calling({"add", "remove", "run_rank", "run_select"}, Sets, {{}}, Lows, {0})}

\* A bitset, with every other container or every range.  Bits do not depend on each
\* other: a few contents stand for all.

Positions == 0 .. Words * Bits - 1
Contents ==
  {{}, Positions, {p \in Positions : p % 2 = 0}, {p \in Positions : p % 3 = 1}}

Filled == (SUBSET Positions) \ {{}}

Tests ==
  {"array_is_subset", "run_is_subset", "run_equals", "is_subset", "equals", "array_equals",
   "is_subset_run"}

Working(ops, bits, others, froms, tos) ==
  [ops |-> ops, bits |-> bits, others |-> others, froms |-> froms, tos |-> tos]

EveryJob ==
  {Working({"union", "xor", "andnot", "run_andnot", "intersection",
            "set_list", "clear_list", "flip_list"}, Contents, Filled, {0}, {0}),
   Working({"decompress"}, {{}}, Filled, {0}, {0}),
   Working({"negation"}, Contents, {{}}, Positions, 0 .. Words * Bits),
   Working({"to_array", "to_array_decoded", "to_runs"}, Filled, {{}}, {0}, {0}),
   Working({"array_intersection", "run_array_intersection", "array_andnot", "run_array_andnot",
            "intersection_to_array"}, Contents, Filled, {0}, {0}),
   Working(Tests, Contents, Filled, {0}, {0}),
   Working({"select"}, Filled, {{}}, Positions, {Words * Bits}),
   Working({"rank"}, Contents, {{}}, Positions \ {Words * Bits - 1}, {Words * Bits})}

\* A bitmap of one container of any kind, or of two that differ in how full they are
\* and where they end.

Entries(key, type, Ss) == {[key |-> key, type |-> type, values |-> S] : S \in Ss}

All(key) ==
  UNION {Entries(key, "array", {S \in Filled : Cardinality(S) <= ArrayMax}),
         Entries(key, "bitset", {S \in Filled : Cardinality(S) > ArrayMax}),
         Entries(key, "run", Filled)}

Few(key) ==
  LET end == Words * Bits - 1 IN
  UNION {Entries(key, "array", {{0}, {end}, {1, end - 2}}),
         Entries(key, "bitset", {Positions, 1 .. 3, end - 2 .. end, {0, 3, 4, end}}),
         Entries(key, "run", {Positions, {0}, {end}, {1, 2, 4, end - 1, end}})}

TwoContainers == {<<e, f>> : e \in Few(0), f \in Few(KeyMod - 1)}

Visiting(ops, bitmaps, limits) == [ops |-> ops, bitmaps |-> bitmaps, limits |-> limits]

EveryVisit ==
  LET bitmaps == {<<>>} \union {<<e>> : e \in All(KeyMod - 1)} \union TwoContainers IN
  {Visiting({"iterator", "to_uint32_array", "statistics", "minimum", "maximum"}, bitmaps, {0}),
   Visiting({"iterate"}, {<<>>} \union TwoContainers, {0, 1, 4, 5})}

\* Other bitmaps: of every set of keys but all, with one type of container for each key.
SomeSources ==
  LET Holding(K) == {[key |-> k, type |-> IF k = 1 THEN "run" ELSE "array"] : k \in K}
  IN  {Holding(K) : K \in SUBSET (0 .. EntryKeys - 1) \ {0 .. EntryKeys - 1}}

=============================================================================
