----------------------------- MODULE VectorLoops ----------------------------
(***************************************************************************)
(* The loops over two arrays as a build with vector instructions has them: *)
(* a vector of values is read, compared and written at a time, and what is *)
(* left in the end is done by the loops over single values.  A store       *)
(* writes a whole vector, however few of its values are wanted: the next   *)
(* one begins behind those.                                                *)
(***************************************************************************)
EXTENDS MergeLoops

VARIABLES
  held,          \* the upper half of what has been merged
  last,          \* the lower half, the vector that was written last
  found          \* the places in the current vector whose values have been found

vectorVars == <<held, last, found>>

VectorInit == Init /\ held = <<>> /\ last = <<>> /\ found = {}

\* A vector can be read, from either array.
Full1 == pos1 + Lanes - 1 <= Len(call.first)
Full2 == pos2 + Lanes - 1 <= Len(call.second)
Vector1 == [i \in 1 .. Lanes |-> First(pos1 + i - 1).value]
Vector2 == [i \in 1 .. Lanes |-> Second(pos2 + i - 1).value]

Units(s) == [i \in DOMAIN s |-> Unit(s[i])]
ValuesOf(s) == [i \in DOMAIN s |-> s[i].value]

\* The places that were not asked for are filled with zeros, those behind the
\* allocated memory included.
Store(d, kept) ==
  [slots |-> [i \in 1 .. Max({Len(d.slots), d.n + Lanes}) |->
                IF i \in d.n + 1 .. d.n + Len(kept) THEN Unit(kept[i - d.n])
                ELSE IF i \in d.n + 1 .. d.n + Lanes THEN Unit(0)
                ELSE d.slots[i]],
   n     |-> d.n + Len(kept)]

\* The loop over single values does the rest, from the same places on.
Scalar(op) ==
  /\ call' = [call EXCEPT !.op = op] /\ pc' = "loop"
  /\ UNCHANGED <<pos1, pos2, start, buffered>>

-----------------------------------------------------------------------------
\* Unions and symmetric differences.

\* store_unique leaves out what was written before; store_unique_xor what occurs
\* twice, and is one value behind to know it.
Fresh(exclusive, old, new) ==
  LET w == <<old[Lanes - 1], old[Lanes]>> \o new
  IN  IF exclusive
      THEN InOrder({w[i] : i \in {j \in 2 .. Lanes + 1 : w[j] \notin {w[j - 1], w[j + 1]}}})
      ELSE InOrder(ToSet(new) \ {Last(old)})

\* sse_merge: the lower half is written, the upper half held back.
MergeStep(exclusive, old, s, t) ==
  LET merged == SortSeq(s \o t, <)
      lower  == SubSeq(merged, 1, Lanes)
  IN  /\ Become(Store(Dest, Fresh(exclusive, old, lower)))
      /\ last' = lower
      /\ held' = SubSeq(merged, Lanes + 1, 2 * Lanes)
      /\ UNCHANGED found

\* unique and unique_xor, of a sorted buffer.
Distinct(exclusive, buffer) ==
  InOrder({x \in ToSet(buffer) :
             exclusive => Cardinality({i \in DOMAIN buffer : buffer[i] = x}) = 1})

\* What is held back, with what is left of the array that has no whole vector more.
Leftover(exclusive) ==
  Fresh(exclusive, last, held)
    \o (IF exclusive /\ held[Lanes] # held[Lanes - 1] THEN <<held[Lanes]>> ELSE <<>>)
    \o ValuesOf(IF Full1 THEN Rest2 ELSE Rest1)

FinishMerge(exclusive, op) ==
  /\ call' = [call EXCEPT !.op     = op,
                          !.first  = Units(Distinct(exclusive, Leftover(exclusive))),
                          !.second = IF Full1 THEN Rest1 ELSE Rest2]
  /\ pc' = "loop" /\ Move(1, 1) /\ Become(Dest)
  /\ UNCHANGED <<start, buffered, vectorVars>>

\* union_vector16 and xor_vector16: after the first two, the vector that begins with
\* the lower value is merged next.
MergeVectors(exclusive, op) ==
  \/ /\ pc = "loop" /\ ~(Full1 /\ Full2)
     /\ Become(Dest) /\ Scalar(op) /\ UNCHANGED vectorVars
  \/ /\ pc = "loop" /\ Full1 /\ Full2
     /\ MergeStep(exclusive, [i \in 1 .. Lanes |-> ChunkSize - 1], Vector1, Vector2)
     /\ Move(pos1 + Lanes, pos2 + Lanes)
     /\ pc' = "vectors" /\ UNCHANGED <<call, start, buffered>>
  \/ /\ pc = "vectors" /\ Full1 /\ Full2 /\ Value1 <= Value2
     /\ MergeStep(exclusive, last, Vector1, held)
     /\ Move(pos1 + Lanes, pos2) /\ Continue
  \/ /\ pc = "vectors" /\ Full1 /\ Full2 /\ Value1 > Value2
     /\ MergeStep(exclusive, last, Vector2, held)
     /\ Move(pos1, pos2 + Lanes) /\ Continue
  \/ pc = "vectors" /\ ~(Full1 /\ Full2) /\ FinishMerge(exclusive, op)

VectorUnionTurn == call.op = "vector_union" /\ MergeVectors(FALSE, "array_union")
VectorXorTurn == call.op = "vector_xor" /\ MergeVectors(TRUE, "array_xor")

-----------------------------------------------------------------------------
\* Intersections and differences: a vector is left behind when its last value is no
\* higher than that of the other.

\* cmpistrm takes a value of zero for the end of the vector.
BeforeZero(v) ==
  {i \in DOMAIN v : \A j \in 1 .. i : v[j] # 0}

\* The places of v whose values are in w.
Matches(v, w, untilZero) ==
  IF untilZero
  THEN {i \in BeforeZero(v) : \E j \in BeforeZero(w) : v[i] = w[j]}
  ELSE {i \in DOMAIN v : v[i] \in ToSet(w)}

Taken(v, places) == InOrder({v[i] : i \in places})

Ahead1 == Last(Vector1) <= Last(Vector2)
Ahead2 == Last(Vector2) <= Last(Vector1)
Next1 == IF Ahead1 THEN pos1 + Lanes ELSE pos1

\* The second array is not looked at any more when the first has no whole vector left.
Next2 == IF Ahead2 /\ Next1 + Lanes - 1 <= Len(call.first) THEN pos2 + Lanes ELSE pos2

\* intersect_vector16: zero is found by the comparison that is told the lengths.
VectorIntersectionTurn ==
  LET hasZero == 0 \in {Value1, Value2}
  IN
  /\ Looping({"vector_intersection"}) /\ UNCHANGED vectorVars
  /\ \/ /\ Full1 /\ Full2 /\ Continue /\ Move(Next1, Next2)
        /\ Become(Store(Dest, Taken(Vector1, Matches(Vector1, Vector2, ~hasZero))))
     \/ /\ ~(Full1 /\ Full2) /\ Become(Dest) /\ Scalar("array_intersection")

\* The vector is written without what has been found in the second array.
StoreDifference(places) ==
  Become(Store(Dest, Taken(Vector1, DOMAIN Vector1 \ places)))

\* A vector is written when no value of it can follow in the second array; what has
\* been found in it so far is remembered until then.
WriteDifference(places) ==
  /\ IF Ahead1 THEN StoreDifference(places) ELSE Become(Dest)
  /\ found' = IF Ahead1 THEN {} ELSE places

\* difference_vector16 sets a zero aside first, and pads what is left of the second
\* array with zeros for the vector that is not finished.  It may write its first
\* argument.
VectorDifferenceTurn ==
  LET seen    == found \union Matches(Vector1, Vector2, TRUE)
      padded  == [i \in 1 .. Lanes |-> IF i <= Len(Rest2) THEN Rest2[i].value ELSE 0]
      scalar  == IF call.op = "vector_andnot" THEN "array_andnot" ELSE "array_andnot_inplace"
  IN
  /\ call.op \in {"vector_andnot", "vector_andnot_inplace"} /\ UNCHANGED <<held, last>>
  /\ \/ /\ pc = "loop" /\ pc' = "zero"
        /\ Become(IF Value1 = 0 /\ Value2 # 0 THEN Push(Dest, Unit(0)) ELSE Dest)
        /\ Move(IF Value1 = 0 THEN pos1 + 1 ELSE pos1, IF Value2 = 0 THEN pos2 + 1 ELSE pos2)
        /\ UNCHANGED <<call, start, buffered, found>>
     \/ /\ pc = "zero" /\ Full1 /\ Full2 /\ pc' = "vectors"
        /\ Become(Dest) /\ UNCHANGED <<call, pos1, pos2, start, buffered, found>>
     \/ /\ pc = "vectors" /\ Full1 /\ Full2 /\ WriteDifference(seen)
        /\ Move(Next1, Next2) /\ Continue
     \/ /\ pc = "vectors" /\ Full1 /\ ~Full2 /\ pc' = "rest"
        /\ StoreDifference(found \union Matches(Vector1, padded, TRUE))
        /\ Move(pos1 + Lanes, pos2) /\ UNCHANGED <<call, start, buffered, found>>
     \/ /\ \/ pc = "zero" /\ ~(Full1 /\ Full2)
           \/ pc = "vectors" /\ ~Full1
           \/ pc = "rest"
        /\ Become(Dest) /\ Scalar(scalar) /\ UNCHANGED found

VectorNext ==
  \/ Next /\ UNCHANGED vectorVars
  \/ VectorUnionTurn \/ VectorXorTurn \/ VectorIntersectionTurn \/ VectorDifferenceTurn

=============================================================================
