------------------------------ MODULE MergeLoops -----------------------------
(***************************************************************************)
(* The loops that walk two run or array containers side by side, one turn  *)
(* a step, and the container they write: slots that were allocated for the *)
(* most there can be, of which the first n are in use.  Loops in place     *)
(* write the slots they read from.                                         *)
(*                                                                         *)
(* The loops take a value of an array for a run of length 0; arrays are    *)
(* sequences of those.  Positions are 1-based.                             *)
(***************************************************************************)
EXTENDS Integers, Sequences, FiniteSets, SequencesExt, FiniteSetsExt

CONSTANTS
  ChunkSize,     \* number of low halves, 2^16 in the code
  Lanes,         \* values in a vector, 8 in the code
  Arguments      \* kinds of calls: [ops, As, Bs, froms, tos], sets of their arguments

VARIABLES
  call,          \* the arguments, with their containers
  pc,            \* "start", "loop", another part of the loop, or "done"
  pos1, pos2,    \* the next run or value of either container
  start,         \* where what is left of the current run begins
  buffered,      \* the run or value read ahead
  slots,         \* the container that is written, from slot 1
  n              \* how many slots it uses; what a question returns

vars == <<call, pc, pos1, pos2, start, buffered, slots, n>>

Lows == 0 .. ChunkSize - 1

Run(value, length) == [value |-> value, length |-> length]
Unit(value) == Run(value, 0)
EndOf(r) == r.value + r.length
Stop(r) == EndOf(r) + 1
Span(from, stop) == Run(from, stop - from - 1)
Covered(s) == UNION {s[i].value .. EndOf(s[i]) : i \in DOMAIN s}

InOrder(S) == SelectSeq([i \in 1 .. ChunkSize |-> i - 1], LAMBDA x : x \in S)

\* The array and the run container of a set.
UnitRuns(S) ==
  LET values == InOrder(S) IN [i \in DOMAIN values |-> Unit(values[i])]

RunsOf(S) ==
  LET starts == InOrder({x \in S : x - 1 \notin S})
  IN  [i \in DOMAIN starts |->
         Span(starts[i], Min({y \in starts[i] .. ChunkSize : y \notin S}))]

IsFull(s) == s = RunsOf(Lows)

\* advanceUntil, for the slots of either container.
AdvanceUntil(s, pos, min) ==
  Min({i \in pos + 1 .. Len(s) : s[i].value >= min} \union {Len(s) + 1})

-----------------------------------------------------------------------------
\* Calls: what they read, where they write.

Unions == {"union", "union_inplace", "array_run_union", "array_run_union_inplace"}
Exclusive == {"xor", "array_run_xor"}
Differences == {"andnot", "run_array_andnot"}
Negations == {"negation", "negation_inplace"}
Questions == {"is_subset", "array_is_subset", "array_is_subset_run", "run_equals_array",
              "run_rank", "run_select"}
ArrayLoops == {"array_is_subset", "array_union", "array_xor", "array_andnot", "array_andnot_inplace",
               "array_intersection", "array_intersection_inplace",
               "array_intersection_skewed", "array_intersection_skewed_inplace",
               "vector_union", "vector_xor", "vector_andnot", "vector_andnot_inplace",
               "vector_intersection"}
ArrayRunLoops == {"array_is_subset_run", "array_run_intersection", "array_run_intersection_inplace",
                  "array_run_andnot", "array_run_andnot_inplace"}

\* The container that is written is the first one, or the second.
Aliased == {"negation_inplace", "array_andnot_inplace", "array_intersection_inplace",
            "vector_andnot_inplace",
            "array_run_intersection_inplace", "array_run_andnot_inplace"}
SecondAliased == {"array_intersection_skewed_inplace"}
Moved == {"union_inplace", "array_run_union_inplace"}

\* In a loop over a run and an array the run container comes first, but where the
\* array is written.
FirstIsArray == ArrayLoops \union ArrayRunLoops \union {"array_negation", "from_array"}
SecondIsArray ==
  ArrayLoops \union {"array_run_union", "array_run_union_inplace", "array_run_xor",
                     "run_array_andnot", "run_array_subtract", "run_equals_array"}

\* The others return run containers.
ArrayResult == (FirstIsArray \ {"from_array"}) \union {"run_array_subtract"}

Container(S, isArray) == IF isArray THEN UnitRuns(S) ELSE RunsOf(S)

Junk == Run(-1, -1)

Padded(s, capacity) == s \o [i \in 1 .. capacity - Len(s) |-> Junk]

\* The capacities asked for, and none beyond it.
Capacities(op, s1, s2, from, to) ==
  LET card == Cardinality(Covered(s1)) IN
  CASE op \in {"union", "xor", "array_run_xor", "intersection", "andnot", "array_union",
               "array_xor", "vector_union", "vector_xor"} -> {Len(s1) + Len(s2)}
    [] op \in Moved -> {2 * Len(s1) + Len(s2)}
    [] op = "array_run_union" -> {2 * (Len(s1) + Len(s2))}
    [] op = "run_array_andnot" -> {card + Len(s2)}
    [] op \in {"negation", "add", "remove"} -> {Len(s1) + 1}
    [] op = "negation_inplace" -> {Len(s1), Len(s1) + 1}
    [] op = "array_negation" ->
         {IF from >= to THEN Len(s1)
          ELSE Len(s1) + to - from - 2 * Cardinality(Covered(s1) \intersect from .. to - 1)}
    [] op = "from_array" -> {Cardinality({i \in DOMAIN s1 :
                                            i = 1 \/ s1[i].value # s1[i - 1].value + 1})}
    [] op = "run_array_subtract" -> {card}
    [] op \in Questions -> {0}
    [] op \in {"array_intersection", "array_intersection_skewed"} ->
         {Min({Len(s1), Len(s2)})}
    [] op = "vector_intersection" -> {Min({Len(s1), Len(s2)}) + Lanes}
    [] op \in SecondAliased -> {Len(s2)}
    [] OTHER -> {Len(s1)}

\* The sets A and B are what the two containers hold.
InitCall(op, A, B, from, to) ==
  LET s1 == Container(A, op \in FirstIsArray)
      s2 == Container(B, op \in SecondIsArray)
      old == IF op \in Aliased \union Moved THEN s1
             ELSE IF op \in SecondAliased THEN s2 ELSE <<>>
  IN
  /\ \E capacity \in Capacities(op, s1, s2, from, to) :
       /\ call = [op |-> op, A |-> A, B |-> B, first |-> s1, second |-> s2,
                  from |-> from, to |-> to, capacity |-> capacity]
       /\ slots = Padded(old, capacity)
  /\ n = Len(IF op \in SecondAliased THEN <<>> ELSE old)

Init ==
  /\ \E kind \in Arguments :
       \E op \in kind.ops, A \in kind.As, B \in kind.Bs, from \in kind.froms, to \in kind.tos :
         InitCall(op, A, B, from, to)
  /\ pc = "start" /\ pos1 = 1 /\ pos2 = 1 /\ start = -1 /\ buffered = Junk

\* How far the container that is written has its old content from where it was:
\* run_container_union_inplace moves it behind the most that can be written.
Offset == IF call.op \in Moved THEN Len(call.first) + Len(call.second) ELSE 0

First(i) == IF call.op \in Aliased \union Moved THEN slots[Offset + i] ELSE call.first[i]
Second(i) == IF call.op \in SecondAliased THEN slots[i] ELSE call.second[i]
Left1 == pos1 <= Len(call.first)
Left2 == pos2 <= Len(call.second)
Value1 == First(pos1).value
Value2 == Second(pos2).value

Rest1 == [i \in 1 .. Len(call.first) - pos1 + 1 |-> First(pos1 + i - 1)]
Rest2 == [i \in 1 .. Len(call.second) - pos2 + 1 |-> Second(pos2 + i - 1)]

Dest == [slots |-> slots, n |-> n]
Become(d) == slots' = d.slots /\ n' = d.n
Push(d, r) == [slots |-> [d.slots EXCEPT ![d.n + 1] = r], n |-> d.n + 1]
PushAll(d, s) == FoldLeft(Push, d, s)
Amend(d, r) == [d EXCEPT !.slots[d.n] = r]
Copied(s) == PushAll([Dest EXCEPT !.n = 0], s)

Move(i, j) == pos1' = i /\ pos2' = j
Looping(ops) == pc = "loop" /\ call.op \in ops
Continue == UNCHANGED <<call, pc, start, buffered>>
Return == pc' = "done" /\ UNCHANGED <<call, pos1, pos2, start, buffered>>
Answer(a) == slots' = slots /\ n' = a /\ Return
-----------------------------------------------------------------------------
\* Appending to a run container.

\* run_container_append, and its like for a single value and an empty container.
AppendRun(d, r) ==
  LET previous == d.slots[d.n]
  IN  IF d.n = 0 \/ r.value > EndOf(previous) + 1 THEN Push(d, r)
      ELSE IF Stop(r) > EndOf(previous) THEN Amend(d, Span(previous.value, Stop(r)))
      ELSE d

\* run_container_smart_append_exclusive: what the last run and the new one share is
\* taken out, what follows both of them comes last.
AppendExclusive(d, r) ==
  LET last   == d.slots[d.n]
      ends   == {Stop(last), Stop(r)}
      beyond == Span(Min(ends), Max(ends))
      cut    == Amend(d, Span(last.value, r.value))
  IN  IF d.n = 0 \/ r.value > Stop(last) THEN Push(d, r)
      ELSE IF r.value = Stop(last) THEN Amend(d, Span(last.value, Stop(r)))
      ELSE IF r.value = last.value
        THEN IF Stop(r) = Stop(last) THEN [d EXCEPT !.n = @ - 1] ELSE Amend(d, beyond)
      ELSE IF Stop(r) = Stop(last) THEN cut ELSE Push(cut, beyond)

-----------------------------------------------------------------------------
\* Loops over two run containers, or a run container and an array.

\* A container with every value in it makes the loop unnecessary.
Shortcut ==
  LET s1 == call.first
      s2 == call.second
  IN  IF call.op \in Unions THEN IF IsFull(s1) THEN s1 ELSE IF IsFull(s2) THEN s2 ELSE <<>>
      ELSE IF call.op = "intersection"
        THEN IF IsFull(s1) THEN s2 ELSE IF IsFull(s2) THEN s1 ELSE <<>>
      ELSE IF call.op \in Negations \union {"array_negation"} /\ call.from >= call.to THEN s1
      ELSE <<>>

\* Mutant: a range that splits a run at its start is taken for one that does not.
OneMoreReversed ==
  /\ (call.from - 1 \in Covered(call.first)) # (call.from \in Covered(call.first))
  /\ (call.to - 1 \in Covered(call.first)) = (call.to \in Covered(call.first))

\* Whether a negated range splits no run and joins none, neither at its start nor at
\* its end; there is one run more then.
OneMore ==
  /\ (call.from - 1 \in Covered(call.first)) = (call.from \in Covered(call.first))
  /\ (call.to - 1 \in Covered(call.first)) = (call.to \in Covered(call.first))

\* The cardinalities alone say no.
Refused ==
  LET card1 == Cardinality(Covered(call.first))
      card2 == Cardinality(Covered(call.second))
  IN  \/ call.op \in {"array_is_subset", "array_is_subset_run"} /\ card1 > card2
      \/ call.op = "run_equals_array" /\ card1 # card2

\* Without a slot to spare the negation in place may have to write a new container.
Begin ==
  /\ pc = "start"
  /\ IF Refused THEN Answer(0)
     ELSE IF Shortcut # <<>> THEN Become(Copied(Shortcut)) /\ Return
     ELSE /\ pc' = "loop" /\ UNCHANGED <<pos1, pos2, buffered>>
          /\ start' = call.first[1].value
          /\ n' = 0
          /\ IF call.op = "negation_inplace" /\ Len(slots) = n /\ OneMore
             THEN /\ call' = [call EXCEPT !.op = "negation", !.capacity = n + 1]
                  /\ slots' = Padded(<<>>, n + 1)
             ELSE /\ UNCHANGED call
                  /\ slots' = IF call.op \notin Moved THEN slots
                              ELSE [i \in DOMAIN slots |->
                                      IF i - Offset \in 1 .. n THEN slots[i - Offset]
                                      ELSE slots[i]]

Appended(exclusive, r) == IF exclusive THEN AppendExclusive(Dest, r) ELSE AppendRun(Dest, r)

\* The run or value that begins first is appended.
TakeLower(exclusive) ==
  \/ /\ Left1 /\ (Left2 => Value1 <= Value2)
     /\ Become(Appended(exclusive, First(pos1))) /\ Move(pos1 + 1, pos2) /\ Continue
  \/ /\ Left2 /\ (Left1 => Value1 > Value2)
     /\ Become(Appended(exclusive, Second(pos2))) /\ Move(pos1, pos2 + 1) /\ Continue
  \/ ~Left1 /\ ~Left2 /\ Become(Dest) /\ Return

UnionTurn == Looping({"union"}) /\ TakeLower(FALSE)
UnionInplaceTurn == Looping({"union_inplace"}) /\ TakeLower(FALSE)
ArrayRunUnionTurn == Looping({"array_run_union"}) /\ TakeLower(FALSE)
ArrayRunUnionInplaceTurn == Looping({"array_run_union_inplace"}) /\ TakeLower(FALSE)
XorTurn == Looping({"xor"}) /\ TakeLower(TRUE)
ArrayRunXorTurn == Looping({"array_run_xor"}) /\ TakeLower(TRUE)

IntersectionTurn ==
  LET stop1 == Stop(First(pos1))
      stop2 == Stop(Second(pos2))
      both  == Left1 /\ Left2
  IN
  /\ Looping({"intersection"})
  /\ \/ both /\ stop1 <= Value2 /\ Become(Dest) /\ Move(pos1 + 1, pos2) /\ Continue
     \/ both /\ stop2 <= Value1 /\ Become(Dest) /\ Move(pos1, pos2 + 1) /\ Continue
     \/ /\ both /\ stop1 > Value2 /\ stop2 > Value1 /\ Continue
        /\ Become(Push(Dest, Span(Max({Value1, Value2}), Min({stop1, stop2}))))
        /\ Move(IF stop1 <= stop2 THEN pos1 + 1 ELSE pos1,
                IF stop2 <= stop1 THEN pos2 + 1 ELSE pos2)
     \/ ~both /\ Become(Dest) /\ Return

NextRun ==
  /\ pos1' = pos1 + 1
  /\ start' = IF pos1 < Len(call.first) THEN First(pos1 + 1).value ELSE start

\* What is left of the current run, from start on, is kept up to the next one to take out.
TakeOut ==
  LET stop1 == Stop(First(pos1))
      stop2 == Stop(Second(pos2))
      both  == Left1 /\ Left2
      keep  == UNCHANGED <<call, pc, buffered>>
  IN
  \/ /\ both /\ stop1 <= Value2 /\ keep /\ NextRun /\ pos2' = pos2
     /\ Become(Push(Dest, Span(start, stop1)))
  \/ both /\ stop1 > Value2 /\ stop2 <= start /\ Become(Dest) /\ Move(pos1, pos2 + 1) /\ Continue
  \/ /\ both /\ stop1 > Value2 /\ stop2 > start /\ keep /\ pos2' = pos2
     /\ Become(IF start < Value2 THEN Push(Dest, Span(start, Value2)) ELSE Dest)
     /\ IF stop2 < stop1 THEN start' = stop2 /\ pos1' = pos1 ELSE NextRun
  \/ /\ Left1 /\ ~Left2 /\ Return
     /\ Become(PushAll(Dest, <<Span(start, stop1)>> \o Tail(Rest1)))
  \/ ~Left1 /\ Become(Dest) /\ Return

AndnotTurn == Looping({"andnot"}) /\ TakeOut
RunArrayAndnotTurn == Looping({"run_array_andnot"}) /\ TakeOut

\* Mutant: in place, a run is read when it is its turn.
ReadAheadNot == Left1 /\ buffered' = IF pos1 < Len(call.first) THEN First(pos1) ELSE buffered

\* In place, a run is read before the one before it is appended.
ReadAhead == Left1 /\ buffered' = IF pos1 < Len(call.first) THEN First(pos1 + 1) ELSE buffered

\* Runs that begin below the range stay; it is appended itself, then those behind.
Negate ==
  \/ /\ pc = "loop" /\ Left1 /\ Value1 < call.from
     /\ Become(Push(Dest, First(pos1))) /\ Move(pos1 + 1, pos2) /\ Continue
  \/ /\ pc = "loop" /\ ~(Left1 /\ Value1 < call.from)
     /\ buffered' = IF Left1 THEN First(pos1) ELSE buffered
     /\ Become(AppendExclusive(Dest, Span(call.from, call.to)))
     /\ pc' = "behind" /\ UNCHANGED <<call, pos1, pos2, start>>
  \/ /\ pc = "behind" /\ ReadAhead
     /\ Become(AppendExclusive(Dest, buffered))
     /\ Move(pos1 + 1, pos2) /\ UNCHANGED <<call, pc, start>>
  \/ pc = "behind" /\ ~Left1 /\ Become(Dest) /\ Return

NegationTurn == call.op = "negation" /\ Negate
NegationInplaceTurn == call.op = "negation_inplace" /\ Negate

-----------------------------------------------------------------------------
\* Questions: n is 1 for yes, or the number that was asked for.

\* Both containers are runs.
SubsetTurn ==
  LET stop1 == EndOf(First(pos1))
      stop2 == EndOf(Second(pos2))
      both  == Left1 /\ Left2
  IN
  /\ Looping({"is_subset"})
  /\ \/ both /\ Value1 < Value2 /\ Answer(0)
     \/ /\ both /\ Value1 >= Value2 /\ Become(Dest) /\ Continue
        /\ Move(IF stop1 <= stop2 THEN pos1 + 1 ELSE pos1,
                IF stop1 >= stop2 THEN pos2 + 1 ELSE pos2)
     \/ ~both /\ Answer(IF Left1 THEN 0 ELSE 1)

\* The first is an array, the second one too or runs.
ArraySubsetTurn(op, next2) ==
  LET stop2 == EndOf(Second(pos2))
      both  == Left1 /\ Left2
  IN
  /\ Looping({op})
  /\ \/ both /\ Value1 < Value2 /\ Answer(0)
     \/ both /\ Value1 > stop2 /\ Become(Dest) /\ Move(pos1, pos2 + 1) /\ Continue
     \/ both /\ Value1 \in Value2 .. stop2 /\ Become(Dest) /\ Move(pos1 + 1, next2) /\ Continue
     \/ ~both /\ Answer(IF Left1 THEN 0 ELSE 1)

ArrayIsSubsetTurn == ArraySubsetTurn("array_is_subset", pos2 + 1)
ArrayIsSubsetRunTurn == ArraySubsetTurn("array_is_subset_run", pos2)

\* start counts the values of the current run, each the next one of the array.
RunEqualsArrayTurn ==
  /\ Looping({"run_equals_array"})
  /\ \/ /\ Left1 /\ start <= EndOf(First(pos1)) /\ Left2 /\ Value2 = start
        /\ Become(Dest) /\ pos2' = pos2 + 1 /\ start' = start + 1
        /\ UNCHANGED <<call, pc, pos1, buffered>>
     \/ /\ Left1 /\ start <= EndOf(First(pos1)) /\ (Left2 => Value2 # start)
        /\ Answer(0)
     \/ /\ Left1 /\ start > EndOf(First(pos1)) /\ NextRun
        /\ Become(Dest) /\ UNCHANGED <<call, pc, pos2, buffered>>
     \/ ~Left1 /\ Answer(IF Left2 THEN 0 ELSE 1)

\* n counts the values of the runs that have been passed.
PassRun == slots' = slots /\ n' = n + First(pos1).length + 1 /\ Move(pos1 + 1, pos2) /\ Continue

RunRankTurn ==
  /\ Looping({"run_rank"})
  /\ \/ Left1 /\ call.from > EndOf(First(pos1)) /\ PassRun
     \/ Left1 /\ call.from \in Value1 .. EndOf(First(pos1)) /\ Answer(n + call.from - Value1 + 1)
     \/ (Left1 => call.from < Value1) /\ Answer(n)

RunSelectTurn ==
  /\ Looping({"run_select"})
  /\ \/ Left1 /\ call.from > n + First(pos1).length /\ PassRun
     \/ Left1 /\ call.from <= n + First(pos1).length /\ Answer(Value1 + call.from - n)
     \/ ~Left1 /\ Answer(n)

-----------------------------------------------------------------------------
\* Loops over arrays.

Equal == Left1 /\ Left2 /\ Value1 = Value2
Lower1 == Left1 /\ Left2 /\ Value1 < Value2
Lower2 == Left1 /\ Left2 /\ Value1 > Value2

\* What is left of either array follows.
MergeArrays(both) ==
  \/ /\ Lower1 /\ Become(Push(Dest, First(pos1))) /\ Move(pos1 + 1, pos2) /\ Continue
  \/ /\ Lower2 /\ Become(Push(Dest, Second(pos2))) /\ Move(pos1, pos2 + 1) /\ Continue
  \/ /\ Equal /\ Become(both) /\ Move(pos1 + 1, pos2 + 1) /\ Continue
  \/ ~(Left1 /\ Left2) /\ Become(PushAll(Dest, Rest1 \o Rest2)) /\ Return

ArrayUnionTurn == Looping({"array_union"}) /\ MergeArrays(Push(Dest, First(pos1)))
ArrayXorTurn == Looping({"array_xor"}) /\ MergeArrays(Dest)

\* difference_uint16, which may write its first argument.
ArrayDifferenceTurn ==
  /\ Looping({"array_andnot", "array_andnot_inplace"})
  /\ \/ Lower1 /\ Become(Push(Dest, First(pos1))) /\ Move(pos1 + 1, pos2) /\ Continue
     \/ Lower2 /\ Become(Dest) /\ Move(pos1, pos2 + 1) /\ Continue
     \/ Equal /\ Become(Dest) /\ Move(pos1 + 1, pos2 + 1) /\ Continue
     \/ ~(Left1 /\ Left2) /\ Become(PushAll(Dest, Rest1)) /\ Return

\* intersect_uint16, which may write its first argument.
ArrayIntersectionTurn ==
  /\ Looping({"array_intersection", "array_intersection_inplace"})
  /\ \/ Lower1 /\ Become(Dest) /\ Move(pos1 + 1, pos2) /\ Continue
     \/ Lower2 /\ Become(Dest) /\ Move(pos1, pos2 + 1) /\ Continue
     \/ Equal /\ Become(Push(Dest, First(pos1))) /\ Move(pos1 + 1, pos2 + 1) /\ Continue
     \/ ~(Left1 /\ Left2) /\ Become(Dest) /\ Return

\* intersect_skewed_uint16 gallops in the longer array, and may write that.
Ahead(value) == pos2 + AdvanceUntil(Rest2, 1, value) - 1

ArraySkewedIntersectionTurn ==
  /\ Looping({"array_intersection_skewed", "array_intersection_skewed_inplace"})
  /\ \/ Lower1 /\ Become(Dest) /\ Move(pos1 + 1, pos2) /\ Continue
     \/ Lower2 /\ Become(Dest) /\ Move(pos1, Ahead(Value1)) /\ Continue
     \/ /\ Equal /\ Become(Push(Dest, First(pos1))) /\ Continue
        /\ Move(pos1 + 1, IF pos1 < Len(call.first) THEN Ahead(First(pos1 + 1).value) ELSE pos2)
     \/ ~(Left1 /\ Left2) /\ Become(Dest) /\ Return

\* array_run_container_intersection, which may write the array.
ArrayRunIntersectionTurn ==
  /\ Looping({"array_run_intersection", "array_run_intersection_inplace"})
  /\ \/ /\ Left1 /\ Left2 /\ EndOf(Second(pos2)) < Value1
        /\ Become(Dest) /\ Move(pos1, pos2 + 1) /\ Continue
     \/ /\ Left1 /\ Left2 /\ EndOf(Second(pos2)) >= Value1 /\ Value2 > Value1
        /\ Become(Dest) /\ Move(pos1 + AdvanceUntil(Rest1, 1, Value2) - 1, pos2) /\ Continue
     \/ /\ Left1 /\ Left2 /\ EndOf(Second(pos2)) >= Value1 /\ Value2 <= Value1
        /\ Become(Push(Dest, First(pos1))) /\ Move(pos1 + 1, pos2) /\ Continue
     \/ ~(Left1 /\ Left2) /\ Become(Dest) /\ Return

\* array_run_container_andnot: behind the last run comes one that no value reaches.
ArrayRunDifferenceTurn ==
  LET run == IF Left2 THEN Second(pos2) ELSE Unit(ChunkSize + 1)
  IN
  /\ Looping({"array_run_andnot", "array_run_andnot_inplace"})
  /\ \/ /\ Left1 /\ Value1 <= EndOf(run) /\ Move(pos1 + 1, pos2) /\ Continue
        /\ Become(IF Value1 < run.value THEN Push(Dest, First(pos1)) ELSE Dest)
     \/ Left1 /\ Value1 > EndOf(run) /\ Become(Dest) /\ Move(pos1, pos2 + 1) /\ Continue
     \/ ~Left1 /\ Become(Dest) /\ Return

\* The places where the values of a range begin and end in the array.
StartIndex == Cardinality({i \in DOMAIN call.first : call.first[i].value < call.from}) + 1
LastIndex == Cardinality({i \in DOMAIN call.first : call.first[i].value <= call.to - 1})

\* array_container_negation_range where the result is an array: start counts the
\* values of the range.
ArrayNegationTurn ==
  LET missing == pos1 > LastIndex \/ start # Value1
  IN
  /\ call.op = "array_negation"
  /\ \/ /\ pc = "loop" /\ pc' = "range"
        /\ Become(PushAll(Dest, SubSeq(call.first, 1, StartIndex - 1)))
        /\ pos1' = StartIndex /\ start' = call.from /\ UNCHANGED <<call, pos2, buffered>>
     \/ /\ pc = "range" /\ start < call.to /\ start' = start + 1
        /\ Become(IF missing THEN Push(Dest, Unit(start)) ELSE Dest)
        /\ pos1' = (IF missing THEN pos1 ELSE pos1 + 1)
        /\ UNCHANGED <<call, pc, pos2, buffered>>
     \/ /\ pc = "range" /\ start >= call.to /\ Return
        /\ Become(PushAll(Dest, SubSeq(call.first, LastIndex + 1, Len(call.first))))

\* run_container_from_array, and the same loop in convert_run_optimize.
FromArrayTurn ==
  LET previous == call.first[pos1 - 1].value
      breaks   == pos1 > 1 /\ Value1 # previous + 1
  IN
  /\ Looping({"from_array"})
  /\ \/ /\ Left1 /\ Become(IF breaks THEN Push(Dest, Span(start, previous + 1)) ELSE Dest)
        /\ start' = (IF breaks THEN Value1 ELSE start)
        /\ Move(pos1 + 1, pos2) /\ UNCHANGED <<call, pc, buffered>>
     \/ ~Left1 /\ Become(Push(Dest, Span(start, previous + 1))) /\ Return

\* run_array_array_subtract: pos2 is the place that the search begins behind, and
\* buffered the next value that is left out.
RunArraySubtractTurn ==
  LET stop  == Stop(First(pos1))
      found == AdvanceUntil(call.second, pos2 - 1, Value1)
      hits  == found <= Len(call.second) /\ Second(found).value < stop
      all   == [i \in 1 .. stop - Value1 |-> Unit(Value1 + i - 1)]
  IN
  /\ call.op = "run_array_subtract"
  /\ \/ /\ pc = "loop" /\ Left1 /\ ~hits /\ Continue
        /\ Become(PushAll(Dest, all)) /\ Move(pos1 + 1, found)
     \/ /\ pc = "loop" /\ Left1 /\ hits /\ Become(Dest)
        /\ pc' = "values" /\ start' = Value1 /\ buffered' = Second(found)
        /\ Move(pos1, found) /\ UNCHANGED call
     \/ /\ pc = "values" /\ start < stop /\ start # buffered.value
        /\ Become(Push(Dest, Unit(start))) /\ start' = start + 1
        /\ UNCHANGED <<call, pc, pos1, pos2, buffered>>
     \/ /\ pc = "values" /\ start < stop /\ start = buffered.value /\ Become(Dest)
        /\ pos2' = (IF pos2 < Len(call.second) THEN pos2 + 1 ELSE pos2)
        /\ buffered' = (IF pos2 < Len(call.second) THEN Second(pos2 + 1) ELSE Unit(0))
        /\ start' = start + 1 /\ UNCHANGED <<call, pc, pos1>>
     \/ /\ pc = "values" /\ start = stop /\ pc' = "loop" /\ Become(Dest)
        /\ Move(pos1 + 1, pos2) /\ UNCHANGED <<call, start, buffered>>
     \/ pc = "loop" /\ ~Left1 /\ Become(Dest) /\ Return

-----------------------------------------------------------------------------
\* One value, in a run container: the run before it may grow, the one behind it may,
\* or both become one.

WithValue(s, x) ==
  LET i == Cardinality({j \in DOMAIN s : s[j].value <= x})
      follows  == i > 0 /\ x = Stop(s[i])
      precedes == i < Len(s) /\ s[i + 1].value = x + 1
  IN  IF i > 0 /\ x <= EndOf(s[i]) THEN s
      ELSE IF follows /\ precedes
        THEN RemoveAt([s EXCEPT ![i] = Span(@.value, Stop(s[i + 1]))], i + 1)
      ELSE IF follows THEN [s EXCEPT ![i].length = @ + 1]
      ELSE IF precedes THEN [s EXCEPT ![i + 1] = Run(x, @.length + 1)]
      ELSE InsertAt(s, i + 1, Unit(x))

WithoutValue(s, x) ==
  LET i == Cardinality({j \in DOMAIN s : s[j].value <= x})
  IN  IF i = 0 \/ x > EndOf(s[i]) THEN s
      ELSE IF x = s[i].value
        THEN IF s[i].length = 0 THEN RemoveAt(s, i) ELSE [s EXCEPT ![i] = Run(x + 1, @.length - 1)]
      ELSE IF x = EndOf(s[i]) THEN [s EXCEPT ![i].length = @ - 1]
      ELSE InsertAt([s EXCEPT ![i] = Span(@.value, x)], i + 1, Span(x + 1, Stop(s[i])))

OneValue(op, s) ==
  Looping({op}) /\ Return /\ slots' = s /\ n' = Len(s)

AddValue == OneValue("add", WithValue(call.first, call.from))
RemoveValue == OneValue("remove", WithoutValue(call.first, call.from))

Next ==
  \/ Begin
  \/ UnionTurn \/ UnionInplaceTurn \/ ArrayRunUnionTurn \/ ArrayRunUnionInplaceTurn
  \/ XorTurn \/ ArrayRunXorTurn \/ IntersectionTurn \/ AndnotTurn \/ RunArrayAndnotTurn
  \/ NegationTurn \/ NegationInplaceTurn
  \/ SubsetTurn \/ ArrayIsSubsetTurn \/ ArrayIsSubsetRunTurn \/ RunEqualsArrayTurn
  \/ RunRankTurn \/ RunSelectTurn
  \/ ArrayUnionTurn \/ ArrayXorTurn \/ ArrayDifferenceTurn
  \/ ArrayIntersectionTurn \/ ArraySkewedIntersectionTurn
  \/ ArrayRunIntersectionTurn \/ ArrayRunDifferenceTurn
  \/ ArrayNegationTurn \/ FromArrayTurn \/ RunArraySubtractTurn
  \/ AddValue \/ RemoveValue

Spec == Init /\ [][Next]_vars /\ WF_vars(Next)

-----------------------------------------------------------------------------
\* What a call is to return.
Wanted ==
  LET A == call.A
      B == call.B
      range == call.from .. call.to - 1
  IN
  CASE call.op \in Unions -> RunsOf(A \union B)
    [] call.op \in Exclusive -> RunsOf(SymDiff(A, B))
    [] call.op = "intersection" -> RunsOf(A \intersect B)
    [] call.op \in Differences -> RunsOf(A \ B)
    [] call.op \in Negations -> RunsOf(SymDiff(A, range))
    [] call.op \in {"array_union", "vector_union"} -> UnitRuns(A \union B)
    [] call.op \in {"array_xor", "vector_xor"} -> UnitRuns(SymDiff(A, B))
    [] call.op \in {"array_andnot", "array_andnot_inplace", "run_array_subtract",
                    "array_run_andnot", "array_run_andnot_inplace"} -> UnitRuns(A \ B)
    [] call.op \in {"array_intersection", "array_intersection_inplace",
                    "array_intersection_skewed", "array_intersection_skewed_inplace",
                    "array_run_intersection", "array_run_intersection_inplace"} ->
         UnitRuns(A \intersect B)
    [] call.op = "array_negation" -> UnitRuns(SymDiff(A, range))
    [] call.op = "from_array" -> RunsOf(A)
    [] call.op = "add" -> RunsOf(A \union {call.from})
    [] call.op = "remove" -> RunsOf(A \ {call.from})

\* What a question is answered with.  A select that finds nothing returns how many
\* values its caller has to look behind.
WantedAnswer ==
  LET A == call.A
      B == call.B
      YesIf(p) == IF p THEN 1 ELSE 0
  IN
  CASE call.op \in {"is_subset", "array_is_subset", "array_is_subset_run"} -> YesIf(A \subseteq B)
    [] call.op = "run_equals_array" -> YesIf(A = B)
    [] call.op = "run_rank" -> Cardinality({x \in A : x <= call.from})
    [] call.op = "run_select" ->
         IF call.from < Cardinality(A) THEN InOrder(A)[call.from + 1] ELSE Cardinality(A)

\* A call returns the set that its operation promises, in order, and as the fewest
\* runs if they are runs: nothing that was still to be read has been written over.
MergeExact ==
  pc = "done" => IF call.op \in Questions THEN n = WantedAnswer
                 ELSE SubSeq(slots, 1, n) = Wanted

\* At every turn what has been written fits what was allocated, is in order and, as
\* runs, neither overlaps nor touches.
MergeSound ==
  call.op \notin Questions =>
    /\ n <= Len(slots) /\ Len(slots) <= call.capacity
    /\ \A i \in 2 .. n :
         slots[i].value > EndOf(slots[i - 1]) + (IF call.op \in ArrayResult THEN 0 ELSE 1)

=============================================================================
