------------------------------ MODULE WordLoops -----------------------------
(***************************************************************************)
(* A bitset container as the words it is stored in: the functions that     *)
(* change or read it handle whole words at a time, with masks at both ends *)
(* of a range.  A word is the set of its bits that are one.                *)
(*                                                                         *)
(* The portable versions of the loops; of those with vector instructions   *)
(* the one that writes more than it keeps.                                 *)
(***************************************************************************)
EXTENDS Integers, Sequences, FiniteSets, SequencesExt, FiniteSetsExt

CONSTANTS
  Words,         \* BITSET_CONTAINER_SIZE_IN_WORDS, 1024 in the code
  Bits,          \* bits of a word, 64 in the code
  ByteBits,      \* bits of a byte, 8 in the code
  Jobs           \* kinds of calls: [ops, bits, others, froms, tos], sets of arguments

VARIABLES
  call,           \* the arguments
  pc,         \* "loop" or "done"
  words,         \* the words of the bitset
  card,          \* its cardinality
  turn,          \* the next run, value or word
  gap,           \* where what lies before the next run begins; how much has been passed
  rest,          \* what is left of the word that is read
  out,           \* runs or values that are returned, or the answer to a question
  reach          \* how many slots have been written on the way

vars == <<call, pc, words, card, turn, gap, rest, out, reach>>

InOrder(S) == SelectSeq([i \in 1 .. Words * Bits |-> i - 1], LAMBDA p : p \in S)

Positions == 0 .. Words * Bits - 1
Ones == 0 .. Bits - 1

WordsOf(S) == [w \in 0 .. Words - 1 |-> {b \in Ones : w * Bits + b \in S}]
Elements(ws) == {p \in Positions : p % Bits \in ws[p \div Bits]}
Count(ws) == MapThenSumSet(LAMBDA w : Cardinality(ws[w]), DOMAIN ws)

Word(p) == p \div Bits

\* (~0) << (start % 64) and (~0) >> ((-stop) % 64)
From(start) == {b \in Ones : b >= start % Bits}
Upto(stop) == {b \in Ones : b < Bits - ((-stop) % Bits)}

\* The bits of word w in start .. stop - 1, put together from the two masks.
Mask(w, start, stop) ==
  LET first == Word(start)
      last  == Word(stop - 1)
  IN  IF w = first /\ w = last THEN From(start) \intersect Upto(stop)
      ELSE IF w = first THEN From(start)
      ELSE IF w = last THEN Upto(stop)
      ELSE IF first < w /\ w < last THEN Ones
      ELSE {}

SetRange(ws, start, stop) ==
  IF start = stop THEN ws
  ELSE [w \in DOMAIN ws |-> ws[w] \union Mask(w, start, stop)]

ResetRange(ws, start, stop) ==
  IF start = stop THEN ws
  ELSE [w \in DOMAIN ws |-> ws[w] \ Mask(w, start, stop)]

\* Mutant: what the last word held is not put back.
SetLenrangeForgets(ws, start, length) ==
  LET first == Word(start)
      last  == Word(start + length)
      middle == {i \in first + 1 .. last - 1 : (i - first) % 2 = 1}
      filled == [w \in DOMAIN ws |->
                   IF w \in middle \union {i + 1 : i \in middle} THEN Ones ELSE ws[w]]
  IN  IF first = last THEN [ws EXCEPT ![first] = @ \union {b + (start % Bits) : b \in 0 .. length}]
      ELSE [filled EXCEPT ![first] = @ \union From(start),
                          ![last] = @ \union Upto(start + length + 1)]

\* Words between the ends are filled two at a time: the last word may be filled
\* too, and gets back what it held.
SetLenrange(ws, start, length) ==
  LET first == Word(start)
      last  == Word(start + length)
      middle == {i \in first + 1 .. last - 1 : (i - first) % 2 = 1}
      filled == [w \in DOMAIN ws |->
                   IF w \in middle \union {i + 1 : i \in middle} THEN Ones ELSE ws[w]]
  IN  IF first = last THEN [ws EXCEPT ![first] = @ \union {b + (start % Bits) : b \in 0 .. length}]
      ELSE [filled EXCEPT ![first] = @ \union From(start),
                          ![last] = ws[last] \union Upto(start + length + 1)]

\* What precedes the range in its first word is flipped twice.
FlipRange(ws, start, stop) ==
  LET last == Word(stop - 1)
      kept == [ws EXCEPT ![Word(start)] = SymDiff(@, Ones \ From(start))]
      flipped == [w \in DOMAIN ws |->
                    IF w \in Word(start) .. last - 1 THEN Ones \ kept[w] ELSE kept[w]]
  IN  IF start = stop THEN ws
      ELSE [flipped EXCEPT ![last] = SymDiff(@, Upto(stop))]

-----------------------------------------------------------------------------
\* The other container of a call, as words, as values or as runs <<start, stop>>.

Other == WordsOf(call.other)

Values == InOrder(call.other)

Runs ==
  LET starts == InOrder({p \in call.other : p - 1 \notin call.other})
  IN  [i \in DOMAIN starts |->
         <<starts[i], Min({p \in starts[i] .. Words * Bits : p \notin call.other})>>]

Init ==
  /\ \E kind \in Jobs :
       call \in {c \in [op : kind.ops, bits : kind.bits, other : kind.others,
                       from : kind.froms, to : kind.tos] : c.from <= c.to}
  /\ pc = "loop"
  /\ words = WordsOf(call.bits)
  /\ card = Cardinality(call.bits)
  /\ turn = 1
  /\ gap = 0
  /\ rest = words[0]
  /\ out = <<>>
  /\ reach = 0

Looping(ops) == pc = "loop" /\ call.op \in ops
Return == pc' = "done" /\ UNCHANGED <<call, turn, gap, rest, out, reach>>

RunStart == Runs[turn][1]
RunStop == Runs[turn][2]

\* One run a turn; then what lies behind the last one may be reset, and bits are counted.
OverRuns(op, changed, finished) ==
  /\ Looping({op})
  /\ \/ /\ turn <= Len(Runs) /\ words' = changed
        /\ gap' = RunStop /\ turn' = turn + 1
        /\ UNCHANGED <<call, pc, card, rest, out, reach>>
     \/ /\ turn > Len(Runs) /\ words' = finished /\ card' = Count(words') /\ Return

UnionTurn == OverRuns("union", SetLenrange(words, RunStart, RunStop - RunStart - 1), words)

DecompressTurn == OverRuns("decompress", SetRange(words, RunStart, RunStop), words)

XorTurn == OverRuns("xor", FlipRange(words, RunStart, RunStop), words)

AndnotTurn == OverRuns("andnot", ResetRange(words, RunStart, RunStop), words)

\* What lies between the runs is reset.
WithoutGap(stop) == ResetRange(words, gap, stop)

RunAndnotTurn ==
  OverRuns("run_andnot", FlipRange(WithoutGap(RunStart), RunStart, RunStop),
           WithoutGap(Words * Bits))

IntersectionTurn ==
  OverRuns("intersection", WithoutGap(RunStart), WithoutGap(Words * Bits))

Negation ==
  /\ Looping({"negation"}) /\ Return
  /\ words' = FlipRange(words, call.from, call.to)
  /\ card' = Count(words')

\* One value of a list a turn; the cardinality is kept along the way.
Bit == {Values[turn] % Bits}
Old == words[Word(Values[turn])]

OverList(op, new, newCard) ==
  /\ Looping({op}) /\ UNCHANGED <<gap, rest, reach>>
  /\ \/ /\ turn <= Len(Values)
        /\ words' = [words EXCEPT ![Word(Values[turn])] = new]
        /\ card' = newCard
        /\ turn' = turn + 1 /\ UNCHANGED <<call, pc, out>>
     \/ turn > Len(Values) /\ pc' = "done" /\ UNCHANGED <<call, words, card, turn, out>>

SetListTurn ==
  OverList("set_list", Old \union Bit, IF Bit \subseteq Old THEN card ELSE card + 1)
ClearListTurn ==
  OverList("clear_list", Old \ Bit, IF Bit \subseteq Old THEN card - 1 ELSE card)
FlipListTurn ==
  OverList("flip_list", SymDiff(Old, Bit), card + 1 - 2 * Cardinality(Old \intersect Bit))

-----------------------------------------------------------------------------
\* Reading.

ValuesIn(w) == InOrder({w * Bits + b : b \in words[w]})

ReadWord(read, slots) ==
  /\ out' = out \o read /\ reach' = slots
  /\ turn' = turn + 1 /\ UNCHANGED <<call, pc, words, card, gap, rest>>

\* bitset_extract_setbits and bitset_extract_setbits_uint16, one word a turn.
ExtractTurn ==
  LET read == ValuesIn(turn - 1) IN
  Looping({"to_array"}) /\ turn <= Words /\ ReadWord(read, reach + Len(read))

\* The end of the memory for the values is a word away at least.
Roomy == Len(out) + Bits <= card

\* bitset_extract_setbits_avx2: the values of a byte come from a table, and as many
\* slots are written as a byte has bits; the next byte begins behind its values.
DecodeTurn ==
  LET w == turn - 1
      Lower(byte) == {b \in words[w] : b < byte * ByteBits}
      ends == {Len(out) + Cardinality(Lower(byte)) + ByteBits :
                 byte \in 0 .. Bits \div ByteBits - 1}
  IN  /\ Looping({"to_array_decoded"}) /\ turn <= Words /\ Roomy
      /\ ReadWord(ValuesIn(w), IF words[w] = {} THEN reach ELSE Max(ends \union {reach}))

\* Close to the end of the memory it goes on bit by bit, and never past it.
DecodeRestTurn ==
  LET read == ValuesIn(turn - 1)
      fits == SubSeq(read, 1, Min({Len(read), card - Len(out)}))
  IN  /\ Looping({"to_array_decoded"}) /\ turn <= Words /\ ~Roomy /\ Len(out) < card
      /\ ReadWord(fits, Max({reach, Len(out) + Len(fits)}))

\* bitset_extract_intersection_setbits_uint16.
ExtractBothTurn ==
  LET read == InOrder({(turn - 1) * Bits + b : b \in words[turn - 1] \intersect Other[turn - 1]})
  IN  Looping({"intersection_to_array"}) /\ turn <= Words /\ ReadWord(read, reach + Len(read))

ExtractEnd ==
  /\ \/ Looping({"to_array", "intersection_to_array"}) /\ turn > Words
     \/ Looping({"to_array_decoded"}) /\ (turn > Words \/ Len(out) >= card)
  /\ Return /\ UNCHANGED <<words, card>>

\* The values of an array or of runs that the bitset holds, or does not: in the
\* intersection with an array a slot is written before that is known.
FilterTurn(op, kept, slots) ==
  /\ Looping({op})
  /\ \/ /\ turn <= Len(Values)
        /\ out' = (IF kept THEN Append(out, Values[turn]) ELSE out)
        /\ reach' = Max({reach, slots}) /\ turn' = turn + 1
        /\ UNCHANGED <<call, pc, words, card, gap, rest>>
     \/ turn > Len(Values) /\ Return /\ UNCHANGED <<words, card>>

Held == Bit \subseteq Old
ArrayIntersectionTurn == FilterTurn("array_intersection", Held, Len(out) + 1)
RunArrayIntersectionTurn == FilterTurn("run_array_intersection", Held, Len(out'))
ArrayAndnotTurn == FilterTurn("array_andnot", ~Held, Len(out'))
RunArrayAndnotTurn == FilterTurn("run_array_andnot", ~Held, Len(out'))

\* Slots that are allocated for what is read.
Room ==
  IF call.op \in {"array_intersection", "array_andnot", "run_array_andnot"}
  THEN Cardinality(call.other)
  ELSE IF call.op = "run_array_intersection"
  THEN Min({Cardinality(call.other), card})
  ELSE IF call.op = "intersection_to_array"
  THEN Cardinality(call.bits \intersect call.other)
  ELSE card

\* Mutant: a run that ends with its word is not counted there.
NumberOfRunsInside(ws) ==
  MapThenSumSet(LAMBDA w : Cardinality({b \in Ones \ ws[w] : b - 1 \in ws[w]}), DOMAIN ws)

\* bitset_container_number_of_runs counts the runs where they end: inside a word, at
\* the end of one that the next one does not continue, at the end of the last.
NumberOfRuns(ws) ==
  MapThenSumSet(
    LAMBDA w : Cardinality({b \in Ones \ ws[w] : b - 1 \in ws[w]})
               + (IF Bits - 1 \in ws[w] /\ (w = Words - 1 \/ 0 \notin ws[w + 1])
                  THEN 1 ELSE 0),
    DOMAIN ws)

\* convert_run_optimize: the next word with bits left, the run that starts at the
\* lowest of them, through words of ones, and what is behind its end.  The word
\* that is read is turn - 1.
ConvertTurn ==
  LET last  == Words - 1
      Left(w) == IF w = turn - 1 THEN rest ELSE words[w]
      first == Min({w \in turn - 1 .. last : Left(w) # {}} \union {last})
      low   == Min(Left(first))
      Filled(w) == IF w = first THEN Left(w) \union 0 .. low ELSE words[w]
      ends  == Min({w \in first .. last : Filled(w) # Ones} \union {last})
      high  == Min(Ones \ Filled(ends))
  IN
  /\ Looping({"to_runs"}) /\ UNCHANGED <<call, words, card, gap, reach>>
  /\ \/ /\ Left(first) = {}
        /\ pc' = "done" /\ UNCHANGED <<turn, rest, out>>
     \/ /\ Left(first) # {} /\ Filled(ends) = Ones
        /\ out' = Append(out, <<first * Bits + low, Words * Bits>>)
        /\ pc' = "done" /\ UNCHANGED <<turn, rest>>
     \/ /\ Left(first) # {} /\ Filled(ends) # Ones
        /\ out' = Append(out, <<first * Bits + low, ends * Bits + high>>)
        /\ turn' = ends + 1 /\ rest' = {b \in Filled(ends) : b > high}
        /\ UNCHANGED pc

-----------------------------------------------------------------------------
\* Questions: 1 for yes, or the number that was asked for.

Answer(a) == out' = <<a>> /\ pc' = "done" /\ UNCHANGED <<call, words, card, turn, gap, rest, reach>>
GoOn == UNCHANGED <<call, pc, words, card, rest, out, reach>>

\* Unless the cardinalities say no, every turn has to find what it looks for.
All(op, refused, turns, found) ==
  /\ Looping({op})
  /\ \/ turn = 1 /\ refused /\ Answer(0)
     \/ (turn = 1 => ~refused) /\ turn <= turns /\ ~found /\ Answer(0)
     \/ (turn = 1 => ~refused) /\ turn <= turns /\ found /\ turn' = turn + 1 /\ UNCHANGED gap /\ GoOn
     \/ turn > turns /\ Answer(1)

Smaller == card < Len(Values)
ArrayIsSubsetTurn == All("array_is_subset", Smaller, Len(Values), Held)
RunIsSubsetTurn == All("run_is_subset", Smaller, Len(Values), Held)
RunEqualsTurn == All("run_equals", card # Len(Values), Len(Values), Held)
IsSubsetTurn ==
  All("is_subset", card > Len(Values), Words, words[turn - 1] \subseteq Other[turn - 1])
EqualsTurn == All("equals", card # Len(Values), Words, words[turn - 1] = Other[turn - 1])

\* array_container_equal_bitset: the values of a word follow in the array, gap behind it.
ArrayEqualsTurn ==
  LET read == ValuesIn(turn - 1)
  IN
  /\ Looping({"array_equals"})
  /\ \/ turn = 1 /\ card # Len(Values) /\ Answer(0)
     \/ /\ turn = 1 => card = Len(Values)
        /\ turn <= Words /\ gap + Len(read) <= Len(Values)
        /\ read = SubSeq(Values, gap + 1, gap + Len(read))
        /\ turn' = turn + 1 /\ gap' = gap + Len(read) /\ GoOn
     \/ /\ turn = 1 => card = Len(Values)
        /\ turn <= Words
        /\ gap + Len(read) <= Len(Values) => read # SubSeq(Values, gap + 1, gap + Len(read))
        /\ Answer(0)
     \/ turn > Words /\ Answer(IF gap = Len(Values) THEN 1 ELSE 0)

\* bitset_container_is_subset_run: the lowest bit that is left against the next run,
\* behind the gap runs that end before it.
IsSubsetRunTurn ==
  LET low == (turn - 1) * Bits + Min(rest)
      run == Runs[gap + 1]
      more == rest # {} /\ gap < Len(Runs)
      refused == turn = 1 /\ gap = 0 /\ card > Len(Values)
  IN
  /\ Looping({"is_subset_run"})
  /\ \/ refused /\ Answer(0)
     \/ more /\ low < run[1] /\ Answer(0)
     \/ ~refused /\ more /\ low >= run[2] /\ gap' = gap + 1 /\ turn' = turn /\ GoOn
     \/ /\ ~refused /\ more /\ low \in run[1] .. run[2] - 1 /\ rest' = rest \ {Min(rest)}
        /\ UNCHANGED <<call, pc, words, card, turn, gap, out, reach>>
     \/ rest # {} /\ gap = Len(Runs) /\ Answer(0)
     \/ /\ rest = {} /\ turn < Words /\ turn' = turn + 1 /\ rest' = words[turn]
        /\ UNCHANGED <<call, pc, words, card, gap, out, reach>>
     \/ rest = {} /\ turn = Words /\ Answer(1)

\* bitset_container_select: gap counts the values of the words that have been passed;
\* the value after all those of a word is looked for in it in vain.
SelectTurn ==
  LET size == Cardinality(words[turn - 1])
      rank == call.from
  IN
  /\ Looping({"select"})
  /\ \/ rank >= card /\ Answer(-1)
     \/ rank < card /\ rank < gap + size /\ Answer(ValuesIn(turn - 1)[rank - gap + 1])
     \/ rank < card /\ rank >= gap + size /\ gap' = gap + size /\ turn' = turn + 1 /\ GoOn

\* bitset_container_rank: the words that end at or before x, and the bits up to x of
\* the one behind them.
Rank ==
  LET whole == (call.from + 1) \div Bits
      left  == {b \in words[whole] : b < (call.from + 1) % Bits}
  IN  /\ Looping({"rank"})
      /\ Answer(MapThenSumSet(LAMBDA w : Cardinality(words[w]), 0 .. whole - 1) + Cardinality(left))

Next ==
  \/ UnionTurn \/ DecompressTurn \/ XorTurn \/ AndnotTurn \/ RunAndnotTurn \/ IntersectionTurn
  \/ Negation \/ SetListTurn \/ ClearListTurn \/ FlipListTurn
  \/ ExtractTurn \/ DecodeTurn \/ DecodeRestTurn \/ ExtractBothTurn \/ ExtractEnd
  \/ ArrayIntersectionTurn \/ RunArrayIntersectionTurn \/ ArrayAndnotTurn \/ RunArrayAndnotTurn
  \/ ConvertTurn
  \/ ArrayIsSubsetTurn \/ RunIsSubsetTurn \/ RunEqualsTurn \/ IsSubsetTurn \/ EqualsTurn
  \/ ArrayEqualsTurn \/ IsSubsetRunTurn \/ SelectTurn \/ Rank

Spec == Init /\ [][Next]_vars /\ WF_vars(Next)

-----------------------------------------------------------------------------
\* What a call is to leave in the bitset.
Wanted ==
  LET A == call.bits
      B == call.other
  IN
  CASE call.op \in {"union", "decompress", "set_list"} -> A \union B
    [] call.op \in {"xor", "flip_list"} -> SymDiff(A, B)
    [] call.op \in {"andnot", "clear_list"} -> A \ B
    [] call.op = "run_andnot" -> B \ A
    [] call.op = "intersection" -> A \intersect B
    [] call.op = "negation" -> SymDiff(A, call.from .. call.to - 1)
    [] OTHER -> A

\* Masks, pairs of words and counts along the way leave the bits that the operation
\* promises and their number, whatever words the ends of a range fall into.
WordsExact ==
  pc = "done" => Elements(words) = Wanted /\ card = Cardinality(Wanted)

\* What reading returns.
WantedReading ==
  LET A == call.bits
      B == call.other
      YesIf(p) == <<IF p THEN 1 ELSE 0>>
  IN
  CASE call.op \in {"to_array", "to_array_decoded"} -> InOrder(A)
    [] call.op \in {"array_intersection", "run_array_intersection", "intersection_to_array"} ->
         InOrder(A \intersect B)
    [] call.op \in {"array_andnot", "run_array_andnot"} -> InOrder(B \ A)
    [] call.op \in {"array_is_subset", "run_is_subset"} -> YesIf(B \subseteq A)
    [] call.op \in {"is_subset", "is_subset_run"} -> YesIf(A \subseteq B)
    [] call.op \in {"equals", "run_equals", "array_equals"} -> YesIf(A = B)
    [] call.op = "select" ->
         <<IF call.from < Cardinality(A) THEN InOrder(A)[call.from + 1] ELSE -1>>
    [] call.op = "rank" -> <<Cardinality({x \in A : x <= call.from})>>
    [] OTHER -> <<>>

\* Reading yields the values in order, or the answer, or the runs: as many as were
\* counted when memory was allocated for them, each as long as it can be.  What is
\* written on the way and not kept stays inside that memory.
ReadsExact ==
  /\ reach <= Room
  /\ call.op = "to_runs" => Len(out) <= NumberOfRuns(words)
  /\ pc = "done" /\ call.op # "to_runs" => out = WantedReading
  /\ pc = "done" /\ call.op = "to_runs" =>
       /\ Len(out) = NumberOfRuns(words)
       /\ UNION {out[i][1] .. out[i][2] - 1 : i \in DOMAIN out} = call.bits
       /\ \A i \in 2 .. Len(out) : out[i - 1][2] < out[i][1]

=============================================================================
