----------------------------- MODULE BitmapWalks ----------------------------
(***************************************************************************)
(* The ways through all values of a bitmap: the iterator, iteration with a *)
(* callback that may stop it, conversion into an array, statistics and the *)
(* extremes.  Each finds its own way through words, slots and runs.  Most  *)
(* take one value, or one word without any, a turn.  Places are counted    *)
(* from 0.                                                                 *)
(***************************************************************************)
EXTENDS Integers, Sequences, FiniteSets, SequencesExt, FiniteSetsExt

CONSTANTS
  Words, Bits,   \* words of a bitset, 1024 in the code, and bits of a word, 64
  KeyMod,        \* number of container keys, 2^16 in the code
  Visits         \* kinds of calls: [ops, bitmaps, limits]

VARIABLES
  call,          \* the bitmap and what is asked of it
  pc,            \* "loop", "count" or "done"
  it,            \* the iterator
  loop,          \* container, word, slot or run, and place in the run of the other loops
  rest,          \* what is left of the word that is read
  out,           \* the values that were delivered, or the answer
  stat           \* what has been gathered of the statistics

vars == <<call, pc, it, loop, rest, out, stat>>

Width == Words * Bits
MaxValue == KeyMod * Width - 1        \* UINT32_MAX

InOrder(S) == SelectSeq([i \in 1 .. KeyMod * Width |-> i - 1], LAMBDA x : x \in S)
FromZero(s) == [i \in 0 .. Len(s) - 1 |-> s[i + 1]]

WordsOf(S) == [w \in 0 .. Words - 1 |-> {b \in 0 .. Bits - 1 : w * Bits + b \in S}]

RunsOf(S) ==
  LET starts == InOrder({x \in S : x - 1 \notin S})
      Stop(x) == Min({y \in x .. Width : y \notin S})
  IN  [i \in DOMAIN starts |-> [value |-> starts[i], length |-> Stop(starts[i]) - starts[i] - 1]]

\* Behind the values of an array stands what was there before.
Stored(e) ==
  [key |-> e.key, type |-> e.type, values |-> e.values,
   memory |-> CASE e.type = "bitset" -> WordsOf(e.values)
                [] e.type = "array" -> FromZero(Append(InOrder(e.values), Width - 1))
                [] e.type = "run" -> FromZero(RunsOf(e.values))]

Size == Len(call.bitmap)
Container(i) == call.bitmap[i + 1]
Base(i) == Container(i).key * Width
Card(c) == Cardinality(c.values)
Runs(c) == Cardinality(DOMAIN c.memory)

-----------------------------------------------------------------------------
\* roaring_uint32_iterator_t.

Iterator(index, place, run, inRun, low) ==
  [container_index |-> index, in_container_index |-> place, run_index |-> run,
   in_run_index |-> inRun, current_value |-> Base(index) + low, has_value |-> TRUE]

Exhausted(index) ==
  [container_index |-> index, in_container_index |-> 0, run_index |-> 0,
   in_run_index |-> 0, current_value |-> MaxValue, has_value |-> FALSE]

FirstIn(words, from) == Min({w \in from .. Words - 1 : words[w] # {}})

LoadFirstValue(index) ==
  LET c     == Container(index)
      word  == FirstIn(c.memory, 0)
      first == word * Bits + Min(c.memory[word])
  IN
  IF index >= Size THEN Exhausted(index)
  ELSE CASE c.type = "bitset" -> Iterator(index, first, 0, 0, first)
         [] c.type = "array" -> Iterator(index, 0, 0, 0, c.memory[0])
         [] c.type = "run" -> Iterator(index, 0, 0, 0, c.memory[0].value)

\* Where the iterator stands after one more value of a bitset, an array or runs, none
\* at the end.
NextInBitset(c) ==
  LET place == it.in_container_index + 1
      left  == [w \in place \div Bits .. Words - 1 |->
                  IF w = place \div Bits THEN {b \in c.memory[w] : b >= place % Bits}
                  ELSE c.memory[w]]
      word  == Min({w \in DOMAIN left : left[w] # {}})
      next  == word * Bits + Min(left[word])
  IN  IF \A w \in DOMAIN left : left[w] = {} THEN {}
      ELSE {Iterator(it.container_index, next, 0, 0, next)}

NextInArray(c) ==
  LET place == it.in_container_index + 1
  IN  IF place < Card(c) THEN {Iterator(it.container_index, place, 0, 0, c.memory[place])}
      ELSE {}

\* Mutant: the place in a run is kept for the next one.
NextInRunsKeepsPlace(c) ==
  LET in   == it.in_run_index + 1
      run  == it.run_index
  IN  IF in <= c.memory[run].length
      THEN {Iterator(it.container_index, 0, run, in, c.memory[run].value + in)}
      ELSE IF run + 1 < Runs(c)
      THEN {Iterator(it.container_index, 0, run + 1, in, c.memory[run + 1].value)}
      ELSE {}

NextInRuns(c) ==
  LET in   == it.in_run_index + 1
      run  == it.run_index
  IN  IF in <= c.memory[run].length
      THEN {Iterator(it.container_index, 0, run, in, c.memory[run].value + in)}
      ELSE IF run + 1 < Runs(c)
      THEN {Iterator(it.container_index, 0, run + 1, 0, c.memory[run + 1].value)}
      ELSE {}

Advance ==
  LET c    == Container(it.container_index)
      next == CASE c.type = "bitset" -> NextInBitset(c)
                [] c.type = "array" -> NextInArray(c)
                [] c.type = "run" -> NextInRuns(c)
  IN  IF it.container_index >= Size THEN it
      ELSE IF next # {} THEN CHOOSE i \in next : TRUE
      ELSE LoadFirstValue(it.container_index + 1)

Doing(op) == pc = "loop" /\ call.op = op
Done == pc' = "done" /\ UNCHANGED call

\* while (iterator->has_value), as MEMBERS has it; advancing once too often does nothing.
IteratorTurn ==
  /\ Doing("iterator") /\ it' = Advance
  /\ \/ it.has_value /\ out' = Append(out, it.current_value) /\ UNCHANGED <<call, pc>>
     \/ ~it.has_value /\ Done /\ UNCHANGED out
  /\ UNCHANGED <<loop, rest, stat>>

-----------------------------------------------------------------------------
\* roaring_iterate: the callback takes a value, and refuses more after call.limit;
\* what it returns is the answer of the call.

EnterAt(index) ==
  /\ loop' = [index |-> index, i |-> 0, j |-> 0, answer |-> TRUE,
              base |-> IF index < Size THEN Base(index) ELSE 0]
  /\ rest' = IF index < Size /\ Container(index).type = "bitset"
             THEN Container(index).memory[0] ELSE {}

Gather(value) ==
  stat' = [stat EXCEPT !.min = Min({@, value}), !.max = Max({@, value}), !.sum = @ + value]

\* The loop goes on from next, with left of its word, unless the callback refuses.
Deliver(value, next, left) ==
  /\ out' = Append(out, value)
  /\ IF call.op = "statistics" THEN Gather(value) ELSE UNCHANGED stat
  /\ \/ /\ Len(out') # call.limit
        /\ loop' = next /\ rest' = left /\ UNCHANGED <<call, pc>>
     \/ /\ Len(out') = call.limit
        /\ loop' = [loop EXCEPT !.answer = FALSE] /\ Done /\ UNCHANGED rest

Iterating(type) ==
  /\ pc = "loop" /\ call.op \in {"iterate", "statistics"}
  /\ loop.index < Size /\ Container(loop.index).type = type
  /\ UNCHANGED it

NextContainer == EnterAt(loop.index + 1) /\ UNCHANGED <<call, pc, out, stat>>

IterateArray ==
  LET c == Container(loop.index) IN
  /\ Iterating("array")
  /\ \/ loop.i < Card(c) /\ Deliver(loop.base + c.memory[loop.i], [loop EXCEPT !.i = @ + 1], rest)
     \/ loop.i = Card(c) /\ NextContainer

IterateBitset ==
  /\ Iterating("bitset")
  /\ \/ rest # {} /\ Deliver(loop.base + Min(rest), loop, rest \ {Min(rest)})
     \/ /\ rest = {} /\ loop.i + 1 < Words
        /\ loop' = [loop EXCEPT !.i = @ + 1, !.base = @ + Bits]
        /\ rest' = Container(loop.index).memory[loop.i + 1]
        /\ UNCHANGED <<call, pc, out, stat>>
     \/ rest = {} /\ loop.i + 1 = Words /\ NextContainer

IterateRun ==
  LET c   == Container(loop.index)
      run == c.memory[loop.i]
  IN
  /\ Iterating("run")
  /\ \/ /\ loop.i < Runs(c)
        /\ Deliver(loop.base + run.value + loop.j,
                   IF loop.j < run.length THEN [loop EXCEPT !.j = @ + 1]
                   ELSE [loop EXCEPT !.i = @ + 1, !.j = 0], rest)
     \/ loop.i = Runs(c) /\ NextContainer

\* Statistics go over the containers once more.
IterateEnd ==
  /\ pc = "loop" /\ call.op \in {"iterate", "statistics"} /\ loop.index = Size
  /\ \/ call.op = "iterate" /\ Done /\ UNCHANGED loop
     \/ call.op = "statistics" /\ pc' = "count" /\ loop' = [loop EXCEPT !.index = 0] /\ UNCHANGED call
  /\ UNCHANGED <<it, rest, out, stat>>

CountTurn ==
  LET c == Container(loop.index) IN
  /\ pc = "count" /\ UNCHANGED <<call, it, rest, out>>
  /\ \/ /\ loop.index < Size
        /\ stat' = [stat EXCEPT !.containers[c.type] = @ + 1, !.values[c.type] = @ + Card(c)]
        /\ loop' = [loop EXCEPT !.index = @ + 1] /\ UNCHANGED pc
     \/ loop.index = Size /\ pc' = "done" /\ UNCHANGED <<stat, loop>>

-----------------------------------------------------------------------------
\* ra_to_uint32_array, one container a turn.

ToUint32Array(c) ==
  CASE c.type = "bitset" ->
         FlattenSeq([w \in 1 .. Words |-> InOrder({(w - 1) * Bits + b : b \in c.memory[w - 1]})])
    [] c.type = "array" -> [i \in 1 .. Card(c) |-> c.memory[i - 1]]
    [] c.type = "run" ->
         FlattenSeq([i \in 1 .. Runs(c) |->
                       [j \in 1 .. c.memory[i - 1].length + 1 |-> c.memory[i - 1].value + j - 1]])

ToArrayTurn ==
  LET added == ToUint32Array(Container(loop.index)) IN
  /\ Doing("to_uint32_array")
  /\ \/ /\ loop.index < Size
        /\ out' = out \o [i \in DOMAIN added |-> loop.base + added[i]]
        /\ EnterAt(loop.index + 1) /\ UNCHANGED <<call, pc>>
     \/ loop.index = Size /\ Done /\ UNCHANGED <<loop, rest, out>>
  /\ UNCHANGED <<it, stat>>

\* The extremes of a container that is not empty.  bitset_container_maximum does not
\* look at the first word.
ContainerMinimum(c) ==
  LET word == FirstIn(c.memory, 0)
  IN  CASE c.type = "bitset" -> word * Bits + Min(c.memory[word])
        [] c.type = "array" -> c.memory[0]
        [] c.type = "run" -> c.memory[0].value

ContainerMaximum(c) ==
  LET filled == {w \in 1 .. Words - 1 : c.memory[w] # {}}
      last   == c.memory[Runs(c) - 1]
  IN  CASE c.type = "bitset" ->
             (IF filled = {} THEN 0 ELSE Max(filled) * Bits + Max(c.memory[Max(filled)]))
        [] c.type = "array" -> c.memory[Card(c) - 1]
        [] c.type = "run" -> last.value + last.length

Minimum ==
  /\ Doing("minimum") /\ Done /\ UNCHANGED <<it, loop, rest, stat>>
  /\ out' = <<IF Size > 0 THEN Base(0) + ContainerMinimum(Container(0)) ELSE MaxValue>>

Maximum ==
  /\ Doing("maximum") /\ Done /\ UNCHANGED <<it, loop, rest, stat>>
  /\ out' = <<IF Size > 0 THEN Base(Size - 1) + ContainerMaximum(Container(Size - 1)) ELSE 0>>

-----------------------------------------------------------------------------

Types == {"bitset", "array", "run"}

Init ==
  /\ \E kind \in Visits :
       \E op \in kind.ops, b \in kind.bitmaps, limit \in kind.limits :
         call = [op |-> op, limit |-> limit, bitmap |-> [i \in DOMAIN b |-> Stored(b[i])]]
  /\ pc = "loop"
  /\ it = LoadFirstValue(0)
  /\ loop = [index |-> 0, i |-> 0, j |-> 0, answer |-> TRUE,
             base |-> IF Size > 0 THEN Base(0) ELSE 0]
  /\ rest = IF Size > 0 /\ Container(0).type = "bitset" THEN Container(0).memory[0] ELSE {}
  /\ out = <<>>
  /\ stat = [min |-> MaxValue, max |-> 0, sum |-> 0,
             containers |-> [t \in Types |-> 0], values |-> [t \in Types |-> 0]]

Next ==
  \/ IteratorTurn
  \/ IterateArray \/ IterateBitset \/ IterateRun \/ IterateEnd \/ CountTurn
  \/ ToArrayTurn \/ Minimum \/ Maximum

Spec == Init /\ [][Next]_vars /\ WF_vars(Next)

-----------------------------------------------------------------------------

Elements == UNION {{Base(i) + x : x \in Container(i).values} : i \in 0 .. Size - 1}
OfType(t) == {i \in 0 .. Size - 1 : Container(i).type = t}

StatisticsExact ==
  /\ Elements # {} => stat.min = Min(Elements) /\ stat.max = Max(Elements)
  /\ stat.sum = SumSet(Elements)
  /\ \A t \in Types :
       /\ stat.containers[t] = Cardinality(OfType(t))
       /\ stat.values[t] = MapThenSumSet(LAMBDA i : Card(Container(i)), OfType(t))

\* Every walk delivers the values of the set from the first on, in order, each once,
\* whatever containers follow each other: it ends with the last one, or with the one
\* after which the callback wants no more, and says which of the two it was.
WalksExact ==
  LET all == InOrder(Elements)
      wanted == IF call.limit \in DOMAIN all THEN SubSeq(all, 1, call.limit) ELSE all
  IN
  /\ call.op \notin {"minimum", "maximum"} => IsPrefix(out, all)
  /\ Doing("iterator") =>
       it.has_value = (Len(out) < Len(all)) /\ (it.has_value => it.current_value = all[Len(out) + 1])
  /\ pc = "done" =>
       CASE call.op = "iterate" -> out = wanted /\ loop.answer = (call.limit \notin DOMAIN all)
         [] call.op \in {"iterator", "to_uint32_array"} -> out = all
         [] call.op = "statistics" -> out = all /\ StatisticsExact
         [] call.op = "minimum" -> out = <<Min(Elements \union {MaxValue})>>
         [] call.op = "maximum" -> out = <<Max(Elements \union {0})>>

=============================================================================
