------------------------------ MODULE RangeLoops ----------------------------
(***************************************************************************)
(* The loops over ranges that count in machine integers, one turn a step:  *)
(* roaring_bitmap_flip_inplace over containers (uint16_t),                 *)
(* roaring_bitmap_from_range over values (uint32_t) and                    *)
(* convert_to_bitset_or_array_container over a run (uint16_t).             *)
(*                                                                         *)
(* A bitmap is its set of values here, and a run container has one run:    *)
(* what the loops are in danger of is going round for ever or working on   *)
(* the wrong part.                                                         *)
(***************************************************************************)
EXTENDS Integers, FiniteSets

CONSTANTS
  HalfMod,       \* 2^16 in the code: low halves, container keys
  ArrayMax,      \* DEFAULT_MAX_SIZE: longer runs become bitsets without this loop
  Calls          \* the calls in use: [op, min, max, step]

\* uint32_t
Mod == HalfMod * HalfMod

High(v) == v \div HalfMod
LowOf(v) == v % HalfMod
LastLow == HalfMod - 1

VARIABLES
  call,          \* the arguments
  pc,            \* "start", the loop that runs, or "done"
  counter,       \* hb, value, min_tmp or run_value
  values         \* the set built up so far

vars == <<call, pc, counter, values>>

Init ==
  /\ call \in Calls
  /\ pc = "start"
  /\ counter = 0
  /\ values = {}

Toggle(S, T) == (S \ T) \union (T \ S)

Smaller(a, b) == IF a < b THEN a ELSE b

(***************************************************************************)
(* Negation in place of min .. max - 1, of the empty bitmap.               *)
(***************************************************************************)

HbEnd == High(call.max - 1)
Partial == LowOf(call.max - 1) # LastLow

\* The last value that the first container is negated to.
LastInFirst(first) ==
  IF first = HbEnd THEN call.max - 1 ELSE first * HalfMod + LastLow

\* Both ends in one container, or a part of the first one.
FlipStart ==
  /\ pc = "start" /\ call.op = "flip"
  /\ LET first == High(call.min)
         one   == first = HbEnd
         part  == LowOf(call.min) > 0
     IN  /\ values' = IF one \/ part THEN Toggle(values, call.min .. LastInFirst(first))
                      ELSE values
         /\ counter' = IF part /\ ~one THEN first + 1 ELSE first
         /\ pc' = IF one THEN "done" ELSE "containers"
  /\ UNCHANGED call

\* Mutant: the last whole container is left to the end.
LastWholeOffByOne == HbEnd - 1

\* hb_end of the loop.
LastWhole == IF Partial THEN HbEnd - 1 ELSE HbEnd

\* for (uint16_t hb = hb_start; hb <= hb_end; ++hb)
FlipWhole ==
  /\ pc = "containers" /\ counter <= LastWhole
  /\ values' = Toggle(values, counter * HalfMod .. counter * HalfMod + LastLow)
  /\ counter' = (counter + 1) % HalfMod
  /\ UNCHANGED <<call, pc>>

\* The part of the last container.
FlipEnd ==
  /\ pc = "containers" /\ counter > LastWhole
  /\ values' = IF Partial THEN Toggle(values, HbEnd * HalfMod .. call.max - 1) ELSE values
  /\ pc' = "done"
  /\ UNCHANGED <<call, counter>>

(***************************************************************************)
(* The values min, min + step, ... below max.                              *)
(***************************************************************************)

FromRangeStart ==
  /\ pc = "start" /\ call.op = "from_range"
  /\ counter' = call.min
  /\ pc' = IF call.step >= HalfMod THEN "values" ELSE "chunks"
  /\ UNCHANGED <<call, values>>

\* for (uint32_t value = min; value < max; value += step), for large steps
FromRangeValue ==
  /\ pc = "values" /\ counter < call.max
  /\ values' = values \union {counter}
  /\ counter' = (counter + call.step) % Mod
  /\ UNCHANGED <<call, pc>>

\* Mutant: rounded down to a multiple of the step, not up.
GapRoundsDown(first, last) == (last - first) - ((last - first) % call.step)

\* From the first value in a container to the first one in the next that is in step.
Gap(first, last) ==
  LET gap == last - first + call.step - 1 IN gap - (gap % call.step)

\* do { ... } while (min_tmp < max), one container a turn.
FromRangeChunk ==
  /\ pc = "chunks"
  /\ LET base  == High(counter) * HalfMod
         first == LowOf(counter)
         last  == Smaller(call.max - base, HalfMod)
         next  == (counter + Gap(first, last)) % Mod
     IN  /\ values' = values \union {base + x : x \in {y \in first .. last - 1 :
                                                        (y - first) % call.step = 0}}
         /\ counter' = next
         /\ pc' = IF next < call.max THEN "chunks" ELSE "done"
  /\ UNCHANGED call

FromRangeEnd ==
  /\ pc = "values" /\ counter >= call.max
  /\ pc' = "done"
  /\ UNCHANGED <<call, counter, values>>

(***************************************************************************)
(* A run written out as an array.                                          *)
(***************************************************************************)

DecompressStart ==
  /\ pc = "start" /\ call.op = "decompress"
  /\ counter' = call.min
  /\ pc' = "run"
  /\ UNCHANGED <<call, values>>

\* for (uint16_t run_value = run_start; run_value <= run_end; ++run_value)
DecompressValue ==
  /\ pc = "run" /\ counter <= call.max - 1
  /\ values' = values \union {counter}
  /\ counter' = (counter + 1) % HalfMod
  /\ UNCHANGED <<call, pc>>

DecompressEnd ==
  /\ pc = "run" /\ counter > call.max - 1
  /\ pc' = "done"
  /\ UNCHANGED <<call, counter, values>>

Next ==
  \/ FlipStart \/ FlipWhole \/ FlipEnd
  \/ FromRangeStart \/ FromRangeValue \/ FromRangeChunk \/ FromRangeEnd
  \/ DecompressStart \/ DecompressValue \/ DecompressEnd

\* A call runs on until it returns.
Spec == Init /\ [][Next]_vars /\ WF_vars(Next)

(***************************************************************************)
(* Properties.                                                             *)
(***************************************************************************)

Wanted ==
  {v \in call.min .. call.max - 1 :
     call.op = "from_range" => (v - call.min) % call.step = 0}

\* What is returned is the range that was asked for, the parts of containers at
\* both ends and the step across containers included.
RangeExact == pc = "done" => values = Wanted

=============================================================================
