--------------------------- MODULE ArrayContainer ---------------------------
(***************************************************************************)
(* An array container as memory: slots that hold its values in increasing  *)
(* order, and behind them whatever was written there before.  Functions    *)
(* find their way by binary and galloping searches over the slots.  The     *)
(* memory grows when it is full.                                            *)
(***************************************************************************)
EXTENDS Integers, FiniteSets

CONSTANTS
  ChunkSize,     \* number of low halves, 2^16 in the code
  InitialCapacity, \* slots allocated at first, ARRAY_DEFAULT_INIT_SIZE in the code
  Capacity,      \* bound of the model: slots that can be allocated
  FreshMemory    \* what slots may hold before they are first written

ASSUME ArrayAssumption ==
  /\ ChunkSize \in Nat
  /\ Capacity \in Nat \ {0} /\ InitialCapacity \in 1 .. Capacity
  /\ FreshMemory \subseteq 0 .. ChunkSize - 1

Low == 0 .. ChunkSize - 1

VARIABLES
  array,         \* the slots, from place 0
  cardinality    \* how many of them are values

vars == <<array, cardinality>>

Values == {array[i] : i \in 0 .. cardinality - 1}

(***************************************************************************)
(* Searches in the first length slots of an array.                         *)
(***************************************************************************)

\* Mutant: the last candidate is never looked at.
BinarySearchSkips(a, length, key) ==
  LET search[s \in (0 .. length) \X (-1 .. length - 1)] ==
        LET low == s[1]  high == s[2]  middle == (low + high) \div 2
        IN  IF low >= high THEN -(low + 1)
            ELSE IF a[middle] < key THEN search[<<middle + 1, high>>]
            ELSE IF a[middle] > key THEN search[<<low, middle - 1>>]
            ELSE middle
  IN  search[<<0, length - 1>>]

\* The place of key, or -(place it belongs at) - 1.
BinarySearch(a, length, key) ==
  LET search[s \in (0 .. length) \X (-1 .. length - 1)] ==
        LET low == s[1]  high == s[2]  middle == (low + high) \div 2
        IN  IF low > high THEN -(low + 1)
            ELSE IF a[middle] < key THEN search[<<middle + 1, high>>]
            ELSE IF a[middle] > key THEN search[<<low, middle - 1>>]
            ELSE middle
  IN  search[<<0, length - 1>>]

\* The span from lower that doubles while the slot it reaches is in the array and
\* below min.
Span(a, lower, length, min) ==
  LET span[s \in 1 .. 2 * length] ==
        IF lower + s < length /\ a[lower + s] < min THEN span[2 * s] ELSE s
  IN  span[1]

\* The binary search between a slot below min and one above it.
Between(a, lower, upper, min) ==
  LET mid[s \in (lower .. upper) \X (lower .. upper)] ==
        LET l == s[1]  u == s[2]  m == (l + u) \div 2
        IN  IF l + 1 = u THEN u
            ELSE IF a[m] = min THEN m
            ELSE IF a[m] < min THEN mid[<<m, u>>] ELSE mid[<<l, m>>]
  IN  mid[<<lower, upper>>]

\* Mutant: the binary search starts right below the slot the span reached.
AdvanceUntilOvershoots(a, pos, length, min) ==
  LET lower == pos + 1
      span  == Span(a, lower, length, min)
      upper == IF lower + span < length THEN lower + span ELSE length - 1
  IN  IF lower >= length \/ a[lower] >= min THEN lower
      ELSE IF a[upper] = min THEN upper
      ELSE IF a[upper] < min THEN length
      ELSE Between(a, upper - 1, upper, min)

\* The first place after pos whose slot is at least min, or length.
AdvanceUntil(a, pos, length, min) ==
  LET lower == pos + 1
      span  == Span(a, lower, length, min)
      upper == IF lower + span < length THEN lower + span ELSE length - 1
  IN  IF lower >= length \/ a[lower] >= min THEN lower
      ELSE IF a[upper] = min THEN upper
      ELSE IF a[upper] < min THEN length
      ELSE Between(a, lower + span \div 2, upper, min)

(***************************************************************************)
(* The operations.                                                         *)
(***************************************************************************)

Memory(slots) == [0 .. slots - 1 -> FreshMemory]

Init ==
  /\ array \in Memory(InitialCapacity)
  /\ cardinality = 0

GrowCapacity(capacity) ==
  IF capacity <= 0 THEN InitialCapacity
  ELSE IF capacity < 64 THEN 2 * capacity
  ELSE IF capacity < 1024 THEN (capacity * 3) \div 2
  ELSE (capacity * 5) \div 4

\* What the slots hold once there is one more than there are values: where none is
\* left, memory of a larger capacity takes over what they held.
RoomForOneMore ==
  LET capacity == Cardinality(DOMAIN array)
      larger   == GrowCapacity(capacity)
  IN  IF cardinality < capacity THEN {array}
      ELSE IF larger > Capacity THEN {}
      ELSE {[i \in DOMAIN fresh |-> IF i < capacity THEN array[i] ELSE fresh[i]] :
              fresh \in Memory(larger)}

\* A value above the last one is appended.
Append(x) ==
  /\ cardinality > 0 => array[cardinality - 1] < x
  /\ \E slots \in RoomForOneMore : array' = [slots EXCEPT ![cardinality] = x]
  /\ cardinality' = cardinality + 1

\* Any other value that is new moves those above it up by one slot.
Insert(x) ==
  LET loc == BinarySearch(array, cardinality, x)
      place == -loc - 1
  IN  /\ cardinality > 0 /\ array[cardinality - 1] >= x
      /\ loc < 0
      /\ \E slots \in RoomForOneMore :
           array' = [i \in DOMAIN slots |->
                       IF i = place THEN x
                       ELSE IF i > place /\ i <= cardinality THEN slots[i - 1]
                       ELSE slots[i]]
      /\ cardinality' = cardinality + 1

\* Mutant: the last value does not move.
RemoveShiftsShort(x) ==
  LET idx == BinarySearch(array, cardinality, x)
  IN  /\ idx >= 0
      /\ array' = [i \in DOMAIN array |->
                     IF i >= idx /\ i < cardinality - 2 THEN array[i + 1] ELSE array[i]]
      /\ cardinality' = cardinality - 1

\* The values above move down; the slot that was the last keeps what it held.
Remove(x) ==
  LET idx == BinarySearch(array, cardinality, x)
  IN  /\ idx >= 0
      /\ array' = [i \in DOMAIN array |->
                     IF i >= idx /\ i < cardinality - 1 THEN array[i + 1] ELSE array[i]]
      /\ cardinality' = cardinality - 1

\* The slots behind the values are given back; a container is never empty.
ShrinkToFit ==
  /\ cardinality \in 1 .. Cardinality(DOMAIN array) - 1
  /\ array' = [i \in 0 .. cardinality - 1 |-> array[i]]
  /\ UNCHANGED cardinality

Next ==
  \/ \E x \in Low : Append(x) \/ Insert(x) \/ Remove(x)
  \/ ShrinkToFit

Spec == Init /\ [][Next]_vars

(***************************************************************************)
(* What is read from the slots.                                            *)
(***************************************************************************)

Contains(x) == BinarySearch(array, cardinality, x) >= 0

Rank(x) ==
  LET idx == BinarySearch(array, cardinality, x)
  IN  IF idx >= 0 THEN idx + 1 ELSE -idx - 1

\* The runs of the run container that holds the values S.
Starts(S) == {x \in S : x - 1 \notin S}
Stop(S, start) == CHOOSE y \in S : y >= start /\ start .. y \subseteq S /\ y + 1 \notin S

\* No slot of the array; memory behind it equals nothing here.
Outside == -1

Slot(i) == IF i \in DOMAIN array THEN array[i] ELSE Outside

\* run_container_is_subset_array: where the search for the end of the run at
\* start ends, each search beginning where the one before ended.
StopPos(S) ==
  LET pos[start \in Starts(S)] ==
        LET before == {s \in Starts(S) : s < start}
            last == CHOOSE s \in before : \A t \in before : t <= s
        IN  AdvanceUntil(array, IF before = {} THEN -1 ELSE pos[last], cardinality,
                         Stop(S, start))
  IN  pos

StartPos(S, start) ==
  LET before == {s \in Starts(S) : s < start}
      last == CHOOSE s \in before : \A t \in before : t <= s
  IN  AdvanceUntil(array, IF before = {} THEN -1 ELSE StopPos(S)[last], cardinality, start)

\* Only the place where a run starts is compared with the cardinality: the end of a
\* run is read at the place the search returned, the one behind the last value
\* included.
RunIsSubset(S) ==
  /\ Cardinality(S) <= cardinality
  /\ \A start \in Starts(S) :
       /\ StartPos(S, start) # cardinality
       /\ StopPos(S)[start] - StartPos(S, start) = Stop(S, start) - start
       /\ Slot(StartPos(S, start)) = start
       /\ Slot(StopPos(S)[start]) = Stop(S, start)

(***************************************************************************)
(* Properties.                                                             *)
(***************************************************************************)

\* contains and rank agree with the set for values in it and for those that are not.
LookupExact ==
  \A x \in Low : /\ Contains(x) <=> x \in Values
                 /\ Rank(x) = Cardinality({y \in Values : y <= x})

\* The galloping search finds the first slot after pos that is at least min, from
\* any place and for any value: the doubled span never jumps over it.
AdvanceExact ==
  \A pos \in -1 .. cardinality - 1, min \in Low :
    LET found == AdvanceUntil(array, pos, cardinality, min)
    IN  /\ found \in pos + 1 .. cardinality
        /\ \A i \in pos + 1 .. found - 1 : array[i] < min
        /\ found < cardinality => array[found] >= min

\* "Returns true if the container c1 is a subset of the container c2", for c1 the
\* run container of S and c2 the array.
RunSubsetExact ==
  \A S \in SUBSET Low : S # {} => (RunIsSubset(S) <=> S \subseteq Values)

\* Whatever is behind the values, run_container_is_subset_array never misses an
\* inclusion: each search for a run may start where the one before ended.
RunSubsetFound ==
  \A S \in (SUBSET Values) \ {{}} : RunIsSubset(S)

=============================================================================
