---------------------------- MODULE RoaringArray ----------------------------
(***************************************************************************)
(* The array of containers of one bitmap as memory: keys, containers and   *)
(* typecodes in three parallel arrays of one allocation, the first size    *)
(* places of which are in use.  Functions of the library open and close    *)
(* gaps, append ranges of other bitmaps, or sift the places from the left. *)
(* No container is shared here: SharedBitmaps is about those.              *)
(***************************************************************************)
EXTENDS Integers, FiniteSets, Sequences, SequencesExt, FiniteSetsExt

CONSTANTS
  KeyMod,        \* number of keys, 2^16 in the code
  Typecodes,     \* what a typecode can be
  InitialSize,   \* INITIAL_CAPACITY
  SlowGrowth,    \* size from which memory grows by a quarter, 1024 in the code
  Sources        \* what other bitmaps hold, as sets of containers

VARIABLES
  ra,            \* roaring_array_t
  sieve,         \* an operation in place: which one, places kept, place it looks at next
  heap           \* how many containers of each key are allocated and not freed

vars == <<ra, sieve, heap>>

Key == 0 .. KeyMod - 1
Container(key, type) == [key |-> key, type |-> type]
Unwritten == Container(KeyMod, "unwritten")

-----------------------------------------------------------------------------
\* Memory.  The three arrays are one allocation of as many places each.

\* memcpy of what is in use.
Copied(f, size, capacity, junk) ==
  [i \in 0 .. capacity - 1 |-> IF i < size THEN f[i] ELSE junk]

ReallocArray(a, capacity) ==
  [size |-> a.size, allocation_size |-> capacity,
   keys |-> Copied(a.keys, a.size, capacity, Unwritten.key),
   containers |-> Copied(a.containers, a.size, capacity, Unwritten),
   typecodes |-> Copied(a.typecodes, a.size, capacity, Unwritten.type)]

InitWithCapacity(capacity) ==
  ReallocArray([size |-> 0, keys |-> <<>>, containers |-> <<>>, typecodes |-> <<>>], capacity)

\* Mutant: room is made from the second container on.
ExtendArrayLate(a, k) ==
  LET desired == a.size + k
  IN  IF desired <= a.allocation_size + 1 THEN a
      ELSE ReallocArray(a, IF a.size < SlowGrowth THEN 2 * desired ELSE (5 * desired) \div 4)

ExtendArray(a, k) ==
  LET desired == a.size + k
  IN  IF desired <= a.allocation_size THEN a
      ELSE ReallocArray(a, IF a.size < SlowGrowth THEN 2 * desired ELSE (5 * desired) \div 4)

Store(a, i, key, c, type) ==
  [a EXCEPT !.keys[i] = key, !.containers[i] = c, !.typecodes[i] = type]

\* n places of f get what n places of g hold.
Moved(f, to, g, from, n) ==
  [i \in DOMAIN f |-> IF i \in to .. to + n - 1 THEN g[i - to + from] ELSE f[i]]

MoveRange(a, to, b, from, n) ==
  [a EXCEPT !.keys = Moved(@, to, b.keys, from, n),
            !.containers = Moved(@, to, b.containers, from, n),
            !.typecodes = Moved(@, to, b.typecodes, from, n)]

InsertNewKeyValueAt(a, i, key, c) ==
  LET room == ExtendArray(a, 1)
  IN  [Store(MoveRange(room, i + 1, room, i, a.size - i), i, key, c, c.type)
         EXCEPT !.size = @ + 1]

RemoveAtIndex(a, i) ==
  [MoveRange(a, i, a, i + 1, a.size - i - 1) EXCEPT !.size = @ - 1]

AppendEntry(a, key, c, type) ==
  [Store(ExtendArray(a, 1), a.size, key, c, type) EXCEPT !.size = @ + 1]

\* The end of the range is a uint16_t.
AppendCopyRange(a, b, start, end) ==
  LET n    == Max({(end % KeyMod) - start, 0})
      room == ExtendArray(a, (end % KeyMod) - start)
  IN  [MoveRange(room, a.size, b, start, n) EXCEPT !.size = @ + n]

\* ra_append_copies_until and ra_append make room for one container at a time.
AppendEach(a, b, n) ==
  LET after[i \in 0 .. n] ==
        IF i = 0 THEN a
        ELSE AppendEntry(after[i - 1], b.keys[i - 1], b.containers[i - 1], b.typecodes[i - 1])
  IN  after[n]

Filled(a, b) == [MoveRange(a, 0, b, 0, b.size) EXCEPT !.size = b.size]

\* ra_copy and ra_overwrite.
Copy(b) == Filled(InitWithCapacity(b.size), b)

Overwritten(a, b) ==
  Filled(IF a.allocation_size < b.size THEN ReallocArray(a, b.size) ELSE a, b)

\* Places of a with keys below key.
Below(a, key) == Cardinality({i \in 0 .. a.size - 1 : a.keys[i] < key})

KeysOf(S) == {c.key : c \in S}

\* Another bitmap that holds the containers S, each in the place with as many in front
\* of it as have smaller keys.
Bitmap(S) ==
  LET holds == [i \in 0 .. Cardinality(S) - 1 |->
                  CHOOSE c \in S : Cardinality({d \in S : d.key < c.key}) = i]
  IN  [size |-> Cardinality(S), allocation_size |-> Cardinality(S), containers |-> holds,
       keys |-> [i \in DOMAIN holds |-> holds[i].key],
       typecodes |-> [i \in DOMAIN holds |-> holds[i].type]]

-----------------------------------------------------------------------------

NoSieve == [op |-> "none", kept |-> 0, next |-> 0]

Keys == {ra.keys[i] : i \in 0 .. ra.size - 1}

\* Containers come into being for the keys made, and those of the keys freed go.
Account(made, freed) ==
  heap' = [k \in Key |-> heap[k] + (IF k \in made THEN 1 ELSE 0) - (IF k \in freed THEN 1 ELSE 0)]

Idle == sieve.op = "none" /\ UNCHANGED sieve

\* The first value of a key that the bitmap does not have.
InsertKey(c) ==
  /\ Idle /\ c.key \notin Keys
  /\ ra' = InsertNewKeyValueAt(ra, Below(ra, c.key), c.key, c) /\ Account({c.key}, {})

\* The last value of a key is removed.
RemoveKey(key) ==
  /\ Idle /\ key \in Keys
  /\ ra' = RemoveAtIndex(ra, Below(ra, key)) /\ Account({}, {key})

\* container_add and container_remove return another container.
ReplaceContainer(c) ==
  /\ Idle /\ c.key \in Keys
  /\ ra' = Store(ra, Below(ra, c.key), c.key, c, c.type) /\ Account({c.key}, {c.key})

\* Unions end with what is left of the other bitmap, above every key of this one,
\* copied or moved; flip with what is above its range.
AppendRest(S) ==
  LET other == Bitmap(S)
      start == IF ra.size = 0 THEN 0 ELSE Below(other, Max(Keys) + 1)
  IN  /\ Idle /\ start < other.size
      /\ ra' = AppendCopyRange(ra, other, start, other.size)
      /\ Account({other.keys[i] : i \in start .. other.size - 1}, {})

\* A new bitmap begins with the containers of another below a key.
AppendUntil(S, key) ==
  LET other == Bitmap(S) IN
  /\ Idle /\ ra.size = 0
  /\ ra' = AppendEach(ra, other, Below(other, key))
  /\ Account({k \in KeysOf(S) : k < key}, {})

Overwrite(S) ==
  /\ Idle /\ ra' = Overwritten(ra, Bitmap(S)) /\ Account(KeysOf(S), Keys)

\* The program goes on with a copy of its bitmap, and frees the original; or with one
\* that is read.
CopyAndFree == Idle /\ ra' = Copy(ra) /\ Account(Keys, Keys)
Deserialize(S) == Idle /\ ra' = Copy(Bitmap(S)) /\ Account(KeysOf(S), Keys)

\* A new bitmap, with the capacity a caller expects to need or the usual one.
Create(capacity) ==
  Idle /\ ra' = InitWithCapacity(capacity) /\ Account({}, Keys)

ShrinkToFit == Idle /\ ra' = ReallocArray(ra, ra.size) /\ UNCHANGED heap

-----------------------------------------------------------------------------
\* roaring_bitmap_and_inplace and roaring_bitmap_andnot_inplace sift their containers:
\* what stays moves left over the places already looked at.

Begin(op) ==
  sieve.op = "none" /\ sieve' = [sieve EXCEPT !.op = op] /\ UNCHANGED <<ra, heap>>

Sifting(op) == sieve.op = op /\ sieve.next < ra.size

\* The result of a key that both bitmaps have.
KeepResult(type) ==
  LET key == ra.keys[sieve.next] IN
  /\ Sifting("and") \/ Sifting("andnot")
  /\ ra' = Store(ra, sieve.kept, key, Container(key, type), type)
  /\ sieve' = [sieve EXCEPT !.kept = @ + 1, !.next = @ + 1]
  /\ UNCHANGED heap

\* Only the difference keeps a container as it is.
KeepContainer ==
  LET i == sieve.next IN
  /\ Sifting("andnot")
  /\ ra' = IF i = sieve.kept THEN ra
           ELSE Store(ra, sieve.kept, ra.keys[i], ra.containers[i], ra.typecodes[i])
  /\ sieve' = [sieve EXCEPT !.kept = @ + 1, !.next = @ + 1]
  /\ UNCHANGED heap

\* Nothing is left of a container, or the other bitmap has no such key.
DropContainer ==
  /\ Sifting("and") \/ Sifting("andnot")
  /\ sieve' = [sieve EXCEPT !.next = @ + 1]
  /\ Account({}, {ra.containers[sieve.next].key}) /\ UNCHANGED ra

EndAnd ==
  /\ sieve.op = "and" /\ sieve.next = ra.size
  /\ ra' = [ra EXCEPT !.size = sieve.kept]
  /\ sieve' = NoSieve /\ UNCHANGED heap

\* The other bitmap may have no more keys: what is left slides to the places kept.
EndAndNot ==
  LET left == ra.size - sieve.next IN
  /\ sieve.op = "andnot"
  /\ ra' = [(IF sieve.next > sieve.kept /\ left > 0
             THEN MoveRange(ra, sieve.kept, ra, sieve.next, left) ELSE ra)
              EXCEPT !.size = sieve.kept + left]
  /\ sieve' = NoSieve /\ UNCHANGED heap

-----------------------------------------------------------------------------

Init ==
  /\ ra = InitWithCapacity(InitialSize)
  /\ sieve = NoSieve
  /\ heap = [k \in Key |-> 0]

Containers == [key : Key, type : Typecodes]

Next ==
  \/ \E c \in Containers : InsertKey(c) \/ ReplaceContainer(c)
  \/ \E key \in Key : RemoveKey(key)
  \/ \E S \in Sources : AppendRest(S) \/ Overwrite(S) \/ Deserialize(S)
  \/ \E S \in Sources, key \in Key : AppendUntil(S, key)
  \/ \E capacity \in 0 .. InitialSize : Create(capacity)
  \/ CopyAndFree \/ ShrinkToFit
  \/ Begin("and") \/ Begin("andnot")
  \/ \E type \in Typecodes : KeepResult(type)
  \/ KeepContainer \/ DropContainer \/ EndAnd \/ EndAndNot

Spec == Init /\ [][Next]_vars

-----------------------------------------------------------------------------

\* The places that count: all, or those kept and those still to be looked at.
Places == (0 .. sieve.kept - 1) \union (sieve.next .. ra.size - 1)
Entries == {Container(ra.keys[i], ra.typecodes[i]) : i \in Places}

\* At every turn the places that count are inside the allocation, in the order of
\* their keys; each has the container made for its key, of the type its typecode
\* says; and a container is allocated just if a place has it: none is lost, none is
\* freed twice, none is in two places.
EntriesSound ==
  /\ ra.size <= ra.allocation_size
  /\ {DOMAIN ra.keys, DOMAIN ra.containers, DOMAIN ra.typecodes} = {0 .. ra.allocation_size - 1}
  /\ \A i \in Places : ra.containers[i] = Container(ra.keys[i], ra.typecodes[i])
  /\ \A i, j \in Places : i < j => ra.keys[i] < ra.keys[j]
  /\ heap = [k \in Key |-> IF k \in KeysOf(Entries) THEN 1 ELSE 0]

Others(key) == {e \in Entries : e.key # key}

\* What a call changes is the entry of its key or what it appends, whether memory
\* grows or shrinks under it; sifting in place changes nothing but what it looks at.
StepExact ==
  /\ \A c \in Containers :
       InsertKey(c) \/ ReplaceContainer(c) => Entries' = Others(c.key) \union {c}
  /\ \A key \in Key : RemoveKey(key) => Entries' = Others(key)
  /\ \A S \in Sources :
       /\ AppendRest(S) =>
            Entries' = Entries \union {c \in S : \A e \in Entries : e.key < c.key}
       /\ Overwrite(S) \/ Deserialize(S) => Entries' = S
       /\ \A key \in Key : AppendUntil(S, key) => Entries' = {c \in S : c.key < key}
  /\ CopyAndFree \/ ShrinkToFit \/ KeepContainer \/ EndAnd \/ EndAndNot => Entries' = Entries
  /\ \A type \in Typecodes : KeepResult(type) =>
       LET key == ra.keys[sieve.next] IN Entries' = Others(key) \union {Container(key, type)}
  /\ DropContainer => Entries' = Others(ra.keys[sieve.next])

EntriesExact == [][EntriesSound' /\ StepExact]_vars

=============================================================================
