--------------------------- MODULE ContainerLoops ---------------------------
(***************************************************************************)
(* The loops that containers are made of, each over the memory it works on:*)
(* the slots of an array container between calls, or one call of a loop    *)
(* over ranges, over two containers side by side, over the words of a      *)
(* bitset or over all values of a bitmap; and the array of containers of a *)
(* bitmap.  Which of them a behaviour is about is chosen at its start: the *)
(* loops share nothing but the place in the call that runs.                *)
(***************************************************************************)
EXTENDS ArrayContainer

CONSTANTS
  HalfMod, ArrayMax, Calls,      \* of RangeLoops
  MergeSize, Lanes, Arguments,   \* of VectorLoops, whose ChunkSize is MergeSize
  Words, Bits, ByteBits, Jobs,   \* of WordLoops
  KeyMod, Visits,                \* of BitmapWalks
  EntryKeys, Typecodes, InitialSize, SlowGrowth, Sources  \* of RoaringArray, EntryKeys its KeyMod

\* flip takes its bounds as uint64_t, from_range as uint32_t; a run is given by its
\* first value and the one past its last.
ASSUME RangeAssumption ==
  /\ HalfMod \in Nat \ {0, 1}
  /\ \A c \in Calls :
       /\ c.op \in {"flip", "from_range", "decompress"}
       /\ c.min \in 0 .. HalfMod * HalfMod - 1
       /\ c.max \in c.min + 1 .. HalfMod * HalfMod
       /\ c.step \in 1 .. HalfMod * HalfMod - 1
       /\ c.op = "from_range" => c.max < HalfMod * HalfMod
       /\ c.op = "decompress" => c.max <= HalfMod /\ c.max - c.min <= ArrayMax

\* Containers are never empty; a range ends no sooner than it begins, within one; a
\* vector holds two values at least, a word whole bytes.
ASSUME ContainerAssumption ==
  /\ Lanes \in Nat \ {0, 1} /\ ByteBits \in Nat \ {0} /\ Bits % ByteBits = 0
  /\ \A a \in Arguments : /\ a.As \subseteq SUBSET (0 .. MergeSize - 1) \ {{}}
                          /\ UNION a.Bs \subseteq 0 .. MergeSize - 1
                          /\ a.froms \union a.tos \subseteq 0 .. MergeSize
  /\ \A j \in Jobs : /\ UNION (j.bits \union j.others) \subseteq 0 .. Words * Bits - 1
                     /\ j.froms \union j.tos \subseteq 0 .. Words * Bits

\* Keys ascend; no container is empty, and a bitset holds more than an array may, which
\* is more than a word.
ASSUME WalkAssumption == Bits <= ArrayMax /\
  \A v \in Visits : \A b \in v.bitmaps : \A i \in DOMAIN b :
    /\ b[i].key \in 0 .. KeyMod - 1 /\ \A j \in 1 .. i - 1 : b[j].key < b[i].key
    /\ b[i].values \subseteq 0 .. Words * Bits - 1 /\ b[i].values # {}
    /\ b[i].type = "bitset" => Cardinality(b[i].values) > ArrayMax
    /\ b[i].type = "array" => Cardinality(b[i].values) <= ArrayMax

\* Bitmaps with every key are left out: card_full shows what becomes of them.
ASSUME EntryAssumption ==
  /\ {EntryKeys, SlowGrowth} \subseteq Nat \ {0} /\ InitialSize \in Nat
  /\ \A S \in Sources : /\ S \subseteq [key : 0 .. EntryKeys - 1, type : Typecodes]
                        /\ \A c, d \in S : c.key = d.key => c = d
                        /\ Cardinality(S) < EntryKeys

VARIABLES
  active,        \* the machine that runs
  call, pc,      \* its call and the place in it
  counter, values,                        \* of RangeLoops
  pos1, pos2, start, buffered, slots, n,  \* of MergeLoops, and of the vectors
  held, last, found,
  words, card, turn, gap, reach,          \* of WordLoops
  rest, out,                              \* of WordLoops and BitmapWalks
  it, loop, stat,                         \* of BitmapWalks
  ra, sieve, heap                         \* of RoaringArray

rangeVars == <<counter, values>>
mergeVars == <<pos1, pos2, start, buffered, slots, n, held, last, found>>
wordVars == <<words, card, turn, gap, reach>>
readVars == <<rest, out>>
walkVars == <<it, loop, stat>>
entryVars == <<ra, sieve, heap>>
loopVars ==
  <<active, call, pc, vars, rangeVars, mergeVars, wordVars, readVars, walkVars, entryVars>>

Ranges == INSTANCE RangeLoops
Merges == INSTANCE VectorLoops WITH ChunkSize <- MergeSize
Bitset == INSTANCE WordLoops
Bitmap == INSTANCE BitmapWalks
Keyed == INSTANCE RoaringArray WITH KeyMod <- EntryKeys

\* The memory of a machine that does not run.
ArrayAtRest == array = [i \in 0 .. Capacity - 1 |-> 0] /\ cardinality = 0
RangesAtRest == counter = 0 /\ values = {}
MergesAtRest ==
  /\ pos1 = 1 /\ pos2 = 1 /\ start = 0 /\ buffered = 0 /\ slots = <<>> /\ n = 0
  /\ held = <<>> /\ last = <<>> /\ found = {}
BitsetAtRest == words = <<>> /\ card = 0 /\ turn = 1 /\ gap = 0 /\ reach = 0
NothingRead == rest = {} /\ out = <<>>
WalkAtRest == it = 0 /\ loop = 0 /\ stat = 0
NoEntries == ra = 0 /\ sieve = 0 /\ heap = 0

LoopsInit ==
  \/ /\ active = "array" /\ Init /\ call = 0 /\ pc = "start"
     /\ RangesAtRest /\ MergesAtRest /\ BitsetAtRest /\ NothingRead /\ WalkAtRest /\ NoEntries
  \/ /\ active = "ranges" /\ Ranges!Init
     /\ ArrayAtRest /\ MergesAtRest /\ BitsetAtRest /\ NothingRead /\ WalkAtRest /\ NoEntries
  \/ /\ active = "merges" /\ Merges!VectorInit
     /\ ArrayAtRest /\ RangesAtRest /\ BitsetAtRest /\ NothingRead /\ WalkAtRest /\ NoEntries
  \/ /\ active = "bitset" /\ Bitset!Init
     /\ ArrayAtRest /\ RangesAtRest /\ MergesAtRest /\ WalkAtRest /\ NoEntries
  \/ /\ active = "bitmap" /\ Bitmap!Init
     /\ ArrayAtRest /\ RangesAtRest /\ MergesAtRest /\ BitsetAtRest /\ NoEntries
  \/ /\ active = "entries" /\ Keyed!Init /\ call = 0 /\ pc = "start"
     /\ ArrayAtRest /\ RangesAtRest /\ MergesAtRest /\ BitsetAtRest /\ NothingRead /\ WalkAtRest

ArrayStep ==
  /\ active = "array" /\ Next
  /\ UNCHANGED <<active, call, pc, rangeVars, mergeVars, wordVars, readVars, walkVars, entryVars>>

RangesStep ==
  /\ active = "ranges" /\ Ranges!Next
  /\ UNCHANGED <<active, vars, mergeVars, wordVars, readVars, walkVars, entryVars>>

MergesStep ==
  /\ active = "merges" /\ Merges!VectorNext
  /\ UNCHANGED <<active, vars, rangeVars, wordVars, readVars, walkVars, entryVars>>

BitsetStep ==
  /\ active = "bitset" /\ Bitset!Next
  /\ UNCHANGED <<active, vars, rangeVars, mergeVars, walkVars, entryVars>>

BitmapStep ==
  /\ active = "bitmap" /\ Bitmap!Next
  /\ UNCHANGED <<active, vars, rangeVars, mergeVars, wordVars, entryVars>>

EntriesStep ==
  /\ active = "entries" /\ Keyed!Next
  /\ UNCHANGED <<active, call, pc, vars, rangeVars, mergeVars, wordVars, readVars, walkVars>>

LoopsNext ==
  ArrayStep \/ RangesStep \/ MergesStep \/ BitsetStep \/ BitmapStep \/ EntriesStep

\* A call runs on until it returns; nobody has to call.
LoopsSpec ==
  LoopsInit /\ [][LoopsNext]_loopVars
            /\ WF_loopVars(RangesStep \/ MergesStep \/ BitsetStep \/ BitmapStep)

-----------------------------------------------------------------------------
\* Add and remove change one value and nothing else, whether memory has to grow for
\* it or not: memmove shifts neither one slot too many nor one too few.
ArrayStepExact ==
  [][\A x \in Low :
       /\ Append(x) \/ Insert(x) => Values' = Values \union {x}
       /\ Remove(x) => Values' = Values \ {x}
       /\ ShrinkToFit => Values' = Values]_vars

\* Binary and galloping searches agree with the set the slots hold, for values in it
\* and for others, from any place on, with stale values behind it.
SearchesExact == LookupExact /\ AdvanceExact

\* flip, from_range and the decompression of a run yield the range that was asked
\* for, the parts of containers at both ends and the step across containers included.
RangeExact == active = "ranges" => Ranges!RangeExact

\* The loops over two containers return the set that the operation promises, in
\* order and as the fewest runs, the loops that write what they read included.
MergeExact == active = "merges" => Merges!MergeExact

\* No turn of such a loop writes past the memory that was allocated for the result,
\* and what has been written is in order at every turn.
MergeSound == active = "merges" => Merges!MergeSound

\* The functions over words change the bits they are asked to and no others, and the
\* cardinality that some of them keep along the way is the number of bits.
WordsExact == active = "bitset" => Bitset!WordsExact

\* Bits are read from the words as the values in order, or as the fewest runs, never
\* more of those than were counted when memory was allocated, nor past it.
ReadsExact == active = "bitset" => Bitset!ReadsExact

\* Every walk over a bitmap delivers the values in order, each once, whatever
\* containers follow each other, up to the one its callback stops at.
WalksExact == active = "bitmap" => Bitmap!WalksExact

\* The array of containers maps keys to containers as its calls promise, while its
\* memory grows, shrinks and is sifted in place: places stay inside the allocation, in
\* order, each with its own container and typecode, no container lost or freed twice.
EntriesExact ==
  [][active = "entries" => Keyed!EntriesSound' /\ Keyed!StepExact]_entryVars

\* Every call of a loop returns: no counter goes round, and every turn brings it
\* nearer to its end.
Returns == <>(active \notin {"array", "entries"} => pc = "done")

=============================================================================
