# redis-roaring in TLA+

A specification of redis-roaring: a Redis module (`src/roaring/module.c`) that
stores 32-bit integer sets as roaring bitmaps, on top of the CRoaring library
(`src/croaring/`).  It says what the module promises its clients, models how
the code gets there, checks both with TLC on small instances and proves the
central invariants with TLAPS for every value of the constants.

`src/roaring/croaring.c` is the amalgamation of the files under
`src/croaring/src` and `src/croaring/include` that is compiled into the module.
The text of the functions is the same; the models are mapped to the originals.

## 1. The system

### Components, their state and their operations

| component | state | operations |
|---|---|---|
| **Commands** (`roaring/module.c`) | none of its own: the keyspace is the server's, a call has locals (`values`, `bang_found`, a temporary `bitmap`, an iterator) | `ROARING.ADD`, `.REMOVE` (`_cmdAddOrRemove`), `.CARD`, `.MEMBERS`, `.ISMEMBER` |
| **Type callbacks** (`roaring/module.c`) | none; called by the server while it saves, loads, rewrites or frees a key | `rdb_save`, `rdb_load`, `aof_rewrite`, `mem_usage`, `free` |
| **Bitmaps** (`croaring/src/roaring.c`) | `roaring_bitmap_t`: one array of containers and a copy-on-write flag | create, `add_many`, `remove`, `contains`, `or_inplace`, `andnot_inplace`, cardinality, iterator, serialize/deserialize, and a larger public interface that the module does not call |
| **Array of containers** (`roaring_array.c`) | keys, containers and type codes in three parallel arrays sorted by key | insert, remove, replace, append ranges, copy ranges, portable (de)serialization |
| **Containers** (`containers.h`, `array`, `bitset`, `run`) | sorted 16-bit array with its length; 8 KB of bits with a *stored* cardinality; sorted runs | add, remove, contains, and one function per pair of types for each set operation |
| **Conversions, mixed operations** (`convert.c`, `mixed_*.c`) | none | choose the type of a result and its cardinality |
| **Many-way union** (`roaring_priority_queue.c`) | a heap of bitmaps | `or_many_heap` with lazy unions; not called by the module |
| **Shared containers** (`containers.h`, `containers.c`) | a wrapper with a counter around a container that several bitmaps hold | share, `get_copy_of_container`, extract a private copy, let go |
| **Kernels** (`array_util.c`, `bitset_util.c`) | none | merge, gallop, set and clear ranges and lists, decode words; portable and vectorised |
| **rmutil** | heaps, vectors, strings | only its registration macros are used |

### How they interact

Redis runs one command at a time and runs a handler to its return.  A command
reads or changes the bitmap through the pointer stored in the key.
`_cmdAddOrRemove` creates the bitmap and puts it into the key *before* it adds
the first value, and deletes the key when a removal has emptied it; it ends in
`RedisModule_ReplicateVerbatim`, which is what the append-only file and
the replicas get.  `CARD` folds its arguments into a temporary bitmap.  `MEMBERS`
sends the length of its reply from the stored cardinalities and then walks
the bits.  A forked child calls `rdb_save` (or `aof_rewrite`) on each key of the
keyspace as it was at the fork, while the parent goes on; at a restart, and on a
replica, `rdb_load` rebuilds each bitmap from its bytes.

### What is hard

There are no threads in the code.  What is hard to get right and to test:

- *cached knowledge*: the cardinality that a bitset stores beside its bits, the
  type code beside the pointer, the container that `add_many` keeps at hand from
  the value before; everything downstream trusts them;
- *long sequences of legal calls*: the type of a container depends on how it was
  built.  A full bitset turns into a run in `container_ior`, so `CARD` meets
  pairs of types that no single `ADD` produces;
- *boundaries*: an array of 4096 values, a container of 65536, a bitmap of 65536
  containers, cardinality minus one in 16 bits, 64-bit arguments cut to 32;
- *shared memory inside one thread*: copies of a bitmap share containers until one
  of them is written; arrays are merged into the memory they are read from, and keep
  what removals left behind their last value;
- *order inside a call*: the key exists before its values, the announced length
  comes before the elements, containers are squeezed out while the loop goes on;
- *forks, crashes and replicas*: saving while writing, restarting in between,
  replaying commands on a bitmap that was rebuilt from its bytes.

`PROJECT.json` lists these hazards line by line with the properties that watch them.

### What makes each component correct

- Commands: every answer is the one a store of plain sets gives to the same request (an
  ISMEMBER of text apart, section 3); no key holds an empty bitmap between calls; every
  call returns.
- Bitmaps and containers: no empty container, a stored cardinality equal to
  the number of values, at most `DEFAULT_MAX_SIZE` values in an array and more in
  a bitset; unions and differences are exact; the iterator lists the set in order.
- Loops over slots and words: they return, with the set they should, never read a slot
  that was not written, never write one that is not theirs, not even with the
  upper part of a vector.
- Shared containers: a counter is the number of bitmaps that hold the container; writing
  to a bitmap is not seen through another; nothing is used after it was freed.
- Serialization: what is loaded is what was saved; the buffer allocated is
  the buffer written.
- The rest of the library interface: whatever represents them, bitmaps are sets.
  Operations, comparisons, ranks and ranges are those of the sets, results are as
  well formed as arguments, lazy results after their repair, and every call returns.
- Callbacks: a restart brings back what the persistence settings promise; a replica
  becomes what its master is, container by container.

## 2. The modules

```
Containers ── Bitmaps ─┬─ RoaringCommands ── implements ──> SetKeyspace
                       └─ Serialization ─┬─ RdbCallbacks
                                         └─ Propagation ── Persistence ── Replication

Containers ── ContainerOps ─┐
Bitmaps ────────────────────┴─ BitmapOps ─┬─ BitmapLibrary
                                          └─ ManyBitmaps

SharedContainers ── SharedBitmaps

ArrayContainer ─────────────┐
MergeLoops ── VectorLoops ──┤
RangeLoops ─────────────────┼─ ContainerLoops
WordLoops ──────────────────┤
BitmapWalks ────────────────┤
RoaringArray ───────────────┘

Recursion ─┬─ BitmapsProofs ─┬─ RoaringCommandsProofs
           │                 ├─ ReplicationProofs
           │                 └─ LibraryProofs
           ├─ ContainerLoopsProofs
           └─ SharedContainersProofs ── SharedBitmapsProofs
```

The upper two groups model containers as sets with a type and a stored cardinality. The
lower two open what those leave out: who holds a container, and the memory inside.

| module | models | correspondence |
|---|---|---|
| `Containers` | containers, conversions, `container_add`, `_remove`, `_contains`, `_ior`, `_iandnot` | a container is `[type, vals, card]`: the type code, the set of low halves, and the *stored* cardinality, updated by the arithmetic the code uses (`SetList` and `ClearList` count flipped bits) and not recomputed; each pair of types has its own case with the type that the C function returns |
| `Bitmaps` | `roaring_bitmap_t` and the operations the commands call | a finite function from container key to container; `AppendCopyRange` has the 16-bit bounds of `ra_append_copy_range`; `LoadFirst` and `AdvanceIterator` are the iterator |
| `RoaringCommands` | the five handlers | one action per early return, per entry and per loop turn; `request` is the command that a client has sent, until its handler begins (`Receive`, and a guard of each `Begin...`); `pc` names the loop, the other locals are variables of the same role; `Return` forgets them. `Overwrite` and `Delete` are other commands of the server on the same key |
| `SetKeyspace` | the promise: a set per key, each command atomic, its answer a function of the sets and of the request (command, key, arguments), delivered at once or later | abstract; `RoaringCommands!Promise` is the refinement mapping |
| `Serialization` | `roaring_bitmap_serialize`, `_size_in_bytes`, `_deserialize`, `ra_portable_*` | a buffer is what its bytes say (format, header entries, payloads with their layout); a payload that is read as another type than it was written is `Garbled`; sizes are computed twice, once as the sizing functions do and once from what the writer writes |
| `RdbCallbacks` | `RoaringRdbSave`, `RoaringRdbLoad` on any sound bitmap | run containers included, which the library may hold although the commands never store one |
| `Propagation` | commands as replication sees them | `Apply` is a whole handler; `IsPropagated` is the path that reaches `ReplicateVerbatim` |
| `Persistence` | snapshots, append-only file, rewriting, crash and restart around the callbacks | the server's part is external: fork, rename when done, log synced before the reply |
| `Replication` | a replica beside that server: full synchronisation and the command stream, with `DeploymentSpec` for both | the server's part is external; the link is lost when the master crashes |
| `ContainerOps` | `container_and`, `_or`, `_xor`, `_andnot`, `_not`, `_not_range`, lazy variants and repair, conversions on request, comparisons, rank and select | as in `Containers`; `Unknown` is `BITSET_UNKNOWN_CARDINALITY`, and `Settle` the count that `bitset_container_nonzero_cardinality` makes and keeps. `ContainerIsSubset` is the set of answers the code can give, because one pair of types reads a slot behind an array |
| `BitmapOps` | the operations of `roaring_bitmap_t` on top of them | `Merge` and `MergeInplace` are the walks along two key arrays that `or`, `xor` and their lazy variants share, with the tails copied as ranges; `FlipEnds` and `RemoveRunCompressionEnds` say for which arguments the loops return |
| `BitmapLibrary` | a program that calls the library, each result an argument of later calls | the state is what its variables hold |
| `ManyBitmaps` | `or_many`, `or_many_heap`, `xor_many` | one lazy operation a step, one percolation a step while the queue is built; the queue is the array of `roaring_pq_t`, counted from 1 |
| `SharedContainers` | containers as objects at addresses, the wrapper with its counter, `get_copy_of_container`, `shared_container_extract_copy`, `shared_container_free` | every operator takes a memory and returns the one after it; `misused` is set once an object is used that is gone or is not what the typecode says |
| `SharedBitmaps` | bitmaps with copy-on-write: `and`, `or`, `xor`, `andnot` and their variants in place, the union that moves the containers of two temporaries, copy, negation, conversion to runs and back, add, remove, free | bitmaps are sequences of entries walked by index, as `ra_get_key_at_index` and its kin do; one action per loop, one turn per step, the memory as it is after each |
| `ArrayContainer` | an array container as memory, its growth and shrinking, `binarySearch`, `advanceUntil`, `run_container_is_subset_array` | slots with the values in front and whatever removals left behind them |
| `RangeLoops` | the loops of `flip_inplace`, `from_range` and `convert_to_bitset_or_array_container` | one turn a step, with counters modulo 2^16 or 2^32 |
| `MergeLoops` | the loops that walk two arrays or runs side by side: union, intersection, difference, xor and negation, the appends that merge runs (`smart_append`, `smart_append_exclusive`), conversions between arrays and runs, subset, equality, rank, select | slots allocated as the callers do, of which `n` are used; in place, the slots written are the ones read, behind the gap that `memmove` made |
| `VectorLoops` | `intersect_vector16`, `union_vector16`, `xor_vector16`, `difference_vector16` and the loops around them | a store writes a whole vector of `Lanes` values however few are kept; what is left goes to the loops of `MergeLoops` |
| `WordLoops` | bitsets as words: set, clear and flip ranges and lists, decode into an array or into runs, questions about a bitset and an array or run, rank and select | a word is the set of its bits that are one; masks at both ends as the code computes them; `reach` is how many slots of the output were written on the way |
| `BitmapWalks` | the iterator, `roaring_iterate`, `roaring_bitmap_to_uint32_array`, statistics, the extremes | the iterator's three places as the struct has them; one value, or one empty word, a turn, from container to container |
| `RoaringArray` | the array of containers as memory: `extend_array` and `realloc_array`, insertion, removal, appending and copying ranges, copy, overwrite, shrinking, and what the intersection and difference in place do to it | `ra` is `roaring_array_t` with its three parallel arrays; a call a step, and one place a step while containers are sifted; a container is the key and type it was made for, and `heap` counts how many of a key are allocated, so that one that is lost or freed twice shows |
| `ContainerLoops` | the six of them under one specification | instances; a behaviour is about one, chosen at its start |
| `Recursion` | nothing in the code: lemmas about loops and recursive functions | section 5 |
| `*Proofs` | the proofs; `LibraryProofs` has those about `BitmapLibrary` and `ManyBitmaps`, `ReplicationProofs` those about `Serialization` and `RdbCallbacks` too | section 5 |
| `MC*` | instances | constants for TLC only |

Definitions whose comment starts with *Mutant* are the code with a plausible bug;
no specification uses them.  Each property is violated when one of them takes the
place of the definition that follows it.

### Abstractions

- A value is a pair of its halves, `val >> 16` and `val & 0xFFFF`; `ChunkSize` is
  the number of low halves and `KeyMod` the number of high halves, 2^16 both.
- In the modules about containers and bitmaps the loops *inside* a container function
  (merging two sorted arrays, setting bits word by word) are set operations.  What
  remains is what the callers depend on: the values, the type that results and the
  number that is stored.  The loops are in `ContainerLoops`, where containers have
  slots and words.
- The three parallel arrays are a map, in `SharedBitmaps` a sequence of entries; how
  they grow is not modelled.
- In `SharedBitmaps` a container is a set with a kind, `run` or not: what matters
  there is who holds it and who frees it.  Every bitmap has the flag of `Flags` before
  each call, as in a program that sets it once for each.
- A vector is `Lanes` values and a word `Bits` bits, of `ByteBits` to a byte; values per
  vector, per word and per container keep their order, not their size.
- Arguments are integers `HighWord x Chunk x Low`, cut by `Truncate`, or `NotInt`.  `Asked`
  is what ISMEMBER is asked about: integers only, but in `ismember_text`.
- `add_many` keeps a pointer to the container of the value before.  `BitmapAdd` looks the
  container up each time: that the pointer follows a conversion is not modelled.
- `GrowCapacity` leaves out the clamp of `array_container_grow`: insertions ask for one slot
  more and for at most INT32_MAX, which changes none of its results.

### Refinement

`request` is a variable of `SetKeyspace` too.  `Ask` sets it, and the command it names, and
no other, then serves it: `Add` and `Remove` change the set of `request.key` by
`ValuesNamed`, `Card` counts the keys before the "!" without those behind it, `List` answers
with the set of `request.key`, and `IsMember` with 1 exactly when the value that
`request.args[1]` names is in it.  Nothing about an answer is left to choose, but for text
given to ISMEMBER: it is in no set, so 0 and an error are both right.  The value that an
argument names is its low half (`Named <- LowHalf`), which is how `module.c` reads all of its
integers; a client that sends one beyond 32 bits asks about that half.

A call takes effect in `SetKeyspace` when it begins.  The mapping adds what a call
still has to do to what it has done: the set of the open key is the bitmap
plus the values `ADD` has not come to (minus those of `REMOVE`), and the answer
of `CARD` is the cardinality of the temporary bitmap with the keys that are still
in `argv` united or subtracted.  `pending` is the running call: while it is true
`SetKeyspace` only allows the answer to be delivered, so every turn of a loop must
leave the abstract sets and the abstract answer as they are.  This is what fails when
a union loses a value or a conversion a bit.

### Fairness

`WF_vars(BeginCall \/ ContinueCall)`: the event loop of the server comes to every client that
has sent a command, and once a handler has begun the server does nothing else until it
returns, so its next turn is taken.  Nothing makes a client send a command: `Commands` and
`OtherCommands` have no fairness.  `CallsReturn` needs no more.
`ManyBitmaps` is a single call and has `WF_vars(Next)`, and `ContainerLoops` has weak
fairness of the turns of `RangeLoops`, `MergeLoops`, `VectorLoops`, `WordLoops` and
`BitmapWalks`: a call that can go on does.  They stop when the call returns, so deadlock is not checked there.
What is done to an `ArrayContainer` or a `RoaringArray` between calls has no fairness.
The other specifications state safety only.

## 3. The runs

`ArrayMax`, `ChunkSize`, `KeyMod` and `RunThreshold` stand for 4096, 65536, 65536 and 32.
They keep their order (`ArrayMax < ChunkSize`, chunks that are over the
threshold of arrays without being full) so that every branch is taken.

| run | asks | instance |
|---|---|---|
| `commands_write` | do the calls keep their invariants, return, and implement sets | one key, chunks of 3 with arrays of 1 (array, bitset, full bitset), two of three container keys, the last among them; two values per call, arguments of 64 bits of which both halves vary, or text; ISMEMBER of any integer, with too few arguments and with too many |
| `card_containers` | are in-place unions and differences exact for every pair of types, and is the answer of `CARD` that of sets | chunks of 4 with arrays of 2, one container key, two keys, up to four names: enough to fill a bitset, have it turn into a run and subtract from it in every type |
| `card_full` | is the union exact when every container key is in use | two of two container keys; **violated** |
| `ismember_text` | does ISMEMBER say whether the bitmap has the value, for an argument that is no integer | one key; **violated** |
| `rdb_callbacks` | does every sound bitmap survive saving and loading, in a buffer of the right size | three container keys with any of 13 containers each or none: all mixtures of types, both formats, both sides of the offset threshold |
| `deployment` | what does a restart bring back, with snapshots only and with an append-only file that is rewritten with an RDB preamble, and does a replica of that server become what it is | two keys, commands of one value, chunks of 2 that fill and empty, two commands in the log and two under way so that their order matters, crash at any point of the child's walk over the keys, disconnections |
| `persistence_rewrite` | and when the rewrite calls `aof_rewrite` | **violated** |
| `library` | do calls of the library treat bitmaps as sets: any sequence of calls, and one call on many bitmaps, in which no lazy cardinality may be taken for a number and the queue keeps its order | each behaviour is of one kind.  Sequences: two bitmaps, two of three container keys; every value of a first container of 5 low halves with arrays of 2, so that arrays, bitsets, runs and full containers of each meet, and one value of the second: containers before, at and after another, tails, containers that vanish; ranges inside a container, at its ends, over all of it and across both.  Many: up to four of ten bitmaps with none, one or two containers of every type: disjoint, overlapping, complementary, and two bitsets whose difference an array then grows, so that an unknown count would come back as a plausible one; several sizes and ties, and at least one union of two temporaries |
| `sharing` | is a container ever freed too early, too late or written under another bitmap's feet | three bitmaps of up to two containers of two values, every call, flips that begin and end inside a container; a container can be held by one, two or three of them |
| `sharing_runs` | the same with run containers | two bitmaps; **violated** |
| `container_loops` | do the loops return, with the right set, in the memory they own | arrays of 6 slots over 7 low halves, that grow from 3: spans of 1, 2 and 4 in the galloping search, clamped and not; ranges over 4 low halves and 4 container keys with steps up to 6; every pair of sets over five of 7 values with a gap, and the full one, for the merges; every pair of sets of more than 4 of 7 values for vectors of 2, so that there are full vectors and rests; 4 words of 2 bits with every set and every range; walks over one container of any type and content, and over two of eleven shapes each, the last value of all included; an array of containers for 3 keys that begins with one place, with growth by doubling below 2 and by a quarter from there on, and other bitmaps of every set of keys but all |
| `array_subset` | is a run container found in an array exactly if it is in it | 4 slots; **violated** |

Why these bounds are enough.  A container operation looks at the type of its
arguments, at one or two cardinalities against `ArrayMax` or `ChunkSize`, and at
membership; three to five low halves give each comparison both outcomes with
each pair of types.  Operations on bitmaps treat container keys alike
but for their order: two give before, equal and after, three with one unused give a
gap.  A merge of two sequences compares what is next in either, and what was appended
last; five values with a gap give runs that touch, overlap, contain and miss each
other, at both ends of the container.  Two words in the middle give ranges that begin
and end in one word, in neighbours and around a full one.  A write call handles each value in one step on one bitmap, so that longer
argument lists repeat states that two reach; `card_containers` needs four names
because a run only appears after two unions.  For the invariants the
proofs remove the bounds altogether.

The other passing runs allow no deadlock: a client can always send another command.

### What the violated runs show

- `card_full`: `ra_append_copy_range` takes `start_index` and `end_index` as
  `uint16_t`.  With 65536 containers in the second bitmap the end wraps around to 0 and
  nothing is appended, so `ROARING.CARD a b` counts too few when `b` has a value
  in every container and `a` is not empty.
- `ismember_text`: `cmdIsMember` does not look at what `RedisModule_StringToLongLong`
  returns.  For text its `value` is still -1, cut to 0xFFFFFFFF: `ROARING.ISMEMBER k foo`
  answers 1 when the bitmap has 4294967295, and `ADD` and `REMOVE` refuse the same argument.
- `persistence_rewrite`: `RoaringAofRewrite` is a TODO.  After `BGREWRITEAOF` with
  `aof-use-rdb-preamble no` the rewritten file has no command for the module's
  keys, and the next restart finds them gone.
- `array_subset`: `run_container_is_subset_array` compares the end of a run with
  `array[stop_pos]` where `stop_pos` may be the cardinality.  After 7 was removed from
  {1, 5, 6, 7} the slot still holds 7, and `roaring_bitmap_is_subset` finds the run
  {5, 6, 7} in it.

- `sharing_runs`: `roaring_bitmap_remove_run_compression` converts the run container
  inside a shared one, which frees it, and lets go of the wrapper afterwards: with the
  last reference the run is freed twice, with others left they hold a freed container.

The last two are not reached from a command of the module, which never sets the
copy-on-write flag.

### What `container_loops` leaves out

`Safe` in `MCContainerLoops` is the set of calls on ranges the run asks about.  With the others the
loops, as `RangeLoops` has them, meet the end of their counters:

- `for (uint16_t hb = hb_start; hb <= hb_end; ++hb)` has no end when `hb_end` is
  0xFFFF: negating `[0, 2^32)` never returns.
- The counters of `roaring_bitmap_from_range` leave 32 bits when the step goes past a
  `max` close to 2^32, and start again from the bottom.
- `for (uint16_t run_value = run_start; run_value <= run_end; ++run_value)` has no end
  for a run of at most 4096 values that ends at 65535, which
  `roaring_bitmap_remove_run_compression` writes out: the loop goes on behind its array.

A fourth call is left out of the jobs of `WordLoops`: `bitset_container_rank` of 65535
reads the word behind the bitset, and masks all of it.  And `bitset_container_maximum`
does not look at the first word: it is right because a bitset holds more values than
a word has bits, which the walks assume (`WalkAssumption`).

`BitmapLibrary` takes the same conditions as guards (`Flippable`,
`RemoveRunCompressionEnds`).  No command of the module makes such a call.

## 4. The properties

- `TypeOK` of `RoaringCommands`, which the proofs need.
- `StoredCanonical`, `TempWellFormed`: the representation invariant, in stored bitmaps
  (which never hold a run container) and in the temporary bitmap of `CARD`.
- `NoEmptyKey`, `CallInvariant`: which key may be empty when, and what each loop may
  rely on.
- `CountExact`, `MembersReplyExact`: sums of stored cardinalities against bits, and
  the announced length against the elements sent, in order.
- `UnionExact`, `DifferenceExact`: action properties of the turns of `CARD`.
- `ImplementsSets`: the refinement, with the answer a function of the request.
  `IsMemberHasValue`: what the comment of `cmdIsMember` says, false for text.
  `CallsReturn`: liveness, from the moment a command is sent.
- `BufferFits`, `LoadRestores`: sizes computed twice, and the round trip.
- `AllWellFormed`, `AlgebraExact`, `RangesExact`, `QueriesExact`:
  what `BitmapLibrary` asks of results that the operations themselves produced.
- `LazyExact`, `NeverMiscounted`, `AnswerSound`, `HeapOrdered`: the lazy calls.  The
  third kind of xor, `container_lazy_ixor`, hands uncounted bitsets to functions that
  count from the stored number; `NeverMiscounted` holds because the test for
  emptiness between two calls counts and stores (`Settle`).
- `ArrayStepExact`, `SearchesExact`, `RunSubsetFound`, `RunSubsetExact`: the
  slots of an array through insertions, removals and growth, with what was removed
  still behind them.  `RangeExact`: the counters.
- `MergeExact`, `MergeSound`: what the loops over two containers have written when they
  return, as runs in order that do not touch or as ascending values, and, on
  the way, that they write no slot that is not theirs and overwrite nothing that
  is still to be read.  Questions answer what the sets answer.
- `WordsExact`, `ReadsExact`: bits and the count kept beside them after each change; what is
  read from the words, in order, in an output of the size the callers allocate.
- `WalksExact`: what a walk has delivered is, at every turn, the beginning of the set in
  order; the iterator says whether there is more, also where the last value is
  UINT32_MAX, which it holds at its end too; a callback that stops is told so.
- `EntriesExact`: whatever calls came before, a call on the array of containers changes the
  entries it is about and no other; at every turn the places that count are inside the
  allocation and in order, each with the container of its key under its own typecode, and
  no container is lost, freed twice or in two places.
- `Returns`: each of these calls comes to its end.
- `NoMisuse`, `CountersExact`: no object used after it was freed or as another than it
  is, at every turn; between calls counters count the bitmaps that hold a container and
  every object is held by one.  `AnswerExact`: the sets.  `OthersUntouched`: a turn
  changes no bitmap but the ones the call is about, through however many wrappers.
- `RestartRestores`, `ReplicaAgrees`: across forks, crashes and links.

## 5. What is proved

For every set of keys and of values, every chunk size, every threshold and any number of
inputs, commands and snapshots; each theorem is preceded by what it says of the code.

| module | theorems | what they need |
|---|---|---|
| `RoaringCommandsProofs` | `Spec => []P` for `TypeOK`, `StoredCanonical`, `TempWellFormed`, `NoEmptyKey`, `CallInvariant`, `CountExact`, `MembersReplyExact`; the action property `DifferenceExact` | |
| | `UnionExact` | an unused container key |
| | `ImplementsSets`, the refinement | an unused container key; ISMEMBER is asked about integers |
| `LibraryProofs` | `AllWellFormed`, `QueriesExact` | |
| | `AlgebraExact`, `RangesExact` | an unused container key |
| | `LazyExact`, `NeverMiscounted`, `AnswerSound`, `HeapOrdered` | an unused container key |
| `ReplicationProofs` | `BufferFits` | |
| | `LoadRestores` | an unused container key |
| | `RestartRestores`, `ReplicaAgrees` | an unused container key; rewrites with an RDB preamble |
| `ContainerLoopsProofs` | `SearchesExact`, `RunSubsetFound`; the action property `ArrayStepExact` | |
| | `RangeExact` | no step of `from_range` past 2^32 |
| | the action property `EntriesExact` | the other bitmaps have an unused container key |
| `SharedBitmapsProofs` | `NoMisuse`, `CountersExact`, `AnswerExact`; the action property `OthersUntouched` | copy-on-write in every bitmap; no run containers |

*Assumptions.*  `ContainerAssumption` (an array is shorter than a chunk),
`BitmapAssumption` (the container keys are finitely many and in range) and those of each
module: `CommandAssumption` (the "!" and the malformed argument are no key and no
integer; the last container key is in use, because ISMEMBER can ask for 0xFFFFFFFF),
`ArrayAssumption` (some slots are allocated at first, and memory that was not written holds low
halves), `ContainerOpsAssumption` (the lazy threshold is at most the length of an array, two of
which fit in a chunk), `LibraryAssumption` (ranges end no sooner than they begin, and
the keys between are in use), `ManyAssumption` (what is given to a call is sound),
`EntryAssumption` (another bitmap has at most one container per key, and some key
unused; a reallocation makes room for something),
`KindsAssumption` (a wrapper is not a kind of container) and `SharedAssumption` (a container
has room for a value, and what is added and flipped are numbers, the ranges not empty).

*Hypotheses.*  "An unused container key" is `Cardinality(Chunk) < KeyMod`: no bitmap has a
container under each of the 65536 keys.  `card_full` shows that it cannot be dropped:
`AppendCopyRange` wraps its end around, and a bitmap of 2^32 values counts as 0.
`ismember_text` shows why ISMEMBER must be asked about integers (`NotInt \notin Asked`), and
`persistence_rewrite` why rewrites with commands are left out.  `StepsFit` leaves out
the calls of `from_range` whose counter wraps around: they go on from the smallest values and
may return what was not asked for.  The theorems about sharing are for `Flags = {TRUE}` and
without `"run"` among the kinds.  The first is how copy-on-write is meant to be used, a flag that
is set in every bitmap; where some lack it, a wrapper can be stored under a wrong typecode
(section 6).  With run containers `NoMisuse` is false, as `sharing_runs` shows.

### Commands

The inductive invariant is `IInv`: the type invariant, `StoredCanonical`,
`TempWellFormed`, `CallInvariant`, `CountExact` and `MembersReplyExact`.  None of
the parts is inductive alone.  `NoEmptyKey` needs `CallInvariant` (only the
open key of a running write may be empty, and an ADD that has no values left has
none); `MembersReplyExact` needs that MEMBERS has emitted *exactly* the values
before its iterator and that the total counted before is the size of the set
(`CountExact`), so that an ascending sequence over a set has the length of the set
(`AscendingCounts`); and `CountExact` needs the stored cardinalities to be true.

Steps of read commands leave the keyspace alone, so `SplitInv` divides `IInv` into
`StoreAtRest` and `LoopInv`, each action proves its half, and `JoinInv` puts
them together; write calls are handled by `WriteInv` in the same manner.
`StepInv` collects one lemma per action.

`ImplementsSetsHolds` is the step simulation under `IInv`: `Receive` is `Ask`, each `BeginCall`
is the one step of `SetKeyspace` that serves the request, with the answer that the sets of that
state give to its key and arguments (`Served`, `WriteArguments`, `CardPositions`,
`IsMemberMaps`), each turn of a loop is a stutter (what has been done grows by what is left to do), and the last turn
delivers the answer.  For ADD the mapped answer counts nothing; for CARD it rests on
`UnionExact`, `DifferenceExact` and `CountExact`, for MEMBERS on the order of the
iterator.

`BitmapsProofs` has the lemmas about the data: every container operation returns
a sound container holding the union or difference it should (`ContainerAddSound`,
`ContainerRemoveSound`, `ContainerIorSound`, `ContainerIandnotSound`), the operations of
bitmaps likewise (`BitmapAddSound`, `BitmapRemoveSound`, `OrInplaceSound`,
`OrInplaceUnion`, `AndNotInplaceSound`), the iterator visits the next value
(`LoadFirstLeast`, `AdvanceIteratorNext`), and each container counted adds its part
of the set (`CountedGrows`).

### The library interface

`LibraryInv` says that every bitmap a program holds is sound, and is inductive because each
operation keeps that.  `BitmapsProofs` proves it operation by operation and, under it,
what each computes: a lemma per container function over all pairs of types
(`ContainerAndSound`, `ContainerXorSound`, `ContainerNotRangeSound`, ...), then the walks
along two key arrays (`MergedKeysAre`, `EntriesSound`), then bitmaps (`BitmapOrSound`,
`BitmapXorSound`, `FlipSound`, `FromRangeSound`, ...).  A set of values is its layers, one
for each container key (`LayersDecide`), so that bitmaps are compared key by
key.  Rank and select add up stored cardinalities, which the proof relates to the number of
values below by adding a container at a time (`StoredBelowCounts`, `StoredUpToNext`).

### Many-way union and xor

`ManyInv` has, beside the properties, how far each call is (`Progress`) and that every
bitmap at hand is *lazy* (`Lazies`): a container is sound, or a bitset whose count is
unknown and that may have too few values for its type.  For `xor_many` that is not enough, since
`container_lazy_ixor` counts from the stored number; the answer of `xor_many` is counted
between two steps (`CountedBitmap`) because the test for emptiness makes `Settle` count.  For
the heap, `SiftDownIs` and `SiftUpIs` show by induction on the place that one percolation
loses no element and leaves ordered what it should: the subtree, in `percolate_down`, and all
but the new element, in `pq_add`.  The elements of the queue, together with the
lazy union of two of them, stand for all that was given (`LazyExact`), so the last
one, repaired, is the answer.

### Serialization and the callbacks

`PortableRestored` and `ArrayRestored` show that reading what was written gives back
each container in its type, through the header, the run flags and the cardinality minus
one; `BytesExact` that the size computed before is the number of bytes written, in both formats and
on both sides of the offset threshold.  `CallbackInv` says that the buffer is the
serialized form of the bitmap.  `AddManySound` takes the container at hand of
`add_many` through its loop, and `CanonicalUnique` shows that bitmaps as the commands
build them are equal when their sets are.

### Snapshots, the append-only file and the replica

`DeploymentInv` is a conjunction of

- `Kept`: the keyspaces and the commands at hand are such, and what the files give back
  is a keyspace that commands can build;
- `Durable`: a restart now would find what clients may count on;
- `Acknowledged`: with an append-only file that is all that was acknowledged;
- `Written`: a child exists beside its parent only and has written the keys it has
  passed as they were at the fork; for a rewrite the commands since make up for the rest;
- `Linked`: the commands under way to the replica make up for what the server has executed
  since the fork or what the replica has not.

`Durable` needs `Written` when a child is done and its file takes the place of the old one,
and `Written` needs that replaying a log and one more command is replaying the log and
executing the command (`ReplayAppend`).  `ReplicaAgrees` is `Linked` at rest; that the
*containers* agree, not the sets only, comes from `Replay` starting at a keyspace that
equals the one at the fork (`LoadSaved`).

### The array container

`ArrayInv` says that there are slots for the values, that those in use ascend, and
nothing of the ones behind.  `BinarySearchFinds` and `AdvanceUntilFinds` are about any
array, any length and any key; both go by induction on the distance between the two ends
of the search.  `Between` needs more care: the code never calls it with ends that are out of
order, but as a function it is defined for those too, and there it would call itself
with the same ends.  The proof shows that some function satisfies the equation
nonetheless, and that all that do agree on the ends the search comes to (`BetweenFinds`); `SpanReaches`
shows that the span is at a slot below the value when it is halved.  `MovedUpIs` and
`MovedDownIs` are what `memmove` does to the set and to the order.  `RunSubsetFound` goes from run to
run: the search for a run ends at the slot of its last value (`StopPosArrives`), because the
slot of the run before is smaller (`StopsBefore`), and values without a gap lie in slots
without one (`PlacesAreApart`).  The other direction, that the function finds nothing else, is
false: `array_subset`.

### The loops over ranges

`RangeInv` says what each loop has done when its counter is at a given place: `flip` all values
below the container the counter names, `from_range` those in step below the counter
(`Stepped`), the decompression the run up to it.  It is arithmetic of quotients and remainders:
where a range begins and ends in its containers (`Placed`), and that the gap rounded up to a
multiple of the step leads from a container to the first value in the next ones that is in step,
passing none (`SteppedOn`).  The negations that never return because their counter
wraps around (`hb_end` is the last container) are covered: they never reach the end.

### The array of containers

Between calls the state is easy to describe; in the middle of `and_inplace` and
`andnot_inplace` it is not.  The places from `kept` to `next` then hold entries that were
moved or freed and are not yet overwritten, the same container may stand in two of them, and
`size` still counts them all.  `KeyedInv` therefore speaks of the places that *count*
(`Counted`): those below `kept` and those from `next` on.  They ascend by key, each holds the
container of its key under its own typecode (`Sorted`), and the heap has one object for each
of their keys and none besides (`HeapOf`).  `EntriesExact` does not follow from what it says
itself: that a place is inside the allocation after a growth needs the three parallel arrays to
have the same length (`IsEntries`), and that a turn in place overwrites nothing that is still to
be read needs `kept <= next`.

The proof goes in three layers: what each C function does to places (`Reallocated`, `Extended`,
`StoredAt`, `RangeMoved`), what moving places does to the containers listed in them (`Carried`,
`Stayed`, `Joined`: a set of places is a copy of another when a shift takes one to the
other), and one lemma per call.  The other bitmap of a union is built by rank, and `BitmapIs`
shows that counting smaller keys numbers its containers without gap.

### Copy-on-write

`SharingInv` says that there is an assignment `v` of sets to bitmaps and keys that the whole state
is an account of.  It has to say so of the middle of a loop, when an entry has been moved and not
yet overwritten, or given up and not yet taken away, and when the answer is half there:

- `Sound` is about memory and *holders*.  A holder is a bitmap with a key, and has a pointer.
  What it has is what its typecode says; a wrapper counts its holders and leads to one object of
  its own; any other object has one holder; every object is held.
- `Rep` says that the entries of the bitmaps are these holders and their pointers, in
  increasing order of keys, but for a set `X` of places that a loop has given up: the gap that
  `and_inplace` and `andnot_inplace` leave between what they kept and where they are, the front
  of both arguments of the union that consumes them, the front of a bitmap that is freed.
- `World` joins the two: no value is in `v` that memory does not have, and no container is empty.
- `Course` relates `v` to the call.  `OnCourse` does so key by key: below the positions the
  target has what the operation makes of both arguments (`Due`), and from there on the
  arguments are as they were, so that what is due can still be computed.  For a loop in place this
  is all that is left of the argument as it was.

`SharedContainersProofs` deals with memory first, one change after another (`HandOver` and
its kin), then the operations on containers as the code composes them (a copy for sharing, a
writable copy, the result in place and the free of what it replaces), then bitmaps (append,
insert, remove, move). In `SharedBitmapsProofs` a lemma per loop takes a turn through
`World` and `Course`, as `AndSteps`, `ConsumeSteps` or `FlipInplaceSteps`, and `NextSteps`
joins them. What such a step proves is more than the invariant: it names the bitmaps whose
values did not change, which is `OthersUntouched`. `CountersExact` counts pairs of bitmap
and index, the invariant holders; `PairsCounted` is the bijection between them. Between
calls objects are renamed by who holds them, which keeps the state space of the run finite;
`Readdress` shows that this is a change of names only.

### Loops and recursion over data

`AddMany`, `RemoveMany`, `Replay`, the sums of cardinalities and the percolations of the heap are
recursive functions.  The installed provers cannot use the library's theorems about recursive
definitions and induction, so the proofs take another way, in module `Recursion`: `LoopExists` and
`FixpointExists` construct the function as the union of its finite beginnings, so that what
`CHOOSE` picks satisfies its equation, and `TurnByTurn`, `OneByOne` and the heap lemmas
argue with the least turn at which the claim would fail.

### Only model-checked

- *Liveness* under fairness, `CallsReturn` and `Returns`: out of the prover's reach, like
  `ENABLED`.
- The loops over two containers, words and bitmaps:
  `MergeExact`, `MergeSound`, `WordsExact`, `ReadsExact`, `WalksExact`.
  Each of some forty loops would need its own
  invariant.

## 6. What is not modelled

- Of the public interface: printing, the containers' part of `shrink_to_fit`, iteration over
  64-bit values, which repeats the one over 32-bit values, and the sizes in bytes that
  `roaring_bitmap_statistics` adds up.  The native format of single containers,
  which nothing in the module or the library calls.
- How run containers grow (array containers and the array of containers are modelled with
  their growth).  `malloc` does not fail: `ra_append` and its kin ignore what
  `extend_array` returns.
- `roaring_bitmap_flip` of a bitmap with every container in use: it loses what follows
  the range, as `card_full` shows for unions; `Flip` models it and no run goes there.
- Copies between bitmaps of which some have the copy-on-write flag and some do not.  A
  plain copy of a shared container is then stored under the typecode of a wrapper; with
  `Flags = {TRUE, FALSE}` in `sharing.cfg` TLC shows it.
- Kernels that treat one word after another alike (population counts, and, or, andnot of
  whole bitsets) with vector instructions or in assembly; the loops over `uint32_t`
  arrays, and the SSE decoding that nothing calls.
- Memory in the other modules: allocation failures and freed pointers.  (Some error paths
  of the handlers leak `values`, and `lazy_or` its answer; no property is about it.)
- `mem_usage`, which changes nothing.
- In `Persistence` and `Replication`: deletion by other commands, partial
  resynchronisation, an append-only file that is not synced.
- The C++ wrappers, rmutil, tests and tools.

Of the lines under `src/` about three in five are the amalgamation, which stands there
twice and repeats the originals word for word, the C++ wrappers and the helper
library of the module.  They are no further behaviour; what is mapped is mapped to the
originals only.

## 7. Plan

All modules of the plan are written and checked, and the modules about containers, bitmaps,
commands, files and replicas, copy-on-write, the array container, the loops over ranges
and the array of containers are proved.
What is left:

1. *Proofs*: of the loops over two containers, words and bitmaps an invariant for each.
2. *rmutil*: heap, priority queue and vector, which the module links and does not call.
