---------------------------- MODULE Serialization ---------------------------
(***************************************************************************)
(* roaring_bitmap_serialize and roaring_bitmap_deserialize, the bytes that *)
(* the module gives to RDB files and takes back from them.                 *)
(*                                                                         *)
(* A buffer is what its bytes say.  The portable format names the type of  *)
(* no array and no bitset: a reader infers it from the cardinality in the  *)
(* header, and reads the payload by that guess.                            *)
(***************************************************************************)
EXTENDS Bitmaps, Sequences, FiniteSetsExt

CONSTANTS
  CookieBytes,         \* a 32-bit word of the header: the cookie, the size
  EntryBytes,          \* key and cardinality of a container, 2 + 2
  OffsetBytes,         \* where its payload starts, 4
  LowBytes,            \* a value of an array container, 2
  ValueBytes,          \* a value of a plain array, 4
  NoOffsetThreshold    \* fewer containers than that with runs have no offsets, 4

ASSUME SerializationAssumption ==
  /\ {CookieBytes, EntryBytes, OffsetBytes, LowBytes, ValueBytes} \subseteq Nat
  /\ NoOffsetThreshold \in Nat

(***************************************************************************)
(* Sizes.                                                                  *)
(***************************************************************************)

HasRun(b) == \E k \in DOMAIN b : b[k].type = "run"

FlagBytes(n) == (n + 7) \div 8

\* Mutant: bitmaps at the threshold are taken for small ones.
HeaderSizeOffByOne(b) ==
  LET n == Cardinality(DOMAIN b)
  IN  IF ~HasRun(b) THEN 2 * CookieBytes + n * (EntryBytes + OffsetBytes)
      ELSE CookieBytes + FlagBytes(n)
             + n * IF n <= NoOffsetThreshold THEN EntryBytes ELSE EntryBytes + OffsetBytes

HeaderSize(b) ==
  LET n == Cardinality(DOMAIN b)
  IN  IF ~HasRun(b) THEN 2 * CookieBytes + n * (EntryBytes + OffsetBytes)
      ELSE CookieBytes + FlagBytes(n)
             + n * IF n < NoOffsetThreshold THEN EntryBytes ELSE EntryBytes + OffsetBytes

PayloadSize(c) ==
  CASE c.type = "bitset" -> BitsetBytes
    [] c.type = "array"  -> LowBytes * c.card
    [] c.type = "run"    -> RunBytes(NumberOfRuns(c.vals))

PortableSize(b) == HeaderSize(b) + MapThenSumSet(LAMBDA k : PayloadSize(b[k]), DOMAIN b)

GetCardinality(b) == MapThenSumSet(LAMBDA k : b[k].card, DOMAIN b)

SizeAsArray(b) == GetCardinality(b) * ValueBytes + ValueBytes

\* One byte for the format, then the shorter of the two.
SizeInBytes(b) ==
  1 + IF PortableSize(b) < SizeAsArray(b) THEN PortableSize(b) ELSE SizeAsArray(b)

(***************************************************************************)
(* Writing.                                                                *)
(***************************************************************************)

\* ra_to_uint32_array: every value in increasing order.
ToUint32Array(b) ==
  LET next[i \in 1 .. Cardinality(ToSet(b))] ==
        IF i = 1 THEN CreateIterator(b) ELSE AdvanceIterator(b, next[i - 1])
  IN  next

\* The header stores the cardinality less one in 16 bits.
WriteContainer(c) ==
  [card   |-> (c.card - 1) % ChunkSize,
   run    |-> c.type = "run",
   layout |-> c.type,
   vals   |-> c.vals]

\* Writer and reader decide by the same test whether there is a table of offsets.
HasOffsets(runs, n) == ~runs \/ n >= NoOffsetThreshold

PortableSerialize(b) ==
  [format  |-> "container",
   runs    |-> HasRun(b),
   offsets |-> HasOffsets(HasRun(b), Cardinality(DOMAIN b)),
   entries |-> [k \in DOMAIN b |-> WriteContainer(b[k])]]

ArraySerialize(b) ==
  [format |-> "array_uint32",
   count  |-> GetCardinality(b) % (KeyMod * ChunkSize),
   elems  |-> ToUint32Array(b)]

Serialize(b) ==
  IF PortableSize(b) < SizeAsArray(b) THEN PortableSerialize(b) ELSE ArraySerialize(b)

\* What the writer has put behind the pointer it was given.
PayloadWritten(e) ==
  CASE e.layout = "bitset" -> BitsetBytes
    [] e.layout = "array"  -> LowBytes * Cardinality(e.vals)
    [] e.layout = "run"    -> RunBytes(NumberOfRuns(e.vals))

PortableWritten(buf) ==
  LET n == Cardinality(DOMAIN buf.entries)
  IN  (IF buf.runs THEN CookieBytes + FlagBytes(n) ELSE 2 * CookieBytes)
        + n * EntryBytes
        + (IF buf.offsets THEN n * OffsetBytes ELSE 0)
        + MapThenSumSet(LAMBDA k : PayloadWritten(buf.entries[k]), DOMAIN buf.entries)

BytesWritten(buf) ==
  1 + IF buf.format = "container" THEN PortableWritten(buf)
      ELSE ValueBytes + ValueBytes * Len(buf.elems)

(***************************************************************************)
(* Reading.                                                                *)
(***************************************************************************)

\* What comes out of a payload that is read as a container of another type.
Garbled == [type |-> "garbled", vals |-> {}, card |-> 0]

\* Mutant: the shortest bitset is taken for an array.
InferredTypeOffByOne(runs, e) ==
  IF runs /\ e.run THEN "run"
  ELSE IF e.card > ArrayMax THEN "bitset" ELSE "array"

InferredType(runs, e) ==
  IF runs /\ e.run THEN "run"
  ELSE IF 1 + e.card > ArrayMax THEN "bitset" ELSE "array"

ReadContainer(runs, e) ==
  IF InferredType(runs, e) # e.layout THEN Garbled
  ELSE CASE e.layout = "run"    -> RunOf(e.vals)
         [] e.layout = "bitset" -> BitsetOf(e.vals, 1 + e.card)
         [] e.layout = "array"  -> IF 1 + e.card = Cardinality(e.vals)
                                   THEN ArrayOf(e.vals, 1 + e.card) ELSE Garbled

\* add_many on a bitmap, for the first n values of s.
AddMany(b, n, s) ==
  LET added[i \in 0 .. n] == IF i = 0 THEN b ELSE BitmapAdd(added[i - 1], s[i])
  IN  added[n]

\* Mutant: the count includes the word that holds it.
OfPtrStopsShort(n, s) == AddMany(EmptyBitmap, IF n = 0 THEN 0 ELSE n - 1, s)

OfPtr(n, s) == AddMany(EmptyBitmap, n, s)

Deserialize(buf) ==
  IF buf.format = "array_uint32" THEN OfPtr(buf.count, buf.elems)
  ELSE [k \in DOMAIN buf.entries |->
          IF HasOffsets(buf.runs, Cardinality(DOMAIN buf.entries)) # buf.offsets THEN Garbled
          ELSE ReadContainer(buf.runs, buf.entries[k])]

=============================================================================
