---------------------------- MODULE RdbCallbacks ----------------------------
(***************************************************************************)
(* RoaringRdbSave and RoaringRdbLoad on any bitmap whose containers are    *)
(* sound, those with run containers included, which the library can hand   *)
(* to roaring_bitmap_serialize although the module's commands never do.    *)
(***************************************************************************)
EXTENDS Serialization

VARIABLES
  value,    \* the bitmap of the key that is saved
  buffer,   \* the string in the RDB file
  copy      \* the bitmap that is loaded from it

callbackVars == <<value, buffer, copy>>

NoBuffer == [format |-> "none"]

\* A container in every type that its cardinality allows.
SoundContainers ==
  {ByCardinality(S, Cardinality(S)) : S \in (SUBSET Low) \ {{}}}
    \union {RunOf(S) : S \in (SUBSET Low) \ {{}}}

SoundBitmaps == UNION {[K -> SoundContainers] : K \in SUBSET Chunk}

CallbacksInit ==
  /\ value \in SoundBitmaps
  /\ buffer = NoBuffer
  /\ copy = EmptyBitmap

SaveValue ==
  /\ buffer = NoBuffer
  /\ buffer' = Serialize(value)
  /\ UNCHANGED <<value, copy>>

LoadCopy ==
  /\ buffer # NoBuffer
  /\ copy' = Deserialize(buffer)
  /\ UNCHANGED <<value, buffer>>

CallbacksNext == SaveValue \/ LoadCopy

CallbacksSpec == CallbacksInit /\ [][CallbacksNext]_callbackVars

-----------------------------------------------------------------------------
(***************************************************************************)
(* Properties.                                                             *)
(***************************************************************************)

\* RoaringRdbSave allocates roaring_bitmap_size_in_bytes and roaring_bitmap_serialize
\* writes exactly as much: the two compute the header and the payloads apart.
BufferFits == buffer # NoBuffer => BytesWritten(buffer) = SizeInBytes(value)

\* What is loaded is what was saved, in either format and for every mixture of
\* container types, and it satisfies the representation invariant.
LoadRestores ==
  [][LoadCopy => ToSet(copy') = ToSet(value) /\ WellFormedBitmap(copy')]_callbackVars

=============================================================================
