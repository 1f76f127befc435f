------------------------ MODULE RoaringCommandsProofs -----------------------
(***************************************************************************)
(* The invariants of RoaringCommands hold for every set of keys, every     *)
(* chunk size, every threshold and every bound on the arguments, and the   *)
(* five commands implement SetKeyspace.                                    *)
(***************************************************************************)
EXTENDS RoaringCommands, BitmapsProofs

-----------------------------------------------------------------------------
(***************************************************************************)
(* Outside ADD and REMOVE the invariant falls into one part about the      *)
(* keyspace, which such a step leaves alone, and one about the locals.     *)
(***************************************************************************)

StoreAtRest ==
  /\ keytype \in [Key -> {"empty", "roaring", "foreign"}]
  /\ bitmap = [k \in Key |-> bitmap[k]]
  /\ \A k \in Key : IsBitmap(bitmap[k]) /\ Canonical(bitmap[k])
  /\ \A k \in Key : keytype[k] # "roaring" => bitmap[k] = EmptyBitmap
  /\ \A k \in Key : keytype[k] = "roaring" => ~IsEmpty(bitmap[k])

LoopInv ==
  /\ pc \in {"idle", "card", "count", "size", "emit"}
  /\ key \in Key \union {NoKey}
  /\ pc = "card" => argv \in Seq(Key \union {Bang})
  /\ pc # "card" => argv = <<>>
  /\ bang \in BOOLEAN
  /\ SoundBitmap(temp)
  /\ pc = "idle" => temp = EmptyBitmap /\ bang = FALSE
  /\ left \subseteq DOMAIN temp
  /\ pc \notin {"count", "size"} => left = {}
  /\ total \in Nat
  /\ pc \in {"idle", "card"} => total = 0
  /\ pc \in {"count", "size", "emit"} => total = Cardinality(CountedOutside(temp, left))
  /\ it \in Value \union {<<>>}
  /\ out \in Seq(Value)
  /\ pc # "emit" => it = <<>> /\ out = <<>>
  /\ pc = "emit" =>
       /\ it # <<>> => it \in ToSet(temp)
       /\ Elements(out) = {v \in ToSet(temp) : it # <<>> => Precedes(v, it)}
       /\ Ascending(out)
  /\ replicated \in BOOLEAN
  /\ MembersReplyExact

\* A request waits only while no handler runs.
RequestSound ==
  /\ request \in Requests \union {NoRequest}
  /\ pc # "idle" => request = NoRequest

\* Between and during read commands the inductive invariant is these three parts.
LEMMA SplitInv ==
  ASSUME IInv, pc \notin {"add", "remove"}
  PROVE  StoreAtRest /\ LoopInv
<1>1. StoreAtRest
  BY DEF IInv, TypeOK, StoredCanonical, CallInvariant, StoreAtRest
<1>2. LoopInv
  BY DEF IInv, TypeOK, CallName, TempWellFormed, CallInvariant, CountExact,
         LoopInv, SoundBitmap, CountedOutside
<1> QED
  BY <1>1, <1>2

\* A step leaves the request alone, or takes it.
LEMMA RequestKept ==
  ASSUME IInv, request' = request, pc' # "idle" => pc # "idle"
  PROVE  RequestSound'
BY DEF IInv, TypeOK, CallInvariant, RequestSound

LEMMA RequestTaken ==
  ASSUME request' = NoRequest
  PROVE  RequestSound'
BY DEF RequestSound

LEMMA JoinInv ==
  ASSUME StoreAtRest', LoopInv', RequestSound'
  PROVE  IInv'
<1>1. TypeOK'
  BY DEF StoreAtRest, LoopInv, RequestSound, TypeOK, CallName, SoundBitmap
<1>2. StoredCanonical' /\ TempWellFormed'
  BY DEF StoreAtRest, LoopInv, StoredCanonical, TempWellFormed, SoundBitmap
<1>3. CallInvariant'
  BY DEF StoreAtRest, LoopInv, RequestSound, CallInvariant
<1>4. CountExact' /\ MembersReplyExact'
  BY DEF LoopInv, CountExact, CountedOutside
<1> QED
  BY <1>1, <1>2, <1>3, <1>4 DEF IInv

LEMMA RestUnchanged ==
  ASSUME StoreAtRest, UNCHANGED keyspace
  PROVE  StoreAtRest'
BY DEF StoreAtRest, keyspace

\* Once the handler has returned nothing is left of its loops.
LEMMA ReturnInv ==
  ASSUME NEW r, Return(r), replicated' \in BOOLEAN,
         r[1] = "array" => Len(r[3]) = r[2] /\ Ascending(r[3])
  PROVE  LoopInv' /\ RequestSound'
<1>1. /\ pc' = "idle" /\ key' = NoKey /\ argv' = <<>> /\ bang' = FALSE
      /\ temp' = EmptyBitmap /\ left' = {} /\ total' = 0 /\ it' = <<>>
      /\ out' = <<>> /\ reply' = r
  BY DEF Return
<1>2. MembersReplyExact'
  BY <1>1 DEF MembersReplyExact
<1>3. SoundBitmap(temp)' /\ (left \subseteq DOMAIN temp)'
  BY <1>1, EmptyBitmapSound
<1>4. (it \in Value \union {<<>>})' /\ (out \in Seq(Value))'
  BY <1>1
<1>5. /\ (pc \in {"idle", "card"} => total = 0)'
      /\ (pc \in {"count", "size", "emit"} => total = Cardinality(CountedOutside(temp, left)))'
      /\ (pc # "emit" => it = <<>> /\ out = <<>>)'
      /\ (pc \notin {"count", "size"} => left = {})'
      /\ (total \in Nat)'
  BY <1>1
<1>6. /\ ~(pc = "emit")' /\ (bang \in BOOLEAN)'
      /\ (pc = "idle" => temp = EmptyBitmap /\ bang = FALSE)'
  BY <1>1
<1>7. /\ (pc \in {"idle", "card", "count", "size", "emit"})'
      /\ (key \in Key \union {NoKey})'
      /\ (pc = "card" => argv \in Seq(Key \union {Bang}))'
      /\ (pc # "card" => argv = <<>>)'
  BY <1>1
<1>8. LoopInv'
  BY <1>2, <1>3, <1>4, <1>5, <1>6, <1>7, Zenon DEF LoopInv
<1> QED
  BY <1>8, RequestTaken DEF Return

THEOREM InitInv == Init => IInv
<1> SUFFICES ASSUME Init PROVE IInv
  OBVIOUS
<1>0. \A k \in Key : keytype[k] = "empty" /\ bitmap[k] = EmptyBitmap
  BY DEF Init
<1>1. TypeOK
  <2>1. /\ keytype \in [Key -> {"empty", "roaring", "foreign"}]
        /\ bitmap = [k \in Key |-> bitmap[k]]
        /\ \A k \in Key : IsBitmap(bitmap[k])
    BY <1>0, EmptyBitmapSound DEF Init, SoundBitmap
  <2>2. /\ IsBitmap(temp) /\ left \subseteq DOMAIN temp
        /\ total \in Nat /\ replicated \in BOOLEAN /\ bang \in BOOLEAN
    BY EmptyBitmapSound DEF Init, SoundBitmap
  <2>3. it \in Value \union {<<>>} /\ out \in Seq(Value)
    BY DEF Init
  <2>4. pc = "idle" /\ key \in Key \union {NoKey} /\ argv = <<>>
    BY DEF Init
  <2>5. /\ pc \in CallName
        /\ pc \in {"add", "remove"} => key \in Key /\ argv \in Seq(Value)
        /\ pc = "card" => argv \in Seq(Key \union {Bang})
        /\ pc \notin {"add", "remove", "card"} => argv = <<>>
    BY <2>4 DEF CallName
  <2>6. request \in Requests \union {NoRequest}
    BY DEF Init
  <2> QED
    BY <2>1, <2>2, <2>3, <2>4, <2>5, <2>6, Zenon DEF TypeOK
<1>2. StoredCanonical /\ TempWellFormed
  BY <1>0, EmptyBitmapSound DEF Init, StoredCanonical, TempWellFormed, SoundBitmap
<1>3. CallInvariant
  <2>1. /\ pc = "idle" /\ left = {} /\ total = 0 /\ it = <<>> /\ out = <<>>
        /\ temp = EmptyBitmap /\ bang = FALSE
    BY DEF Init
  <2> QED
    BY <1>0, <2>1 DEF CallInvariant
<1>4. CountExact /\ MembersReplyExact
  BY DEF Init, CountExact, MembersReplyExact, NoReply
<1> QED
  BY <1>1, <1>2, <1>3, <1>4 DEF IInv

-----------------------------------------------------------------------------
(***************************************************************************)
(* Calls that are answered at once.                                        *)
(***************************************************************************)

LEMMA AnswerAtOnceInv ==
  ASSUME IInv, NEW r, AnswerAtOnce(r),
         r[1] = "array" => Len(r[3]) = r[2] /\ Ascending(r[3])
  PROVE  IInv'
<1>1. pc = "idle" /\ Return(r) /\ replicated' \in BOOLEAN /\ UNCHANGED keyspace
  BY DEF AnswerAtOnce
<1>2. StoreAtRest
  BY <1>1, SplitInv
<1> QED
  BY <1>1, <1>2, RestUnchanged, ReturnInv, JoinInv

\* The handler that answers after its loop leaves the keyspace alone as well.
LEMMA ReturnAfterLoopInv ==
  ASSUME IInv, NEW r, Return(r), pc \notin {"add", "remove"},
         replicated' \in BOOLEAN, UNCHANGED keyspace,
         r[1] = "array" => Len(r[3]) = r[2] /\ Ascending(r[3])
  PROVE  IInv'
<1>1. StoreAtRest
  BY SplitInv
<1> QED
  BY <1>1, RestUnchanged, ReturnInv, JoinInv

LEMMA PlainReplies ==
  /\ Error[1] # "array"
  /\ \A n : Integer(n)[1] # "array"
  /\ Len(Array(0, <<>>)[3]) = Array(0, <<>>)[2] /\ Ascending(Array(0, <<>>)[3])
BY DEF Error, Integer, Array, Ascending

-----------------------------------------------------------------------------
(***************************************************************************)
(* The loop of CARD over its arguments.                                    *)
(***************************************************************************)

LEMMA NextCardArgumentInv ==
  ASSUME IInv, AtCardArgument, NextCardArgument,
         SoundBitmap(temp'), bang' \in BOOLEAN
  PROVE  IInv'
<1>1. StoreAtRest /\ LoopInv /\ pc = "card" /\ pc' = "card"
  BY SplitInv DEF AtCardArgument, NextCardArgument
<1>2. argv \in Seq(Key \union {Bang}) /\ argv # <<>> /\ argv' = Tail(argv)
  BY <1>1 DEF LoopInv, AtCardArgument, NextCardArgument
<1>3. argv' \in Seq(Key \union {Bang})
  BY <1>2
<1>4. UNCHANGED <<keyspace, key, left, total, it, out, request, reply, replicated>>
  BY DEF NextCardArgument
<1>5. left = {} /\ total = 0 /\ it = <<>> /\ out = <<>>
  BY <1>1 DEF LoopInv
<1>6. MembersReplyExact'
  BY <1>1, <1>4 DEF LoopInv, MembersReplyExact
<1>7. /\ (pc \in {"idle", "card", "count", "size", "emit"})'
      /\ (key \in Key \union {NoKey})'
      /\ (pc = "card" => argv \in Seq(Key \union {Bang}))'
      /\ (pc # "card" => argv = <<>>)'
      /\ (bang \in BOOLEAN)'
      /\ SoundBitmap(temp)'
      /\ (left \subseteq DOMAIN temp)'
      /\ (pc \notin {"count", "size"} => left = {})'
      /\ (total \in Nat)'
      /\ (pc \in {"idle", "card"} => total = 0)'
  BY <1>1, <1>3, <1>4, <1>5 DEF LoopInv
<1>8. /\ ~(pc \in {"count", "size", "emit"})' /\ ~(pc = "emit")' /\ ~(pc = "idle")'
      /\ (it \in Value \union {<<>>})'
      /\ (out \in Seq(Value))'
      /\ (pc # "emit" => it = <<>> /\ out = <<>>)'
      /\ (replicated \in BOOLEAN)'
  BY <1>1, <1>4, <1>5 DEF LoopInv
<1>9. LoopInv'
  BY <1>6, <1>7, <1>8, Zenon DEF LoopInv
<1>10. RequestSound'
  BY <1>1, RequestKept DEF NextCardArgument
<1> QED
  BY <1>1, <1>4, <1>9, <1>10, RestUnchanged, JoinInv

\* What CARD reads: a key that the argument names, with a sound bitmap.
LEMMA CardArgument ==
  ASSUME IInv, AtCardArgument
  PROVE  /\ SoundBitmap(temp)
         /\ bang \in BOOLEAN
         /\ Head(argv) # Bang => Head(argv) \in Key /\ SoundBitmap(bitmap[Head(argv)])
<1>1. StoreAtRest /\ LoopInv /\ pc = "card"
  BY SplitInv DEF AtCardArgument
<1>2. argv \in Seq(Key \union {Bang}) /\ argv # <<>>
  BY <1>1 DEF LoopInv, AtCardArgument
<1>3. Head(argv) \in Key \union {Bang}
  BY <1>2
<1>4. \A k \in Key : SoundBitmap(bitmap[k])
  BY <1>1 DEF StoreAtRest, Canonical, SoundBitmap, WellFormedBitmap
<1> QED
  BY <1>1, <1>3, <1>4 DEF LoopInv

LEMMA CardStepsInv ==
  ASSUME IInv, CardBang \/ CardMissing \/ CardUnite \/ CardSubtract
  PROVE  IInv'
<1>1. AtCardArgument /\ NextCardArgument
  BY DEF CardBang, CardMissing, CardUnite, CardSubtract
<1>2. SoundBitmap(temp) /\ bang \in BOOLEAN
  BY <1>1, CardArgument
<1>3. bang' \in BOOLEAN
  BY <1>2 DEF CardBang, CardMissing, CardUnite, CardSubtract
<1>4. SoundBitmap(temp')
  <2>1. CASE CardBang \/ CardMissing
    BY <1>2, <2>1 DEF CardBang, CardMissing
  <2>2. CASE CardUnite
    BY <1>1, <1>2, <2>2, CardArgument, OrInplaceSound DEF CardUnite
  <2>3. CASE CardSubtract
    BY <1>1, <1>2, <2>3, CardArgument, AndNotInplaceSound DEF CardSubtract
  <2> QED
    BY <2>1, <2>2, <2>3
<1> QED
  BY <1>1, <1>3, <1>4, NextCardArgumentInv

LEMMA BeginCardInv ==
  ASSUME IInv, NEW args \in ArgsOver(Key \union {Bang}, MaxNames), BeginCard(args)
  PROVE  IInv'
<1>1. pc = "idle" /\ pc' = "card" /\ argv' = args /\ reply' = NoReply
  BY DEF BeginCard
<1>2. UNCHANGED <<keyspace, key, bang, temp, left, total, it, out, replicated>>
  BY DEF BeginCard
<1>3. StoreAtRest /\ LoopInv
  BY <1>1, SplitInv
<1>4. args \in Seq(Key \union {Bang})
  BY DEF ArgsOver
<1>5. left = {} /\ total = 0 /\ it = <<>> /\ out = <<>>
  BY <1>1, <1>3 DEF LoopInv
<1>6. MembersReplyExact'
  BY <1>1 DEF MembersReplyExact, NoReply
<1>7. /\ (pc \in {"idle", "card", "count", "size", "emit"})'
      /\ (key \in Key \union {NoKey})'
      /\ (pc = "card" => argv \in Seq(Key \union {Bang}))'
      /\ (pc # "card" => argv = <<>>)'
      /\ (bang \in BOOLEAN)'
      /\ SoundBitmap(temp)'
      /\ (left \subseteq DOMAIN temp)'
      /\ (pc \notin {"count", "size"} => left = {})'
      /\ (total \in Nat)'
      /\ (pc \in {"idle", "card"} => total = 0)'
  BY <1>1, <1>2, <1>3, <1>4, <1>5 DEF LoopInv
<1>8. /\ ~(pc \in {"count", "size", "emit"})' /\ ~(pc = "emit")' /\ ~(pc = "idle")'
      /\ (it \in Value \union {<<>>})'
      /\ (out \in Seq(Value))'
      /\ (pc # "emit" => it = <<>> /\ out = <<>>)'
      /\ (replicated \in BOOLEAN)'
  BY <1>1, <1>2, <1>3, <1>5 DEF LoopInv
<1>9. LoopInv'
  BY <1>6, <1>7, <1>8, Zenon DEF LoopInv
<1>10. RequestSound'
  BY RequestTaken DEF BeginCard
<1> QED
  BY <1>2, <1>3, <1>9, <1>10, RestUnchanged, JoinInv

-----------------------------------------------------------------------------
(***************************************************************************)
(* Counting: the containers still to come and the sum so far.              *)
(***************************************************************************)

\* A step into or within the count keeps the invariant if its sum is right.
LEMMA CountingInv ==
  ASSUME StoreAtRest, UNCHANGED keyspace, pc' \in {"count", "size"},
         key' \in Key \union {NoKey}, argv' = <<>>, bang' \in BOOLEAN,
         SoundBitmap(temp'), left' \subseteq DOMAIN temp', total' \in Nat,
         total' = Cardinality(CountedOutside(temp', left')), it' = <<>>, out' = <<>>,
         replicated' \in BOOLEAN, MembersReplyExact', RequestSound'
  PROVE  IInv'
<1>1. /\ (pc \in {"idle", "card", "count", "size", "emit"})'
      /\ ~(pc = "card")' /\ ~(pc = "emit")' /\ ~(pc \in {"idle", "card"})'
      /\ (pc \notin {"count", "size"} => left = {})'
      /\ (it \in Value \union {<<>>})'
      /\ (out \in Seq(Value))'
  OBVIOUS
<1>2. LoopInv'
  BY <1>1, Zenon DEF LoopInv
<1> QED
  BY <1>2, RestUnchanged, JoinInv

LEMMA BeginCountInv ==
  ASSUME IInv, BeginCount
  PROVE  IInv'
<1>1. StoreAtRest /\ LoopInv /\ pc = "card" /\ argv = <<>>
  BY SplitInv DEF BeginCount
<1>2. /\ pc' = "count" /\ left' = DOMAIN temp
      /\ UNCHANGED <<keyspace, key, argv, bang, temp, total, it, out, request, reply, replicated>>
  BY DEF BeginCount
<1>3. /\ SoundBitmap(temp) /\ total = 0 /\ it = <<>> /\ out = <<>>
      /\ key \in Key \union {NoKey} /\ bang \in BOOLEAN /\ replicated \in BOOLEAN
      /\ MembersReplyExact
  BY <1>1 DEF LoopInv
<1>4. MembersReplyExact'
  BY <1>2, <1>3 DEF MembersReplyExact
<1>5. total' = Cardinality(CountedOutside(temp', left'))
  BY <1>2, <1>3, CountedEnds
<1>6. RequestSound'
  BY <1>1, RequestKept DEF BeginCount
<1> QED
  BY <1>1, <1>2, <1>3, <1>4, <1>5, <1>6, CountingInv

LEMMA BeginMembersInv ==
  ASSUME IInv, NEW k \in Key, BeginMembers(k)
  PROVE  IInv'
<1>1. StoreAtRest /\ LoopInv /\ pc = "idle"
  BY SplitInv DEF BeginMembers
<1>2. /\ pc' = "size" /\ key' = k /\ temp' = bitmap[k] /\ left' = DOMAIN bitmap[k]
      /\ reply' = NoReply
      /\ UNCHANGED <<keyspace, argv, bang, total, it, out, replicated>>
  BY DEF BeginMembers
<1>3. /\ total = 0 /\ it = <<>> /\ out = <<>> /\ argv = <<>>
      /\ bang \in BOOLEAN /\ replicated \in BOOLEAN
  BY <1>1 DEF LoopInv
<1>4. SoundBitmap(bitmap[k])
  BY <1>1 DEF StoreAtRest, Canonical, SoundBitmap, WellFormedBitmap
<1>5. MembersReplyExact'
  BY <1>2 DEF MembersReplyExact, NoReply
<1>6. total' = Cardinality(CountedOutside(temp', left'))
  BY <1>2, <1>3, <1>4, CountedEnds
<1>7. RequestSound'
  BY RequestTaken DEF BeginMembers
<1> QED
  BY <1>1, <1>2, <1>3, <1>4, <1>5, <1>6, <1>7, CountingInv

LEMMA CountContainerInv ==
  ASSUME IInv, CountContainer
  PROVE  IInv'
<1> DEFINE k == Least(left)
<1>1. StoreAtRest /\ LoopInv /\ pc \in {"count", "size"} /\ left # {}
  BY SplitInv DEF CountContainer
<1>2. /\ total' = total + temp[k].card /\ left' = left \ {k}
      /\ UNCHANGED <<keyspace, pc, key, argv, bang, temp, it, out, request, reply, replicated>>
  BY DEF CountContainer
<1>3. /\ SoundBitmap(temp) /\ left \in SUBSET DOMAIN temp
      /\ total = Cardinality(CountedOutside(temp, left)) /\ total \in Nat
      /\ it = <<>> /\ out = <<>> /\ argv = <<>>
      /\ key \in Key \union {NoKey} /\ bang \in BOOLEAN /\ replicated \in BOOLEAN
      /\ MembersReplyExact
  BY <1>1 DEF LoopInv
<1>4. left \in SUBSET Nat
  BY <1>3, KeysAreNat, SoundContainerAt
<1>5. k \in left
  BY <1>1, <1>4, LeastIsMinimum
<1>6. Cardinality(CountedOutside(temp, left \ {k})) = Cardinality(CountedOutside(temp, left)) + temp[k].card
  BY <1>3, <1>5, CountedGrows
<1>7. total' = Cardinality(CountedOutside(temp', left')) /\ left' \subseteq DOMAIN temp'
  BY <1>2, <1>3, <1>6
<1>8. total' \in Nat
  <2>1. temp[k].card \in Nat
    BY <1>3, <1>5, SoundContainerAt, SoundNonEmpty
  <2> QED
    BY <1>2, <1>3, <2>1
<1>9. MembersReplyExact'
  BY <1>2, <1>3 DEF MembersReplyExact
<1>10. RequestSound'
  BY <1>1, RequestKept DEF CountContainer
<1> QED
  BY <1>1, <1>2, <1>3, <1>7, <1>8, <1>9, <1>10, CountingInv

-----------------------------------------------------------------------------
(***************************************************************************)
(* MEMBERS: what has been emitted is what lies before the iterator.        *)
(***************************************************************************)

\* Precedes is a strict total order on values, and a value is no end marker.
LEMMA PrecedesOrder ==
  ASSUME NEW u \in Value, NEW v \in Value, NEW w \in Value
  PROVE  /\ ~Precedes(u, u)
         /\ Precedes(u, v) /\ Precedes(v, w) => Precedes(u, w)
         /\ u = v \/ Precedes(u, v) \/ Precedes(v, u)
         /\ u # <<>>
<1>1. \A x \in Value : HighBits(x) \in Nat /\ LowBits(x) \in Nat
  <2> SUFFICES ASSUME NEW x \in Value PROVE HighBits(x) \in Nat /\ LowBits(x) \in Nat
    OBVIOUS
  <2>1. HighBits(x) \in Chunk /\ LowBits(x) \in Low
    BY ValueParts
  <2> QED
    BY <2>1, KeysAreNat
<1>2. \A x \in Value : x = <<HighBits(x), LowBits(x)>>
  BY ValueParts
<1>3. ~Precedes(u, u)
  BY <1>1 DEF Precedes
<1>4. Precedes(u, v) /\ Precedes(v, w) => Precedes(u, w)
  BY <1>1 DEF Precedes
<1>5. u = v \/ Precedes(u, v) \/ Precedes(v, u)
  <2>1. \/ HighBits(u) = HighBits(v) /\ LowBits(u) = LowBits(v)
        \/ Precedes(u, v) \/ Precedes(v, u)
    BY <1>1 DEF Precedes
  <2>2. HighBits(u) = HighBits(v) /\ LowBits(u) = LowBits(v) => u = v
    BY <1>2, Zenon
  <2> QED
    BY <2>1, <2>2
<1>6. u # <<>>
  <2>1. <<HighBits(u), LowBits(u)>> # <<>>
    OBVIOUS
  <2> QED
    BY <1>2, <2>1, Zenon
<1> QED
  BY <1>3, <1>4, <1>5, <1>6

\* An ascending sequence holds no value twice.
LEMMA AscendingCounts ==
  ASSUME NEW s \in Seq(Value), Ascending(s)
  PROVE  Cardinality(Elements(s)) = Len(s)
<1>1. Len(s) \in Nat /\ DOMAIN s = 1 .. Len(s) /\ \A i \in 1 .. Len(s) : s[i] \in Value
  OBVIOUS
<1>2. \A i, j \in 1 .. Len(s) : s[i] = s[j] => i = j
  <2> SUFFICES ASSUME NEW i \in 1 .. Len(s), NEW j \in 1 .. Len(s), s[i] = s[j], i < j
               PROVE  FALSE
    BY <1>1
  <2>1. Precedes(s[i], s[j])
    BY <1>1 DEF Ascending
  <2> QED
    BY <1>1, <2>1, PrecedesOrder
<1> DEFINE f == [i \in 1 .. Len(s) |-> s[i]]
<1>3. f \in [1 .. Len(s) -> Elements(s)] /\ \A i \in 1 .. Len(s) : f[i] = s[i]
  BY <1>1 DEF Elements
<1> HIDE DEF f
<1>4. f \in Injection(1 .. Len(s), Elements(s))
  BY <1>2, <1>3 DEF Injection, IsInjective
<1>5. f \in Surjection(1 .. Len(s), Elements(s))
  BY <1>1, <1>3 DEF Surjection, Elements
<1> QED
  BY <1>1, <1>4, <1>5, FS_CountingElements DEF ExistsBijection, Bijection

\* Appending a value that follows all those before it.
LEMMA AscendingAppend ==
  ASSUME NEW s \in Seq(Value), Ascending(s), NEW v \in Value,
         \A w \in Elements(s) : Precedes(w, v)
  PROVE  /\ Append(s, v) \in Seq(Value)
         /\ Ascending(Append(s, v))
         /\ Elements(Append(s, v)) = Elements(s) \union {v}
<1> DEFINE t == Append(s, v)
<1>1. /\ Len(s) \in Nat /\ DOMAIN s = 1 .. Len(s)
      /\ DOMAIN t = 1 .. Len(s) + 1
      /\ \A i \in 1 .. Len(s) : t[i] = s[i]
      /\ t[Len(s) + 1] = v
  OBVIOUS
<1> HIDE DEF t
<1>2. Ascending(t)
  <2> SUFFICES ASSUME NEW i \in 1 .. Len(s) + 1, NEW j \in 1 .. Len(s) + 1, i < j
               PROVE  Precedes(t[i], t[j])
    BY <1>1 DEF Ascending
  <2>1. CASE j \in 1 .. Len(s)
    BY <1>1, <2>1 DEF Ascending
  <2>2. CASE j = Len(s) + 1
    BY <1>1, <2>2 DEF Elements
  <2> QED
    BY <1>1, <2>1, <2>2
<1>3. Elements(t) = Elements(s) \union {v}
  <2>1. \A w : w \in Elements(t) <=> \E i \in 1 .. Len(s) + 1 : t[i] = w
    BY <1>1 DEF Elements
  <2>2. \A w : w \in Elements(s) <=> \E i \in 1 .. Len(s) : s[i] = w
    BY <1>1 DEF Elements
  <2>3. 1 .. Len(s) + 1 = (1 .. Len(s)) \union {Len(s) + 1}
    BY <1>1
  <2> QED
    BY <1>1, <2>1, <2>2, <2>3
<1> QED
  BY <1>2, <1>3 DEF t

LEMMA EmittingInv ==
  ASSUME StoreAtRest, UNCHANGED keyspace, pc' = "emit",
         key' \in Key \union {NoKey}, argv' = <<>>, bang' \in BOOLEAN,
         SoundBitmap(temp'), left' = {}, total' \in Nat,
         total' = Cardinality(CountedOutside(temp', {})),
         it' # <<>> => it' \in ToSet(temp'),
         Elements(out') = {v \in ToSet(temp') : it' # <<>> => Precedes(v, it')},
         out' \in Seq(Value), Ascending(out'),
         replicated' \in BOOLEAN, MembersReplyExact', RequestSound'
  PROVE  IInv'
<1>1. it' \in Value \union {<<>>}
  BY DEF ToSet
<1>2. /\ (pc \in {"idle", "card", "count", "size", "emit"})'
      /\ ~(pc = "card")' /\ ~(pc # "emit")' /\ ~(pc \in {"idle", "card"})'
      /\ (pc \notin {"count", "size"} => left = {})'
      /\ (left \subseteq DOMAIN temp)'
      /\ (total = Cardinality(CountedOutside(temp, left)))'
      /\ (it # <<>> => it \in ToSet(temp))'
      /\ (Elements(out) = {v \in ToSet(temp) : it # <<>> => Precedes(v, it)})'
  OBVIOUS
<1>3. LoopInv'
  BY <1>1, <1>2, Zenon DEF LoopInv
<1> QED
  BY <1>3, RestUnchanged, JoinInv

LEMMA SendLengthInv ==
  ASSUME IInv, SendLength
  PROVE  IInv'
<1>1. StoreAtRest /\ LoopInv /\ pc = "size" /\ left = {}
  BY SplitInv DEF SendLength
<1>2. /\ pc' = "emit" /\ it' = LoadFirst(temp, 0)
      /\ UNCHANGED <<keyspace, key, argv, bang, temp, left, total, out, request, reply, replicated>>
  BY DEF SendLength, CreateIterator
<1>3. /\ SoundBitmap(temp) /\ total \in Nat /\ total = Cardinality(CountedOutside(temp, {}))
      /\ out = <<>> /\ argv = <<>>
      /\ key \in Key \union {NoKey} /\ bang \in BOOLEAN /\ replicated \in BOOLEAN
      /\ MembersReplyExact
  BY <1>1 DEF LoopInv
<1>4. /\ it' # <<>> => it' \in ToSet(temp)
      /\ {v \in ToSet(temp) : it' # <<>> => Precedes(v, it')} = {}
  <2>1. CASE \E k \in DOMAIN temp : k >= 0
    <3>1. /\ it' \in ToSet(temp)
          /\ \A w \in ToSet(temp) : HighBits(w) >= 0 => w = it' \/ Precedes(it', w)
      BY <1>2, <1>3, <2>1, LoadFirstLeast
    <3>2. \A w \in ToSet(temp) : w \in Value /\ HighBits(w) >= 0
      BY <1>3, ToSetParts
    <3>3. it' # <<>>
      BY <3>1, <3>2, PrecedesOrder
    <3>4. \A w \in ToSet(temp) : ~Precedes(w, it')
      <4> SUFFICES ASSUME NEW w \in ToSet(temp), Precedes(w, it') PROVE FALSE
        OBVIOUS
      <4>1. w = it' \/ Precedes(it', w)
        BY <3>1, <3>2
      <4>2. Precedes(it', it')
        BY <3>1, <3>2, <4>1, PrecedesOrder
      <4> QED
        BY <3>1, <3>2, <4>2, PrecedesOrder
    <3> QED
      BY <3>1, <3>3, <3>4
  <2>2. CASE ~\E k \in DOMAIN temp : k >= 0
    <3>1. it' = <<>>
      BY <1>2, <1>3, <2>2, LoadFirstLeast
    <3>2. ToSet(temp) = {}
      BY <1>3, <2>2, ToSetParts
    <3> QED
      BY <3>1, <3>2
  <2> QED
    BY <2>1, <2>2
<1>5. MembersReplyExact'
  BY <1>2, <1>3 DEF MembersReplyExact
<1>6. Elements(<<>>) = {} /\ Ascending(<<>>) /\ <<>> \in Seq(Value)
  BY DEF Elements, Ascending
<1>7. RequestSound'
  BY <1>1, RequestKept DEF SendLength
<1> QED
  BY <1>1, <1>2, <1>3, <1>4, <1>5, <1>6, <1>7, EmittingInv

LEMMA EmitMemberInv ==
  ASSUME IInv, EmitMember
  PROVE  IInv'
<1> DEFINE before == {v \in ToSet(temp) : Precedes(v, it)}
<1>1. StoreAtRest /\ LoopInv /\ pc = "emit" /\ it # <<>>
  BY SplitInv DEF EmitMember
<1>2. /\ out' = Append(out, it) /\ it' = AdvanceIterator(temp, it)
      /\ UNCHANGED <<keyspace, pc, key, argv, bang, temp, left, total, request, reply, replicated>>
  BY DEF EmitMember
<1>3. /\ SoundBitmap(temp) /\ left = {} /\ total \in Nat
      /\ total = Cardinality(CountedOutside(temp, {}))
      /\ argv = <<>> /\ key \in Key \union {NoKey} /\ bang \in BOOLEAN
      /\ replicated \in BOOLEAN /\ MembersReplyExact
  BY <1>1 DEF LoopInv
<1>4. /\ it \in ToSet(temp) /\ out \in Seq(Value)
      /\ Elements(out) = before /\ Ascending(out)
  BY <1>1 DEF LoopInv
<1>5. \A w \in ToSet(temp) : w \in Value
  BY DEF ToSet
<1>6. /\ out' \in Seq(Value) /\ Ascending(out')
      /\ Elements(out') = before \union {it}
  BY <1>2, <1>4, <1>5, AscendingAppend
<1>7. /\ it' # <<>> => it' \in ToSet(temp)
      /\ {v \in ToSet(temp) : it' # <<>> => Precedes(v, it')} = before \union {it}
  <2>1. CASE \E w \in ToSet(temp) : Precedes(it, w)
    <3>1. /\ it' \in ToSet(temp) /\ Precedes(it, it')
          /\ \A w \in ToSet(temp) : Precedes(it, w) => w = it' \/ Precedes(it', w)
      BY <1>2, <1>3, <1>4, <2>1, AdvanceIteratorNext
    <3>2. it' # <<>>
      BY <1>5, <3>1, PrecedesOrder
    <3>3. ASSUME NEW w \in ToSet(temp)
          PROVE  Precedes(w, it') <=> w = it \/ Precedes(w, it)
      <4>1. w = it \/ Precedes(w, it) => Precedes(w, it')
        BY <1>4, <1>5, <3>1, PrecedesOrder
      <4>2. ASSUME Precedes(w, it'), w # it, ~Precedes(w, it) PROVE FALSE
        <5>1. Precedes(it, w)
          BY <1>4, <1>5, <4>2, PrecedesOrder
        <5>2. w = it' \/ Precedes(it', w)
          BY <3>1, <5>1
        <5>3. Precedes(it', it')
          BY <1>5, <3>1, <4>2, <5>2, PrecedesOrder
        <5> QED
          BY <1>5, <3>1, <5>3, PrecedesOrder
      <4> QED
        BY <4>1, <4>2
    <3> QED
      BY <1>4, <3>1, <3>2, <3>3
  <2>2. CASE ~\E w \in ToSet(temp) : Precedes(it, w)
    <3>1. it' = <<>>
      BY <1>2, <1>3, <1>4, <2>2, AdvanceIteratorNext
    <3>2. \A w \in ToSet(temp) : w = it \/ Precedes(w, it)
      BY <1>4, <1>5, <2>2, PrecedesOrder
    <3> QED
      BY <1>4, <3>1, <3>2
  <2> QED
    BY <2>1, <2>2
<1>8. MembersReplyExact'
  BY <1>2, <1>3 DEF MembersReplyExact
<1>9. /\ it' # <<>> => it' \in ToSet(temp')
      /\ Elements(out') = {v \in ToSet(temp') : it' # <<>> => Precedes(v, it')}
  BY <1>2, <1>6, <1>7
<1>10. /\ pc' = "emit" /\ key' \in Key \union {NoKey} /\ argv' = <<>>
       /\ bang' \in BOOLEAN /\ SoundBitmap(temp') /\ left' = {} /\ total' \in Nat
       /\ total' = Cardinality(CountedOutside(temp', {})) /\ replicated' \in BOOLEAN
       /\ UNCHANGED keyspace
  BY <1>1, <1>2, <1>3
<1>11. RequestSound'
  BY <1>1, RequestKept DEF EmitMember
<1> QED
  BY <1>1, <1>6, <1>8, <1>9, <1>10, <1>11, EmittingInv

\* At the end of the iterator the announced length is the number of values sent.
LEMMA EndMembersInv ==
  ASSUME IInv, EndMembers
  PROVE  IInv'
<1>1. /\ LoopInv /\ pc = "emit" /\ it = <<>>
      /\ Return(Array(total, out)) /\ replicated' = FALSE /\ UNCHANGED keyspace
  BY SplitInv DEF EndMembers
<1>2. /\ SoundBitmap(temp) /\ total = Cardinality(CountedOutside(temp, {}))
      /\ Elements(out) = ToSet(temp) /\ out \in Seq(Value) /\ Ascending(out)
  BY <1>1 DEF LoopInv
<1>3. total = Len(out)
  BY <1>2, CountedEnds, AscendingCounts
<1> DEFINE r == Array(total, out)
<1>4. r[2] = total /\ r[3] = out
  BY DEF Array
<1>5. Len(r[3]) = r[2] /\ Ascending(r[3])
  BY <1>2, <1>3, <1>4
<1>6. Return(r)
  BY <1>1
<1>7. pc \notin {"add", "remove"} /\ replicated' \in BOOLEAN /\ UNCHANGED keyspace
  BY <1>1
<1> HIDE DEF r
<1> QED
  BY <1>5, <1>6, <1>7, ReturnAfterLoopInv

-----------------------------------------------------------------------------
(***************************************************************************)
(* ADD and REMOVE change the keyspace; the locals of the read commands are *)
(* at rest meanwhile.                                                      *)
(***************************************************************************)

LocalsAtRest ==
  /\ temp = EmptyBitmap /\ bang = FALSE
  /\ left = {} /\ total = 0 /\ it = <<>> /\ out = <<>>
  /\ replicated \in BOOLEAN
  /\ MembersReplyExact

KeyspaceSound ==
  /\ keytype \in [Key -> {"empty", "roaring", "foreign"}]
  /\ bitmap = [k \in Key |-> bitmap[k]]
  /\ \A k \in Key : SoundBitmap(bitmap[k]) /\ Canonical(bitmap[k])
  /\ \A k \in Key : keytype[k] # "roaring" => bitmap[k] = EmptyBitmap

\* A call of ADD or REMOVE is in progress on key.
WriteInv ==
  /\ pc \in {"add", "remove"}
  /\ key \in Key /\ keytype[key] = "roaring"
  /\ argv \in Seq(Value)
  /\ \A k \in Key : keytype[k] = "roaring" /\ IsEmpty(bitmap[k]) =>
       k = key /\ (pc = "remove" \/ argv # <<>>)

LEMMA SplitWrite ==
  ASSUME IInv
  PROVE  /\ KeyspaceSound
         /\ pc \in {"idle", "add", "remove"} => LocalsAtRest
         /\ pc \in {"add", "remove"} => WriteInv
<1>1. KeyspaceSound
  BY DEF IInv, TypeOK, StoredCanonical, CallInvariant, Canonical, KeyspaceSound,
         SoundBitmap, WellFormedBitmap
<1>2. pc \in {"idle", "add", "remove"} => LocalsAtRest
  BY DEF IInv, TypeOK, TempWellFormed, CallInvariant, LocalsAtRest, SoundBitmap
<1>3. pc \in {"add", "remove"} => WriteInv
  BY DEF IInv, TypeOK, CallInvariant, WriteInv
<1> QED
  BY <1>1, <1>2, <1>3

LEMMA JoinWrite ==
  ASSUME KeyspaceSound', LocalsAtRest', WriteInv', RequestSound'
  PROVE  IInv'
<1>1. TypeOK'
  <2>1. (pc \in {"add", "remove"})' /\ (argv \in Seq(Value))' /\ (key \in Key)'
    BY DEF WriteInv
  <2>2. /\ (pc \in CallName)' /\ (key \in Key \union {NoKey})'
        /\ (pc = "card" => argv \in Seq(Key \union {Bang}))'
        /\ (pc \notin {"add", "remove", "card"} => argv = <<>>)'
    BY <2>1 DEF CallName
  <2>3. /\ (keytype \in [Key -> {"empty", "roaring", "foreign"}])'
        /\ (bitmap = [k \in Key |-> bitmap[k]])'
        /\ (\A k \in Key : IsBitmap(bitmap[k]))'
    BY DEF KeyspaceSound, SoundBitmap
  <2>4. /\ (bang \in BOOLEAN)' /\ IsBitmap(temp)'
        /\ (left \subseteq DOMAIN temp)' /\ (replicated \in BOOLEAN)'
    <3>1. (temp = EmptyBitmap /\ bang = FALSE /\ left = {} /\ replicated \in BOOLEAN)'
      BY DEF LocalsAtRest
    <3>2. IsBitmap(temp')
      BY <3>1, EmptyBitmapSound DEF SoundBitmap
    <3> QED
      BY <3>1, <3>2
  <2>5. (total \in Nat)' /\ (it \in Value \union {<<>>})' /\ (out \in Seq(Value))'
    BY DEF LocalsAtRest
  <2>6. (request \in Requests \union {NoRequest})'
    BY DEF RequestSound
  <2> QED
    BY <2>1, <2>2, <2>3, <2>4, <2>5, <2>6, Zenon DEF TypeOK
<1>2. StoredCanonical' /\ TempWellFormed'
  BY EmptyBitmapSound
  DEF KeyspaceSound, LocalsAtRest, StoredCanonical, TempWellFormed, SoundBitmap
<1>3. CallInvariant'
  <2>1. /\ (\A k \in Key : keytype[k] # "roaring" => bitmap[k] = EmptyBitmap)'
    BY DEF KeyspaceSound
  <2>2. /\ (\A k \in Key : keytype[k] = "roaring" /\ IsEmpty(bitmap[k]) =>
             /\ k = key
             /\ pc = "remove" \/ (pc = "add" /\ argv # <<>>))'
        /\ (keytype[key] = "roaring")' /\ ~(pc = "emit")'
    BY DEF WriteInv
  <2>3. /\ (left = {} /\ total = 0 /\ it = <<>> /\ out = <<>>)'
        /\ (temp = EmptyBitmap /\ bang = FALSE)'
    BY DEF LocalsAtRest
  <2>4. (pc # "idle" => request = NoRequest)'
    BY DEF RequestSound
  <2> QED
    BY <2>1, <2>2, <2>3, <2>4, Zenon DEF CallInvariant
<1>4. CountExact' /\ MembersReplyExact'
  BY DEF WriteInv, LocalsAtRest, CountExact
<1> QED
  BY <1>1, <1>2, <1>3, <1>4 DEF IInv

LEMMA TruncateValue ==
  ASSUME NEW a \in Argument, a # NotInt
  PROVE  Truncate(a) \in Value
BY DEF Argument, Integer64, Truncate, Value

LEMMA ArgumentsAreSequences ==
  ASSUME NEW S, NEW n \in Nat, NEW m \in 0 .. n, NEW args \in [1 .. m -> S]
  PROVE  args \in Seq(S) /\ Len(args) = m /\ (m = 0 <=> args = <<>>)
<1>1. m \in Nat
  OBVIOUS
<1>2. args \in Seq(S) /\ Len(args) = m
  BY <1>1
<1> QED
  BY <1>1, <1>2

LEMMA BeginWriteInv ==
  ASSUME IInv, NEW k \in Key, NEW args \in ArgsOver(Argument, MaxValues),
         NEW cmd \in {"add", "remove"}, BeginWrite(cmd, k, args)
  PROVE  IInv'
<1>1. /\ pc = "idle" /\ WellFormedArgs(args)
      /\ keytype[k] = "roaring" \/ (keytype[k] = "empty" /\ cmd = "add")
      /\ keytype' = [keytype EXCEPT ![k] = "roaring"]
      /\ bitmap' = [bitmap EXCEPT ![k] = IF keytype[k] = "empty" THEN EmptyBitmap ELSE @]
      /\ pc' = cmd /\ key' = k
      /\ argv' = [i \in DOMAIN args |-> Truncate(args[i])]
      /\ reply' = NoReply
      /\ UNCHANGED <<bang, temp, left, total, it, out, replicated>>
  BY DEF BeginWrite
<1>2. KeyspaceSound /\ LocalsAtRest /\ StoreAtRest
  BY <1>1, SplitWrite, SplitInv
<1>3. bitmap' = bitmap
  BY <1>1, <1>2 DEF KeyspaceSound
<1>4. KeyspaceSound'
  BY <1>1, <1>2, <1>3 DEF KeyspaceSound
<1>5. LocalsAtRest'
  BY <1>1, <1>2 DEF LocalsAtRest, MembersReplyExact, NoReply
<1>6. argv' \in Seq(Value) /\ argv' # <<>>
  <2>1. PICK m \in 0 .. MaxValues : args \in [1 .. m -> Argument]
    BY DEF ArgsOver
  <2>2. m \in Nat /\ DOMAIN args = 1 .. m /\ \A i \in 1 .. m : args[i] \in Argument
    BY <2>1, CommandAssumption
  <2>3. \A i \in 1 .. m : args[i] # NotInt
    BY <1>1, <2>2 DEF WellFormedArgs, AllIntegers, Elements
  <2>4. m # 0
    BY <1>1, <2>1, <2>2 DEF WellFormedArgs
  <2>5. argv' \in [1 .. m -> Value]
    BY <1>1, <2>2, <2>3, TruncateValue
  <2> QED
    BY <2>2, <2>4, <2>5
<1>7. WriteInv'
  <2>1. \A j \in Key : keytype'[j] = "roaring" /\ IsEmpty(bitmap'[j]) => j = k
    BY <1>1, <1>2, <1>3 DEF StoreAtRest
  <2>2. keytype'[k] = "roaring"
    BY <1>1, <1>2 DEF KeyspaceSound
  <2> QED
    BY <1>1, <1>6, <2>1, <2>2 DEF WriteInv
<1>8. RequestSound'
  BY RequestTaken DEF BeginWrite
<1> QED
  BY <1>4, <1>5, <1>7, <1>8, JoinWrite

\* One turn of either loop replaces the open bitmap by a sound, canonical one.
LEMMA WriteStepInv ==
  ASSUME IInv, WriteInv, argv # <<>>, argv' = Tail(argv), NEW b, SoundBitmap(b), Canonical(b),
         pc = "add" => ~IsEmpty(b),
         bitmap' = [bitmap EXCEPT ![key] = b],
         UNCHANGED <<keytype, pc, key, bang, temp, left, total, it, out, request, reply, replicated>>
  PROVE  IInv'
<1>1. KeyspaceSound /\ LocalsAtRest
  BY SplitWrite DEF WriteInv
<1>2. /\ key \in Key /\ keytype[key] = "roaring" /\ pc \in {"add", "remove"}
      /\ argv' \in Seq(Value)
  BY DEF WriteInv
<1>3. bitmap'[key] = b /\ \A j \in Key \ {key} : bitmap'[j] = bitmap[j]
  BY <1>1, <1>2 DEF KeyspaceSound
<1>4. KeyspaceSound'
  <2>1. bitmap' = [k \in Key |-> bitmap'[k]]
    BY <1>1 DEF KeyspaceSound
  <2>2. \A k \in Key : SoundBitmap(bitmap'[k]) /\ Canonical(bitmap'[k])
    BY <1>1, <1>3 DEF KeyspaceSound
  <2>3. \A k \in Key : keytype'[k] # "roaring" => bitmap'[k] = EmptyBitmap
    BY <1>1, <1>2, <1>3 DEF KeyspaceSound
  <2> QED
    BY <1>1, <2>1, <2>2, <2>3 DEF KeyspaceSound
<1>5. LocalsAtRest'
  BY <1>1 DEF LocalsAtRest, MembersReplyExact
<1>6. WriteInv'
  BY <1>2, <1>3 DEF WriteInv
<1>7. RequestSound'
  BY RequestKept
<1> QED
  BY <1>4, <1>5, <1>6, <1>7, JoinWrite

LEMMA AddValueInv ==
  ASSUME IInv, AddValue
  PROVE  IInv'
<1> DEFINE b == BitmapAdd(bitmap[key], Head(argv))
<1>1. WriteInv /\ KeyspaceSound /\ pc = "add" /\ argv # <<>>
  BY SplitWrite DEF AddValue
<1>2. Head(argv) \in Value /\ key \in Key
  BY <1>1 DEF WriteInv
<1>3. SoundBitmap(b) /\ Canonical(b) /\ ~IsEmpty(b)
  BY <1>1, <1>2, BitmapAddSound DEF KeyspaceSound, IsEmpty
<1>4. /\ argv' = Tail(argv) /\ bitmap' = [bitmap EXCEPT ![key] = b]
      /\ UNCHANGED <<keytype, pc, key, bang, temp, left, total, it, out, request, reply, replicated>>
  BY DEF AddValue
<1> HIDE DEF b
<1> QED
  BY <1>1, <1>3, <1>4, WriteStepInv

LEMMA RemoveValueInv ==
  ASSUME IInv, RemoveValue
  PROVE  IInv'
<1> DEFINE b == BitmapRemove(bitmap[key], Head(argv))
<1>1. WriteInv /\ KeyspaceSound /\ pc = "remove" /\ argv # <<>>
  BY SplitWrite DEF RemoveValue
<1>2. Head(argv) \in Value /\ key \in Key
  BY <1>1 DEF WriteInv
<1>3. SoundBitmap(b) /\ Canonical(b)
  BY <1>1, <1>2, BitmapRemoveSound DEF KeyspaceSound
<1>4. /\ argv' = Tail(argv) /\ bitmap' = [bitmap EXCEPT ![key] = b]
      /\ UNCHANGED <<keytype, pc, key, bang, temp, left, total, it, out, request, reply, replicated>>
  BY DEF RemoveValue
<1> HIDE DEF b
<1> QED
  BY <1>1, <1>3, <1>4, WriteStepInv

LEMMA EndWriteInv ==
  ASSUME IInv, EndWrite
  PROVE  IInv'
<1>1. /\ pc \in {"add", "remove"} /\ argv = <<>>
      /\ keytype' = [keytype EXCEPT ![key] =
           IF pc = "remove" /\ IsEmpty(bitmap[key]) THEN "empty" ELSE @]
      /\ replicated' = TRUE /\ Return(Integer(1)) /\ bitmap' = bitmap
  BY DEF EndWrite
<1>2. KeyspaceSound /\ WriteInv
  BY <1>1, SplitWrite
<1>3. /\ keytype' \in [Key -> {"empty", "roaring", "foreign"}]
      /\ \A k \in Key : keytype'[k] =
           IF k = key /\ pc = "remove" /\ IsEmpty(bitmap[key]) THEN "empty" ELSE keytype[k]
  BY <1>1, <1>2 DEF KeyspaceSound, WriteInv
<1>4. \A k \in Key : IsEmpty(bitmap[k]) => bitmap[k] = EmptyBitmap
  BY <1>2 DEF IsEmpty, EmptyBitmap, KeyspaceSound, SoundBitmap, IsBitmap
<1>5. StoreAtRest'
  <2>1. (\A k \in Key : IsBitmap(bitmap[k]) /\ Canonical(bitmap[k]))'
    BY <1>1, <1>2 DEF KeyspaceSound, SoundBitmap
  <2>2. (\A k \in Key : keytype[k] # "roaring" => bitmap[k] = EmptyBitmap)'
    BY <1>1, <1>2, <1>3, <1>4 DEF KeyspaceSound
  <2>3. (\A k \in Key : keytype[k] = "roaring" => ~IsEmpty(bitmap[k]))'
    BY <1>1, <1>2, <1>3 DEF WriteInv
  <2> QED
    BY <1>1, <1>2, <1>3, <2>1, <2>2, <2>3 DEF StoreAtRest, KeyspaceSound
<1>6. LoopInv' /\ RequestSound'
  BY <1>1, PlainReplies, ReturnInv
<1> QED
  BY <1>5, <1>6, JoinInv

LEMMA OtherCommandsInv ==
  ASSUME IInv, NEW k \in Key, Overwrite(k) \/ Delete(k)
  PROVE  IInv'
<1>1. PICK t \in {"foreign", "empty"} :
        /\ pc = "idle"
        /\ keytype' = [keytype EXCEPT ![k] = t]
        /\ bitmap' = [bitmap EXCEPT ![k] = EmptyBitmap]
        /\ UNCHANGED <<pc, locals, request, reply, replicated>>
  BY DEF Overwrite, Delete
<1>2. StoreAtRest /\ LoopInv
  BY <1>1, SplitInv
<1>3. StoreAtRest'
  <2>1. /\ keytype' \in [Key -> {"empty", "roaring", "foreign"}]
        /\ bitmap' = [j \in Key |-> bitmap'[j]]
        /\ keytype'[k] = t /\ bitmap'[k] = EmptyBitmap
        /\ \A j \in Key \ {k} : keytype'[j] = keytype[j] /\ bitmap'[j] = bitmap[j]
    BY <1>1, <1>2 DEF StoreAtRest
  <2>2. \A j \in Key : IsBitmap(bitmap'[j]) /\ Canonical(bitmap'[j])
    BY <1>2, <2>1, EmptyBitmapSound DEF StoreAtRest, SoundBitmap
  <2>3. \A j \in Key : keytype'[j] # "roaring" => bitmap'[j] = EmptyBitmap
    BY <1>2, <2>1 DEF StoreAtRest
  <2>4. \A j \in Key : keytype'[j] = "roaring" => ~IsEmpty(bitmap'[j])
    BY <1>2, <2>1 DEF StoreAtRest
  <2> QED
    BY <2>1, <2>2, <2>3, <2>4 DEF StoreAtRest
<1>4. UNCHANGED <<pc, key, argv, bang, temp, left, total, it, out, request, reply, replicated>>
  BY <1>1 DEF locals
<1>5. LoopInv'
  BY <1>2, <1>4 DEF LoopInv, MembersReplyExact
<1>6. RequestSound'
  BY <1>1, RequestKept
<1> QED
  BY <1>3, <1>5, <1>6, JoinInv

\* A request arrives.
LEMMA ReceiveInv ==
  ASSUME IInv, NEW r \in Requests, Receive(r)
  PROVE  IInv'
<1>1. /\ pc = "idle" /\ request' = r /\ reply' = NoReply
      /\ UNCHANGED <<keyspace, pc, key, argv, bang, temp, left, total, it, out, replicated>>
  BY DEF Receive, locals
<1>2. StoreAtRest /\ LoopInv
  BY <1>1, SplitInv
<1>3. LoopInv'
  BY <1>1, <1>2 DEF LoopInv, MembersReplyExact, NoReply
<1>4. RequestSound'
  BY <1>1 DEF RequestSound
<1> QED
  BY <1>1, <1>2, <1>3, <1>4, RestUnchanged, JoinInv

-----------------------------------------------------------------------------
(***************************************************************************)
(* Invariance.                                                             *)
(***************************************************************************)

\* What a request that the server begins consists of.
LEMMA RequestParts ==
  ASSUME IInv
  PROVE  /\ request.cmd \in {"add", "remove"} =>
              request.key \in Key /\ request.args \in ArgsOver(Argument, MaxValues)
         /\ request.cmd = "card" => request.args \in ArgsOver(Key \union {Bang}, MaxNames)
         /\ request.cmd \in {"members", "ismember"} =>
              request.key \in Key /\ request.args \in ArgsOver(Asked, 2)
<1>1. request \in Requests \union {NoRequest}
  BY DEF IInv, TypeOK
<1> QED
  BY <1>1 DEF Requests, NoRequest

LEMMA BeginCallInv ==
  ASSUME IInv, BeginCall
  PROVE  IInv'
<1> DEFINE k == request.key
           args == request.args
<1>1. CASE BeginAddOrRemove
  <2>1. /\ request.cmd \in {"add", "remove"}
        /\ \/ RefuseWrite(args) \/ RefuseForeignWrite(k, args) \/ RemoveFromMissing(k, args)
           \/ BeginWrite(request.cmd, k, args)
    BY <1>1 DEF BeginAddOrRemove
  <2>2. k \in Key /\ args \in ArgsOver(Argument, MaxValues)
    BY <2>1, RequestParts
  <2>3. CASE RefuseWrite(args) \/ RefuseForeignWrite(k, args) \/ RemoveFromMissing(k, args)
    BY <2>3, AnswerAtOnceInv, PlainReplies
    DEF RefuseWrite, RefuseForeignWrite, RemoveFromMissing
  <2>4. CASE BeginWrite(request.cmd, k, args)
    BY <2>1, <2>2, <2>4, BeginWriteInv
  <2> QED
    BY <2>1, <2>3, <2>4
<1>2. CASE BeginCardCall
  <2>1. args \in ArgsOver(Key \union {Bang}, MaxNames)
    BY <1>2, RequestParts DEF BeginCardCall
  <2>2. CASE RefuseCard(args)
    BY <2>2, AnswerAtOnceInv, PlainReplies DEF RefuseCard
  <2> QED
    BY <1>2, <2>1, <2>2, BeginCardInv DEF BeginCardCall
<1>3. CASE BeginMembersCall
  <2>1. k \in Key
    BY <1>3, RequestParts DEF BeginMembersCall
  <2>2. CASE RefuseArity \/ MembersOfMissing(k) \/ RefuseForeignRead(k)
    BY <2>2, AnswerAtOnceInv, PlainReplies
    DEF RefuseArity, MembersOfMissing, RefuseForeignRead
  <2> QED
    BY <1>3, <2>1, <2>2, BeginMembersInv DEF BeginMembersCall
<1>4. CASE IsMemberCall
  <2>1. CASE RefuseArity \/ RefuseForeignRead(k)
    BY <2>1, AnswerAtOnceInv, PlainReplies DEF RefuseArity, RefuseForeignRead
  <2>2. CASE IsMember(k, args[1])
    BY <2>2, AnswerAtOnceInv, PlainReplies DEF IsMember
  <2> QED
    BY <1>4, <2>1, <2>2 DEF IsMemberCall
<1> QED
  BY <1>1, <1>2, <1>3, <1>4 DEF BeginCall

LEMMA ContinueCallInv ==
  ASSUME IInv, ContinueCall
  PROVE  IInv'
<1>1. CASE AddValue \/ RemoveValue \/ EndWrite
  BY <1>1, AddValueInv, RemoveValueInv, EndWriteInv
<1>2. CASE CardBang \/ CardMissing \/ CardUnite \/ CardSubtract
  BY <1>2, CardStepsInv
<1>3. CASE CardError
  BY <1>3, ReturnAfterLoopInv, PlainReplies DEF CardError, AtCardArgument
<1>4. CASE BeginCount \/ CountContainer
  BY <1>4, BeginCountInv, CountContainerInv
<1>5. CASE EndCard
  BY <1>5, ReturnAfterLoopInv, PlainReplies DEF EndCard
<1>6. CASE SendLength \/ EmitMember \/ EndMembers
  BY <1>6, SendLengthInv, EmitMemberInv, EndMembersInv
<1> QED
  BY <1>1, <1>2, <1>3, <1>4, <1>5, <1>6 DEF ContinueCall

LEMMA StutterInv ==
  ASSUME IInv, UNCHANGED vars
  PROVE  IInv'
<1>1. /\ UNCHANGED <<keytype, bitmap, pc, key, argv, bang, temp>>
      /\ UNCHANGED <<left, total, it, out, request, reply, replicated>>
  BY DEF vars, keyspace, locals
<1> QED
  BY <1>1 DEF IInv, TypeOK, StoredCanonical, TempWellFormed, CallInvariant, CountExact,
              MembersReplyExact

\* Every step of the server keeps the inductive invariant.
THEOREM StepInv == IInv /\ [Next]_vars => IInv'
BY ReceiveInv, BeginCallInv, ContinueCallInv, OtherCommandsInv, StutterInv
DEF Next, Commands, OtherCommands

\* Every reachable state satisfies the inductive invariant: bitmaps sound and
\* canonical, counts exact, loops where they should be.
THEOREM Invariance == Spec => []IInv
<1>1. Init => IInv
  BY InitInv
<1>2. IInv /\ [Next]_vars => IInv'
  BY StepInv
<1> QED
  BY <1>1, <1>2, PTL DEF Spec

\* Type correctness of the commands.
THEOREM TypeCorrect == Spec => []TypeOK
<1>1. IInv => TypeOK
  BY DEF IInv
<1> QED
  BY <1>1, Invariance, PTL

\* No sequence of commands, at any point of any call, stores a bitmap that the
\* rest of the code would misread (container type against stored cardinality).
THEOREM StoredCanonicalHolds == Spec => []StoredCanonical
<1>1. IInv => StoredCanonical
  BY DEF IInv
<1> QED
  BY <1>1, Invariance, PTL

\* The in-place unions and differences of CARD keep the bitmap they work on sound.
THEOREM TempWellFormedHolds == Spec => []TempWellFormed
<1>1. IInv => TempWellFormed
  BY DEF IInv
<1> QED
  BY <1>1, Invariance, PTL

\* No key is left holding an empty bitmap.
THEOREM NoEmptyKeyHolds == Spec => []NoEmptyKey
<1>1. IInv => NoEmptyKey
  BY DEF IInv, CallInvariant, NoEmptyKey
<1> QED
  BY <1>1, Invariance, PTL

\* The loop invariants of all five handlers.
THEOREM CallInvariantHolds == Spec => []CallInvariant
<1>1. IInv => CallInvariant
  BY DEF IInv
<1> QED
  BY <1>1, Invariance, PTL

\* Adding up stored cardinalities counts the values, container by container.
THEOREM CountExactHolds == Spec => []CountExact
<1>1. IInv => CountExact
  BY DEF IInv
<1> QED
  BY <1>1, Invariance, PTL

\* MEMBERS announces as many elements as it sends, in increasing order.
THEOREM MembersReplyExactHolds == Spec => []MembersReplyExact
<1>1. IInv => MembersReplyExact
  BY DEF IInv
<1> QED
  BY <1>1, Invariance, PTL

\* The subtraction loop of CARD computes a set difference at every argument.
THEOREM DifferenceExactHolds == Spec => DifferenceExact
<1>1. IInv /\ [Next]_vars =>
        [CardSubtract => ToSet(temp') = ToSet(temp) \ ToSet(bitmap[Head(argv)])]_vars
  <2> SUFFICES ASSUME IInv, CardSubtract
               PROVE  ToSet(temp') = ToSet(temp) \ ToSet(bitmap[Head(argv)])
    OBVIOUS
  <2>1. /\ AtCardArgument /\ Head(argv) # Bang
        /\ temp' = AndNotInplace(temp, bitmap[Head(argv)])
    BY DEF CardSubtract
  <2> QED
    BY <2>1, CardArgument, AndNotInplaceSound
<1> QED
  BY <1>1, Invariance, PTL DEF Spec, DifferenceExact

\* The union loop of CARD computes a set union at every argument, provided that
\* no bitmap can have a container at every one of the 2^16 keys: then the bounds
\* of ra_append_copy_range do not wrap around.
THEOREM UnionExactHolds ==
  ASSUME Cardinality(Chunk) < KeyMod
  PROVE  Spec => UnionExact
<1>1. IInv /\ [Next]_vars =>
        [CardUnite => ToSet(temp') = ToSet(temp) \union ToSet(bitmap[Head(argv)])]_vars
  <2> SUFFICES ASSUME IInv, CardUnite
               PROVE  ToSet(temp') = ToSet(temp) \union ToSet(bitmap[Head(argv)])
    OBVIOUS
  <2>1. /\ AtCardArgument /\ Head(argv) # Bang
        /\ temp' = OrInplace(temp, bitmap[Head(argv)])
    BY DEF CardUnite
  <2> QED
    BY <2>1, CardArgument, OrInplaceUnion
<1> QED
  BY <1>1, Invariance, PTL DEF Spec, UnionExact

-----------------------------------------------------------------------------
(***************************************************************************)
(* The five commands implement SetKeyspace for every set of keys, every    *)
(* chunk size and every threshold: each step of a handler is a step of the *)
(* store of plain sets or leaves it as it is.                              *)
(***************************************************************************)

\* The state functions that stand for the variables of SetKeyspace.
StoreNow == [k \in Key |-> SetNow(k)]
AlienNow == {k \in Key : keytype[k] = "foreign"}

\* A step that the client of the set store does not see.
Unseen ==
  /\ StoreNow' = StoreNow
  /\ AlienNow' = AlienNow
  /\ AnswerNow' = AnswerNow
  /\ request' = request
  /\ (pc # "idle")' <=> pc # "idle"

LEMMA UnseenStutters ==
  ASSUME Unseen
  PROVE  UNCHANGED Promise!vars
BY DEF Unseen, Promise!vars, StoreNow, AlienNow

-----------------------------------------------------------------------------
(***************************************************************************)
(* Reading the state functions.                                            *)
(***************************************************************************)

\* Outside ADD and REMOVE a key stands for the values in its bitmap.
LEMMA StoreOutsideWrites ==
  /\ pc \notin {"add", "remove"} => \A k \in Key : SetNow(k) = ToSet(bitmap[k])
  /\ (pc \notin {"add", "remove"})' => \A k \in Key : SetNow(k)' = ToSet(bitmap'[k])
BY DEF SetNow

\* A command that neither writes nor ends a write leaves every set as it is.
LEMMA SameSets ==
  ASSUME UNCHANGED keyspace, pc \notin {"add", "remove"}, pc' \notin {"add", "remove"}
  PROVE  StoreNow' = StoreNow /\ AlienNow' = AlienNow
<1>1. \A k \in Key : SetNow(k)' = SetNow(k)
  BY StoreOutsideWrites DEF keyspace
<1> QED
  BY <1>1 DEF StoreNow, AlienNow, keyspace

LEMMA ElementsOfNone == Elements(<<>>) = {}
BY DEF Elements

\* What a loop over the arguments has left once it has taken the first of them.
LEMMA ElementsOfTail ==
  ASSUME NEW S, NEW s \in Seq(S), s # <<>>
  PROVE  Elements(s) = {Head(s)} \union Elements(Tail(s))
<1>1. Len(s) \in Nat /\ Len(s) > 0 /\ DOMAIN s = 1 .. Len(s)
  OBVIOUS
<1>2. DOMAIN Tail(s) = 1 .. Len(s) - 1 /\ \A i \in 1 .. Len(s) - 1 : Tail(s)[i] = s[i + 1]
  OBVIOUS
<1>3. Head(s) = s[1]
  OBVIOUS
<1>4. \A x \in Elements(s) : x \in {Head(s)} \union Elements(Tail(s))
  <2> SUFFICES ASSUME NEW i \in 1 .. Len(s), i # 1
               PROVE  s[i] \in Elements(Tail(s))
    BY <1>1, <1>3 DEF Elements
  <2>1. i - 1 \in 1 .. Len(s) - 1 /\ (i - 1) + 1 = i
    BY <1>1
  <2> QED
    BY <1>2, <2>1 DEF Elements
<1>5. \A x \in {Head(s)} \union Elements(Tail(s)) : x \in Elements(s)
  <2>1. \A i \in 1 .. Len(s) - 1 : i + 1 \in 1 .. Len(s)
    BY <1>1
  <2> QED
    BY <1>1, <1>2, <1>3, <2>1 DEF Elements
<1> QED
  BY <1>4, <1>5

-----------------------------------------------------------------------------
(***************************************************************************)
(* Calls that are answered at once.                                        *)
(***************************************************************************)

LEMMA AtOnce ==
  ASSUME NEW r, AnswerAtOnce(r)
  PROVE  /\ pc = "idle" /\ pc' = "idle" /\ keytype' = keytype /\ bitmap' = bitmap
         /\ StoreNow' = StoreNow /\ AlienNow' = AlienNow
         /\ AnswerNow' = IF r[1] = "array" THEN <<"members", Elements(r[3])>> ELSE r
<1>1. pc = "idle" /\ pc' = "idle" /\ reply' = r /\ UNCHANGED keyspace
  BY DEF AnswerAtOnce, Return
<1>2. AnswerNow' = IF r[1] = "array" THEN <<"members", Elements(r[3])>> ELSE r
  BY <1>1 DEF AnswerNow
<1> QED
  BY <1>1, <1>2, SameSets DEF keyspace

(***************************************************************************)
(* The request, read as the set store reads it.                            *)
(***************************************************************************)

LEMMA RequestTakenMaps ==
  ASSUME pc = "idle", request.cmd # "none", request' = NoRequest
  PROVE  Promise!Take
BY DEF Promise!Take, NoRequest

LEMMA Served ==
  ASSUME pc = "idle", NEW cmd, request.cmd = cmd, cmd # "none", request' = NoRequest,
         ~Promise!Malformed, Promise!KeysNamed \intersect AlienNow = {}
  PROVE  Promise!Serve(cmd)
BY RequestTakenMaps DEF Promise!Serve, AlienNow

LEMMA OneKey ==
  ASSUME request.cmd # "card"
  PROVE  Promise!KeysNamed = {request.key}
BY DEF Promise!KeysNamed

\* The value that an integer names to the set store is what the cast leaves of it.
LEMMA LowHalfTruncates ==
  /\ DOMAIN LowHalf = Integer64
  /\ \A a \in Integer64 : LowHalf[a] = Truncate(a)
BY DEF LowHalf, Truncate

\* The handler refuses the arguments that name no values, and takes the others for
\* the values that they name.
LEMMA WriteArguments ==
  ASSUME request.cmd \in {"add", "remove"}, request.args \in ArgsOver(Argument, MaxValues)
  PROVE  /\ Promise!Malformed <=> ~WellFormedArgs(request.args)
         /\ WellFormedArgs(request.args) =>
              Promise!ValuesNamed
                = Elements([i \in DOMAIN request.args |-> Truncate(request.args[i])])
<1> DEFINE args == request.args
           values == [i \in DOMAIN args |-> Truncate(args[i])]
<1>1. PICK m \in 0 .. MaxValues : args \in [1 .. m -> Argument]
  BY DEF ArgsOver
<1>2. DOMAIN args = 1 .. m /\ (\A i \in 1 .. m : args[i] \in Argument) /\ m \in Nat
  BY <1>1, CommandAssumption
<1>3. Promise!Arguments = Elements(args)
  BY DEF Promise!Arguments, Elements
<1>4. Elements(args) = {} <=> args = <<>>
  <2>1. m = 0 <=> args = <<>>
    BY <1>1, ArgumentsAreSequences, CommandAssumption
  <2>2. m # 0 => 1 \in 1 .. m
    BY <1>2
  <2>3. Elements(args) = {args[i] : i \in 1 .. m}
    BY <1>2 DEF Elements
  <2>4. m # 0 => args[1] \in Elements(args)
    BY <2>2, <2>3
  <2>5. m = 0 => Elements(args) = {}
    <3>1. m = 0 => 1 .. m = {}
      BY <1>2
    <3> QED
      BY <2>3, <3>1
  <2> QED
    BY <2>1, <2>4, <2>5
<1>5. Elements(args) \subseteq Integer64 <=> NotInt \notin Elements(args)
  <2>1. Elements(args) \subseteq {NotInt} \union Integer64
    BY <1>2 DEF Elements, Argument
  <2>2. NotInt \notin Integer64
    BY CommandAssumption DEF Integer64
  <2> QED
    BY <2>1, <2>2
<1>6. Promise!Malformed <=> Elements(args) = {} \/ ~(Elements(args) \subseteq Integer64)
  BY <1>3, LowHalfTruncates DEF Promise!Malformed, Promise!Integer64
<1>7. Promise!Malformed <=> ~WellFormedArgs(args)
  BY <1>4, <1>5, <1>6 DEF WellFormedArgs, AllIntegers
<1>8. ASSUME WellFormedArgs(args)
      PROVE  Promise!ValuesNamed = Elements(values)
  <2>1. \A i \in 1 .. m : args[i] \in Integer64 /\ LowHalf[args[i]] = Truncate(args[i])
    BY <1>2, <1>5, <1>8, LowHalfTruncates DEF WellFormedArgs, AllIntegers, Elements
  <2>2. Promise!ValuesNamed = {LowHalf[a] : a \in Elements(args)}
    BY <1>3 DEF Promise!ValuesNamed
  <2>3. {LowHalf[a] : a \in Elements(args)} = {LowHalf[args[i]] : i \in 1 .. m}
    BY <1>2 DEF Elements
  <2>4. {LowHalf[args[i]] : i \in 1 .. m} = {Truncate(args[i]) : i \in 1 .. m}
    BY <2>1
  <2>5. Elements(values) = {Truncate(args[i]) : i \in 1 .. m}
    BY <1>2 DEF Elements
  <2> QED
    BY <2>2, <2>3, <2>4, <2>5
<1> QED
  BY <1>7, <1>8

\* A request arrives.
LEMMA ReceiveMaps ==
  ASSUME IInv, NEW r \in Requests, Receive(r)
  PROVE  Promise!Ask
<1>1. /\ pc = "idle" /\ pc' = pc /\ request = NoRequest /\ request' = r
      /\ reply' = NoReply /\ UNCHANGED keyspace
  BY DEF Receive
<1>2. StoreNow' = StoreNow /\ AlienNow' = AlienNow
  BY <1>1, SameSets
<1>3. AnswerNow' = <<"none">>
  BY <1>1 DEF AnswerNow, NoReply
<1> QED
  BY <1>1, <1>2, <1>3 DEF Promise!Ask, Promise!NoAnswer, StoreNow, AlienNow

(***************************************************************************)
(* Calls that are answered at once.                                        *)
(***************************************************************************)

\* A command is refused when it is malformed, or about a key of another type.
LEMMA RefusalMaps ==
  ASSUME AnswerAtOnce(Error), request.cmd # "none",
         Promise!Malformed \/ Promise!KeysNamed \intersect AlienNow # {}
  PROVE  Promise!Refuse
<1>1. AnswerNow' = Error
  BY AtOnce, PlainReplies
<1>2. Promise!Take
  BY AtOnce, RequestTakenMaps DEF AnswerAtOnce, Return
<1> QED
  BY <1>1, <1>2, AtOnce DEF Promise!Refuse, Promise!Error, Error, StoreNow, AlienNow

LEMMA RefuseForeignMaps ==
  ASSUME AnswerAtOnce(Error), request.cmd \notin {"none", "card"}, request.key \in Key,
         keytype[request.key] = "foreign"
  PROVE  Promise!Refuse
<1>1. Promise!KeysNamed \intersect AlienNow # {}
  BY OneKey DEF AlienNow
<1> QED
  BY <1>1, RefusalMaps

\* REMOVE on a key that does not exist: there is nothing to remove from.
LEMMA RemoveFromMissingMaps ==
  ASSUME IInv, request.cmd = "remove", RemoveFromMissing(request.key, request.args)
  PROVE  Promise!Remove
<1> DEFINE k == request.key
           S == Promise!ValuesNamed
<1>1. /\ AnswerAtOnce(Integer(1)) /\ keytype[k] = "empty" /\ pc = "idle"
      /\ WellFormedArgs(request.args) /\ request' = NoRequest
  BY DEF RemoveFromMissing, AnswerAtOnce, Return
<1>2. k \in Key /\ request.args \in ArgsOver(Argument, MaxValues)
  BY RequestParts
<1>3. k \notin AlienNow
  BY <1>1 DEF AlienNow
<1>4. Promise!Serve("remove")
  BY <1>1, <1>2, <1>3, WriteArguments, OneKey, Served
<1>5. AnswerNow' = Integer(1)
  BY <1>1, AtOnce, PlainReplies
<1>6. StoreNow[k] = {}
  BY <1>1, <1>2, StoreOutsideWrites, EmptyBitmapSound, SplitInv DEF StoreNow, StoreAtRest
<1> HIDE DEF S
<1>7. StoreNow = [StoreNow EXCEPT ![k] = @ \ S]
  BY <1>6 DEF StoreNow
<1>8. StoreNow' = [StoreNow EXCEPT ![k] = @ \ S] /\ AlienNow' = AlienNow
  BY <1>1, <1>7, AtOnce
<1> QED
  BY <1>4, <1>5, <1>8 DEF Promise!Remove, Promise!Int64, Integer, StoreNow, AlienNow, S

LEMMA MembersServed ==
  ASSUME IInv, request.cmd = "members", request.args = <<>>, pc = "idle",
         request' = NoRequest, keytype[request.key] # "foreign"
  PROVE  Promise!Serve("members") /\ request.key \in Key
<1>1. ~Promise!Malformed
  BY DEF Promise!Malformed
<1>2. request.key \notin AlienNow
  BY DEF AlienNow
<1> QED
  BY <1>1, <1>2, OneKey, Served, RequestParts

LEMMA MembersOfMissingMaps ==
  ASSUME IInv, request.cmd = "members", request.args = <<>>, MembersOfMissing(request.key)
  PROVE  Promise!List
<1> DEFINE k == request.key
<1>1. /\ AnswerAtOnce(Array(0, <<>>)) /\ keytype[k] = "empty" /\ pc = "idle"
      /\ request' = NoRequest
  BY DEF MembersOfMissing, AnswerAtOnce, Return
<1>2. Promise!Serve("members") /\ k \in Key
  BY <1>1, MembersServed
<1>3. AnswerNow' = <<"members", {}>>
  BY <1>1, AtOnce, ElementsOfNone DEF Array
<1>4. StoreNow[k] = {}
  BY <1>1, <1>2, StoreOutsideWrites, EmptyBitmapSound, SplitInv DEF StoreNow, StoreAtRest
<1> QED
  BY <1>1, <1>2, <1>3, <1>4, AtOnce DEF Promise!List, Promise!Members, StoreNow, AlienNow

\* ISMEMBER looks the value that its argument names up in the set of the key, which
\* is empty for a key that does not exist.  The argument is an integer.
LEMMA IsMemberMaps ==
  ASSUME NotInt \notin Asked, IInv, request.cmd = "ismember", Len(request.args) = 1,
         IsMember(request.key, request.args[1])
  PROVE  Promise!IsMember
<1> DEFINE k == request.key
           a == request.args[1]
           v == Truncate(a)
           n == IF keytype[k] = "roaring" /\ Contains(bitmap[k], v) THEN 1 ELSE 0
<1>1. k \in Key /\ a \in Integer64 /\ a # NotInt
  <2>1. request.key \in Key /\ request.args \in ArgsOver(Asked, 2)
    BY RequestParts
  <2>2. PICK m \in 0 .. 2 : request.args \in [1 .. m -> Asked]
    BY <2>1 DEF ArgsOver
  <2>3. m = 1
    BY <2>2, ArgumentsAreSequences
  <2>4. a \in Asked
    BY <2>2, <2>3
  <2> QED
    BY <2>1, <2>4, CommandAssumption DEF Integer64
<1>2. /\ AnswerAtOnce(Integer(n)) /\ keytype[k] # "foreign" /\ pc = "idle"
      /\ request' = NoRequest
  BY <1>1 DEF IsMember, IsMemberValue, AnswerAtOnce, Return
<1>3. v \in Value /\ v = LowHalf[a] /\ a \in DOMAIN LowHalf
  BY <1>1, TruncateValue, LowHalfTruncates DEF Argument
<1>4. Promise!Serve("ismember")
  <2>1. ~Promise!Malformed
    BY DEF Promise!Malformed
  <2>2. k \notin AlienNow
    BY <1>2 DEF AlienNow
  <2> QED
    BY <1>2, <2>1, <2>2, OneKey, Served
<1>5. StoreNow[k] = ToSet(bitmap[k])
  BY <1>1, <1>2, StoreOutsideWrites DEF StoreNow
<1>6. keytype[k] # "roaring" => bitmap[k] = EmptyBitmap
  BY <1>1, <1>2, SplitInv DEF StoreAtRest
<1> HIDE DEF v
<1>7. Contains(bitmap[k], v) <=> v \in ToSet(bitmap[k])
  BY <1>3 DEF Contains, ContainerContains, ToSet
<1>8. n = IF v \in StoreNow[k] THEN 1 ELSE 0
  BY <1>5, <1>6, <1>7, EmptyBitmapSound
<1> HIDE DEF n
<1>9. AnswerNow' = Integer(n)
  BY <1>2, AtOnce, PlainReplies
<1>10. Promise!Has(StoreNow[k], a) <=> v \in StoreNow[k]
  BY <1>3 DEF Promise!Has, Promise!Integer64
<1>11. AnswerNow' = Integer(IF Promise!Has(StoreNow[k], a) THEN 1 ELSE 0)
  BY <1>8, <1>9, <1>10
<1> QED
  BY <1>2, <1>4, <1>11, AtOnce
  DEF Promise!IsMember, Promise!Int64, Integer, StoreNow, AlienNow

-----------------------------------------------------------------------------
(***************************************************************************)
(* ADD and REMOVE take effect when they begin.                             *)
(***************************************************************************)

LEMMA BeginWriteMaps ==
  ASSUME IInv, request.cmd \in {"add", "remove"},
         BeginWrite(request.cmd, request.key, request.args)
  PROVE  Promise!Add \/ Promise!Remove
<1> DEFINE S == Elements(argv')
           k == request.key
           cmd == request.cmd
<1>1. /\ pc = "idle" /\ pc' = cmd /\ key' = k /\ request' = NoRequest
      /\ keytype[k] # "foreign" /\ keytype' = [keytype EXCEPT ![k] = "roaring"]
      /\ bitmap' = [bitmap EXCEPT ![k] = IF keytype[k] = "empty" THEN EmptyBitmap ELSE @]
      /\ WellFormedArgs(request.args)
      /\ argv' = [i \in DOMAIN request.args |-> Truncate(request.args[i])]
  BY DEF BeginWrite
<1>2. StoreAtRest /\ k \in Key /\ request.args \in ArgsOver(Argument, MaxValues)
  BY <1>1, SplitInv, RequestParts
<1>3. bitmap' = bitmap
  BY <1>1, <1>2 DEF StoreAtRest
<1>4. Promise!ValuesNamed = S /\ ~Promise!Malformed
  BY <1>1, <1>2, WriteArguments
<1>5. AnswerNow' = Integer(1)
  BY <1>1 DEF AnswerNow
<1>6. AlienNow' = AlienNow /\ k \notin AlienNow
  BY <1>1, <1>2 DEF AlienNow, StoreAtRest
<1>7. \A j \in Key : SetNow(j) = ToSet(bitmap[j])
  BY <1>1, StoreOutsideWrites
<1>8. Promise!Serve(cmd)
  BY <1>1, <1>4, <1>6, OneKey, Served
<1>9. CASE cmd = "add"
  <2>1. \A j \in Key : SetNow(j)' = IF j = k THEN SetNow(j) \union S ELSE SetNow(j)
    BY <1>1, <1>3, <1>7, <1>9 DEF SetNow
  <2>2. StoreNow' = [StoreNow EXCEPT ![k] = @ \union S]
    BY <2>1 DEF StoreNow
  <2> HIDE DEF S
  <2>3. Promise!Add
    BY <1>4, <1>5, <1>6, <1>8, <1>9, <2>2
    DEF Promise!Add, Promise!Int64, Integer, StoreNow, AlienNow
  <2> QED
    BY <2>3
<1>10. CASE cmd = "remove"
  <2>1. \A j \in Key : SetNow(j)' = IF j = k THEN SetNow(j) \ S ELSE SetNow(j)
    BY <1>1, <1>3, <1>7, <1>10 DEF SetNow
  <2>2. StoreNow' = [StoreNow EXCEPT ![k] = @ \ S]
    BY <2>1 DEF StoreNow
  <2> HIDE DEF S
  <2>3. Promise!Remove
    BY <1>4, <1>5, <1>6, <1>8, <1>10, <2>2
    DEF Promise!Remove, Promise!Int64, Integer, StoreNow, AlienNow
  <2> QED
    BY <2>3
<1> QED
  BY <1>9, <1>10

\* Each turn of a write loop moves one value from the arguments into the bitmap
\* (or takes it out of both): the set of the key does not change any more.
LEMMA WriteTurnUnseen ==
  ASSUME IInv, AddValue \/ RemoveValue
  PROVE  Unseen
<1>1. /\ pc \in {"add", "remove"} /\ pc' = pc /\ key' = key /\ argv # <<>>
      /\ keytype' = keytype /\ argv' = Tail(argv) /\ request' = request
      /\ bitmap' = [bitmap EXCEPT ![key] =
           IF pc = "add" THEN BitmapAdd(@, Head(argv)) ELSE BitmapRemove(@, Head(argv))]
  BY DEF AddValue, RemoveValue
<1>2. /\ WriteInv /\ KeyspaceSound
      /\ key \in Key /\ argv \in Seq(Value) /\ Head(argv) \in Value
  BY <1>1, SplitWrite DEF WriteInv
<1>3. \A j \in Key \ {key} : bitmap'[j] = bitmap[j]
  BY <1>1, <1>2 DEF KeyspaceSound
<1>4. bitmap'[key] = IF pc = "add" THEN BitmapAdd(bitmap[key], Head(argv))
                     ELSE BitmapRemove(bitmap[key], Head(argv))
  BY <1>1, <1>2 DEF KeyspaceSound
<1>5. Elements(argv) = {Head(argv)} \union Elements(argv')
  BY <1>1, <1>2, ElementsOfTail
<1>6. SoundBitmap(bitmap[key])
  BY <1>2 DEF KeyspaceSound
<1>7. \A j \in Key : SetNow(j)' = SetNow(j)
  <2>1. \A j \in Key \ {key} : SetNow(j)' = SetNow(j)
    BY <1>1, <1>3 DEF SetNow
  <2>2. CASE pc = "add"
    <3>1. ToSet(bitmap'[key]) = ToSet(bitmap[key]) \union {Head(argv)}
      BY <1>2, <1>4, <1>6, <2>2, BitmapAddSound
    <3>2. /\ SetNow(key) = ToSet(bitmap[key]) \union Elements(argv)
          /\ SetNow(key)' = ToSet(bitmap'[key]) \union Elements(argv')
      BY <1>1, <2>2 DEF SetNow
    <3>3. SetNow(key)' = SetNow(key)
      BY <1>5, <3>1, <3>2
    <3> QED
      BY <1>1, <2>1, <3>3
  <2>3. CASE pc = "remove"
    <3>1. ToSet(bitmap'[key]) = ToSet(bitmap[key]) \ {Head(argv)}
      BY <1>2, <1>4, <1>6, <2>3, BitmapRemoveSound
    <3>2. /\ SetNow(key) = ToSet(bitmap[key]) \ Elements(argv)
          /\ SetNow(key)' = ToSet(bitmap'[key]) \ Elements(argv')
      BY <1>1, <2>3 DEF SetNow
    <3>3. SetNow(key)' = SetNow(key)
      BY <1>5, <3>1, <3>2
    <3> QED
      BY <1>1, <2>1, <3>3
  <2> QED
    BY <1>1, <2>2, <2>3
<1>8. AnswerNow' = Integer(1) /\ AnswerNow = Integer(1)
  BY <1>1 DEF AnswerNow
<1> QED
  BY <1>1, <1>7, <1>8 DEF Unseen, StoreNow, AlienNow

LEMMA EndWriteMaps ==
  ASSUME IInv, EndWrite
  PROVE  Promise!Answer
<1>1. /\ pc \in {"add", "remove"} /\ pc' = "idle" /\ argv = <<>>
      /\ keytype' = [keytype EXCEPT ![key] =
           IF pc = "remove" /\ IsEmpty(bitmap[key]) THEN "empty" ELSE @]
      /\ bitmap' = bitmap /\ reply' = Integer(1)
      /\ request' = request
  BY DEF EndWrite, Return, IInv, CallInvariant
<1>2. KeyspaceSound /\ key \in Key /\ keytype[key] = "roaring"
  BY <1>1, SplitWrite DEF WriteInv
<1>3. \A j \in Key : SetNow(j)' = SetNow(j)
  <2>1. \A j \in Key : SetNow(j) = ToSet(bitmap[j])
    BY <1>1, ElementsOfNone DEF SetNow
  <2> QED
    BY <1>1, <2>1, StoreOutsideWrites
<1>4. AlienNow' = AlienNow
  BY <1>1, <1>2 DEF AlienNow, KeyspaceSound
<1>5. AnswerNow = Integer(1)
  BY <1>1 DEF AnswerNow
<1>6. AnswerNow' = Integer(1)
  <2>1. (pc = "idle" /\ reply = Integer(1))'
    BY <1>1
  <2>2. AnswerNow' = IF reply'[1] = "array" THEN <<"members", Elements(reply'[3])>> ELSE reply'
    BY <2>1 DEF AnswerNow
  <2> QED
    BY <2>1, <2>2, PlainReplies
<1>7. StoreNow' = StoreNow
  BY <1>3 DEF StoreNow
<1> QED
  BY <1>1, <1>4, <1>5, <1>6, <1>7 DEF Promise!Answer, StoreNow, AlienNow

-----------------------------------------------------------------------------
(***************************************************************************)
(* SET, DEL and the like on the same keys.                                 *)
(***************************************************************************)

LEMMA OtherCommandsMap ==
  ASSUME IInv, NEW k \in Key, Overwrite(k) \/ Delete(k)
  PROVE  Promise!Overwrite(k) \/ Promise!Delete(k)
<1>1. PICK t \in {"foreign", "empty"} :
        /\ t = "foreign" <=> Overwrite(k)
        /\ pc = "idle" /\ pc' = "idle" /\ reply' = reply /\ request' = request
        /\ keytype' = [keytype EXCEPT ![k] = t]
        /\ bitmap' = [bitmap EXCEPT ![k] = EmptyBitmap]
  BY DEF Overwrite, Delete
<1>2. KeyspaceSound
  BY SplitWrite
<1>3. /\ bitmap'[k] = EmptyBitmap /\ keytype'[k] = t
      /\ \A j \in Key \ {k} : bitmap'[j] = bitmap[j] /\ keytype'[j] = keytype[j]
  BY <1>1, <1>2 DEF KeyspaceSound
<1>4. \A j \in Key : SetNow(j)' = IF j = k THEN {} ELSE SetNow(j)
  BY <1>1, <1>3, StoreOutsideWrites, EmptyBitmapSound
<1>5. StoreNow' = [StoreNow EXCEPT ![k] = {}]
  BY <1>4 DEF StoreNow
<1>6. AlienNow' = IF t = "foreign" THEN AlienNow \union {k} ELSE AlienNow \ {k}
  BY <1>3 DEF AlienNow
<1>7. AnswerNow' = AnswerNow
  BY <1>1 DEF AnswerNow
<1> QED
  BY <1>1, <1>5, <1>6, <1>7
  DEF Promise!Overwrite, Promise!Delete, StoreNow, AlienNow

-----------------------------------------------------------------------------
(***************************************************************************)
(* Counting and listing: what CARD and MEMBERS do once the set is known.   *)
(***************************************************************************)

LEMMA BeginMembersMaps ==
  ASSUME IInv, request.cmd = "members", request.args = <<>>, BeginMembers(request.key)
  PROVE  Promise!List
<1> DEFINE k == request.key
<1>1. /\ pc = "idle" /\ pc' = "size" /\ keytype[k] = "roaring"
      /\ temp' = bitmap[k] /\ UNCHANGED keyspace /\ request' = NoRequest
  BY DEF BeginMembers
<1>2. Promise!Serve("members") /\ k \in Key
  BY <1>1, MembersServed
<1>3. StoreNow' = StoreNow /\ AlienNow' = AlienNow
  BY <1>1, SameSets
<1>4. StoreNow[k] = ToSet(bitmap[k])
  BY <1>1, <1>2, StoreOutsideWrites DEF StoreNow
<1>5. AnswerNow' = <<"members", ToSet(bitmap[k])>>
  BY <1>1 DEF AnswerNow
<1> QED
  BY <1>2, <1>3, <1>4, <1>5 DEF Promise!List, Promise!Members, StoreNow, AlienNow

\* Turns of the counting and emitting loops work on locals only.
LEMMA ReadTurnUnseen ==
  ASSUME IInv, CountContainer \/ SendLength \/ EmitMember
  PROVE  Unseen
<1>1. /\ \/ pc = "count" /\ pc' = "count"
         \/ pc \in {"size", "emit"} /\ pc' \in {"size", "emit"}
      /\ temp' = temp /\ UNCHANGED keyspace /\ request' = request
  BY DEF CountContainer, SendLength, EmitMember
<1>2. StoreNow' = StoreNow /\ AlienNow' = AlienNow
  BY <1>1, SameSets
<1>3. AnswerNow' = AnswerNow
  BY <1>1 DEF AnswerNow
<1> QED
  BY <1>1, <1>2, <1>3 DEF Unseen

\* A handler that answers after its loop gives the answer promised when it began.
LEMMA ReturnMaps ==
  ASSUME IInv, pc \notin {"idle", "add", "remove"}, NEW r, Return(r), UNCHANGED keyspace,
         AnswerNow = IF r[1] = "array" THEN <<"members", Elements(r[3])>> ELSE r
  PROVE  Promise!Answer
<1>1. pc' = "idle" /\ reply' = r /\ request' = request
  BY DEF Return, IInv, CallInvariant
<1>2. AnswerNow' = IF r[1] = "array" THEN <<"members", Elements(r[3])>> ELSE r
  BY <1>1 DEF AnswerNow
<1>3. StoreNow' = StoreNow /\ AlienNow' = AlienNow
  BY <1>1, SameSets
<1> QED
  BY <1>1, <1>2, <1>3 DEF Promise!Answer, StoreNow, AlienNow

\* CARD adds up stored cardinalities, and the sum is the size of the set.
LEMMA EndCardMaps ==
  ASSUME IInv, EndCard
  PROVE  Promise!Answer
<1>1. pc = "count" /\ left = {} /\ Return(Integer(total)) /\ UNCHANGED keyspace
  BY DEF EndCard
<1>2. SoundBitmap(temp) /\ total = Cardinality(CountedOutside(temp, {}))
  BY <1>1, SplitInv DEF LoopInv
<1>3. total = Cardinality(ToSet(temp))
  BY <1>2, CountedEnds
<1>4. AnswerNow = Integer(total)
  BY <1>1, <1>3 DEF AnswerNow
<1> QED
  BY <1>1, <1>4, ReturnMaps, PlainReplies

\* MEMBERS has emitted exactly the values of the set.
LEMMA EndMembersMaps ==
  ASSUME IInv, EndMembers
  PROVE  Promise!Answer
<1>1. /\ pc = "emit" /\ it = <<>> /\ Return(Array(total, out)) /\ UNCHANGED keyspace
  BY DEF EndMembers
<1>2. Elements(out) = ToSet(temp)
  BY <1>1, SplitInv DEF LoopInv
<1>3. AnswerNow = <<"members", Elements(out)>>
  BY <1>1, <1>2 DEF AnswerNow
<1>4. Array(total, out)[1] = "array" /\ Array(total, out)[3] = out
  BY DEF Array
<1> QED
  BY <1>1, <1>3, <1>4, ReturnMaps

-----------------------------------------------------------------------------
(***************************************************************************)
(* CARD: its answer is settled by its arguments when it begins, and every  *)
(* argument that the loop takes has the effect it was to have.             *)
(***************************************************************************)

\* The positions of a non-empty sequence are the first and those of its tail.
LEMMA TailPositions ==
  ASSUME NEW S, NEW s \in Seq(S), s # <<>>
  PROVE  /\ 1 \in DOMAIN s /\ Head(s) = s[1]
         /\ DOMAIN Tail(s) \subseteq Nat \ {0} /\ DOMAIN s \subseteq Nat \ {0}
         /\ \A i \in DOMAIN Tail(s) : i + 1 \in DOMAIN s /\ Tail(s)[i] = s[i + 1]
         /\ \A i \in DOMAIN s : i # 1 => i - 1 \in DOMAIN Tail(s) /\ s[i] = Tail(s)[i - 1]
<1>1. Len(s) \in Nat /\ Len(s) > 0 /\ DOMAIN s = 1 .. Len(s)
  OBVIOUS
<1>2. DOMAIN Tail(s) = 1 .. Len(s) - 1 /\ \A i \in 1 .. Len(s) - 1 : Tail(s)[i] = s[i + 1]
  OBVIOUS
<1>3. Head(s) = s[1]
  OBVIOUS
<1>4. \A i \in 1 .. Len(s) - 1 : i + 1 \in 1 .. Len(s)
  BY <1>1
<1>5. \A i \in 1 .. Len(s) : i # 1 => i - 1 \in 1 .. Len(s) - 1 /\ (i - 1) + 1 = i
  BY <1>1
<1>6. 1 \in 1 .. Len(s) /\ 1 .. Len(s) \subseteq Nat \ {0} /\ 1 .. Len(s) - 1 \subseteq Nat \ {0}
  BY <1>1
<1>7. \A i \in 1 .. Len(s) : i # 1 => i - 1 \in 1 .. Len(s) - 1 /\ s[i] = Tail(s)[i - 1]
  BY <1>2, <1>5
<1> QED
  BY <1>1, <1>2, <1>3, <1>4, <1>6, <1>7

LEMMA MoreThanOne ==
  ASSUME NEW S, IsFiniteSet(S)
  PROVE  /\ Cardinality(S) > 0 <=> S # {}
         /\ Cardinality(S) > 1 <=> \E x, y \in S : x # y
<1>1. Cardinality(S) \in Nat
  BY FS_CardinalityType
<1>2. Cardinality(S) = 0 <=> S = {}
  BY FS_EmptySet
<1>3. Cardinality(S) = 1 <=> \E x : S = {x}
  BY FS_Singleton
<1>4. (S # {} /\ ~\E x : S = {x}) <=> \E x, y \in S : x # y
  <2>1. ASSUME NEW x \in S, NEW y \in S, x # y
        PROVE  S # {} /\ ~\E z : S = {z}
    BY <2>1
  <2>2. ASSUME S # {}, ~\E x : S = {x}
        PROVE  \E x, y \in S : x # y
    <3>1. PICK x : x \in S
      BY <2>2
    <3>2. S # {x}
      BY <2>2
    <3>3. PICK y \in S : y # x
      BY <3>1, <3>2
    <3> QED
      BY <3>1, <3>3
  <2> QED
    BY <2>1, <2>2
<1> QED
  BY <1>1, <1>2, <1>3, <1>4

\* When CARD will answer with an error, without the count of "!".
LEMMA CardFailsWhen ==
  ASSUME NEW args \in Seq(Key \union {Bang})
  PROVE  LET bangs == {i \in DOMAIN args : args[i] = Bang}
         IN  /\ Cardinality(bangs) > 0 <=> \E i \in DOMAIN args : args[i] = Bang
             /\ Cardinality(bangs) > 1 <=>
                  \E i, j \in DOMAIN args : i # j /\ args[i] = Bang /\ args[j] = Bang
<1> DEFINE bangs == {i \in DOMAIN args : args[i] = Bang}
<1>1. Len(args) \in Nat /\ DOMAIN args = 1 .. Len(args)
  OBVIOUS
<1>2. IsFiniteSet(1 .. Len(args))
  BY <1>1, FS_Interval
<1>3. bangs \in SUBSET (1 .. Len(args))
  BY <1>1
<1>4. IsFiniteSet(bangs)
  BY <1>2, <1>3, FS_Subset
<1>5. bangs # {} <=> \E i \in DOMAIN args : args[i] = Bang
  OBVIOUS
<1>6. (\E x, y \in bangs : x # y) <=>
        \E i, j \in DOMAIN args : i # j /\ args[i] = Bang /\ args[j] = Bang
  OBVIOUS
<1> HIDE DEF bangs
<1> QED
  BY <1>4, <1>5, <1>6, MoreThanOne DEF bangs

\* The next argument is taken; bang tells whether a "!" has been seen.
LEMMA CardFailsTurn ==
  ASSUME IInv, AtCardArgument, NextCardArgument,
         \/ Head(argv) = Bang /\ ~bang /\ bang'
         \/ Head(argv) # Bang /\ keytype[Head(argv)] # "foreign" /\ bang' = bang
  PROVE  CardFails' <=> CardFails
<1>1. /\ argv \in Seq(Key \union {Bang}) /\ argv # <<>> /\ bang \in BOOLEAN
      /\ argv' = Tail(argv) /\ keytype' = keytype
  BY SplitInv DEF LoopInv, AtCardArgument, NextCardArgument, keyspace
<1>2. argv' \in Seq(Key \union {Bang})
  BY <1>1
<1> DEFINE F(a) == \E i \in DOMAIN a : a[i] # Bang /\ keytype[a[i]] = "foreign"
           One(a) == \E i \in DOMAIN a : a[i] = Bang
           Two(a) == \E i, j \in DOMAIN a : i # j /\ a[i] = Bang /\ a[j] = Bang
<1>3. CardFails <=> F(argv) \/ (IF bang THEN One(argv) ELSE Two(argv))
  BY <1>1, CardFailsWhen DEF CardFails, Bangs
<1>4. CardFails' <=> F(argv') \/ (IF bang' THEN One(argv') ELSE Two(argv'))
  BY <1>1, <1>2, CardFailsWhen DEF CardFails, Bangs
<1>5. /\ 1 \in DOMAIN argv /\ Head(argv) = argv[1]
      /\ DOMAIN argv' \subseteq Nat \ {0} /\ DOMAIN argv \subseteq Nat \ {0}
      /\ \A i \in DOMAIN argv' : i + 1 \in DOMAIN argv /\ argv'[i] = argv[i + 1]
      /\ \A i \in DOMAIN argv : i # 1 => i - 1 \in DOMAIN argv' /\ argv[i] = argv'[i - 1]
  BY <1>1, TailPositions
<1>6. CASE Head(argv) = Bang /\ ~bang /\ bang'
  <2>1. F(argv) <=> F(argv')
    BY <1>5, <1>6
  <2>2. Two(argv) <=> One(argv')
    BY <1>5, <1>6
  <2> HIDE DEF F, One, Two
  <2> QED
    BY <1>3, <1>4, <1>6, <2>1, <2>2
<1>7. CASE Head(argv) # Bang /\ keytype[Head(argv)] # "foreign" /\ bang' = bang
  <2>1. F(argv) <=> F(argv')
    BY <1>5, <1>7
  <2>2. One(argv) <=> One(argv')
    BY <1>5, <1>7
  <2>3. Two(argv) <=> Two(argv')
    BY <1>5, <1>7
  <2> HIDE DEF F, One, Two
  <2> QED
    BY <1>3, <1>4, <1>7, <2>1, <2>2, <2>3
<1> QED
  BY <1>6, <1>7

\* The values that the arguments at the positions W contribute.
ValuesAt(args, W) == UNION {ToSet(bitmap[args[i]]) : i \in W}

\* Taking the first argument shifts the positions and takes its values out.
LEMMA ValuesAtTail ==
  ASSUME NEW S, NEW s \in Seq(S), s # <<>>,
         NEW W \in SUBSET DOMAIN s, NEW V \in SUBSET DOMAIN Tail(s),
         \A i \in DOMAIN Tail(s) : i + 1 \in W <=> i \in V
  PROVE  ValuesAt(s, W) =
           (IF 1 \in W THEN ToSet(bitmap[Head(s)]) ELSE {}) \union ValuesAt(Tail(s), V)
<1> DEFINE first == IF 1 \in W THEN ToSet(bitmap[Head(s)]) ELSE {}
<1>1. /\ 1 \in DOMAIN s /\ Head(s) = s[1]
      /\ DOMAIN Tail(s) \subseteq Nat \ {0} /\ DOMAIN s \subseteq Nat \ {0}
      /\ \A i \in DOMAIN Tail(s) : i + 1 \in DOMAIN s /\ Tail(s)[i] = s[i + 1]
      /\ \A i \in DOMAIN s : i # 1 => i - 1 \in DOMAIN Tail(s) /\ s[i] = Tail(s)[i - 1]
  BY TailPositions
<1>2. ASSUME NEW i \in W
      PROVE  ToSet(bitmap[s[i]]) \subseteq first \union ValuesAt(Tail(s), V)
  <2>1. CASE i = 1
    BY <1>1, <2>1
  <2>2. CASE i # 1
    <3>1. i - 1 \in DOMAIN Tail(s) /\ s[i] = Tail(s)[i - 1] /\ (i - 1) + 1 = i
      BY <1>1, <2>2
    <3>2. i - 1 \in V
      BY <3>1
    <3> QED
      BY <3>1, <3>2 DEF ValuesAt
  <2> QED
    BY <2>1, <2>2
<1>3. first \subseteq ValuesAt(s, W)
  BY <1>1 DEF ValuesAt
<1>4. ASSUME NEW i \in V
      PROVE  ToSet(bitmap[Tail(s)[i]]) \subseteq ValuesAt(s, W)
  BY <1>1 DEF ValuesAt
<1> HIDE DEF first
<1>5. ValuesAt(s, W) \subseteq first \union ValuesAt(Tail(s), V)
  BY <1>2 DEF ValuesAt
<1>6. ValuesAt(Tail(s), V) \subseteq ValuesAt(s, W)
  BY <1>4 DEF ValuesAt
<1>7. ValuesAt(s, W) = first \union ValuesAt(Tail(s), V)
  BY <1>3, <1>5, <1>6
<1> QED
  BY <1>7 DEF first

\* How the positions to unite and to subtract move when an argument is taken.
LEMMA PositionsTurn ==
  ASSUME IInv, AtCardArgument, NextCardArgument,
         \/ Head(argv) = Bang /\ ~bang /\ bang'
         \/ Head(argv) # Bang /\ bang' = bang
  PROVE  /\ WillUnite \in SUBSET DOMAIN argv /\ WillUnite' \in SUBSET DOMAIN argv'
         /\ WillSubtract \in SUBSET DOMAIN argv /\ WillSubtract' \in SUBSET DOMAIN argv'
         /\ \A i \in DOMAIN argv' : i + 1 \in WillUnite <=> i \in WillUnite'
         /\ \A i \in DOMAIN argv' : i + 1 \in WillSubtract <=> i \in WillSubtract'
         /\ 1 \in WillUnite <=> Head(argv) # Bang /\ ~bang
         /\ 1 \in WillSubtract <=> Head(argv) # Bang /\ bang
<1>1. /\ argv \in Seq(Key \union {Bang}) /\ argv # <<>> /\ bang \in BOOLEAN
      /\ argv' = Tail(argv)
  BY SplitInv DEF LoopInv, AtCardArgument, NextCardArgument
<1>2. /\ 1 \in DOMAIN argv /\ Head(argv) = argv[1]
      /\ DOMAIN argv' \subseteq Nat \ {0} /\ DOMAIN argv \subseteq Nat \ {0}
      /\ \A i \in DOMAIN argv' : i + 1 \in DOMAIN argv /\ argv'[i] = argv[i + 1]
  BY <1>1, TailPositions
<1>3. /\ WillUnite \in SUBSET DOMAIN argv /\ WillUnite' \in SUBSET DOMAIN argv'
      /\ WillSubtract \in SUBSET DOMAIN argv /\ WillSubtract' \in SUBSET DOMAIN argv'
  BY DEF WillUnite, WillSubtract
<1>4. 1 \in WillUnite <=> Head(argv) # Bang /\ ~bang
  BY <1>2 DEF WillUnite
<1>5. 1 \in WillSubtract <=> Head(argv) # Bang /\ bang
  BY <1>2, <1>4 DEF WillSubtract
<1>6. \A i \in DOMAIN argv' : i + 1 \in WillUnite <=> i \in WillUnite'
  <2> SUFFICES ASSUME NEW i \in DOMAIN argv'
               PROVE  i + 1 \in WillUnite <=> i \in WillUnite'
    OBVIOUS
  <2>1. i \in Nat \ {0} /\ i + 1 \in DOMAIN argv
    BY <1>2
  <2>2. \A j \in 1 .. i : j \in DOMAIN argv' /\ argv'[j] = argv[j + 1]
    <3>1. Len(argv) \in Nat /\ DOMAIN argv' = 1 .. Len(argv) - 1
      BY <1>1
    <3>2. \A j \in 1 .. i : j \in DOMAIN argv'
      BY <2>1, <3>1
    <3> QED
      BY <1>2, <3>2
  <2>3. i \in WillUnite' <=> ~bang' /\ \A j \in 1 .. i : argv'[j] # Bang
    BY DEF WillUnite
  <2>4. i + 1 \in WillUnite <=> ~bang /\ \A j \in 1 .. i + 1 : argv[j] # Bang
    BY <2>1 DEF WillUnite
  <2>5. (\A j \in 1 .. i + 1 : argv[j] # Bang) <=>
          argv[1] # Bang /\ \A j \in 1 .. i : argv'[j] # Bang
    <3>1. \A j \in 1 .. i : j + 1 \in 1 .. i + 1
      BY <2>1
    <3>2. \A j \in 1 .. i + 1 : j = 1 \/ (j - 1 \in 1 .. i /\ (j - 1) + 1 = j)
      BY <2>1
    <3>3. 1 \in 1 .. i + 1
      BY <2>1
    <3> QED
      BY <2>2, <3>1, <3>2, <3>3
  <2> QED
    BY <1>2, <2>3, <2>4, <2>5
<1>7. \A i \in DOMAIN argv' : i + 1 \in WillSubtract <=> i \in WillSubtract'
  BY <1>2, <1>6 DEF WillSubtract
<1> QED
  BY <1>3, <1>4, <1>5, <1>6, <1>7

LEMMA CardSetIs ==
  CardSet = (ToSet(temp) \union ValuesAt(argv, WillUnite)) \ ValuesAt(argv, WillSubtract)
BY DEF CardSet, ValuesAt

\* Every argument that CARD takes does to the temporary bitmap what was still to
\* be done for it.
LEMMA CardTurnUnseen ==
  ASSUME Cardinality(Chunk) < KeyMod, IInv,
         CardBang \/ CardMissing \/ CardUnite \/ CardSubtract
  PROVE  Unseen
<1> DEFINE h == Head(argv)
           U == ValuesAt(argv, WillUnite)
           D == ValuesAt(argv, WillSubtract)
           V == ValuesAt(argv', WillUnite')
           E == ValuesAt(argv', WillSubtract')
<1>1. /\ AtCardArgument /\ NextCardArgument /\ pc = "card" /\ pc' = "card"
      /\ argv' = Tail(argv) /\ UNCHANGED keyspace /\ request' = request
  BY DEF CardBang, CardMissing, CardUnite, CardSubtract, AtCardArgument, NextCardArgument
<1>2. argv \in Seq(Key \union {Bang}) /\ argv # <<>>
  BY <1>1, SplitInv DEF LoopInv, AtCardArgument
<1>3. SoundBitmap(temp) /\ (h # Bang => h \in Key /\ SoundBitmap(bitmap[h]))
  BY <1>1, CardArgument
<1>4. \/ h = Bang /\ ~bang /\ bang'
      \/ h # Bang /\ keytype[h] # "foreign" /\ bang' = bang
  BY DEF CardBang, CardMissing, CardUnite, CardSubtract
<1>5. CardFails' <=> CardFails
  BY <1>1, <1>4, CardFailsTurn
<1>6. /\ WillUnite \in SUBSET DOMAIN argv /\ WillUnite' \in SUBSET DOMAIN argv'
      /\ WillSubtract \in SUBSET DOMAIN argv /\ WillSubtract' \in SUBSET DOMAIN argv'
      /\ \A i \in DOMAIN argv' : i + 1 \in WillUnite <=> i \in WillUnite'
      /\ \A i \in DOMAIN argv' : i + 1 \in WillSubtract <=> i \in WillSubtract'
      /\ 1 \in WillUnite <=> h # Bang /\ ~bang
      /\ 1 \in WillSubtract <=> h # Bang /\ bang
  BY <1>1, <1>4, PositionsTurn
<1>7. /\ U = (IF h # Bang /\ ~bang THEN ToSet(bitmap[h]) ELSE {}) \union V
      /\ D = (IF h # Bang /\ bang THEN ToSet(bitmap[h]) ELSE {}) \union E
  BY <1>1, <1>2, <1>6, ValuesAtTail
<1>8. bang => U = {}
  BY DEF ValuesAt, WillUnite
<1>9. (ValuesAt(argv, WillUnite))' = V /\ (ValuesAt(argv, WillSubtract))' = E
  BY <1>1 DEF ValuesAt, keyspace
<1>10. CardSet' = (ToSet(temp') \union V) \ E
  <2>1. CardSet' = (ToSet(temp') \union (ValuesAt(argv, WillUnite))')
                     \ (ValuesAt(argv, WillSubtract))'
    BY <1>1 DEF CardSet, ValuesAt
  <2> QED
    BY <1>9, <2>1
<1>11. CardSet = (ToSet(temp) \union U) \ D
  BY CardSetIs
<1> HIDE DEF U, D, V, E
<1>12. CardSet' = CardSet
  <2>1. CASE CardBang
    <3>1. temp' = temp /\ h = Bang
      BY <2>1 DEF CardBang
    <3> QED
      BY <1>7, <1>10, <1>11, <3>1
  <2>2. CASE CardMissing
    <3>1. temp' = temp /\ h # Bang /\ keytype[h] = "empty"
      BY <2>2 DEF CardMissing
    <3>2. ToSet(bitmap[h]) = {}
      BY <1>1, <1>3, <3>1, SplitInv, EmptyBitmapSound DEF StoreAtRest
    <3> QED
      BY <1>7, <1>10, <1>11, <3>1, <3>2
  <2>3. CASE CardUnite
    <3>1. temp' = OrInplace(temp, bitmap[h]) /\ h # Bang /\ ~bang
      BY <2>3 DEF CardUnite
    <3>2. ToSet(temp') = ToSet(temp) \union ToSet(bitmap[h])
      BY <1>3, <3>1, OrInplaceUnion
    <3> QED
      BY <1>7, <1>10, <1>11, <3>1, <3>2
  <2>4. CASE CardSubtract
    <3>1. temp' = AndNotInplace(temp, bitmap[h]) /\ h # Bang /\ bang
      BY <2>4 DEF CardSubtract
    <3>2. ToSet(temp') = ToSet(temp) \ ToSet(bitmap[h])
      BY <1>3, <3>1, AndNotInplaceSound
    <3>3. V = {}
      BY <1>7, <1>8, <3>1
    <3> QED
      BY <1>7, <1>10, <1>11, <3>1, <3>2, <3>3
  <2> QED
    BY <2>1, <2>2, <2>3, <2>4
<1>13. AnswerNow' = AnswerNow
  BY <1>1, <1>5, <1>12 DEF AnswerNow
<1> QED
  BY <1>1, <1>13, SameSets DEF Unseen

\* A second "!" or a key of another type: the call fails, as it was bound to.
LEMMA CardErrorMaps ==
  ASSUME IInv, CardError
  PROVE  Promise!Answer
<1>1. /\ AtCardArgument /\ pc = "card" /\ Return(Error) /\ UNCHANGED keyspace
      /\ \/ Head(argv) = Bang /\ bang
         \/ Head(argv) # Bang /\ keytype[Head(argv)] = "foreign"
  BY DEF CardError, AtCardArgument
<1>2. argv \in Seq(Key \union {Bang}) /\ argv # <<>>
  BY <1>1, SplitInv DEF LoopInv, AtCardArgument
<1>3. 1 \in DOMAIN argv /\ Head(argv) = argv[1]
  BY <1>2, TailPositions
<1>4. CardFails
  <2>1. CASE Head(argv) = Bang /\ bang
    <3>1. Cardinality({i \in DOMAIN argv : argv[i] = Bang}) > 0
      BY <1>2, <1>3, <2>1, CardFailsWhen
    <3> QED
      BY <2>1, <3>1 DEF CardFails, Bangs
  <2>2. CASE Head(argv) # Bang /\ keytype[Head(argv)] = "foreign"
    BY <1>3, <2>2 DEF CardFails, Bangs
  <2> QED
    BY <1>1, <2>1, <2>2
<1>5. AnswerNow = Error
  BY <1>1, <1>4 DEF AnswerNow
<1> QED
  BY <1>1, <1>5, ReturnMaps, PlainReplies

LEMMA BeginCountUnseen ==
  ASSUME IInv, BeginCount
  PROVE  Unseen
<1>1. /\ pc = "card" /\ pc' = "count" /\ argv = <<>> /\ temp' = temp
      /\ UNCHANGED keyspace /\ request' = request
  BY DEF BeginCount
<1>2. ~CardFails
  <2>1. DOMAIN argv = {} /\ Bangs = {}
    BY <1>1 DEF Bangs
  <2>2. Cardinality(Bangs) = 0
    BY <2>1, FS_EmptySet
  <2> QED
    BY <2>1, <2>2 DEF CardFails
<1>3. CardSet = ToSet(temp)
  BY <1>1 DEF CardSet, WillUnite, WillSubtract
<1>4. AnswerNow = Integer(Cardinality(ToSet(temp)))
  BY <1>1, <1>2, <1>3 DEF AnswerNow
<1>5. AnswerNow' = Integer(Cardinality(ToSet(temp)))
  BY <1>1 DEF AnswerNow
<1> QED
  BY <1>1, <1>4, <1>5, SameSets DEF Unseen

\* The keys that CARD will unite are those before the "!", and those that it will
\* subtract come behind it.
LEMMA CardPositions ==
  ASSUME NEW args \in Seq(Key \union {Bang}), argv' = args, ~bang', request.args = args,
         Cardinality({i \in DOMAIN args : args[i] = Bang}) <= 1
  PROVE  /\ Promise!Included = {args[i] : i \in WillUnite'}
         /\ Promise!Excluded = {args[i] : i \in WillSubtract'}
<1> DEFINE bangs == {i \in DOMAIN args : args[i] = Bang}
           before == {j \in DOMAIN args : \A b \in bangs : j < b}
           behind == {j \in DOMAIN args : \E b \in bangs : b < j}
<1>1. Len(args) \in Nat /\ DOMAIN args = 1 .. Len(args)
  OBVIOUS
<1>2. WillUnite' = {i \in DOMAIN args : \A j \in 1 .. i : args[j] # Bang}
  BY DEF WillUnite
<1>3. WillUnite' = before
  <2> SUFFICES ASSUME NEW i \in 1 .. Len(args)
               PROVE  (\A j \in 1 .. i : args[j] # Bang)
                        <=> \A b \in 1 .. Len(args) : args[b] = Bang => i < b
    BY <1>1, <1>2
  <2>1. \A b \in 1 .. Len(args) : b \in 1 .. i <=> ~(i < b)
    BY <1>1
  <2>2. \A j \in 1 .. i : j \in 1 .. Len(args)
    BY <1>1
  <2> QED
    BY <2>1, <2>2
<1>4. ~\E i, j \in DOMAIN args : i # j /\ args[i] = Bang /\ args[j] = Bang
  <2>1. IsFiniteSet(1 .. Len(args)) /\ bangs \in SUBSET (1 .. Len(args))
    BY <1>1, FS_Interval
  <2>2. IsFiniteSet(bangs) /\ Cardinality(bangs) \in Nat
    BY <2>1, FS_Subset, FS_CardinalityType
  <2>3. ~(Cardinality(bangs) > 1)
    BY <2>2
  <2> QED
    BY <2>3, CardFailsWhen
<1>5. WillSubtract' = {i \in DOMAIN args : args[i] # Bang} \ before
  BY <1>3 DEF WillSubtract
<1>6. WillSubtract' = behind
  <2> SUFFICES ASSUME NEW i \in 1 .. Len(args)
               PROVE  (/\ args[i] # Bang
                       /\ \E b \in 1 .. Len(args) : args[b] = Bang /\ ~(i < b))
                        <=> \E b \in 1 .. Len(args) : args[b] = Bang /\ b < i
    BY <1>1, <1>5
  <2>1. \A b \in 1 .. Len(args) : ~(i < b) <=> b < i \/ b = i
    BY <1>1
  <2>2. \A b \in 1 .. Len(args) : b < i => b # i
    BY <1>1
  <2> QED
    BY <1>1, <1>4, <2>1, <2>2
<1>7. Promise!Included = {args[i] : i \in before} /\ Promise!Excluded = {args[i] : i \in behind}
  BY DEF Promise!Included, Promise!Excluded, Promise!Bangs
<1> QED
  BY <1>3, <1>6, <1>7

\* CARD begins: it will fail, or count the union of the keys before the "!"
\* without the values of the keys behind it.
LEMMA BeginCardMaps ==
  ASSUME IInv, request.cmd = "card", BeginCard(request.args)
  PROVE  Promise!Refuse \/ Promise!Card
<1> DEFINE args == request.args
           I == {args[i] : i \in WillUnite'}
           X == {args[i] : i \in WillSubtract'}
           bangs == {i \in DOMAIN args : args[i] = Bang}
<1>1. /\ pc = "idle" /\ pc' = "card" /\ argv' = args /\ temp' = temp /\ bang' = bang
      /\ UNCHANGED keyspace /\ request' = NoRequest /\ args # <<>>
  BY DEF BeginCard
<1>2. StoreNow' = StoreNow /\ AlienNow' = AlienNow
  BY <1>1, SameSets
<1>3. args \in Seq(Key \union {Bang}) /\ \A i \in DOMAIN args : args[i] \in Key \union {Bang}
  <2>1. argv' \in Seq(Key \union {Bang})
    BY <1>1, RequestParts, BeginCardInv DEF IInv, TypeOK
  <2> QED
    BY <1>1, <2>1
<1>4. ~bang' /\ temp = EmptyBitmap
  BY <1>1, SplitInv DEF LoopInv
<1>5. Promise!Arguments = Elements(args) /\ Promise!Arguments # {}
  <2>1. 1 \in DOMAIN args
    BY <1>1, <1>3
  <2> QED
    BY <2>1 DEF Promise!Arguments, Elements
<1>6. Promise!Cardinality(bangs) = Cardinality(bangs)
  BY DEF Promise!Cardinality, Cardinality
<1>7. Promise!Malformed <=> Cardinality(bangs) > 1
  BY <1>5, <1>6 DEF Promise!Malformed, Promise!Bangs
<1>8. Promise!KeysNamed = Elements(args) \ {Bang}
  BY <1>5 DEF Promise!KeysNamed
<1>9. CardFails' <=> \/ \E i \in DOMAIN args : args[i] # Bang /\ keytype[args[i]] = "foreign"
                     \/ Cardinality(bangs) > 1
  <2>1. Bangs' = bangs
    BY <1>1 DEF Bangs
  <2> QED
    BY <1>1, <1>4, <2>1 DEF CardFails, keyspace
<1>10. CASE CardFails'
  <2>1. AnswerNow' = Error
    BY <1>1, <1>10 DEF AnswerNow
  <2>2. Promise!Malformed \/ Promise!KeysNamed \intersect AlienNow # {}
    <3>1. ASSUME NEW i \in DOMAIN args, args[i] # Bang, keytype[args[i]] = "foreign"
          PROVE  args[i] \in Promise!KeysNamed \intersect AlienNow
      BY <1>3, <1>8, <3>1 DEF AlienNow, Elements
    <3> QED
      BY <1>7, <1>9, <1>10, <3>1
  <2>3. Promise!Take
    BY <1>1, RequestTakenMaps
  <2> QED
    BY <1>2, <2>1, <2>2, <2>3 DEF Promise!Refuse, Promise!Error, Error, StoreNow, AlienNow
<1>11. CASE ~CardFails'
  <2>1. ~Promise!Malformed /\ Promise!KeysNamed \intersect AlienNow = {}
    <3>1. \A k \in Elements(args) \ {Bang} : keytype[k] # "foreign"
      BY <1>9, <1>11 DEF Elements
    <3> QED
      BY <1>7, <1>8, <1>9, <1>11, <3>1 DEF AlienNow
  <2>2. Promise!Serve("card")
    BY <1>1, <2>1, Served
  <2>3. Promise!Included = I /\ Promise!Excluded = X
    <3>1. IsFiniteSet(1 .. Len(args)) /\ bangs \in SUBSET (1 .. Len(args))
      BY <1>3, FS_Interval
    <3>2. Cardinality(bangs) \in Nat
      BY <3>1, FS_Subset, FS_CardinalityType
    <3>3. Cardinality(bangs) <= 1
      BY <1>9, <1>11, <3>2
    <3> QED
      BY <1>1, <1>3, <1>4, <3>3, CardPositions
  <2>4. /\ \A i \in WillUnite' : i \in DOMAIN args /\ args[i] # Bang
        /\ \A i \in WillSubtract' : i \in DOMAIN args /\ args[i] # Bang
    <3>1. \A i \in DOMAIN args : i \in 1 .. i
      BY <1>3
    <3> QED
      BY <1>1, <3>1 DEF WillUnite, WillSubtract
  <2>5. I \in SUBSET Key /\ X \in SUBSET Key
    BY <1>3, <2>4
  <2>6. ToSet(temp') = {}
    BY <1>1, <1>4, EmptyBitmapSound
  <2>7. CardSet' = Promise!SetsOf(I) \ Promise!SetsOf(X)
    <3>1. \A k \in Key : StoreNow[k] = ToSet(bitmap[k])
      BY <1>1, StoreOutsideWrites DEF StoreNow
    <3>2. /\ UNION {ToSet(bitmap'[argv'[i]]) : i \in WillUnite'} = UNION {StoreNow[k] : k \in I}
          /\ UNION {ToSet(bitmap'[argv'[i]]) : i \in WillSubtract'} = UNION {StoreNow[k] : k \in X}
      BY <1>1, <2>5, <3>1 DEF keyspace
    <3>3. CardSet' = (UNION {ToSet(bitmap'[argv'[i]]) : i \in WillUnite'})
                       \ (UNION {ToSet(bitmap'[argv'[i]]) : i \in WillSubtract'})
      BY <2>6 DEF CardSet
    <3> QED
      BY <3>2, <3>3 DEF Promise!SetsOf, StoreNow
  <2>8. AnswerNow' = Integer(Cardinality(CardSet'))
    BY <1>1, <1>11 DEF AnswerNow
  <2> HIDE DEF I, X
  <2>9. Promise!Cardinality(Promise!SetsOf(I) \ Promise!SetsOf(X)) = Cardinality(CardSet')
    BY <2>7 DEF Promise!Cardinality, Cardinality
  <2>10. Promise!Card
    BY <1>2, <2>2, <2>3, <2>7, <2>8, <2>9
    DEF Promise!Card, Promise!Int64, Integer, StoreNow, AlienNow
  <2> QED
    BY <2>10
<1> QED
  BY <1>10, <1>11

-----------------------------------------------------------------------------
(***************************************************************************)
(* The refinement.                                                         *)
(***************************************************************************)

LEMMA InitMaps == Init => Promise!Init
<1> SUFFICES ASSUME Init PROVE Promise!Init
  OBVIOUS
<1>1. /\ pc = "idle" /\ reply = NoReply /\ request = NoRequest
      /\ \A k \in Key : keytype[k] = "empty" /\ bitmap[k] = EmptyBitmap
  BY DEF Init
<1>2. \A k \in Key : SetNow(k) = {}
  BY <1>1, StoreOutsideWrites, EmptyBitmapSound
<1>3. AnswerNow = <<"none">>
  BY <1>1 DEF AnswerNow, NoReply
<1> QED
  BY <1>1, <1>2, <1>3 DEF Promise!Init, Promise!NoAnswer

LEMMA BeginCallMaps ==
  ASSUME NotInt \notin Asked, IInv, BeginCall
  PROVE  Promise!Next
<1> DEFINE k == request.key
           args == request.args
<1>1. CASE BeginAddOrRemove
  <2>1. request.cmd \in {"add", "remove"} /\ request.cmd # "none"
    BY <1>1 DEF BeginAddOrRemove
  <2>2. k \in Key /\ args \in ArgsOver(Argument, MaxValues)
    BY <2>1, RequestParts
  <2>3. CASE RefuseWrite(args)
    BY <2>1, <2>2, <2>3, WriteArguments, RefusalMaps DEF RefuseWrite, Promise!Next
  <2>4. CASE RefuseForeignWrite(k, args)
    BY <2>1, <2>2, <2>4, RefuseForeignMaps DEF RefuseForeignWrite, Promise!Next
  <2>5. CASE request.cmd = "remove" /\ RemoveFromMissing(k, args)
    BY <2>5, RemoveFromMissingMaps DEF Promise!Next
  <2>6. CASE BeginWrite(request.cmd, k, args)
    BY <2>1, <2>6, BeginWriteMaps DEF Promise!Next
  <2> QED
    BY <1>1, <2>3, <2>4, <2>5, <2>6 DEF BeginAddOrRemove
<1>2. CASE BeginCardCall
  <2>1. request.cmd = "card" /\ request.cmd # "none"
    BY <1>2 DEF BeginCardCall
  <2>2. CASE RefuseCard(args)
    <3>1. args = <<>> /\ AnswerAtOnce(Error)
      BY <2>2 DEF RefuseCard
    <3>2. Promise!Malformed
      BY <2>1, <3>1 DEF Promise!Malformed, Promise!Arguments
    <3> QED
      BY <2>1, <3>1, <3>2, RefusalMaps DEF Promise!Next
  <2>3. CASE BeginCard(args)
    BY <2>1, <2>3, BeginCardMaps DEF Promise!Next
  <2> QED
    BY <1>2, <2>2, <2>3 DEF BeginCardCall
<1>3. CASE BeginMembersCall
  <2>1. request.cmd = "members" /\ request.cmd # "none" /\ k \in Key
    BY <1>3, RequestParts DEF BeginMembersCall
  <2>2. CASE args # <<>> /\ RefuseArity
    BY <2>1, <2>2, RefusalMaps DEF RefuseArity, Promise!Malformed, Promise!Next
  <2>3. CASE args = <<>> /\ MembersOfMissing(k)
    BY <2>1, <2>3, MembersOfMissingMaps DEF Promise!Next
  <2>4. CASE RefuseForeignRead(k)
    BY <2>1, <2>4, RefuseForeignMaps DEF RefuseForeignRead, Promise!Next
  <2>5. CASE args = <<>> /\ BeginMembers(k)
    BY <2>1, <2>5, BeginMembersMaps DEF Promise!Next
  <2> QED
    BY <1>3, <2>2, <2>3, <2>4, <2>5 DEF BeginMembersCall
<1>4. CASE IsMemberCall
  <2>1. request.cmd = "ismember" /\ request.cmd # "none" /\ k \in Key
    BY <1>4, RequestParts DEF IsMemberCall
  <2>2. CASE Len(args) # 1 /\ RefuseArity
    <3>1. Promise!Malformed
      BY <2>1, <2>2 DEF Promise!Malformed
    <3> QED
      BY <2>1, <2>2, <3>1, RefusalMaps DEF RefuseArity, Promise!Next
  <2>3. CASE RefuseForeignRead(k)
    BY <2>1, <2>3, RefuseForeignMaps DEF RefuseForeignRead, Promise!Next
  <2>4. CASE Len(args) = 1 /\ IsMember(k, args[1])
    BY <2>1, <2>4, IsMemberMaps DEF Promise!Next
  <2> QED
    BY <1>4, <2>2, <2>3, <2>4 DEF IsMemberCall
<1> QED
  BY <1>1, <1>2, <1>3, <1>4 DEF BeginCall

LEMMA ContinueCallMaps ==
  ASSUME Cardinality(Chunk) < KeyMod, IInv, ContinueCall
  PROVE  Promise!Next \/ Unseen
<1>1. CASE AddValue \/ RemoveValue
  BY <1>1, WriteTurnUnseen
<1>2. CASE EndWrite \/ CardError \/ EndCard \/ EndMembers
  BY <1>2, EndWriteMaps, CardErrorMaps, EndCardMaps, EndMembersMaps DEF Promise!Next
<1>3. CASE CardBang \/ CardMissing \/ CardUnite \/ CardSubtract
  BY <1>3, CardTurnUnseen
<1>4. CASE BeginCount
  BY <1>4, BeginCountUnseen
<1>5. CASE CountContainer \/ SendLength \/ EmitMember
  BY <1>5, ReadTurnUnseen
<1> QED
  BY <1>1, <1>2, <1>3, <1>4, <1>5 DEF ContinueCall

LEMMA StutterUnseen ==
  ASSUME UNCHANGED vars
  PROVE  Unseen
<1>1. /\ UNCHANGED <<keytype, bitmap, pc, key, argv, bang, temp>>
      /\ UNCHANGED <<left, total, it, out, request, reply, replicated>>
  BY DEF vars, keyspace, locals
<1>2. \A k \in Key : SetNow(k)' = SetNow(k)
  BY <1>1 DEF SetNow
<1>3. (CardFails' <=> CardFails) /\ CardSet' = CardSet
  BY <1>1 DEF CardFails, CardSet, Bangs, WillUnite, WillSubtract
<1>4. AnswerNow' = AnswerNow
  BY <1>1, <1>3 DEF AnswerNow
<1> QED
  BY <1>1, <1>2, <1>4 DEF Unseen, StoreNow, AlienNow

\* Clients of the five commands observe a store of plain sets: each command takes
\* effect in one step, its answer is a function of the request and of the sets in the
\* state it began in, and nothing of the loops, the container types or the counters
\* shows.  As for UnionExactHolds, some container key must stay unused.  ISMEMBER must
\* be asked about integers: the run ismember_text shows what it answers otherwise.
THEOREM ImplementsSetsHolds ==
  ASSUME Cardinality(Chunk) < KeyMod, NotInt \notin Asked
  PROVE  Spec => ImplementsSets
<1>1. Init => Promise!Init
  BY InitMaps
<1>2. IInv /\ [Next]_vars => [Promise!Next]_(Promise!vars)
  <2> SUFFICES ASSUME IInv, [Next]_vars
               PROVE  Promise!Next \/ UNCHANGED Promise!vars
    OBVIOUS
  <2>0. CASE Commands
    BY <2>0, ReceiveMaps DEF Commands, Promise!Next
  <2>1. CASE BeginCall
    BY <2>1, BeginCallMaps
  <2>2. CASE ContinueCall
    BY <2>2, ContinueCallMaps, UnseenStutters
  <2>3. CASE OtherCommands
    BY <2>3, OtherCommandsMap DEF OtherCommands, Promise!Next
  <2>4. CASE UNCHANGED vars
    BY <2>4, StutterUnseen, UnseenStutters
  <2> QED
    BY <2>0, <2>1, <2>2, <2>3, <2>4 DEF Next
<1> QED
  BY <1>1, <1>2, Invariance, PTL DEF Spec, ImplementsSets, Promise!Spec

=============================================================================
