--------------------------- MODULE RoaringCommands --------------------------
(***************************************************************************)
(* The five commands of roaring/module.c over the keyspace of one server.  *)
(*                                                                         *)
(* The server runs one command at a time.  A command is a call in progress *)
(* whose loops take one step per turn: per value for ADD and REMOVE, per   *)
(* key for CARD, per container for the cardinality that CARD and MEMBERS   *)
(* compute, per value that MEMBERS emits.  Everything a handler does       *)
(* before its loop, its early returns included, is the step that begins    *)
(* the call.  What the client asked is state until then.                   *)
(***************************************************************************)
EXTENDS Bitmaps, Sequences

CONSTANTS
  Key,        \* key names
  Bang,       \* the argument "!" of CARD, which is not a key name
  NotInt,     \* an argument that StringToLongLong refuses
  HighWord,   \* upper halves of the 64-bit integers that clients send
  Asked,      \* arguments in use that clients ask ISMEMBER about
  NoKey,      \* no call in progress
  MaxValues,  \* bound on the values of an ADD or REMOVE
  MaxNames    \* bound on the arguments of a CARD

ASSUME CommandAssumption ==
  /\ Bang \notin Key
  /\ NoKey \notin Key
  /\ NotInt \notin HighWord \X Chunk \X Low
  /\ KeyMod - 1 \in Chunk
  /\ MaxValues \in Nat
  /\ MaxNames \in Nat
  /\ Asked \subseteq {NotInt} \union (HighWord \X Chunk \X Low)

VARIABLES
  keytype,    \* RedisModule_KeyType and ModuleTypeGetType of every key
  bitmap,     \* the bitmap of every key of the module's type
  pc,         \* what the server is doing: "idle" or a loop of a handler
  key,        \* the key that the call has open
  argv,       \* the arguments that the loop has not come to yet
  bang,       \* bang_found
  temp,       \* the bitmap that a read command builds or walks
  left,       \* containers not yet counted by roaring_bitmap_get_cardinality
  total,      \* and the count so far
  it,         \* value under the iterator, <<>> at its end
  out,        \* values that MEMBERS has emitted
  request,    \* the command that a client has sent and the server not begun
  reply,      \* reply to the last call, none while a call runs
  replicated  \* whether the last call ended in ReplicateVerbatim

keyspace == <<keytype, bitmap>>
locals   == <<key, argv, bang, temp, left, total, it, out>>
vars     == <<keyspace, pc, locals, request, reply, replicated>>

Integer64 == HighWord \X Chunk \X Low

Argument == {NotInt} \union Integer64

ArgsOver(S, n) == UNION {[1 .. m -> S] : m \in 0 .. n}

\* What clients send: the command, its key and its other arguments (all arguments
\* of CARD are keys or "!").  MEMBERS takes none and ISMEMBER one.
Requests ==
  [cmd : {"add", "remove"}, key : Key, args : ArgsOver(Argument, MaxValues)]
    \union [cmd : {"card"}, key : {NoKey}, args : ArgsOver(Key \union {Bang}, MaxNames)]
    \union [cmd : {"members", "ismember"}, key : Key, args : ArgsOver(Asked, 2)]

NoRequest == [cmd |-> "none", key |-> NoKey, args |-> <<>>]

\* Mutant: without the cast the container key is whatever is left of the integer.
TruncateNothing(a) == <<a[1] * KeyMod + a[2], a[3]>>

\* The cast to uint32_t drops the upper half.
Truncate(a) == <<a[2], a[3]>>

MaxValue == <<KeyMod - 1, ChunkSize - 1>>

Integer(n)  == <<"integer", n>>
Array(n, s) == <<"array", n, s>>
Error       == <<"error">>
NoReply     == <<"none">>

Elements(s) == {s[i] : i \in DOMAIN s}

Init ==
  /\ keytype = [k \in Key |-> "empty"]
  /\ bitmap = [k \in Key |-> EmptyBitmap]
  /\ pc = "idle"
  /\ key = NoKey
  /\ argv = <<>>
  /\ bang = FALSE
  /\ temp = EmptyBitmap
  /\ left = {}
  /\ total = 0
  /\ it = <<>>
  /\ out = <<>>
  /\ request = NoRequest
  /\ reply = NoReply
  /\ replicated = FALSE

\* A client sends its next command once the last one has been answered.
Receive(r) ==
  /\ pc = "idle"
  /\ request = NoRequest
  /\ request' = r
  /\ reply' = NoReply
  /\ UNCHANGED <<keyspace, pc, locals, replicated>>

\* The handler returns: its locals and the request it was called with are gone.
Return(r) ==
  /\ pc' = "idle"
  /\ key' = NoKey
  /\ argv' = <<>>
  /\ bang' = FALSE
  /\ temp' = EmptyBitmap
  /\ left' = {}
  /\ total' = 0
  /\ it' = <<>>
  /\ out' = <<>>
  /\ request' = NoRequest
  /\ reply' = r

\* A call that is answered at once and changes nothing.
AnswerAtOnce(r) ==
  /\ pc = "idle"
  /\ Return(r)
  /\ replicated' = FALSE
  /\ UNCHANGED keyspace

-----------------------------------------------------------------------------
(***************************************************************************)
(* ROARING.ADD and ROARING.REMOVE (_cmdAddOrRemove).                       *)
(***************************************************************************)

AllIntegers(args) == NotInt \notin Elements(args)

WellFormedArgs(args) == args # <<>> /\ AllIntegers(args)

\* Too few arguments, or one of them is no integer: nothing is opened yet.
RefuseWrite(args) == ~WellFormedArgs(args) /\ AnswerAtOnce(Error)

RefuseForeignWrite(k, args) ==
  /\ WellFormedArgs(args)
  /\ keytype[k] = "foreign"
  /\ AnswerAtOnce(Error)

RemoveFromMissing(k, args) ==
  /\ WellFormedArgs(args)
  /\ keytype[k] = "empty"
  /\ AnswerAtOnce(Integer(1))

BeginWrite(cmd, k, args) ==
  /\ pc = "idle"
  /\ WellFormedArgs(args)
  /\ keytype[k] = "roaring" \/ (keytype[k] = "empty" /\ cmd = "add")
  /\ keytype' = [keytype EXCEPT ![k] = "roaring"]
  /\ bitmap' = [bitmap EXCEPT ![k] = IF keytype[k] = "empty" THEN EmptyBitmap ELSE @]
  /\ pc' = cmd
  /\ key' = k
  /\ argv' = [i \in DOMAIN args |-> Truncate(args[i])]
  /\ request' = NoRequest
  /\ reply' = NoReply
  /\ UNCHANGED <<bang, temp, left, total, it, out, replicated>>

AddValue ==
  /\ pc = "add"
  /\ argv # <<>>
  /\ bitmap' = [bitmap EXCEPT ![key] = BitmapAdd(@, Head(argv))]
  /\ argv' = Tail(argv)
  /\ UNCHANGED <<keytype, pc, key, bang, temp, left, total, it, out, request, reply, replicated>>

\* Mutant: a value that is absent is passed over without taking the next one.
RemoveValueStalls ==
  /\ pc = "remove"
  /\ argv # <<>>
  /\ bitmap' = [bitmap EXCEPT ![key] = BitmapRemove(@, Head(argv))]
  /\ argv' = IF Contains(bitmap[key], Head(argv)) THEN Tail(argv) ELSE argv
  /\ UNCHANGED <<keytype, pc, key, bang, temp, left, total, it, out, request, reply, replicated>>

RemoveValue ==
  /\ pc = "remove"
  /\ argv # <<>>
  /\ bitmap' = [bitmap EXCEPT ![key] = BitmapRemove(@, Head(argv))]
  /\ argv' = Tail(argv)
  /\ UNCHANGED <<keytype, pc, key, bang, temp, left, total, it, out, request, reply, replicated>>

\* Mutant: the key outlives its last value.
EndWriteKeepsKey ==
  /\ pc \in {"add", "remove"}
  /\ argv = <<>>
  /\ replicated' = TRUE
  /\ Return(Integer(1))
  /\ UNCHANGED keyspace

\* Mutant: REMOVE deletes its key whatever is left in the bitmap.
EndWriteDeletesAlways ==
  /\ pc \in {"add", "remove"}
  /\ argv = <<>>
  /\ keytype' = [keytype EXCEPT ![key] = IF pc = "remove" THEN "empty" ELSE @]
  /\ replicated' = TRUE
  /\ Return(Integer(1))
  /\ UNCHANGED bitmap

\* A key whose bitmap has lost its last value is deleted.
EndWrite ==
  /\ pc \in {"add", "remove"}
  /\ argv = <<>>
  /\ keytype' = [keytype EXCEPT ![key] =
       IF pc = "remove" /\ IsEmpty(bitmap[key]) THEN "empty" ELSE @]
  /\ replicated' = TRUE
  /\ Return(Integer(1))
  /\ UNCHANGED bitmap

-----------------------------------------------------------------------------
(***************************************************************************)
(* ROARING.CARD (cmdCard).                                                 *)
(***************************************************************************)

RefuseCard(args) == args = <<>> /\ AnswerAtOnce(Error)

BeginCard(args) ==
  /\ pc = "idle"
  /\ args # <<>>
  /\ pc' = "card"
  /\ argv' = args
  /\ request' = NoRequest
  /\ reply' = NoReply
  /\ UNCHANGED <<keyspace, key, bang, temp, left, total, it, out, replicated>>

AtCardArgument == pc = "card" /\ argv # <<>>

NextCardArgument ==
  /\ argv' = Tail(argv)
  /\ UNCHANGED <<keyspace, pc, key, left, total, it, out, request, reply, replicated>>

CardBang ==
  /\ AtCardArgument
  /\ Head(argv) = Bang
  /\ ~bang
  /\ bang' = TRUE
  /\ UNCHANGED temp
  /\ NextCardArgument

\* A second "!", or a key that holds something else, ends the call.
CardError ==
  /\ AtCardArgument
  /\ \/ Head(argv) = Bang /\ bang
     \/ Head(argv) # Bang /\ keytype[Head(argv)] = "foreign"
  /\ Return(Error)
  /\ replicated' = FALSE
  /\ UNCHANGED keyspace

CardMissing ==
  /\ AtCardArgument
  /\ Head(argv) # Bang
  /\ keytype[Head(argv)] = "empty"
  /\ UNCHANGED <<bang, temp>>
  /\ NextCardArgument

CardUnite ==
  /\ AtCardArgument
  /\ Head(argv) # Bang
  /\ keytype[Head(argv)] = "roaring"
  /\ ~bang
  /\ temp' = OrInplace(temp, bitmap[Head(argv)])
  /\ UNCHANGED bang
  /\ NextCardArgument

CardSubtract ==
  /\ AtCardArgument
  /\ Head(argv) # Bang
  /\ keytype[Head(argv)] = "roaring"
  /\ bang
  /\ temp' = AndNotInplace(temp, bitmap[Head(argv)])
  /\ UNCHANGED bang
  /\ NextCardArgument

BeginCount ==
  /\ pc = "card"
  /\ argv = <<>>
  /\ pc' = "count"
  /\ left' = DOMAIN temp
  /\ UNCHANGED <<keyspace, key, argv, bang, temp, total, it, out, request, reply, replicated>>

\* One turn of roaring_bitmap_get_cardinality, for CARD and for MEMBERS.
CountContainer ==
  /\ pc \in {"count", "size"}
  /\ left # {}
  /\ total' = total + temp[Least(left)].card
  /\ left' = left \ {Least(left)}
  /\ UNCHANGED <<keyspace, pc, key, argv, bang, temp, it, out, request, reply, replicated>>

EndCard ==
  /\ pc = "count"
  /\ left = {}
  /\ Return(Integer(total))
  /\ replicated' = FALSE
  /\ UNCHANGED keyspace

-----------------------------------------------------------------------------
(***************************************************************************)
(* ROARING.MEMBERS (cmdMembers) and ROARING.ISMEMBER (cmdIsMember).        *)
(***************************************************************************)

\* Both take a fixed number of arguments.
RefuseArity == AnswerAtOnce(Error)

MembersOfMissing(k) == keytype[k] = "empty" /\ AnswerAtOnce(Array(0, <<>>))

RefuseForeignRead(k) == keytype[k] = "foreign" /\ AnswerAtOnce(Error)

BeginMembers(k) ==
  /\ pc = "idle"
  /\ keytype[k] = "roaring"
  /\ pc' = "size"
  /\ key' = k
  /\ temp' = bitmap[k]
  /\ left' = DOMAIN bitmap[k]
  /\ request' = NoRequest
  /\ reply' = NoReply
  /\ UNCHANGED <<keyspace, argv, bang, total, it, out, replicated>>

\* The length of the array is sent before its elements.
SendLength ==
  /\ pc = "size"
  /\ left = {}
  /\ pc' = "emit"
  /\ it' = CreateIterator(temp)
  /\ UNCHANGED <<keyspace, key, argv, bang, temp, left, total, out, request, reply, replicated>>

EmitMember ==
  /\ pc = "emit"
  /\ it # <<>>
  /\ out' = Append(out, it)
  /\ it' = AdvanceIterator(temp, it)
  /\ UNCHANGED <<keyspace, pc, key, argv, bang, temp, left, total, request, reply, replicated>>

EndMembers ==
  /\ pc = "emit"
  /\ it = <<>>
  /\ Return(Array(total, out))
  /\ replicated' = FALSE
  /\ UNCHANGED keyspace

\* Mutant: without the cast a value beyond 32 bits is sought where none is stored.
IsMemberUncast(a) == IF a = NotInt THEN MaxValue ELSE TruncateNothing(a)

\* The result of StringToLongLong is not looked at: an argument that is no
\* integer leaves value at -1, which the cast turns into 0xFFFFFFFF.
IsMemberValue(a) == IF a = NotInt THEN MaxValue ELSE Truncate(a)

IsMember(k, a) ==
  /\ keytype[k] # "foreign"
  /\ AnswerAtOnce(Integer(
       IF keytype[k] = "roaring" /\ Contains(bitmap[k], IsMemberValue(a)) THEN 1 ELSE 0))

-----------------------------------------------------------------------------
(***************************************************************************)
(* Other commands of the server on the same keys: SET and the like store a *)
(* value of another type, DEL, expiry and eviction remove the key.  The    *)
(* server frees the bitmap that was there (RoaringFree).                   *)
(***************************************************************************)

Overwrite(k) ==
  /\ pc = "idle"
  /\ keytype' = [keytype EXCEPT ![k] = "foreign"]
  /\ bitmap' = [bitmap EXCEPT ![k] = EmptyBitmap]
  /\ UNCHANGED <<pc, locals, request, reply, replicated>>

Delete(k) ==
  /\ pc = "idle"
  /\ keytype' = [keytype EXCEPT ![k] = "empty"]
  /\ bitmap' = [bitmap EXCEPT ![k] = EmptyBitmap]
  /\ UNCHANGED <<pc, locals, request, reply, replicated>>

-----------------------------------------------------------------------------
(***************************************************************************)
(* The server: it dispatches a request by its name, and runs the handler   *)
(* to its return before anything else.                                     *)
(***************************************************************************)

BeginAddOrRemove ==
  /\ request.cmd \in {"add", "remove"}
  /\ \/ RefuseWrite(request.args)
     \/ RefuseForeignWrite(request.key, request.args)
     \/ request.cmd = "remove" /\ RemoveFromMissing(request.key, request.args)
     \/ BeginWrite(request.cmd, request.key, request.args)

BeginCardCall ==
  /\ request.cmd = "card"
  /\ RefuseCard(request.args) \/ BeginCard(request.args)

BeginMembersCall ==
  /\ request.cmd = "members"
  /\ \/ request.args # <<>> /\ RefuseArity
     \/ /\ request.args = <<>>
        /\ \/ MembersOfMissing(request.key)
           \/ RefuseForeignRead(request.key)
           \/ BeginMembers(request.key)

IsMemberCall ==
  /\ request.cmd = "ismember"
  /\ \/ Len(request.args) # 1 /\ RefuseArity
     \/ /\ Len(request.args) = 1
        /\ \/ RefuseForeignRead(request.key)
           \/ IsMember(request.key, request.args[1])

BeginCall == BeginAddOrRemove \/ BeginCardCall \/ BeginMembersCall \/ IsMemberCall

ContinueCall ==
  \/ AddValue \/ RemoveValue \/ EndWrite
  \/ CardBang \/ CardError \/ CardMissing \/ CardUnite \/ CardSubtract
  \/ BeginCount \/ CountContainer \/ EndCard
  \/ SendLength \/ EmitMember \/ EndMembers

Commands == \E r \in Requests : Receive(r)

OtherCommands == \E k \in Key : Overwrite(k) \/ Delete(k)

Next == Commands \/ BeginCall \/ ContinueCall \/ OtherCommands

\* The server's event loop comes to every client that has sent a command, and a
\* handler runs to its return; nothing makes a client send another command.
Spec == Init /\ [][Next]_vars /\ WF_vars(BeginCall \/ ContinueCall)

-----------------------------------------------------------------------------
(***************************************************************************)
(* Properties.                                                             *)
(***************************************************************************)

CallName == {"idle", "add", "remove", "card", "count", "size", "emit"}

\* Every variable keeps its type: key types and bitmaps per key, remaining
\* arguments of the kind that the running loop expects, loop state of the others.
TypeOK ==
  /\ keytype \in [Key -> {"empty", "roaring", "foreign"}]
  /\ bitmap = [k \in Key |-> bitmap[k]]
  /\ \A k \in Key : IsBitmap(bitmap[k])
  /\ pc \in CallName
  /\ key \in Key \union {NoKey}
  /\ pc \in {"add", "remove"} => key \in Key /\ argv \in Seq(Value)
  /\ pc = "card" => argv \in Seq(Key \union {Bang})
  /\ pc \notin {"add", "remove", "card"} => argv = <<>>
  /\ bang \in BOOLEAN
  /\ IsBitmap(temp)
  /\ left \subseteq DOMAIN temp
  /\ total \in Nat
  /\ it \in Value \union {<<>>}
  /\ out \in Seq(Value)
  /\ request \in Requests \union {NoRequest}
  /\ replicated \in BOOLEAN

\* Every stored bitmap is what the rest of the code takes for granted: no empty
\* container, a stored cardinality equal to the number of bits, arrays of at most
\* DEFAULT_MAX_SIZE values and bitsets of more.  add_many and remove keep it so
\* value by value, in the middle of a call as well.
StoredCanonical == \A k \in Key : Canonical(bitmap[k])

\* The bitmap that CARD builds by in-place unions and differences keeps the same
\* representation invariant, through every pair of container types it merges.
TempWellFormed == WellFormedBitmap(temp)

\* Between calls no key of the module's type holds an empty bitmap: ADD never
\* leaves one behind and REMOVE deletes the key with its last value.
NoEmptyKey == pc = "idle" => \A k \in Key : keytype[k] = "roaring" => ~IsEmpty(bitmap[k])

Ascending(s) == \A i, j \in DOMAIN s : i < j => Precedes(s[i], s[j])

\* The array reply of MEMBERS is well formed: the length announced from the
\* stored cardinalities, before the iterator has run, is the number of values
\* that the iterator then emits, and they come in strictly increasing order.
MembersReplyExact ==
  reply[1] = "array" => Len(reply[3]) = reply[2] /\ Ascending(reply[3])

\* roaring_bitmap_get_cardinality never looks at a bit: at every turn its sum of
\* stored cardinalities is the number of values in the containers it has passed.
CountExact ==
  pc \in {"count", "size", "emit"} =>
    total = Cardinality({v \in ToSet(temp) : HighBits(v) \notin left})

\* What every turn of a loop may rely on.  A write call works on a bitmap of the
\* module's type, and only that bitmap may be empty for the moment; MEMBERS has
\* emitted exactly the values before its iterator, in order; CARD begins with no
\* "!" seen and with nothing left in its bitmap by an earlier call.
CallInvariant ==
  /\ pc # "idle" => request = NoRequest
  /\ \A k \in Key : keytype[k] # "roaring" => bitmap[k] = EmptyBitmap
  /\ \A k \in Key : keytype[k] = "roaring" /\ IsEmpty(bitmap[k]) =>
       /\ k = key
       /\ pc = "remove" \/ (pc = "add" /\ argv # <<>>)
  /\ pc \in {"add", "remove"} => keytype[key] = "roaring"
  /\ pc \in {"idle", "add", "remove"} => temp = EmptyBitmap /\ bang = FALSE
  /\ pc \notin {"count", "size"} => left = {}
  /\ pc \notin {"count", "size", "emit"} => total = 0
  /\ pc # "emit" => it = <<>> /\ out = <<>>
  /\ pc = "emit" =>
       /\ it # <<>> => it \in ToSet(temp)
       /\ Elements(out) = {v \in ToSet(temp) : it # <<>> => Precedes(v, it)}
       /\ Ascending(out)

\* The inductive invariant.
IInv ==
  /\ TypeOK
  /\ StoredCanonical
  /\ TempWellFormed
  /\ CallInvariant
  /\ CountExact
  /\ MembersReplyExact

\* Each key that CARD includes adds exactly its values to the temporary bitmap:
\* roaring_bitmap_or_inplace computes the union, for any containers it meets.
UnionExact ==
  [][CardUnite => ToSet(temp') = ToSet(temp) \union ToSet(bitmap[Head(argv)])]_vars

\* Each key that CARD excludes takes away exactly its values, whatever types of
\* containers earlier unions and differences have left in the temporary bitmap.
DifferenceExact ==
  [][CardSubtract => ToSet(temp') = ToSet(temp) \ ToSet(bitmap[Head(argv)])]_vars

\* Every command that a client sends is answered, whatever other clients do to its
\* keys before it begins: the loops over arguments, containers and values end.
CallsReturn == request # NoRequest \/ pc # "idle" ~> request = NoRequest /\ pc = "idle"

(***************************************************************************)
(* The commands implement SetKeyspace.  A call takes effect, and its answer*)
(* is settled, when it begins: what it still has to do is added to the     *)
(* state it has reached.                                                   *)
(***************************************************************************)

SetNow(k) ==
  CASE pc = "add"    /\ k = key -> ToSet(bitmap[k]) \union Elements(argv)
    [] pc = "remove" /\ k = key -> ToSet(bitmap[k]) \ Elements(argv)
    [] OTHER                    -> ToSet(bitmap[k])

\* Positions of argv that CARD will unite, and those that it will subtract.
WillUnite == {i \in DOMAIN argv : ~bang /\ \A j \in 1 .. i : argv[j] # Bang}

WillSubtract == {i \in DOMAIN argv : argv[i] # Bang} \ WillUnite

Bangs == {i \in DOMAIN argv : argv[i] = Bang}

CardFails ==
  \/ \E i \in DOMAIN argv \ Bangs : keytype[argv[i]] = "foreign"
  \/ Cardinality(Bangs) > IF bang THEN 0 ELSE 1

CardSet ==
  (ToSet(temp) \union UNION {ToSet(bitmap[argv[i]]) : i \in WillUnite})
    \ UNION {ToSet(bitmap[argv[i]]) : i \in WillSubtract}

AnswerNow ==
  CASE pc \in {"add", "remove"} -> Integer(1)
    [] pc = "card"              -> IF CardFails THEN Error ELSE Integer(Cardinality(CardSet))
    [] pc = "count"             -> Integer(Cardinality(ToSet(temp)))
    [] pc \in {"size", "emit"}  -> <<"members", ToSet(temp)>>
    [] pc = "idle"              -> IF reply[1] = "array"
                                   THEN <<"members", Elements(reply[3])>> ELSE reply

\* A command is about the low halves of the integers it is given.
LowHalf == [a \in Integer64 |-> <<a[2], a[3]>>]

Promise == INSTANCE SetKeyspace WITH
  Named   <- LowHalf,
  Request <- Requests,
  store   <- [k \in Key |-> SetNow(k)],
  alien   <- {k \in Key : keytype[k] = "foreign"},
  answer  <- AnswerNow,
  pending <- pc # "idle"

\* Every answer of the five commands is the one that a store of plain sets gives to
\* the same request, as a function of its key and its arguments: no intermediate
\* state of a loop, no container conversion, no left-over of an earlier call and no
\* other value than the one asked about shows in it.
ImplementsSets == Promise!Spec

\* What the comment on cmdIsMember says it does, "Checks if the bitmap has the value":
\* it answers 1 only when its argument names a value that the bitmap has.
IsMemberHasValue ==
  [][IsMemberCall /\ reply' = Integer(1) =>
       /\ request.args[1] \in Integer64
       /\ LowHalf[request.args[1]] \in ToSet(bitmap[request.key])]_vars

=============================================================================
