---------------------------- MODULE SharedBitmaps ----------------------------
(***************************************************************************)
(* The bitmaps of a program that turned copy-on-write on: several bitmaps, *)
(* their keys and the containers they hold, which copies share.  A call is *)
(* taken one turn of its loop at a time, with the memory it leaves after   *)
(* each turn; positions are 1-based, so pos > Len is the code's            *)
(* pos == length.                                                          *)
(***************************************************************************)
EXTENDS SharedContainers, SequencesExt

CONSTANTS
  Slots,         \* the bitmaps the program can have at once
  Width,         \* values of a container: 2^16 in the code
  Elements,      \* what the program adds and removes
  FlipRanges,    \* ranges <<start, end>> it flips, end excluded
  Flags          \* what it sets copy_on_write to

ASSUME SharedAssumption ==
  /\ Width \in Nat \ {0} /\ Elements \subseteq Nat /\ Flags \subseteq BOOLEAN
  /\ FlipRanges \subseteq {r \in Nat \X Nat : r[1] < r[2]}

VARIABLES memory, bitmaps, call
vars == <<memory, bitmaps, call>>

NoCall == [op |-> "none", stage |-> "idle", x1 |-> 0, x2 |-> 0, to |-> 0, pos1 |-> 1,
           pos2 |-> 1, size |-> 0, hb |-> 0, range |-> <<0, 0>>, expected |-> {}]

High(x) == x \div Width
Low(x) == x % Width
Lows == 0 .. Width - 1
Entry(key, c) == [key |-> key, c |-> c]
Empty(flag) == [cow |-> flag, entries |-> <<>>]

Live == DOMAIN bitmaps
Entries(b) == bitmaps[b].entries
Size(b) == Len(Entries(b))
KeyAt(b, i) == Entries(b)[i].key
At(b, i) == Entries(b)[i].c
Has(b, key) == \E i \in 1 .. Size(b) : KeyAt(b, i) = key

\* The position of the first key that is not below the one asked for.
IndexOf(b, key) ==
  Min({i \in 1 .. Size(b) : KeyAt(b, i) >= key} \union {Size(b) + 1})

\* ra_advance_until: never the position it starts from.
AdvanceUntil(b, key, pos) ==
  Min({i \in pos + 1 .. Size(b) : KeyAt(b, i) >= key} \union {Size(b) + 1})

Contents(b) ==
  UNION {{Width * KeyAt(b, i) + v : v \in ValuesAt(memory, At(b, i))} : i \in 1 .. Size(b)}

-----------------------------------------------------------------------------
\* Steps on the pair of the memory and the bitmaps.

State == [memory |-> memory, bitmaps |-> bitmaps]

\* Calls make bitmaps and take them away.
Made(to, flag) ==
  bitmaps' = [b \in Live \union {to} |-> IF b = to THEN Empty(flag) ELSE bitmaps[b]]

Gone(S) == bitmaps' = [b \in Live \ S |-> bitmaps[b]]

Become(s) == memory' = s.memory /\ bitmaps' = s.bitmaps

WithMemory(s, m) == [s EXCEPT !.memory = m]

Change(s, b, entries) == [s EXCEPT !.bitmaps[b].entries = entries]

Append1(s, b, key, c) == Change(s, b, Append(s.bitmaps[b].entries, Entry(key, c)))

SetAt(s, b, i, c) == [s EXCEPT !.bitmaps[b].entries[i].c = c]

\* A copy of one container, by which its own bitmap may come to hold a wrapper.
Sharing(s, from, i, got) ==
  [state |-> SetAt(WithMemory(s, got.memory), from, i, got.source), copy |-> got.copy]

CopyOf(s, from, i) ==
  Sharing(s, from, i,
          GetCopyOfContainer(s.memory, s.bitmaps[from].entries[i].c, s.bitmaps[from].cow))

\* ra_append_copy, ra_append_copy_range, ra_copy and ra_overwrite, for one container.
AppendCopy(s, to, from, i) ==
  LET shared == Sharing(s, from, i, AppendedCopy(s.memory, s.bitmaps[from].entries[i].c,
                                                 s.bitmaps[from].cow))
  IN  Append1(shared.state, to, s.bitmaps[from].entries[i].key, shared.copy)

-----------------------------------------------------------------------------
\* The course of a call.

Doing(op) == call.stage = "loop" /\ call.op = op

Done == call' = [call EXCEPT !.stage = "done"]

Move(pos1, pos2) == call' = [call EXCEPT !.pos1 = pos1, !.pos2 = pos2]

Key1 == KeyAt(call.x1, call.pos1)
Key2 == KeyAt(call.x2, call.pos2)
C1 == At(call.x1, call.pos1)
C2 == At(call.x2, call.pos2)
Left1 == call.pos1 <= Size(call.x1)
Left2 == call.pos2 <= Size(call.x2)
Meet == Left1 /\ Left2 /\ Key1 = Key2
Before == Left1 /\ Left2 /\ Key1 < Key2
After == Left1 /\ Left2 /\ Key1 > Key2
Values1 == ValuesAt(memory, C1)
Values2 == ValuesAt(memory, C2)
BothRead == Read(Read(memory, C1), C2)

\* A container computed from two others, of any type: kept unless it is empty.
AppendResult(S) ==
  \E kind \in Kinds :
    LET new == Allocate(BothRead, Key1, kind, S)
    IN  Become(IF S = {} THEN WithMemory(State, ContainerFree(new.memory, new.container))
               ELSE Append1(WithMemory(State, new.memory), call.to, Key1, new.container))

\* roaring_bitmap_and, from one pair of keys to the next.
AndTurn ==
  /\ Doing("and")
  /\ \/ Meet /\ AppendResult(Values1 \intersect Values2) /\ Move(call.pos1 + 1, call.pos2 + 1)
     \/ /\ Before /\ UNCHANGED <<memory, bitmaps>>
        /\ Move(AdvanceUntil(call.x1, Key2, call.pos1), call.pos2)
     \/ /\ After /\ UNCHANGED <<memory, bitmaps>>
        /\ Move(call.pos1, AdvanceUntil(call.x2, Key1, call.pos2))
     \/ ~(Left1 /\ Left2) /\ Done /\ UNCHANGED <<memory, bitmaps>>

\* What roaring_bitmap_or and roaring_bitmap_xor have in common: a key that only
\* one of the bitmaps has goes to the answer with a copy.
CopyTo(from, i) ==
  LET got == CopyOf(State, from, i)
  IN  Become(Append1(got.state, call.to, KeyAt(from, i), got.copy))

UniteTurn(S) ==
  \/ Meet /\ AppendResult(S) /\ Move(call.pos1 + 1, call.pos2 + 1)
  \/ Before /\ CopyTo(call.x1, call.pos1) /\ Move(call.pos1 + 1, call.pos2)
  \/ After /\ CopyTo(call.x2, call.pos2) /\ Move(call.pos1, call.pos2 + 1)
  \/ /\ ~Left1 /\ Left2 /\ Move(call.pos1, call.pos2 + 1)
     /\ Become(AppendCopy(State, call.to, call.x2, call.pos2))
  \/ /\ Left1 /\ ~Left2 /\ Move(call.pos1 + 1, call.pos2)
     /\ Become(AppendCopy(State, call.to, call.x1, call.pos1))
  \/ ~Left1 /\ ~Left2 /\ Done /\ UNCHANGED <<memory, bitmaps>>

OrTurn == Doing("or") /\ UniteTurn(Values1 \union Values2)

XorTurn == Doing("xor") /\ UniteTurn(SymDiff(Values1, Values2))

\* roaring_bitmap_andnot: the keys of x1 below the next one of x2 are copied.
AndNotTurn ==
  /\ Doing("andnot")
  /\ \/ Meet /\ AppendResult(Values1 \ Values2) /\ Move(call.pos1 + 1, call.pos2 + 1)
     \/ /\ (Before \/ (Left1 /\ ~Left2))
        /\ Become(AppendCopy(State, call.to, call.x1, call.pos1))
        /\ Move(call.pos1 + 1, call.pos2)
     \/ /\ After /\ UNCHANGED <<memory, bitmaps>>
        /\ Move(call.pos1, AdvanceUntil(call.x2, Key1, call.pos2))
     \/ ~Left1 /\ Done /\ UNCHANGED <<memory, bitmaps>>

\* roaring_bitmap_copy, and roaring_bitmap_overwrite once it has emptied dest.
CopyTurn ==
  /\ Doing("copy")
  /\ \/ /\ Left1 /\ Move(call.pos1 + 1, call.pos2)
        /\ Become(AppendCopy(State, call.to, call.x1, call.pos1))
     \/ ~Left1 /\ Done /\ UNCHANGED <<memory, bitmaps>>

\* The union of two lazy results, which it consumes: what both have is unshared
\* and united into one of the two containers, the rest moves to the answer.
ConsumeTurn ==
  LET first  == ExtractCopy(memory, C1)
      second == ExtractCopy(first.memory, C2)
      S      == ValuesAt(second.memory, first.container)
                  \union ValuesAt(second.memory, second.container)
  IN
  /\ Doing("consume")
  /\ \/ /\ Meet /\ Move(call.pos1 + 1, call.pos2 + 1)
        /\ \E r \in InPlace(Read(second.memory, second.container), first.container, S) :
             Become(Append1(WithMemory(State, ContainerFree(r.memory, second.container)),
                            call.to, Key1, r.container))
     \/ /\ (Before \/ (Left1 /\ ~Left2))
        /\ Become(Append1(State, call.to, Key1, C1)) /\ Move(call.pos1 + 1, call.pos2)
     \/ /\ (After \/ (~Left1 /\ Left2))
        /\ Become(Append1(State, call.to, Key2, C2)) /\ Move(call.pos1, call.pos2 + 1)
     \/ /\ ~Left1 /\ ~Left2 /\ memory' = memory
        /\ Gone({call.x1, call.x2})
        /\ call' = [NoCall EXCEPT !.op = "convert", !.stage = "loop", !.x1 = call.to,
                                  !.to = call.to, !.expected = call.expected]

-----------------------------------------------------------------------------
\* Operations that change x1.

\* Writes the container at the position, which the bitmap takes for itself first.
Written(c, other, S(_, _)) ==
  LET own == ExtractCopy(memory, c)
      m   == IF other = {} THEN own.memory ELSE Read(own.memory, C2)
  IN  InPlace(m, own.container,
              S(ValuesAt(m, own.container), IF other = {} THEN {} ELSE ValuesAt(m, C2)))

ValuesOf(r) == ValuesAt(r.memory, r.container)

\* Mutant: x1 is cut to the places kept, with what is left of it unmoved.
ShiftedNot(entries, first, size) ==
  SubSeq(entries, 1, size + Len(entries) - first + 1)

\* The places kept, and what is left of x1 slid down to them.
Shifted(entries, first, size) ==
  SubSeq(entries, 1, size) \o SubSeq(entries, first, Len(entries))

\* What roaring_bitmap_and_inplace keeps goes to the first size places.
KeepOrFree(r) ==
  IF ValuesOf(r) = {}
  THEN /\ Become(WithMemory(State, ContainerFree(r.memory, r.container)))
       /\ call' = [call EXCEPT !.pos1 = @ + 1, !.pos2 = @ + 1]
  ELSE /\ Become([WithMemory(State, r.memory) EXCEPT
                    !.bitmaps[call.x1].entries[call.size + 1] = Entry(Key1, r.container)])
       /\ call' = [call EXCEPT !.pos1 = @ + 1, !.pos2 = @ + 1, !.size = @ + 1]

AndInplaceTurn ==
  /\ Doing("and_inplace")
  /\ \/ /\ Meet
        /\ \E r \in Written(C1, {call.x2}, LAMBDA A, B : A \intersect B) : KeepOrFree(r)
     \/ /\ (Before \/ (Left1 /\ ~Left2))
        /\ Become(WithMemory(State, ContainerFree(memory, C1))) /\ Move(call.pos1 + 1, call.pos2)
     \/ /\ After /\ UNCHANGED <<memory, bitmaps>>
        /\ Move(call.pos1, AdvanceUntil(call.x2, Key1, call.pos2))
     \/ /\ ~Left1 /\ Done
        /\ Become(Change(State, call.x1, SubSeq(Entries(call.x1), 1, call.size)))

\* What is left of x1 once x2 has no more keys slides to the places kept.
AndNotInplaceTurn ==
  /\ Doing("andnot_inplace")
  /\ \/ Meet /\ \E r \in Written(C1, {call.x2}, LAMBDA A, B : A \ B) : KeepOrFree(r)
     \/ /\ Before /\ memory' = memory
        /\ bitmaps' = [bitmaps EXCEPT ![call.x1].entries[call.size + 1] = Entry(Key1, C1)]
        /\ call' = [call EXCEPT !.pos1 = @ + 1, !.size = @ + 1]
     \/ /\ After /\ UNCHANGED <<memory, bitmaps>>
        /\ Move(call.pos1, AdvanceUntil(call.x2, Key1, call.pos2))
     \/ /\ ~(Left1 /\ Left2) /\ Done
        /\ Become(Change(State, call.x1, Shifted(Entries(call.x1), call.pos1, call.size)))

\* What roaring_bitmap_or_inplace and roaring_bitmap_xor_inplace have in common: a
\* key that x1 lacks comes with a copy of x2's container.
TakeOver ==
  \/ /\ Before /\ UNCHANGED <<memory, bitmaps>> /\ Move(call.pos1 + 1, call.pos2)
  \/ /\ After /\ Move(call.pos1 + 1, call.pos2 + 1)
     /\ LET got == CopyOf(State, call.x2, call.pos2)
        IN  Become(Change(got.state, call.x1,
                          InsertAt(got.state.bitmaps[call.x1].entries, call.pos1,
                                   Entry(Key2, got.copy))))
  \/ /\ ~Left1 /\ Left2 /\ Move(call.pos1 + 1, call.pos2 + 1)
     /\ Become(AppendCopy(State, call.x1, call.x2, call.pos2))
  \/ ~Left2 /\ Done /\ UNCHANGED <<memory, bitmaps>>

\* A full container stays as it is, shared or not.
OrInplaceTurn ==
  /\ Doing("or_inplace")
  /\ \/ /\ Meet /\ Move(call.pos1 + 1, call.pos2 + 1)
        /\ IF Values1 = Lows THEN Become(WithMemory(State, Read(memory, C1)))
           ELSE \E r \in Written(C1, {call.x2}, LAMBDA A, B : A \union B) :
                  Become(SetAt(WithMemory(State, r.memory), call.x1, call.pos1, r.container))
     \/ TakeOver

XorInplaceTurn ==
  /\ Doing("xor_inplace")
  /\ \/ /\ Meet
        /\ \E r \in Written(C1, {call.x2}, SymDiff) :
             IF ValuesOf(r) = {}
             THEN /\ Move(call.pos1, call.pos2 + 1)
                  /\ Become(Change(WithMemory(State, ContainerFree(r.memory, r.container)),
                                   call.x1, RemoveAt(Entries(call.x1), call.pos1)))
             ELSE /\ Move(call.pos1 + 1, call.pos2 + 1)
                  /\ Become(SetAt(WithMemory(State, r.memory), call.x1, call.pos1,
                                  r.container))
     \/ TakeOver

\* run_optimize, and the repair of a lazy result: every container is taken out of
\* its wrapper, then kept or replaced.
ConvertTurn ==
  /\ Doing("convert")
  /\ \/ /\ Left1 /\ Move(call.pos1 + 1, call.pos2)
        /\ \E r \in Written(C1, {}, LAMBDA A, B : A) :
             Become(SetAt(WithMemory(State, r.memory), call.x1, call.pos1, r.container))
     \/ ~Left1 /\ Done /\ UNCHANGED <<memory, bitmaps>>

\* roaring_bitmap_remove_run_compression: the conversion frees the run container,
\* and a wrapper of it is freed after that.
RemoveRunCompressionTurn ==
  LET inner == Unwrap(memory, C1)
      new   == Allocate(Read(memory, C1), KeyAt(call.x1, call.pos1), "plain", Values1)
      freed == Free(new.memory, inner)
  IN
  /\ Doing("remove_run_compression")
  /\ \/ /\ Left1 /\ Move(call.pos1 + 1, call.pos2)
        /\ Become(IF inner.type # "run" THEN State
                  ELSE SetAt(WithMemory(State, IF C1.type = "shared"
                                               THEN ContainerFree(freed, C1) ELSE freed),
                             call.x1, call.pos1, new.container))
     \/ ~Left1 /\ Done /\ UNCHANGED <<memory, bitmaps>>

\* roaring_bitmap_free.
FreeTurn ==
  /\ Doing("free")
  /\ \/ /\ Left1 /\ Move(call.pos1 + 1, call.pos2)
        /\ Become(WithMemory(State, ContainerFree(memory, C1)))
     \/ ~Left1 /\ Done /\ memory' = memory /\ Gone({call.x1})

-----------------------------------------------------------------------------
\* Flips, one key of the range after the other.

FlippedLows(hb) ==
  {v \in Lows : Width * hb + v \in call.range[1] .. call.range[2] - 1}

LastKey == High(call.range[2] - 1)

NextKey == call' = [call EXCEPT !.hb = @ + 1]

\* The keys outside the range are copied, those below it first.
FlipTurn ==
  /\ Doing("flip")
  /\ \/ /\ Left1 /\ (Key1 < call.hb \/ call.hb > LastKey)
        /\ Become(AppendCopy(State, call.to, call.x1, call.pos1))
        /\ Move(call.pos1 + 1, call.pos2)
     \/ /\ call.hb <= LastKey /\ Left1 /\ Key1 = call.hb
        /\ \E kind \in Kinds :
             LET S   == SymDiff(Values1, FlippedLows(call.hb))
                 new == Allocate(Read(memory, C1), call.hb, kind, S)
             IN  Become(IF S = {} THEN WithMemory(State, ContainerFree(new.memory, new.container))
                        ELSE Append1(WithMemory(State, new.memory), call.to, call.hb,
                                     new.container))
        /\ call' = [call EXCEPT !.hb = @ + 1, !.pos1 = @ + 1]
     \/ /\ call.hb <= LastKey /\ ~(Left1 /\ Key1 <= call.hb) /\ NextKey
        /\ \E kind \in Kinds :
             LET new == Allocate(memory, call.hb, kind, FlippedLows(call.hb))
             IN  Become(Append1(WithMemory(State, new.memory), call.to, call.hb,
                                new.container))
     \/ call.hb > LastKey /\ ~Left1 /\ Done /\ UNCHANGED <<memory, bitmaps>>

FlipInplaceTurn ==
  LET i == IndexOf(call.x1, call.hb)
  IN
  /\ Doing("flip_inplace")
  /\ \/ /\ call.hb <= LastKey /\ Has(call.x1, call.hb) /\ NextKey
        /\ \E r \in Written(At(call.x1, i), {},
                            LAMBDA A, B : SymDiff(A, FlippedLows(call.hb))) :
             Become(IF ValuesOf(r) = {}
                    THEN Change(WithMemory(State, ContainerFree(r.memory, r.container)),
                                call.x1, RemoveAt(Entries(call.x1), i))
                    ELSE SetAt(WithMemory(State, r.memory), call.x1, i, r.container))
     \/ /\ call.hb <= LastKey /\ ~Has(call.x1, call.hb) /\ NextKey
        /\ \E kind \in Kinds :
             LET new == Allocate(memory, call.hb, kind, FlippedLows(call.hb))
             IN  Become(Change(WithMemory(State, new.memory), call.x1,
                               InsertAt(Entries(call.x1), i, Entry(call.hb, new.container))))
     \/ call.hb > LastKey /\ Done /\ UNCHANGED <<memory, bitmaps>>

-----------------------------------------------------------------------------
\* The calls a program may make, and what each is to leave in its target.

Idle == call.stage = "idle"

Enter(op, x1, x2, to, expected) ==
  [NoCall EXCEPT !.op = op, !.stage = "loop", !.x1 = x1, !.x2 = x2, !.to = to,
                 !.expected = expected]

Result(op, A, B) ==
  CASE op \in {"and", "and_inplace"} -> A \intersect B
    [] op \in {"or", "or_inplace", "consume"} -> A \union B
    [] op \in {"xor", "xor_inplace"} -> SymDiff(A, B)
    [] op \in {"andnot", "andnot_inplace"} -> A \ B

\* An empty argument makes some of them a copy of the other one.
Combine ==
  \E op \in {"and", "or", "xor", "andnot"}, x1 \in Live, x2 \in Live, to \in Slots \ Live :
    LET Begin(what, x) ==
          call' = Enter(what, x, x2, to, Result(op, Contents(x1), Contents(x2)))
    IN  /\ Idle /\ memory' = memory
        /\ Made(to, bitmaps[x1].cow /\ bitmaps[x2].cow)
        /\ IF op \in {"or", "xor"} /\ Size(x1) = 0 THEN Begin("copy", x2)
           ELSE IF op # "and" /\ Size(x2) = 0 THEN Begin("copy", x1)
           ELSE Begin(op, x1)

\* The same bitmap twice is for roaring_bitmap_and_inplace only.
CombineInplace ==
  \E op \in {"and_inplace", "or_inplace", "xor_inplace", "andnot_inplace"},
     x1 \in Live, x2 \in Live :
    LET Begin(what, y1, y2) ==
          call' = Enter(what, y1, y2, x1, Result(op, Contents(x1), Contents(x2)))
    IN  /\ Idle /\ UNCHANGED <<memory, bitmaps>>
        /\ IF x1 = x2 THEN op = "and_inplace" /\ call' = [Enter(op, x1, x2, x1, Contents(x1))
                                                        EXCEPT !.stage = "done"]
           ELSE IF op \in {"or_inplace", "xor_inplace"} /\ Size(x1) = 0
             THEN Begin("copy", x2, 0)
           ELSE Begin(op, x1, x2)

\* The flag of the answer is false; when an argument is empty it is the other one.
Consume ==
  \E x1 \in Live, x2 \in Live, to \in Slots \ Live :
    /\ Idle /\ memory' = memory /\ x1 # x2 /\ Size(x1) # 0 /\ Size(x2) # 0
    /\ Made(to, FALSE)
    /\ call' = Enter("consume", x1, x2, to,
                     Result("consume", Contents(x1), Contents(x2)))

Copy ==
  \E x1 \in Live, to \in Slots \ Live :
    /\ Idle /\ memory' = memory
    /\ Made(to, bitmaps[x1].cow)
    /\ call' = Enter("copy", x1, 0, to, Contents(x1))

Rewrite ==
  \E op \in {"convert", "remove_run_compression"}, x1 \in Live :
    /\ Idle /\ UNCHANGED <<memory, bitmaps>> /\ call' = Enter(op, x1, 0, x1, Contents(x1))

FreeBitmap ==
  \E x1 \in Live :
    Idle /\ UNCHANGED <<memory, bitmaps>> /\ call' = Enter("free", x1, 0, x1, {})

FlipCall(op, x1, to, range) ==
  call' = [Enter(op, x1, 0, to, SymDiff(Contents(x1), range[1] .. range[2] - 1))
             EXCEPT !.hb = High(range[1]), !.range = range]

Flip ==
  \E x1 \in Live, range \in FlipRanges :
    \/ \E to \in Slots \ Live :
         /\ Idle /\ memory' = memory /\ FlipCall("flip", x1, to, range)
         /\ Made(to, bitmaps[x1].cow)
    \/ Idle /\ FlipCall("flip_inplace", x1, x1, range) /\ UNCHANGED <<memory, bitmaps>>

\* Calls that have no loop.
Finish(op, x1, expected) == call' = [Enter(op, x1, 0, x1, expected) EXCEPT !.stage = "done"]

Create ==
  \E to \in Slots \ Live :
    /\ Idle /\ memory' = memory /\ Finish("create", to, {})
    /\ Made(to, FALSE)

AddValue ==
  \E x1 \in Live, x \in Elements :
    LET i == IndexOf(x1, High(x))
    IN  /\ Idle /\ Finish("add", x1, Contents(x1) \union {x})
        /\ IF Has(x1, High(x))
           THEN \E r \in Written(At(x1, i), {}, LAMBDA A, B : A \union {Low(x)}) :
                  Become(SetAt(WithMemory(State, r.memory), x1, i, r.container))
           ELSE LET new == Allocate(memory, High(x), "plain", {Low(x)})
                IN  Become(Change(WithMemory(State, new.memory), x1,
                                  InsertAt(Entries(x1), i, Entry(High(x), new.container))))

RemoveValue ==
  \E x1 \in Live, x \in Elements :
    LET i == IndexOf(x1, High(x))
    IN  /\ Idle /\ Finish("remove", x1, Contents(x1) \ {x})
        /\ IF ~Has(x1, High(x)) THEN UNCHANGED <<memory, bitmaps>>
           ELSE \E r \in Written(At(x1, i), {}, LAMBDA A, B : A \ {Low(x)}) :
                  Become(IF ValuesOf(r) = {}
                         THEN Change(WithMemory(State, ContainerFree(r.memory, r.container)),
                                     x1, RemoveAt(Entries(x1), i))
                         ELSE SetAt(WithMemory(State, r.memory), x1, i, r.container))

-----------------------------------------------------------------------------
\* Between calls every container is named after the bitmaps that have it, as addresses
\* mean nothing, and the program sets the flags as it likes.

Holders(at) ==
  {b \in Live : \E i \in 1 .. Size(b) : at \in {At(b, i).at, Unwrap(memory, At(b, i)).at}}

Renamed(at) == Address(at.key, 0, Holders(at), at.what)

RenamedPointer(c) == Pointer(Renamed(c.at), c.type)

Held == {a \in DOMAIN memory.objects : Holders(a) # {}}

RenamedObject(object) ==
  IF object.kind = "shared" THEN [object EXCEPT !.inner = RenamedPointer(@)] ELSE object

Return ==
  /\ call.stage = "done" /\ call' = NoCall /\ ~memory.misused
  /\ memory' = [memory EXCEPT !.objects =
       [a \in {Renamed(h) : h \in Held} |->
          RenamedObject(memory.objects[CHOOSE h \in Held : Renamed(h) = a])]]
  /\ \E flags \in [Live -> Flags] :
       bitmaps' = [b \in Live |->
         [cow |-> flags[b],
          entries |-> [i \in 1 .. Size(b) |-> Entry(KeyAt(b, i), RenamedPointer(At(b, i)))]]]

Init == memory = NoMemory /\ bitmaps = <<>> /\ call = NoCall

Turn ==
  \/ AndTurn \/ OrTurn \/ XorTurn \/ AndNotTurn \/ CopyTurn \/ ConsumeTurn
  \/ AndInplaceTurn \/ OrInplaceTurn \/ XorInplaceTurn \/ AndNotInplaceTurn
  \/ ConvertTurn \/ RemoveRunCompressionTurn \/ FlipTurn \/ FlipInplaceTurn \/ FreeTurn

Next ==
  \/ Combine \/ CombineInplace \/ Consume \/ Copy \/ Rewrite \/ Flip
  \/ Create \/ AddValue \/ RemoveValue \/ FreeBitmap \/ Turn \/ Return

Spec == Init /\ [][Next]_vars

-----------------------------------------------------------------------------
AtRest == call.stage \in {"idle", "done"}

Pairs == UNION {{<<b, i>> : i \in 1 .. Size(b)} : b \in Live}

\* How many bitmaps and wrappers lead to an object.
References(at) ==
  Cardinality({p \in Pairs : At(p[1], p[2]).at = at})
  + Cardinality({a \in DOMAIN memory.objects :
                   memory.objects[a].kind = "shared" /\ memory.objects[a].inner.at = at})

\* No call ever reads, writes or frees a container that has been freed, nor takes it
\* for one of another type than it is, whatever was copied, written and freed before.
NoMisuse == ~memory.misused

\* Between calls the counter of a shared container is the number of bitmaps that
\* hold it, so that the last one to let go of it frees it; any other container is
\* held once; and what is held is what its typecode says.  So nothing leaks.
CountersExact ==
  AtRest =>
    /\ \A p \in Pairs : Fits(memory, At(p[1], p[2]))
    /\ \A a \in DOMAIN memory.objects :
         IF memory.objects[a].kind = "shared"
         THEN /\ memory.objects[a].counter = References(a) /\ References(a) > 0
              /\ Fits(memory, memory.objects[a].inner)
         ELSE References(a) = 1

\* A call leaves its target with the values that the operation promises of its
\* arguments as they were when it began, under increasing keys and none of them empty.
AnswerExact ==
  call.stage = "done" /\ call.op # "free" =>
    /\ Contents(call.to) = call.expected
    /\ \A i \in 1 .. Size(call.to) : ValuesAt(memory, At(call.to, i)) # {}
    /\ \A i \in 2 .. Size(call.to) : KeyAt(call.to, i - 1) < KeyAt(call.to, i)

\* No step of a call changes what any other bitmap contains, though the arguments
\* may come to hold wrappers: writing to a bitmap is never seen through a copy.
Touched(c) == {c.to} \union (IF c.op = "consume" THEN {c.x1, c.x2} ELSE {})

OthersUntouched ==
  [][\A b \in Live \ (Touched(call) \union Touched(call')) :
       b \in Live' /\ Contents(b)' = Contents(b)]_vars

=============================================================================
