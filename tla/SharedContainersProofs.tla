------------------------ MODULE SharedContainersProofs ----------------------
(***************************************************************************)
(* What the operations on containers make of a memory whose containers are *)
(* shared, and of the bitmaps that hold them, for any number of objects,   *)
(* bitmaps and container keys: each leaves a sound account of the values,  *)
(* in which every shared container counts its holders and every other one  *)
(* has a single holder.                                                    *)
(***************************************************************************)
EXTENDS SharedBitmaps, Recursion, SequenceTheorems

-----------------------------------------------------------------------------
(***************************************************************************)
(* Memory, and what holds the objects in it.                               *)
(***************************************************************************)

\* A function with one more point, or another value at one.
Put(f, x, y) == [z \in DOMAIN f \union {x} |-> IF z = x THEN y ELSE f[z]]

\* A function without the points X.
Cut(f, X) == [z \in DOMAIN f \ X |-> f[z]]

\* Memory with the objects o in which nothing has been misused.
Mem(o) == [objects |-> o, misused |-> FALSE]

\* What objects, pointers and wrappers are, for any number of containers.
Addresses == [key : Nat, n : Nat, holders : SUBSET Slots, what : {"container", "wrapper"}]
Plain == [at : Addresses, type : Kinds]
Pointers == [at : Addresses, type : Kinds \union {"shared"}]
Objects == [kind : Kinds, values : SUBSET Lows]
Wrappers == [kind : {"shared"}, inner : Plain, counter : Nat]

\* A holder is a bitmap together with a key; h gives the container each holder has.
HoldersOf(h, a) == {p \in DOMAIN h : h[p].at = a}

\* The types of the objects and of the holders, finitely many of each.
Typed(o, h) ==
  /\ IsFiniteSet(DOMAIN o) /\ DOMAIN o \subseteq Addresses
  /\ o \in [DOMAIN o -> Objects \union Wrappers]
  /\ IsFiniteSet(DOMAIN h) /\ h \in [DOMAIN h -> Pointers]

\* What a holder has is what its typecode says.
HolderSound(o, c, key) ==
  c.at \in DOMAIN o /\ o[c.at].kind = c.type /\ c.at.key = key

\* A wrapper is counted once for each holder, and is there for a container.
WrapperSound(o, h, a) ==
  /\ o[a] \in Wrappers
  /\ a = WrapperAddress(o[a].inner.at)
  /\ o[a].inner.at.what = "container" /\ o[a].inner.at \in DOMAIN o
  /\ o[o[a].inner.at].kind = o[a].inner.type
  /\ HoldersOf(h, a) # {} /\ o[a].counter = Cardinality(HoldersOf(h, a))

\* A container is either wrapped or held once.
ContainerSound(o, h, a) ==
  /\ o[a] \in Objects
  /\ IF WrapperAddress(a) \in DOMAIN o THEN HoldersOf(h, a) = {}
     ELSE \E p \in DOMAIN h : HoldersOf(h, a) = {p}

\* The invariant of memory: holders, wrappers and counters fit each other.
Sound(o, h) ==
  /\ Typed(o, h)
  /\ \A p \in DOMAIN h : HolderSound(o, h[p], p[2])
  /\ \A a \in DOMAIN o : a.what = "wrapper" => WrapperSound(o, h, a)
  /\ \A a \in DOMAIN o : a.what = "container" => ContainerSound(o, h, a)

\* The values of what is held.
Inner(o, c) == IF c.type = "shared" THEN o[c.at].inner ELSE c

\* The values of what a holder has, those of all holders together.
Part(o, c) == o[Inner(o, c).at].values
Parts(o, h) == [p \in DOMAIN h |-> Part(o, h[p])]

LEMMA WrapperOf ==
  ASSUME NEW a \in Addresses
  PROVE  /\ WrapperAddress(a) \in Addresses /\ WrapperAddress(a).what = "wrapper"
         /\ WrapperAddress(a).key = a.key
BY DEF Addresses, WrapperAddress

LEMMA WrappersApart ==
  ASSUME NEW a \in Addresses,
         NEW b \in Addresses, a.what = "container", b.what = "container",
         WrapperAddress(a) = WrapperAddress(b)
  PROVE  a = b
<1> DEFINE w == WrapperAddress(a)
           v == WrapperAddress(b)
<1>1. w.key = a.key /\ w.n = a.n /\ w.holders = a.holders
  BY DEF Addresses, WrapperAddress
<1>2. v.key = b.key /\ v.n = b.n /\ v.holders = b.holders
  BY DEF Addresses, WrapperAddress
<1> QED
  BY <1>1, <1>2 DEF Addresses

LEMMA HoldersPut ==
  ASSUME NEW h, NEW q, NEW c, NEW a
  PROVE  HoldersOf(Put(h, q, c), a) =
           (HoldersOf(h, a) \ {q}) \union (IF c.at = a THEN {q} ELSE {})
BY DEF HoldersOf, Put

LEMMA HoldersCut ==
  ASSUME NEW h, NEW X, NEW a
  PROVE  HoldersOf(Cut(h, X), a) = HoldersOf(h, a) \ X
BY DEF HoldersOf, Cut

\* What is at an address that is held.
LEMMA HeldIs ==
  ASSUME NEW o, NEW h, Sound(o, h), NEW p \in DOMAIN h
  PROVE  /\ h[p] \in Pointers /\ h[p].at \in DOMAIN o /\ h[p].at \in Addresses
         /\ o[h[p].at].kind = h[p].type /\ h[p].at.key = p[2] /\ p \in HoldersOf(h, h[p].at)
         /\ h[p].type = "shared" =>
              /\ h[p].at.what = "wrapper" /\ WrapperSound(o, h, h[p].at)
              /\ o[h[p].at].inner \in Plain /\ o[h[p].at].counter \in Nat \ {0}
         /\ h[p].type # "shared" =>
              /\ h[p].at.what = "container" /\ ContainerSound(o, h, h[p].at)
              /\ h[p].type \in Kinds /\ o[h[p].at] \in Objects
              /\ WrapperAddress(h[p].at) \notin DOMAIN o /\ HoldersOf(h, h[p].at) = {p}
<1> DEFINE c == h[p]
           a == c.at
<1>1. c \in Pointers /\ a \in DOMAIN o /\ a \in Addresses /\ o[a].kind = c.type /\ a.key = p[2]
  BY DEF Sound, Typed, HolderSound, Pointers
<1>2. p \in HoldersOf(h, a)
  BY DEF HoldersOf
<1>3. a.what \in {"container", "wrapper"}
  BY <1>1 DEF Addresses
<1>4. a.what = "wrapper" => WrapperSound(o, h, a)
  BY <1>1 DEF Sound
<1>5. a.what = "container" => ContainerSound(o, h, a)
  BY <1>1 DEF Sound
<1> HIDE DEF c, a
<1>6. CASE c.type = "shared"
  <2>1. a.what # "container"
    <3> SUFFICES ASSUME a.what = "container" PROVE FALSE
      OBVIOUS
    <3>1. o[a] \in Objects
      BY <1>5 DEF ContainerSound
    <3> QED
      BY <1>1, <1>6, <3>1, KindsAssumption DEF Objects
  <2>2. WrapperSound(o, h, a) /\ o[a] \in Wrappers
    BY <1>3, <1>4, <2>1 DEF WrapperSound
  <2>3. o[a].inner \in Plain /\ o[a].counter \in Nat
    BY <2>2 DEF Wrappers
  <2>4. o[a].counter # 0
    <3>1. IsFiniteSet(HoldersOf(h, a)) /\ HoldersOf(h, a) # {}
      <4>1. HoldersOf(h, a) \subseteq DOMAIN h /\ IsFiniteSet(DOMAIN h)
        BY DEF HoldersOf, Sound, Typed
      <4> QED
        BY <1>2, <4>1, FS_Subset
    <3> QED
      BY <2>2, <3>1, FS_EmptySet DEF WrapperSound
  <2> QED
    BY <1>1, <1>2, <1>3, <1>6, <2>1, <2>2, <2>3, <2>4 DEF c, a
<1>7. CASE c.type # "shared"
  <2>1. a.what # "wrapper"
    <3> SUFFICES ASSUME a.what = "wrapper" PROVE FALSE
      OBVIOUS
    <3>1. o[a] \in Wrappers
      BY <1>4 DEF WrapperSound
    <3> QED
      BY <1>1, <1>7, <3>1 DEF Wrappers
  <2>2. ContainerSound(o, h, a) /\ o[a] \in Objects
    BY <1>3, <1>5, <2>1 DEF ContainerSound
  <2>3. c.type \in Kinds
    BY <1>1, <1>7 DEF Pointers
  <2>4. WrapperAddress(a) \notin DOMAIN o /\ HoldersOf(h, a) = {p}
    BY <1>2, <2>2 DEF ContainerSound
  <2> QED
    BY <1>1, <1>2, <1>3, <1>7, <2>1, <2>2, <2>3, <2>4 DEF c, a
<1> QED
  BY <1>6, <1>7

-----------------------------------------------------------------------------
(***************************************************************************)
(* Single changes to the memory and its holders.                           *)
(***************************************************************************)

\* An address at which there is nothing, nor a wrapper for it.
Unused(o, a) ==
  /\ a \in Addresses /\ a.what = "container"
  /\ a \notin DOMAIN o /\ WrapperAddress(a) \notin DOMAIN o

LEMMA HeldInside ==
  ASSUME NEW o, NEW h, Sound(o, h), NEW a, a \notin DOMAIN o
  PROVE  HoldersOf(h, a) = {}
BY DEF Sound, HolderSound, HoldersOf

\* A new container for a new holder.
LEMMA PutNew ==
  ASSUME NEW o, NEW h, Sound(o, h), NEW q, q \notin DOMAIN h, NEW a,
         Unused(o, a), a.key = q[2],
         NEW kind \in Kinds, NEW S \in SUBSET Lows
  PROVE  LET o2 == Put(o, a, Object(kind, S))  h2 == Put(h, q, Pointer(a, kind))
         IN  Sound(o2, h2) /\ Parts(o2, h2) = Put(Parts(o, h), q, S)
<1> DEFINE x == Object(kind, S)
           c == Pointer(a, kind)
           o2 == Put(o, a, x)
           h2 == Put(h, q, c)
<1>1. x \in Objects /\ x.kind = kind /\ x.values = S
  BY DEF Object, Objects
<1>2. c \in Pointers /\ c.at = a /\ c.type = kind /\ kind # "shared"
  BY KindsAssumption DEF Pointer, Pointers, Unused
<1>3. DOMAIN o2 = DOMAIN o \union {a} /\ o2[a] = x /\ \A b \in DOMAIN o : b # a /\ o2[b] = o[b]
  BY DEF Put, Unused
<1>4. DOMAIN h2 = DOMAIN h \union {q} /\ h2[q] = c /\ \A p \in DOMAIN h : p # q /\ h2[p] = h[p]
  BY DEF Put
<1>5. \A b : HoldersOf(h2, b) = (HoldersOf(h, b) \ {q}) \union (IF c.at = b THEN {q} ELSE {})
  BY HoldersPut
<1> HIDE DEF x, c, o2, h2
<1>6. \A b \in DOMAIN o : HoldersOf(h2, b) = HoldersOf(h, b)
  <2>1. \A b : q \notin HoldersOf(h, b)
    BY DEF HoldersOf
  <2> QED
    BY <1>2, <1>3, <1>5, <2>1
<1>7. HoldersOf(h2, a) = {q}
  <2>1. HoldersOf(h, a) = {}
    BY HeldInside DEF Unused
  <2> QED
    BY <1>2, <1>5, <2>1
<1>8. Typed(o2, h2)
  <2>1. IsFiniteSet(DOMAIN o2) /\ IsFiniteSet(DOMAIN h2)
    BY <1>3, <1>4, FS_AddElement DEF Sound, Typed
  <2>2. DOMAIN o2 \subseteq Addresses
    BY <1>3 DEF Sound, Typed, Unused
  <2>3. o2 \in [DOMAIN o2 -> Objects \union Wrappers]
    <3>1. o2 = [b \in DOMAIN o2 |-> o2[b]]
      BY DEF o2, Put
    <3>2. \A b \in DOMAIN o2 : o2[b] \in Objects \union Wrappers
      BY <1>1, <1>3 DEF Sound, Typed
    <3> QED
      BY <3>1, <3>2
  <2>4. h2 \in [DOMAIN h2 -> Pointers]
    <3>1. h2 = [p \in DOMAIN h2 |-> h2[p]]
      BY DEF h2, Put
    <3>2. \A p \in DOMAIN h2 : h2[p] \in Pointers
      BY <1>2, <1>4 DEF Sound, Typed
    <3> QED
      BY <3>1, <3>2
  <2> QED
    BY <2>1, <2>2, <2>3, <2>4 DEF Typed
<1>9. ASSUME NEW p \in DOMAIN h2 PROVE HolderSound(o2, h2[p], p[2])
  <2>1. CASE p = q
    BY <1>1, <1>2, <1>3, <1>4, <2>1 DEF HolderSound
  <2>2. CASE p \in DOMAIN h
    BY <1>3, <1>4, <2>2 DEF HolderSound, Sound
  <2> QED
    BY <1>4, <2>1, <2>2
<1>10. ASSUME NEW b \in DOMAIN o2, b.what = "wrapper" PROVE WrapperSound(o2, h2, b)
  <2>1. b \in DOMAIN o
    BY <1>3, <1>10 DEF Unused
  <2>2. WrapperSound(o, h, b)
    BY <1>10, <2>1 DEF Sound
  <2> QED
    BY <1>3, <1>6, <2>1, <2>2 DEF WrapperSound
<1>11. ASSUME NEW b \in DOMAIN o2, b.what = "container" PROVE ContainerSound(o2, h2, b)
  <2>1. CASE b = a
    <3>1. WrapperAddress(a) \notin DOMAIN o2
      BY <1>3, WrapperOf DEF Unused
    <3> QED
      BY <1>1, <1>3, <1>4, <1>7, <2>1, <3>1 DEF ContainerSound
  <2>2. CASE b \in DOMAIN o
    <3>1. ContainerSound(o, h, b)
      BY <1>11, <2>2 DEF Sound
    <3>2. WrapperAddress(b) \in DOMAIN o2 <=> WrapperAddress(b) \in DOMAIN o
      <4>1. b \in Addresses
        BY <2>2 DEF Sound, Typed
      <4>2. WrapperAddress(b) # a
        BY <4>1, WrapperOf DEF Unused
      <4> QED
        BY <1>3, <4>2
    <3> QED
      BY <1>3, <1>4, <1>6, <2>2, <3>1, <3>2 DEF ContainerSound
  <2> QED
    BY <1>3, <2>1, <2>2
<1>12. Sound(o2, h2)
  BY <1>8, <1>9, <1>10, <1>11 DEF Sound
<1>13. Parts(o2, h2) = Put(Parts(o, h), q, S)
  <2>1. DOMAIN Parts(o, h) = DOMAIN h
    BY DEF Parts
  <2>2. Part(o2, h2[q]) = S
    BY <1>1, <1>2, <1>3, <1>4 DEF Part, Inner
  <2>3. ASSUME NEW p \in DOMAIN h PROVE Part(o2, h2[p]) = Parts(o, h)[p]
    <3>1. Inner(o, h[p]).at \in DOMAIN o /\ Inner(o2, h2[p]) = Inner(o, h[p])
      BY <1>3, <1>4, HeldIs DEF Inner, WrapperSound
    <3>2. Parts(o, h)[p] = Part(o, h[p])
      BY DEF Parts
    <3> QED
      BY <1>3, <3>1, <3>2 DEF Part
  <2> QED
    BY <1>4, <2>1, <2>2, <2>3 DEF Parts, Put
<1> QED
  BY <1>12, <1>13 DEF o2, h2, x, c

\* The types of what is changed.
LEMMA TypedPut ==
  ASSUME NEW o, NEW h, Typed(o, h), NEW a \in Addresses, NEW x \in Objects \union Wrappers
  PROVE  Typed(Put(o, a, x), h)
<1> DEFINE o2 == Put(o, a, x)
<1>1. DOMAIN o2 = DOMAIN o \union {a} /\ \A b \in DOMAIN o2 : o2[b] = IF b = a THEN x ELSE o[b]
  BY DEF Put
<1>2. IsFiniteSet(DOMAIN o2)
  BY <1>1, FS_AddElement DEF Typed
<1>3. o2 = [b \in DOMAIN o2 |-> o2[b]]
  BY DEF Put
<1>4. \A b \in DOMAIN o2 : o2[b] \in Objects \union Wrappers
  BY <1>1 DEF Typed
<1> HIDE DEF o2
<1> QED
  BY <1>1, <1>2, <1>3, <1>4 DEF Typed, o2

LEMMA TypedHold ==
  ASSUME NEW o, NEW h, Typed(o, h), NEW q, NEW c \in Pointers
  PROVE  Typed(o, Put(h, q, c))
<1> DEFINE h2 == Put(h, q, c)
<1>1. DOMAIN h2 = DOMAIN h \union {q} /\ \A p \in DOMAIN h2 : h2[p] = IF p = q THEN c ELSE h[p]
  BY DEF Put
<1>2. IsFiniteSet(DOMAIN h2)
  BY <1>1, FS_AddElement DEF Typed
<1>3. h2 = [p \in DOMAIN h2 |-> h2[p]]
  BY DEF Put
<1>4. \A p \in DOMAIN h2 : h2[p] \in Pointers
  BY <1>1 DEF Typed
<1> HIDE DEF h2
<1> QED
  BY <1>1, <1>2, <1>3, <1>4 DEF Typed, h2

LEMMA TypedCut ==
  ASSUME NEW o, NEW h, Typed(o, h), NEW X, NEW Y
  PROVE  Typed(Cut(o, X), Cut(h, Y))
<1>1. IsFiniteSet(DOMAIN o \ X) /\ IsFiniteSet(DOMAIN h \ Y)
  BY FS_Subset DEF Typed
<1>2. DOMAIN Cut(o, X) = DOMAIN o \ X /\ DOMAIN Cut(h, Y) = DOMAIN h \ Y
  BY DEF Cut
<1>3. Cut(o, X) \in [DOMAIN o \ X -> Objects \union Wrappers]
  BY DEF Cut, Typed
<1>4. Cut(h, Y) \in [DOMAIN h \ Y -> Pointers]
  BY DEF Cut, Typed
<1> QED
  BY <1>1, <1>2, <1>3, <1>4 DEF Typed

LEMMA CutNothing ==
  ASSUME NEW o, NEW h, Typed(o, h)
  PROVE  Cut(o, {}) = o /\ Cut(h, {}) = h
BY DEF Cut, Typed

\* The last holder lets go of what it has: the container, and the wrapper if there is one.
LEMMA DropPlain ==
  ASSUME NEW o, NEW h, Sound(o, h), NEW p \in DOMAIN h, h[p].type # "shared"
  PROVE  LET o2 == Cut(o, {h[p].at})  h2 == Cut(h, {p})
         IN  Sound(o2, h2) /\ Parts(o2, h2) = Cut(Parts(o, h), {p})
<1> DEFINE a == h[p].at
           o2 == Cut(o, {a})
           h2 == Cut(h, {p})
<1>1. /\ a \in DOMAIN o /\ a \in Addresses /\ a.what = "container"
      /\ WrapperAddress(a) \notin DOMAIN o /\ HoldersOf(h, a) = {p}
  BY HeldIs
<1>2. DOMAIN o2 = DOMAIN o \ {a} /\ \A b \in DOMAIN o2 : o2[b] = o[b]
  BY DEF Cut
<1>3. DOMAIN h2 = DOMAIN h \ {p} /\ \A q \in DOMAIN h2 : h2[q] = h[q]
  BY DEF Cut
<1>4. \A b : HoldersOf(h2, b) = HoldersOf(h, b) \ {p}
  BY HoldersCut
<1> HIDE DEF o2, h2
<1>5. \A b : b # a => HoldersOf(h2, b) = HoldersOf(h, b)
  BY <1>4 DEF HoldersOf, a
<1>6. Typed(o2, h2)
  BY TypedCut DEF Sound, o2, h2
<1>7. ASSUME NEW q \in DOMAIN h2 PROVE h[q].at # a
  BY <1>1, <1>3, <1>7 DEF HoldersOf
<1>8. ASSUME NEW q \in DOMAIN h2 PROVE HolderSound(o2, h2[q], q[2])
  BY <1>2, <1>3, <1>7, <1>8 DEF HolderSound, Sound
<1>9. ASSUME NEW b \in DOMAIN o2, b.what = "wrapper" PROVE WrapperSound(o2, h2, b)
  <2>1. WrapperSound(o, h, b) /\ b \in DOMAIN o /\ b # a
    BY <1>2, <1>9 DEF Sound
  <2>2. o[b].inner.at # a
    BY <1>1, <2>1 DEF WrapperSound
  <2> QED
    BY <1>2, <1>5, <2>1, <2>2 DEF WrapperSound
<1>10. ASSUME NEW b \in DOMAIN o2, b.what = "container" PROVE ContainerSound(o2, h2, b)
  <2>1. ContainerSound(o, h, b) /\ b \in DOMAIN o /\ b # a /\ b \in Addresses
    BY <1>2, <1>10 DEF Sound, Typed
  <2>2. WrapperAddress(b) # a
    BY <1>1, <2>1, WrapperOf
  <2>3. WrapperAddress(b) \in DOMAIN o2 <=> WrapperAddress(b) \in DOMAIN o
    BY <1>2, <2>2
  <2>4. HoldersOf(h2, b) = HoldersOf(h, b) /\ p \notin HoldersOf(h, b)
    BY <1>1, <1>5, <2>1 DEF HoldersOf
  <2> QED
    BY <1>2, <1>3, <2>1, <2>3, <2>4 DEF ContainerSound
<1>11. Sound(o2, h2)
  BY <1>6, <1>8, <1>9, <1>10 DEF Sound
<1>12. Parts(o2, h2) = Cut(Parts(o, h), {p})
  <2>1. DOMAIN Parts(o, h) = DOMAIN h
    BY DEF Parts
  <2>2. ASSUME NEW q \in DOMAIN h2 PROVE Part(o2, h2[q]) = Parts(o, h)[q]
    <3>1. h2[q] = h[q] /\ q \in DOMAIN h /\ h[q].at \in DOMAIN o2 /\ o2[h[q].at] = o[h[q].at]
      BY <1>2, <1>3, <1>7, <2>2 DEF Sound, HolderSound
    <3>2. Inner(o2, h2[q]) = Inner(o, h[q])
      BY <3>1 DEF Inner
    <3>3. Inner(o, h[q]).at \in DOMAIN o2
      <4>1. CASE h[q].type = "shared"
        <5>1. WrapperSound(o, h, h[q].at)
          BY <3>1, <4>1, HeldIs
        <5>2. o[h[q].at].inner.at # a /\ o[h[q].at].inner.at \in DOMAIN o
          BY <1>1, <1>2, <3>1, <5>1 DEF WrapperSound
        <5> QED
          BY <1>2, <4>1, <5>2 DEF Inner
      <4> QED
        BY <3>1, <4>1 DEF Inner
    <3>4. Parts(o, h)[q] = Part(o, h[q])
      BY <3>1 DEF Parts
    <3> QED
      BY <1>2, <3>2, <3>3, <3>4 DEF Part
  <2> QED
    BY <1>3, <2>1, <2>2 DEF Parts, Cut
<1> QED
  BY <1>11, <1>12 DEF o2, h2, a

\* What a wrapper is for.
LEMMA WrappedIs ==
  ASSUME NEW o, NEW h, Sound(o, h), NEW p \in DOMAIN h, h[p].type = "shared"
  PROVE  LET w == h[p].at  i == o[w].inner
         IN  /\ w \in DOMAIN o /\ w \in Addresses /\ w.what = "wrapper"
             /\ i \in Plain /\ i.at \in DOMAIN o /\ i.at \in Addresses /\ i.at.what = "container"
             /\ i.type \in Kinds /\ i.type # "shared" /\ o[i.at] \in Objects /\ o[i.at].kind = i.type
             /\ w = WrapperAddress(i.at) /\ w # i.at /\ i.at.key = p[2]
             /\ HoldersOf(h, i.at) = {} /\ p \in HoldersOf(h, w)
             /\ o[w].counter = Cardinality(HoldersOf(h, w)) /\ o[w].counter \in Nat \ {0}
             /\ o[w] = Wrapper(i, o[w].counter)
             /\ Part(o, h[p]) = o[i.at].values
<1> DEFINE w == h[p].at
           i == o[w].inner
<1>1. /\ w \in DOMAIN o /\ w \in Addresses /\ w.what = "wrapper" /\ w.key = p[2]
      /\ WrapperSound(o, h, w) /\ i \in Plain /\ o[w].counter \in Nat \ {0} /\ p \in HoldersOf(h, w)
  BY HeldIs
<1>2. /\ i.at \in DOMAIN o /\ i.at.what = "container" /\ w = WrapperAddress(i.at)
      /\ o[i.at].kind = i.type /\ o[w].counter = Cardinality(HoldersOf(h, w)) /\ o[w] \in Wrappers
  BY <1>1 DEF WrapperSound
<1>3. i.at \in Addresses /\ i.type \in Kinds /\ i.type # "shared"
  BY <1>1, KindsAssumption DEF Plain
<1>4. ContainerSound(o, h, i.at)
  BY <1>2 DEF Sound
<1>5. o[i.at] \in Objects /\ HoldersOf(h, i.at) = {}
  BY <1>1, <1>2, <1>4 DEF ContainerSound
<1>6. i.at.key = w.key /\ w # i.at
  BY <1>1, <1>2, <1>3, WrapperOf
<1>7. o[w] = Wrapper(i, o[w].counter)
  BY <1>2 DEF Wrappers, Wrapper
<1>8. Part(o, h[p]) = o[i.at].values
  BY DEF Part, Inner
<1> QED
  BY <1>1, <1>2, <1>3, <1>5, <1>6, <1>7, <1>8

\* The last holder takes a container out of its wrapper.
LEMMA TakeOut ==
  ASSUME NEW o, NEW h, Sound(o, h), NEW p \in DOMAIN h, h[p].type = "shared",
         o[h[p].at].counter = 1
  PROVE  LET w == h[p].at  o2 == Cut(o, {w})  h2 == Put(h, p, o[w].inner)
         IN  Sound(o2, h2) /\ Parts(o2, h2) = Parts(o, h)
<1> DEFINE w == h[p].at
           i == o[w].inner
           o2 == Cut(o, {w})
           h2 == Put(h, p, i)
<1>1. /\ w \in DOMAIN o /\ w \in Addresses /\ w.what = "wrapper"
      /\ i \in Plain /\ i.at \in DOMAIN o /\ i.at \in Addresses /\ i.at.what = "container"
      /\ i.type \in Kinds /\ i.type # "shared" /\ o[i.at] \in Objects /\ o[i.at].kind = i.type
      /\ w = WrapperAddress(i.at) /\ w # i.at /\ i.at.key = p[2]
      /\ HoldersOf(h, i.at) = {} /\ p \in HoldersOf(h, w)
      /\ Cardinality(HoldersOf(h, w)) = 1
      /\ Part(o, h[p]) = o[i.at].values
  BY WrappedIs
<1>2. DOMAIN o2 = DOMAIN o \ {w} /\ \A b \in DOMAIN o2 : o2[b] = o[b]
  BY DEF Cut
<1>3. DOMAIN h2 = DOMAIN h /\ h2[p] = i /\ \A q \in DOMAIN h2 : q # p => h2[q] = h[q]
  BY DEF Put
<1>4. \A b : HoldersOf(h2, b) = (HoldersOf(h, b) \ {p}) \union (IF i.at = b THEN {p} ELSE {})
  BY HoldersPut
<1>5. HoldersOf(h, w) = {p}
  <2>1. IsFiniteSet(HoldersOf(h, w))
    <3>1. HoldersOf(h, w) \subseteq DOMAIN h /\ IsFiniteSet(DOMAIN h)
      BY DEF HoldersOf, Sound, Typed
    <3> QED
      BY <3>1, FS_Subset
  <2>2. \E q : HoldersOf(h, w) = {q}
    BY <1>1, <2>1, FS_Singleton
  <2> QED
    BY <1>1, <2>2
<1>6. Typed(o2, h2)
  <2>1. i \in Pointers
    BY <1>1 DEF Plain, Pointers
  <2>2. Typed(o, h2)
    BY <2>1, TypedHold DEF Sound
  <2>3. Typed(Cut(o, {w}), Cut(h2, {}))
    BY <2>2, TypedCut
  <2>4. Cut(h2, {}) = h2
    BY <2>2, CutNothing
  <2> QED
    BY <2>3, <2>4
<1> HIDE DEF o2, h2, i
<1>7. HoldersOf(h2, i.at) = {p}
  BY <1>1, <1>4
<1>8. \A b : b # w /\ b # i.at => HoldersOf(h2, b) = HoldersOf(h, b)
  BY <1>4 DEF HoldersOf, w
<1>9. ASSUME NEW q \in DOMAIN h2, q # p PROVE h2[q] = h[q] /\ h[q].at # w
  BY <1>3, <1>5, <1>9 DEF HoldersOf
<1>10. ASSUME NEW q \in DOMAIN h2 PROVE HolderSound(o2, h2[q], q[2])
  <2>1. CASE q = p
    BY <1>1, <1>2, <1>3, <2>1 DEF HolderSound
  <2>2. CASE q # p
    BY <1>2, <1>3, <1>9, <2>2 DEF HolderSound, Sound
  <2> QED
    BY <2>1, <2>2
<1>11. ASSUME NEW b \in DOMAIN o2, b.what = "wrapper" PROVE WrapperSound(o2, h2, b)
  <2>1. WrapperSound(o, h, b) /\ b \in DOMAIN o /\ b # w /\ b # i.at
    BY <1>1, <1>2, <1>11 DEF Sound
  <2>2. o[b].inner.at # w
    BY <1>1, <2>1 DEF WrapperSound
  <2> QED
    BY <1>2, <1>8, <2>1, <2>2 DEF WrapperSound
<1>12. ASSUME NEW b \in DOMAIN o2, b.what = "container" PROVE ContainerSound(o2, h2, b)
  <2>1. ContainerSound(o, h, b) /\ b \in DOMAIN o /\ b # w /\ b \in Addresses
    BY <1>2, <1>12 DEF Sound, Typed
  <2>2. CASE b = i.at
    BY <1>1, <1>2, <1>3, <1>7, <2>1, <2>2 DEF ContainerSound
  <2>3. CASE b # i.at
    <3>1. WrapperAddress(b) # w
      BY <1>1, <1>12, <2>1, <2>3, WrappersApart
    <3>2. WrapperAddress(b) \in DOMAIN o2 <=> WrapperAddress(b) \in DOMAIN o
      BY <1>2, <3>1
    <3> QED
      BY <1>2, <1>3, <1>8, <2>1, <2>3, <3>2 DEF ContainerSound
  <2> QED
    BY <2>2, <2>3
<1>13. Sound(o2, h2)
  BY <1>6, <1>10, <1>11, <1>12 DEF Sound
<1>14. Parts(o2, h2) = Parts(o, h)
  <2>1. Part(o2, h2[p]) = Part(o, h[p])
    BY <1>1, <1>2, <1>3 DEF Part, Inner
  <2>2. ASSUME NEW q \in DOMAIN h, q # p PROVE Part(o2, h2[q]) = Part(o, h[q])
    <3>1. h2[q] = h[q] /\ h[q].at \in DOMAIN o2
      BY <1>2, <1>3, <1>9, <2>2 DEF Sound, HolderSound
    <3>2. CASE h[q].type = "shared"
      <4>1. WrapperSound(o, h, h[q].at)
        BY <3>2, HeldIs
      <4>2. o[h[q].at].inner.at # w /\ o[h[q].at].inner.at \in DOMAIN o
        BY <1>1, <4>1 DEF WrapperSound
      <4> QED
        BY <1>2, <3>1, <3>2, <4>2 DEF Part, Inner
    <3>3. CASE h[q].type # "shared"
      BY <1>2, <3>1, <3>3 DEF Part, Inner
    <3> QED
      BY <3>2, <3>3
  <2> QED
    BY <1>3, <2>1, <2>2 DEF Parts
<1> QED
  BY <1>13, <1>14 DEF o2, h2, i, w

\* A container that is held gets a wrapper.
LEMMA Wrap ==
  ASSUME NEW o, NEW h, Sound(o, h), NEW p \in DOMAIN h, h[p].type # "shared"
  PROVE  LET w  == WrapperAddress(h[p].at)
             o2 == Put(o, w, Wrapper(h[p], 1))  h2 == Put(h, p, Pointer(w, "shared"))
         IN  Sound(o2, h2) /\ Parts(o2, h2) = Parts(o, h)
<1> DEFINE i == h[p]
           w == WrapperAddress(i.at)
           x == Wrapper(i, 1)
           c == Pointer(w, "shared")
           o2 == Put(o, w, x)
           h2 == Put(h, p, c)
<1>1. /\ i \in Pointers /\ i.type \in Kinds /\ i.type # "shared"
      /\ i.at \in DOMAIN o /\ i.at \in Addresses /\ i.at.what = "container" /\ i.at.key = p[2]
      /\ o[i.at].kind = i.type /\ o[i.at] \in Objects /\ w \notin DOMAIN o
      /\ HoldersOf(h, i.at) = {p}
  BY HeldIs
<1>2. w \in Addresses /\ w.what = "wrapper" /\ w.key = i.at.key
  BY <1>1, WrapperOf
<1>3. x \in Wrappers /\ x.inner = i /\ x.counter = 1 /\ x.kind = "shared"
  <2>1. i \in Plain
    BY <1>1 DEF Pointers, Plain
  <2> HIDE DEF i
  <2> QED
    BY <2>1 DEF Wrapper, Wrappers
<1>4. c \in Pointers /\ c.at = w /\ c.type = "shared"
  BY <1>2 DEF Pointer, Pointers
<1>5. DOMAIN o2 = DOMAIN o \union {w} /\ o2[w] = x /\ \A b \in DOMAIN o : b # w /\ o2[b] = o[b]
  BY <1>1 DEF Put
<1>6. DOMAIN h2 = DOMAIN h /\ h2[p] = c /\ \A q \in DOMAIN h2 : q # p => h2[q] = h[q]
  BY DEF Put
<1>7. \A b : HoldersOf(h2, b) = (HoldersOf(h, b) \ {p}) \union (IF c.at = b THEN {p} ELSE {})
  BY HoldersPut
<1>8. Typed(o2, h2)
  BY <1>2, <1>3, <1>4, TypedPut, TypedHold DEF Sound
<1> HIDE DEF x, c, o2, h2, w, i
<1>9. HoldersOf(h, w) = {}
  BY <1>1, HeldInside
<1>10. HoldersOf(h2, w) = {p} /\ HoldersOf(h2, i.at) = {}
  <2>1. w # i.at
    BY <1>1
  <2> QED
    BY <1>1, <1>4, <1>7, <1>9, <2>1
<1>11. \A b : b # w /\ b # i.at => HoldersOf(h2, b) = HoldersOf(h, b)
  BY <1>4, <1>7 DEF HoldersOf, i
<1>12. ASSUME NEW q \in DOMAIN h2 PROVE HolderSound(o2, h2[q], q[2])
  <2>1. CASE q = p
    BY <1>1, <1>2, <1>3, <1>4, <1>5, <1>6, <2>1 DEF HolderSound
  <2>2. CASE q # p
    BY <1>5, <1>6, <2>2 DEF HolderSound, Sound
  <2> QED
    BY <2>1, <2>2
<1>13. ASSUME NEW b \in DOMAIN o2, b.what = "wrapper" PROVE WrapperSound(o2, h2, b)
  <2>1. CASE b = w
    <3>1. Cardinality(HoldersOf(h2, w)) = 1
      BY <1>10, FS_Singleton
    <3> QED
      BY <1>1, <1>3, <1>5, <1>10, <2>1, <3>1 DEF WrapperSound, w
  <2>2. CASE b # w
    <3>1. WrapperSound(o, h, b) /\ b \in DOMAIN o /\ b # i.at
      BY <1>1, <1>5, <1>13, <2>2 DEF Sound
    <3> QED
      BY <1>5, <1>11, <2>2, <3>1 DEF WrapperSound
  <2> QED
    BY <2>1, <2>2
<1>14. ASSUME NEW b \in DOMAIN o2, b.what = "container" PROVE ContainerSound(o2, h2, b)
  <2>1. ContainerSound(o, h, b) /\ b \in DOMAIN o /\ b # w /\ b \in Addresses
    BY <1>2, <1>5, <1>14 DEF Sound, Typed
  <2>2. CASE b = i.at
    BY <1>1, <1>5, <1>10, <2>1, <2>2 DEF ContainerSound, w
  <2>3. CASE b # i.at
    <3>1. WrapperAddress(b) # w
      BY <1>1, <1>14, <2>1, <2>3, WrappersApart DEF w
    <3>2. WrapperAddress(b) \in DOMAIN o2 <=> WrapperAddress(b) \in DOMAIN o
      BY <1>5, <3>1
    <3> QED
      BY <1>5, <1>6, <1>11, <2>1, <2>3, <3>2 DEF ContainerSound
  <2> QED
    BY <2>2, <2>3
<1>15. Sound(o2, h2)
  BY <1>8, <1>12, <1>13, <1>14 DEF Sound
<1>16. Parts(o2, h2) = Parts(o, h)
  <2>1. Part(o2, h2[p]) = Part(o, i)
    BY <1>1, <1>3, <1>4, <1>5, <1>6 DEF Part, Inner
  <2>2. ASSUME NEW q \in DOMAIN h, q # p PROVE Part(o2, h2[q]) = Part(o, h[q])
    <3>1. h2[q] = h[q] /\ h[q].at \in DOMAIN o
      BY <1>6, <2>2 DEF Sound, HolderSound
    <3>2. Inner(o, h[q]).at \in DOMAIN o
      BY <3>1, HeldIs DEF Inner, WrapperSound
    <3>3. Inner(o2, h2[q]) = Inner(o, h[q])
      BY <1>5, <3>1 DEF Inner
    <3> QED
      BY <1>5, <3>2, <3>3 DEF Part
  <2> QED
    BY <1>6, <2>1, <2>2 DEF Parts, i
<1> QED
  BY <1>15, <1>16 DEF o2, h2, x, c, w, i

LEMMA HoldersFinite ==
  ASSUME NEW o, NEW h, Sound(o, h), NEW a
  PROVE  IsFiniteSet(HoldersOf(h, a)) /\ HoldersOf(h, a) \subseteq DOMAIN h
         /\ Cardinality(HoldersOf(h, a)) \in Nat
<1>1. HoldersOf(h, a) \subseteq DOMAIN h /\ IsFiniteSet(DOMAIN h)
  BY DEF HoldersOf, Sound, Typed
<1> QED
  BY <1>1, FS_Subset, FS_CardinalityType

\* A change of who holds which wrapper, with the count of one of them brought up to date.
\* Whatever else is held stays so.
Rewrapped(h, h2, w) ==
  /\ IsFiniteSet(DOMAIN h2) /\ h2 \in [DOMAIN h2 -> Pointers]
  /\ \A q \in DOMAIN h2 :
       \/ q \in DOMAIN h /\ h2[q] = h[q]
       \/ h2[q] = Pointer(w, "shared") /\ w.key = q[2]
  /\ \A a : a # w => HoldersOf(h2, a) = HoldersOf(h, a)
  /\ HoldersOf(h2, w) # {}

LEMMA Recount ==
  ASSUME NEW o, NEW h, Sound(o, h), NEW w \in DOMAIN o, w.what = "wrapper",
         NEW h2, Rewrapped(h, h2, w)
  PROVE  LET n  == Cardinality(HoldersOf(h2, w))
             o2 == Put(o, w, Wrapper(o[w].inner, n))
         IN  /\ Sound(o2, h2)
             /\ \A q \in DOMAIN h2 : Part(o2, h2[q]) = Part(o, h2[q])
<1> USE DEF Rewrapped
<1> DEFINE n == Cardinality(HoldersOf(h2, w))
           i == o[w].inner
           x == Wrapper(i, n)
           o2 == Put(o, w, x)
<1>1. WrapperSound(o, h, w) /\ o[w] \in Wrappers /\ i \in Plain /\ i.at # w /\ i.at \in DOMAIN o
  BY DEF Sound, WrapperSound, Wrappers
<1>2. n \in Nat
  <2>1. HoldersOf(h2, w) \subseteq DOMAIN h2
    BY DEF HoldersOf
  <2> QED
    BY <2>1, FS_Subset, FS_CardinalityType
<1> HIDE DEF n
<1>3. x \in Wrappers /\ x.inner = i /\ x.counter = n /\ x.kind = "shared" /\ o[w].kind = "shared"
  BY <1>1, <1>2 DEF Wrapper, Wrappers
<1>4. DOMAIN o2 = DOMAIN o /\ o2[w] = x /\ \A b \in DOMAIN o : b # w => o2[b] = o[b]
  BY DEF Put
<1>5. Typed(o2, h2)
  <2>1. w \in Addresses
    BY DEF Sound, Typed
  <2>2. Typed(o2, h)
    BY <1>3, <2>1, TypedPut DEF Sound
  <2> HIDE DEF o2
  <2> QED
    BY <2>2 DEF Typed
<1>6. DOMAIN h2 = DOMAIN h2
  OBVIOUS
<1> HIDE DEF x, o2, i
<1>7. ASSUME NEW q \in DOMAIN h2 PROVE HolderSound(o2, h2[q], q[2])
  <2>1. CASE q \in DOMAIN h /\ h2[q] = h[q]
    BY <1>3, <1>4, <2>1 DEF HolderSound, Sound
  <2>2. CASE h2[q] = Pointer(w, "shared") /\ w.key = q[2]
    BY <1>3, <1>4, <2>2 DEF HolderSound, Pointer
  <2> QED
    BY <2>1, <2>2
<1>8. \A b \in DOMAIN o : o2[b].kind = o[b].kind
  BY <1>3, <1>4
<1>9. ASSUME NEW b \in DOMAIN o2, b.what = "wrapper" PROVE WrapperSound(o2, h2, b)
  <2>1. WrapperSound(o, h, b)
    BY <1>4, <1>9 DEF Sound
  <2>2. CASE b = w
    BY <1>1, <1>3, <1>4, <2>1, <2>2 DEF WrapperSound, i, n
  <2>3. CASE b # w
    <3>1. HoldersOf(h2, b) = HoldersOf(h, b)
      BY <2>3
    <3>2. o2[b] = o[b]
      BY <1>4, <2>3
    <3> QED
      BY <1>4, <1>8, <2>1, <3>1, <3>2 DEF WrapperSound
  <2> QED
    BY <2>2, <2>3
<1>10. ASSUME NEW b \in DOMAIN o2, b.what = "container" PROVE ContainerSound(o2, h2, b)
  <2>1. ContainerSound(o, h, b) /\ b # w
    BY <1>4, <1>10 DEF Sound
  <2>2. HoldersOf(h2, b) = HoldersOf(h, b) /\ o2[b] = o[b]
    BY <1>4, <2>1
  <2>3. \A p : HoldersOf(h2, b) = {p} => p \in DOMAIN h2
    BY DEF HoldersOf
  <2> QED
    BY <1>4, <2>1, <2>2, <2>3 DEF ContainerSound
<1>11. Sound(o2, h2)
  BY <1>5, <1>7, <1>9, <1>10 DEF Sound
<1>12. ASSUME NEW q \in DOMAIN h2 PROVE Part(o2, h2[q]) = Part(o, h2[q])
  <2>1. CASE h2[q].type # "shared"
    <3>1. h2[q].at \in DOMAIN o /\ h2[q].at # w
      <4>1. q \in DOMAIN h /\ h2[q] = h[q]
        BY <2>1 DEF Pointer
      <4> QED
        BY <2>1, <4>1, HeldIs
    <3> QED
      BY <1>4, <2>1, <3>1 DEF Part, Inner
  <2>2. CASE h2[q].type = "shared"
    <3>1. h2[q].at \in DOMAIN o /\ h2[q].at.what = "wrapper"
      <4>1. CASE q \in DOMAIN h /\ h2[q] = h[q]
        BY <2>2, <4>1, HeldIs
      <4>2. CASE h2[q] = Pointer(w, "shared")
        BY <4>2 DEF Pointer
      <4> QED
        BY <4>1, <4>2
    <3>2. o2[h2[q].at].inner = o[h2[q].at].inner
      BY <1>3, <1>4, <3>1 DEF i
    <3>3. o[h2[q].at].inner.at \in DOMAIN o /\ o[h2[q].at].inner.at # w
      BY <3>1 DEF Sound, WrapperSound
    <3> QED
      BY <1>4, <2>2, <3>2, <3>3 DEF Part, Inner
  <2> QED
    BY <2>1, <2>2
<1> QED
  BY <1>11, <1>12 DEF o2, x, i, n

\* One of several holders lets go.
LEMMA LetGo ==
  ASSUME NEW o, NEW h, Sound(o, h), NEW p \in DOMAIN h, h[p].type = "shared",
         o[h[p].at].counter # 1
  PROVE  LET w  == h[p].at
             o2 == Put(o, w, Wrapper(o[w].inner, o[w].counter - 1))  h2 == Cut(h, {p})
         IN  Sound(o2, h2) /\ Parts(o2, h2) = Cut(Parts(o, h), {p})
<1> DEFINE w == h[p].at
           h2 == Cut(h, {p})
           o2 == Put(o, w, Wrapper(o[w].inner, o[w].counter - 1))
<1>1. /\ w \in DOMAIN o /\ w.what = "wrapper" /\ p \in HoldersOf(h, w)
      /\ o[w].counter = Cardinality(HoldersOf(h, w)) /\ o[w].counter \in Nat \ {0}
  BY WrappedIs
<1>2. DOMAIN h2 = DOMAIN h \ {p} /\ \A q \in DOMAIN h2 : h2[q] = h[q]
  BY DEF Cut
<1>3. \A b : HoldersOf(h2, b) = HoldersOf(h, b) \ {p}
  BY HoldersCut
<1>4. \A b : b # w => HoldersOf(h2, b) = HoldersOf(h, b)
  BY <1>3 DEF HoldersOf, w
<1>5. IsFiniteSet(DOMAIN h2) /\ h2 \in [DOMAIN h2 -> Pointers]
  BY TypedCut DEF Sound, Typed
<1>6. Cardinality(HoldersOf(h2, w)) = o[w].counter - 1
  <2> DEFINE X == HoldersOf(h, w)
  <2>1. HoldersOf(h2, w) = X \ {p} /\ IsFiniteSet(X) /\ p \in X
    BY <1>1, <1>3, HoldersFinite
  <2> HIDE DEF X
  <2>2. Cardinality(X \ {p}) = Cardinality(X) - 1
    BY <2>1, FS_RemoveElement
  <2> QED
    BY <1>1, <2>1, <2>2 DEF X
<1>7. HoldersOf(h2, w) # {}
  <2>1. Cardinality(HoldersOf(h2, w)) # 0
    BY <1>1, <1>6
  <2> QED
    BY <2>1, FS_EmptySet
<1> HIDE DEF h2, w
<1>8. Sound(o2, h2) /\ \A q \in DOMAIN h2 : Part(o2, h2[q]) = Part(o, h2[q])
  <2>1. Rewrapped(h, h2, w)
    BY <1>2, <1>4, <1>5, <1>7 DEF Rewrapped
  <2> QED
    BY <1>1, <1>6, <2>1, Recount
<1> HIDE DEF o2
<1>9. Parts(o2, h2) = Cut(Parts(o, h), {p})
  BY <1>2, <1>8 DEF Parts, Cut
<1> QED
  BY <1>8, <1>9 DEF o2, h2, w

\* One more holder.
LEMMA ShareMore ==
  ASSUME NEW o, NEW h, Sound(o, h), NEW p \in DOMAIN h, h[p].type = "shared",
         NEW q, q \notin DOMAIN h, q[2] = p[2]
  PROVE  LET w  == h[p].at
             o2 == Put(o, w, Wrapper(o[w].inner, o[w].counter + 1))  h2 == Put(h, q, h[p])
         IN  Sound(o2, h2) /\ Parts(o2, h2) = Put(Parts(o, h), q, Parts(o, h)[p])
<1> DEFINE w == h[p].at
           h2 == Put(h, q, h[p])
           o2 == Put(o, w, Wrapper(o[w].inner, o[w].counter + 1))
<1>1. /\ w \in DOMAIN o /\ w.what = "wrapper" /\ p \in HoldersOf(h, w) /\ w.key = p[2]
      /\ o[w].counter = Cardinality(HoldersOf(h, w)) /\ o[w].counter \in Nat \ {0}
      /\ h[p] \in Pointers
  BY WrappedIs, HeldIs
<1>2. DOMAIN h2 = DOMAIN h \union {q} /\ h2[q] = h[p] /\ \A r \in DOMAIN h : r # q /\ h2[r] = h[r]
  BY DEF Put
<1>3. \A b : HoldersOf(h2, b) = (HoldersOf(h, b) \ {q}) \union (IF w = b THEN {q} ELSE {})
  BY HoldersPut
<1>4. \A b : q \notin HoldersOf(h, b)
  BY DEF HoldersOf
<1>5. \A b : b # w => HoldersOf(h2, b) = HoldersOf(h, b)
  <2> HIDE DEF w, h2
  <2> QED
    BY <1>3, <1>4
<1>6. IsFiniteSet(DOMAIN h2) /\ h2 \in [DOMAIN h2 -> Pointers]
  BY <1>1, TypedHold DEF Sound, Typed
<1>7. h[p] = Pointer(w, "shared")
  BY <1>1 DEF Pointers, Pointer
<1> HIDE DEF h2, w
<1>8. HoldersOf(h2, w) = HoldersOf(h, w) \union {q} /\ HoldersOf(h2, w) # {}
  BY <1>3, <1>4
<1>9. Cardinality(HoldersOf(h2, w)) = o[w].counter + 1
  <2> DEFINE X == HoldersOf(h, w)
  <2>1. HoldersOf(h2, w) = X \union {q} /\ IsFiniteSet(X) /\ q \notin X
    BY <1>4, <1>8, HoldersFinite
  <2> HIDE DEF X
  <2>2. Cardinality(X \union {q}) = Cardinality(X) + 1
    BY <2>1, FS_AddElement
  <2> QED
    BY <1>1, <2>1, <2>2 DEF X
<1>10. Sound(o2, h2) /\ \A r \in DOMAIN h2 : Part(o2, h2[r]) = Part(o, h2[r])
  <2>1. ASSUME NEW r \in DOMAIN h2
        PROVE  \/ r \in DOMAIN h /\ h2[r] = h[r]
               \/ h2[r] = Pointer(w, "shared") /\ w.key = r[2]
    BY <1>1, <1>2, <1>7
  <2>2. Rewrapped(h, h2, w)
    BY <1>5, <1>6, <1>8, <2>1 DEF Rewrapped
  <2> QED
    BY <1>1, <1>9, <2>2, Recount
<1> HIDE DEF o2
<1>11. Parts(o2, h2) = Put(Parts(o, h), q, Parts(o, h)[p])
  BY <1>2, <1>10 DEF Parts, Put
<1> QED
  BY <1>10, <1>11 DEF o2, h2, w

\* A holder writes what it alone has.
LEMMA Overwrite ==
  ASSUME NEW o, NEW h, Sound(o, h), NEW p \in DOMAIN h, h[p].type # "shared",
         NEW S \in SUBSET Lows
  PROVE  LET o2 == Put(o, h[p].at, Object(h[p].type, S))
         IN  Sound(o2, h) /\ Parts(o2, h) = Put(Parts(o, h), p, S)
<1> DEFINE a == h[p].at
           x == Object(h[p].type, S)
           o2 == Put(o, a, x)
<1>1. /\ a \in DOMAIN o /\ a \in Addresses /\ a.what = "container" /\ o[a].kind = h[p].type
      /\ h[p].type \in Kinds /\ HoldersOf(h, a) = {p} /\ WrapperAddress(a) \notin DOMAIN o
  BY HeldIs
<1>2. x \in Objects /\ x.kind = o[a].kind /\ x.values = S
  BY <1>1 DEF Object, Objects
<1>3. DOMAIN o2 = DOMAIN o /\ o2[a] = x /\ \A b \in DOMAIN o : b # a => o2[b] = o[b]
  BY <1>1 DEF Put
<1>4. Typed(o2, h)
  BY <1>1, <1>2, TypedPut DEF Sound
<1> HIDE DEF x, o2
<1>5. \A b \in DOMAIN o : o2[b].kind = o[b].kind
  BY <1>2, <1>3
<1>6. \A q \in DOMAIN h : HolderSound(o2, h[q], q[2])
  BY <1>3, <1>5 DEF Sound, HolderSound
<1>7. ASSUME NEW b \in DOMAIN o2, b.what = "wrapper" PROVE WrapperSound(o2, h, b)
  <2>1. WrapperSound(o, h, b) /\ b # a
    BY <1>1, <1>3, <1>7 DEF Sound
  <2> QED
    BY <1>3, <1>5, <2>1 DEF WrapperSound
<1>8. ASSUME NEW b \in DOMAIN o2, b.what = "container" PROVE ContainerSound(o2, h, b)
  <2>1. ContainerSound(o, h, b) /\ o2[b] \in Objects
    BY <1>2, <1>3, <1>8 DEF Sound, ContainerSound
  <2> QED
    BY <1>3, <2>1 DEF ContainerSound
<1>9. Sound(o2, h)
  BY <1>4, <1>6, <1>7, <1>8 DEF Sound
<1>10. Part(o2, h[p]) = S
  BY <1>1, <1>2, <1>3, KindsAssumption DEF Part, Inner
<1>11. ASSUME NEW q \in DOMAIN h, q # p PROVE Part(o2, h[q]) = Part(o, h[q])
  <2>1. CASE h[q].type = "shared"
    <3>1. /\ h[q].at \in DOMAIN o /\ h[q].at.what = "wrapper"
          /\ o[h[q].at].inner.at \in DOMAIN o /\ h[q].at = WrapperAddress(o[h[q].at].inner.at)
      BY <2>1, WrappedIs
    <3>2. h[q].at # a /\ o[h[q].at].inner.at # a
      BY <1>1, <3>1
    <3> QED
      BY <1>3, <2>1, <3>1, <3>2 DEF Part, Inner
  <2>2. CASE h[q].type # "shared"
    <3>1. h[q].at \in DOMAIN o /\ q \in HoldersOf(h, h[q].at)
      BY HeldIs
    <3>2. h[q].at # a
      BY <1>1, <1>11, <3>1
    <3> QED
      BY <1>3, <2>2, <3>1, <3>2 DEF Part, Inner
  <2> QED
    BY <2>1, <2>2
<1>12. Parts(o2, h) = Put(Parts(o, h), p, S)
  BY <1>10, <1>11 DEF Parts, Put
<1> QED
  BY <1>9, <1>12 DEF o2, x, a

\* What one holder has goes to another one.
LEMMA HandOver ==
  ASSUME NEW o, NEW h, Sound(o, h), NEW p \in DOMAIN h,
         NEW q, q \notin DOMAIN h, q[2] = p[2]
  PROVE  LET h2 == Put(Cut(h, {p}), q, h[p])
         IN  Sound(o, h2) /\ Parts(o, h2) = Put(Cut(Parts(o, h), {p}), q, Parts(o, h)[p])
<1> DEFINE c == h[p]
           a == c.at
           h2 == Put(Cut(h, {p}), q, c)
<1>1. DOMAIN h2 = (DOMAIN h \ {p}) \union {q} /\ h2[q] = c
  BY DEF Put, Cut
<1>2. \A r \in DOMAIN h2 : r # q => r \in DOMAIN h /\ r # p /\ h2[r] = h[r]
  BY DEF Put, Cut
<1>3. p # q /\ \A b : q \notin HoldersOf(h, b)
  BY DEF HoldersOf
<1>4. \A b : HoldersOf(h2, b) = (HoldersOf(h, b) \ {p}) \union (IF a = b THEN {q} ELSE {})
  <2>1. \A b : HoldersOf(h2, b) = (HoldersOf(Cut(h, {p}), b) \ {q}) \union (IF a = b THEN {q} ELSE {})
    BY HoldersPut
  <2>2. \A b : HoldersOf(Cut(h, {p}), b) = HoldersOf(h, b) \ {p}
    BY HoldersCut
  <2> HIDE DEF h2, a, c
  <2>3. ASSUME NEW b
        PROVE  HoldersOf(h2, b) = (HoldersOf(h, b) \ {p}) \union (IF a = b THEN {q} ELSE {})
    <3> DEFINE A == HoldersOf(h2, b)
               B == HoldersOf(Cut(h, {p}), b)
               C == HoldersOf(h, b)
               I == IF a = b THEN {q} ELSE {}
    <3>1. A = (B \ {q}) \union I
      BY <2>1
    <3>2. B = C \ {p}
      BY <2>2
    <3>3. q \notin C
      BY <1>3
    <3> HIDE DEF A, B, C, I
    <3>4. A = (C \ {p}) \union I
      BY ONLY <3>1, <3>2, <3>3
    <3> QED
      BY <3>4 DEF A, C, I
  <2> QED
    BY <2>3
<1>5. Typed(o, h2)
  <2>1. Typed(Cut(o, {}), Cut(h, {p})) /\ Cut(o, {}) = o /\ c \in Pointers
    BY TypedCut, CutNothing, HeldIs DEF Sound
  <2> QED
    BY <2>1, TypedHold
<1> HIDE DEF h2
<1>6. p \in HoldersOf(h, a) /\ \A b : b # a => HoldersOf(h2, b) = HoldersOf(h, b)
  BY <1>4 DEF HoldersOf
<1>7. HoldersOf(h2, a) = (HoldersOf(h, a) \ {p}) \union {q}
  BY <1>4
<1>8. \A r \in DOMAIN h2 : HolderSound(o, h2[r], r[2])
  <2>1. HolderSound(o, c, p[2]) /\ \A r \in DOMAIN h : HolderSound(o, h[r], r[2])
    BY DEF Sound
  <2> HIDE DEF c
  <2> QED
    BY <1>1, <1>2, <2>1
<1>9. Cardinality(HoldersOf(h2, a)) = Cardinality(HoldersOf(h, a)) /\ HoldersOf(h2, a) # {}
  <2> DEFINE X == HoldersOf(h, a)
             Y == X \ {p}
  <2>1. IsFiniteSet(X) /\ p \in X /\ q \notin X /\ Cardinality(X) \in Nat
    BY <1>3, <1>6, HoldersFinite
  <2> HIDE DEF X
  <2>2. Cardinality(Y) = Cardinality(X) - 1 /\ IsFiniteSet(Y) /\ q \notin Y
    BY <2>1, FS_RemoveElement, FS_Subset
  <2> HIDE DEF Y
  <2>3. Cardinality(Y \union {q}) = Cardinality(Y) + 1
    BY <2>2, FS_AddElement
  <2>4. HoldersOf(h2, a) = Y \union {q}
    BY <1>7 DEF X, Y
  <2> QED
    BY <2>1, <2>2, <2>3, <2>4 DEF X
<1>10. ASSUME NEW b \in DOMAIN o, b.what = "wrapper" PROVE WrapperSound(o, h2, b)
  <2>1. WrapperSound(o, h, b)
    BY <1>10 DEF Sound
  <2> QED
    BY <1>6, <1>9, <2>1 DEF WrapperSound
<1>11. ASSUME NEW b \in DOMAIN o, b.what = "container" PROVE ContainerSound(o, h2, b)
  <2>1. ContainerSound(o, h, b)
    BY <1>11 DEF Sound
  <2>2. CASE b # a
    <3>1. \A r : HoldersOf(h2, b) = {r} => r \in DOMAIN h2
      BY DEF HoldersOf
    <3> QED
      BY <1>6, <2>1, <2>2, <3>1 DEF ContainerSound
  <2>3. CASE b = a
    <3>1. HoldersOf(h, a) = {p} /\ WrapperAddress(b) \notin DOMAIN o
      BY <1>6, <2>1, <2>3 DEF ContainerSound
    <3>2. HoldersOf(h2, b) = {q}
      BY <1>7, <2>3, <3>1
    <3> QED
      BY <1>1, <2>1, <3>1, <3>2 DEF ContainerSound
  <2> QED
    BY <2>2, <2>3
<1>12. Sound(o, h2)
  BY <1>5, <1>8, <1>10, <1>11 DEF Sound
<1>13. Parts(o, h2) = Put(Cut(Parts(o, h), {p}), q, Parts(o, h)[p])
  <2>1. DOMAIN Parts(o, h) = DOMAIN h /\ \A r \in DOMAIN h : Parts(o, h)[r] = Part(o, h[r])
    BY DEF Parts
  <2>2. DOMAIN Parts(o, h2) = DOMAIN h2 /\ \A r \in DOMAIN h2 : Parts(o, h2)[r] = Part(o, h2[r])
    BY DEF Parts
  <2>3. Parts(o, h2) = [r \in DOMAIN h2 |-> Part(o, h2[r])]
    BY DEF Parts
  <2> QED
    BY <1>1, <1>2, <2>1, <2>2, <2>3 DEF Put, Cut, c
<1> QED
  BY <1>12, <1>13 DEF h2, c

\* Every object moves to another address, wrappers along with what they are for.
Readdresses(o, r) ==
  /\ r \in [DOMAIN o -> Addresses]
  /\ \A a, b \in DOMAIN o : r[a] = r[b] => a = b
  /\ \A a \in DOMAIN o :
       /\ r[a].key = a.key /\ r[a].what = a.what
       /\ WrapperAddress(a) \in DOMAIN o => r[WrapperAddress(a)] = WrapperAddress(r[a])

\* An object when the addresses change: only a wrapper has one in it.
Moved(r, x) ==
  IF x.kind = "shared" THEN [x EXCEPT !.inner = Pointer(r[@.at], @.type)] ELSE x

LEMMA Readdress ==
  ASSUME NEW o, NEW h, Sound(o, h), NEW r, Readdresses(o, r),
         NEW o2, DOMAIN o2 = {r[a] : a \in DOMAIN o}, o2 = [b \in DOMAIN o2 |-> o2[b]],
         \A a \in DOMAIN o : o2[r[a]] = Moved(r, o[a])
  PROVE  LET h2 == [p \in DOMAIN h |-> Pointer(r[h[p].at], h[p].type)]
         IN  Sound(o2, h2) /\ Parts(o2, h2) = Parts(o, h)
<1> DEFINE h2 == [p \in DOMAIN h |-> Pointer(r[h[p].at], h[p].type)]
<1>1. /\ \A a \in DOMAIN o : r[a] \in Addresses /\ r[a] \in DOMAIN o2 /\ a \in Addresses
      /\ \A b \in DOMAIN o2 : \E a \in DOMAIN o : b = r[a]
  BY DEF Readdresses, Sound, Typed
<1>2. \A a, b \in DOMAIN o : r[a] = r[b] => a = b
  BY DEF Readdresses
<1>3. ASSUME NEW a \in DOMAIN o, a.what = "container"
      PROVE  o[a] \in Objects /\ o2[r[a]] = o[a]
  <2>1. o[a] \in Objects
    BY <1>3 DEF Sound, ContainerSound
  <2>2. o[a].kind # "shared"
    BY <2>1, KindsAssumption DEF Objects
  <2> QED
    BY <2>1, <2>2 DEF Moved
<1>4. ASSUME NEW w \in DOMAIN o, w.what = "wrapper"
      PROVE  LET i == o[w].inner
             IN  /\ i.at \in DOMAIN o /\ i.at.what = "container" /\ w = WrapperAddress(i.at)
                 /\ i \in Plain /\ o[i.at].kind = i.type /\ o[w].kind = "shared"
                 /\ o2[r[w]] = Wrapper(Pointer(r[i.at], i.type), o[w].counter)
                 /\ o[w].counter \in Nat /\ r[w] = WrapperAddress(r[i.at])
  <2>1. WrapperSound(o, h, w)
    BY <1>4 DEF Sound
  <2>2. o[w] \in Wrappers /\ o[w].inner \in Plain
    BY <2>1 DEF WrapperSound, Wrappers
  <2>3. o[w] = [kind |-> "shared", inner |-> o[w].inner, counter |-> o[w].counter]
    BY <2>2 DEF Wrappers
  <2>4. o2[r[w]] = [o[w] EXCEPT !.inner = Pointer(r[o[w].inner.at], o[w].inner.type)]
    BY <2>3 DEF Moved
  <2>5. o2[r[w]] = Wrapper(Pointer(r[o[w].inner.at], o[w].inner.type), o[w].counter)
    BY <2>3, <2>4 DEF Wrapper
  <2> QED
    BY <2>1, <2>2, <2>5 DEF WrapperSound, Wrappers, Readdresses
<1>5. \A a \in DOMAIN o : a.what \in {"container", "wrapper"}
  BY DEF Sound, Typed, Addresses
<1>6. \A p \in DOMAIN h : /\ h2[p].at = r[h[p].at] /\ h2[p].type = h[p].type
                          /\ h[p].at \in DOMAIN o /\ h2[p] \in Pointers
  <2> TAKE p \in DOMAIN h
  <2>1. h[p] \in Pointers /\ h[p].at \in DOMAIN o
    BY HeldIs
  <2> QED
    BY <1>1, <2>1 DEF Pointer, Pointers
<1>7. \A a \in DOMAIN o : HoldersOf(h2, r[a]) = HoldersOf(h, a)
  BY <1>2, <1>6 DEF HoldersOf
<1>8. DOMAIN h2 = DOMAIN h
  OBVIOUS
<1>9. Typed(o2, h2)
  <2>1. IsFiniteSet(DOMAIN o2)
    <3>1. IsFiniteSet(DOMAIN o)
      BY DEF Sound, Typed
    <3>2. r \in [DOMAIN o -> Addresses]
      BY DEF Readdresses
    <3>3. r \in Surjection(DOMAIN o, DOMAIN o2)
      BY <1>1, <3>2 DEF Surjection
    <3> QED
      BY <3>1, <3>3, FS_Surjection
  <2>2. DOMAIN o2 \subseteq Addresses
    BY <1>1
  <2>3. \A b \in DOMAIN o2 : o2[b] \in Objects \union Wrappers
    <3> SUFFICES ASSUME NEW a \in DOMAIN o PROVE o2[r[a]] \in Objects \union Wrappers
      BY <1>1
    <3>1. CASE a.what = "container"
      BY <1>3, <3>1
    <3>2. CASE a.what = "wrapper"
      <4>1. /\ o[a].inner \in Plain /\ o[a].inner.at \in DOMAIN o /\ o[a].counter \in Nat
            /\ o2[r[a]] = Wrapper(Pointer(r[o[a].inner.at], o[a].inner.type), o[a].counter)
        BY <1>4, <3>2
      <4>2. Pointer(r[o[a].inner.at], o[a].inner.type) \in Plain
        BY <1>1, <4>1 DEF Pointer, Plain
      <4> QED
        BY <4>1, <4>2 DEF Wrapper, Wrappers
    <3> QED
      BY <1>5, <3>1, <3>2
  <2>4. o2 \in [DOMAIN o2 -> Objects \union Wrappers]
    BY <2>3
  <2>5. h2 \in [DOMAIN h2 -> Pointers] /\ IsFiniteSet(DOMAIN h2)
    BY <1>6 DEF Sound, Typed
  <2> HIDE DEF h2
  <2> QED
    BY <2>1, <2>2, <2>4, <2>5 DEF Typed
<1> HIDE DEF h2
<1>10. \A a \in DOMAIN o : o2[r[a]].kind = o[a].kind
  <2> SUFFICES ASSUME NEW a \in DOMAIN o PROVE o2[r[a]].kind = o[a].kind
    OBVIOUS
  <2>1. CASE a.what = "container"
    BY <1>3, <2>1
  <2>2. CASE a.what = "wrapper"
    <3>1. /\ o2[r[a]] = Wrapper(Pointer(r[o[a].inner.at], o[a].inner.type), o[a].counter)
          /\ o[a].kind = "shared"
      BY <1>4, <2>2
    <3>2. o2[r[a]].kind = "shared"
      BY <3>1 DEF Wrapper
    <3> QED
      BY <3>1, <3>2
  <2> QED
    BY <1>5, <2>1, <2>2
<1>11. \A p \in DOMAIN h2 : HolderSound(o2, h2[p], p[2])
  <2> SUFFICES ASSUME NEW p \in DOMAIN h PROVE HolderSound(o2, h2[p], p[2])
    BY <1>8
  <2>1. HolderSound(o, h[p], p[2])
    BY DEF Sound
  <2> QED
    BY <1>1, <1>6, <1>10, <2>1 DEF HolderSound, Readdresses
<1>12. ASSUME NEW b \in DOMAIN o2, b.what = "wrapper" PROVE WrapperSound(o2, h2, b)
  <2>1. PICK w \in DOMAIN o : b = r[w]
    BY <1>1
  <2>2. w.what = "wrapper"
    BY <1>12, <2>1 DEF Readdresses
  <2> DEFINE i == o[w].inner
  <2>3. /\ i.at \in DOMAIN o /\ i.at.what = "container" /\ w = WrapperAddress(i.at)
        /\ i \in Plain /\ o[i.at].kind = i.type
        /\ o2[b] = Wrapper(Pointer(r[i.at], i.type), o[w].counter)
        /\ o[w].counter \in Nat /\ b = WrapperAddress(r[i.at])
    BY <1>4, <2>1, <2>2
  <2>4. WrapperSound(o, h, w)
    BY <2>2 DEF Sound
  <2>5. HoldersOf(h2, b) = HoldersOf(h, w)
    BY <1>7, <2>1
  <2>6. Pointer(r[i.at], i.type) \in Plain
    BY <1>1, <2>3 DEF Pointer, Plain
  <2>7. o2[b] \in Wrappers
    BY <2>3, <2>6 DEF Wrapper, Wrappers
  <2>8. /\ o2[b].inner.at = r[i.at] /\ o2[b].inner.type = i.type /\ o2[b].counter = o[w].counter
    BY <2>3 DEF Wrapper, Pointer
  <2>9. r[i.at].what = "container" /\ r[i.at] \in DOMAIN o2 /\ o2[r[i.at]].kind = i.type
    BY <1>1, <1>10, <2>3 DEF Readdresses
  <2> HIDE DEF i
  <2> QED
    BY <2>3, <2>4, <2>5, <2>7, <2>8, <2>9 DEF WrapperSound
<1>13. ASSUME NEW b \in DOMAIN o2, b.what = "container" PROVE ContainerSound(o2, h2, b)
  <2>1. PICK a \in DOMAIN o : b = r[a]
    BY <1>1
  <2>2. a.what = "container"
    BY <1>13, <2>1 DEF Readdresses
  <2>3. ContainerSound(o, h, a) /\ o2[b] \in Objects /\ HoldersOf(h2, b) = HoldersOf(h, a)
    BY <1>3, <1>7, <2>1, <2>2 DEF Sound
  <2>4. WrapperAddress(b) \in DOMAIN o2 => WrapperAddress(a) \in DOMAIN o
    <3> SUFFICES ASSUME NEW w \in DOMAIN o, WrapperAddress(b) = r[w]
                 PROVE  WrapperAddress(a) \in DOMAIN o
      BY <1>1
    <3>1. w.what = "wrapper"
      BY <1>1, <2>1, WrapperOf DEF Readdresses
    <3> DEFINE i == o[w].inner
    <3>2. i.at \in DOMAIN o /\ i.at.what = "container" /\ w = WrapperAddress(i.at) /\ r[w] = WrapperAddress(r[i.at])
      BY <1>4, <3>1
    <3> HIDE DEF i
    <3>3. r[i.at] = r[a]
      <4>1. r[i.at].what = "container" /\ r[a].what = "container" /\ r[i.at] \in Addresses /\ r[a] \in Addresses
        BY <1>1, <2>2, <3>2 DEF Readdresses
      <4>2. WrapperAddress(r[i.at]) = WrapperAddress(r[a])
        BY <2>1, <3>2
      <4> QED
        BY <4>1, <4>2, WrappersApart
    <3> QED
      BY <1>2, <3>2, <3>3
  <2>5. WrapperAddress(a) \in DOMAIN o => WrapperAddress(b) \in DOMAIN o2
    BY <1>1, <2>1 DEF Readdresses
  <2> QED
    BY <1>8, <2>3, <2>4, <2>5 DEF ContainerSound
<1>14. Sound(o2, h2)
  BY <1>9, <1>11, <1>12, <1>13 DEF Sound
<1>15. ASSUME NEW p \in DOMAIN h PROVE Part(o2, h2[p]) = Part(o, h[p])
  <2>1. CASE h[p].type = "shared"
    <3> DEFINE w == h[p].at
               i == o[w].inner
    <3>1. w \in DOMAIN o /\ w.what = "wrapper"
      BY <2>1, WrappedIs
    <3>2. /\ i.at \in DOMAIN o /\ i.at.what = "container"
          /\ o2[r[w]] = Wrapper(Pointer(r[i.at], i.type), o[w].counter)
      BY <1>4, <3>1
    <3>3. o2[r[w]].inner.at = r[i.at]
      BY <3>2 DEF Wrapper, Pointer
    <3>4. o2[r[i.at]] = o[i.at]
      BY <1>3, <3>2
    <3>5. h2[p].at = r[w] /\ h2[p].type = "shared"
      BY <1>6, <2>1
    <3> QED
      BY <2>1, <3>3, <3>4, <3>5 DEF Part, Inner
  <2>2. CASE h[p].type # "shared"
    <3>1. h[p].at \in DOMAIN o /\ h[p].at.what = "container"
      BY <2>2, HeldIs
    <3>2. o2[r[h[p].at]] = o[h[p].at]
      BY <1>3, <3>1
    <3> QED
      BY <1>6, <2>2, <3>2 DEF Part, Inner
  <2> QED
    BY <2>1, <2>2
<1>16. Parts(o2, h2) = Parts(o, h)
  BY <1>8, <1>15 DEF Parts
<1> QED
  BY <1>14, <1>16 DEF h2

-----------------------------------------------------------------------------
(***************************************************************************)
(* The operations on memory.  h gives what every holder has, v the values  *)
(* of it; nothing has been misused.                                        *)
(***************************************************************************)

\* Memory is sound, nothing has been misused, and v gives the values.
Good(m, h, v) == \E o : m = Mem(o) /\ Sound(o, h) /\ v = Parts(o, h)

LEMMA GoodIntro ==
  ASSUME NEW o, NEW h, NEW v, Sound(o, h), Parts(o, h) = v
  PROVE  Good(Mem(o), h, v)
BY DEF Good

LEMMA GoodMem ==
  ASSUME NEW m, NEW h, NEW v, Good(m, h, v)
  PROVE  m.misused = FALSE /\ DOMAIN v = DOMAIN h
BY DEF Good, Mem, Parts

LEMMA UseFits ==
  ASSUME NEW o, NEW c, Fits(Mem(o), c)
  PROVE  Use(Mem(o), c) = Mem(o) /\ Free(Mem(o), c) = Mem(Cut(o, {c.at}))
<1> DEFINE m == Mem(o)
<1>1. m.misused = FALSE /\ m.objects = o
  BY DEF Mem
<1>2. Use(m, c) = [m EXCEPT !.misused = FALSE]
  BY <1>1 DEF Use
<1>3. Use(m, c) = m
  BY <1>2 DEF Mem
<1>4. Free(m, c) = [m EXCEPT !.objects = Cut(o, {c.at})]
  BY <1>1, <1>3 DEF Free, Cut
<1> QED
  BY <1>3, <1>4 DEF Mem

LEMMA StoreIs ==
  ASSUME NEW o, NEW a, NEW x
  PROVE  Store(Mem(o), a, x) = Mem(Put(o, a, x))
<1> DEFINE m == Mem(o)
<1>1. m.objects = o
  BY DEF Mem
<1>2. Store(m, a, x) = [m EXCEPT !.objects = Put(o, a, x)]
  BY <1>1 DEF Store, Put
<1> QED
  BY <1>2 DEF Mem

\* What a holder has may be read, and is of the type that it says.
LEMMA ReadHeld ==
  ASSUME NEW m, NEW h, NEW v, Good(m, h, v), NEW p \in DOMAIN h
  PROVE  /\ Fits(m, h[p]) /\ Use(m, h[p]) = m /\ Read(m, h[p]) = m
         /\ Unwrap(m, h[p]) = Inner(m.objects, h[p])
         /\ Unwrap(m, h[p]).type \in Kinds /\ Unwrap(m, h[p]).type # "shared"
         /\ Fits(m, Unwrap(m, h[p]))
         /\ Unwrap(m, h[p]).at.key = p[2]
         /\ ValuesAt(m, h[p]) = v[p] /\ v[p] \in SUBSET Lows
         /\ h[p] \in Pointers /\ h[p].at.key = p[2]
<1>1. PICK o : m = Mem(o) /\ Sound(o, h) /\ v = Parts(o, h)
  BY DEF Good
<1>0. m.objects = o
  BY <1>1 DEF Mem
<1> DEFINE c == h[p]
           u == Unwrap(m, c)
<1>2. v[p] = Part(o, c)
  BY <1>1 DEF Parts
<1>3. Fits(m, c) /\ c \in Pointers /\ c.at.key = p[2]
  BY <1>0, <1>1, HeldIs DEF Fits
<1>4. u = Inner(o, c)
  BY <1>0, <1>3 DEF Unwrap, Inner
<1>5. /\ u.type \in Kinds /\ u.type # "shared" /\ u.at \in DOMAIN o /\ o[u.at] \in Objects
      /\ o[u.at].kind = u.type /\ u.at.key = p[2]
  <2>1. CASE c.type = "shared"
    BY <1>1, <1>4, <2>1, WrappedIs DEF Inner
  <2>2. CASE c.type # "shared"
    BY <1>1, <1>4, <2>2, HeldIs DEF Inner
  <2> QED
    BY <2>1, <2>2
<1>6. Fits(m, u)
  BY <1>0, <1>5 DEF Fits
<1>7. o[u.at].values \in SUBSET Lows
  BY <1>5 DEF Objects
<1>8. ValuesAt(m, c) = v[p]
  BY <1>0, <1>2, <1>4, <1>5, <1>6 DEF ValuesAt, Part
<1>9. v[p] \in SUBSET Lows
  BY <1>2, <1>4, <1>7 DEF Part
<1>10. Read(m, c) = m /\ Use(m, c) = m
  BY <1>1, <1>3, <1>6, UseFits DEF Read
<1> HIDE DEF c, u
<1> QED
  BY <1>0, <1>3, <1>4, <1>5, <1>6, <1>8, <1>9, <1>10 DEF c, u

LEMMA Bounded ==
  ASSUME NEW D, IsFiniteSet(D), D \subseteq Nat
  PROVE  \E n \in Nat : \A x \in D : x <= n
<1> DEFINE T == {s \in SUBSET D : \E n \in Nat : \A x \in s : x <= n}
<1>1. {} \in T
  OBVIOUS
<1>2. ASSUME NEW s \in SUBSET D, s # {}, s \ {CHOOSE x \in s : TRUE} \in T PROVE s \in T
  <2> DEFINE y == CHOOSE x \in s : TRUE
  <2>1. y \in s
    BY <1>2
  <2>2. s \ {y} \in T
    BY <1>2
  <2> HIDE DEF y
  <2>3. PICK n \in Nat : \A x \in s \ {y} : x <= n
    BY <2>2
  <2>4. y \in Nat
    BY <2>1
  <2>5. CASE y <= n
    <3>1. \A x \in s : x <= n
      BY <2>3, <2>5
    <3> QED
      BY <3>1
  <2>6. CASE n <= y
    <3>1. \A x \in s : x <= y
      BY <2>3, <2>4, <2>6
    <3> QED
      BY <2>4, <3>1
  <2> QED
    BY <2>4, <2>5, <2>6
<1> HIDE DEF T
<1>3. D \in T
  BY <1>1, <1>2, OneByOne
<1> QED
  BY <1>3 DEF T

LEMMA MaxIs ==
  ASSUME NEW D, IsFiniteSet(D), D \subseteq Nat, D # {}
  PROVE  Max(D) \in D /\ \A x \in D : x <= Max(D)
<1>1. PICK n \in Nat : \A x \in D : x <= n
  BY Bounded
<1> DEFINE R == {n - x : x \in D}
<1>2. R \in SUBSET Nat /\ R # {}
  <2>1. \A x \in D : n - x \in Nat
    BY <1>1
  <2> QED
    BY <2>1
<1> HIDE DEF R
<1>3. PICK r \in R : \A y \in R : r <= y
  BY <1>2, NatMinimum, Zenon
<1>4. PICK x \in D : r = n - x
  BY <1>3 DEF R
<1>5. \A y \in D : x >= y
  <2> TAKE y \in D
  <2>1. n - x <= n - y
    BY <1>3, <1>4 DEF R
  <2> QED
    BY <2>1
<1>6. \E z \in D : \A y \in D : z >= y
  BY <1>5
<1>7. Max(D) \in D /\ \A y \in D : Max(D) >= y
  BY <1>6, Zenon DEF Max
<1> QED
  BY <1>7

LEMMA FreshUnused ==
  ASSUME NEW o, NEW h, Typed(o, h), \A a \in DOMAIN o : a.what = "wrapper" => WrapperSound(o, h, a),
         NEW key \in Nat
  PROVE  Unused(o, FreshAddress(Mem(o), key)) /\ FreshAddress(Mem(o), key).key = key
<1> DEFINE B == {b \in DOMAIN o : b.key = key}
           N == {0} \union {a.n : a \in B}
           f == FreshAddress(Mem(o), key)
<1>1. IsFiniteSet(DOMAIN o) /\ DOMAIN o \subseteq Addresses
  BY DEF Typed
<1>2. IsFiniteSet(B)
  BY <1>1, FS_Subset
<1>3. \A a \in B : a.n \in Nat
  BY <1>1 DEF Addresses
<1>4. IsFiniteSet(N) /\ N \subseteq Nat /\ N # {}
  <2> DEFINE g == [a \in B |-> a.n]
             C == {a.n : a \in B}
  <2>1. g \in Surjection(B, C)
    BY DEF Surjection
  <2>2. IsFiniteSet(C)
    BY <1>2, <2>1, FS_Surjection
  <2>3. IsFiniteSet(N)
    BY <2>2, FS_AddElement
  <2> QED
    BY <1>3, <2>3
<1>5. f = Address(key, 1 + Max(N), {}, "container")
  BY DEF FreshAddress, Mem
<1> HIDE DEF N
<1>6. Max(N) \in Nat /\ \A x \in N : x <= Max(N)
  BY <1>4, MaxIs
<1>7. /\ f \in Addresses /\ f.what = "container" /\ f.key = key
      /\ f.n = 1 + Max(N)
  BY <1>5, <1>6 DEF Address, Addresses
<1>8. ASSUME NEW a \in DOMAIN o, a.key = key PROVE a.n # f.n
  <2>1. a.n \in N
    BY <1>8 DEF N
  <2> QED
    BY <1>4, <1>6, <1>7, <2>1
<1> HIDE DEF f
<1>9. f \notin DOMAIN o
  BY <1>7, <1>8
<1>10. WrapperAddress(f).key = key /\ WrapperAddress(f).n = f.n
  BY <1>7 DEF WrapperAddress, Addresses
<1>11. WrapperAddress(f) \notin DOMAIN o
  BY <1>8, <1>10
<1> QED
  BY <1>7, <1>9, <1>11 DEF Unused, f

\* What a new container is for: a new holder, or one that has let go of what it had.
LEMMA AllocateGood ==
  ASSUME NEW m, NEW h, NEW v, Good(m, h, v), NEW q, q \notin DOMAIN h, q[2] \in Nat,
         NEW kind \in Kinds, NEW S \in SUBSET Lows
  PROVE  LET new == Allocate(m, q[2], kind, S)
         IN  /\ Good(new.memory, Put(h, q, new.container), Put(v, q, S))
             /\ new.container \in Plain /\ new.container.at.key = q[2]
             /\ new.container.type # "shared"
<1>1. PICK o : m = Mem(o) /\ Sound(o, h) /\ v = Parts(o, h)
  BY DEF Good
<1> DEFINE a == FreshAddress(m, q[2])
           new == Allocate(m, q[2], kind, S)
<1>2. Unused(o, a) /\ a.key = q[2]
  BY <1>1, FreshUnused DEF Sound
<1>3. new.memory = Store(Mem(o), a, Object(kind, S)) /\ new.container = Pointer(a, kind)
  BY <1>1 DEF Allocate
<1>4. new.memory = Mem(Put(o, a, Object(kind, S)))
  BY <1>3, StoreIs
<1> HIDE DEF a, new
<1>5. /\ Sound(Put(o, a, Object(kind, S)), Put(h, q, new.container))
      /\ Parts(Put(o, a, Object(kind, S)), Put(h, q, new.container)) = Put(v, q, S)
  BY <1>1, <1>2, <1>3, PutNew
<1>6. Good(new.memory, Put(h, q, new.container), Put(v, q, S))
  BY <1>4, <1>5, GoodIntro
<1>7. new.container \in Plain /\ new.container.at.key = q[2] /\ new.container.type # "shared"
  BY <1>2, <1>3, KindsAssumption DEF Pointer, Plain, Unused
<1> QED
  BY <1>6, <1>7 DEF new

LEMMA CutTwice ==
  ASSUME NEW f, NEW x, NEW y
  PROVE  Cut(Cut(f, {x}), {y}) = Cut(Cut(f, {y}), {x})
BY DEF Cut

LEMMA CutPut ==
  ASSUME NEW f, NEW x, NEW y, NEW z, x \in DOMAIN f
  PROVE  /\ Cut(Put(f, x, y), {x}) = Cut(f, {x})
         /\ Put(Put(f, x, y), x, z) = Put(f, x, z)
         /\ Put(Cut(f, {x}), x, y) = Put(f, x, y)
<1>1. Cut(Put(f, x, y), {x}) = Cut(f, {x})
  BY DEF Cut, Put
<1>2. Put(Put(f, x, y), x, z) = Put(f, x, z)
  BY DEF Put
<1>3. Put(Cut(f, {x}), x, y) = Put(f, x, y)
  BY DEF Cut, Put
<1> QED
  BY <1>1, <1>2, <1>3

LEMMA PutCut ==
  ASSUME NEW f, f = [z \in DOMAIN f |-> f[z]], NEW x, NEW y
  PROVE  /\ x \notin DOMAIN f => Cut(Put(f, x, y), {x}) = f
         /\ x \in DOMAIN f /\ f[x] = y => Put(f, x, y) = f
<1>1. ASSUME x \notin DOMAIN f PROVE Cut(Put(f, x, y), {x}) = f
  <2>1. DOMAIN Cut(Put(f, x, y), {x}) = DOMAIN f
    BY <1>1 DEF Cut, Put
  <2>2. \A z \in DOMAIN f : Cut(Put(f, x, y), {x})[z] = f[z]
    BY <1>1 DEF Cut, Put
  <2>3. Cut(Put(f, x, y), {x}) = [z \in DOMAIN f |-> f[z]]
    BY <2>1, <2>2 DEF Cut
  <2> QED
    BY <2>3
<1>2. ASSUME x \in DOMAIN f, f[x] = y PROVE Put(f, x, y) = f
  <2>1. Put(f, x, y) = [z \in DOMAIN f |-> f[z]]
    BY <1>2 DEF Put
  <2> QED
    BY <2>1
<1> QED
  BY <1>1, <1>2

LEMMA PutSame ==
  ASSUME NEW f, f = [z \in DOMAIN f |-> f[z]], NEW x \in DOMAIN f
  PROVE  Put(f, x, f[x]) = f
BY PutCut

LEMMA MemWith ==
  ASSUME NEW o, NEW x, NEW t, t = [Mem(o) EXCEPT !.objects = x]
  PROVE  t = Mem(x)
BY DEF Mem

LEMMA CountedIs ==
  ASSUME NEW o, NEW c, Fits(Mem(o), c), NEW i, NEW n, o[c.at] = Wrapper(i, n), NEW d,
         o = [a \in DOMAIN o |-> o[a]]
  PROVE  Counted(Mem(o), c, d) = Mem(Put(o, c.at, Wrapper(i, n + d)))
<1> DEFINE m == Mem(o)
<1>1. m.objects = o /\ c.at \in DOMAIN o
  BY DEF Mem, Fits
<1>2. Counted(m, c, d) = [m EXCEPT !.objects = [o EXCEPT ![c.at] = [o[c.at] EXCEPT !.counter = @ + d]]]
  BY <1>1 DEF Counted
<1>3. [o[c.at] EXCEPT !.counter = @ + d] = Wrapper(i, n + d)
  BY DEF Wrapper
<1>4. [o EXCEPT ![c.at] = Wrapper(i, n + d)] = Put(o, c.at, Wrapper(i, n + d))
  BY <1>1 DEF Put
<1>5. Counted(m, c, d) = [m EXCEPT !.objects = Put(o, c.at, Wrapper(i, n + d))]
  BY <1>2, <1>3, <1>4
<1> QED
  BY <1>5, MemWith

\* A holder lets go: container_free.
LEMMA FreeGood ==
  ASSUME NEW m, NEW h, NEW v, Good(m, h, v), NEW p \in DOMAIN h
  PROVE  Good(ContainerFree(m, h[p]), Cut(h, {p}), Cut(v, {p}))
<1>1. PICK o : m = Mem(o) /\ Sound(o, h) /\ v = Parts(o, h)
  BY DEF Good
<1> DEFINE c == h[p]
<1>2. Fits(m, c) /\ m.objects = o
  BY <1>1, ReadHeld DEF Mem
<1>3. o = [a \in DOMAIN o |-> o[a]]
  BY <1>1 DEF Sound, Typed
<1>4. CASE c.type # "shared"
  <2>1. ContainerFree(m, c) = Mem(Cut(o, {c.at}))
    BY <1>1, <1>2, <1>4, UseFits DEF ContainerFree
  <2> HIDE DEF c
  <2> QED
    BY <1>1, <1>4, <2>1, DropPlain, GoodIntro DEF c
<1>5. CASE c.type = "shared"
  <2> DEFINE w == c.at
             i == o[w].inner
             n == o[w].counter
  <2>1. /\ w \in DOMAIN o /\ i \in Plain /\ i.at \in DOMAIN o /\ i.type # "shared"
        /\ o[i.at].kind = i.type /\ w # i.at /\ n \in Nat \ {0} /\ o[w] = Wrapper(i, n)
    BY <1>1, <1>5, WrappedIs
  <2>2. CASE n = 1
    <3>1. Unwrap(m, c) = i
      BY <1>2, <1>5 DEF Unwrap
    <3>2. Free(m, i) = Mem(Cut(o, {i.at}))
      <4>1. Fits(Mem(o), i)
        BY <2>1 DEF Fits, Mem
      <4> QED
        BY <1>1, <4>1, UseFits
    <3>3. Fits(Mem(Cut(o, {i.at})), c)
      BY <1>2, <2>1 DEF Fits, Mem, Cut
    <3>4. ContainerFree(m, c) = Mem(Cut(Cut(o, {i.at}), {w}))
      <4>1. ContainerFree(m, c) = Free(Free(m, i), c)
        BY <1>2, <1>5, <2>2, <3>1 DEF ContainerFree
      <4> QED
        BY <3>2, <3>3, <4>1, UseFits
    <3> DEFINE o2 == Cut(o, {w})
               h2 == Put(h, p, i)
    <3>5. Sound(o2, h2) /\ Parts(o2, h2) = v
      BY <1>1, <1>5, <2>2, TakeOut
    <3>6. p \in DOMAIN h2 /\ h2[p] = i
      BY DEF Put
    <3> HIDE DEF i, w, n, c, o2, h2
    <3>7. Sound(Cut(o2, {i.at}), Cut(h2, {p})) /\ Parts(Cut(o2, {i.at}), Cut(h2, {p})) = Cut(v, {p})
      BY <2>1, <3>5, <3>6, DropPlain
    <3>8. Cut(h2, {p}) = Cut(h, {p}) /\ Cut(o2, {i.at}) = Cut(Cut(o, {i.at}), {w})
      <4>1. Cut(h2, {p}) = Cut(h, {p})
        BY CutPut DEF h2
      <4>2. Cut(o2, {i.at}) = Cut(Cut(o, {i.at}), {w})
        <5>1. \A x, y : Cut(Cut(o, {x}), {y}) = Cut(Cut(o, {y}), {x})
          BY CutTwice
        <5>2. Cut(Cut(o, {w}), {i.at}) = Cut(Cut(o, {i.at}), {w})
          BY <5>1
        <5> QED
          BY <5>2 DEF o2
      <4> QED
        BY <4>1, <4>2
    <3> QED
      BY <3>4, <3>7, <3>8, GoodIntro DEF c
  <2>3. CASE n # 1
    <3>1. Counted(m, c, -1) = Mem(Put(o, w, Wrapper(i, n - 1)))
      <4> HIDE DEF i, n
      <4>1. Counted(m, c, -1) = Mem(Put(o, w, Wrapper(i, n + (-1))))
        BY <1>1, <1>2, <1>3, <2>1, CountedIs
      <4>2. n + (-1) = n - 1
        BY <2>1
      <4> QED
        BY <4>1, <4>2
    <3>2. ContainerFree(m, c) = Mem(Put(o, w, Wrapper(i, n - 1)))
      BY <1>2, <1>5, <2>3, <3>1 DEF ContainerFree
    <3>3. /\ Sound(Put(o, w, Wrapper(i, n - 1)), Cut(h, {p}))
          /\ Parts(Put(o, w, Wrapper(i, n - 1)), Cut(h, {p})) = Cut(v, {p})
      BY <1>1, <1>5, <2>3, LetGo
    <3> HIDE DEF i, w, n, c
    <3> QED
      BY <3>2, <3>3, GoodIntro DEF c
  <2> QED
    BY <2>2, <2>3
<1> QED
  BY <1>4, <1>5

\* A holder takes what it has for itself: get_writable_copy_if_shared.
LEMMA ExtractGood ==
  ASSUME NEW m, NEW h, NEW v, Good(m, h, v), NEW p \in DOMAIN h
  PROVE  LET own == ExtractCopy(m, h[p])
         IN  /\ Good(own.memory, Put(h, p, own.container), v)
             /\ own.container \in Plain /\ own.container.type # "shared"
             /\ own.container.at.key = p[2]
<1>1. PICK o : m = Mem(o) /\ Sound(o, h) /\ v = Parts(o, h)
  BY DEF Good
<1> DEFINE c == h[p]
           own == ExtractCopy(m, c)
<1>2. Fits(m, c) /\ m.objects = o /\ c.at.key = p[2] /\ c \in Pointers
  BY <1>1, ReadHeld DEF Mem
<1>3. o = [a \in DOMAIN o |-> o[a]] /\ h = [q \in DOMAIN h |-> h[q]]
  BY <1>1 DEF Sound, Typed
<1>4. CASE c.type # "shared"
  <2>1. own.memory = m /\ own.container = c
    BY <1>4 DEF ExtractCopy
  <2>2. Put(h, p, c) = h
    <3>1. h = [q \in DOMAIN h |-> h[q]]
      BY <1>3
    <3> QED
      BY <3>1, PutSame
  <2>3. c \in Plain
    BY <1>2, <1>4 DEF Pointers, Plain
  <2> QED
    BY <1>2, <1>4, <2>1, <2>2, <2>3
<1>5. CASE c.type = "shared"
  <2> DEFINE w == c.at
             i == o[w].inner
             n == o[w].counter
  <2>1. /\ w \in DOMAIN o /\ i \in Plain /\ i.at \in DOMAIN o /\ i.type # "shared"
        /\ i.at.key = p[2] /\ i.at \in Addresses /\ i.type \in Kinds
        /\ o[i.at].kind = i.type /\ w # i.at /\ n \in Nat \ {0} /\ o[w] = Wrapper(i, n)
        /\ o[i.at] \in Objects /\ Part(o, c) = o[i.at].values
    BY <1>1, <1>5, WrappedIs
  <2>2. Unwrap(m, c) = i
    BY <1>2, <1>5 DEF Unwrap
  <2>3. CASE n = 1
    <3>1. own.memory = Free(m, c) /\ own.container = i
      BY <1>2, <1>5, <2>2, <2>3 DEF ExtractCopy
    <3>2. own.memory = Mem(Cut(o, {w}))
      BY <1>1, <1>2, <3>1, UseFits
    <3>3. Sound(Cut(o, {w}), Put(h, p, i)) /\ Parts(Cut(o, {w}), Put(h, p, i)) = v
      BY <1>1, <1>5, <2>3, TakeOut
    <3> HIDE DEF i, w, n, c, own
    <3> QED
      BY <2>1, <3>1, <3>2, <3>3, GoodIntro DEF c, own
  <2>4. CASE n # 1
    <3> DEFINE o2 == Put(o, w, Wrapper(i, n - 1))
               S  == o[i.at].values
               new == Allocate(Mem(o2), p[2], i.type, S)
    <3>1. Counted(m, c, -1) = Mem(o2)
      <4> HIDE DEF i, n
      <4>1. Counted(m, c, -1) = Mem(Put(o, w, Wrapper(i, n + (-1))))
        BY <1>1, <1>2, <1>3, <2>1, CountedIs
      <4>2. n + (-1) = n - 1
        BY <2>1
      <4> QED
        BY <4>1, <4>2
    <3>2. own = Clone(Mem(o2), i)
      BY <1>2, <1>5, <2>2, <2>4, <3>1 DEF ExtractCopy
    <3>3. Sound(o2, Cut(h, {p})) /\ Parts(o2, Cut(h, {p})) = Cut(v, {p})
      BY <1>1, <1>5, <2>4, LetGo
    <3>4. Good(Mem(o2), Cut(h, {p}), Cut(v, {p}))
      BY <3>3, GoodIntro
    <3>5. i.at \in DOMAIN o2 /\ o2[i.at] = o[i.at]
      BY <2>1 DEF Put
    <3>6. v[p] = S /\ S \in SUBSET Lows
      BY <1>1, <2>1 DEF Parts, Objects
    <3> HIDE DEF i, n, w, o2
    <3>7. Fits(Mem(o2), i) /\ Unwrap(Mem(o2), i) = i
      BY <2>1, <3>5 DEF Fits, Mem, Unwrap
    <3>8. ValuesAt(Mem(o2), i) = S
      BY <2>1, <3>5, <3>7 DEF ValuesAt, Mem
    <3>9. Read(Mem(o2), i) = Mem(o2)
      BY <3>7, UseFits DEF Read
    <3>10. own = new
      BY <2>1, <3>2, <3>7, <3>8, <3>9 DEF Clone
    <3> HIDE DEF S, own, new
    <3>11. p \notin DOMAIN Cut(h, {p}) /\ p[2] \in Nat
      <4>1. i.at.key \in Nat
        BY <2>1 DEF Addresses
      <4> QED
        BY <2>1, <4>1 DEF Cut
    <3>12. /\ Good(new.memory, Put(Cut(h, {p}), p, new.container), Put(Cut(v, {p}), p, S))
           /\ new.container \in Plain /\ new.container.at.key = p[2]
           /\ new.container.type # "shared"
      BY <2>1, <3>4, <3>6, <3>11, AllocateGood DEF new
    <3>13. Put(Cut(h, {p}), p, new.container) = Put(h, p, new.container)
      BY CutPut
    <3>14. Put(Cut(v, {p}), p, S) = v
      <4>1. p \in DOMAIN v /\ v = [q \in DOMAIN v |-> v[q]]
        BY <1>1 DEF Parts
      <4> QED
        BY <3>6, <4>1, CutPut, PutCut
    <3> QED
      BY <3>10, <3>12, <3>13, <3>14 DEF own
  <2> QED
    BY <2>3, <2>4
<1> QED
  BY <1>4, <1>5

\* There is a holder for any key that has nothing yet.
LEMMA Spare ==
  ASSUME NEW h, NEW key
  PROVE  \E q : q \notin DOMAIN h /\ q[2] = key
<1> DEFINE B == {p[1] : p \in DOMAIN h}
           R == {b \in B : b \notin b}
           q == <<R, key>>
<1>1. R \notin B
  OBVIOUS
<1>2. q[1] = R /\ q[2] = key
  OBVIOUS
<1> HIDE DEF R, q
<1>3. q \notin DOMAIN h
  BY <1>1, <1>2
<1> QED
  BY <1>2, <1>3

\* What an operation in place leaves.
LEMMA InPlaceGood ==
  ASSUME NEW m, NEW h, NEW v, Good(m, h, v), NEW p \in DOMAIN h, p[2] \in Nat,
         h[p].type # "shared", NEW S \in SUBSET Lows, NEW r \in InPlace(m, h[p], S)
  PROVE  /\ Good(r.memory, Put(h, p, r.container), Put(v, p, S))
         /\ r.container \in Plain /\ r.container.at.key = p[2]
         /\ r.container.type # "shared"
<1>1. PICK o : m = Mem(o) /\ Sound(o, h) /\ v = Parts(o, h)
  BY DEF Good
<1> DEFINE c == h[p]
<1>2. Fits(m, c) /\ m.objects = o /\ c.at.key = p[2] /\ c \in Pointers
  BY <1>1, ReadHeld DEF Mem
<1>3. CASE r = [memory |-> IF Fits(m, c) THEN Store(m, c.at, Object(c.type, S)) ELSE Use(m, c),
                container |-> c]
  <2>1. r.memory = Mem(Put(o, c.at, Object(c.type, S))) /\ r.container = c
    BY <1>1, <1>2, <1>3, StoreIs
  <2>2. Put(h, p, c) = h
    <3>1. h = [q \in DOMAIN h |-> h[q]]
      BY <1>1 DEF Sound, Typed
    <3> QED
      BY <3>1, PutSame
  <2>3. c \in Plain
    BY <1>2 DEF Pointers, Plain
  <2>4. /\ Sound(Put(o, c.at, Object(c.type, S)), h)
        /\ Parts(Put(o, c.at, Object(c.type, S)), h) = Put(v, p, S)
    BY <1>1, Overwrite
  <2> HIDE DEF c
  <2>5. Good(r.memory, h, Put(v, p, S))
    BY <2>1, <2>4, GoodIntro
  <2> QED
    BY <1>2, <2>1, <2>2, <2>3, <2>5 DEF c
<1>4. ASSUME NEW kind \in Kinds,
             r = [memory |-> Free(Allocate(m, c.at.key, kind, S).memory, c),
                  container |-> Allocate(m, c.at.key, kind, S).container]
      PROVE  /\ Good(r.memory, Put(h, p, r.container), Put(v, p, S))
             /\ r.container \in Plain /\ r.container.at.key = p[2]
             /\ r.container.type # "shared"
  <2> DEFINE new == Allocate(m, p[2], kind, S)
             d   == new.container
  <2>1. PICK q : q \notin DOMAIN h /\ q[2] = p[2]
    BY Spare
  <2>2. r.memory = Free(new.memory, c) /\ r.container = d
    BY <1>2, <1>4
  <2> DEFINE h2 == Put(h, q, d)
             v2 == Put(v, q, S)
             h3 == Cut(h2, {p})
             v3 == Cut(v2, {p})
  <2>3. /\ Good(new.memory, h2, v2) /\ d \in Plain /\ d.at.key = p[2] /\ d.type # "shared"
    BY <2>1, AllocateGood
  <2>4. p \in DOMAIN h2 /\ h2[p] = c /\ p # q
    BY <2>1 DEF Put
  <2> HIDE DEF new, d, h2, v2
  <2>5. Good(r.memory, h3, v3)
    <3>1. Good(ContainerFree(new.memory, h2[p]), h3, v3)
      BY <2>3, <2>4, FreeGood
    <3> QED
      BY <2>2, <2>4, <3>1 DEF ContainerFree
  <2>6. q \in DOMAIN h3 /\ p \notin DOMAIN h3 /\ h3[q] = d
    BY <2>1, <2>4 DEF Cut, Put, h2
  <2>7. v3[q] = S
    <3>1. DOMAIN v = DOMAIN h
      BY <1>1 DEF Parts
    <3> QED
      BY <2>1, <2>4, <3>1 DEF Cut, Put, v2
  <2>8. Good(r.memory, Put(Cut(h3, {q}), p, d), Put(Cut(v3, {q}), p, S))
    <3> HIDE DEF h3, v3
    <3>1. PICK o3 : r.memory = Mem(o3) /\ Sound(o3, h3) /\ v3 = Parts(o3, h3)
      BY <2>5 DEF Good
    <3>2. Sound(o3, Put(Cut(h3, {q}), p, d)) /\ Parts(o3, Put(Cut(h3, {q}), p, d)) = Put(Cut(v3, {q}), p, S)
      BY <2>1, <2>6, <2>7, <3>1, HandOver
    <3> QED
      BY <3>1, <3>2, GoodIntro
  <2>9. Put(Cut(h3, {q}), p, d) = Put(h, p, d)
    <3>1. h = [z \in DOMAIN h |-> h[z]]
      BY <1>1 DEF Sound, Typed
    <3>2. Cut(h3, {q}) = Cut(Cut(h2, {q}), {p})
      <4>1. \A x, y : Cut(Cut(h2, {x}), {y}) = Cut(Cut(h2, {y}), {x})
        BY CutTwice
      <4> QED
        BY <4>1
    <3>3. Cut(h2, {q}) = h
      BY <2>1, <3>1, PutCut DEF h2
    <3> QED
      BY <3>2, <3>3, CutPut
  <2>10. Put(Cut(v3, {q}), p, S) = Put(v, p, S)
    <3>1. v = [z \in DOMAIN v |-> v[z]] /\ DOMAIN v = DOMAIN h
      BY <1>1 DEF Parts
    <3>2. Cut(v3, {q}) = Cut(Cut(v2, {q}), {p})
      <4>1. \A x, y : Cut(Cut(v2, {x}), {y}) = Cut(Cut(v2, {y}), {x})
        BY CutTwice
      <4> QED
        BY <4>1
    <3>3. Cut(v2, {q}) = v
      BY <2>1, <3>1, PutCut DEF v2
    <3> QED
      BY <3>1, <3>2, <3>3, CutPut
  <2> QED
    BY <2>2, <2>3, <2>8, <2>9, <2>10
<1> QED
  BY <1>3, <1>4 DEF InPlace

\* A copy that shares: its holder comes to hold the wrapper, as the source does.
SharedCopy(m, c) == GetCopyOfContainer(m, c, TRUE)

LEMMA CopyGood ==
  ASSUME NEW m, NEW h, NEW v, Good(m, h, v), NEW p \in DOMAIN h,
         NEW q, q \notin DOMAIN h, q[2] = p[2]
  PROVE  LET got == SharedCopy(m, h[p])
         IN  /\ Good(got.memory, Put(Put(h, p, got.source), q, got.copy), Put(v, q, v[p]))
             /\ got.source \in Pointers /\ got.copy = got.source
<1>1. PICK o : m = Mem(o) /\ Sound(o, h) /\ v = Parts(o, h)
  BY DEF Good
<1> DEFINE c == h[p]
           got == SharedCopy(m, c)
<1>2. Fits(m, c) /\ m.objects = o /\ c.at.key = p[2] /\ c \in Pointers /\ Use(m, c) = m
  BY <1>1, ReadHeld DEF Mem
<1>3. o = [a \in DOMAIN o |-> o[a]]
  BY <1>1 DEF Sound, Typed
<1>4. CASE c.type = "shared"
  <2> DEFINE w == c.at
             i == o[w].inner
             n == o[w].counter
  <2>1. n \in Nat \ {0} /\ o[w] = Wrapper(i, n)
    BY <1>1, <1>4, WrappedIs
  <2>2. got.memory = Counted(m, c, 1) /\ got.source = c /\ got.copy = c
    BY <1>4 DEF SharedCopy, GetCopyOfContainer
  <2>3. got.memory = Mem(Put(o, w, Wrapper(i, n + 1)))
    <3> HIDE DEF i, n, got
    <3> QED
      BY <1>1, <1>2, <1>3, <2>1, <2>2, CountedIs
  <2>4. Put(h, p, c) = h
    <3>1. h = [z \in DOMAIN h |-> h[z]]
      BY <1>1 DEF Sound, Typed
    <3> QED
      BY <3>1, PutSame
  <2>5. /\ Sound(Put(o, w, Wrapper(i, n + 1)), Put(h, q, c))
        /\ Parts(Put(o, w, Wrapper(i, n + 1)), Put(h, q, c)) = Put(v, q, v[p])
    BY <1>1, <1>4, ShareMore
  <2> HIDE DEF c, got, w, i, n
  <2> QED
    BY <1>2, <2>2, <2>3, <2>4, <2>5, GoodIntro DEF got, c
<1>5. CASE c.type # "shared"
  <2> DEFINE w  == WrapperAddress(c.at)
             d  == Pointer(w, "shared")
             o2 == Put(o, w, Wrapper(c, 1))
             h2 == Put(h, p, d)
             o3 == Put(o2, w, Wrapper(c, 2))
  <2>1. got.memory = Store(m, w, Wrapper(c, 2)) /\ got.source = d /\ got.copy = d
    BY <1>2, <1>5 DEF SharedCopy, GetCopyOfContainer, Pointer
  <2>2. Sound(o2, h2) /\ Parts(o2, h2) = v
    BY <1>1, <1>5, Wrap
  <2>3. /\ p \in DOMAIN h2 /\ h2[p] = d /\ d.type = "shared" /\ d.at = w /\ q \notin DOMAIN h2
        /\ o2[w] = Wrapper(c, 1) /\ w \in DOMAIN o2
    <3>1. d.type = "shared" /\ d.at = w
      BY DEF Pointer
    <3> QED
      BY <3>1 DEF Put
  <2>4. o2[w].inner = c /\ o2[w].counter = 1
    BY <2>3 DEF Wrapper
  <2> HIDE DEF o2, h2, d, w, c, got
  <2>5. /\ Sound(Put(o2, d.at, Wrapper(o2[d.at].inner, o2[d.at].counter + 1)), Put(h2, q, d))
        /\ Parts(Put(o2, d.at, Wrapper(o2[d.at].inner, o2[d.at].counter + 1)), Put(h2, q, d)) = Put(v, q, v[p])
    BY <2>2, <2>3, ShareMore
  <2>6. Sound(o3, Put(h2, q, d)) /\ Parts(o3, Put(h2, q, d)) = Put(v, q, v[p])
    <3>1. Wrapper(o2[d.at].inner, o2[d.at].counter + 1) = Wrapper(c, 2)
      BY <2>3, <2>4
    <3> QED
      BY <2>3, <2>5, <3>1
  <2>7. got.memory = Mem(o3)
    <3>1. Put(o2, w, Wrapper(c, 2)) = Put(o, w, Wrapper(c, 2))
      BY DEF Put, o2
    <3> QED
      BY <1>1, <2>1, <3>1, StoreIs
  <2>8. d \in Pointers
    <3>1. w \in Addresses
      BY <1>2, WrapperOf DEF Pointers, w
    <3> QED
      BY <3>1 DEF d, Pointer, Pointers
  <2> QED
    BY <2>1, <2>6, <2>7, <2>8, GoodIntro DEF got, c, h2
<1> QED
  BY <1>4, <1>5

-----------------------------------------------------------------------------
(***************************************************************************)
(* The entries of a bitmap.                                                *)
(***************************************************************************)

LEMMA InsertAtIs ==
  ASSUME NEW S, NEW s \in Seq(S), NEW i \in 1 .. Len(s) + 1, NEW e \in S
  PROVE  /\ InsertAt(s, i, e) \in Seq(S) /\ Len(InsertAt(s, i, e)) = Len(s) + 1
         /\ \A j \in 1 .. Len(s) + 1 :
              InsertAt(s, i, e)[j] = IF j < i THEN s[j] ELSE IF j = i THEN e ELSE s[j - 1]
<1> DEFINE a == SubSeq(s, 1, i - 1)
           z == SubSeq(s, i, Len(s))
           t == InsertAt(s, i, e)
<1>1. Len(s) \in Nat
  BY LenProperties
<1>2. a \in Seq(S) /\ Len(a) = i - 1 /\ \A j \in 1 .. i - 1 : a[j] = s[j]
  <2>1. /\ a \in Seq(S)
        /\ Len(a) = IF 1 <= i - 1 THEN (i - 1) - 1 + 1 ELSE 0
        /\ \A j \in 1 .. (i - 1) - 1 + 1 : a[j] = s[1 + j - 1]
    <3>1. 1 \in 1 .. Len(s) + 1 /\ i - 1 \in 1 - 1 .. Len(s)
      BY <1>1
    <3> QED
      BY <3>1, SubSeqProperties
  <2> QED
    BY <1>1, <2>1
<1>3. z \in Seq(S) /\ Len(z) = Len(s) - i + 1 /\ \A j \in 1 .. Len(s) - i + 1 : z[j] = s[i + j - 1]
  <2>1. /\ z \in Seq(S)
        /\ Len(z) = IF i <= Len(s) THEN Len(s) - i + 1 ELSE 0
        /\ \A j \in 1 .. Len(s) - i + 1 : z[j] = s[i + j - 1]
    <3>1. Len(s) \in i - 1 .. Len(s)
      BY <1>1
    <3> QED
      BY <3>1, SubSeqProperties
  <2> QED
    BY <1>1, <2>1
<1> HIDE DEF a, z
<1>4. t = (a \o <<e>>) \o z
  BY DEF InsertAt, a, z
<1>5. <<e>> \in Seq(S) /\ Len(<<e>>) = 1 /\ <<e>>[1] = e
  OBVIOUS
<1> DEFINE ae == a \o <<e>>
<1>6. /\ ae \in Seq(S) /\ Len(ae) = Len(a) + 1
      /\ \A j \in 1 .. Len(a) + 1 : ae[j] = IF j <= Len(a) THEN a[j] ELSE <<e>>[j - Len(a)]
  BY <1>2, <1>5, ConcatProperties
<1> HIDE DEF ae, t
<1>7. /\ t \in Seq(S) /\ Len(t) = Len(ae) + Len(z)
      /\ \A j \in 1 .. Len(ae) + Len(z) : t[j] = IF j <= Len(ae) THEN ae[j] ELSE z[j - Len(ae)]
  BY <1>3, <1>4, <1>6, ConcatProperties DEF ae
<1>8. Len(ae) = i /\ Len(t) = Len(s) + 1
  BY <1>1, <1>2, <1>3, <1>6, <1>7
<1>9. ASSUME NEW j \in 1 .. Len(s) + 1
      PROVE  t[j] = IF j < i THEN s[j] ELSE IF j = i THEN e ELSE s[j - 1]
  <2>1. t[j] = IF j <= i THEN ae[j] ELSE z[j - i]
    BY <1>1, <1>3, <1>7, <1>8
  <2>2. CASE j < i
    <3>1. ae[j] = a[j] /\ a[j] = s[j]
      BY <1>1, <1>2, <1>6, <2>2
    <3> QED
      BY <1>1, <2>1, <2>2, <3>1
  <2>3. CASE j = i
    <3>1. ae[j] = <<e>>[1]
      BY <1>1, <1>2, <1>6, <2>3
    <3> QED
      BY <1>1, <1>5, <2>1, <2>3, <3>1
  <2>4. CASE j > i
    <3>1. z[j - i] = s[i + (j - i) - 1]
      BY <1>1, <1>3, <2>4
    <3>2. i + (j - i) - 1 = j - 1
      BY <1>1
    <3> QED
      BY <1>1, <2>1, <2>4, <3>1, <3>2
  <2> QED
    BY <1>1, <2>2, <2>3, <2>4
<1> QED
  BY <1>7, <1>8, <1>9 DEF t

\* What is before and after a gap.
LEMMA ShiftedIs ==
  ASSUME NEW S, NEW s \in Seq(S), NEW first \in 1 .. Len(s) + 1, NEW size \in 0 .. first - 1
  PROVE  /\ Shifted(s, first, size) \in Seq(S)
         /\ Len(Shifted(s, first, size)) = size + Len(s) - first + 1
         /\ \A j \in 1 .. size + Len(s) - first + 1 :
              Shifted(s, first, size)[j] = IF j <= size THEN s[j] ELSE s[j - size + first - 1]
<1> DEFINE a == SubSeq(s, 1, size)
           z == SubSeq(s, first, Len(s))
           t == Shifted(s, first, size)
<1>1. Len(s) \in Nat
  BY LenProperties
<1>2. a \in Seq(S) /\ Len(a) = size /\ \A j \in 1 .. size : a[j] = s[j]
  <2>1. /\ a \in Seq(S)
        /\ Len(a) = IF 1 <= size THEN size - 1 + 1 ELSE 0
        /\ \A j \in 1 .. size - 1 + 1 : a[j] = s[1 + j - 1]
    <3>1. 1 \in 1 .. Len(s) + 1 /\ size \in 1 - 1 .. Len(s)
      BY <1>1
    <3> QED
      BY <3>1, SubSeqProperties
  <2> QED
    BY <1>1, <2>1
<1>3. /\ z \in Seq(S) /\ Len(z) = Len(s) - first + 1
      /\ \A j \in 1 .. Len(s) - first + 1 : z[j] = s[first + j - 1]
  <2>1. /\ z \in Seq(S)
        /\ Len(z) = IF first <= Len(s) THEN Len(s) - first + 1 ELSE 0
        /\ \A j \in 1 .. Len(s) - first + 1 : z[j] = s[first + j - 1]
    <3>1. Len(s) \in first - 1 .. Len(s)
      BY <1>1
    <3> QED
      BY <3>1, SubSeqProperties
  <2> QED
    BY <1>1, <2>1
<1> HIDE DEF a, z
<1>4. t = a \o z
  BY DEF Shifted, a, z
<1> HIDE DEF t
<1>5. /\ t \in Seq(S) /\ Len(t) = Len(a) + Len(z)
      /\ \A j \in 1 .. Len(a) + Len(z) : t[j] = IF j <= Len(a) THEN a[j] ELSE z[j - Len(a)]
  BY <1>2, <1>3, <1>4, ConcatProperties
<1>6. Len(t) = size + Len(s) - first + 1
  BY <1>1, <1>2, <1>3, <1>5
<1>7. ASSUME NEW j \in 1 .. size + Len(s) - first + 1
      PROVE  t[j] = IF j <= size THEN s[j] ELSE s[j - size + first - 1]
  <2>1. t[j] = IF j <= size THEN a[j] ELSE z[j - size]
    <3>1. j \in 1 .. Len(a) + Len(z)
      BY <1>1, <1>2, <1>3
    <3>2. t[j] = IF j <= Len(a) THEN a[j] ELSE z[j - Len(a)]
      BY <1>5, <3>1
    <3> QED
      BY <1>2, <3>2
  <2>2. CASE j <= size
    BY <1>2, <2>1, <2>2
  <2>3. CASE ~(j <= size)
    <3>1. z[j - size] = s[first + (j - size) - 1]
      BY <1>1, <1>3, <2>3
    <3>2. first + (j - size) - 1 = j - size + first - 1
      <4>1. first \in Int /\ j \in Int /\ size \in Int
        BY <1>1
      <4> QED
        BY ONLY <4>1
    <3> QED
      BY <2>1, <2>3, <3>1, <3>2
  <2> QED
    BY <2>2, <2>3
<1> QED
  BY <1>5, <1>6, <1>7 DEF t

LEMMA RemoveAtIs ==
  ASSUME NEW S, NEW s \in Seq(S), NEW i \in 1 .. Len(s)
  PROVE  /\ RemoveAt(s, i) \in Seq(S) /\ Len(RemoveAt(s, i)) = Len(s) - 1
         /\ \A j \in 1 .. Len(s) - 1 : RemoveAt(s, i)[j] = IF j < i THEN s[j] ELSE s[j + 1]
<1>1. Len(s) \in Nat
  BY LenProperties
<1>2. RemoveAt(s, i) = Shifted(s, i + 1, i - 1)
  BY DEF RemoveAt, Shifted
<1>3. i + 1 \in 1 .. Len(s) + 1 /\ i - 1 \in 0 .. (i + 1) - 1
  BY <1>1
<1> DEFINE t == Shifted(s, i + 1, i - 1)
<1>4. /\ t \in Seq(S) /\ Len(t) = (i - 1) + Len(s) - (i + 1) + 1
      /\ \A j \in 1 .. (i - 1) + Len(s) - (i + 1) + 1 :
           t[j] = IF j <= i - 1 THEN s[j] ELSE s[j - (i - 1) + (i + 1) - 1]
  BY <1>3, ShiftedIs
<1> HIDE DEF t
<1>5. (i - 1) + Len(s) - (i + 1) + 1 = Len(s) - 1
  BY <1>1
<1>6. ASSUME NEW j \in 1 .. Len(s) - 1 PROVE t[j] = IF j < i THEN s[j] ELSE s[j + 1]
  <2>1. j - (i - 1) + (i + 1) - 1 = j + 1 /\ (j <= i - 1 <=> j < i)
    BY <1>1
  <2> QED
    BY <1>4, <1>5, <2>1
<1>7. t = RemoveAt(s, i)
  BY <1>2 DEF t
<1>8. t \in Seq(S) /\ Len(t) = Len(s) - 1
  BY <1>4, <1>5
<1> QED
  BY <1>6, <1>7, <1>8

\* An entry of a bitmap.
EntryRecords == [key : Nat, c : Pointers]

\* What the places O of the entries s show of the bitmap b: what it has, under
\* increasing keys.
Shows(s, O, h, b) ==
  /\ s \in Seq(EntryRecords) /\ O \subseteq 1 .. Len(s)
  /\ \A i, j \in O : i < j => s[i].key < s[j].key
  /\ \A i \in O : <<b, s[i].key>> \in DOMAIN h /\ h[<<b, s[i].key>>] = s[i].c
  /\ \A p \in DOMAIN h : p[1] = b => \E i \in O : p = <<b, s[i].key>>

LEMMA ShownAre ==
  ASSUME NEW s, NEW O, NEW h, NEW b, Shows(s, O, h, b)
  PROVE  /\ Len(s) \in Nat /\ O \subseteq 1 .. Len(s)
         /\ \A i \in 1 .. Len(s) : s[i].key \in Nat /\ s[i].c \in Pointers /\ s[i] = Entry(s[i].key, s[i].c)
         /\ \A i, j \in O : /\ i < j => s[i].key < s[j].key
                            /\ s[i].key < s[j].key => i < j
                            /\ s[i].key = s[j].key => i = j
<1>1. s \in Seq(EntryRecords) /\ Len(s) \in Nat
  BY LenProperties DEF Shows
<1>2. \A i \in 1 .. Len(s) : s[i] \in EntryRecords
  BY <1>1, ElementOfSeq
<1>3. \A i \in 1 .. Len(s) : s[i].key \in Nat /\ s[i].c \in Pointers /\ s[i] = Entry(s[i].key, s[i].c)
  BY <1>2 DEF EntryRecords, Entry
<1>4. ASSUME NEW i \in O, NEW j \in O
      PROVE  /\ i < j => s[i].key < s[j].key
             /\ s[i].key < s[j].key => i < j
             /\ s[i].key = s[j].key => i = j
  <2>1. /\ i < j => s[i].key < s[j].key
        /\ j < i => s[j].key < s[i].key
        /\ i \in 1 .. Len(s) /\ j \in 1 .. Len(s)
    BY DEF Shows
  <2>2. s[i].key \in Nat /\ s[j].key \in Nat /\ i \in Nat /\ j \in Nat
    BY <1>1, <1>3, <2>1
  <2> QED
    BY <2>1, <2>2
<1> QED
  BY <1>1, <1>3, <1>4 DEF Shows

LEMMA EntryIs ==
  ASSUME NEW k \in Nat, NEW c \in Pointers
  PROVE  Entry(k, c) \in EntryRecords /\ Entry(k, c).key = k /\ Entry(k, c).c = c
BY DEF Entry, EntryRecords

\* Changes of what other bitmaps have do not show.
LEMMA ShowsElse ==
  ASSUME NEW s, NEW O, NEW h, NEW b, Shows(s, O, h, b), NEW g,
         \A p : p[1] = b => (p \in DOMAIN g <=> p \in DOMAIN h),
         \A p \in DOMAIN g : p[1] = b => g[p] = h[p]
  PROVE  Shows(s, O, g, b)
<1>1. \A i \in O : <<b, s[i].key>> \in DOMAIN g /\ g[<<b, s[i].key>>] = s[i].c
  <2> TAKE i \in O
  <2>1. <<b, s[i].key>>[1] = b /\ <<b, s[i].key>> \in DOMAIN h /\ h[<<b, s[i].key>>] = s[i].c
    BY DEF Shows
  <2> QED
    BY <2>1
<1> QED
  BY <1>1 DEF Shows

\* After a change of one entry, to c under the same key.
LEMMA ShowsSet ==
  ASSUME NEW s, NEW O, NEW h, NEW b, Shows(s, O, h, b), NEW i \in O, NEW c \in Pointers,
         NEW t, t = [s EXCEPT ![i] = Entry(s[i].key, c)]
  PROVE  Shows(t, O, Put(h, <<b, s[i].key>>, c), b)
<1> DEFINE k == s[i].key
           g == Put(h, <<b, k>>, c)
           e == Entry(k, c)
<1>1. s \in Seq(EntryRecords) /\ i \in 1 .. Len(s) /\ k \in Nat
  <2>1. s \in Seq(EntryRecords) /\ i \in 1 .. Len(s)
    BY DEF Shows
  <2>2. k \in Nat
    BY <2>1, ShownAre
  <2> QED
    BY <2>1, <2>2
<1>2. e \in EntryRecords /\ e.key = k /\ e.c = c
  BY <1>1, EntryIs
<1> HIDE DEF e
<1>3. t \in Seq(EntryRecords) /\ Len(t) = Len(s) /\ \A j \in 1 .. Len(s) : t[j] = IF j = i THEN e ELSE s[j]
  BY <1>1, <1>2, ExceptSeq DEF e
<1>4. \A j \in O : t[j].key = s[j].key /\ t[j].c = IF j = i THEN c ELSE s[j].c
  BY <1>2, <1>3 DEF Shows
<1>5. \A j \in O : <<b, s[j].key>> = <<b, k>> => j = i
  BY ShownAre
<1>6. DOMAIN g = DOMAIN h /\ \A p \in DOMAIN h : g[p] = IF p = <<b, k>> THEN c ELSE h[p]
  <2>1. <<b, k>> \in DOMAIN h
    BY DEF Shows
  <2> QED
    BY <2>1 DEF Put
<1> HIDE DEF g, k
<1>7. \A j \in O : <<b, t[j].key>> \in DOMAIN g /\ g[<<b, t[j].key>>] = t[j].c
  <2> TAKE j \in O
  <2>1. <<b, s[j].key>> \in DOMAIN h /\ h[<<b, s[j].key>>] = s[j].c
    BY DEF Shows
  <2> QED
    BY <1>4, <1>5, <1>6, <2>1 DEF k
<1>8. \A j, l \in O : j < l => t[j].key < t[l].key
  BY <1>4 DEF Shows
<1>9. \A p \in DOMAIN g : p[1] = b => \E j \in O : p = <<b, t[j].key>>
  <2> TAKE p \in DOMAIN g
  <2> HAVE p[1] = b
  <2>1. PICK j \in O : p = <<b, s[j].key>>
    BY <1>6 DEF Shows
  <2> QED
    BY <1>4, <2>1
<1>10. O \subseteq 1 .. Len(t)
  BY <1>3 DEF Shows
<1>11. Shows(t, O, g, b)
  BY <1>3, <1>7, <1>8, <1>9, <1>10 DEF Shows
<1> QED
  BY <1>11 DEF g, k

\* After a new entry at its place.
LEMMA ShowsInsert ==
  ASSUME NEW s, NEW h, NEW b, Shows(s, 1 .. Len(s), h, b), NEW k \in Nat,
         NEW c \in Pointers,
         NEW i \in 1 .. Len(s) + 1,
         \A j \in 1 .. Len(s) : IF j < i THEN s[j].key < k ELSE k < s[j].key,
         NEW t, t \in Seq(EntryRecords), Len(t) = Len(s) + 1,
         \A j \in 1 .. Len(s) + 1 :
           t[j] = IF j < i THEN s[j] ELSE IF j = i THEN Entry(k, c) ELSE s[j - 1]
  PROVE  /\ <<b, k>> \notin DOMAIN h
         /\ Shows(t, 1 .. Len(t), Put(h, <<b, k>>, c), b)
<1> DEFINE g == Put(h, <<b, k>>, c)
           e == Entry(k, c)
           n == Len(s)
<1>1. /\ n \in Nat /\ \A j \in 1 .. n : s[j].key \in Nat
      /\ \A j, l \in 1 .. n : j < l => s[j].key < s[l].key
  BY ShownAre
<1>2. e.key = k /\ e.c = c
  BY EntryIs
<1> HIDE DEF e
<1>3. \A j \in 1 .. n + 1 : t[j] = IF j < i THEN s[j] ELSE IF j = i THEN e ELSE s[j - 1]
  BY DEF e
<1>4. \A j \in 1 .. n : s[j].key # k
  BY <1>1
<1>5. <<b, k>> \notin DOMAIN h
  <2> SUFFICES ASSUME <<b, k>> \in DOMAIN h PROVE FALSE
    OBVIOUS
  <2>1. PICK j \in 1 .. n : <<b, k>> = <<b, s[j].key>>
    BY DEF Shows
  <2> QED
    BY <1>4, <2>1
<1>6. DOMAIN g = DOMAIN h \union {<<b, k>>} /\ g[<<b, k>>] = c /\ \A p \in DOMAIN h : g[p] = h[p]
  BY <1>5 DEF Put
<1> HIDE DEF g
<1>7. ASSUME NEW j \in 1 .. n + 1, NEW l \in 1 .. n + 1, j < l PROVE t[j].key < t[l].key
  <2>1. CASE l < i
    <3>1. t[j] = s[j] /\ t[l] = s[l] /\ j \in 1 .. n /\ l \in 1 .. n
      BY <1>1, <1>3, <1>7, <2>1
    <3> QED
      BY <1>1, <1>7, <3>1
  <2>2. CASE l = i
    <3>1. t[j] = s[j] /\ t[l] = e /\ j \in 1 .. n /\ j < i
      BY <1>1, <1>3, <1>7, <2>2
    <3> QED
      BY <1>2, <3>1
  <2>3. CASE l > i /\ j < i
    <3>1. t[j] = s[j] /\ t[l] = s[l - 1] /\ j \in 1 .. n /\ l - 1 \in 1 .. n /\ ~(l - 1 < i)
      BY <1>1, <1>3, <1>7, <2>3
    <3>2. s[j].key < k /\ k < s[l - 1].key /\ s[j].key \in Nat /\ s[l - 1].key \in Nat
      BY <1>1, <2>3, <3>1
    <3> QED
      BY <3>1, <3>2
  <2>4. CASE l > i /\ j = i
    <3>1. t[j] = e /\ t[l] = s[l - 1] /\ l - 1 \in 1 .. n /\ ~(l - 1 < i)
      BY <1>1, <1>3, <1>7, <2>4
    <3> QED
      BY <1>2, <3>1
  <2>5. CASE l > i /\ j > i
    <3>1. t[j] = s[j - 1] /\ t[l] = s[l - 1] /\ l - 1 \in 1 .. n /\ j - 1 \in 1 .. n /\ j - 1 < l - 1
      BY <1>1, <1>3, <1>7, <2>5
    <3> QED
      BY <1>1, <3>1
  <2> QED
    BY <1>1, <2>1, <2>2, <2>3, <2>4, <2>5
<1>8. ASSUME NEW j \in 1 .. n + 1 PROVE <<b, t[j].key>> \in DOMAIN g /\ g[<<b, t[j].key>>] = t[j].c
  <2>0. \A l \in 1 .. n : <<b, s[l].key>> \in DOMAIN h /\ h[<<b, s[l].key>>] = s[l].c
    BY DEF Shows
  <2>1. CASE j < i
    <3>1. t[j] = s[j] /\ j \in 1 .. n
      BY <1>1, <1>3, <2>1
    <3> QED
      BY <1>6, <2>0, <3>1
  <2>2. CASE j = i
    BY <1>2, <1>3, <1>6, <2>2
  <2>3. CASE j > i
    <3>1. t[j] = s[j - 1] /\ j - 1 \in 1 .. n
      BY <1>1, <1>3, <2>3
    <3> QED
      BY <1>6, <2>0, <3>1
  <2> QED
    BY <1>1, <2>1, <2>2, <2>3
<1>9. ASSUME NEW p \in DOMAIN g, p[1] = b PROVE \E j \in 1 .. n + 1 : p = <<b, t[j].key>>
  <2>1. CASE p = <<b, k>>
    <3>1. t[i].key = k
      BY <1>2, <1>3
    <3> QED
      BY <2>1, <3>1
  <2>2. CASE p \in DOMAIN h
    <3>1. PICK j \in 1 .. n : p = <<b, s[j].key>>
      BY <1>9, <2>2 DEF Shows
    <3>2. CASE j < i
      <4>1. t[j] = s[j] /\ j \in 1 .. n + 1
        BY <1>1, <1>3, <3>2
      <4> QED
        BY <3>1, <4>1
    <3>3. CASE ~(j < i)
      <4>1. t[j + 1] = s[(j + 1) - 1] /\ j + 1 \in 1 .. n + 1 /\ (j + 1) - 1 = j
        BY <1>1, <1>3, <3>3
      <4> QED
        BY <3>1, <4>1
    <3> QED
      BY <3>2, <3>3
  <2> QED
    BY <1>6, <2>1, <2>2
<1> QED
  BY <1>5, <1>7, <1>8, <1>9 DEF Shows, g

LEMMA ShowsAppend ==
  ASSUME NEW s, NEW h, NEW b, Shows(s, 1 .. Len(s), h, b), NEW k \in Nat,
         NEW c \in Pointers,
         \A j \in 1 .. Len(s) : s[j].key < k
  PROVE  /\ <<b, k>> \notin DOMAIN h
         /\ Shows(Append(s, Entry(k, c)), 1 .. Len(Append(s, Entry(k, c))), Put(h, <<b, k>>, c), b)
         /\ Len(Append(s, Entry(k, c))) = Len(s) + 1
<1> DEFINE e == Entry(k, c)
           t == Append(s, e)
           i == Len(s) + 1
<1>1. s \in Seq(EntryRecords) /\ e \in EntryRecords /\ Len(s) \in Nat
  <2>1. s \in Seq(EntryRecords)
    BY DEF Shows
  <2> QED
    BY <2>1, EntryIs, LenProperties
<1> HIDE DEF e
<1>2. /\ t \in Seq(EntryRecords) /\ Len(t) = Len(s) + 1 /\ t[Len(s) + 1] = e
      /\ \A j \in 1 .. Len(s) : t[j] = s[j]
  BY <1>1, AppendProperties
<1> HIDE DEF t
<1>3. \A j \in 1 .. Len(s) + 1 : t[j] = IF j < i THEN s[j] ELSE IF j = i THEN e ELSE s[j - 1]
  BY <1>1, <1>2
<1>4. i \in 1 .. Len(s) + 1 /\ \A j \in 1 .. Len(s) : IF j < i THEN s[j].key < k ELSE k < s[j].key
  BY <1>1
<1> HIDE DEF i
<1>5. <<b, k>> \notin DOMAIN h /\ Shows(t, 1 .. Len(t), Put(h, <<b, k>>, c), b)
  BY <1>2, <1>3, <1>4, ShowsInsert DEF e
<1> QED
  BY <1>2, <1>5 DEF t, e

LEMMA ShowsInsertAt ==
  ASSUME NEW s, NEW h, NEW b, Shows(s, 1 .. Len(s), h, b), NEW k \in Nat,
         NEW c \in Pointers,
         NEW i \in 1 .. Len(s) + 1,
         \A j \in 1 .. Len(s) : IF j < i THEN s[j].key < k ELSE k < s[j].key
  PROVE  LET t == InsertAt(s, i, Entry(k, c))
         IN  /\ <<b, k>> \notin DOMAIN h /\ Shows(t, 1 .. Len(t), Put(h, <<b, k>>, c), b)
             /\ Len(t) = Len(s) + 1
             /\ \A j \in 1 .. Len(s) + 1 :
                  t[j] = IF j < i THEN s[j] ELSE IF j = i THEN Entry(k, c) ELSE s[j - 1]
<1> DEFINE e == Entry(k, c)
           t == InsertAt(s, i, e)
<1>1. s \in Seq(EntryRecords) /\ e \in EntryRecords
  BY EntryIs DEF Shows
<1> HIDE DEF e
<1>2. /\ t \in Seq(EntryRecords) /\ Len(t) = Len(s) + 1
      /\ \A j \in 1 .. Len(s) + 1 : t[j] = IF j < i THEN s[j] ELSE IF j = i THEN e ELSE s[j - 1]
  BY <1>1, InsertAtIs
<1> HIDE DEF t
<1>3. <<b, k>> \notin DOMAIN h /\ Shows(t, 1 .. Len(t), Put(h, <<b, k>>, c), b)
  BY <1>2, ShowsInsert DEF e
<1> QED
  BY <1>2, <1>3 DEF t, e

\* After an entry is given up, though its place may still be there.
LEMMA ShowsDrop ==
  ASSUME NEW s, NEW O, NEW h, NEW b, Shows(s, O, h, b), NEW i \in O
  PROVE  Shows(s, O \ {i}, Cut(h, {<<b, s[i].key>>}), b)
<1> DEFINE k == s[i].key
           g == Cut(h, {<<b, k>>})
<1>1. DOMAIN g = DOMAIN h \ {<<b, k>>} /\ \A p \in DOMAIN g : g[p] = h[p]
  BY DEF Cut
<1> HIDE DEF g
<1>2. \A j \in O \ {i} : <<b, s[j].key>> # <<b, k>>
  BY ShownAre
<1>3. \A j \in O \ {i} : <<b, s[j].key>> \in DOMAIN g /\ g[<<b, s[j].key>>] = s[j].c
  BY <1>1, <1>2 DEF Shows
<1>4. \A p \in DOMAIN g : p[1] = b => \E j \in O \ {i} : p = <<b, s[j].key>>
  <2> TAKE p \in DOMAIN g
  <2> HAVE p[1] = b
  <2>1. PICK j \in O : p = <<b, s[j].key>>
    BY <1>1 DEF Shows
  <2> QED
    BY <1>1, <2>1
<1>5. s \in Seq(EntryRecords) /\ O \ {i} \subseteq 1 .. Len(s)
  BY DEF Shows
<1>6. \A j, l \in O \ {i} : j < l => s[j].key < s[l].key
  BY DEF Shows
<1>7. Shows(s, O \ {i}, g, b)
  BY <1>3, <1>4, <1>5, <1>6 DEF Shows
<1> QED
  BY <1>7 DEF g

\* The places that show the same entries in the same order, renumbered.
Renumbers(f, s, O, t, P) ==
  /\ P \subseteq 1 .. Len(t) /\ f \in [P -> O]
  /\ \A i \in P : t[i] = s[f[i]]
  /\ \A i, j \in P : i < j => f[i] < f[j]
  /\ \A n \in O : \E i \in P : f[i] = n

LEMMA ShowsRenumbered ==
  ASSUME NEW s, NEW O, NEW h, NEW b, Shows(s, O, h, b), NEW t \in Seq(EntryRecords),
         NEW P, NEW f, Renumbers(f, s, O, t, P)
  PROVE  Shows(t, P, h, b)
<1> USE DEF Renumbers
<1>1. \A i, j \in P : i < j => t[i].key < t[j].key
  <2> TAKE i \in P, j \in P
  <2> HAVE i < j
  <2>1. f[i] \in O /\ f[j] \in O /\ f[i] < f[j]
    OBVIOUS
  <2>2. s[f[i]].key < s[f[j]].key
    BY <2>1 DEF Shows
  <2> QED
    BY <2>2
<1>2. \A i \in P : <<b, t[i].key>> \in DOMAIN h /\ h[<<b, t[i].key>>] = t[i].c
  <2> TAKE i \in P
  <2>1. f[i] \in O
    OBVIOUS
  <2>2. <<b, s[f[i]].key>> \in DOMAIN h /\ h[<<b, s[f[i]].key>>] = s[f[i]].c
    BY <2>1 DEF Shows
  <2> QED
    BY <2>2
<1>3. \A p \in DOMAIN h : p[1] = b => \E i \in P : p = <<b, t[i].key>>
  <2> TAKE p \in DOMAIN h
  <2> HAVE p[1] = b
  <2>1. PICK n \in O : p = <<b, s[n].key>>
    BY DEF Shows
  <2>2. PICK i \in P : f[i] = n
    OBVIOUS
  <2> QED
    BY <2>1, <2>2
<1> QED
  BY <1>1, <1>2, <1>3 DEF Shows

\* What is left once a gap is closed.
LEMMA ShowsShifted ==
  ASSUME NEW s, NEW O, NEW h, NEW b, Shows(s, O, h, b), NEW first \in 1 .. Len(s) + 1,
         NEW size \in 0 .. first - 1, O = {n \in 1 .. Len(s) : n <= size \/ n >= first}
  PROVE  LET t == Shifted(s, first, size)
         IN  Shows(t, 1 .. Len(t), h, b) /\ Len(t) = size + Len(s) - first + 1
<1> DEFINE t == Shifted(s, first, size)
           P == 1 .. Len(t)
           f == [i \in P |-> IF i <= size THEN i ELSE i - size + first - 1]
<1>1. s \in Seq(EntryRecords) /\ Len(s) \in Nat
  BY ShownAre DEF Shows
<1>2. /\ t \in Seq(EntryRecords) /\ Len(t) = size + Len(s) - first + 1
      /\ \A j \in 1 .. size + Len(s) - first + 1 :
           t[j] = IF j <= size THEN s[j] ELSE s[j - size + first - 1]
  BY <1>1, ShiftedIs
<1> HIDE DEF t
<1>3. f \in [P -> O]
  BY <1>1, <1>2
<1>4. \A i \in P : t[i] = s[f[i]]
  BY <1>1, <1>2
<1>5. \A i, j \in P : i < j => f[i] < f[j]
  BY <1>1, <1>2
<1>6. ASSUME NEW n \in O PROVE \E i \in P : f[i] = n
  <2>1. CASE n <= size
    <3>1. n \in P /\ f[n] = n
      BY <1>1, <1>2, <2>1
    <3> QED
      BY <3>1
  <2>2. CASE n >= first
    <3>1. n + size - first + 1 \in P /\ f[n + size - first + 1] = n
      BY <1>1, <1>2, <2>2
    <3> QED
      BY <3>1
  <2> QED
    BY <2>1, <2>2
<1>7. Shows(t, P, h, b)
  <2> HIDE DEF f
  <2>1. P \subseteq 1 .. Len(t)
    OBVIOUS
  <2> HIDE DEF P
  <2>2. Renumbers(f, s, O, t, P)
    BY <1>3, <1>4, <1>5, <1>6, <2>1 DEF Renumbers
  <2> QED
    BY <1>2, <2>2, ShowsRenumbered
<1> QED
  BY <1>2, <1>7 DEF t

LEMMA PrefixIs ==
  ASSUME NEW s, NEW O, NEW h, NEW b, Shows(s, O, h, b), NEW size \in 0 .. Len(s)
  PROVE  SubSeq(s, 1, size) = Shifted(s, Len(s) + 1, size)
<1>1. s \in Seq(EntryRecords) /\ Len(s) \in Nat
  BY ShownAre DEF Shows
<1>2. SubSeq(s, Len(s) + 1, Len(s)) = <<>>
  BY <1>1, SubSeqEmpty
<1>3. SubSeq(s, 1, size) \in Seq(EntryRecords)
  <2>1. \A i \in 1 .. size : s[i] \in EntryRecords
    BY <1>1, ElementOfSeq
  <2> QED
    BY <1>1, <2>1, SubSeqProperties
<1> QED
  BY <1>2, <1>3, ConcatEmptySeq DEF Shifted

LEMMA ShowsRemoved ==
  ASSUME NEW s, NEW h, NEW b, Shows(s, 1 .. Len(s), h, b), NEW i \in 1 .. Len(s)
  PROVE  LET t == RemoveAt(s, i)
         IN  /\ Shows(t, 1 .. Len(t), Cut(h, {<<b, s[i].key>>}), b) /\ Len(t) = Len(s) - 1
             /\ \A j \in 1 .. Len(s) - 1 : t[j] = IF j < i THEN s[j] ELSE s[j + 1]
<1> DEFINE g == Cut(h, {<<b, s[i].key>>})
           O == (1 .. Len(s)) \ {i}
<1>1. Len(s) \in Nat /\ s \in Seq(EntryRecords)
  BY ShownAre DEF Shows
<1>2. Shows(s, O, g, b)
  BY ShowsDrop
<1>3. i + 1 \in 1 .. Len(s) + 1 /\ i - 1 \in 0 .. (i + 1) - 1
  BY <1>1
<1>4. O = {n \in 1 .. Len(s) : n <= i - 1 \/ n >= i + 1}
  BY <1>1
<1> HIDE DEF O, g
<1>5. Shows(Shifted(s, i + 1, i - 1), 1 .. Len(Shifted(s, i + 1, i - 1)), g, b)
  BY <1>2, <1>3, <1>4, ShowsShifted
<1>6. RemoveAt(s, i) = Shifted(s, i + 1, i - 1)
  BY DEF RemoveAt, Shifted
<1> QED
  BY <1>1, <1>5, <1>6, RemoveAtIs DEF g

\* After an entry has moved down over places that show nothing.
Slides(s, O, i, j, c, t, P) ==
  /\ i \in O /\ j \in 1 .. i /\ \A n \in O : n < j \/ n >= i
  /\ t = [s EXCEPT ![j] = Entry(s[i].key, c)] /\ P = (O \ {i}) \union {j}

LEMMA ShowsKept ==
  ASSUME NEW s, NEW O, NEW h, NEW b, Shows(s, O, h, b), NEW i, NEW j, NEW c \in Pointers,
         NEW t, NEW P, Slides(s, O, i, j, c, t, P)
  PROVE  /\ Shows(t, P, Put(h, <<b, s[i].key>>, c), b)
         /\ Len(t) = Len(s)
         /\ \A n \in 1 .. Len(s) : t[n] = IF n = j THEN Entry(s[i].key, c) ELSE s[n]
<1> DEFINE k == s[i].key
           u == [s EXCEPT ![i] = Entry(k, c)]
           g == Put(h, <<b, k>>, c)
           f == [n \in P |-> IF n = j THEN i ELSE n]
<1> USE DEF Slides
<1>1. s \in Seq(EntryRecords) /\ Len(s) \in Nat /\ O \subseteq 1 .. Len(s)
  BY ShownAre DEF Shows
<1>2. Entry(k, c) \in EntryRecords /\ j \in 1 .. Len(s) /\ i \in 1 .. Len(s)
  <2>1. i \in 1 .. Len(s) /\ j \in 1 .. Len(s)
    BY <1>1
  <2>2. k \in Nat
    BY <2>1, ShownAre
  <2> QED
    BY <2>1, <2>2, EntryIs
<1>3. Shows(u, O, g, b)
  BY ShowsSet
<1>4. t \in Seq(EntryRecords) /\ Len(t) = Len(s) /\ \A n \in 1 .. Len(s) : t[n] = IF n = j THEN Entry(k, c) ELSE s[n]
  BY <1>1, <1>2, ExceptSeq
<1>5. Len(u) = Len(s) /\ \A n \in 1 .. Len(s) : u[n] = IF n = i THEN Entry(k, c) ELSE s[n]
  BY <1>1, <1>2, ExceptSeq
<1> HIDE DEF u, g, k
<1>6. P \subseteq 1 .. Len(t)
  BY <1>1, <1>2, <1>4
<1>7. f \in [P -> O]
  OBVIOUS
<1>8. \A n \in P : t[n] = u[f[n]]
  <2> TAKE n \in P
  <2>1. CASE n = j
    BY <1>2, <1>4, <1>5, <2>1
  <2>2. CASE n # j
    <3>1. f[n] = n /\ n # i /\ n \in 1 .. Len(s)
      BY <1>4, <1>6, <2>2
    <3> QED
      BY <1>4, <1>5, <2>2, <3>1
  <2> QED
    BY <2>1, <2>2
<1>9. \A n, l \in P : n < l => f[n] < f[l]
  <2> TAKE n \in P, l \in P
  <2> HAVE n < l
  <2>1. n \in Nat /\ l \in Nat /\ i \in Nat /\ j \in Nat /\ j <= i
    BY <1>1, <1>2, <1>4, <1>6
  <2>2. n # j => n \in O /\ n # i /\ (n < j \/ n >= i)
    OBVIOUS
  <2>3. l # j => l \in O /\ l # i /\ (l < j \/ l >= i)
    OBVIOUS
  <2> QED
    BY <2>1, <2>2, <2>3
<1>10. \A n \in O : \E l \in P : f[l] = n
  <2> TAKE n \in O
  <2>1. CASE n = i
    BY <2>1
  <2>2. CASE n # i
    <3>1. n # j
      BY <1>1, <1>2, <2>2
    <3>2. n \in P /\ f[n] = n
      BY <2>2, <3>1
    <3> QED
      BY <3>2
  <2> QED
    BY <2>1, <2>2
<1>11. Shows(t, P, g, b)
  <2> HIDE DEF f
  <2>1. Renumbers(f, u, O, t, P)
    BY <1>6, <1>7, <1>8, <1>9, <1>10 DEF Renumbers
  <2> QED
    BY <1>3, <1>4, <2>1, ShowsRenumbered
<1> QED
  BY <1>4, <1>11 DEF g, k

-----------------------------------------------------------------------------
(***************************************************************************)
(* All bitmaps together.  X has the places, of the form <<b, i>>, whose    *)
(* entries a call has given up but not taken away yet.                     *)
(***************************************************************************)

\* A state of the turns: memory and bitmaps.
Pair(m, bs) == [memory |-> m, bitmaps |-> bs]

\* A bitmap.
BitmapRecords == [cow : BOOLEAN, entries : Seq(EntryRecords)]

\* The places of b that have not been given up.
Owned(bs, X, b) == {i \in 1 .. Len(bs[b].entries) : <<b, i>> \notin X}

\* The entries of the bitmaps, but for the places X, are the holders of h and what they
\* have.
Rep(bs, X, h) ==
  /\ bs \in [DOMAIN bs -> BitmapRecords] /\ DOMAIN bs \subseteq Slots
  /\ \A b \in DOMAIN bs : Shows(bs[b].entries, Owned(bs, X, b), h, b)
  /\ \A p \in DOMAIN h : p[1] \in DOMAIN bs

\* The bitmaps with other entries in b.
SetEntries(bs, b, t) == [bs EXCEPT ![b] = [cow |-> bs[b].cow, entries |-> t]]

\* The length of a bitmap, and the key and the container at a place.
Count(bs, b) == Len(bs[b].entries)
KeyIn(bs, b, i) == bs[b].entries[i].key
ConIn(bs, b, i) == bs[b].entries[i].c

LEMMA PairIs ==
  ASSUME NEW m, NEW bs
  PROVE  Pair(m, bs).memory = m /\ Pair(m, bs).bitmaps = bs
BY DEF Pair

LEMMA WithMemoryIs ==
  ASSUME NEW m, NEW bs, NEW n
  PROVE  WithMemory(Pair(m, bs), n) = Pair(n, bs)
<1> DEFINE t == WithMemory(Pair(m, bs), n)
<1>1. t = [Pair(m, bs) EXCEPT !.memory = n]
  BY DEF WithMemory
<1> HIDE DEF t
<1>2. t = Pair(n, bs)
  BY <1>1 DEF Pair
<1> QED
  BY <1>2 DEF t

LEMMA ChangeIs ==
  ASSUME NEW m, NEW bs, bs \in [DOMAIN bs -> BitmapRecords], NEW b \in DOMAIN bs, NEW t
  PROVE  Change(Pair(m, bs), b, t) = Pair(m, SetEntries(bs, b, t))
<1> DEFINE u == Change(Pair(m, bs), b, t)
<1>1. u = [Pair(m, bs) EXCEPT !.bitmaps = [bs EXCEPT ![b] = [bs[b] EXCEPT !.entries = t]]]
  BY PairIs DEF Change
<1>2. [bs[b] EXCEPT !.entries = t] = [cow |-> bs[b].cow, entries |-> t]
  <2>1. bs[b] \in BitmapRecords
    OBVIOUS
  <2> QED
    BY <2>1 DEF BitmapRecords
<1>3. u = [Pair(m, bs) EXCEPT !.bitmaps = SetEntries(bs, b, t)]
  BY <1>1, <1>2 DEF SetEntries
<1> HIDE DEF u
<1>4. u = Pair(m, SetEntries(bs, b, t))
  BY <1>3 DEF Pair
<1> QED
  BY <1>4 DEF u

LEMMA SetEntriesIs ==
  ASSUME NEW bs, bs \in [DOMAIN bs -> BitmapRecords], NEW b \in DOMAIN bs,
         NEW t \in Seq(EntryRecords)
  PROVE  /\ SetEntries(bs, b, t) \in [DOMAIN bs -> BitmapRecords]
         /\ DOMAIN SetEntries(bs, b, t) = DOMAIN bs
         /\ SetEntries(bs, b, t)[b].entries = t
         /\ \A a \in DOMAIN bs : SetEntries(bs, b, t)[a].cow = bs[a].cow
         /\ \A a \in DOMAIN bs : a # b => SetEntries(bs, b, t)[a] = bs[a]
<1> DEFINE x == [cow |-> bs[b].cow, entries |-> t]
           u == SetEntries(bs, b, t)
<1>1. x \in BitmapRecords /\ x.cow = bs[b].cow /\ x.entries = t
  BY DEF BitmapRecords
<1> HIDE DEF x
<1>2. u = [bs EXCEPT ![b] = x]
  BY DEF SetEntries, x
<1> HIDE DEF u
<1>3. u \in [DOMAIN bs -> BitmapRecords] /\ DOMAIN u = DOMAIN bs /\ u[b] = x
      /\ \A a \in DOMAIN bs : a # b => u[a] = bs[a]
  BY <1>1, <1>2
<1>4. \A a \in DOMAIN bs : u[a].cow = bs[a].cow
  BY <1>1, <1>3
<1> QED
  BY <1>1, <1>3, <1>4 DEF u

LEMMA RepTypes ==
  ASSUME NEW bs, NEW X, NEW h, Rep(bs, X, h)
  PROVE  /\ bs \in [DOMAIN bs -> BitmapRecords] /\ DOMAIN bs \subseteq Slots
         /\ \A b \in DOMAIN bs :
              /\ bs[b].entries \in Seq(EntryRecords) /\ Len(bs[b].entries) \in Nat
              /\ bs[b].cow \in BOOLEAN /\ bs[b] \in BitmapRecords
              /\ \A i \in 1 .. Len(bs[b].entries) :
                   /\ bs[b].entries[i].key \in Nat /\ bs[b].entries[i].c \in Pointers
                   /\ bs[b].entries[i] = Entry(bs[b].entries[i].key, bs[b].entries[i].c)
<1>1. bs \in [DOMAIN bs -> BitmapRecords] /\ DOMAIN bs \subseteq Slots
  BY DEF Rep
<1>2. ASSUME NEW b \in DOMAIN bs
      PROVE  /\ bs[b].entries \in Seq(EntryRecords) /\ Len(bs[b].entries) \in Nat
             /\ bs[b].cow \in BOOLEAN /\ bs[b] \in BitmapRecords
             /\ \A i \in 1 .. Len(bs[b].entries) :
                  /\ bs[b].entries[i].key \in Nat /\ bs[b].entries[i].c \in Pointers
                  /\ bs[b].entries[i] = Entry(bs[b].entries[i].key, bs[b].entries[i].c)
  <2>1. bs[b] \in BitmapRecords
    BY <1>1
  <2>2. bs[b].cow \in BOOLEAN /\ bs[b].entries \in Seq(EntryRecords)
    BY <2>1 DEF BitmapRecords
  <2>3. Shows(bs[b].entries, Owned(bs, X, b), h, b)
    BY DEF Rep
  <2> QED
    BY <2>1, <2>2, <2>3, ShownAre
<1> QED
  BY <1>1, <1>2

\* What changes one bitmap, and only what that one has.
Off(b, h, g) ==
  /\ \A p : p[1] # b => (p \in DOMAIN g <=> p \in DOMAIN h)
  /\ \A p \in DOMAIN g : p[1] # b => g[p] = h[p]

LEMMA OffPutCut ==
  ASSUME NEW h, NEW b, NEW k, NEW c
  PROVE  Off(b, h, Put(h, <<b, k>>, c)) /\ Off(b, h, Cut(h, {<<b, k>>})) /\ Off(b, h, h)
<1>1. \A p : p[1] # b => p # <<b, k>>
  OBVIOUS
<1>2. Off(b, h, Put(h, <<b, k>>, c))
  BY <1>1 DEF Off, Put
<1>3. Off(b, h, Cut(h, {<<b, k>>}))
  BY <1>1 DEF Off, Cut
<1>4. Off(b, h, h)
  BY DEF Off
<1> QED
  BY <1>2, <1>3, <1>4

LEMMA RepChange ==
  ASSUME NEW bs, NEW X, NEW h, Rep(bs, X, h), NEW b \in DOMAIN bs, NEW t, NEW g, NEW Y,
         Off(b, h, g), \A a, i : a # b => (<<a, i>> \in Y <=> <<a, i>> \in X),
         Shows(t, {i \in 1 .. Len(t) : <<b, i>> \notin Y}, g, b)
  PROVE  Rep(SetEntries(bs, b, t), Y, g)
<1> DEFINE u == SetEntries(bs, b, t)
<1>1. bs \in [DOMAIN bs -> BitmapRecords] /\ DOMAIN bs \subseteq Slots /\ t \in Seq(EntryRecords)
  BY DEF Rep, Shows
<1>2. /\ u \in [DOMAIN bs -> BitmapRecords] /\ DOMAIN u = DOMAIN bs /\ u[b].entries = t
      /\ \A a \in DOMAIN bs : a # b => u[a] = bs[a]
  BY <1>1, SetEntriesIs
<1> HIDE DEF u
<1>3. ASSUME NEW a \in DOMAIN u PROVE Shows(u[a].entries, Owned(u, Y, a), g, a)
  <2>1. CASE a = b
    <3>1. Owned(u, Y, b) = {i \in 1 .. Len(t) : <<b, i>> \notin Y}
      BY <1>2 DEF Owned
    <3> QED
      BY <1>2, <2>1, <3>1
  <2>2. CASE a # b
    <3>1. u[a].entries = bs[a].entries /\ Owned(u, Y, a) = Owned(bs, X, a)
      BY <1>2, <2>2 DEF Owned
    <3>2. Shows(bs[a].entries, Owned(bs, X, a), h, a)
      BY <1>2 DEF Rep
    <3>3. /\ \A p : p[1] = a => (p \in DOMAIN g <=> p \in DOMAIN h)
          /\ \A p \in DOMAIN g : p[1] = a => g[p] = h[p]
      BY <2>2 DEF Off
    <3>4. Shows(bs[a].entries, Owned(bs, X, a), g, a)
      BY <3>2, <3>3, ShowsElse
    <3> QED
      BY <3>1, <3>4
  <2> QED
    BY <2>1, <2>2
<1>4. \A p \in DOMAIN g : p[1] \in DOMAIN u
  <2> TAKE p \in DOMAIN g
  <2>1. CASE p[1] = b
    BY <1>2, <2>1
  <2>2. CASE p[1] # b
    <3>1. p \in DOMAIN h
      BY <2>2 DEF Off
    <3> QED
      BY <1>2, <3>1 DEF Rep
  <2> QED
    BY <2>1, <2>2
<1> QED
  BY <1>1, <1>2, <1>3, <1>4 DEF Rep, u

\* Two sequences of entries with the same keys.
SameKeys(s, t) == Len(t) = Len(s) /\ \A i \in 1 .. Len(s) : t[i].key = s[i].key

\* The same bitmaps, with the same flags and, except maybe for the one named, the same keys.
Alike(bs, u, b) ==
  /\ DOMAIN u = DOMAIN bs
  /\ \A a \in DOMAIN bs : u[a].cow = bs[a].cow
  /\ \A a \in DOMAIN bs : a # b => SameKeys(bs[a].entries, u[a].entries)

LEMMA AlikeSet ==
  ASSUME NEW bs, bs \in [DOMAIN bs -> BitmapRecords], NEW b \in DOMAIN bs,
         NEW t \in Seq(EntryRecords)
  PROVE  Alike(bs, SetEntries(bs, b, t), b)
<1> DEFINE u == SetEntries(bs, b, t)
<1>1. /\ DOMAIN u = DOMAIN bs /\ \A a \in DOMAIN bs : u[a].cow = bs[a].cow
      /\ \A a \in DOMAIN bs : a # b => u[a] = bs[a]
  BY SetEntriesIs
<1> HIDE DEF u
<1> QED
  BY <1>1 DEF Alike, SameKeys, u

\* Another container under the same key.
LEMMA SetAtGood ==
  ASSUME NEW m, NEW bs, NEW X, NEW h, Rep(bs, X, h), NEW b \in DOMAIN bs,
         NEW i \in Owned(bs, X, b), NEW c \in Pointers
  PROVE  \E u : /\ SetAt(Pair(m, bs), b, i, c) = Pair(m, u)
                /\ Rep(u, X, Put(h, <<b, bs[b].entries[i].key>>, c))
                /\ Alike(bs, u, b) /\ SameKeys(bs[b].entries, u[b].entries)
                /\ \A j \in 1 .. Len(bs[b].entries) :
                     j # i => u[b].entries[j] = bs[b].entries[j]
<1> DEFINE s == bs[b].entries
           k == s[i].key
           t == [s EXCEPT ![i] = Entry(k, c)]
           u == SetEntries(bs, b, t)
           O == Owned(bs, X, b)
<1>1. bs \in [DOMAIN bs -> BitmapRecords] /\ s \in Seq(EntryRecords) /\ i \in 1 .. Len(s)
  BY RepTypes DEF Owned
<1>2. s[i] = Entry(k, s[i].c) /\ k \in Nat
  BY <1>1, RepTypes
<1>3. [s[i] EXCEPT !.c = c] = Entry(k, c)
  BY <1>2 DEF Entry
<1>4. Entry(k, c) \in EntryRecords /\ Entry(k, c).key = k
  BY <1>2, EntryIs
<1>5. t \in Seq(EntryRecords) /\ Len(t) = Len(s) /\ \A j \in 1 .. Len(s) : t[j] = IF j = i THEN Entry(k, c) ELSE s[j]
  <2> HIDE DEF k
  <2> QED
    BY <1>1, <1>4, ExceptSeq
<1>6. SetAt(Pair(m, bs), b, i, c) = Change(Pair(m, bs), b, t)
  BY <1>3, PairIs DEF SetAt, Change
<1>7. Change(Pair(m, bs), b, t) = Pair(m, u)
  <2> HIDE DEF t
  <2> QED
    BY <1>1, ChangeIs
<1>8. Shows(t, O, Put(h, <<b, k>>, c), b)
  <2>1. Shows(s, O, h, b)
    BY DEF Rep
  <2> QED
    BY <2>1, ShowsSet
<1>9. O = {j \in 1 .. Len(t) : <<b, j>> \notin X}
  BY <1>5 DEF Owned
<1> HIDE DEF t, k, O
<1>10. Rep(u, X, Put(h, <<b, k>>, c))
  BY <1>8, <1>9, OffPutCut, RepChange
<1>11. Alike(bs, u, b) /\ u[b].entries = t
  BY <1>1, <1>5, AlikeSet, SetEntriesIs
<1>12. SameKeys(s, t)
  BY <1>4, <1>5 DEF SameKeys, k
<1> HIDE DEF u, s
<1>13. \A j \in 1 .. Len(s) : j # i => t[j] = s[j]
  BY <1>5
<1> QED
  BY <1>6, <1>7, <1>10, <1>11, <1>12, <1>13 DEF k, s

\* A new key behind the others.
LEMMA Append1Good ==
  ASSUME NEW m, NEW bs, NEW X, NEW h, Rep(bs, X, h), NEW b \in DOMAIN bs,
         \A i : <<b, i>> \notin X, NEW k \in Nat, NEW c \in Pointers,
         \A p \in DOMAIN h : p[1] = b => p[2] < k
  PROVE  \E u : /\ Append1(Pair(m, bs), b, k, c) = Pair(m, u)
                /\ Rep(u, X, Put(h, <<b, k>>, c)) /\ <<b, k>> \notin DOMAIN h
                /\ Alike(bs, u, b)
                /\ Len(u[b].entries) = Len(bs[b].entries) + 1
                /\ \A j \in 1 .. Len(bs[b].entries) : u[b].entries[j] = bs[b].entries[j]
                /\ u[b].entries[Len(bs[b].entries) + 1].key = k
<1> DEFINE s == bs[b].entries
           e == Entry(k, c)
           t == Append(s, e)
           u == SetEntries(bs, b, t)
<1>1. bs \in [DOMAIN bs -> BitmapRecords] /\ s \in Seq(EntryRecords) /\ Len(s) \in Nat
  BY RepTypes
<1>2. e \in EntryRecords /\ e.key = k
  BY EntryIs
<1>3. Shows(s, 1 .. Len(s), h, b)
  <2>1. Shows(s, Owned(bs, X, b), h, b)
    BY DEF Rep
  <2>2. Owned(bs, X, b) = 1 .. Len(s)
    BY DEF Owned
  <2> QED
    BY <2>1, <2>2
<1>4. \A j \in 1 .. Len(s) : s[j].key < k
  <2> TAKE j \in 1 .. Len(s)
  <2>1. <<b, s[j].key>> \in DOMAIN h
    BY <1>3 DEF Shows
  <2>2. <<b, s[j].key>>[1] = b /\ <<b, s[j].key>>[2] = s[j].key
    OBVIOUS
  <2> QED
    BY <2>1, <2>2
<1> HIDE DEF s
<1>5. <<b, k>> \notin DOMAIN h /\ Shows(t, 1 .. Len(t), Put(h, <<b, k>>, c), b) /\ Len(t) = Len(s) + 1
  BY <1>3, <1>4, ShowsAppend
<1> HIDE DEF e
<1>6. t \in Seq(EntryRecords) /\ t[Len(s) + 1] = e /\ \A j \in 1 .. Len(s) : t[j] = s[j]
  BY <1>1, <1>2, AppendProperties
<1>7. Append1(Pair(m, bs), b, k, c) = Pair(m, u)
  <2>1. Append1(Pair(m, bs), b, k, c) = Change(Pair(m, bs), b, t)
    BY PairIs DEF Append1, e, s
  <2> HIDE DEF t
  <2> QED
    BY <1>1, <2>1, ChangeIs
<1>8. 1 .. Len(t) = {j \in 1 .. Len(t) : <<b, j>> \notin X}
  OBVIOUS
<1> HIDE DEF t
<1>9. Rep(u, X, Put(h, <<b, k>>, c))
  BY <1>5, <1>8, OffPutCut, RepChange
<1>10. Alike(bs, u, b) /\ u[b].entries = t
  BY <1>1, <1>6, AlikeSet, SetEntriesIs
<1> HIDE DEF u
<1> QED
  BY <1>2, <1>5, <1>6, <1>7, <1>9, <1>10 DEF s

\* A new key at its place.
LEMMA InsertGood ==
  ASSUME NEW m, NEW bs, NEW X, NEW h, Rep(bs, X, h), NEW b \in DOMAIN bs,
         \A i : <<b, i>> \notin X, NEW k \in Nat, NEW c \in Pointers,
         NEW i \in 1 .. Len(bs[b].entries) + 1,
         \A j \in 1 .. Len(bs[b].entries) :
           IF j < i THEN bs[b].entries[j].key < k ELSE k < bs[b].entries[j].key
  PROVE  \E u : /\ Change(Pair(m, bs), b, InsertAt(bs[b].entries, i, Entry(k, c))) = Pair(m, u)
                /\ Rep(u, X, Put(h, <<b, k>>, c)) /\ <<b, k>> \notin DOMAIN h
                /\ Alike(bs, u, b)
                /\ Len(u[b].entries) = Len(bs[b].entries) + 1
                /\ \A j \in 1 .. Len(bs[b].entries) + 1 :
                     u[b].entries[j] = IF j < i THEN bs[b].entries[j]
                                       ELSE IF j = i THEN Entry(k, c)
                                       ELSE bs[b].entries[j - 1]
<1> DEFINE s == bs[b].entries
           e == Entry(k, c)
           t == InsertAt(s, i, e)
           u == SetEntries(bs, b, t)
<1>1. bs \in [DOMAIN bs -> BitmapRecords] /\ s \in Seq(EntryRecords) /\ Len(s) \in Nat
  BY RepTypes
<1>2. Shows(s, 1 .. Len(s), h, b)
  <2>1. Shows(s, Owned(bs, X, b), h, b)
    BY DEF Rep
  <2>2. Owned(bs, X, b) = 1 .. Len(s)
    BY DEF Owned
  <2> QED
    BY <2>1, <2>2
<1> HIDE DEF s
<1>3. i \in 1 .. Len(s) + 1 /\ \A j \in 1 .. Len(s) : IF j < i THEN s[j].key < k ELSE k < s[j].key
  BY DEF s
<1>4. /\ <<b, k>> \notin DOMAIN h /\ Shows(t, 1 .. Len(t), Put(h, <<b, k>>, c), b)
      /\ Len(t) = Len(s) + 1
      /\ \A j \in 1 .. Len(s) + 1 : t[j] = IF j < i THEN s[j] ELSE IF j = i THEN e ELSE s[j - 1]
  BY <1>2, <1>3, ShowsInsertAt
<1> HIDE DEF t, e
<1>5. t \in Seq(EntryRecords)
  BY <1>4 DEF Shows
<1>6. Change(Pair(m, bs), b, t) = Pair(m, u)
  BY <1>1, ChangeIs
<1>7. 1 .. Len(t) = {j \in 1 .. Len(t) : <<b, j>> \notin X}
  OBVIOUS
<1>8. Rep(u, X, Put(h, <<b, k>>, c))
  BY <1>4, <1>7, OffPutCut, RepChange
<1>9. Alike(bs, u, b) /\ u[b].entries = t
  BY <1>1, <1>5, AlikeSet, SetEntriesIs
<1> HIDE DEF u
<1> QED
  BY <1>4, <1>6, <1>8, <1>9 DEF s, t, e

\* A key that goes.
LEMMA RemoveGood ==
  ASSUME NEW m, NEW bs, NEW X, NEW h, Rep(bs, X, h), NEW b \in DOMAIN bs,
         \A i : <<b, i>> \notin X, NEW i \in 1 .. Len(bs[b].entries)
  PROVE  \E u : /\ Change(Pair(m, bs), b, RemoveAt(bs[b].entries, i)) = Pair(m, u)
                /\ Rep(u, X, Cut(h, {<<b, bs[b].entries[i].key>>}))
                /\ Alike(bs, u, b)
                /\ Len(u[b].entries) = Len(bs[b].entries) - 1
                /\ \A j \in 1 .. Len(bs[b].entries) - 1 :
                     u[b].entries[j] = IF j < i THEN bs[b].entries[j] ELSE bs[b].entries[j + 1]
<1> DEFINE s == bs[b].entries
           t == RemoveAt(s, i)
           u == SetEntries(bs, b, t)
           k == s[i].key
<1>1. bs \in [DOMAIN bs -> BitmapRecords] /\ s \in Seq(EntryRecords) /\ Len(s) \in Nat
  BY RepTypes
<1>2. Shows(s, 1 .. Len(s), h, b)
  <2>1. Shows(s, Owned(bs, X, b), h, b)
    BY DEF Rep
  <2>2. Owned(bs, X, b) = 1 .. Len(s)
    BY DEF Owned
  <2> QED
    BY <2>1, <2>2
<1> HIDE DEF s
<1>3. i \in 1 .. Len(s)
  BY DEF s
<1>4. /\ Shows(t, 1 .. Len(t), Cut(h, {<<b, k>>}), b) /\ Len(t) = Len(s) - 1
      /\ \A j \in 1 .. Len(s) - 1 : t[j] = IF j < i THEN s[j] ELSE s[j + 1]
  BY <1>2, <1>3, ShowsRemoved
<1> HIDE DEF t, k
<1>5. t \in Seq(EntryRecords)
  BY <1>4 DEF Shows
<1>6. Change(Pair(m, bs), b, t) = Pair(m, u)
  BY <1>1, ChangeIs
<1>7. 1 .. Len(t) = {j \in 1 .. Len(t) : <<b, j>> \notin X}
  OBVIOUS
<1>8. Rep(u, X, Cut(h, {<<b, k>>}))
  BY <1>4, <1>7, OffPutCut, RepChange
<1>9. Alike(bs, u, b) /\ u[b].entries = t
  BY <1>1, <1>5, AlikeSet, SetEntriesIs
<1> HIDE DEF u
<1> QED
  BY <1>4, <1>6, <1>8, <1>9 DEF s, t, k

\* The places of a bitmap from one to another.
Gap(b, lo, hi) == {<<b, i>> : i \in lo .. hi}

LEMMA InGap ==
  ASSUME NEW a, NEW b, NEW i, NEW lo, NEW hi
  PROVE  <<a, i>> \in Gap(b, lo, hi) <=> a = b /\ i \in lo .. hi
BY DEF Gap

\* An entry moves down over those that were given up.
KeptIn(bs, b, n, k, c) == [bs EXCEPT ![b].entries[n + 1] = Entry(k, c)]
Kept(s, b, n, k, c) == [s EXCEPT !.bitmaps[b].entries[n + 1] = Entry(k, c)]

\* What is to be said of it.
KeptWell(m, bs, Y, h, b, n, k, c) ==
  LET u == KeptIn(bs, b, n, k, c)
  IN  /\ Kept(Pair(m, bs), b, n, k, c) = Pair(m, u) /\ Rep(u, Y, Put(h, <<b, k>>, c))
      /\ Alike(bs, u, b) /\ Count(u, b) = Count(bs, b)
      /\ \A j \in 1 .. Count(bs, b) : j # n + 1 => KeyIn(u, b, j) = KeyIn(bs, b, j)

LEMMA KeepGood ==
  ASSUME NEW m, NEW bs, NEW h, NEW b \in DOMAIN bs, NEW n \in Nat, NEW i,
         i \in 1 .. Count(bs, b), n < i, NEW X, X = Gap(b, n + 1, i - 1),
         NEW Y, Y = Gap(b, n + 2, i), Rep(bs, X, h),
         NEW c \in Pointers, NEW k, k = KeyIn(bs, b, i)
  PROVE  KeptWell(m, bs, Y, h, b, n, k, c)
<1> DEFINE s == bs[b].entries
           t == [s EXCEPT ![n + 1] = Entry(k, c)]
           u == SetEntries(bs, b, t)
           O == Owned(bs, X, b)
           P == (O \ {i}) \union {n + 1}
<1>0. i \in 1 .. Len(s)
  BY DEF Count
<1>1. bs \in [DOMAIN bs -> BitmapRecords] /\ s \in Seq(EntryRecords) /\ Len(s) \in Nat
      /\ i \in 1 .. Len(s)
  BY <1>0, RepTypes
<1>2. Shows(s, O, h, b)
  BY DEF Rep
<1>3. O = {j \in 1 .. Len(s) : j < n + 1 \/ j >= i}
  BY <1>1, InGap DEF Owned
<1>4. i \in O /\ n + 1 \in 1 .. i /\ \A j \in O : j < n + 1 \/ j >= i
  BY <1>1, <1>3
<1>14. k = s[i].key /\ k \in Nat
  <2>1. k = s[i].key
    BY DEF KeyIn
  <2> QED
    BY <1>0, <2>1, RepTypes
<1> HIDE DEF O
<1>5. /\ Shows(t, P, Put(h, <<b, k>>, c), b) /\ Len(t) = Len(s)
      /\ \A j \in 1 .. Len(s) : t[j] = IF j = n + 1 THEN Entry(k, c) ELSE s[j]
  <2> DEFINE l == n + 1
  <2>1. l \in 1 .. i /\ \A j \in O : j < l \/ j >= i
    BY <1>4
  <2>2. t = [s EXCEPT ![l] = Entry(s[i].key, c)] /\ P = (O \ {i}) \union {l}
    BY <1>14
  <2>4. Slides(s, O, i, l, c, t, P)
    BY <1>4, <2>1, <2>2 DEF Slides
  <2> HIDE DEF l, t, P, s
  <2>3. /\ Shows(t, P, Put(h, <<b, s[i].key>>, c), b) /\ Len(t) = Len(s)
        /\ \A j \in 1 .. Len(s) : t[j] = IF j = l THEN Entry(s[i].key, c) ELSE s[j]
    <3>1. Shows(t, P, Put(h, <<b, s[i].key>>, c), b)
      BY <1>2, <2>4, ShowsKept
    <3>2. Len(t) = Len(s)
      <4>1. l \in 1 .. Len(s)
        BY <1>1, <2>1 DEF s
      <4>2. s[i].key \in Nat
        BY <1>14 DEF s
      <4>3. Entry(s[i].key, c) \in EntryRecords
        BY <4>2, EntryIs
      <4> QED
        BY <1>1, <2>2, <4>1, <4>3, ExceptSeq
    <3>3. \A j \in 1 .. Len(s) : t[j] = IF j = l THEN Entry(s[i].key, c) ELSE s[j]
      <4>1. DOMAIN s = 1 .. Len(s)
        BY <1>1 DEF s
      <4> QED
        BY <2>2, <4>1
    <3> QED
      BY <3>1, <3>2, <3>3
  <2> QED
    BY <1>14, <2>3 DEF l
<1>6. P = {j \in 1 .. Len(t) : <<b, j>> \notin Y}
  <2>1. \A j : <<b, j>> \in Y <=> j \in n + 2 .. i
    BY InGap
  <2>2. Len(t) = Len(s) /\ Len(s) \in Nat /\ i \in 1 .. Len(s)
    BY <1>1, <1>5
  <2> HIDE DEF s, t
  <2>3. \A j : j \in P <=> j \in 1 .. Len(t) /\ <<b, j>> \notin Y
    BY <1>3, <2>1, <2>2
  <2> QED
    BY <2>3
<1>7. t \in Seq(EntryRecords)
  BY <1>5 DEF Shows
<1>8. Change(Pair(m, bs), b, t) = Pair(m, u)
  <2> HIDE DEF t
  <2> QED
    BY <1>1, <1>7, ChangeIs
<1>9. Kept(Pair(m, bs), b, n, k, c) = Pair(m, u)
  <2>1. Kept(Pair(m, bs), b, n, k, c) = Change(Pair(m, bs), b, t)
    BY PairIs DEF Change, Kept
  <2> QED
    BY <1>8, <2>1
<1>10. KeptIn(bs, b, n, k, c) = u
  <2>1. bs[b] \in BitmapRecords
    BY <1>1
  <2>2. [bs[b] EXCEPT !.entries = t] = [cow |-> bs[b].cow, entries |-> t]
    <3> HIDE DEF t
    <3> QED
      BY <2>1 DEF BitmapRecords
  <2>3. [bs EXCEPT ![b].entries[n + 1] = Entry(k, c)] = [bs EXCEPT ![b] = [bs[b] EXCEPT !.entries = t]]
    OBVIOUS
  <2> QED
    BY <2>2, <2>3 DEF SetEntries, KeptIn
<1>11. Rep(u, Y, Put(h, <<b, k>>, c))
  <2>1. \A a, j : a # b => (<<a, j>> \in Y <=> <<a, j>> \in X)
    BY InGap
  <2>2. Off(b, h, Put(h, <<b, k>>, c))
    BY OffPutCut
  <2> HIDE DEF t, P
  <2>3. Shows(t, {j \in 1 .. Len(t) : <<b, j>> \notin Y}, Put(h, <<b, k>>, c), b)
    BY <1>5, <1>6
  <2> QED
    BY <2>1, <2>2, <2>3, RepChange
<1>12. Alike(bs, u, b) /\ u[b].entries = t
  <2> HIDE DEF t
  <2> QED
    BY <1>1, <1>7, AlikeSet, SetEntriesIs
<1>13. \A j \in 1 .. Len(s) : j # n + 1 => t[j] = s[j]
  BY <1>5
<1> HIDE DEF u, t
<1>15. Count(u, b) = Count(bs, b) /\ \A j \in 1 .. Count(bs, b) : j # n + 1 => KeyIn(u, b, j) = KeyIn(bs, b, j)
  BY <1>5, <1>12, <1>13 DEF Count, KeyIn
<1> QED
  BY <1>9, <1>10, <1>11, <1>12, <1>15 DEF KeptWell

\* An entry is given up, its place stays.
LEMMA GiveUpGood ==
  ASSUME NEW bs, NEW X, NEW h, Rep(bs, X, h), NEW b \in DOMAIN bs,
         NEW i \in Owned(bs, X, b),
         NEW Y, Y = X \union {<<b, i>>}
  PROVE  Rep(bs, Y, Cut(h, {<<b, bs[b].entries[i].key>>}))
<1> DEFINE s == bs[b].entries
           g == Cut(h, {<<b, s[i].key>>})
<1>1. bs \in [DOMAIN bs -> BitmapRecords] /\ DOMAIN bs \subseteq Slots
  BY DEF Rep
<1>2. \A a \in DOMAIN bs : Shows(bs[a].entries, Owned(bs, X, a), h, a)
  BY DEF Rep
<1>3. ASSUME NEW a \in DOMAIN bs PROVE Shows(bs[a].entries, Owned(bs, Y, a), g, a)
  <2>1. CASE a = b
    <3>1. Owned(bs, Y, b) = Owned(bs, X, b) \ {i}
      BY DEF Owned
    <3>2. Shows(s, Owned(bs, X, b) \ {i}, g, b)
      BY <1>2, ShowsDrop
    <3> QED
      BY <2>1, <3>1, <3>2
  <2>2. CASE a # b
    <3>1. Owned(bs, Y, a) = Owned(bs, X, a)
      BY <2>2 DEF Owned
    <3>2. Off(b, h, g)
      BY OffPutCut
    <3> HIDE DEF g
    <3>3. Shows(bs[a].entries, Owned(bs, X, a), g, a)
      BY <1>2, <2>2, <3>2, ShowsElse DEF Off
    <3> QED
      BY <3>1, <3>3
  <2> QED
    BY <2>1, <2>2
<1>4. \A p \in DOMAIN g : p[1] \in DOMAIN bs
  BY DEF Rep, Cut
<1> HIDE DEF g
<1>5. Rep(bs, Y, g)
  BY <1>1, <1>3, <1>4 DEF Rep
<1> QED
  BY <1>5 DEF g

\* The gap is closed.
LEMMA CloseGood ==
  ASSUME NEW m, NEW bs, NEW h, NEW b \in DOMAIN bs, NEW n \in Nat, NEW i,
         i \in 1 .. Len(bs[b].entries) + 1, n < i, Rep(bs, Gap(b, n + 1, i - 1), h)
  PROVE  \E u : /\ Change(Pair(m, bs), b, Shifted(bs[b].entries, i, n)) = Pair(m, u)
                /\ Rep(u, {}, h) /\ Alike(bs, u, b)
<1> DEFINE s == bs[b].entries
           t == Shifted(s, i, n)
           u == SetEntries(bs, b, t)
           X == Gap(b, n + 1, i - 1)
           O == Owned(bs, X, b)
<1>1. bs \in [DOMAIN bs -> BitmapRecords] /\ s \in Seq(EntryRecords) /\ Len(s) \in Nat
  BY RepTypes
<1>2. Shows(s, O, h, b)
  BY DEF Rep
<1>3. O = {j \in 1 .. Len(s) : j <= n \/ j >= i}
  BY <1>1, InGap DEF Owned
<1>4. n \in 0 .. i - 1
  BY <1>1
<1> HIDE DEF O
<1>5. Shows(t, 1 .. Len(t), h, b)
  BY <1>2, <1>3, <1>4, ShowsShifted
<1> HIDE DEF t
<1>6. t \in Seq(EntryRecords)
  BY <1>5 DEF Shows
<1>7. Change(Pair(m, bs), b, t) = Pair(m, u) /\ Alike(bs, u, b)
  BY <1>1, <1>6, ChangeIs, AlikeSet
<1>8. Rep(u, {}, h)
  <2>1. \A a, j : a # b => (<<a, j>> \in {} <=> <<a, j>> \in X)
    BY InGap
  <2>2. Off(b, h, h)
    BY OffPutCut
  <2>3. 1 .. Len(t) = {j \in 1 .. Len(t) : <<b, j>> \notin {}}
    OBVIOUS
  <2> HIDE DEF X
  <2>4. Rep(bs, X, h)
    BY DEF X
  <2> QED
    BY <1>5, <2>1, <2>2, <2>3, <2>4, RepChange
<1> QED
  BY <1>7, <1>8 DEF t

\* Bitmaps go that have nothing any more.
LEMMA GoneGood ==
  ASSUME NEW bs, NEW X, NEW h, Rep(bs, X, h), NEW S, \A p \in DOMAIN h : p[1] \notin S,
         NEW Y, \A a \in DOMAIN bs \ S : \A i : <<a, i>> \in X <=> <<a, i>> \in Y
  PROVE  Rep([b \in DOMAIN bs \ S |-> bs[b]], Y, h)
<1> DEFINE u == [b \in DOMAIN bs \ S |-> bs[b]]
<1>1. /\ bs \in [DOMAIN bs -> BitmapRecords] /\ DOMAIN bs \subseteq Slots
      /\ \A a \in DOMAIN bs : Shows(bs[a].entries, Owned(bs, X, a), h, a)
      /\ \A p \in DOMAIN h : p[1] \in DOMAIN bs
  BY DEF Rep
<1>2. DOMAIN u = DOMAIN bs \ S /\ \A a \in DOMAIN u : u[a] = bs[a]
  OBVIOUS
<1>3. u \in [DOMAIN u -> BitmapRecords]
  BY <1>1
<1> HIDE DEF u
<1>4. \A a \in DOMAIN u : Owned(u, Y, a) = Owned(bs, X, a)
  BY <1>2 DEF Owned
<1>5. \A a \in DOMAIN u : Shows(u[a].entries, Owned(u, Y, a), h, a)
  BY <1>1, <1>2, <1>4
<1> QED
  BY <1>1, <1>2, <1>3, <1>5 DEF Rep, u

\* A bitmap that has nothing yet.
LEMMA MadeGood ==
  ASSUME NEW bs, NEW X, NEW h, Rep(bs, X, h), NEW to \in Slots, to \notin DOMAIN bs,
         NEW flag \in BOOLEAN
  PROVE  LET u == [b \in DOMAIN bs \union {to} |-> IF b = to THEN Empty(flag) ELSE bs[b]]
         IN  /\ Rep(u, X, h) /\ DOMAIN u = DOMAIN bs \union {to}
             /\ u[to].entries = <<>> /\ Len(u[to].entries) = 0 /\ u[to].cow = flag
             /\ \A p \in DOMAIN h : p[1] # to
             /\ \A b \in DOMAIN bs : b # to /\ u[b] = bs[b]
<1> DEFINE u == [b \in DOMAIN bs \union {to} |-> IF b = to THEN Empty(flag) ELSE bs[b]]
<1>1. /\ bs \in [DOMAIN bs -> BitmapRecords] /\ DOMAIN bs \subseteq Slots
      /\ \A a \in DOMAIN bs : Shows(bs[a].entries, Owned(bs, X, a), h, a)
      /\ \A p \in DOMAIN h : p[1] \in DOMAIN bs
  BY DEF Rep
<1>2. /\ DOMAIN u = DOMAIN bs \union {to} /\ u[to] = Empty(flag)
      /\ \A b \in DOMAIN bs : b # to /\ u[b] = bs[b]
  OBVIOUS
<1>3. Empty(flag) \in BitmapRecords /\ Empty(flag).entries = <<>> /\ Empty(flag).cow = flag
  BY EmptySeq DEF Empty, BitmapRecords
<1> HIDE DEF u
<1>4. u = [b \in DOMAIN u |-> u[b]]
  BY DEF u
<1>5. u \in [DOMAIN u -> BitmapRecords]
  BY <1>1, <1>2, <1>3, <1>4
<1>6. \A p \in DOMAIN h : p[1] # to
  BY <1>1
<1>7. Len(<<>>) = 0 /\ <<>> \in Seq(EntryRecords)
  BY EmptySeq
<1>8. Shows(<<>>, {}, h, to)
  BY <1>6, <1>7 DEF Shows
<1>9. Owned(u, X, to) = {}
  BY <1>2, <1>3, <1>7 DEF Owned
<1>10. \A a \in DOMAIN bs : Owned(u, X, a) = Owned(bs, X, a)
  BY <1>2 DEF Owned
<1>11. \A a \in DOMAIN u : Shows(u[a].entries, Owned(u, X, a), h, a)
  <2> TAKE a \in DOMAIN u
  <2>1. CASE a = to
    <3>1. u[a].entries = <<>> /\ Owned(u, X, a) = {}
      BY <1>2, <1>3, <1>9, <2>1
    <3> QED
      BY <1>8, <2>1, <3>1
  <2>2. CASE a # to
    <3>1. a \in DOMAIN bs
      BY <1>2, <2>2
    <3>2. u[a] = bs[a] /\ Owned(u, X, a) = Owned(bs, X, a)
      BY <1>2, <1>10, <3>1
    <3> QED
      BY <1>1, <3>1, <3>2
  <2> QED
    BY <2>1, <2>2
<1>12. Rep(u, X, h)
  BY <1>1, <1>2, <1>5, <1>11 DEF Rep
<1> QED
  BY <1>2, <1>3, <1>6, <1>7, <1>12 DEF u

-----------------------------------------------------------------------------
(***************************************************************************)
(* The memory and the bitmaps together.  v gives the values of every key   *)
(* of every bitmap; a key without values is not there.                     *)
(***************************************************************************)

\* The keys of b from the place i on.
Rest(bs, b, i) == {KeyIn(bs, b, j) : j \in i .. Count(bs, b)}

\* No place of b has been given up.
Whole(X, b) == \A i : <<b, i>> \notin X

\* The values of b under the key k; none if v does not have it.
Val(v, b, k) == IF <<b, k>> \in DOMAIN v THEN v[<<b, k>>] ELSE {}

\* No container is empty.
Full(v) == \A p \in DOMAIN v : v[p] # {}

\* The values w are v, but for those of b under k, which are S.
Sets(v, w, b, k, S) ==
  \A a, j : Val(w, a, j) = IF a = b /\ j = k THEN S ELSE Val(v, a, j)

\* Memory and bitmaps are a sound account of the values v, but for the places X.
World(m, bs, X, v) == Full(v) /\ \E h : Good(m, h, v) /\ Rep(bs, X, h)

\* What an operation leaves: a sound account in which b has the values S under k.
Leaves(n, u, X, v, b, k, S) == \E w : World(n, u, X, w) /\ Sets(v, w, b, k, S)

\* The keys from i on are those from j on in u.
Moves(bs, u, b, i, j) ==
  Rest(u, b, j) = Rest(bs, b, i) /\ (i \in 1 .. Count(bs, b) + 1 => j \in 1 .. Count(u, b) + 1)

LEMMA ValPut ==
  ASSUME NEW v, NEW b, NEW k, NEW S
  PROVE  Sets(v, Put(v, <<b, k>>, S), b, k, S)
<1>1. ASSUME NEW a, NEW j
      PROVE  Val(Put(v, <<b, k>>, S), a, j) = IF a = b /\ j = k THEN S ELSE Val(v, a, j)
  <2>1. <<a, j>> = <<b, k>> <=> a = b /\ j = k
    OBVIOUS
  <2> DEFINE p == <<a, j>>
             q == <<b, k>>
  <2> HIDE DEF p, q
  <2>2. (p \in DOMAIN Put(v, q, S) <=> p \in DOMAIN v \/ p = q)
        /\ (p \in DOMAIN Put(v, q, S) => Put(v, q, S)[p] = IF p = q THEN S ELSE v[p])
    BY DEF Put
  <2>3. CASE p = q
    BY <2>1, <2>2, <2>3 DEF Val, p, q
  <2>4. CASE p # q
    BY <2>1, <2>2, <2>4 DEF Val, p, q
  <2> QED
    BY <2>3, <2>4
<1> QED
  BY <1>1 DEF Sets

LEMMA ValCut ==
  ASSUME NEW v, NEW b, NEW k
  PROVE  Sets(v, Cut(v, {<<b, k>>}), b, k, {})
<1>1. ASSUME NEW a, NEW j
      PROVE  Val(Cut(v, {<<b, k>>}), a, j) = IF a = b /\ j = k THEN {} ELSE Val(v, a, j)
  <2>1. <<a, j>> = <<b, k>> <=> a = b /\ j = k
    OBVIOUS
  <2> DEFINE p == <<a, j>>
             q == <<b, k>>
  <2> HIDE DEF p, q
  <2>2. (p \in DOMAIN Cut(v, {q}) <=> p \in DOMAIN v /\ p # q)
        /\ (p \in DOMAIN Cut(v, {q}) => Cut(v, {q})[p] = v[p])
    BY DEF Cut
  <2>3. CASE p = q
    BY <2>1, <2>2, <2>3 DEF Val, p, q
  <2>4. CASE p # q
    BY <2>1, <2>2, <2>4 DEF Val, p, q
  <2> QED
    BY <2>3, <2>4
<1> QED
  BY <1>1 DEF Sets

LEMMA LeavesPut ==
  ASSUME NEW v, Full(v), NEW n, NEW u, NEW X, NEW g, Rep(u, X, g), NEW b, NEW k,
         NEW S, S # {}, Good(n, g, Put(v, <<b, k>>, S))
  PROVE  Leaves(n, u, X, v, b, k, S)
<1> DEFINE w == Put(v, <<b, k>>, S)
<1>1. Full(w)
  BY DEF Full, Put
<1>2. Sets(v, w, b, k, S)
  BY ValPut
<1> HIDE DEF w
<1>3. World(n, u, X, w)
  BY <1>1 DEF World, w
<1> QED
  BY <1>2, <1>3 DEF Leaves

LEMMA LeavesCut ==
  ASSUME NEW v, Full(v), NEW n, NEW u, NEW X, NEW g, Rep(u, X, g), NEW b, NEW k,
         Good(n, g, Cut(v, {<<b, k>>}))
  PROVE  Leaves(n, u, X, v, b, k, {})
<1> DEFINE w == Cut(v, {<<b, k>>})
<1>1. Full(w)
  BY DEF Full, Cut
<1>2. Sets(v, w, b, k, {})
  BY ValCut
<1> HIDE DEF w
<1>3. World(n, u, X, w)
  BY <1>1 DEF World, w
<1> QED
  BY <1>2, <1>3 DEF Leaves

\* What is at a place that a bitmap owns.
LEMMA PlaceIs ==
  ASSUME NEW bs, NEW X, NEW h, Rep(bs, X, h), NEW b \in DOMAIN bs, NEW i \in Owned(bs, X, b)
  PROVE  /\ KeyIn(bs, b, i) \in Nat /\ ConIn(bs, b, i) \in Pointers
         /\ <<b, KeyIn(bs, b, i)>> \in DOMAIN h
         /\ h[<<b, KeyIn(bs, b, i)>>] = ConIn(bs, b, i)
         /\ i \in 1 .. Count(bs, b) /\ Count(bs, b) \in Nat
         /\ \A j \in Owned(bs, X, b) : /\ i < j => KeyIn(bs, b, i) < KeyIn(bs, b, j)
                                       /\ KeyIn(bs, b, i) = KeyIn(bs, b, j) => i = j
<1> DEFINE s == bs[b].entries
           O == Owned(bs, X, b)
<1>1. Shows(s, O, h, b) /\ i \in 1 .. Len(s)
  BY DEF Rep, Owned
<1> HIDE DEF s, O
<1>2. s[i].key \in Nat /\ s[i].c \in Pointers /\ Len(s) \in Nat
  BY <1>1, ShownAre
<1>3. <<b, s[i].key>> \in DOMAIN h /\ h[<<b, s[i].key>>] = s[i].c
  BY <1>1 DEF Shows, O
<1>4. \A j \in O : (i < j => s[i].key < s[j].key) /\ (s[i].key = s[j].key => i = j)
  BY <1>1, ShownAre DEF O
<1>5. KeyIn(bs, b, i) = s[i].key /\ ConIn(bs, b, i) = s[i].c /\ Count(bs, b) = Len(s)
      /\ \A j : KeyIn(bs, b, j) = s[j].key
  BY DEF KeyIn, ConIn, Count, s
<1> QED
  BY <1>1, <1>2, <1>3, <1>4, <1>5 DEF O

\* Every key has its place.
LEMMA KeyPlace ==
  ASSUME NEW bs, NEW X, NEW h, Rep(bs, X, h), NEW b, NEW k, <<b, k>> \in DOMAIN h
  PROVE  b \in DOMAIN bs /\ \E i \in Owned(bs, X, b) : KeyIn(bs, b, i) = k
<1>1. <<b, k>>[1] = b
  OBVIOUS
<1>2. b \in DOMAIN bs
  BY <1>1 DEF Rep
<1> DEFINE s == bs[b].entries
           O == Owned(bs, X, b)
<1>3. Shows(s, O, h, b)
  BY <1>2 DEF Rep
<1>4. \A i : KeyIn(bs, b, i) = s[i].key
  BY DEF KeyIn
<1> HIDE DEF s, O
<1>5. PICK i \in O : <<b, k>> = <<b, s[i].key>>
  BY <1>1, <1>3 DEF Shows
<1> QED
  BY <1>2, <1>4, <1>5 DEF O

\* A step that changes at most what the bitmap b has under the key k, which is S then.
Reaches(s, bs, X, v, b, k, S, i, j) ==
  \E n, u : /\ s = Pair(n, u) /\ Leaves(n, u, X, v, b, k, S)
            /\ Alike(bs, u, b) /\ Moves(bs, u, b, i, j)

LEMMA AlikeRest ==
  ASSUME NEW bs, NEW u, NEW b, Alike(bs, u, b), NEW a \in DOMAIN bs, a # b,
         Count(bs, a) \in Nat
  PROVE  /\ Count(u, a) = Count(bs, a)
         /\ \A i \in 1 .. Count(bs, a) : KeyIn(u, a, i) = KeyIn(bs, a, i)
         /\ \A i \in Nat \ {0} : Rest(u, a, i) = Rest(bs, a, i)
<1>1. SameKeys(bs[a].entries, u[a].entries)
  BY DEF Alike
<1>2. /\ Count(u, a) = Count(bs, a)
      /\ \A i \in 1 .. Count(bs, a) : KeyIn(u, a, i) = KeyIn(bs, a, i)
  BY <1>1 DEF SameKeys, Count, KeyIn
<1>3. ASSUME NEW i \in Nat \ {0} PROVE Rest(u, a, i) = Rest(bs, a, i)
  <2>1. \A j \in i .. Count(bs, a) : KeyIn(u, a, j) = KeyIn(bs, a, j)
    BY <1>2
  <2> QED
    BY <1>2, <2>1 DEF Rest
<1> QED
  BY <1>2, <1>3

LEMMA SameMoves ==
  ASSUME NEW bs, NEW u, NEW b, SameKeys(bs[b].entries, u[b].entries), Count(bs, b) \in Nat,
         NEW i \in Nat \ {0}
  PROVE  Count(u, b) = Count(bs, b) /\ Moves(bs, u, b, i, i)
<1>2. /\ Count(u, b) = Count(bs, b)
      /\ \A j \in 1 .. Count(bs, b) : KeyIn(u, b, j) = KeyIn(bs, b, j)
  BY DEF SameKeys, Count, KeyIn
<1>3. \A j \in i .. Count(bs, b) : KeyIn(u, b, j) = KeyIn(bs, b, j)
  BY <1>2
<1> QED
  BY <1>2, <1>3 DEF Rest, Moves

\* A bitmap with copy-on-write shares whatever it copies.
Sharer(bs, b) == bs[b].cow = TRUE

LEMMA SharerCopies ==
  ASSUME NEW m, NEW bs, NEW from, Sharer(bs, from), NEW i
  PROVE  LET c   == ConIn(bs, from, i)
             got == Sharing(Pair(m, bs), from, i, SharedCopy(m, c))
         IN  /\ CopyOf(Pair(m, bs), from, i) = got
             /\ \A to : AppendCopy(Pair(m, bs), to, from, i) =
                         Append1(got.state, to, KeyIn(bs, from, i), got.copy)
<1> DEFINE c == ConIn(bs, from, i)
           flag == bs[from].cow
<1>1. flag = TRUE
  BY DEF Sharer
<1>2. Pair(m, bs).memory = m /\ Pair(m, bs).bitmaps = bs
  BY PairIs
<1>3. CopyOf(Pair(m, bs), from, i) = Sharing(Pair(m, bs), from, i, GetCopyOfContainer(m, c, flag))
  BY <1>2, Zenon DEF CopyOf, ConIn
<1>4. GetCopyOfContainer(m, c, flag) = SharedCopy(m, c)
  BY <1>1, Zenon DEF SharedCopy
<1>5. AppendedCopy(m, c, flag) = SharedCopy(m, c)
  BY <1>1, <1>4, Zenon DEF AppendedCopy
<1>6. \A to : AppendCopy(Pair(m, bs), to, from, i) =
        LET got == Sharing(Pair(m, bs), from, i, AppendedCopy(m, c, flag))
        IN  Append1(got.state, to, KeyIn(bs, from, i), got.copy)
  BY <1>2, Zenon DEF AppendCopy, ConIn, KeyIn
<1> HIDE DEF c, flag
<1> QED
  BY <1>3, <1>4, <1>5, <1>6 DEF c

\* A copy is made, which a new holder is to have.
Copied(s, c, bs, X, h, v, from, k, q) ==
  \E n, u, g :
    /\ s = Pair(n, u) /\ Rep(u, X, g)
    /\ Alike(bs, u, from) /\ SameKeys(bs[from].entries, u[from].entries)
    /\ DOMAIN g = DOMAIN h /\ c \in Pointers
    /\ Good(n, Put(g, q, c), Put(v, q, v[<<from, k>>]))

LEMMA SharingGood ==
  ASSUME NEW m, NEW bs, NEW X, NEW h, NEW v, Good(m, h, v), Rep(bs, X, h),
         NEW from \in DOMAIN bs, NEW i \in Owned(bs, X, from),
         NEW q, q \notin DOMAIN h, q[2] = KeyIn(bs, from, i)
  PROVE  LET got == Sharing(Pair(m, bs), from, i, SharedCopy(m, ConIn(bs, from, i)))
         IN  Copied(got.state, got.copy, bs, X, h, v, from, KeyIn(bs, from, i), q)
<1> DEFINE c == ConIn(bs, from, i)
           k == KeyIn(bs, from, i)
           p == <<from, k>>
<1>1. p \in DOMAIN h /\ h[p] = c /\ p[2] = k
  BY PlaceIs
<1> HIDE DEF c, k, p
<1> DEFINE raw == SharedCopy(m, c)
           got == Sharing(Pair(m, bs), from, i, raw)
           g == Put(h, p, raw.source)
<1>2. /\ Good(raw.memory, Put(g, q, raw.copy), Put(v, q, v[p]))
      /\ raw.source \in Pointers /\ raw.copy = raw.source
  <2>1. q[2] = p[2]
    BY <1>1 DEF k
  <2>2. raw = SharedCopy(m, h[p])
    BY <1>1
  <2> HIDE DEF raw
  <2> QED
    BY <1>1, <2>1, <2>2, CopyGood
<1> HIDE DEF raw
<1>5. got.state = SetAt(WithMemory(Pair(m, bs), raw.memory), from, i, raw.source) /\ got.copy = raw.copy
  BY DEF Sharing
<1> HIDE DEF got
<1>6. got.state = SetAt(Pair(raw.memory, bs), from, i, raw.source)
  BY <1>5, WithMemoryIs
<1>7. PICK u : /\ SetAt(Pair(raw.memory, bs), from, i, raw.source) = Pair(raw.memory, u)
               /\ Rep(u, X, Put(h, <<from, bs[from].entries[i].key>>, raw.source))
               /\ Alike(bs, u, from) /\ SameKeys(bs[from].entries, u[from].entries)
  BY <1>2, SetAtGood
<1>8. DOMAIN g = DOMAIN h /\ Rep(u, X, g)
  BY <1>1, <1>7 DEF Put, p, k, KeyIn
<1> HIDE DEF g
<1>10. got.copy \in Pointers
  BY <1>2, <1>5
<1>9. Copied(got.state, got.copy, bs, X, h, v, from, k, q)
  BY <1>2, <1>5, <1>6, <1>7, <1>8, <1>10 DEF Copied, p
<1> QED
  BY <1>9 DEF got, k, raw, c

LEMMA AlikeAgain ==
  ASSUME NEW bs, NEW u, NEW w, NEW a \in DOMAIN bs, NEW b,
         Alike(bs, u, a), SameKeys(bs[a].entries, u[a].entries), Alike(u, w, b)
  PROVE  Alike(bs, w, b)
<1>1. DOMAIN w = DOMAIN bs /\ \A e \in DOMAIN bs : w[e].cow = bs[e].cow
  BY DEF Alike
<1>2. ASSUME NEW e \in DOMAIN bs, e # b PROVE SameKeys(bs[e].entries, w[e].entries)
  <2>1. SameKeys(bs[e].entries, u[e].entries)
    BY DEF Alike
  <2>2. SameKeys(u[e].entries, w[e].entries)
    BY <1>2 DEF Alike
  <2> QED
    BY <2>1, <2>2 DEF SameKeys
<1> QED
  BY <1>1, <1>2 DEF Alike

\* A step that changes the entries of the bitmap b.
Grown(s, m, bs, X, g, b, i, j) ==
  \E u : s = Pair(m, u) /\ Rep(u, X, g) /\ Alike(bs, u, b) /\ Moves(bs, u, b, i, j)

\* The entries of a bitmap.
EntriesIn(bs, b) == bs[b].entries

LEMMA SetGrown ==
  ASSUME NEW m, NEW bs, NEW X, NEW h, Rep(bs, X, h), NEW b \in DOMAIN bs,
         NEW i \in Owned(bs, X, b), NEW c \in Pointers, NEW j \in Nat \ {0}
  PROVE  Grown(SetAt(Pair(m, bs), b, i, c), m, bs, X, Put(h, <<b, KeyIn(bs, b, i)>>, c), b, j, j)
<1> DEFINE s == SetAt(Pair(m, bs), b, i, c)
<1>1. PICK u : /\ s = Pair(m, u)
               /\ Rep(u, X, Put(h, <<b, bs[b].entries[i].key>>, c))
               /\ Alike(bs, u, b) /\ SameKeys(bs[b].entries, u[b].entries)
  BY SetAtGood
<1> HIDE DEF s
<1>2. Count(bs, b) \in Nat
  BY PlaceIs
<1>3. Moves(bs, u, b, j, j)
  BY <1>1, <1>2, SameMoves
<1>4. Rep(u, X, Put(h, <<b, KeyIn(bs, b, i)>>, c))
  BY <1>1 DEF KeyIn
<1> QED
  BY <1>1, <1>3, <1>4 DEF Grown, s

LEMMA CountIs ==
  ASSUME NEW bs, NEW X, NEW h, Rep(bs, X, h), NEW b \in DOMAIN bs
  PROVE  /\ Count(bs, b) \in Nat
         /\ \A i : i \in Owned(bs, X, b) <=> i \in 1 .. Count(bs, b) /\ <<b, i>> \notin X
         /\ Whole(X, b) => Owned(bs, X, b) = 1 .. Count(bs, b)
         /\ \A i \in 1 .. Count(bs, b) : KeyIn(bs, b, i) \in Nat
<1>1. bs[b].entries \in Seq(EntryRecords)
  BY RepTypes
<1>2. Count(bs, b) \in Nat
  BY <1>1 DEF Count
<1>3. \A i \in 1 .. Count(bs, b) : KeyIn(bs, b, i) \in Nat
  BY RepTypes DEF Count, KeyIn
<1>4. \A i : i \in Owned(bs, X, b) <=> i \in 1 .. Count(bs, b) /\ <<b, i>> \notin X
  BY DEF Owned, Count
<1> QED
  BY <1>2, <1>3, <1>4 DEF Whole

LEMMA AppendGrown ==
  ASSUME NEW m, NEW bs, NEW X, NEW h, Rep(bs, X, h), NEW b \in DOMAIN bs,
         Whole(X, b), NEW k \in Nat, NEW c \in Pointers,
         \A p \in DOMAIN h : p[1] = b => p[2] < k
  PROVE  LET n == Count(bs, b)
         IN  /\ Grown(Append1(Pair(m, bs), b, k, c), m, bs, X, Put(h, <<b, k>>, c), b, n + 1, n + 2)
             /\ <<b, k>> \notin DOMAIN h
<1> DEFINE s == Append1(Pair(m, bs), b, k, c)
           n == Count(bs, b)
<1>1. PICK u : /\ s = Pair(m, u)
               /\ Rep(u, X, Put(h, <<b, k>>, c)) /\ <<b, k>> \notin DOMAIN h
               /\ Alike(bs, u, b)
               /\ Len(u[b].entries) = Len(bs[b].entries) + 1
  BY Append1Good DEF Whole
<1> HIDE DEF s
<1>2. n \in Nat
  BY CountIs
<1>3. Count(u, b) = n + 1
  BY <1>1 DEF Count
<1> HIDE DEF n
<1>4. Moves(bs, u, b, n + 1, n + 2)
  <2>1. Rest(u, b, n + 2) = {}
    BY <1>2, <1>3 DEF Rest
  <2>2. Rest(bs, b, n + 1) = {}
    BY <1>2 DEF Rest, n
  <2>3. n + 2 \in 1 .. Count(u, b) + 1
    BY <1>2, <1>3
  <2> QED
    BY <2>1, <2>2, <2>3 DEF Moves
<1> QED
  BY <1>1, <1>4 DEF Grown, s, n

LEMMA InsertGrown ==
  ASSUME NEW m, NEW bs, NEW X, NEW h, Rep(bs, X, h), NEW b \in DOMAIN bs,
         Whole(X, b), NEW k \in Nat, NEW c \in Pointers, NEW i \in 1 .. Count(bs, b) + 1,
         \A j \in 1 .. Count(bs, b) : IF j < i THEN KeyIn(bs, b, j) < k ELSE k < KeyIn(bs, b, j)
  PROVE  /\ Grown(Change(Pair(m, bs), b, InsertAt(EntriesIn(bs, b), i, Entry(k, c))), m, bs, X,
                  Put(h, <<b, k>>, c), b, i, i + 1)
         /\ <<b, k>> \notin DOMAIN h
<1> DEFINE s == Change(Pair(m, bs), b, InsertAt(EntriesIn(bs, b), i, Entry(k, c)))
           n == Count(bs, b)
<1>1. PICK u : /\ s = Pair(m, u)
               /\ Rep(u, X, Put(h, <<b, k>>, c)) /\ <<b, k>> \notin DOMAIN h
               /\ Alike(bs, u, b)
               /\ Len(u[b].entries) = Len(bs[b].entries) + 1
               /\ \A j \in 1 .. Len(bs[b].entries) + 1 :
                    u[b].entries[j] = IF j < i THEN bs[b].entries[j]
                                      ELSE IF j = i THEN Entry(k, c) ELSE bs[b].entries[j - 1]
  <2>1. /\ i \in 1 .. Len(bs[b].entries) + 1
        /\ \A j \in 1 .. Len(bs[b].entries) :
             IF j < i THEN bs[b].entries[j].key < k ELSE k < bs[b].entries[j].key
    BY DEF Count, KeyIn
  <2> QED
    BY <2>1, InsertGood DEF Whole, EntriesIn
<1> HIDE DEF s
<1>2. n \in Nat
  BY CountIs
<1>3. Count(u, b) = n + 1 /\ \A j \in i + 1 .. n + 1 : KeyIn(u, b, j) = KeyIn(bs, b, j - 1)
  <2>1. Len(bs[b].entries) = n
    BY DEF Count
  <2>2. ASSUME NEW j \in i + 1 .. n + 1 PROVE KeyIn(u, b, j) = KeyIn(bs, b, j - 1)
    <3>1. j \in 1 .. n + 1 /\ ~(j < i) /\ j # i
      BY <1>2
    <3>2. u[b].entries[j] = bs[b].entries[j - 1]
      BY <1>1, <2>1, <3>1
    <3> QED
      BY <3>2 DEF KeyIn
  <2> QED
    BY <1>1, <2>1, <2>2 DEF Count
<1>5. i \in 1 .. n + 1
  OBVIOUS
<1> HIDE DEF n
<1>4. Moves(bs, u, b, i, i + 1)
  <2>1. \A x \in Rest(u, b, i + 1) : x \in Rest(bs, b, i)
    <3> SUFFICES ASSUME NEW j \in i + 1 .. n + 1 PROVE KeyIn(u, b, j) \in Rest(bs, b, i)
      BY <1>3 DEF Rest
    <3>1. j - 1 \in i .. n
      BY <1>2, <1>5
    <3> QED
      BY <1>3, <3>1 DEF Rest, n
  <2>2. \A x \in Rest(bs, b, i) : x \in Rest(u, b, i + 1)
    <3> SUFFICES ASSUME NEW j \in i .. n PROVE KeyIn(bs, b, j) \in Rest(u, b, i + 1)
      BY DEF Rest, n
    <3>1. j + 1 \in i + 1 .. n + 1 /\ (j + 1) - 1 = j
      BY <1>2, <1>5
    <3>2. KeyIn(u, b, j + 1) = KeyIn(bs, b, j)
      BY <1>3, <3>1
    <3> QED
      BY <1>3, <3>1, <3>2 DEF Rest
  <2>3. i + 1 \in 1 .. Count(u, b) + 1
    BY <1>2, <1>3, <1>5
  <2> QED
    BY <2>1, <2>2, <2>3 DEF Moves
<1> QED
  BY <1>1, <1>4 DEF Grown, s

LEMMA RemoveGrown ==
  ASSUME NEW m, NEW bs, NEW X, NEW h, Rep(bs, X, h), NEW b \in DOMAIN bs,
         Whole(X, b), NEW i \in 1 .. Count(bs, b)
  PROVE  Grown(Change(Pair(m, bs), b, RemoveAt(EntriesIn(bs, b), i)), m, bs, X,
               Cut(h, {<<b, KeyIn(bs, b, i)>>}), b, i + 1, i)
<1> DEFINE s == Change(Pair(m, bs), b, RemoveAt(EntriesIn(bs, b), i))
           n == Count(bs, b)
<1>1. PICK u : /\ s = Pair(m, u)
               /\ Rep(u, X, Cut(h, {<<b, bs[b].entries[i].key>>}))
               /\ Alike(bs, u, b)
               /\ Len(u[b].entries) = Len(bs[b].entries) - 1
               /\ \A j \in 1 .. Len(bs[b].entries) - 1 :
                    u[b].entries[j] = IF j < i THEN bs[b].entries[j] ELSE bs[b].entries[j + 1]
  <2>1. i \in 1 .. Len(bs[b].entries)
    BY DEF Count
  <2>2. \A x : <<b, x>> \notin X
    BY DEF Whole
  <2>3. s = Change(Pair(m, bs), b, RemoveAt(bs[b].entries, i))
    BY DEF EntriesIn
  <2> HIDE DEF s
  <2> QED
    BY <2>1, <2>2, <2>3, RemoveGood
<1> HIDE DEF s
<1>2. n \in Nat
  BY CountIs
<1>3. Count(u, b) = n - 1 /\ \A j \in i .. n - 1 : KeyIn(u, b, j) = KeyIn(bs, b, j + 1)
  <2>1. Len(bs[b].entries) = n
    BY DEF Count
  <2>2. ASSUME NEW j \in i .. n - 1 PROVE KeyIn(u, b, j) = KeyIn(bs, b, j + 1)
    <3>1. j \in 1 .. n - 1 /\ ~(j < i)
      BY <1>2
    <3>2. u[b].entries[j] = bs[b].entries[j + 1]
      BY <1>1, <2>1, <3>1
    <3> QED
      BY <3>2 DEF KeyIn
  <2> QED
    BY <1>1, <2>1, <2>2 DEF Count
<1>5. i \in 1 .. n
  OBVIOUS
<1> HIDE DEF n
<1>4. Moves(bs, u, b, i + 1, i)
  <2>1. \A x \in Rest(u, b, i) : x \in Rest(bs, b, i + 1)
    <3> SUFFICES ASSUME NEW j \in i .. n - 1 PROVE KeyIn(u, b, j) \in Rest(bs, b, i + 1)
      BY <1>3 DEF Rest
    <3>1. j + 1 \in i + 1 .. n
      BY <1>2, <1>5
    <3> QED
      BY <1>3, <3>1 DEF Rest, n
  <2>2. \A x \in Rest(bs, b, i + 1) : x \in Rest(u, b, i)
    <3> SUFFICES ASSUME NEW j \in i + 1 .. n PROVE KeyIn(bs, b, j) \in Rest(u, b, i)
      BY DEF Rest, n
    <3>1. j - 1 \in i .. n - 1 /\ (j - 1) + 1 = j
      BY <1>2, <1>5
    <3>2. KeyIn(u, b, j - 1) = KeyIn(bs, b, j)
      BY <1>3, <3>1
    <3> QED
      BY <1>3, <3>1, <3>2 DEF Rest
  <2>3. i \in 1 .. Count(u, b) + 1
    BY <1>2, <1>3, <1>5
  <2> QED
    BY <2>1, <2>2, <2>3 DEF Moves
<1>6. Rep(u, X, Cut(h, {<<b, KeyIn(bs, b, i)>>}))
  BY <1>1 DEF KeyIn
<1> QED
  BY <1>1, <1>4, <1>6 DEF Grown, s

LEMMA HolderIs ==
  ASSUME NEW bs, NEW X, NEW h, Rep(bs, X, h), NEW p \in DOMAIN h
  PROVE  p = <<p[1], p[2]>> /\ p[1] \in DOMAIN bs /\ p[2] \in Nat
<1> DEFINE b == p[1]
<1>1. b \in DOMAIN bs
  BY DEF Rep
<1> DEFINE s == bs[b].entries
           O == Owned(bs, X, b)
<1>2. Shows(s, O, h, b)
  BY <1>1 DEF Rep
<1>3. PICK i \in O : p = <<b, s[i].key>>
  BY <1>2 DEF Shows
<1>4. i \in 1 .. Len(s)
  BY DEF Owned
<1> HIDE DEF s, O
<1>5. s[i].key \in Nat
  BY <1>2, <1>4, ShownAre
<1> DEFINE k == s[i].key
<1> HIDE DEF k
<1>6. p = <<b, k>> /\ k \in Nat
  BY <1>3, <1>5 DEF k
<1> HIDE DEF b
<1>7. p[1] = b /\ p[2] = k
  BY <1>6
<1> QED
  BY <1>1, <1>6, <1>7

LEMMA ValHeld ==
  ASSUME NEW m, NEW h, NEW v, Good(m, h, v), Full(v), NEW b, NEW k
  PROVE  /\ Val(v, b, k) # {} <=> <<b, k>> \in DOMAIN h
         /\ <<b, k>> \in DOMAIN h => Val(v, b, k) = v[<<b, k>>]
<1>1. DOMAIN v = DOMAIN h
  BY GoodMem
<1> DEFINE p == <<b, k>>
<1>2. Val(v, b, k) = IF p \in DOMAIN v THEN v[p] ELSE {}
  BY DEF Val
<1> HIDE DEF p
<1> QED
  BY <1>1, <1>2 DEF Full, p

LEMMA BelowKey ==
  ASSUME NEW m, NEW h, NEW v, Good(m, h, v), Full(v), NEW bs, NEW X, Rep(bs, X, h),
         NEW b, NEW k, \A j : Val(v, b, j) # {} => j < k
  PROVE  \A p \in DOMAIN h : p[1] = b => p[2] < k
<1> SUFFICES ASSUME NEW p \in DOMAIN h, p[1] = b PROVE p[2] < k
  OBVIOUS
<1> DEFINE j == p[2]
<1>1. p = <<p[1], j>>
  BY HolderIs
<1>2. <<b, j>> \in DOMAIN h
  BY <1>1
<1> HIDE DEF j
<1>3. Val(v, b, j) # {}
  BY <1>2, ValHeld
<1> QED
  BY <1>3 DEF j

\* A copy that was made goes to a bitmap that may not be its source.
LEMMA CopiedReaches ==
  ASSUME NEW bs, NEW X, NEW h, NEW v, Full(v), NEW from \in DOMAIN bs,
         NEW to \in DOMAIN bs, NEW k,
         NEW S, S = v[<<from, k>>], S # {},
         NEW n, NEW u, NEW g, NEW c, Alike(bs, u, from),
         SameKeys(bs[from].entries, u[from].entries),
         from # to, Count(bs, to) \in Nat,
         Good(n, Put(g, <<to, k>>, c), Put(v, <<to, k>>, S)),
         NEW s, NEW i, NEW j, Grown(s, n, u, X, Put(g, <<to, k>>, c), to, i, j),
         i \in Nat \ {0}
  PROVE  Reaches(s, bs, X, v, to, k, S, i, j)
<1> DEFINE f == Put(g, <<to, k>>, c)
<1> HIDE DEF f
<1>1. PICK w : s = Pair(n, w) /\ Rep(w, X, f) /\ Alike(u, w, to) /\ Moves(u, w, to, i, j)
  BY DEF Grown, f
<1>2. Alike(bs, w, to)
  BY <1>1, AlikeAgain
<1>3. Leaves(n, w, X, v, to, k, S)
  BY <1>1, LeavesPut DEF f
<1>4. Count(u, to) = Count(bs, to) /\ Rest(u, to, i) = Rest(bs, to, i)
  BY AlikeRest
<1>5. Moves(bs, w, to, i, j)
  BY <1>1, <1>4 DEF Moves
<1> QED
  BY <1>1, <1>2, <1>3, <1>5 DEF Reaches

LEMMA CopyReaches ==
  ASSUME NEW m, NEW bs, NEW X, NEW v, World(m, bs, X, v), NEW from \in DOMAIN bs,
         Sharer(bs, from), NEW i \in Owned(bs, X, from), NEW to \in DOMAIN bs, from # to,
         Whole(X, to), \A j : Val(v, to, j) # {} => j < KeyIn(bs, from, i)
  PROVE  LET k   == KeyIn(bs, from, i)
             n   == Count(bs, to)
             s   == AppendCopy(Pair(m, bs), to, from, i)
             got == CopyOf(Pair(m, bs), from, i)
         IN  /\ Reaches(s, bs, X, v, to, k, Val(v, from, k), n + 1, n + 2)
             /\ s = Append1(got.state, to, k, got.copy)
<1> DEFINE k   == KeyIn(bs, from, i)
           q   == <<to, k>>
           got == Sharing(Pair(m, bs), from, i, SharedCopy(m, ConIn(bs, from, i)))
           S   == Val(v, from, k)
           size == Count(bs, to)
           s   == AppendCopy(Pair(m, bs), to, from, i)
<1>1. CopyOf(Pair(m, bs), from, i) = got /\ s = Append1(got.state, to, k, got.copy)
  BY SharerCopies
<1> HIDE DEF got, s
<1>2. PICK h : Good(m, h, v) /\ Rep(bs, X, h)
  BY DEF World
<1>3. Full(v)
  BY DEF World
<1>4. k \in Nat /\ <<from, k>> \in DOMAIN h
  BY <1>2, PlaceIs
<1>5. size \in Nat
  BY <1>2, CountIs
<1> HIDE DEF k, size
<1>6. q \notin DOMAIN h
  BY <1>2, <1>3, <1>4, ValHeld DEF k
<1>7. S = v[<<from, k>>] /\ S # {}
  BY <1>2, <1>3, <1>4, ValHeld
<1> HIDE DEF S
<1>8. Copied(got.state, got.copy, bs, X, h, v, from, k, q)
  <2>1. q[2] = KeyIn(bs, from, i)
    BY DEF k
  <2> HIDE DEF q
  <2> QED
    BY <1>2, <1>6, <2>1, SharingGood DEF got, k
<1> DEFINE c == got.copy
<1> HIDE DEF c
<1>9. PICK n, u, g :
        /\ got.state = Pair(n, u) /\ Rep(u, X, g)
        /\ Alike(bs, u, from) /\ SameKeys(bs[from].entries, u[from].entries)
        /\ DOMAIN g = DOMAIN h /\ c \in Pointers
        /\ Good(n, Put(g, q, c), Put(v, q, v[<<from, k>>]))
  BY <1>8 DEF Copied, c
<1>10. \A p \in DOMAIN g : p[1] = to => p[2] < k
  <2>1. \A j : Val(v, to, j) # {} => j < k
    BY DEF k
  <2>2. \A p \in DOMAIN h : p[1] = to => p[2] < k
    BY <1>2, <1>3, <2>1, BelowKey
  <2> QED
    BY <1>9, <2>2
<1>11. to \in DOMAIN u /\ Count(u, to) = size
  <2>1. to \in DOMAIN u
    BY <1>9 DEF Alike
  <2> QED
    BY <1>5, <1>9, <2>1, AlikeRest DEF size
<1>12. Grown(s, n, u, X, Put(g, q, c), to, size + 1, size + 2)
  <2>1. s = Append1(Pair(n, u), to, k, c)
    BY <1>1, <1>9 DEF c
  <2>2. Grown(Append1(Pair(n, u), to, k, c), n, u, X, Put(g, <<to, k>>, c), to, size + 1, size + 2)
    BY <1>4, <1>9, <1>10, <1>11, AppendGrown
  <2> QED
    BY <2>1, <2>2
<1>13. Reaches(s, bs, X, v, to, k, S, size + 1, size + 2)
  <2>1. Good(n, Put(g, <<to, k>>, c), Put(v, <<to, k>>, S))
    BY <1>7, <1>9
  <2>2. size + 1 \in Nat \ {0} /\ Count(bs, to) \in Nat
    BY <1>5 DEF size
  <2> DEFINE x == size + 1
             y == size + 2
  <2>3. Grown(s, n, u, X, Put(g, <<to, k>>, c), to, x, y) /\ x \in Nat \ {0}
    BY <1>12, <2>2
  <2> HIDE DEF x, y, q
  <2>4. Reaches(s, bs, X, v, to, k, S, x, y)
    BY <1>3, <1>7, <1>9, <2>1, <2>2, <2>3, CopiedReaches
  <2> QED
    BY <2>4 DEF x, y
<1> QED
  BY <1>1, <1>13 DEF k, s, S, size

LEMMA InsertCopyReaches ==
  ASSUME NEW m, NEW bs, NEW X, NEW v, World(m, bs, X, v), NEW from \in DOMAIN bs,
         Sharer(bs, from), NEW i \in Owned(bs, X, from), NEW to \in DOMAIN bs, from # to,
         Whole(X, to), NEW at \in 1 .. Count(bs, to) + 1,
         \A j \in 1 .. Count(bs, to) :
           IF j < at THEN KeyIn(bs, to, j) < KeyIn(bs, from, i)
           ELSE KeyIn(bs, from, i) < KeyIn(bs, to, j)
  PROVE  LET k   == KeyIn(bs, from, i)
             got == CopyOf(Pair(m, bs), from, i)
             s   == Change(got.state, to, InsertAt(EntriesIn(got.state.bitmaps, to), at,
                                                   Entry(k, got.copy)))
         IN  Reaches(s, bs, X, v, to, k, Val(v, from, k), at, at + 1)
<1> DEFINE k   == KeyIn(bs, from, i)
           q   == <<to, k>>
           raw == CopyOf(Pair(m, bs), from, i)
           got == Sharing(Pair(m, bs), from, i, SharedCopy(m, ConIn(bs, from, i)))
           S   == Val(v, from, k)
           size == Count(bs, to)
           s   == Change(raw.state, to, InsertAt(EntriesIn(raw.state.bitmaps, to), at,
                                                 Entry(k, raw.copy)))
<1>1. raw = got
  BY SharerCopies
<1> HIDE DEF got, raw
<1>2. PICK h : Good(m, h, v) /\ Rep(bs, X, h)
  BY DEF World
<1>3. Full(v)
  BY DEF World
<1>4. k \in Nat /\ <<from, k>> \in DOMAIN h
  BY <1>2, PlaceIs
<1>5. size \in Nat
  BY <1>2, CountIs
<1>15. /\ at \in 1 .. size + 1
       /\ \A j \in 1 .. size : IF j < at THEN KeyIn(bs, to, j) < k ELSE k < KeyIn(bs, to, j)
  OBVIOUS
<1> HIDE DEF k, size
<1>6. q \notin DOMAIN h
  <2> SUFFICES ASSUME <<to, k>> \in DOMAIN h PROVE FALSE
    OBVIOUS
  <2>1. PICK j \in Owned(bs, X, to) : KeyIn(bs, to, j) = k
    BY <1>2, KeyPlace
  <2>2. j \in 1 .. size
    BY <1>2, CountIs DEF size
  <2> QED
    BY <1>4, <1>15, <2>1, <2>2
<1>7. S = v[<<from, k>>] /\ S # {}
  BY <1>2, <1>3, <1>4, ValHeld
<1> HIDE DEF S
<1>8. Copied(raw.state, raw.copy, bs, X, h, v, from, k, q)
  <2>1. q[2] = KeyIn(bs, from, i)
    BY DEF k
  <2> HIDE DEF q
  <2>2. Copied(got.state, got.copy, bs, X, h, v, from, k, q)
    BY <1>2, <1>6, <2>1, SharingGood DEF got, k
  <2> QED
    BY <1>1, <2>2
<1> DEFINE c == raw.copy
<1> HIDE DEF c
<1>9. PICK n, u, g :
        /\ raw.state = Pair(n, u) /\ Rep(u, X, g)
        /\ Alike(bs, u, from) /\ SameKeys(bs[from].entries, u[from].entries)
        /\ DOMAIN g = DOMAIN h /\ c \in Pointers
        /\ Good(n, Put(g, q, c), Put(v, q, v[<<from, k>>]))
  BY <1>8 DEF Copied, c
<1>11. /\ to \in DOMAIN u /\ Count(u, to) = size
       /\ \A j \in 1 .. size : KeyIn(u, to, j) = KeyIn(bs, to, j)
  <2>1. to \in DOMAIN u
    BY <1>9 DEF Alike
  <2> QED
    BY <1>5, <1>9, <2>1, AlikeRest DEF size
<1>10. \A j \in 1 .. Count(u, to) : IF j < at THEN KeyIn(u, to, j) < k ELSE k < KeyIn(u, to, j)
  BY <1>11, <1>15
<1>12. Grown(s, n, u, X, Put(g, q, c), to, at, at + 1)
  <2>1. s = Change(Pair(n, u), to, InsertAt(EntriesIn(u, to), at, Entry(k, c)))
    BY <1>9, PairIs DEF c
  <2>2. Grown(Change(Pair(n, u), to, InsertAt(EntriesIn(u, to), at, Entry(k, c))), n, u, X,
              Put(g, <<to, k>>, c), to, at, at + 1)
    <3>1. at \in 1 .. Count(u, to) + 1
      BY <1>11, <1>15
    <3> QED
      BY <1>4, <1>9, <1>10, <1>11, <3>1, InsertGrown
  <2> QED
    BY <2>1, <2>2
<1>13. Reaches(s, bs, X, v, to, k, S, at, at + 1)
  <2>1. Good(n, Put(g, <<to, k>>, c), Put(v, <<to, k>>, S))
    BY <1>7, <1>9
  <2> DEFINE y == at + 1
  <2>3. Grown(s, n, u, X, Put(g, <<to, k>>, c), to, at, y) /\ at \in Nat \ {0} /\ Count(bs, to) \in Nat
    BY <1>5, <1>12 DEF size
  <2> HIDE DEF y, q
  <2> HIDE DEF s
  <2>4. Reaches(s, bs, X, v, to, k, S, at, y)
    BY <1>3, <1>7, <1>9, <2>1, <2>3, CopiedReaches
  <2> QED
    BY <2>4 DEF y
<1> QED
  BY <1>13 DEF k, s, S, raw

-----------------------------------------------------------------------------
(***************************************************************************)
(* New containers.                                                         *)
(***************************************************************************)

LEMMA GrownReaches ==
  ASSUME NEW bs, NEW X, NEW v, Full(v), NEW b, NEW k, NEW S, S # {}, NEW n, NEW g,
         Good(n, g, Put(v, <<b, k>>, S)), NEW s, NEW i, NEW j, Grown(s, n, bs, X, g, b, i, j)
  PROVE  Reaches(s, bs, X, v, b, k, S, i, j)
<1>1. PICK w : s = Pair(n, w) /\ Rep(w, X, g) /\ Alike(bs, w, b) /\ Moves(bs, w, b, i, j)
  BY DEF Grown
<1>2. Leaves(n, w, X, v, b, k, S)
  BY <1>1, LeavesPut
<1> QED
  BY <1>1, <1>2 DEF Reaches

LEMMA GrownLoses ==
  ASSUME NEW bs, NEW X, NEW v, Full(v), NEW b, NEW k, NEW n, NEW g,
         Good(n, g, Cut(v, {<<b, k>>})), NEW s, NEW i, NEW j, Grown(s, n, bs, X, g, b, i, j)
  PROVE  Reaches(s, bs, X, v, b, k, {}, i, j)
<1>1. PICK w : s = Pair(n, w) /\ Rep(w, X, g) /\ Alike(bs, w, b) /\ Moves(bs, w, b, i, j)
  BY DEF Grown
<1>2. Leaves(n, w, X, v, b, k, {})
  BY <1>1, LeavesCut
<1> QED
  BY <1>1, <1>2 DEF Reaches

LEMMA AllocateHeld ==
  ASSUME NEW m, NEW h, NEW v, Good(m, h, v), NEW b, NEW k \in Nat, <<b, k>> \notin DOMAIN h,
         NEW kind \in Kinds, NEW S \in SUBSET Lows
  PROVE  LET new == Allocate(m, k, kind, S)
         IN  /\ Good(new.memory, Put(h, <<b, k>>, new.container), Put(v, <<b, k>>, S))
             /\ new.container \in Pointers
<1> DEFINE q == <<b, k>>
           new == Allocate(m, q[2], kind, S)
<1>1. q[2] = k
  OBVIOUS
<1> HIDE DEF q
<1>2. q \notin DOMAIN h /\ q[2] \in Nat
  BY <1>1 DEF q
<1>3. Good(new.memory, Put(h, q, new.container), Put(v, q, S)) /\ new.container \in Plain
  BY <1>2, AllocateGood
<1>4. Plain \subseteq Pointers
  BY DEF Plain, Pointers
<1>5. new = Allocate(m, k, kind, S)
  BY <1>1
<1> HIDE DEF new
<1> QED
  BY <1>3, <1>4, <1>5 DEF q

LEMMA AllocateAppend ==
  ASSUME NEW m, NEW bs, NEW X, NEW v, World(m, bs, X, v), NEW b \in DOMAIN bs, Whole(X, b),
         NEW k \in Nat, \A j : Val(v, b, j) # {} => j < k,
         NEW kind \in Kinds, NEW S \in SUBSET Lows, S # {}
  PROVE  LET new == Allocate(m, k, kind, S)
             n   == Count(bs, b)
         IN  Reaches(Append1(Pair(new.memory, bs), b, k, new.container), bs, X, v, b, k, S, n + 1, n + 2)
<1> DEFINE new == Allocate(m, k, kind, S)
           mm == new.memory
           c == new.container
           s == Append1(Pair(mm, bs), b, k, c)
           i == Count(bs, b) + 1
           j == Count(bs, b) + 2
<1>1. PICK h : Good(m, h, v) /\ Rep(bs, X, h)
  BY DEF World
<1>2. Full(v)
  BY DEF World
<1>3. \A p \in DOMAIN h : p[1] = b => p[2] < k
  BY <1>1, <1>2, BelowKey
<1>4. <<b, k>> \notin DOMAIN h
  BY <1>1, <1>2, ValHeld
<1>5. Good(mm, Put(h, <<b, k>>, c), Put(v, <<b, k>>, S)) /\ c \in Pointers
  BY <1>1, <1>4, AllocateHeld
<1> HIDE DEF c, mm, new
<1>6. Grown(s, mm, bs, X, Put(h, <<b, k>>, c), b, i, j)
  BY <1>1, <1>3, <1>5, AppendGrown
<1> HIDE DEF s, i, j
<1> DEFINE g == Put(h, <<b, k>>, c)
<1> HIDE DEF g
<1>7. Good(mm, g, Put(v, <<b, k>>, S)) /\ Grown(s, mm, bs, X, g, b, i, j)
  BY <1>5, <1>6 DEF g
<1>8. Reaches(s, bs, X, v, b, k, S, i, j)
  BY <1>2, <1>7, GrownReaches
<1> QED
  BY <1>8 DEF s, i, j, c, mm, new

LEMMA AllocateInsert ==
  ASSUME NEW m, NEW bs, NEW X, NEW v, World(m, bs, X, v), NEW b \in DOMAIN bs, Whole(X, b),
         NEW k \in Nat, NEW i \in 1 .. Count(bs, b) + 1,
         \A j \in 1 .. Count(bs, b) : IF j < i THEN KeyIn(bs, b, j) < k ELSE k < KeyIn(bs, b, j),
         NEW kind \in Kinds, NEW S \in SUBSET Lows, S # {}
  PROVE  LET new == Allocate(m, k, kind, S)
         IN  Reaches(Change(Pair(new.memory, bs), b,
                            InsertAt(EntriesIn(bs, b), i, Entry(k, new.container))),
                     bs, X, v, b, k, S, i, i + 1)
<1> DEFINE new == Allocate(m, k, kind, S)
           mm == new.memory
           c == new.container
           s == Change(Pair(mm, bs), b, InsertAt(EntriesIn(bs, b), i, Entry(k, c)))
           j == i + 1
<1>1. PICK h : Good(m, h, v) /\ Rep(bs, X, h)
  BY DEF World
<1>2. Full(v)
  BY DEF World
<1>4. <<b, k>> \notin DOMAIN h
  <2> SUFFICES ASSUME <<b, k>> \in DOMAIN h PROVE FALSE
    OBVIOUS
  <2>1. PICK x \in Owned(bs, X, b) : KeyIn(bs, b, x) = k
    BY <1>1, KeyPlace
  <2>2. x \in 1 .. Count(bs, b)
    BY <1>1, CountIs
  <2> QED
    BY <2>1, <2>2
<1>5. Good(mm, Put(h, <<b, k>>, c), Put(v, <<b, k>>, S)) /\ c \in Pointers
  BY <1>1, <1>4, AllocateHeld
<1> HIDE DEF c, mm, new
<1>6. Grown(s, mm, bs, X, Put(h, <<b, k>>, c), b, i, j)
  BY <1>1, <1>5, InsertGrown
<1> HIDE DEF s, j
<1> DEFINE g == Put(h, <<b, k>>, c)
<1> HIDE DEF g
<1>7. Good(mm, g, Put(v, <<b, k>>, S)) /\ Grown(s, mm, bs, X, g, b, i, j)
  BY <1>5, <1>6 DEF g
<1>8. Reaches(s, bs, X, v, b, k, S, i, j)
  BY <1>2, <1>7, GrownReaches
<1> QED
  BY <1>8 DEF s, j, c, mm, new

\* A new container that is freed at once.
LEMMA AllocateDropped ==
  ASSUME NEW m, NEW bs, NEW X, NEW v, World(m, bs, X, v), NEW k \in Nat,
         NEW kind \in Kinds, NEW S \in SUBSET Lows
  PROVE  LET new == Allocate(m, k, kind, S)
         IN  World(ContainerFree(new.memory, new.container), bs, X, v)
<1>1. PICK h : Good(m, h, v) /\ Rep(bs, X, h)
  BY DEF World
<1>2. PICK q : q \notin DOMAIN h /\ q[2] = k
  BY Spare
<1> DEFINE new == Allocate(m, q[2], kind, S)
           mm == new.memory
           c == new.container
           g == Put(h, q, c)
           w == Put(v, q, S)
<1>3. Good(mm, g, w)
  BY <1>1, <1>2, AllocateGood
<1>4. q \in DOMAIN g /\ g[q] = c
  BY DEF Put
<1>5. new = Allocate(m, k, kind, S)
  BY <1>2
<1> HIDE DEF g, w, c, mm, new
<1>6. Good(ContainerFree(mm, g[q]), Cut(g, {q}), Cut(w, {q}))
  BY <1>3, <1>4, FreeGood
<1>7. Cut(g, {q}) = h /\ Cut(w, {q}) = v
  <2>1. PICK o : m = Mem(o) /\ Sound(o, h) /\ v = Parts(o, h)
    BY <1>1 DEF Good
  <2>2. h = [z \in DOMAIN h |-> h[z]] /\ v = [z \in DOMAIN v |-> v[z]] /\ DOMAIN v = DOMAIN h
    BY <2>1 DEF Sound, Typed, Parts
  <2>3. Cut(Put(h, q, c), {q}) = h
    BY <1>2, <2>2, PutCut
  <2>4. Cut(Put(v, q, S), {q}) = v
    BY <1>2, <2>2, PutCut
  <2> QED
    BY <2>3, <2>4 DEF g, w
<1>8. World(ContainerFree(mm, c), bs, X, v)
  BY <1>1, <1>4, <1>6, <1>7 DEF World
<1> QED
  BY <1>5, <1>8 DEF mm, c

-----------------------------------------------------------------------------
(***************************************************************************)
(* Reads and writes of what a bitmap has.                                  *)
(***************************************************************************)

LEMMA ReadPlace ==
  ASSUME NEW m, NEW bs, NEW X, NEW v, World(m, bs, X, v), NEW b \in DOMAIN bs,
         NEW i \in Owned(bs, X, b)
  PROVE  LET c == ConIn(bs, b, i)
             k == KeyIn(bs, b, i)
         IN  /\ k \in Nat /\ c \in Pointers /\ c.at.key = k
             /\ ValuesAt(m, c) = Val(v, b, k) /\ Val(v, b, k) # {} /\ Val(v, b, k) \subseteq Lows
             /\ Read(m, c) = m /\ Unwrap(m, c).type \in Kinds
             /\ i \in 1 .. Count(bs, b) /\ Count(bs, b) \in Nat
<1> DEFINE c == ConIn(bs, b, i)
           k == KeyIn(bs, b, i)
           p == <<b, k>>
<1>1. PICK h : Good(m, h, v) /\ Rep(bs, X, h)
  BY DEF World
<1>2. Full(v)
  BY DEF World
<1>3. k \in Nat /\ c \in Pointers /\ p \in DOMAIN h /\ h[p] = c /\ i \in 1 .. Count(bs, b)
      /\ Count(bs, b) \in Nat
  BY <1>1, PlaceIs
<1> HIDE DEF c, k
<1>4. p[2] = k
  OBVIOUS
<1>5. Val(v, b, k) = v[p] /\ Val(v, b, k) # {}
  BY <1>1, <1>2, <1>3, ValHeld
<1> HIDE DEF p
<1>6. /\ Read(m, h[p]) = m /\ ValuesAt(m, h[p]) = v[p] /\ v[p] \in SUBSET Lows
      /\ Unwrap(m, h[p]).type \in Kinds /\ h[p].at.key = p[2]
  BY <1>1, <1>3, ReadHeld
<1> QED
  BY <1>3, <1>4, <1>5, <1>6 DEF c, k

\* A container written but not yet given to its place: c, with S.
Pending(n, c, bs, X, v, b, k, S) ==
  \E h : /\ Rep(bs, X, h) /\ <<b, k>> \in DOMAIN h /\ c \in Pointers
         /\ Good(n, Put(h, <<b, k>>, c), Put(v, <<b, k>>, S))

LEMMA PendingRead ==
  ASSUME NEW n, NEW c, NEW bs, NEW X, NEW v, NEW b, NEW k, NEW S,
         Pending(n, c, bs, X, v, b, k, S)
  PROVE  ValuesAt(n, c) = S
<1> DEFINE p == <<b, k>>
<1>1. PICK h : Good(n, Put(h, p, c), Put(v, p, S))
  BY DEF Pending
<1> HIDE DEF p
<1> DEFINE g == Put(h, p, c)
           w == Put(v, p, S)
<1>2. p \in DOMAIN g /\ g[p] = c /\ w[p] = S
  BY DEF Put
<1> HIDE DEF g, w
<1>3. Good(n, g, w)
  BY <1>1 DEF g, w
<1>4. ValuesAt(n, g[p]) = w[p]
  BY <1>2, <1>3, ReadHeld
<1> QED
  BY <1>2, <1>4

LEMMA PendingSet ==
  ASSUME NEW n, NEW c, NEW bs, NEW X, NEW v, Full(v), NEW b \in DOMAIN bs,
         NEW i \in Owned(bs, X, b), NEW S, S # {},
         Pending(n, c, bs, X, v, b, KeyIn(bs, b, i), S), NEW j \in Nat \ {0}
  PROVE  Reaches(SetAt(Pair(n, bs), b, i, c), bs, X, v, b, KeyIn(bs, b, i), S, j, j)
<1> DEFINE k == KeyIn(bs, b, i)
           s == SetAt(Pair(n, bs), b, i, c)
<1>1. PICK h : /\ Rep(bs, X, h) /\ <<b, k>> \in DOMAIN h /\ c \in Pointers
               /\ Good(n, Put(h, <<b, k>>, c), Put(v, <<b, k>>, S))
  BY DEF Pending
<1>2. Grown(s, n, bs, X, Put(h, <<b, k>>, c), b, j, j)
  BY <1>1, SetGrown
<1> HIDE DEF s, k
<1> DEFINE g == Put(h, <<b, k>>, c)
<1> HIDE DEF g
<1>3. Good(n, g, Put(v, <<b, k>>, S)) /\ Grown(s, n, bs, X, g, b, j, j)
  BY <1>1, <1>2 DEF g
<1>4. Reaches(s, bs, X, v, b, k, S, j, j)
  BY <1>3, GrownReaches
<1> QED
  BY <1>4 DEF s, k

\* What is written goes at once.
LEMMA PendingFree ==
  ASSUME NEW n, NEW c, NEW bs, NEW X, NEW v, NEW b, NEW k, NEW S, NEW h,
         <<b, k>> \in DOMAIN h, <<b, k>> \in DOMAIN v,
         Good(n, Put(h, <<b, k>>, c), Put(v, <<b, k>>, S))
  PROVE  Good(ContainerFree(n, c), Cut(h, {<<b, k>>}), Cut(v, {<<b, k>>}))
<1> DEFINE p == <<b, k>>
<1>1. p \in DOMAIN h /\ p \in DOMAIN v /\ Good(n, Put(h, p, c), Put(v, p, S))
  OBVIOUS
<1> HIDE DEF p
<1> DEFINE g == Put(h, p, c)
           w == Put(v, p, S)
<1>2. p \in DOMAIN g /\ g[p] = c
  BY DEF Put
<1>3. Cut(g, {p}) = Cut(h, {p}) /\ Cut(w, {p}) = Cut(v, {p})
  BY <1>1, CutPut
<1> HIDE DEF g, w
<1>4. Good(n, g, w)
  BY <1>1 DEF g, w
<1>5. Good(ContainerFree(n, g[p]), Cut(g, {p}), Cut(w, {p}))
  BY <1>2, <1>4, FreeGood
<1>6. Good(ContainerFree(n, c), Cut(h, {p}), Cut(v, {p}))
  BY <1>2, <1>3, <1>5
<1> QED
  BY <1>6 DEF p

LEMMA PendingKept ==
  ASSUME NEW n, NEW c, NEW bs, NEW X, NEW v, NEW b, NEW k, NEW S,
         Pending(n, c, bs, X, v, b, k, S),
         NEW m, World(m, bs, X, v)
  PROVE  \E h : /\ Rep(bs, X, h) /\ <<b, k>> \in DOMAIN h /\ <<b, k>> \in DOMAIN v /\ c \in Pointers
                /\ Good(n, Put(h, <<b, k>>, c), Put(v, <<b, k>>, S))
<1> DEFINE p == <<b, k>>
<1> HIDE DEF p
<1>1. PICK h : /\ Rep(bs, X, h) /\ p \in DOMAIN h /\ c \in Pointers
               /\ Good(n, Put(h, p, c), Put(v, p, S))
  BY DEF Pending, p
<1>2. PICK g : Good(m, g, v) /\ Rep(bs, X, g)
  BY DEF World
<1>3. PICK i \in Owned(bs, X, b) : KeyIn(bs, b, i) = k
  BY <1>1, KeyPlace DEF p
<1>4. b \in DOMAIN bs
  BY <1>1, KeyPlace DEF p
<1>5. p \in DOMAIN g
  BY <1>2, <1>3, <1>4, PlaceIs DEF p
<1>6. p \in DOMAIN v
  BY <1>2, <1>5, GoodMem
<1> QED
  BY <1>1, <1>6 DEF p

LEMMA PendingRemove ==
  ASSUME NEW n, NEW c, NEW bs, NEW X, NEW v, NEW b \in DOMAIN bs, Whole(X, b),
         NEW i \in 1 .. Count(bs, b), NEW S,
         Pending(n, c, bs, X, v, b, KeyIn(bs, b, i), S), NEW m, World(m, bs, X, v)
  PROVE  Reaches(Change(Pair(ContainerFree(n, c), bs), b, RemoveAt(EntriesIn(bs, b), i)), bs, X, v,
                 b, KeyIn(bs, b, i), {}, i + 1, i)
<1> DEFINE k == KeyIn(bs, b, i)
           mm == ContainerFree(n, c)
           s == Change(Pair(mm, bs), b, RemoveAt(EntriesIn(bs, b), i))
           j == i + 1
<1>0. Full(v)
  BY DEF World
<1>1. PICK h : /\ Rep(bs, X, h) /\ <<b, k>> \in DOMAIN h /\ <<b, k>> \in DOMAIN v /\ c \in Pointers
               /\ Good(n, Put(h, <<b, k>>, c), Put(v, <<b, k>>, S))
  BY PendingKept
<1>2. Good(mm, Cut(h, {<<b, k>>}), Cut(v, {<<b, k>>}))
  BY <1>1, PendingFree
<1> HIDE DEF mm
<1>3. Grown(s, mm, bs, X, Cut(h, {<<b, k>>}), b, j, i)
  BY <1>1, RemoveGrown
<1> HIDE DEF s, k, j
<1> DEFINE g == Cut(h, {<<b, k>>})
<1> HIDE DEF g
<1>4. Good(mm, g, Cut(v, {<<b, k>>})) /\ Grown(s, mm, bs, X, g, b, j, i)
  BY <1>2, <1>3 DEF g
<1>5. Reaches(s, bs, X, v, b, k, {}, j, i)
  BY <1>0, <1>4, GrownLoses
<1> QED
  BY <1>5 DEF s, k, mm, j

\* A bitmap takes what it has at a place for itself, and writes it.
LEMMA ExtractReads ==
  ASSUME NEW m, NEW bs, NEW X, NEW v, World(m, bs, X, v), NEW b \in DOMAIN bs,
         NEW i \in Owned(bs, X, b)
  PROVE  LET own == ExtractCopy(m, ConIn(bs, b, i))
         IN  /\ ValuesAt(own.memory, own.container) = Val(v, b, KeyIn(bs, b, i))
             /\ \A a \in DOMAIN bs : \A j \in Owned(bs, X, a) : a # b =>
                  /\ Read(own.memory, ConIn(bs, a, j)) = own.memory
                  /\ ValuesAt(own.memory, ConIn(bs, a, j)) = Val(v, a, KeyIn(bs, a, j))
             /\ \A S \in SUBSET Lows : \A r \in InPlace(own.memory, own.container, S) :
                  Pending(r.memory, r.container, bs, X, v, b, KeyIn(bs, b, i), S)
<1> DEFINE c == ConIn(bs, b, i)
           k == KeyIn(bs, b, i)
           p == <<b, k>>
           own == ExtractCopy(m, c)
           mm == own.memory
           d == own.container
<1>1. PICK h : Good(m, h, v) /\ Rep(bs, X, h)
  BY DEF World
<1>2. Full(v)
  BY DEF World
<1>3. k \in Nat /\ p \in DOMAIN h /\ h[p] = c
  BY <1>1, PlaceIs
<1>4. Val(v, b, k) = v[p]
  BY <1>1, <1>2, <1>3, ValHeld
<1> HIDE DEF c, k
<1>5. p[2] \in Nat
  BY <1>3
<1> HIDE DEF p
<1> DEFINE g == Put(h, p, d)
<1>6. Good(mm, g, v) /\ d \in Plain /\ d.type # "shared"
  BY <1>1, <1>3, ExtractGood
<1>7. p \in DOMAIN g /\ g[p] = d /\ \A q \in DOMAIN h : q # p => q \in DOMAIN g /\ g[q] = h[q]
  BY DEF Put
<1> HIDE DEF g, mm, d, own
<1>8. ValuesAt(mm, d) = Val(v, b, k)
  <2>1. ValuesAt(mm, g[p]) = v[p]
    BY <1>6, <1>7, ReadHeld
  <2> QED
    BY <1>4, <1>7, <2>1
<1>9. ASSUME NEW a \in DOMAIN bs, NEW j \in Owned(bs, X, a), a # b
      PROVE  /\ Read(mm, ConIn(bs, a, j)) = mm
             /\ ValuesAt(mm, ConIn(bs, a, j)) = Val(v, a, KeyIn(bs, a, j))
  <2> DEFINE e == ConIn(bs, a, j)
             y == KeyIn(bs, a, j)
             q == <<a, y>>
  <2>1. q \in DOMAIN h /\ h[q] = e
    BY <1>1, PlaceIs
  <2>2. Val(v, a, y) = v[q]
    BY <1>1, <1>2, <2>1, ValHeld
  <2>3. q # p
    BY <1>9 DEF p
  <2> HIDE DEF q, e, y
  <2>4. q \in DOMAIN g /\ g[q] = e
    BY <1>7, <2>1, <2>3
  <2>5. Read(mm, g[q]) = mm /\ ValuesAt(mm, g[q]) = v[q]
    BY <1>6, <2>4, ReadHeld
  <2> QED
    BY <2>2, <2>4, <2>5 DEF e, y
<1>10. ASSUME NEW S \in SUBSET Lows, NEW r \in InPlace(mm, d, S)
       PROVE  Pending(r.memory, r.container, bs, X, v, b, k, S)
  <2> DEFINE n == r.memory
             e == r.container
  <2>1. r \in InPlace(mm, g[p], S) /\ g[p].type # "shared"
    BY <1>6, <1>7
  <2>2. Good(n, Put(g, p, e), Put(v, p, S)) /\ e \in Plain
    BY <1>5, <1>6, <1>7, <2>1, InPlaceGood
  <2>3. Put(g, p, e) = Put(h, p, e)
    <3> HIDE DEF e, n
    <3>1. \A y, z : Put(Put(h, p, y), p, z) = Put(h, p, z)
      BY DEF Put
    <3> QED
      BY <3>1 DEF g
  <2>4. e \in Pointers
    BY <2>2 DEF Plain, Pointers
  <2> HIDE DEF n, e
  <2>5. Pending(n, e, bs, X, v, b, k, S)
    BY <1>1, <1>3, <2>2, <2>3, <2>4 DEF Pending, p
  <2> QED
    BY <2>5 DEF n, e
<1> QED
  BY <1>8, <1>9, <1>10 DEF mm, d, own, k, c

\* What is at a place is freed, and the place given up.
LEMMA FreePlace ==
  ASSUME NEW m, NEW bs, NEW X, NEW v, World(m, bs, X, v), NEW b \in DOMAIN bs,
         NEW i \in Owned(bs, X, b), NEW Y, Y = X \union {<<b, i>>}
  PROVE  Leaves(ContainerFree(m, ConIn(bs, b, i)), bs, Y, v, b, KeyIn(bs, b, i), {})
<1> DEFINE c == ConIn(bs, b, i)
           k == KeyIn(bs, b, i)
           p == <<b, k>>
           mm == ContainerFree(m, c)
<1>1. PICK h : Good(m, h, v) /\ Rep(bs, X, h)
  BY DEF World
<1>2. Full(v)
  BY DEF World
<1>3. p \in DOMAIN h /\ h[p] = c
  BY <1>1, PlaceIs
<1>4. Rep(bs, Y, Cut(h, {<<b, bs[b].entries[i].key>>}))
  BY <1>1, GiveUpGood
<1>5. Rep(bs, Y, Cut(h, {p}))
  BY <1>4 DEF KeyIn
<1> HIDE DEF c, k
<1>6. Good(mm, Cut(h, {p}), Cut(v, {p}))
  <2> HIDE DEF p, mm
  <2>1. Good(ContainerFree(m, h[p]), Cut(h, {p}), Cut(v, {p}))
    BY <1>1, <1>3, FreeGood
  <2> QED
    BY <1>3, <2>1 DEF mm
<1> HIDE DEF mm
<1> DEFINE g == Cut(h, {p})
<1> HIDE DEF g
<1>7. Rep(bs, Y, g) /\ Good(mm, g, Cut(v, {<<b, k>>}))
  BY <1>5, <1>6 DEF g
<1> HIDE DEF p
<1>8. Leaves(mm, bs, Y, v, b, k, {})
  BY <1>2, <1>7, LeavesCut
<1> QED
  BY <1>8 DEF mm, c, k

LEMMA PendingGiveUp ==
  ASSUME NEW n, NEW c, NEW bs, NEW X, NEW v, NEW b \in DOMAIN bs, NEW i \in Owned(bs, X, b),
         NEW S, Pending(n, c, bs, X, v, b, KeyIn(bs, b, i), S), NEW m, World(m, bs, X, v),
         NEW Y, Y = X \union {<<b, i>>}
  PROVE  Leaves(ContainerFree(n, c), bs, Y, v, b, KeyIn(bs, b, i), {})
<1> DEFINE k == KeyIn(bs, b, i)
           p == <<b, k>>
           mm == ContainerFree(n, c)
<1>0. Full(v)
  BY DEF World
<1>1. PICK h : /\ Rep(bs, X, h) /\ <<b, k>> \in DOMAIN h /\ <<b, k>> \in DOMAIN v /\ c \in Pointers
               /\ Good(n, Put(h, <<b, k>>, c), Put(v, <<b, k>>, S))
  BY PendingKept
<1>2. Good(mm, Cut(h, {<<b, k>>}), Cut(v, {<<b, k>>}))
  BY <1>1, PendingFree
<1>4. Rep(bs, Y, Cut(h, {<<b, bs[b].entries[i].key>>}))
  BY <1>1, GiveUpGood
<1>5. Rep(bs, Y, Cut(h, {p}))
  BY <1>4 DEF KeyIn
<1> HIDE DEF mm, k
<1> DEFINE g == Cut(h, {p})
<1>7. Rep(bs, Y, g) /\ Good(mm, g, Cut(v, {<<b, k>>}))
  BY <1>2, <1>5 DEF g
<1> HIDE DEF p, g
<1>8. Leaves(mm, bs, Y, v, b, k, {})
  BY <1>0, <1>7, LeavesCut
<1> QED
  BY <1>8 DEF mm, k

\* An entry goes down to the first place of those that were given up.
LEMMA KeepGrown ==
  ASSUME NEW m, NEW bs, NEW h, NEW b \in DOMAIN bs, NEW n \in Nat,
         NEW i \in 1 .. Count(bs, b),
         n < i, NEW X, X = Gap(b, n + 1, i - 1), NEW Y, Y = Gap(b, n + 2, i), Rep(bs, X, h),
         NEW c \in Pointers, NEW k, k = KeyIn(bs, b, i), NEW x, x = i + 1
  PROVE  /\ Grown(Kept(Pair(m, bs), b, n, k, c), m, bs, Y, Put(h, <<b, k>>, c), b, x, x)
         /\ Kept(Pair(m, bs), b, n, k, c) = Pair(m, KeptIn(bs, b, n, k, c))
<1> DEFINE s == Kept(Pair(m, bs), b, n, k, c)
           N == Count(bs, b)
           u == KeptIn(bs, b, n, k, c)
<1>1. KeptWell(m, bs, Y, h, b, n, k, c)
  BY KeepGood
<1>2. /\ s = Pair(m, u) /\ Rep(u, Y, Put(h, <<b, k>>, c))
      /\ Alike(bs, u, b) /\ Count(u, b) = N
      /\ \A j \in 1 .. N : j # n + 1 => KeyIn(u, b, j) = KeyIn(bs, b, j)
  BY <1>1 DEF KeptWell
<1>5. i \in 1 .. N /\ N \in Nat
  BY CountIs
<1> HIDE DEF N, s, u
<1>6. Moves(bs, u, b, x, x)
  <2>1. \A j \in x .. N : KeyIn(u, b, j) = KeyIn(bs, b, j)
    BY <1>2, <1>5
  <2>2. Rest(u, b, x) = {KeyIn(u, b, j) : j \in x .. N}
    BY <1>2 DEF Rest
  <2>3. Rest(bs, b, x) = {KeyIn(bs, b, j) : j \in x .. N}
    BY DEF Rest, N
  <2>4. Rest(u, b, x) = Rest(bs, b, x)
    BY <2>1, <2>2, <2>3
  <2> QED
    BY <1>2, <2>4 DEF Moves, N
<1> QED
  BY <1>2, <1>6 DEF Grown, s, u

LEMMA PendingKeep ==
  ASSUME NEW r, NEW c, NEW bs, NEW v, Full(v), NEW b \in DOMAIN bs, NEW n \in Nat,
         NEW i \in 1 .. Count(bs, b), n < i, NEW X, X = Gap(b, n + 1, i - 1),
         NEW Y, Y = Gap(b, n + 2, i), NEW k, k = KeyIn(bs, b, i), NEW S, S # {},
         Pending(r, c, bs, X, v, b, k, S), NEW x, x = i + 1
  PROVE  Reaches(Kept(Pair(r, bs), b, n, k, c), bs, Y, v, b, k, S, x, x)
<1> DEFINE s == Kept(Pair(r, bs), b, n, k, c)
<1>1. PICK h : /\ Rep(bs, X, h) /\ c \in Pointers
               /\ Good(r, Put(h, <<b, k>>, c), Put(v, <<b, k>>, S))
  BY DEF Pending
<1>2. Grown(s, r, bs, Y, Put(h, <<b, k>>, c), b, x, x)
  BY <1>1, KeepGrown
<1> DEFINE g == Put(h, <<b, k>>, c)
<1> HIDE DEF g, s
<1>3. Grown(s, r, bs, Y, g, b, x, x) /\ Good(r, g, Put(v, <<b, k>>, S))
  BY <1>1, <1>2 DEF g
<1>4. Reaches(s, bs, Y, v, b, k, S, x, x)
  BY <1>3, GrownReaches
<1> QED
  BY <1>4 DEF s

LEMMA KeepPlace ==
  ASSUME NEW m, NEW bs, NEW v, NEW b \in DOMAIN bs, NEW n \in Nat,
         NEW i \in 1 .. Count(bs, b), n < i, NEW X, X = Gap(b, n + 1, i - 1),
         NEW Y, Y = Gap(b, n + 2, i), NEW k, k = KeyIn(bs, b, i), NEW x, x = i + 1,
         World(m, bs, X, v), NEW c, c = ConIn(bs, b, i)
  PROVE  /\ Reaches(Kept(Pair(m, bs), b, n, k, c), bs, Y, v, b, k, Val(v, b, k), x, x)
         /\ Kept(Pair(m, bs), b, n, k, c) = Pair(m, KeptIn(bs, b, n, k, c))
<1> DEFINE s == Kept(Pair(m, bs), b, n, k, c)
           p == <<b, k>>
           S == Val(v, b, k)
<1>0. Full(v)
  BY DEF World
<1>1. PICK h : Good(m, h, v) /\ Rep(bs, X, h)
  BY DEF World
<1>2. i \in Owned(bs, X, b)
  <2>1. <<b, i>> \notin X
    BY InGap
  <2> QED
    BY <1>1, <2>1, CountIs
<1>3. p \in DOMAIN h /\ h[p] = c /\ c \in Pointers
  BY <1>1, <1>2, PlaceIs
<1>4. S = v[p] /\ S # {}
  BY <1>0, <1>1, <1>3, ValHeld
<1>5. /\ Grown(s, m, bs, Y, Put(h, <<b, k>>, c), b, x, x)
      /\ s = Pair(m, KeptIn(bs, b, n, k, c))
  BY <1>1, <1>3, KeepGrown
<1> HIDE DEF S, p
<1>6. Put(h, p, c) = h /\ Put(v, p, S) = v
  <2>1. PICK o : m = Mem(o) /\ Sound(o, h) /\ v = Parts(o, h)
    BY <1>1 DEF Good
  <2>2. h = [z \in DOMAIN h |-> h[z]] /\ v = [z \in DOMAIN v |-> v[z]] /\ DOMAIN v = DOMAIN h
    BY <2>1 DEF Sound, Typed, Parts
  <2>3. Put(h, p, c) = h
    BY <1>3, <2>2 DEF Put
  <2>4. Put(v, p, S) = v
    BY <1>3, <1>4, <2>2 DEF Put
  <2> QED
    BY <2>3, <2>4
<1>7. Grown(s, m, bs, Y, h, b, x, x) /\ Good(m, h, Put(v, <<b, k>>, S))
  BY <1>1, <1>5, <1>6 DEF p
<1> HIDE DEF s
<1>8. Reaches(s, bs, Y, v, b, k, S, x, x)
  BY <1>0, <1>4, <1>7, GrownReaches
<1> QED
  BY <1>5, <1>8 DEF s, S

\* The end of the calls that leave gaps.
Closes(s, bs, v, b) ==
  \E n, u : s = Pair(n, u) /\ World(n, u, {}, v) /\ Alike(bs, u, b)

LEMMA CloseGap ==
  ASSUME NEW m, NEW bs, NEW v, NEW b \in DOMAIN bs, NEW n \in Nat,
         NEW i \in 1 .. Count(bs, b) + 1, n < i, NEW X, X = Gap(b, n + 1, i - 1),
         World(m, bs, X, v)
  PROVE  /\ Closes(Change(Pair(m, bs), b, Shifted(EntriesIn(bs, b), i, n)), bs, v, b)
         /\ i = Count(bs, b) + 1 => SubSeq(EntriesIn(bs, b), 1, n) = Shifted(EntriesIn(bs, b), i, n)
<1>0. Full(v)
  BY DEF World
<1>1. PICK h : Good(m, h, v) /\ Rep(bs, X, h)
  BY DEF World
<1>2. i \in 1 .. Len(bs[b].entries) + 1 /\ Len(bs[b].entries) \in Nat
  BY <1>1, RepTypes DEF Count
<1> DEFINE s == Change(Pair(m, bs), b, Shifted(bs[b].entries, i, n))
<1>3. PICK u : s = Pair(m, u) /\ Rep(u, {}, h) /\ Alike(bs, u, b)
  BY <1>1, <1>2, CloseGood
<1>4. World(m, u, {}, v)
  BY <1>0, <1>1, <1>3 DEF World
<1> HIDE DEF s
<1>5. Closes(s, bs, v, b)
  BY <1>3, <1>4 DEF Closes
<1>6. ASSUME i = Count(bs, b) + 1 PROVE SubSeq(EntriesIn(bs, b), 1, n) = Shifted(EntriesIn(bs, b), i, n)
  <2> DEFINE e == bs[b].entries
             O == Owned(bs, X, b)
  <2>1. Shows(e, O, h, b)
    BY <1>1 DEF Rep
  <2>2. n \in 0 .. Len(e) /\ i = Len(e) + 1
    BY <1>2, <1>6 DEF Count
  <2> HIDE DEF e, O
  <2>3. SubSeq(e, 1, n) = Shifted(e, Len(e) + 1, n)
    BY <2>1, <2>2, PrefixIs
  <2> QED
    BY <2>2, <2>3 DEF EntriesIn, e
<1> QED
  BY <1>5, <1>6 DEF s, EntriesIn

\* Bitmaps that come and go.
LEMMA GoneWorld ==
  ASSUME NEW m, NEW bs, NEW X, NEW v, World(m, bs, X, v), NEW G,
         \A b \in G : \A k : Val(v, b, k) = {},
         NEW Y, \A a \in DOMAIN bs \ G : \A i : <<a, i>> \in X <=> <<a, i>> \in Y
  PROVE  World(m, [b \in DOMAIN bs \ G |-> bs[b]], Y, v)
<1>0. Full(v)
  BY DEF World
<1>1. PICK h : Good(m, h, v) /\ Rep(bs, X, h)
  BY DEF World
<1>2. ASSUME NEW p \in DOMAIN h PROVE p[1] \notin G
  <2> DEFINE b == p[1]
             k == p[2]
  <2>1. <<b, k>> \in DOMAIN h
    BY <1>1, HolderIs
  <2> HIDE DEF b, k
  <2>2. Val(v, b, k) # {}
    BY <1>0, <1>1, <2>1, ValHeld
  <2> QED
    BY <2>2 DEF b
<1> DEFINE u == [b \in DOMAIN bs \ G |-> bs[b]]
<1>3. Rep(u, Y, h)
  BY <1>1, <1>2, GoneGood
<1> HIDE DEF u
<1>4. World(m, u, Y, v)
  BY <1>0, <1>1, <1>3 DEF World
<1> QED
  BY <1>4 DEF u

\* The bitmaps with an empty one more.
With(bs, to, flag) == [b \in DOMAIN bs \union {to} |-> IF b = to THEN Empty(flag) ELSE bs[b]]

LEMMA MadeWorld ==
  ASSUME NEW m, NEW bs, NEW X, NEW v, World(m, bs, X, v),
         NEW to \in Slots, to \notin DOMAIN bs,
         NEW flag \in BOOLEAN
  PROVE  LET u == With(bs, to, flag)
         IN  /\ World(m, u, X, v) /\ DOMAIN u = DOMAIN bs \union {to}
             /\ Count(u, to) = 0 /\ \A k : Val(v, to, k) = {}
             /\ \A b \in DOMAIN bs : b # to /\ u[b] = bs[b]
<1>0. Full(v)
  BY DEF World
<1>1. PICK h : Good(m, h, v) /\ Rep(bs, X, h)
  BY DEF World
<1> DEFINE u == With(bs, to, flag)
<1>2. /\ Rep(u, X, h) /\ DOMAIN u = DOMAIN bs \union {to}
      /\ u[to].entries = <<>> /\ Len(u[to].entries) = 0
      /\ \A p \in DOMAIN h : p[1] # to
      /\ \A b \in DOMAIN bs : b # to /\ u[b] = bs[b]
  BY <1>1, MadeGood DEF With
<1> HIDE DEF u
<1>3. Count(u, to) = 0
  BY <1>2 DEF Count
<1>4. ASSUME NEW k PROVE Val(v, to, k) = {}
  <2> SUFFICES ASSUME Val(v, to, k) # {} PROVE FALSE
    OBVIOUS
  <2>1. <<to, k>> \in DOMAIN h
    BY <1>0, <1>1, ValHeld
  <2>2. <<to, k>>[1] = to
    OBVIOUS
  <2> QED
    BY <1>2, <2>1, <2>2
<1>5. World(m, u, X, v)
  BY <1>0, <1>1, <1>2 DEF World
<1> QED
  BY <1>2, <1>3, <1>4, <1>5 DEF u

-----------------------------------------------------------------------------
(***************************************************************************)
(* What a bitmap has moves to another one.                                 *)
(***************************************************************************)

\* The values under k go from the bitmaps G to the bitmap to, where they are S.
Takes(v, w, to, G, k, S) ==
  \A a, j : Val(w, a, j) = IF j = k /\ a = to THEN S
                           ELSE IF j = k /\ a \in G THEN {} ELSE Val(v, a, j)

\* What a step that takes over containers leaves.
TakesOver(s, bs, Y, v, to, G, k, S) ==
  \E n, u, w : /\ s = Pair(n, u) /\ World(n, u, Y, w)
               /\ Alike(bs, u, to) /\ Takes(v, w, to, G, k, S)

LEMMA HandOverGood ==
  ASSUME NEW m, NEW h, NEW v, Good(m, h, v), NEW p \in DOMAIN h, NEW q, q \notin DOMAIN h,
         q[2] = p[2]
  PROVE  Good(m, Put(Cut(h, {p}), q, h[p]), Put(Cut(v, {p}), q, v[p]))
<1>1. PICK o : m = Mem(o) /\ Sound(o, h) /\ v = Parts(o, h)
  BY DEF Good
<1> DEFINE g == Put(Cut(h, {p}), q, h[p])
<1>2. Sound(o, g) /\ Parts(o, g) = Put(Cut(v, {p}), q, v[p])
  BY <1>1, HandOver
<1> HIDE DEF g
<1>3. Good(Mem(o), g, Put(Cut(v, {p}), q, v[p]))
  BY <1>2, GoodIntro
<1> QED
  BY <1>1, <1>3 DEF g

LEMMA TakesOne ==
  ASSUME NEW v, NEW b, NEW to, NEW k, NEW S
  PROVE  Takes(v, Put(Cut(v, {<<b, k>>}), <<to, k>>, S), to, {b}, k, S)
<1> DEFINE y == Cut(v, {<<b, k>>})
           w == Put(y, <<to, k>>, S)
<1>1. Sets(v, y, b, k, {})
  BY ValCut
<1>2. Sets(y, w, to, k, S)
  BY ValPut
<1> HIDE DEF y, w
<1>3. Takes(v, w, to, {b}, k, S)
  BY <1>1, <1>2 DEF Sets, Takes
<1> QED
  BY <1>3 DEF w, y

LEMMA TakesTwo ==
  ASSUME NEW v, NEW b, NEW d, NEW to, NEW k, NEW S, NEW T
  PROVE  Takes(v, Put(Cut(Cut(Put(v, <<b, k>>, T), {<<d, k>>}), {<<b, k>>}), <<to, k>>, S), to, {b, d}, k, S)
<1> DEFINE z == Put(v, <<b, k>>, T)
           x == Cut(z, {<<d, k>>})
           y == Cut(x, {<<b, k>>})
           w == Put(y, <<to, k>>, S)
<1>4. Sets(v, z, b, k, T)
  BY ValPut
<1>5. Sets(z, x, d, k, {})
  BY ValCut
<1>1. Sets(x, y, b, k, {})
  BY ValCut
<1>2. Sets(y, w, to, k, S)
  BY ValPut
<1> HIDE DEF x, y, z, w
<1>3. Takes(v, w, to, {b, d}, k, S)
  BY <1>1, <1>2, <1>4, <1>5 DEF Sets, Takes
<1> QED
  BY <1>3 DEF w, y, z, x

LEMMA HandOverTakes ==
  ASSUME NEW m, NEW bs, NEW X, NEW v, World(m, bs, X, v), NEW b \in DOMAIN bs,
         NEW i \in Owned(bs, X, b), NEW to \in DOMAIN bs, to # b, Whole(X, to),
         NEW k, k = KeyIn(bs, b, i), NEW c, c = ConIn(bs, b, i),
         \A j : Val(v, to, j) # {} => j < k, NEW Y, Y = X \union {<<b, i>>}
  PROVE  TakesOver(Append1(Pair(m, bs), to, k, c), bs, Y, v, to, {b}, k, Val(v, b, k))
<1> DEFINE p == <<b, k>>
           q == <<to, k>>
           S == Val(v, b, k)
           s == Append1(Pair(m, bs), to, k, c)
<1>0. Full(v)
  BY DEF World
<1>1. PICK h : Good(m, h, v) /\ Rep(bs, X, h)
  BY DEF World
<1>2. p \in DOMAIN h /\ h[p] = c /\ c \in Pointers /\ k \in Nat
  BY <1>1, PlaceIs
<1>3. S = v[p] /\ S # {}
  BY <1>0, <1>1, <1>2, ValHeld
<1>4. \A e \in DOMAIN h : e[1] = to => e[2] < k
  BY <1>0, <1>1, BelowKey
<1>5. q \notin DOMAIN h /\ q[2] = p[2] /\ q # p
  <2>1. Val(v, to, k) = {}
    BY <1>2
  <2>2. q \notin DOMAIN h
    BY <1>0, <1>1, <2>1, ValHeld
  <2> QED
    BY <1>2, <2>2
<1> HIDE DEF S
<1> DEFINE g == Cut(h, {p})
<1>6. Rep(bs, Y, g)
  <2>1. Rep(bs, Y, Cut(h, {<<b, bs[b].entries[i].key>>}))
    BY <1>1, GiveUpGood
  <2>2. bs[b].entries[i].key = k
    BY DEF KeyIn
  <2> QED
    BY <2>1, <2>2
<1>7. Whole(Y, to) /\ \A e \in DOMAIN g : e[1] = to => e[2] < k
  <2>1. Whole(Y, to)
    BY DEF Whole
  <2>2. DOMAIN g \subseteq DOMAIN h
    BY DEF Cut
  <2> QED
    BY <1>4, <2>1, <2>2
<1> HIDE DEF g, s
<1> DEFINE x == Count(bs, to) + 1
           y == Count(bs, to) + 2
<1>8. Grown(s, m, bs, Y, Put(g, q, c), to, x, y)
  BY <1>2, <1>6, <1>7, AppendGrown DEF s
<1> HIDE DEF x, y
<1>9. PICK u : s = Pair(m, u) /\ Rep(u, Y, Put(g, q, c)) /\ Alike(bs, u, to)
  BY <1>8 DEF Grown
<1> DEFINE w == Put(Cut(v, {p}), q, S)
<1>10. Good(m, Put(g, q, c), w)
  <2>1. Good(m, Put(Cut(h, {p}), q, h[p]), Put(Cut(v, {p}), q, v[p]))
    <3> HIDE DEF p, q
    <3> QED
      BY <1>1, <1>2, <1>5, HandOverGood
  <2> QED
    BY <1>2, <1>3, <2>1 DEF g
<1>11. Full(w)
  <2> HIDE DEF p, q
  <2> QED
    BY <1>0, <1>3 DEF Full, Put, Cut
<1>12. Takes(v, w, to, {b}, k, S)
  BY TakesOne
<1> HIDE DEF w
<1>13. World(m, u, Y, w)
  BY <1>9, <1>10, <1>11 DEF World
<1>14. TakesOver(s, bs, Y, v, to, {b}, k, S)
  BY <1>9, <1>12, <1>13 DEF TakesOver
<1> QED
  BY <1>14 DEF s, S

LEMMA PlaceHeld ==
  ASSUME NEW bs, NEW X, NEW h, Rep(bs, X, h), NEW b \in DOMAIN bs,
         NEW i \in Owned(bs, X, b),
         NEW k, k = KeyIn(bs, b, i), NEW c, c = ConIn(bs, b, i)
  PROVE  <<b, k>> \in DOMAIN h /\ h[<<b, k>>] = c /\ c \in Pointers /\ k \in Nat
BY PlaceIs

\* What two bitmaps have under a key is united into one container, which moves.
\* Two bitmaps of a world at places under the same key, which are to go to a third one.
Consuming(m, bs, X, v, b, i, d, j, to, k, Y, c, e, first, second) ==
  /\ World(m, bs, X, v) /\ b \in DOMAIN bs /\ d \in DOMAIN bs
  /\ to \in DOMAIN bs /\ b # d /\ to # b /\ to # d
  /\ i \in Owned(bs, X, b) /\ j \in Owned(bs, X, d) /\ Whole(X, to)
  /\ k = KeyIn(bs, b, i) /\ k = KeyIn(bs, d, j)
  /\ c = ConIn(bs, b, i) /\ e = ConIn(bs, d, j)
  /\ \A l : Val(v, to, l) # {} => l < k
  /\ Y = (X \union {<<b, i>>}) \union {<<d, j>>}
  /\ first = ExtractCopy(m, c) /\ second = ExtractCopy(first.memory, e)

\* What the union of two containers leaves once the answer has it.
Consumes(bs, Y, v, to, b, d, k, first, second) ==
  \A S \in SUBSET Lows :
    \A r \in InPlace(Read(second.memory, second.container), first.container, S) :
      S # {} =>
      TakesOver(Append1(Pair(ContainerFree(r.memory, second.container), bs), to, k, r.container),
                bs, Y, v, to, {b, d}, k, S)

LEMMA ConsumeAll ==
  ASSUME NEW m, NEW bs, NEW X, NEW v, NEW b, NEW d, NEW to, NEW i, NEW j, NEW k, NEW c,
         NEW e,
         NEW Y, NEW first, NEW second,
         Consuming(m, bs, X, v, b, i, d, j, to, k, Y, c, e, first, second)
  PROVE  /\ ValuesAt(second.memory, first.container) = Val(v, b, k)
         /\ ValuesAt(second.memory, second.container) = Val(v, d, k)
         /\ Consumes(bs, Y, v, to, b, d, k, first, second)
<1> SUFFICES ASSUME
         World(m, bs, X, v), b \in DOMAIN bs, d \in DOMAIN bs,
         to \in DOMAIN bs, b # d, to # b, to # d,
         i \in Owned(bs, X, b), j \in Owned(bs, X, d), Whole(X, to),
         k = KeyIn(bs, b, i), k = KeyIn(bs, d, j),
         c = ConIn(bs, b, i), e = ConIn(bs, d, j),
         \A l : Val(v, to, l) # {} => l < k,
         Y = (X \union {<<b, i>>}) \union {<<d, j>>},
         first = ExtractCopy(m, c), second = ExtractCopy(first.memory, e)
             PROVE
         /\ ValuesAt(second.memory, first.container) = Val(v, b, k)
         /\ ValuesAt(second.memory, second.container) = Val(v, d, k)
         /\ \A S \in SUBSET Lows :
              \A r \in InPlace(Read(second.memory, second.container), first.container, S) :
                S # {} =>
                TakesOver(Append1(Pair(ContainerFree(r.memory, second.container), bs), to, k, r.container),
                          bs, Y, v, to, {b, d}, k, S)
  BY DEF Consuming, Consumes
<1> DEFINE p == <<b, k>>
           o == <<d, k>>
           q == <<to, k>>
<1>0. Full(v)
  BY DEF World
<1>1. PICK h : Good(m, h, v) /\ Rep(bs, X, h)
  BY DEF World
<1>2. p \in DOMAIN h /\ h[p] = c /\ c \in Pointers /\ k \in Nat
  <2>1. Rep(bs, X, h) /\ b \in DOMAIN bs /\ i \in Owned(bs, X, b) /\ k = KeyIn(bs, b, i) /\ c = ConIn(bs, b, i)
    BY <1>1
  <2> HIDE DEF p
  <2>2. <<b, k>> \in DOMAIN h /\ h[<<b, k>>] = c /\ c \in Pointers /\ k \in Nat
    BY ONLY <2>1, PlaceHeld
  <2> QED
    BY <2>2 DEF p
<1>3. o \in DOMAIN h /\ h[o] = e /\ e \in Pointers
  BY <1>1, PlaceHeld
<1>4. Val(v, b, k) = v[p] /\ Val(v, d, k) = v[o]
  BY <1>0, <1>1, <1>2, <1>3, ValHeld
<1>5. \A z \in DOMAIN h : z[1] = to => z[2] < k
  BY <1>0, <1>1, BelowKey
<1>6. q \notin DOMAIN h /\ q[2] = k /\ p[2] = k /\ o[2] = k /\ q # p /\ q # o /\ o # p
  <2>1. Val(v, to, k) = {}
    BY <1>2
  <2>2. q \notin DOMAIN h
    BY <1>0, <1>1, <2>1, ValHeld
  <2> QED
    BY <2>2
<1> DEFINE V == Val(v, b, k)
           W == Val(v, d, k)
           ff == first.memory
           fc == first.container
           sm == second.memory
           sc == second.container
<1>7. DOMAIN v = DOMAIN h
  BY <1>1, GoodMem
<1> DEFINE g1 == Put(h, p, fc)
           g2 == Put(g1, o, sc)
<1>8. Good(ff, g1, v) /\ fc \in Plain /\ fc.type # "shared"
  <2> HIDE DEF p
  <2> QED
    BY <1>1, <1>2, ExtractGood
<1>9. g1[o] = e /\ o \in DOMAIN g1
  <2> HIDE DEF p, o
  <2> QED
    BY <1>3, <1>6 DEF Put
<1>10. Good(sm, g2, v) /\ sc \in Plain
  <2> HIDE DEF p, o, g1
  <2> QED
    BY <1>8, <1>9, ExtractGood
<1>11. /\ p \in DOMAIN g2 /\ o \in DOMAIN g2 /\ DOMAIN g2 = DOMAIN h
       /\ g2[p] = fc /\ g2[o] = sc /\ g1 = Put(h, p, fc)
       /\ \A z \in DOMAIN h : z # p /\ z # o => g2[z] = h[z]
  <2> HIDE DEF p, o
  <2> QED
    BY <1>2, <1>3, <1>6 DEF Put
<1> HIDE DEF g1, g2, p, o, q
<1>12. ValuesAt(sm, fc) = V /\ ValuesAt(sm, sc) = W /\ Read(sm, sc) = sm
  BY <1>4, <1>10, <1>11, ReadHeld
<1> HIDE DEF V, W, ff, fc, sm, sc
<1>13. ASSUME NEW S \in SUBSET Lows, NEW r \in InPlace(sm, fc, S), S # {}
       PROVE  TakesOver(Append1(Pair(ContainerFree(r.memory, sc), bs), to, k, r.container),
                        bs, Y, v, to, {b, d}, k, S)
  <2> DEFINE rc == r.container
             rm == r.memory
             g3 == Put(g2, p, rc)
             g4 == Cut(g3, {o})
             v3 == Put(v, p, S)
             v4 == Cut(v3, {o})
             n  == ContainerFree(rm, sc)
  <2>1. Good(rm, g3, v3) /\ rc \in Plain
    <3>1. r \in InPlace(sm, g2[p], S) /\ g2[p].type # "shared" /\ p[2] \in Nat
      BY <1>2, <1>6, <1>8, <1>11
    <3> QED
      BY <1>10, <1>11, <3>1, InPlaceGood
  <2>2. o \in DOMAIN g3 /\ g3[o] = sc /\ p \in DOMAIN g3 /\ g3[p] = rc
    BY <1>6, <1>11 DEF Put
  <2> HIDE DEF rc, rm
  <2>3. Good(n, g4, v4)
    <3> HIDE DEF g3, v3
    <3> QED
      BY <2>1, <2>2, FreeGood
  <2>4. p \in DOMAIN g4 /\ g4[p] = rc /\ q \notin DOMAIN g4 /\ q[2] = p[2]
    <3>1. q \notin DOMAIN g3
      BY <1>6, <1>11 DEF Put
    <3> HIDE DEF g3
    <3> QED
      BY <1>6, <2>2, <3>1 DEF Cut
  <2>5. v4[p] = S
    BY <1>2, <1>6, <1>7 DEF Put, Cut
  <2> DEFINE g == Cut(Cut(h, {p}), {o})
             w == Put(Cut(v4, {p}), q, S)
  <2>6. Cut(g4, {p}) = g
    <3>1. DOMAIN Cut(g4, {p}) = DOMAIN h \ {p, o} /\ DOMAIN g = DOMAIN h \ {p, o}
      BY <1>2, <1>11 DEF Put, Cut
    <3>2. \A z \in DOMAIN h \ {p, o} : Cut(g4, {p})[z] = h[z] /\ g[z] = h[z]
      BY <1>2, <1>11 DEF Put, Cut
    <3> QED
      BY <3>1, <3>2 DEF Cut
  <2> HIDE DEF g3, n
  <2>7. Good(n, Put(g, q, rc), w)
    <3> HIDE DEF g4, v4, g
    <3>1. Good(n, Put(Cut(g4, {p}), q, g4[p]), Put(Cut(v4, {p}), q, v4[p]))
      BY <2>3, <2>4, HandOverGood
    <3> QED
      BY <2>4, <2>5, <2>6, <3>1
  <2>8. Rep(bs, Y, g)
    <3> DEFINE X1 == X \union {<<b, i>>}
    <3>1. Rep(bs, X1, Cut(h, {<<b, bs[b].entries[i].key>>}))
      BY <1>1, GiveUpGood
    <3>2. bs[b].entries[i].key = k /\ bs[d].entries[j].key = k
      BY DEF KeyIn
    <3>3. Rep(bs, X1, Cut(h, {p}))
      BY <3>1, <3>2 DEF p
    <3>4. j \in Owned(bs, X1, d)
      BY DEF Owned
    <3>5. Y = X1 \union {<<d, j>>}
      OBVIOUS
    <3> DEFINE hh == Cut(h, {p})
    <3> HIDE DEF X1, hh
    <3>6. Rep(bs, Y, Cut(hh, {<<d, bs[d].entries[j].key>>}))
      BY <3>3, <3>4, <3>5, GiveUpGood DEF hh
    <3> QED
      BY <3>2, <3>6 DEF o, hh
  <2>9. Whole(Y, to) /\ \A z \in DOMAIN g : z[1] = to => z[2] < k
    <3>1. Whole(Y, to)
      BY DEF Whole
    <3>2. DOMAIN g \subseteq DOMAIN h
      BY DEF Cut
    <3> QED
      BY <1>5, <3>1, <3>2
  <2> HIDE DEF g
  <2> DEFINE s == Append1(Pair(n, bs), to, k, rc)
             x == Count(bs, to) + 1
             y == Count(bs, to) + 2
  <2>10. Grown(s, n, bs, Y, Put(g, q, rc), to, x, y)
    <3>1. rc \in Pointers
      BY <2>1 DEF Plain, Pointers
    <3> QED
      BY <1>2, <2>8, <2>9, <3>1, AppendGrown DEF q
  <2> HIDE DEF x, y, s
  <2>11. PICK u : s = Pair(n, u) /\ Rep(u, Y, Put(g, q, rc)) /\ Alike(bs, u, to)
    BY <2>10 DEF Grown
  <2>12. Full(w)
    BY <1>0, <1>13 DEF Full, Put, Cut
  <2>13. Takes(v, w, to, {b, d}, k, S)
    BY TakesTwo DEF p, o, q
  <2> HIDE DEF w
  <2>14. World(n, u, Y, w)
    BY <2>7, <2>11, <2>12 DEF World
  <2>15. TakesOver(s, bs, Y, v, to, {b, d}, k, S)
    BY <2>11, <2>13, <2>14 DEF TakesOver
  <2> QED
    BY <2>15 DEF s, n, rm, rc
<1>14. Read(second.memory, second.container) = sm
  BY <1>12 DEF sm, sc
<1> QED
  BY <1>12, <1>13, <1>14 DEF V, W, sm, sc, fc

LEMMA ConsumeReads ==
  ASSUME NEW m, NEW bs, NEW X, NEW v, NEW b, NEW d, NEW to, NEW i, NEW j, NEW k, NEW c,
         NEW e,
         NEW Y, NEW first, NEW second,
         Consuming(m, bs, X, v, b, i, d, j, to, k, Y, c, e, first, second)
  PROVE  /\ ValuesAt(second.memory, first.container) = Val(v, b, k)
         /\ ValuesAt(second.memory, second.container) = Val(v, d, k)
BY ConsumeAll

LEMMA ConsumeMeets ==
  ASSUME NEW m, NEW bs, NEW X, NEW v, NEW b, NEW d, NEW to, NEW i, NEW j, NEW k, NEW c,
         NEW e,
         NEW Y, NEW first, NEW second,
         Consuming(m, bs, X, v, b, i, d, j, to, k, Y, c, e, first, second)
  PROVE  \A S \in SUBSET Lows :
              \A r \in InPlace(Read(second.memory, second.container), first.container, S) :
                S # {} =>
                TakesOver(Append1(Pair(ContainerFree(r.memory, second.container), bs), to, k, r.container),
                          bs, Y, v, to, {b, d}, k, S)
<1>1. Consumes(bs, Y, v, to, b, d, k, first, second)
  BY ConsumeAll
<1> QED
  BY <1>1 DEF Consumes

-----------------------------------------------------------------------------
(***************************************************************************)
(* Between calls: what is held gets the name of its holders.               *)
(***************************************************************************)

\* The holders of an object, and those of the wrapper it is in.
Reached(o, h, a) == {p \in DOMAIN h : a \in {h[p].at, Inner(o, h[p]).at}}

LEMMA ReachedIs ==
  ASSUME NEW o, NEW h, Sound(o, h), NEW p \in DOMAIN h, NEW a, p \in Reached(o, h, a)
  PROVE  /\ a \in DOMAIN o /\ a.key = p[2]
         /\ a.what = "wrapper" => a = h[p].at
         /\ a.what = "container" => a = Inner(o, h[p]).at
         /\ a.what \in {"wrapper", "container"}
<1>1. h[p] \in Pointers /\ h[p].at \in DOMAIN o /\ h[p].at.key = p[2]
  BY HeldIs
<1>2. a = h[p].at \/ a = Inner(o, h[p]).at
  BY DEF Reached
<1>3. CASE h[p].type # "shared"
  <2>1. Inner(o, h[p]) = h[p] /\ h[p].at.what = "container"
    BY <1>3, HeldIs DEF Inner
  <2> QED
    BY <1>1, <1>2, <2>1
<1>4. CASE h[p].type = "shared"
  <2> DEFINE w == h[p].at
             i == o[w].inner
  <2>1. /\ w.what = "wrapper" /\ i.at \in DOMAIN o /\ i.at.what = "container" /\ i.at.key = p[2]
    BY <1>4, WrappedIs
  <2>2. Inner(o, h[p]) = i
    BY <1>4 DEF Inner
  <2> HIDE DEF w, i
  <2>3. a = w \/ a = i.at
    BY <1>2, <2>2 DEF w
  <2>4. w \in DOMAIN o /\ w.key = p[2]
    BY <1>1 DEF w
  <2> QED
    BY <2>1, <2>2, <2>3, <2>4 DEF w
<1> QED
  BY <1>3, <1>4

LEMMA ReachedOnce ==
  ASSUME NEW o, NEW h, Sound(o, h), NEW p, NEW a, NEW b, a.what = b.what,
         p \in Reached(o, h, a), p \in Reached(o, h, b)
  PROVE  a = b
<1>1. p \in DOMAIN h
  BY DEF Reached
<1> QED
  BY <1>1, ReachedIs

LEMMA AddressIs ==
  ASSUME NEW o, NEW h, Sound(o, h), NEW a \in DOMAIN o
  PROVE  /\ a \in Addresses /\ a.what \in {"container", "wrapper"} /\ a.key \in Nat
         /\ a.what = "wrapper" => WrapperAddress(a) = a
BY DEF Sound, Typed, Addresses, WrapperAddress

LEMMA ReachedWrapper ==
  ASSUME NEW o, NEW h, Sound(o, h), NEW a \in DOMAIN o, WrapperAddress(a) \in DOMAIN o
  PROVE  Reached(o, h, WrapperAddress(a)) = Reached(o, h, a)
<1>1. CASE a.what = "wrapper"
  BY <1>1, AddressIs
<1>2. CASE a.what = "container"
  <2> DEFINE w == WrapperAddress(a)
  <2>1. a \in Addresses /\ w.what = "wrapper"
    BY AddressIs, WrapperOf
  <2>2. ASSUME NEW p \in Reached(o, h, w) PROVE p \in Reached(o, h, a)
    <3>1. p \in DOMAIN h
      BY DEF Reached
    <3>2. w = h[p].at
      BY <2>1, <3>1, ReachedIs
    <3>3. h[p].type = "shared"
      BY <2>1, <3>1, <3>2, HeldIs
    <3> DEFINE i == o[h[p].at].inner
    <3>4. w = WrapperAddress(i.at) /\ i.at \in Addresses /\ i.at.what = "container"
      BY <3>1, <3>2, <3>3, WrappedIs
    <3>5. i = Inner(o, h[p])
      BY <3>3 DEF Inner
    <3> HIDE DEF i
    <3>6. i.at = a
      BY <1>2, <2>1, <3>4, WrappersApart
    <3> QED
      BY <3>1, <3>5, <3>6 DEF Reached
  <2>3. ASSUME NEW p \in Reached(o, h, a) PROVE p \in Reached(o, h, w)
    <3>1. p \in DOMAIN h
      BY DEF Reached
    <3>2. a = Inner(o, h[p]).at
      BY <1>2, <3>1, ReachedIs
    <3>3. h[p].type = "shared"
      <4>1. SUFFICES ASSUME h[p].type # "shared" PROVE FALSE
        OBVIOUS
      <4>2. h[p].at = a
        BY <3>2, <4>1 DEF Inner
      <4>3. WrapperAddress(h[p].at) \notin DOMAIN o
        BY <3>1, <4>1, HeldIs
      <4> QED
        BY <4>2, <4>3
    <3> DEFINE i == o[h[p].at].inner
    <3>4. h[p].at = WrapperAddress(i.at)
      BY <3>1, <3>3, WrappedIs
    <3>5. i = Inner(o, h[p])
      BY <3>3 DEF Inner
    <3> HIDE DEF i
    <3> QED
      BY <3>1, <3>2, <3>4, <3>5 DEF Reached
  <2> QED
    BY <2>2, <2>3
<1> QED
  BY <1>1, <1>2, AddressIs

LEMMA ReachedAll ==
  ASSUME NEW o, NEW h, Sound(o, h), NEW a \in DOMAIN o
  PROVE  Reached(o, h, a) # {}
<1>1. ASSUME NEW w \in DOMAIN o, w.what = "wrapper" PROVE Reached(o, h, w) # {}
  <2>1. HoldersOf(h, w) # {}
    BY <1>1 DEF Sound, WrapperSound
  <2>2. PICK p : p \in DOMAIN h /\ h[p].at = w
    BY <2>1 DEF HoldersOf
  <2> QED
    BY <2>2 DEF Reached
<1>2. CASE a.what = "container" /\ WrapperAddress(a) \in DOMAIN o
  <2>1. WrapperAddress(a).what = "wrapper"
    BY AddressIs, WrapperOf
  <2> QED
    BY <1>1, <1>2, <2>1, ReachedWrapper
<1>3. CASE a.what = "container" /\ WrapperAddress(a) \notin DOMAIN o
  <2>1. PICK p \in DOMAIN h : HoldersOf(h, a) = {p}
    BY <1>3 DEF Sound, ContainerSound
  <2>2. p \in DOMAIN h /\ h[p].at = a
    BY <2>1 DEF HoldersOf
  <2> QED
    BY <2>2 DEF Reached
<1> QED
  BY <1>1, <1>2, <1>3, AddressIs

\* The bitmaps through which an object is reached.
HoldersIn(m, bs, a) ==
  {b \in DOMAIN bs : \E i \in 1 .. Count(bs, b) :
                       a \in {ConIn(bs, b, i).at, Unwrap(m, ConIn(bs, b, i)).at}}

\* The address that names an object by its holders.
Name(m, bs, a) == Address(a.key, 0, HoldersIn(m, bs, a), a.what)

LEMMA HoldersAre ==
  ASSUME NEW o, NEW h, NEW v, Good(Mem(o), h, v), NEW bs, Rep(bs, {}, h), NEW a
  PROVE  HoldersIn(Mem(o), bs, a) = {p[1] : p \in Reached(o, h, a)}
<1> DEFINE m == Mem(o)
<1>0. m.objects = o
  BY DEF Mem
<1> HIDE DEF m
<1>1. \A p \in DOMAIN h : Unwrap(m, h[p]) = Inner(o, h[p])
  BY <1>0, ReadHeld DEF m
<1>2. ASSUME NEW b \in DOMAIN bs, NEW i \in 1 .. Count(bs, b),
             a \in {ConIn(bs, b, i).at, Unwrap(m, ConIn(bs, b, i)).at}
      PROVE  \E p \in Reached(o, h, a) : p[1] = b
  <2> DEFINE k == KeyIn(bs, b, i)
             c == ConIn(bs, b, i)
             p == <<b, k>>
  <2>1. i \in Owned(bs, {}, b)
    BY CountIs
  <2>2. p \in DOMAIN h /\ h[p] = c
    BY <2>1, PlaceIs
  <2>3. p[1] = b
    OBVIOUS
  <2> HIDE DEF p, c
  <2>4. a \in {h[p].at, Inner(o, h[p]).at}
    BY <1>1, <1>2, <2>2 DEF c
  <2> QED
    BY <2>2, <2>3, <2>4 DEF Reached
<1>3. ASSUME NEW p \in Reached(o, h, a)
      PROVE  /\ p[1] \in DOMAIN bs
             /\ \E i \in 1 .. Count(bs, p[1]) :
                  a \in {ConIn(bs, p[1], i).at, Unwrap(m, ConIn(bs, p[1], i)).at}
  <2> DEFINE b == p[1]
             k == p[2]
  <2>1. p \in DOMAIN h /\ a \in {h[p].at, Inner(o, h[p]).at}
    BY DEF Reached
  <2>2. p = <<b, k>> /\ b \in DOMAIN bs
    BY <2>1, HolderIs
  <2> HIDE DEF b, k
  <2>3. PICK i \in Owned(bs, {}, b) : KeyIn(bs, b, i) = k
    BY <2>1, <2>2, KeyPlace
  <2>4. h[p] = ConIn(bs, b, i)
    BY <2>2, <2>3, PlaceHeld
  <2>5. i \in 1 .. Count(bs, b)
    BY <2>2, CountIs
  <2>6. a \in {ConIn(bs, b, i).at, Unwrap(m, ConIn(bs, b, i)).at}
    BY <1>1, <2>1, <2>4
  <2> QED
    BY <2>2, <2>5, <2>6 DEF b
<1> DEFINE H == HoldersIn(m, bs, a)
           R == {p[1] : p \in Reached(o, h, a)}
<1>4. H \subseteq R
  BY <1>2 DEF HoldersIn
<1>5. R \subseteq H
  BY <1>3 DEF HoldersIn
<1> QED
  BY <1>4, <1>5 DEF m

LEMMA NameIs ==
  ASSUME NEW m, NEW bs, NEW a, a.what \in {"container", "wrapper"}
  PROVE  /\ Name(m, bs, a).key = a.key /\ Name(m, bs, a).what = a.what
         /\ Name(m, bs, a).holders = HoldersIn(m, bs, a)
         /\ a.key \in Nat /\ HoldersIn(m, bs, a) \subseteq Slots => Name(m, bs, a) \in Addresses
         /\ \A b : b.key = a.key /\ HoldersIn(m, bs, b) = HoldersIn(m, bs, a) /\ b.what = "wrapper" =>
                     Name(m, bs, b) = WrapperAddress(Name(m, bs, a))
BY DEF Name, Address, Addresses, WrapperAddress

LEMMA NamesReaddress ==
  ASSUME NEW o, NEW h, NEW v, Good(Mem(o), h, v), Sound(o, h), NEW bs, Rep(bs, {}, h),
         NEW r, r = [a \in DOMAIN o |-> Name(Mem(o), bs, a)]
  PROVE  /\ Readdresses(o, r)
         /\ \A a \in DOMAIN o : HoldersIn(Mem(o), bs, a) # {}
<1> DEFINE m == Mem(o)
           H(a) == HoldersIn(m, bs, a)
<1>1. \A a : H(a) = {p[1] : p \in Reached(o, h, a)}
  BY HoldersAre
<1>2. ASSUME NEW a \in DOMAIN o PROVE H(a) # {}
  <2> HIDE DEF H
  <2>1. PICK p : p \in Reached(o, h, a)
    BY ReachedAll
  <2>2. p[1] \in H(a)
    BY <1>1, <2>1
  <2> QED
    BY <2>2
<1>3. ASSUME NEW a \in DOMAIN o
      PROVE  a \in Addresses /\ a.what \in {"container", "wrapper"} /\ a.key \in Nat
  BY AddressIs
<1>4. DOMAIN bs \subseteq Slots
  BY RepTypes
<1>5. \A a : H(a) \subseteq Slots
  BY <1>4 DEF HoldersIn
<1> HIDE DEF m
<1>6. \A a \in DOMAIN o : r[a] = Name(m, bs, a)
  BY DEF m
<1> HIDE DEF H
<1>7. ASSUME NEW a \in DOMAIN o
      PROVE  r[a] \in Addresses /\ r[a].key = a.key /\ r[a].what = a.what /\ r[a].holders = H(a)
  BY <1>3, <1>5, <1>6, NameIs DEF H
<1>8. ASSUME NEW a \in DOMAIN o, NEW b \in DOMAIN o, r[a] = r[b] PROVE a = b
  <2>1. a.key = b.key /\ a.what = b.what /\ H(a) = H(b)
    BY <1>7, <1>8
  <2>2. PICK c : c \in H(a)
    BY <1>2
  <2>3. PICK p \in Reached(o, h, a) : p[1] = c
    BY <1>1, <2>2
  <2>4. PICK q \in Reached(o, h, b) : q[1] = c
    BY <1>1, <2>1, <2>2
  <2>5. p \in DOMAIN h /\ q \in DOMAIN h
    BY DEF Reached
  <2>6. p[2] = a.key /\ q[2] = b.key
    BY <2>5, ReachedIs
  <2>7. p = <<p[1], p[2]>> /\ q = <<q[1], q[2]>>
    BY <2>5, HolderIs
  <2>8. p = q
    BY <2>1, <2>3, <2>4, <2>6, <2>7
  <2> QED
    BY <2>1, <2>8, ReachedOnce
<1>9. ASSUME NEW a \in DOMAIN o, WrapperAddress(a) \in DOMAIN o
      PROVE  r[WrapperAddress(a)] = WrapperAddress(r[a])
  <2> DEFINE w == WrapperAddress(a)
  <2>1. w.key = a.key /\ w.what = "wrapper"
    BY <1>3, WrapperOf
  <2>2. Reached(o, h, w) = Reached(o, h, a)
    BY <1>9, ReachedWrapper
  <2> HIDE DEF w
  <2>3. HoldersIn(m, bs, w) = HoldersIn(m, bs, a)
    BY <1>1, <2>2 DEF H
  <2>4. Name(m, bs, w) = WrapperAddress(Name(m, bs, a))
    BY <1>3, <2>1, <2>3, NameIs
  <2> QED
    BY <1>6, <1>9, <2>4 DEF w
<1>10. r \in [DOMAIN o -> Addresses]
  <2>1. DOMAIN r = DOMAIN o /\ r = [a \in DOMAIN r |-> r[a]]
    OBVIOUS
  <2> QED
    BY <1>7, <2>1
<1>11. Readdresses(o, r)
  BY <1>7, <1>8, <1>9, <1>10 DEF Readdresses
<1> QED
  BY <1>2, <1>11 DEF H, m

LEMMA ShowsRenamed ==
  ASSUME NEW s, NEW h, NEW b, Shows(s, 1 .. Len(s), h, b), NEW t \in Seq(EntryRecords),
         Len(t) = Len(s), NEW g, DOMAIN g = DOMAIN h,
         \A i \in 1 .. Len(s) : t[i].key = s[i].key /\ g[<<b, s[i].key>>] = t[i].c
  PROVE  Shows(t, 1 .. Len(t), g, b)
<1> DEFINE D == 1 .. Len(s)
<1>1. /\ \A i, j \in D : i < j => s[i].key < s[j].key
      /\ \A i \in D : <<b, s[i].key>> \in DOMAIN h
      /\ \A p \in DOMAIN h : p[1] = b => \E i \in D : p = <<b, s[i].key>>
  BY DEF Shows
<1>2. Len(t) = Len(s) /\ 1 .. Len(t) = D /\ D \subseteq D
  OBVIOUS
<1>3. \A i \in D : t[i].key = s[i].key /\ g[<<b, s[i].key>>] = t[i].c
  OBVIOUS
<1> HIDE DEF D
<1>4. \A i, j \in D : i < j => t[i].key < t[j].key
  BY <1>1, <1>3
<1>5. \A i \in D : <<b, t[i].key>> \in DOMAIN g /\ g[<<b, t[i].key>>] = t[i].c
  BY <1>1, <1>3
<1>6. ASSUME NEW p \in DOMAIN g, p[1] = b PROVE \E i \in D : p = <<b, t[i].key>>
  <2>1. PICK i \in D : p = <<b, s[i].key>>
    BY <1>1, <1>6
  <2> QED
    BY <1>3, <2>1
<1>7. Shows(t, D, g, b)
  BY <1>2, <1>4, <1>5, <1>6 DEF Shows
<1> QED
  BY <1>2, <1>7

LEMMA HeldObject ==
  ASSUME NEW o, NEW h, Sound(o, h), NEW a \in DOMAIN o, o[a].kind = "shared"
  PROVE  o[a] \in Wrappers /\ o[a].inner.at \in DOMAIN o /\ o[a].inner \in Plain
<1>1. a.what \in {"container", "wrapper"}
  BY AddressIs
<1>2. a.what # "container"
  <2>1. SUFFICES ASSUME a.what = "container" PROVE FALSE
    OBVIOUS
  <2>2. o[a] \in Objects
    BY <2>1 DEF Sound, ContainerSound
  <2> QED
    BY <2>2, KindsAssumption DEF Objects
<1>3. WrapperSound(o, h, a)
  BY <1>1, <1>2 DEF Sound
<1> QED
  BY <1>3 DEF WrapperSound, Wrappers

\* A pointer and an object with addresses of this kind.
NamedPointer(m, bs, c) == Pointer(Name(m, bs, c.at), c.type)
NamedObject(m, bs, x) == IF x.kind = "shared" THEN [x EXCEPT !.inner = NamedPointer(m, bs, @)] ELSE x

LEMMA NamedIsMoved ==
  ASSUME NEW o, NEW h, Sound(o, h), NEW bs, NEW r, NEW m,
         \A a \in DOMAIN o : r[a] = Name(m, bs, a), NEW a \in DOMAIN o
  PROVE  NamedObject(m, bs, o[a]) = Moved(r, o[a])
<1>1. CASE o[a].kind = "shared"
  <2> DEFINE i == o[a].inner
  <2>1. r[i.at] = Name(m, bs, i.at)
    BY <1>1, HeldObject
  <2>2. o[a] \in Wrappers
    BY <1>1, HeldObject
  <2>3. Pointer(r[i.at], i.type) = NamedPointer(m, bs, i)
    BY <2>1 DEF NamedPointer
  <2> DEFINE x == o[a]
             e == Pointer(r[i.at], i.type)
  <2>4. Moved(r, x) = [x EXCEPT !.inner = e]
    BY <1>1 DEF Moved
  <2>5. NamedObject(m, bs, x) = [x EXCEPT !.inner = NamedPointer(m, bs, i)]
    BY <1>1 DEF NamedObject
  <2> QED
    BY <2>3, <2>4, <2>5
<1>2. CASE o[a].kind # "shared"
  BY <1>2 DEF NamedObject, Moved
<1> QED
  BY <1>1, <1>2

\* The same bitmaps, under the same keys, with what they have renamed.
RenamedIn(m, bs, u) ==
  /\ DOMAIN u = DOMAIN bs /\ u = [b \in DOMAIN u |-> u[b]]
  /\ \A b \in DOMAIN bs :
       /\ u[b] = [cow |-> u[b].cow, entries |-> u[b].entries] /\ u[b].cow \in BOOLEAN
       /\ u[b].entries = [i \in 1 .. Count(bs, b) |->
                            Entry(KeyIn(bs, b, i), NamedPointer(m, bs, ConIn(bs, b, i)))]

LEMMA RenamedRep ==
  ASSUME NEW o, NEW h, NEW v, Good(Mem(o), h, v), Sound(o, h), NEW bs, Rep(bs, {}, h),
         NEW r, r = [a \in DOMAIN o |-> Name(Mem(o), bs, a)], Readdresses(o, r),
         NEW g, g = [p \in DOMAIN h |-> Pointer(r[h[p].at], h[p].type)],
         NEW u, RenamedIn(Mem(o), bs, u)
  PROVE  /\ Rep(u, {}, g)
         /\ \A b \in DOMAIN bs : SameKeys(bs[b].entries, u[b].entries)
<1> DEFINE m == Mem(o)
<1> HIDE DEF m
<1>1. ASSUME NEW b \in DOMAIN bs
      PROVE  /\ u[b] \in BitmapRecords /\ Shows(u[b].entries, Owned(u, {}, b), g, b)
             /\ SameKeys(bs[b].entries, u[b].entries)
  <2> DEFINE s == bs[b].entries
             t == u[b].entries
  <2>1. Count(bs, b) \in Nat /\ Owned(bs, {}, b) = 1 .. Count(bs, b)
    BY CountIs DEF Whole
  <2>2. Shows(s, 1 .. Len(s), h, b)
    <3>1. Shows(s, Owned(bs, {}, b), h, b)
      BY DEF Rep
    <3> QED
      BY <2>1, <3>1 DEF Count
  <2>3. t = [i \in 1 .. Count(bs, b) |-> Entry(KeyIn(bs, b, i), NamedPointer(m, bs, ConIn(bs, b, i)))]
    BY DEF RenamedIn, m
  <2>4. ASSUME NEW i \in 1 .. Count(bs, b)
        PROVE  /\ t[i].key = KeyIn(bs, b, i) /\ t[i].key \in Nat
               /\ g[<<b, KeyIn(bs, b, i)>>] = t[i].c /\ t[i].c \in Pointers
               /\ t[i] = Entry(t[i].key, t[i].c)
    <3> DEFINE k == KeyIn(bs, b, i)
               c == ConIn(bs, b, i)
               e == NamedPointer(m, bs, c)
    <3>1. <<b, k>> \in DOMAIN h /\ h[<<b, k>>] = c /\ c \in Pointers /\ k \in Nat
      BY <2>1, PlaceIs
    <3>2. c.at \in DOMAIN o
      BY <3>1, HeldIs
    <3>3. r[c.at] = Name(m, bs, c.at) /\ r[c.at] \in Addresses
      BY <3>2 DEF m, Readdresses
    <3>4. e \in Pointers /\ e = Pointer(r[c.at], c.type)
      BY <3>1, <3>3 DEF NamedPointer, Pointer, Pointers
    <3>5. t[i] = Entry(k, e)
      BY <2>3
    <3> HIDE DEF t, k, c, e
    <3>6. g[<<b, k>>] = e
      BY <3>1, <3>4
    <3>7. t[i].key = k /\ t[i].c = e
      BY <3>1, <3>4, <3>5, EntryIs
    <3> QED
      BY <3>1, <3>4, <3>5, <3>6, <3>7 DEF k
  <2>5. t \in Seq(EntryRecords) /\ Len(t) = Count(bs, b)
    <3>1. DOMAIN t = 1 .. Count(bs, b) /\ t = [i \in 1 .. Count(bs, b) |-> t[i]]
      BY <2>3
    <3> HIDE DEF t
    <3>2. \A i \in 1 .. Count(bs, b) : t[i] \in EntryRecords
      BY <2>4, EntryIs
    <3>3. t \in [1 .. Count(bs, b) -> EntryRecords]
      BY <3>1, <3>2
    <3> QED
      BY <2>1, <3>3
  <2>6. \A i \in 1 .. Len(s) : t[i].key = s[i].key /\ g[<<b, s[i].key>>] = t[i].c
    BY <2>4 DEF Count, KeyIn
  <2>7. Len(t) = Len(s)
    BY <2>5 DEF Count
  <2>8. DOMAIN g = DOMAIN h
    OBVIOUS
  <2>9. Shows(t, 1 .. Len(t), g, b) /\ SameKeys(s, t)
    <3> HIDE DEF t, s
    <3>1. Shows(t, 1 .. Len(t), g, b)
      BY <2>2, <2>5, <2>6, <2>7, <2>8, ShowsRenamed
    <3> QED
      BY <2>6, <2>7, <3>1 DEF SameKeys
  <2>10. Owned(u, {}, b) = 1 .. Len(t)
    BY DEF Owned
  <2>11. u[b] \in BitmapRecords
    <3>1. u[b] = [cow |-> u[b].cow, entries |-> t] /\ u[b].cow \in BOOLEAN
      BY DEF RenamedIn
    <3> HIDE DEF t
    <3> QED
      BY <2>5, <3>1 DEF BitmapRecords
  <2> QED
    BY <2>9, <2>10, <2>11
<1>2. DOMAIN u = DOMAIN bs /\ u = [b \in DOMAIN u |-> u[b]]
  BY DEF RenamedIn
<1>3. DOMAIN g = DOMAIN h
  OBVIOUS
<1>4. DOMAIN bs \subseteq Slots /\ \A p \in DOMAIN h : p[1] \in DOMAIN bs
  BY DEF Rep
<1>5. u \in [DOMAIN u -> BitmapRecords]
  BY <1>1, <1>2
<1> QED
  BY <1>1, <1>2, <1>3, <1>4, <1>5 DEF Rep

\* The objects at D under their new names.
NamedMemory(m, bs, D) ==
  [m EXCEPT !.objects = [a \in {Name(m, bs, d) : d \in D} |->
                           NamedObject(m, bs, m.objects[CHOOSE d \in D : Name(m, bs, d) = a])]]

LEMMA RenamedMemory ==
  ASSUME NEW o, NEW h, NEW v, Good(Mem(o), h, v), NEW bs, Rep(bs, {}, h), NEW D,
         D = {a \in DOMAIN o : HoldersIn(Mem(o), bs, a) # {}},
         NEW n, n = NamedMemory(Mem(o), bs, D),
         NEW u, RenamedIn(Mem(o), bs, u)
  PROVE  /\ \E g : Good(n, g, v) /\ Rep(u, {}, g)
         /\ \A b \in DOMAIN bs : SameKeys(bs[b].entries, u[b].entries)
<1> DEFINE m == Mem(o)
<1>0. Sound(o, h) /\ Parts(o, h) = v
  <2>1. PICK x : Mem(o) = Mem(x) /\ Sound(x, h) /\ v = Parts(x, h)
    BY DEF Good
  <2>2. o = x
    BY <2>1 DEF Mem
  <2> QED
    BY <2>1, <2>2
<1> DEFINE r == [a \in DOMAIN o |-> Name(m, bs, a)]
<1>1. Readdresses(o, r) /\ \A a \in DOMAIN o : HoldersIn(m, bs, a) # {}
  BY <1>0, NamesReaddress
<1>2. D = DOMAIN o
  BY <1>1
<1> DEFINE N(d) == Name(m, bs, d)
           x == [a \in {N(d) : d \in D} |-> NamedObject(m, bs, o[CHOOSE d \in D : N(d) = a])]
<1>3. n = Mem(x)
  <2>1. m.objects = o
    BY DEF Mem
  <2>2. n = [Mem(o) EXCEPT !.objects = x]
    BY <2>1 DEF NamedMemory
  <2> HIDE DEF x
  <2> QED
    BY <2>2, MemWith
<1>4. \A a \in DOMAIN o : r[a] = N(a)
  OBVIOUS
<1>5. DOMAIN x = {r[a] : a \in DOMAIN o}
  BY <1>2, <1>4
<1>6. x = [a \in DOMAIN x |-> x[a]]
  OBVIOUS
<1>7. ASSUME NEW a \in DOMAIN o PROVE x[r[a]] = Moved(r, o[a])
  <2>1. r[a] = N(a)
    BY <1>4
  <2>2. \A d \in D : N(d) = N(a) => d = a
    BY <1>1, <1>2, <1>4 DEF Readdresses
  <2>3. (CHOOSE d \in D : N(d) = N(a)) = a
    <3> HIDE DEF N
    <3> QED
      BY <1>2, <2>2
  <2>4. x[N(a)] = NamedObject(m, bs, o[CHOOSE d \in D : N(d) = N(a)])
    BY <1>2
  <2>5. x[r[a]] = NamedObject(m, bs, o[a])
    <3> HIDE DEF x, N
    <3> QED
      BY <2>1, <2>3, <2>4
  <2>6. NamedObject(m, bs, o[a]) = Moved(r, o[a])
    <3>1. \A d \in DOMAIN o : r[d] = Name(m, bs, d)
      OBVIOUS
    <3> HIDE DEF r, m
    <3> QED
      BY <1>0, <3>1, NamedIsMoved
  <2> QED
    BY <2>5, <2>6
<1> DEFINE g == [p \in DOMAIN h |-> Pointer(r[h[p].at], h[p].type)]
<1>8. Sound(x, g) /\ Parts(x, g) = v
  <2> HIDE DEF x, r
  <2>1. Sound(x, [p \in DOMAIN h |-> Pointer(r[h[p].at], h[p].type)])
        /\ Parts(x, [p \in DOMAIN h |-> Pointer(r[h[p].at], h[p].type)]) = Parts(o, h)
    BY <1>0, <1>1, <1>5, <1>6, <1>7, Readdress
  <2> QED
    BY <1>0, <2>1
<1>9. Good(n, g, v)
  <2> HIDE DEF x, g
  <2> QED
    BY <1>3, <1>8, GoodIntro
<1>10. Rep(u, {}, g) /\ \A b \in DOMAIN bs : SameKeys(bs[b].entries, u[b].entries)
  BY <1>0, <1>1, RenamedRep
<1> HIDE DEF g
<1> QED
  BY <1>9, <1>10

LEMMA ReturnWorld ==
  ASSUME NEW v, World(memory, bitmaps, {}, v), Return
  PROVE  /\ World(memory', bitmaps', {}, v) /\ DOMAIN bitmaps' = DOMAIN bitmaps
         /\ \A b \in DOMAIN bitmaps : bitmaps'[b].cow \in Flags
         /\ call.stage = "done" /\ call' = NoCall
         /\ \A b \in DOMAIN bitmaps : SameKeys(bitmaps[b].entries, bitmaps'[b].entries)
<1>1. Full(v)
  BY DEF World
<1>2. PICK h : Good(memory, h, v) /\ Rep(bitmaps, {}, h)
  BY DEF World
<1>3. PICK o : memory = Mem(o)
  BY <1>2 DEF Good
<1>4. memory.objects = o
  BY <1>3 DEF Mem
<1>5. PICK flags \in [Live -> Flags] :
        bitmaps' = [b \in Live |->
         [cow |-> flags[b],
          entries |-> [i \in 1 .. Size(b) |-> Entry(KeyAt(b, i), RenamedPointer(At(b, i)))]]]
  BY DEF Return
<1> DEFINE H(a) == HoldersIn(memory, bitmaps, a)
           D == {a \in DOMAIN o : H(a) # {}}
<1>6. \A a : Holders(a) = H(a)
  BY DEF Holders, HoldersIn, At, Live, Size, Count, ConIn, Entries
<1>7. \A a : Renamed(a) = Name(memory, bitmaps, a)
  BY <1>6 DEF Renamed, Name
<1>8. Held = D
  BY <1>4, <1>6 DEF Held
<1>9. \A c : RenamedPointer(c) = NamedPointer(memory, bitmaps, c)
  BY <1>7 DEF RenamedPointer, NamedPointer
<1>10. \A x : RenamedObject(x) = NamedObject(memory, bitmaps, x)
  BY <1>9 DEF RenamedObject, NamedObject
<1> DEFINE N(a) == Name(memory, bitmaps, a)
<1>11. memory' = NamedMemory(memory, bitmaps, D)
  <2> HIDE DEF D, N, H
  <2> DEFINE F(a) == CHOOSE d \in Held : Renamed(d) = a
             G(a) == CHOOSE d \in D : N(d) = a
             P == {Renamed(d) : d \in Held}
             Q == {N(d) : d \in D}
             x == [a \in P |-> RenamedObject(memory.objects[F(a)])]
             y == [a \in Q |-> NamedObject(memory, bitmaps, memory.objects[G(a)])]
  <2>1. memory' = [memory EXCEPT !.objects = x]
    BY DEF Return
  <2>2. P = Q
    BY <1>7, <1>8 DEF N
  <2>3. \A a : F(a) = G(a)
    BY <1>7, <1>8 DEF N
  <2>4. NamedMemory(memory, bitmaps, D) = [memory EXCEPT !.objects = y]
    BY DEF NamedMemory, N
  <2> HIDE DEF F, G, P, Q
  <2>5. x = y
    BY <1>10, <2>2, <2>3
  <2> HIDE DEF x, y
  <2> QED
    BY <2>1, <2>4, <2>5
<1>12. \A b \in Live : flags[b] \in Flags /\ flags[b] \in BOOLEAN
  BY SharedAssumption
<1>13. RenamedIn(memory, bitmaps, bitmaps') /\ \A b \in Live : bitmaps'[b].cow \in Flags
  <2>1. \A b \in Live : Size(b) = Count(bitmaps, b)
    BY DEF Size, Count, Entries
  <2>2. \A b \in Live : \A i \in 1 .. Size(b) :
          KeyAt(b, i) = KeyIn(bitmaps, b, i) /\ At(b, i) = ConIn(bitmaps, b, i)
    BY DEF KeyAt, At, KeyIn, ConIn, Entries
  <2> DEFINE E(b) == [i \in 1 .. Count(bitmaps, b) |->
                        Entry(KeyIn(bitmaps, b, i), NamedPointer(memory, bitmaps, ConIn(bitmaps, b, i)))]
  <2>3. \A b \in Live : [i \in 1 .. Size(b) |-> Entry(KeyAt(b, i), RenamedPointer(At(b, i)))] = E(b)
    BY <1>9, <2>1, <2>2
  <2> HIDE DEF E
  <2>4. bitmaps' = [b \in Live |-> [cow |-> flags[b], entries |-> E(b)]]
    BY <1>5, <2>3
  <2>5. DOMAIN bitmaps' = Live /\ bitmaps' = [b \in DOMAIN bitmaps' |-> bitmaps'[b]]
    BY <2>4
  <2>6. \A b \in Live : /\ bitmaps'[b].cow = flags[b] /\ bitmaps'[b].entries = E(b)
                        /\ bitmaps'[b] = [cow |-> bitmaps'[b].cow, entries |-> bitmaps'[b].entries]
    BY <2>4
  <2> QED
    BY <1>12, <2>5, <2>6 DEF RenamedIn, E, Live
<1>14. /\ \E g : Good(memory', g, v) /\ Rep(bitmaps', {}, g)
       /\ \A b \in DOMAIN bitmaps : SameKeys(bitmaps[b].entries, bitmaps'[b].entries)
  <2> DEFINE n == memory'
             u == bitmaps'
  <2>1. RenamedIn(memory, bitmaps, u)
    BY <1>13
  <2> HIDE DEF n, u
  <2>2. n = NamedMemory(memory, bitmaps, D)
    BY <1>11 DEF n
  <2> DEFINE m == memory
             bs == bitmaps
  <2> HIDE DEF m, bs
  <2>3. /\ \E g : Good(n, g, v) /\ Rep(u, {}, g)
        /\ \A b \in DOMAIN bs : SameKeys(bs[b].entries, u[b].entries)
    <3>1. m = Mem(o) /\ Good(Mem(o), h, v) /\ Rep(bs, {}, h) /\ RenamedIn(Mem(o), bs, u)
      BY <1>2, <1>3, <2>1 DEF m, bs
    <3>2. n = NamedMemory(Mem(o), bs, D)
      BY <2>2, <3>1 DEF m, bs
    <3>3. D = {a \in DOMAIN o : HoldersIn(Mem(o), bs, a) # {}}
      BY <3>1 DEF m, bs
    <3> HIDE DEF D
    <3> QED
      BY <3>1, <3>2, <3>3, RenamedMemory
  <2> QED
    BY <2>3 DEF n, u, bs
<1>15. call.stage = "done" /\ call' = NoCall
  BY DEF Return
<1>16. DOMAIN bitmaps' = DOMAIN bitmaps
  BY <1>5 DEF Live
<1> QED
  BY <1>1, <1>13, <1>14, <1>15, <1>16 DEF World, Live

=============================================================================
