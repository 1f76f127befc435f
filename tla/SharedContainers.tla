-------------------------- MODULE SharedContainers --------------------------
(***************************************************************************)
(* Containers as objects in memory, and the counted wrapper through which  *)
(* bitmaps share one of them.  A container is handed around as its address *)
(* and its typecode; nothing but the code keeps the two in agreement with  *)
(* the object.  Every operator takes the memory and returns the memory     *)
(* after it, with misused set once an object is used that has been freed   *)
(* or that is of another type than the typecode says.                      *)
(***************************************************************************)
EXTENDS Integers, FiniteSets, FiniteSetsExt

CONSTANTS
  Kinds          \* typecodes of containers that are not shared

ASSUME KindsAssumption == Kinds # {} /\ "shared" \notin Kinds

NoMemory == [objects |-> <<>>, misused |-> FALSE]

Pointer(at, type) == [at |-> at, type |-> type]

Object(kind, S) == [kind |-> kind, values |-> S]

Wrapper(inner, counter) == [kind |-> "shared", inner |-> inner, counter |-> counter]

Fits(m, c) == c.at \in DOMAIN m.objects /\ m.objects[c.at].kind = c.type

Use(m, c) == [m EXCEPT !.misused = @ \/ ~Fits(m, c)]

Free(m, c) == [Use(m, c) EXCEPT !.objects = [a \in DOMAIN @ \ {c.at} |-> @[a]]]

Store(m, at, object) ==
  [m EXCEPT !.objects = [a \in DOMAIN @ \union {at} |-> IF a = at THEN object ELSE @[a]]]

\* An address means nothing to the code: a key, a number, who has it and what it is for.
Address(key, n, holders, what) == [key |-> key, n |-> n, holders |-> holders, what |-> what]

FreshAddress(m, key) ==
  Address(key, 1 + Max({0} \union {a.n : a \in {b \in DOMAIN m.objects : b.key = key}}),
          {}, "container")

\* The wrapper of a container is called after it.
WrapperAddress(at) == [at EXCEPT !.what = "wrapper"]

Allocate(m, key, kind, S) ==
  [memory |-> Store(m, FreshAddress(m, key), Object(kind, S)),
   container |-> Pointer(FreshAddress(m, key), kind)]

Unwrap(m, c) == IF c.type = "shared" /\ Fits(m, c) THEN m.objects[c.at].inner ELSE c

Read(m, c) == Use(Use(m, c), Unwrap(m, c))

ValuesAt(m, c) ==
  LET u == Unwrap(m, c)
  IN  IF u.type \in Kinds /\ Fits(m, u) THEN m.objects[u.at].values ELSE {}

Clone(m, c) == Allocate(Read(m, c), c.at.key, Unwrap(m, c).type, ValuesAt(m, c))

Counted(m, c, change) ==
  IF Fits(m, c) THEN [m EXCEPT !.objects[c.at].counter = @ + change] ELSE Use(m, c)

\* Mutant: the wrapper that is new counts one bitmap.
GetCopyOfContainerCountsOne(m, c, copyOnWrite) ==
  LET shared == IF c.type = "shared" THEN c ELSE Pointer(WrapperAddress(c.at), "shared")
      clone  == Clone(m, c)
  IN  IF ~copyOnWrite THEN [memory |-> clone.memory, source |-> c, copy |-> clone.container]
      ELSE [memory |-> IF c.type = "shared" THEN Counted(m, c, 1)
                       ELSE Store(Use(m, c), shared.at, Wrapper(c, 1)),
            source |-> shared, copy |-> shared]

\* With copy-on-write both bitmaps end with the wrapper, which may be new; without
\* it the copy is the program's own.
GetCopyOfContainer(m, c, copyOnWrite) ==
  LET shared == IF c.type = "shared" THEN c ELSE Pointer(WrapperAddress(c.at), "shared")
      clone  == Clone(m, c)
  IN  IF ~copyOnWrite THEN [memory |-> clone.memory, source |-> c, copy |-> clone.container]
      ELSE [memory |-> IF c.type = "shared" THEN Counted(m, c, 1)
                       ELSE Store(Use(m, c), shared.at, Wrapper(c, 2)),
            source |-> shared, copy |-> shared]

\* ra_append_copy and its like clone without copy-on-write too, but keep the
\* typecode that the source has.
AppendedCopy(m, c, copyOnWrite) ==
  LET got == GetCopyOfContainer(m, c, copyOnWrite)
  IN  IF copyOnWrite THEN got ELSE [got EXCEPT !.copy.type = c.type]

\* Mutant: a shared container is written by whoever holds it.
ExtractCopyUnshared(m, c) == [memory |-> m, container |-> Unwrap(m, c)]

\* get_writable_copy_if_shared: the last bitmap that shares a container takes it
\* out of the wrapper, any other one a clone.
ExtractCopy(m, c) ==
  LET inner == Unwrap(m, c)
      fewer == Counted(m, c, -1)
  IN  IF c.type # "shared" THEN [memory |-> m, container |-> c]
      ELSE IF ~Fits(m, c) THEN [memory |-> Use(m, c), container |-> c]
      ELSE IF m.objects[c.at].counter = 1 THEN [memory |-> Free(m, c), container |-> inner]
      ELSE Clone(fewer, inner)

\* Mutant: the container goes with the first bitmap that is freed.
ContainerFreeAtOnce(m, c) ==
  IF c.type = "shared" /\ Fits(m, c) THEN Free(Free(m, Unwrap(m, c)), c) ELSE Free(m, c)

\* container_free: a shared container goes with the last bitmap that shares it.
ContainerFree(m, c) ==
  IF c.type # "shared" \/ ~Fits(m, c) THEN Free(m, c)
  ELSE IF m.objects[c.at].counter = 1 THEN Free(Free(m, Unwrap(m, c)), c)
  ELSE Counted(m, c, -1)

\* What an operation in place may do with the container it is given, which is not
\* shared: write it, or make a new one, of any type, and free it.
InPlace(m, c, S) ==
  {[memory |-> IF Fits(m, c) THEN Store(m, c.at, Object(c.type, S)) ELSE Use(m, c),
    container |-> c]}
  \union
  {[memory |-> Free(Allocate(m, c.at.key, kind, S).memory, c),
    container |-> Allocate(m, c.at.key, kind, S).container] : kind \in Kinds}

=============================================================================
