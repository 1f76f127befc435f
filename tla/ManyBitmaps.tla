----------------------------- MODULE ManyBitmaps ----------------------------
(***************************************************************************)
(* roaring_bitmap_or_many, roaring_bitmap_or_many_heap and                 *)
(* roaring_bitmap_xor_many: lazy operations that leave bitsets uncounted,  *)
(* one step for each of them, and a repair at the end.  The heap variant   *)
(* keeps bitmaps in a priority queue by serialized size and unites the two *)
(* smallest, telling inputs from temporaries it may overwrite.             *)
(***************************************************************************)
EXTENDS BitmapOps, Serialization

CONSTANTS
  Methods,       \* the calls in use, of "or_many", "or_many_heap", "xor_many"
  Given,         \* the bitmaps that callers hold
  MaxInputs      \* bound of the model: bitmaps given to one call

ASSUME ManyAssumption ==
  /\ Methods \subseteq {"or_many", "or_many_heap", "xor_many"}
  /\ \A b \in Given : IsBitmap(b) /\ WellFormedBitmap(b)
  /\ MaxInputs \in Nat \ {0, 1}

VARIABLES
  x,        \* the bitmaps given
  method,   \* the call
  pc,       \* "start", "build", "lazy" or "done"
  next,     \* or_many, xor_many: the next bitmap to take in; or_many_heap: the
            \* next place to percolate down from
  pq,       \* or_many_heap: the queue, a heap in an array
  answer    \* the bitmap returned, lazy until the call is done

vars == <<x, method, pc, next, pq, answer>>

(***************************************************************************)
(* The priority queue.                                                     *)
(***************************************************************************)

Compare(e, f) == e.size < f.size

Element(b, temporary) ==
  [size |-> PortableSize(b), temporary |-> temporary, bitmap |-> b]

\* The array of elements is a sequence here: places count from 1, and the parent of
\* place i is place i \div 2.
Parent(i) == i \div 2

\* The element e goes to place i, or past a parent that it is smaller than: that one
\* takes place i and e goes on from there.
SiftUp(h, i, e) ==
  LET from[p \in DOMAIN h] ==
        IF p = 1 \/ ~ Compare(e, h[Parent(p)]) THEN [h EXCEPT ![p] = e]
        ELSE [from[Parent(p)] EXCEPT ![p] = h[Parent(p)]]
  IN  from[i]

PqAdd(h, e) == SiftUp(Append(h, e), Len(h) + 1, e)

\* Mutant: the right child is never looked at.
BestChildLeft(h, i) == 2 * i

\* The smaller child of place i, the left one when they are equal.
BestChild(h, i) ==
  LET l == 2 * i
      r == l + 1
  IN  IF r <= Len(h) /\ Compare(h[r], h[l]) THEN r ELSE l

\* The element e goes to place i, or past the smaller of its children when that one is
\* smaller than e.
SiftDown(h, i, e) ==
  LET from[p \in DOMAIN h] ==
        IF p > Len(h) \div 2 \/ ~ Compare(h[BestChild(h, p)], e) THEN [h EXCEPT ![p] = e]
        ELSE [from[BestChild(h, p)] EXCEPT ![p] = h[BestChild(h, p)]]
  IN  from[i]

PercolateDown(h, i) == SiftDown(h, i, h[i])

\* The array before create_pq orders it.
Elements(bitmaps) == [i \in DOMAIN bitmaps |-> Element(bitmaps[i], FALSE)]

\* What is left of the queue when its first element is taken.
PqRest(h) ==
  IF Len(h) = 1 THEN <<>>
  ELSE PercolateDown([SubSeq(h, 1, Len(h) - 1) EXCEPT ![1] = h[Len(h)]], 1)

(***************************************************************************)
(* The union of two elements of the queue.                                 *)
(***************************************************************************)

\* Two temporaries are merged without copies, and their tails are moved.
LazyOrFromLazyInputs(x1, x2) == Merge(x1, x2, ContainerLazyIor)

\* Mutant: two temporaries are taken for one.
UniteForgetsSecond(e1, e2) ==
  IF e1.temporary /\ e2.temporary THEN e1.bitmap
  ELSE LazyOr(e1.bitmap, e2.bitmap, FALSE)

Unite(e1, e2) ==
  CASE e1.temporary /\ e2.temporary   -> LazyOrFromLazyInputs(e1.bitmap, e2.bitmap)
    [] ~e1.temporary /\ e2.temporary  -> LazyOrInplace(e2.bitmap, e1.bitmap, FALSE)
    [] e1.temporary /\ ~e2.temporary  -> LazyOrInplace(e1.bitmap, e2.bitmap, FALSE)
    [] ~e1.temporary /\ ~e2.temporary -> LazyOr(e1.bitmap, e2.bitmap, FALSE)

(***************************************************************************)
(* The calls.                                                              *)
(***************************************************************************)

Init ==
  /\ x \in UNION {[1 .. n -> Given] : n \in 2 .. MaxInputs}
  /\ method \in Methods
  /\ pc = "start"
  /\ next = 1
  /\ pq = <<>>
  /\ answer = EmptyBitmap

\* LAZY_OR_BITSET_CONVERSION is true.
OrManyStart ==
  /\ pc = "start" /\ method = "or_many"
  /\ answer' = LazyOr(x[1], x[2], TRUE)
  /\ next' = 3
  /\ pc' = "lazy"
  /\ UNCHANGED <<x, method, pq>>

\* Mutant: a full answer ends the loop without leaving it.
OrManyNextStallsWhenFull ==
  /\ pc = "lazy" /\ method = "or_many" /\ next <= Len(x)
  /\ \E k \in DOMAIN answer : ~ IsFull(answer[k])
  /\ answer' = LazyOrInplace(answer, x[next], TRUE)
  /\ next' = next + 1
  /\ UNCHANGED <<x, method, pc, pq>>

OrManyNext ==
  /\ pc = "lazy" /\ method = "or_many" /\ next <= Len(x)
  /\ answer' = LazyOrInplace(answer, x[next], TRUE)
  /\ next' = next + 1
  /\ UNCHANGED <<x, method, pc, pq>>

XorManyStart ==
  /\ pc = "start" /\ method = "xor_many"
  /\ answer' = LazyXor(x[1], x[2])
  /\ next' = 3
  /\ pc' = "lazy"
  /\ UNCHANGED <<x, method, pq>>

XorManyNext ==
  /\ pc = "lazy" /\ method = "xor_many" /\ next <= Len(x)
  /\ answer' = LazyXorInplace(answer, x[next])
  /\ next' = next + 1
  /\ UNCHANGED <<x, method, pc, pq>>

\* create_pq fills the array, then percolates down from the middle to the front.
HeapStart ==
  /\ pc = "start" /\ method = "or_many_heap"
  /\ pq' = Elements(x)
  /\ next' = Len(x) \div 2 + 1
  /\ pc' = "build"
  /\ UNCHANGED <<x, method, answer>>

HeapBuild ==
  /\ pc = "build"
  /\ pq' = PercolateDown(pq, next)
  /\ next' = next - 1
  /\ pc' = IF next = 1 THEN "lazy" ELSE "build"
  /\ UNCHANGED <<x, method, answer>>

HeapNext ==
  /\ pc = "lazy" /\ method = "or_many_heap" /\ Len(pq) > 1
  /\ \E rest \in {PqRest(pq)} :
       \E e \in {Element(Unite(pq[1], rest[1]), TRUE)}, left \in {PqRest(rest)} :
         pq' = PqAdd(left, e)
  /\ UNCHANGED <<x, method, pc, next, answer>>

Finish ==
  /\ pc = "lazy"
  /\ IF method = "or_many_heap"
     THEN Len(pq) = 1 /\ answer' = RepairAfterLazy(pq[1].bitmap) /\ pq' = <<>>
     ELSE next > Len(x) /\ answer' = RepairAfterLazy(answer) /\ UNCHANGED pq
  /\ pc' = "done"
  /\ UNCHANGED <<x, method, next>>

Next ==
  \/ OrManyStart \/ OrManyNext
  \/ XorManyStart \/ XorManyNext
  \/ HeapStart \/ HeapBuild \/ HeapNext
  \/ Finish

Spec == Init /\ [][Next]_vars /\ WF_vars(Next)

(***************************************************************************)
(* Properties.                                                             *)
(***************************************************************************)

UnionOf(s) == UNION {ToSet(s[i]) : i \in DOMAIN s}

\* The values that an odd number of the first n bitmaps hold.
OddIn(n) == {v \in Value : Cardinality({i \in 1 .. n : v \in ToSet(x[i])}) % 2 = 1}

Queued == {pq[i].bitmap : i \in DOMAIN pq}

Taken == IF pc = "start" THEN 0 ELSE next - 1

\* Between two lazy steps nothing is lost and nothing added: the answer stands for
\* what was taken in, and the queue together for all that was given.
LazyExact ==
  /\ method = "or_many"  => ToSet(answer) = UnionOf(SubSeq(x, 1, Taken))
  /\ method = "xor_many" => ToSet(answer) = OddIn(Taken)
  /\ method = "or_many_heap" /\ pc \in {"build", "lazy"} =>
       UNION {ToSet(b) : b \in Queued} = UnionOf(x)

\* A lazy cardinality is unknown or right, never a number derived from an unknown
\* one: container_lazy_ixor hands a lazy bitset to functions that count from what
\* is stored, and only the test for emptiness before it has made that a number.
NeverMiscounted ==
  \A b \in {answer} \union Queued : \A k \in DOMAIN b :
    \/ CardExact(b[k])
    \/ b[k].type = "bitset" /\ b[k].card = Unknown

\* What is returned is exact, and repaired: no empty container, every cardinality
\* counted, every type the one a reader of the serialized form infers.
AnswerSound ==
  pc = "done" =>
    /\ WellFormedBitmap(answer)
    /\ ToSet(answer) = IF method = "xor_many" THEN OddIn(Len(x)) ELSE UnionOf(x)

\* No element of the queue is larger than its children, so the first is a
\* smallest; while the queue is built that holds from the next place on.
HeapOrdered ==
  \A i \in DOMAIN pq :
    i > 1 /\ Parent(i) > next => ~ Compare(pq[i], pq[Parent(i)])

\* Every call returns: each round takes two bitmaps off the queue and puts one back.
Returns == <>(pc = "done")

=============================================================================
