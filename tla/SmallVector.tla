------------------------------ MODULE SmallVector ------------------------------
(* The vectors of llvm/ADT/SmallVector.h, in which the records of blocks and   *)
(* transactions keep their lists: Inline slots inside the object, and a buffer *)
(* on the heap once they do not suffice.  A slot holds an element, nothing     *)
(* constructed (Raw), or what is left of an element that was moved away        *)
(* (Gone).  Elements are of a plain type (isPodLike), copied and forgotten     *)
(* without calls, or of a class, whose constructors and destructors must pair. *)
(*                                                                             *)
(* The operations are operators on one object:                                 *)
(*   buf     the slots between BeginX and CapacityX                            *)
(*   size    EndX - BeginX                                                     *)
(*   small   BeginX points at the slots inside the object                      *)
(*   blocks  the heap blocks the object has allocated and not yet freed        *)
(*   faults  constructions over an element, uses of a raw slot, elements that  *)
(*           were given up without their destructor                            *)
EXTENDS Integers, Sequences, FiniteSets

SetsExt == INSTANCE FiniteSetsExt

CONSTANTS Vec,      \* the vectors of the run
          Elem,     \* the elements
          Raw,      \* an unconstructed slot
          Gone,     \* an element whose value was moved away
          Inline,   \* N: the slots inside an object
          MaxLen    \* bound: elements in all vectors together

ASSUME InlineAssumption == Inline \in Nat /\ MaxLen \in Nat
ASSUME SlotAssumption == Raw \notin Elem /\ Gone \notin Elem /\ Raw # Gone

VARIABLES vec,      \* the objects
          podLike,  \* isPodLike<T>
          contents  \* the elements of each vector, as its users count on them

vectorVars == <<vec, podLike, contents>>

Blank(n) == [i \in 1..n |-> Raw]
Capacity(s) == Len(s.buf)
Contents(s) == SubSeq(s.buf, 1, s.size)
Copies(n, x) == [i \in 1..n |-> x]

(* The slots i+1 .. j.  What is done to them follows. *)
Slots(i, j) == i+1..j

(* Placement new of xs into the raw slots behind i. *)
Construct(s, i, xs) ==
    [s EXCEPT !.buf = [k \in DOMAIN @ |-> IF k \in Slots(i, i + Len(xs)) THEN xs[k - i]
                                                                         ELSE @[k]],
              !.faults = @ + IF podLike THEN 0
                             ELSE Cardinality({k \in Slots(i, i + Len(xs)) : s.buf[k] # Raw})]

(* Assignment of xs to the elements behind i. *)
Assign(s, i, xs) ==
    [s EXCEPT !.buf = [k \in DOMAIN @ |-> IF k \in Slots(i, i + Len(xs)) THEN xs[k - i]
                                                                         ELSE @[k]],
              !.faults = @ + IF podLike THEN 0
                             ELSE Cardinality({k \in Slots(i, i + Len(xs)) : s.buf[k] = Raw})]

(* destroy_range; what a plain element leaves behind is never read. *)
Destroy(s, i, j) ==
    [s EXCEPT !.buf = [k \in DOMAIN @ |-> IF k \in Slots(i, j) THEN Raw ELSE @[k]],
              !.faults = @ + IF podLike THEN 0
                             ELSE Cardinality({k \in Slots(i, j) : s.buf[k] = Raw})]

(* What std::move leaves in the slots it read. *)
Vacate(s, i, j) ==
    IF podLike THEN s
    ELSE [s EXCEPT !.buf = [k \in DOMAIN @ |-> IF k \in Slots(i, j) THEN Gone ELSE @[k]]]

(* The buffer is given up: a heap block is freed, and no element is left in it. *)
Release(s) ==
    [s EXCEPT !.blocks = @ - (IF s.small THEN 0 ELSE 1),
              !.faults = @ + IF podLike THEN 0
                             ELSE Cardinality({k \in DOMAIN s.buf : s.buf[k] # Raw})]

(* The next power of two above n, and the capacity grow allocates. *)
NextPowerOf2(n) ==
    LET power[e \in 0..n] == IF e = 0 THEN 1 ELSE 2 * power[e - 1]
    IN  power[CHOOSE e \in 0..n : power[e] > n /\ \A d \in 0..e-1 : power[d] <= n]
Grown(capacity, least) ==
    LET doubled == IF podLike THEN 2 * capacity + 1 ELSE NextPowerOf2(capacity + 2)
    IN  IF doubled < least THEN least ELSE doubled

Grow(s, least) ==
    LET old == Release(Destroy(Vacate(s, 0, s.size), 0, s.size))
    IN  Construct([old EXCEPT !.buf = Blank(Grown(Capacity(s), least)), !.small = FALSE,
                              !.blocks = @ + 1],
                  0, Contents(s))
Reserve(s, n) == IF Capacity(s) < n THEN Grow(s, n) ELSE s

(* Before an element more: a vector without a free slot grows. *)
WithRoom(s) == IF s.size < Capacity(s) THEN s ELSE Grow(s, 0)

PushBack(s, x) ==
    LET r == WithRoom(s) IN [Construct(r, r.size, <<x>>) EXCEPT !.size = @ + 1]
PopBack(s) == [Destroy(s, s.size - 1, s.size) EXCEPT !.size = @ - 1]
Clear(s) == [Destroy(s, 0, s.size) EXCEPT !.size = 0]

Resize(s, n, x) ==
    IF n < s.size THEN [Destroy(s, n, s.size) EXCEPT !.size = n]
    ELSE [Construct(Reserve(s, n), s.size, Copies(n - s.size, x)) EXCEPT !.size = n]

AppendAll(s, xs) ==
    LET r == IF Len(xs) > Capacity(s) - s.size THEN Grow(s, s.size + Len(xs)) ELSE s
    IN  [Construct(r, r.size, xs) EXCEPT !.size = @ + Len(xs)]

Refill(s, n, x) ==
    LET r == Reserve(Clear(s), n) IN [Construct(r, 0, Copies(n, x)) EXCEPT !.size = n]

(* erase without the end of the elements left behind. *)
EraseLeaving(s, i, j) ==
    LET rest == SubSeq(s.buf, j + 1, s.size)
    IN  [Assign(Vacate(s, j, s.size), i, rest) EXCEPT !.size = i + Len(rest)]

(* erase: the elements behind j move down to i, the last ones are dropped. *)
Erase(s, i, j) ==
    LET rest == SubSeq(s.buf, j + 1, s.size)
        moved == Assign(Vacate(s, j, s.size), i, rest)
    IN  [Destroy(moved, i + Len(rest), s.size) EXCEPT !.size = i + Len(rest)]

(* insert of one element before position i: the last element is constructed    *)
(* once more behind the end, then all from i on move up by one.  When the last *)
(* one is moved there (rvalue), the move up reads it after it is gone.  The    *)
(* new element may be one of the vector (an index), which then moves up too.   *)
Insert(s, i, elt, rvalue) ==
    IF i = s.size THEN PushBack(s, IF elt \in Elem THEN elt ELSE s.buf[elt])
    ELSE LET r == WithRoom(s)
             last == Construct(IF rvalue THEN Vacate(r, r.size - 1, r.size) ELSE r,
                               r.size, <<r.buf[r.size]>>)
             up == Assign(Vacate(last, i, r.size), i + 1, SubSeq(last.buf, i + 1, r.size))
             new == IF elt \in Elem THEN elt
                    ELSE up.buf[IF elt \in i+1..r.size THEN elt + 1 ELSE elt]
         IN  [Assign(up, i, <<new>>) EXCEPT !.size = @ + 1]

(* insert of several elements before position i. *)
InsertRange(s, i, xs) ==
    IF i = s.size THEN AppendAll(s, xs)
    ELSE LET r == Reserve(s, s.size + Len(xs))
             behind == s.size - i
         IN  IF behind >= Len(xs)
             THEN LET ext == AppendAll(r, SubSeq(r.buf, r.size - Len(xs) + 1, r.size))
                      up == Assign(Vacate(ext, i, r.size - Len(xs)), i + Len(xs),
                                   SubSeq(ext.buf, i + 1, r.size - Len(xs)))
                  IN  Assign(up, i, xs)
             ELSE LET up == Construct(Vacate(r, i, r.size), i + Len(xs),
                                      SubSeq(r.buf, i + 1, r.size))
                      over == Assign(up, i, SubSeq(xs, 1, behind))
                  IN  [Construct(over, r.size, SubSeq(xs, behind + 1, Len(xs)))
                          EXCEPT !.size = @ + Len(xs)]

(* operator=(const &). *)
CopyAssign(s, t) ==
    IF s.size >= t.size
    THEN [Destroy(Assign(s, 0, Contents(t)), t.size, s.size) EXCEPT !.size = t.size]
    ELSE LET r == IF Capacity(s) < t.size THEN Grow(Clear(s), t.size)
                  ELSE Assign(s, 0, SubSeq(t.buf, 1, s.size))
         IN  [Construct(r, r.size, SubSeq(t.buf, r.size + 1, t.size)) EXCEPT !.size = t.size]

(* operator=(&&), as the pair of both objects: a heap buffer is taken over, and *)
(* its owner is left with no slots at all; elements in place are moved one by   *)
(* one.  Where the slots suffice, all of them are assigned, the raw ones too,   *)
(* and those behind the old end are then constructed from what is left.         *)
MoveAssign(s, t) ==
    LET emptied == Clear(Vacate(t, 0, t.size))
    IN  IF ~t.small
        THEN LET freed == Release(Destroy(s, 0, s.size))
             IN  <<[freed EXCEPT !.buf = t.buf, !.size = t.size, !.small = FALSE, !.blocks = @ + 1],
                   [t EXCEPT !.buf = <<>>, !.size = 0, !.small = TRUE, !.blocks = @ - 1]>>
        ELSE IF s.size >= t.size
        THEN <<[Destroy(Assign(s, 0, Contents(t)), t.size, s.size) EXCEPT !.size = t.size], emptied>>
        ELSE LET inPlace == Capacity(s) >= t.size
                 r == IF inPlace THEN (IF s.size > 0 THEN Assign(s, 0, Contents(t)) ELSE s)
                      ELSE Grow(Clear(s), t.size)
                 left == IF inPlace /\ s.size > 0 THEN Vacate(t, 0, t.size) ELSE t
             IN  <<[Construct(r, r.size, SubSeq(left.buf, r.size + 1, t.size)) EXCEPT !.size = t.size],
                   emptied>>

(* The elements behind n move to the end of the other object. *)
Spill(from, to, n) ==
    <<[Destroy(from, n, from.size) EXCEPT !.size = n],
      [Construct(to, to.size, SubSeq(from.buf, n + 1, from.size))
          EXCEPT !.size = @ + from.size - n]>>

(* swap: heap buffers change hands; elements in place are exchanged one by one. *)
Swap(s, t) ==
    IF ~s.small /\ ~t.small
    THEN <<[s EXCEPT !.buf = t.buf, !.size = t.size], [t EXCEPT !.buf = s.buf, !.size = s.size]>>
    ELSE LET s1 == Reserve(s, t.size)
             t1 == Reserve(t, s.size)
             shared == IF s.size < t.size THEN s.size ELSE t.size
             s2 == Assign(s1, 0, SubSeq(t.buf, 1, shared))
             t2 == Assign(t1, 0, SubSeq(s.buf, 1, shared))
         IN  IF s.size >= t.size THEN Spill(s2, t2, shared)
             ELSE LET both == Spill(t2, s2, shared) IN <<both[2], both[1]>>

(* The end of an object, and the beginning of the next one in its place. *)
Fresh(s) ==
    [Release(Destroy(s, 0, s.size)) EXCEPT !.buf = Blank(Inline), !.size = 0, !.small = TRUE]

-------------------------------------------------------------------------------
VectorInit ==
    /\ podLike \in BOOLEAN
    /\ vec = [v \in Vec |-> [buf |-> Blank(Inline), size |-> 0, small |-> TRUE,
                             blocks |-> 0, faults |-> 0]]
    /\ contents = [v \in Vec |-> <<>>]

Room == MaxLen - SetsExt!MapThenSumSet(LAMBDA v : vec[v].size, Vec)

Positions(v) == 0..vec[v].size
Items == {<<>>} \cup {<<x>> : x \in Elem} \cup {<<x, y>> : x, y \in Elem}
Fitting == {xs \in Items : Len(xs) <= Room}

Becomes(v, s) == vec' = [vec EXCEPT ![v] = s]

(* What a call is for: xs instead of the elements i+1 .. j, and what two       *)
(* vectors hold after one was moved to the other, or exchanged with it.        *)
Splices(v, i, j, xs) ==
    /\ contents' = [contents EXCEPT ![v] = SubSeq(@, 1, i) \o xs \o SubSeq(@, j + 1, Len(@))]
    /\ UNCHANGED podLike
Hands(v, w, left) ==
    /\ contents' = [contents EXCEPT ![v] = contents[w], ![w] = left]
    /\ UNCHANGED podLike

DoPushBack(v) ==
    /\ Room > 0
    /\ \E x \in Elem : Becomes(v, PushBack(vec[v], x)) /\ Splices(v, vec[v].size, vec[v].size, <<x>>)

DoPopBack(v) ==
    /\ vec[v].size > 0
    /\ Becomes(v, PopBack(vec[v])) /\ Splices(v, vec[v].size - 1, vec[v].size, <<>>)

DoClear(v) == Becomes(v, Clear(vec[v])) /\ Splices(v, 0, vec[v].size, <<>>)

DoReserve(v) ==
    \E n \in 0..MaxLen+2 : Becomes(v, Reserve(vec[v], n)) /\ Splices(v, 0, 0, <<>>)

DoResize(v) ==
    \E n \in 0..MaxLen, x \in Elem :
        /\ n <= vec[v].size + Room
        /\ Becomes(v, Resize(vec[v], n, x))
        /\ IF n <= vec[v].size THEN Splices(v, n, vec[v].size, <<>>)
           ELSE Splices(v, vec[v].size, vec[v].size, Copies(n - vec[v].size, x))

(* set_size does not construct or destroy: for plain elements only, whose slots *)
(* behind the size are as good as raw.                                          *)
DoSetSize(v) ==
    /\ podLike
    /\ \E n \in Positions(v) :
          Becomes(v, [Destroy(vec[v], n, vec[v].size) EXCEPT !.size = n]) /\ Splices(v, n, vec[v].size, <<>>)

DoAppend(v) ==
    \E xs \in Fitting : Becomes(v, AppendAll(vec[v], xs)) /\ Splices(v, vec[v].size, vec[v].size, xs)

DoAssign(v) ==
    \E n \in 0..MaxLen, x \in Elem :
        /\ n <= vec[v].size + Room
        /\ Becomes(v, Refill(vec[v], n, x)) /\ Splices(v, 0, vec[v].size, Copies(n, x))

DoErase(v) ==
    \E i, j \in Positions(v) : i <= j /\ Becomes(v, Erase(vec[v], i, j)) /\ Splices(v, i, j, <<>>)

(* A reference into the vector must outlive the call: no growth then.          *)
(* An element of a class is inserted by move at the end only: elsewhere the    *)
(* last element would be lost.                                                 *)
DoInsert(v) ==
    /\ Room > 0
    /\ \E i \in Positions(v), rvalue \in BOOLEAN,
          elt \in Elem \cup (IF vec[v].size < Capacity(vec[v]) THEN 1..vec[v].size ELSE {}) :
          /\ rvalue /\ ~podLike => elt \in Elem /\ i = vec[v].size
          /\ Becomes(v, Insert(vec[v], i, elt, rvalue))
          /\ Splices(v, i, i, <<IF elt \in Elem THEN elt ELSE vec[v].buf[elt]>>)

DoInsertRange(v) ==
    \E i \in Positions(v), xs \in Fitting :
        Becomes(v, InsertRange(vec[v], i, xs)) /\ Splices(v, i, i, xs)

DoCopy(v, w) ==
    /\ v # w /\ vec[w].size <= vec[v].size + Room
    /\ Becomes(v, CopyAssign(vec[v], vec[w])) /\ Splices(v, 0, vec[v].size, Contents(vec[w]))

(* Elements of a class that are in place are moved into an empty vector, a     *)
(* longer one, or one with too few slots: into others they would be lost.      *)
DoMove(v, w) ==
    /\ v # w
    /\ \/ podLike \/ ~vec[w].small
       \/ vec[v].size = 0 \/ vec[v].size >= vec[w].size \/ Capacity(vec[v]) < vec[w].size
    /\ LET both == MoveAssign(vec[v], vec[w])
       IN  vec' = [vec EXCEPT ![v] = both[1], ![w] = both[2]]
    /\ Hands(v, w, <<>>)

DoSwap(v, w) ==
    /\ v # w
    /\ LET both == Swap(vec[v], vec[w])
       IN  vec' = [vec EXCEPT ![v] = both[1], ![w] = both[2]]
    /\ Hands(v, w, contents[v])

(* The destructor, and a constructor: of a range, or as a copy of another. *)
DoRenew(v) ==
    /\ \/ \E xs \in Items : /\ Len(xs) <= vec[v].size + Room
                            /\ Becomes(v, AppendAll(Fresh(vec[v]), xs)) 
                            /\ Splices(v, 0, vec[v].size, xs)
       \/ \E w \in Vec \ {v} :
             /\ vec[w].size <= vec[v].size + Room
             /\ Becomes(v, IF vec[w].size = 0 THEN Fresh(vec[v])
                           ELSE CopyAssign(Fresh(vec[v]), vec[w]))
             /\ Splices(v, 0, vec[v].size, Contents(vec[w]))

VectorNext ==
    \/ \E v \in Vec : \/ DoPushBack(v) \/ DoPopBack(v) \/ DoClear(v) \/ DoReserve(v)
                      \/ DoResize(v) \/ DoSetSize(v) \/ DoAppend(v) \/ DoAssign(v)
                      \/ DoErase(v) \/ DoInsert(v) \/ DoInsertRange(v) \/ DoRenew(v)
    \/ \E v, w \in Vec : DoCopy(v, w) \/ DoMove(v, w) \/ DoSwap(v, w)

VectorSpec == VectorInit /\ [][VectorNext]_vectorVars

-------------------------------------------------------------------------------
(* Between the calls every slot below the size has an element whose value was  *)
(* not moved away and, for a class, no other slot has one; nothing was         *)
(* constructed twice, used raw or forgotten (SmallVector.h:174-179, 268-290,   *)
(* 386-393), and an object owns one heap block unless its elements are in      *)
(* place: no block is lost and none is freed by two (808-809).                 *)
ConstructedInSize ==
    \A v \in Vec : LET s == vec[v] IN
        /\ s.size <= Capacity(s) /\ s.faults = 0
        /\ \A k \in 1..s.size : s.buf[k] \in Elem
        /\ podLike \/ \A k \in s.size+1..Capacity(s) : s.buf[k] = Raw
        /\ s.blocks = (IF s.small THEN 0 ELSE 1)

(* Every call leaves the elements that its users count on, and changes those   *)
(* of no other vector, whichever way the slots go: in place, grown, taken over *)
(* or exchanged (SmallVector.h:401-672, 709-857).                              *)
ContentsKept == \A v \in Vec : Contents(vec[v]) = contents[v]

(* Both: the vectors keep their elements, and give up all that they allocate   *)
(* or construct once (SmallVector.h:165-857).                                  *)
VectorsKept == ConstructedInSize /\ ContentsKept
===============================================================================
