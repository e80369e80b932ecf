------------------------------- MODULE Deque -------------------------------
(***************************************************************************)
(* ContiguousDeque (container/contiguous_deque.hpp), the array that stands *)
(* behind strings, buffers and JSON: a window of items in an allocation,   *)
(* with room before and behind.  Items are relocated, so the memory is     *)
(* modelled cell by cell; a cell outside the window holds Junk.            *)
(***************************************************************************)
EXTENDS Integers, SequencesExt

CONSTANTS Item, Junk,
          LENGTH               (* bound: the longest contents                *)

VARIABLES memory, first, last, contents
vars == <<memory, first, last, contents>>

(* A deque: its memory, and the window [first, last) in it.                *)
D == [memory |-> memory, first |-> first, last |-> last]
Blank(m) == [c \in 0 .. m - 1 |-> Junk]
Capacity(d) == Cardinality(DOMAIN d.memory)
Size(d) == d.last - d.first
Back(d) == Capacity(d) - d.last
Items(d) == [i \in 1 .. Size(d) |-> d.memory[d.first + i - 1]]

(* Copies n cells into a memory, all at once as memmove does; what leaves  *)
(* the window is poisoned.                                                 *)
Copy(m, from, source, n, to) ==
  [c \in DOMAIN m |-> IF to <= c /\ c < to + n THEN from[source + c - to] ELSE m[c]]
Poison(d) == [d EXCEPT !.memory = [c \in DOMAIN @ |-> IF d.first <= c /\ c < d.last THEN @[c] ELSE Junk]]
Fill(d, i, s) == [d EXCEPT !.memory = Copy(@, s, 1, Len(s), d.first + i)]
Deque(m, b, s) == [memory |-> Copy(Blank(m), s, 1, Len(s), b), first |-> b, last |-> b + Len(s)]

ReserveBack(d, n) ==
  LET m == 3 * Size(d) + n IN
  IF n > Back(d) THEN Deque(m, (m - Size(d) - n) \div 2, Items(d)) ELSE d
ReserveFront(d, n) ==
  LET m == 3 * Size(d) + n IN
  IF n > d.first THEN Deque(m, (m - Size(d) + n) \div 2, Items(d)) ELSE d

(* Operators whose name begins with Wrong are mistakes the code could have  *)
(* made; nothing uses them.  Here the items before the gap go to where     *)
(* there is no room for them.                                              *)
WrongOpen(d, i, n) ==
  LET j == Size(d) - i
      m == 3 * Size(d) + n
      b == (m - Size(d) - n) \div 2
      front == Copy(Blank(m), d.memory, d.first, i, b) IN
  IF j <= i /\ Back(d) >= n
    THEN [d EXCEPT !.memory = Copy(@, @, d.last - j, j, d.last + n - j), !.last = @ + n]
  ELSE IF i <= j /\ d.first > 0
    THEN [d EXCEPT !.memory = Copy(@, @, d.first, i, d.first - n), !.first = @ - n]
  ELSE [memory |-> Copy(front, d.memory, d.last - j, j, b + i + n), first |-> b, last |-> b + Size(d) + n]

(* _insert_uninitialized_n: n cells at i, made by moving the shorter side  *)
(* if there is room for it, else in a new allocation.                      *)
Open(d, i, n) ==
  LET j == Size(d) - i
      m == 3 * Size(d) + n
      b == (m - Size(d) - n) \div 2
      front == Copy(Blank(m), d.memory, d.first, i, b) IN
  IF j <= i /\ Back(d) >= n
    THEN [d EXCEPT !.memory = Copy(@, @, d.last - j, j, d.last + n - j), !.last = @ + n]
  ELSE IF i <= j /\ d.first >= n
    THEN [d EXCEPT !.memory = Copy(@, @, d.first, i, d.first - n), !.first = @ - n]
  ELSE [memory |-> Copy(front, d.memory, d.last - j, j, b + i + n), first |-> b, last |-> b + Size(d) + n]

(* _erase_uninitialized_n: the shorter side closes up.                     *)
Close(d, i, n) ==
  LET j == Size(d) - i - n IN
  Poison(IF i <= j
    THEN [d EXCEPT !.memory = Copy(@, @, d.first, i, d.first + n), !.first = @ + n]
    ELSE [d EXCEPT !.memory = Copy(@, @, d.first + i + n, j, d.first + i), !.last = @ - n])

(* did_read_last, did_read_first: n items are let go of.                   *)
DropBack(d, n) == Poison([d EXCEPT !.last = @ - n])
DropFront(d, n) == Poison([d EXCEPT !.first = @ + n])

(* may_write_back and did_write_back, and the same in front: room is made  *)
(* for n and what was written of it is taken in.                           *)
WriteBack(d, n, s) ==
  LET r == ReserveBack(d, n) IN Fill([r EXCEPT !.last = @ + Len(s)], Size(d), s)
WriteFront(d, n, s) ==
  LET r == ReserveFront(d, n) IN Fill([r EXCEPT !.first = @ - Len(s)], 0, s)

(* append of a range: one by one, as is insert before it rotates.          *)
Appended(d, s) == FoldLeft(LAMBDA r, v : WriteBack(r, 1, <<v>>), d, s)

(* append of an expiring deque x: into the room behind this one, or with   *)
(* this one into the room before x, or both into a new one.                *)
Join(d, x) ==
  IF Size(d) = 0 THEN x
  ELSE IF Back(d) >= Size(x) /\ (Size(x) <= Size(d) \/ x.first < Size(d))
    THEN Fill([d EXCEPT !.last = @ + Size(x)], Size(d), Items(x))
  ELSE IF Size(d) <= x.first THEN Fill([x EXCEPT !.first = @ - Size(d)], 0, Items(d))
  ELSE Deque(Size(d) + Size(x), 0, Items(d) \o Items(x))

(* _resize *)
Resized(d, n) ==
  IF n > Size(d) THEN Open(d, Size(d), n - Size(d)) ELSE DropBack(d, Size(d) - n)

(* _assign: the items are overwritten, and more are written behind them if *)
(* there is room, else in a new allocation.                                *)
Assigned(d, s) ==
  IF Len(s) <= Capacity(d) - d.first
    THEN Poison(Fill([d EXCEPT !.last = d.first + Len(s)], 0, s))
    ELSE Deque(Len(s), 0, s)

(* _assign from a range that is read only once: the rest is pushed.        *)
AssignedOnce(d, s) ==
  IF Len(s) <= Size(d) THEN Fill(DropBack(d, Size(d) - Len(s)), 0, s)
  ELSE Appended(Fill(d, 0, SubSeq(s, 1, Size(d))), SubSeq(s, Size(d) + 1, Len(s)))
-----------------------------------------------------------------------------
(* The constructors leave no room. *)
Constructed(s) == Deque(Len(s), 0, s)

Init == \E s \in BoundedSeq(Item, 1) :
  /\ memory = Constructed(s).memory /\ first = 0 /\ last = Len(s)
  /\ contents = s

Becomes(d, s) ==
  /\ Len(s) <= LENGTH
  /\ memory' = d.memory /\ first' = d.first /\ last' = d.last /\ contents' = s

Copies(n, v) == [i \in 1 .. n |-> v]
Len0 == Len(contents)
Other == {Deque(before + Len(s) + behind, before, s) :
            before \in 0 .. 2, behind \in 0 .. 2, s \in BoundedSeq(Item, 2)}

PushBack == \E n \in 1 .. 2 : \E s \in BoundedSeq(Item, n) :
  Becomes(WriteBack(D, n, s), contents \o s)
PushFront == \E n \in 1 .. 2 : \E s \in BoundedSeq(Item, n) :
  Becomes(WriteFront(D, n, s), s \o contents)
PopBack == \E n \in 1 .. Len0 : Becomes(DropBack(D, n), SubSeq(contents, 1, Len0 - n))
PopFront == \E n \in 1 .. Len0 : Becomes(DropFront(D, n), SubSeq(contents, n + 1, Len0))
Clear == Becomes(DropFront(D, Len0), << >>)

EraseValue == \E v \in Item :
  LET kept == SelectSeq(Items(D), LAMBDA x : x # v) IN
  Becomes(DropBack(Fill(D, 0, kept), Len0 - Len(kept)), SelectSeq(contents, LAMBDA x : x # v))

(* erase_first takes it for granted that there is one. *)
EraseFirst == \E i \in 1 .. Len0 :
  /\ \A j \in 1 .. i - 1 : Items(D)[j] # Items(D)[i]
  /\ Becomes(Close(D, i - 1, 1), RemoveAt(contents, i))

Insert == \E i \in 0 .. Len0, n \in 1 .. 2, v \in Item :
  Becomes(Fill(Open(D, i, n), i, Copies(n, v)),
          SubSeq(contents, 1, i) \o Copies(n, v) \o SubSeq(contents, i + 1, Len0))
InsertRange == \E i \in 0 .. Len0, s \in BoundedSeq(Item, 2) :
  Becomes(Fill(Appended(D, s), i, s \o SubSeq(Items(D), i + 1, Len0)),
          SubSeq(contents, 1, i) \o s \o SubSeq(contents, i + 1, Len0))
Erase == \E i \in 0 .. Len0 - 1 : \E n \in 1 .. Len0 - i :
  Becomes(Close(D, i, n), SubSeq(contents, 1, i) \o SubSeq(contents, i + n + 1, Len0))
SwapRemove == \E i \in 1 .. Len0 :
  Becomes(DropBack(Fill(D, i - 1, <<Items(D)[Len0]>>), 1), Front([contents EXCEPT ![i] = contents[Len0]]))

Resize == \E n \in 0 .. LENGTH, v \in Item :
  Becomes(IF n > Len0 THEN Fill(Resized(D, n), Len0, Copies(n - Len0, v)) ELSE Resized(D, n),
          SubSeq(contents, 1, Min({n, Len0})) \o Copies(n - Len0, v))

Assign == \E n \in 0 .. LENGTH, v \in Item : Becomes(Assigned(D, Copies(n, v)), Copies(n, v))
AssignRange == \E s \in BoundedSeq(Item, LENGTH) :
  Becomes(Assigned(D, s), s) \/ Becomes(AssignedOnce(D, s), s)
CopyFrom == \E x \in Other : Becomes(Assigned(D, Items(x)), Items(x))
TakeFrom == \E x \in Other : Becomes(x, Items(x))

Reserve == \E n \in 1 .. LENGTH :
  Becomes(IF n > Capacity(D) - first THEN ReserveBack(D, n - Len0) ELSE D, contents)
ReserveExact == \E n \in 1 .. LENGTH :
  Becomes(IF Back(D) < n THEN Deque(Len0 + n, 0, Items(D)) ELSE D, contents)

AppendRange == \E s \in BoundedSeq(Item, 2) : Becomes(Appended(D, s), contents \o s)
AppendDeque == \E x \in Other : Becomes(Join(D, x), contents \o Items(x))

Next == PushBack \/ PushFront \/ PopBack \/ PopFront \/ Clear \/ EraseValue \/ EraseFirst \/ Insert
          \/ InsertRange \/ Erase \/ SwapRemove \/ Resize \/ Assign \/ AssignRange \/ CopyFrom \/ TakeFrom
          \/ Reserve \/ ReserveExact \/ AppendRange \/ AppendDeque
Spec == Init /\ [][Next]_vars
-----------------------------------------------------------------------------
(* Whichever way the items were shifted about or taken to a new            *)
(* allocation, the window lies in the allocation and holds the contents:   *)
(* no item is lost, doubled, overwritten or written out of bounds.         *)
WindowHoldsContents ==
  /\ 0 <= first /\ first <= last /\ last <= Capacity(D)
  /\ Items(D) = contents
  /\ \A c \in DOMAIN memory : (memory[c] = Junk) = ~(first <= c /\ c < last)
=============================================================================
