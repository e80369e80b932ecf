-------------------------------- MODULE Slabs --------------------------------
(***************************************************************************)
(* The bump allocator under the epoch allocator (core/bump_allocator.hpp), *)
(* the lists of slabs it is given in turn, and what becomes of the list of *)
(* a thread that ends (core/global_work_queue.cpp).                        *)
(*                                                                         *)
(* Sizes are in units of which the header of a slab takes HEADER; a slab   *)
(* begins at a multiple of it.                                             *)
(***************************************************************************)
EXTENDS Integers, SequencesExt, FiniteSetsExt

CONSTANTS Thread, SLABS, BLOCKS, Nil,   (* bounds: slabs made, blocks live *)
          HEADER, DEFAULT_SLAB_SIZE,
          Request                (* [count, alignment]                       *)

(* What an alignment costs is no more than what a header takes, or         *)
(* _allocate_slow might make slabs for ever: it is 1 or HEADER.            *)

Slab == 1 .. SLABS

VARIABLES
  next, size,       (* of the slabs that have been made: _next, and _end     *)
  head, cursor, end,(* State of each thread; _begin follows the cursor       *)
  alternate,        (* the list it will be given next                        *)
  orphans,          (* _orphaned_bump_slabs                                  *)
  leaving,          (* has the thread ended, and its list: [gone, mine,       *)
              (* expected]                                               *)
  blocks            (* what has been allocated: [slab, from, to, alignment]  *)
vars == <<next, size, head, cursor, end, alternate, orphans, leaving, blocks>>

Made == {s \in Slab : size[s] > 0}

(* The slabs from s on, in their order. *)
Chain(s) ==
  FoldLeft(LAMBDA c, i : IF c = << >> \/ next[Last(c)] = Nil THEN c ELSE Append(c, next[Last(c)]),
           IF s = Nil THEN << >> ELSE <<s>>, [i \in 1 .. SLABS |-> i])
In(s) == ToSet(Chain(s))

(* bump_down: the end rounded down, if that is not below the beginning.    *)
BumpDown(to, r) ==
  LET from == to - r.count - ((to - r.count) % r.alignment) IN IF from < HEADER THEN 0 ELSE from

BitCeil(n) == Min({x \in {2 ^ i : i \in 0 .. 10} : x >= n})
Capacity(r) == Max({r.count, DEFAULT_SLAB_SIZE - HEADER})
-----------------------------------------------------------------------------
Gets(t, s, r, from) ==
  /\ cursor' = [cursor EXCEPT ![t] = s] /\ end' = [end EXCEPT ![t] = from]
  /\ blocks' = Append(blocks, [slab |-> s, from |-> from, to |-> from + r.count, alignment |-> r.alignment])
  /\ UNCHANGED <<alternate, orphans, leaving>>

(* Where it fits: where the cursor is, or the first slab after it that has *)
(* the room; those that have not are passed over.                          *)
Room(t, r) == IF cursor[t] = Nil THEN 0 ELSE BumpDown(end[t], r)
Later(t, r) ==
  IF cursor[t] = Nil THEN << >>
  ELSE SelectSeq(Tail(Chain(cursor[t])), LAMBDA s : BumpDown(size[s], r) # 0)

WrongAllocateFast(t, r) ==                       (* the end is not rounded *)
  /\ Room(t, r) # 0 /\ Gets(t, cursor[t], r, end[t] - r.count) /\ UNCHANGED <<next, size, head>>
AllocateFast(t, r) ==
  /\ Room(t, r) # 0 /\ Gets(t, cursor[t], r, Room(t, r)) /\ UNCHANGED <<next, size, head>>

AllocateNext(t, r) ==
  /\ Room(t, r) = 0 /\ Later(t, r) # << >>
  /\ LET s == Head(Later(t, r)) IN Gets(t, s, r, BumpDown(size[s], r))
  /\ UNCHANGED <<next, size, head>>

(* A new slab goes to the end of the list: there is none beyond it.        *)
AllocateNew(t, r) ==
  /\ Room(t, r) = 0 /\ Later(t, r) = << >> /\ Made # Slab
  /\ LET s == CHOOSE s \in Slab \ Made : TRUE
         bytes == BitCeil(HEADER + Capacity(r)) IN
     /\ size' = [size EXCEPT ![s] = bytes]
     /\ IF cursor[t] = Nil THEN head' = [head EXCEPT ![t] = s] /\ UNCHANGED next
        ELSE next' = [next EXCEPT ![Last(Chain(cursor[t]))] = s] /\ UNCHANGED head
     /\ Gets(t, s, r, BumpDown(bytes, r))

(* exchange_head_and_restart with the list that has rested: what was       *)
(* allocated from it is gone.                                              *)
Exchange(t, list) ==
  /\ head' = [head EXCEPT ![t] = list] /\ cursor' = [cursor EXCEPT ![t] = list]
  /\ end' = [end EXCEPT ![t] = IF list = Nil THEN 0 ELSE size[list]]
  /\ blocks' = SelectSeq(blocks, LAMBDA b : b.slab \notin In(list))

WrongRotate(t) ==                                (* the cursor stays *)
  /\ ~leaving[t].gone
  /\ head' = [head EXCEPT ![t] = alternate[t]] /\ alternate' = [alternate EXCEPT ![t] = head[t]]
  /\ blocks' = SelectSeq(blocks, LAMBDA b : b.slab \notin In(alternate[t]))
  /\ UNCHANGED <<next, size, cursor, end, orphans, leaving>>
Rotate(t) ==
  /\ ~leaving[t].gone
  /\ Exchange(t, alternate[t]) /\ alternate' = [alternate EXCEPT ![t] = head[t]]
  /\ UNCHANGED <<next, size, orphans, leaving>>

(* _leak_this_thread_bump_slabs: the list is handed over as a whole, its   *)
(* last slab linked before what is there already.                          *)
Leave(t) ==
  /\ ~leaving[t].gone
  /\ leaving' = [leaving EXCEPT ![t] = [gone |-> TRUE, mine |-> head[t], expected |-> orphans]]
  /\ Exchange(t, Nil)
  /\ UNCHANGED <<next, size, alternate, orphans>>

Pushes(t) ==
  /\ orphans' = leaving[t].mine /\ leaving' = [leaving EXCEPT ![t].mine = Nil]
  /\ next' = [next EXCEPT ![Last(Chain(leaving[t].mine))] = leaving[t].expected]

WrongPush(t) ==                                  (* whatever is there by now *)
  /\ leaving[t].mine # Nil /\ Pushes(t)
  /\ UNCHANGED <<size, head, cursor, end, alternate, blocks>>

(* compare_exchange, which may fail without a reason. *)
Push(t) ==
  /\ leaving[t].mine # Nil
  /\ \/ orphans = leaving[t].expected /\ Pushes(t)
     \/ leaving' = [leaving EXCEPT ![t].expected = orphans] /\ UNCHANGED <<next, orphans>>
  /\ UNCHANGED <<size, head, cursor, end, alternate, blocks>>

Init ==
  /\ next = [s \in Slab |-> Nil] /\ size = [s \in Slab |-> 0]
  /\ head = [t \in Thread |-> Nil] /\ cursor = head /\ end = [t \in Thread |-> 0]
  /\ alternate = head /\ orphans = Nil /\ leaving = [t \in Thread |-> [gone |-> FALSE, mine |-> Nil, expected |-> Nil]] /\ blocks = << >>

Next == \E t \in Thread :
  \/ /\ ~leaving[t].gone /\ Len(blocks) < BLOCKS
     /\ \E r \in Request : AllocateFast(t, r) \/ AllocateNext(t, r) \/ AllocateNew(t, r)
  \/ Rotate(t) \/ Leave(t) \/ Push(t)
  \/ leaving[t].gone /\ leaving[t].mine = Nil /\ UNCHANGED vars
Spec == Init /\ [][Next]_vars
-----------------------------------------------------------------------------
(* Every slab is in one list, and in one place of it: no thread is given   *)
(* what another has, nothing that was handed over is lost.                 *)
Owners == {<<"head", t>> : t \in Thread} \cup {<<"rests", t>> : t \in Thread}
            \cup {<<"leaves", t>> : t \in Thread} \cup {<<"orphans", Nil>>}
List(o) ==
  CASE o[1] = "head" -> Chain(head[o[2]])
    [] o[1] = "rests" -> Chain(alternate[o[2]])
    [] o[1] = "leaves" -> Chain(leaving[o[2]].mine)
    [] OTHER -> Chain(orphans)
SlabsHaveOneOwner ==
  LET lists == [o \in Owners |-> List(o)] IN
  /\ \A o \in Owners : IsInjective(lists[o])
  /\ \A s \in Made : Cardinality({o \in Owners : s \in ToSet(lists[o])}) = 1
  /\ \A t \in Thread : cursor[t] # Nil => cursor[t] \in ToSet(lists[<<"head", t>>])

(* What has been allocated since its list was restarted is where it fits,  *)
(* aligned, and shares nothing with another.                               *)
BlocksApart ==
  \A i \in DOMAIN blocks :
    LET b == blocks[i] IN
    /\ HEADER <= b.from /\ b.to <= size[b.slab] /\ b.from % b.alignment = 0
    /\ \A j \in DOMAIN blocks :
         i < j /\ blocks[j].slab = b.slab => b.to <= blocks[j].from \/ blocks[j].to <= b.from

SlabsSound == SlabsHaveOneOwner /\ BlocksApart
=============================================================================
