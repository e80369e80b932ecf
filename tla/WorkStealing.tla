------------------------------ MODULE WorkStealing ------------------------------
(***************************************************************************)
(* The work-stealing deque of core/work_stealing_queue.hpp: its owner      *)
(* pushes and pops at the bottom, thieves take from the top.               *)
(*                                                                         *)
(* A relaxed store of the owner's may become visible after its later load  *)
(* of _top: try_pop has no fence between the two.  So the owner's stores   *)
(* of _bottom queue up in pending, and memory catches up at any time; only *)
(* a successful exchange waits until it has.  An item is its number in the *)
(* order of the pushes, and 0 is what calloc leaves in a cell.             *)
(***************************************************************************)
EXTENDS Integers, Sequences, SequencesExt, FiniteSets

CONSTANTS Thief,
          CAPACITY,                  (* of the first array                   *)
          PUSHES, PENDING            (* bounds: items, stores not yet seen   *)

VARIABLES
  arrays,       (* the arrays made so far: thieves may hold an old one       *)
  bottom,       (* _bottom, as thieves read it                               *)
  pending,      (* the owner's stores of it that they do not see yet         *)
  top,          (* _top                                                      *)
  cached_top,   (* the owner's _cached_top                                   *)
  owner,        (* what the owner does, and the top it has read              *)
  thief,        (* and each thief: with the array and the item it has read   *)
  taken,        (* how often each item has been handed out                   *)
  late          (* a thief has read a bottom that a pop had gone past        *)
vars == <<arrays, bottom, pending, top, cached_top, owner, thief, taken, late>>

Item == 0 .. PUSHES
Capacity(a) == Cardinality(DOMAIN a)
At(a, i) == a[i % Capacity(a)]
Make(capacity) == [i \in 0 .. capacity - 1 |-> 0]

(* The owner reads its own stores. *)
OwnBottom == IF pending = << >> THEN bottom ELSE Last(pending)
Store(b) == pending' = Append(pending, b)
Pushed == Cardinality({i \in Item \ {0} : taken[i] # -1})
Take(i) == taken' = [taken EXCEPT ![i] = @ + 1]

Idle == [pc |-> "idle", top |-> 0]
IdleThief == [pc |-> "idle", top |-> 0, array |-> 0, item |-> 0]

Init ==
  /\ arrays = <<Make(CAPACITY)>>
  /\ bottom = 0 /\ pending = << >> /\ top = 0 /\ cached_top = 0
  /\ owner = Idle /\ thief = [t \in Thief |-> IdleThief]
  /\ taken = [i \in Item |-> IF i = 0 THEN 0 ELSE -1]    (* -1: not pushed  *)
  /\ late = FALSE

(* push: top is looked at only if what the owner knows of it leaves no     *)
(* room.                                                                   *)
Push ==
  /\ owner.pc = "idle" /\ Pushed < PUSHES /\ Len(pending) < PENDING
  /\ LET full(t) == OwnBottom - t = Capacity(Last(arrays)) IN
       IF full(cached_top)
         THEN /\ cached_top' = top
              /\ owner' = [owner EXCEPT !.pc = IF full(top) THEN "grow" ELSE "put"]
         ELSE owner' = [owner EXCEPT !.pc = "put"] /\ UNCHANGED cached_top
  /\ UNCHANGED <<arrays, bottom, pending, top, thief, taken, late>>

(* The indices from the top on keep their items in an array twice as large. *)
Grown(a, from, to) ==
  LET twice == Make(2 * Capacity(a)) IN
  [i \in DOMAIN twice |-> LET here == {k \in from .. to - 1 : k % Capacity(twice) = i} IN
                          IF here = {} THEN 0 ELSE At(a, CHOOSE k \in here : TRUE)]
Grow ==
  /\ owner.pc = "grow"
  /\ arrays' = Append(arrays, Grown(Last(arrays), cached_top, OwnBottom))
  /\ owner' = [owner EXCEPT !.pc = "put"]
  /\ UNCHANGED <<bottom, pending, top, cached_top, thief, taken, late>>

Put ==
  /\ owner.pc = "put"
  /\ arrays' = [arrays EXCEPT ![Len(arrays)][OwnBottom % Capacity(Last(arrays))] = Pushed + 1]
  /\ taken' = [taken EXCEPT ![Pushed + 1] = 0]
  /\ Store(OwnBottom + 1) /\ owner' = Idle
  /\ UNCHANGED <<bottom, top, cached_top, thief, late>>

(* try_pop: the bottom is lowered before the top is read, ... *)
PopStore ==
  /\ owner.pc = "idle" /\ Len(pending) < PENDING
  /\ Store(OwnBottom - 1) /\ owner' = [owner EXCEPT !.pc = "load"]
  /\ UNCHANGED <<arrays, bottom, top, cached_top, thief, taken, late>>

(* A mistake the code could have made, which nothing uses: no race for the *)
(* last item.                                                              *)
WrongPopLoad ==
  /\ owner.pc = "load"
  /\ LET size == OwnBottom - top IN
       IF size < 0 THEN Store(OwnBottom + 1) /\ owner' = Idle /\ UNCHANGED taken
       ELSE Take(At(Last(arrays), OwnBottom)) /\ owner' = Idle /\ UNCHANGED pending
  /\ UNCHANGED <<arrays, bottom, top, cached_top, thief, late>>

(* ... an empty queue has it raised again, and for its last item the owner *)
(* races the thieves.  The top it reads here is not kept in _cached_top:   *)
(* a local variable hides the member.                                      *)
PopLoad ==
  /\ owner.pc = "load"
  /\ LET size == OwnBottom - top IN
       \/ size < 0 /\ Store(OwnBottom + 1) /\ owner' = Idle /\ UNCHANGED taken
       \/ size > 0 /\ Take(At(Last(arrays), OwnBottom)) /\ owner' = Idle /\ UNCHANGED pending
       \/ size = 0 /\ owner' = [pc |-> "exchange", top |-> top] /\ UNCHANGED <<pending, taken>>
  /\ UNCHANGED <<arrays, bottom, top, cached_top, thief, late>>

(* A weak exchange may fail for no reason; the item then stays. *)
PopExchange ==
  /\ owner.pc = "exchange"
  /\ \/ /\ top = owner.top /\ pending = << >>
        /\ top' = top + 1 /\ Take(At(Last(arrays), OwnBottom))
     \/ UNCHANGED <<top, taken>>
  /\ Store(OwnBottom + 1) /\ owner' = Idle
  /\ UNCHANGED <<arrays, bottom, cached_top, thief, late>>

BecomeVisible ==
  /\ pending # << >>
  /\ bottom' = Head(pending) /\ pending' = Tail(pending)
  /\ UNCHANGED <<arrays, top, cached_top, owner, thief, taken, late>>

(* try_steal *)
StealTop(t) ==
  /\ thief[t].pc = "idle"
  /\ thief' = [thief EXCEPT ![t] = [@ EXCEPT !.pc = "bottom", !.top = top]]
  /\ UNCHANGED <<arrays, bottom, pending, top, cached_top, owner, taken, late>>

(* The owner has gone on from a pop whose store this read does not see.    *)
Overtaken ==
  LET passed == IF owner.pc = "load" THEN Len(pending) - 1 ELSE Len(pending) IN
  \E i \in 1 .. passed : pending[i] < bottom
StealBottom(t) ==
  /\ thief[t].pc = "bottom"
  /\ thief' = [thief EXCEPT ![t] = IF thief[t].top < bottom THEN [@ EXCEPT !.pc = "array"] ELSE IdleThief]
  /\ late' = (late \/ (Overtaken /\ thief[t].top < bottom))
  /\ UNCHANGED <<arrays, bottom, pending, top, cached_top, owner, taken>>

StealArray(t) ==
  /\ thief[t].pc = "array"
  /\ thief' = [thief EXCEPT ![t] = [@ EXCEPT !.pc = "item", !.array = Len(arrays)]]
  /\ UNCHANGED <<arrays, bottom, pending, top, cached_top, owner, taken, late>>

StealItem(t) ==
  /\ thief[t].pc = "item"
  /\ thief' = [thief EXCEPT ![t] = [@ EXCEPT !.pc = "exchange", !.item = At(arrays[thief[t].array], thief[t].top)]]
  /\ UNCHANGED <<arrays, bottom, pending, top, cached_top, owner, taken, late>>

StealExchange(t) ==
  /\ thief[t].pc = "exchange"
  /\ \/ top = thief[t].top /\ top' = top + 1 /\ Take(thief[t].item)
     \/ UNCHANGED <<top, taken>>
  /\ thief' = [thief EXCEPT ![t] = IdleThief]
  /\ UNCHANGED <<arrays, bottom, pending, cached_top, owner, late>>

Next ==
  \/ Push \/ Grow \/ Put \/ PopStore \/ PopLoad \/ PopExchange \/ BecomeVisible
  \/ \E t \in Thief : StealTop(t) \/ StealBottom(t) \/ StealArray(t) \/ StealItem(t) \/ StealExchange(t)
Spec == Init /\ [][Next]_vars
-----------------------------------------------------------------------------
(* The indices in use, those a pop under way may give back among them.     *)
End == IF owner.pc \in {"load", "exchange"} THEN OwnBottom + 1 ELSE OwnBottom
Window == [k \in 1 .. End - top |-> At(Last(arrays), top + k - 1)]

(* Unless a thief reads a bottom that a pop has gone past, every item is   *)
(* handed out at most once, however pops, steals and growth interleave;    *)
(* none is lost, garbage never; those that are left lie between the top    *)
(* and the bottom, the oldest at the top; and the assertions of push and   *)
(* try_pop hold.                                                           *)
WorkStealingSound ==
  ~late =>
  /\ \A i \in Item : taken[i] <= 1
  /\ taken[0] = 0
  /\ top <= End
  /\ Window = SelectSeq([i \in 1 .. Pushed |-> i], LAMBDA i : taken[i] = 0)
  /\ OwnBottom - cached_top <= Capacity(Last(arrays))
=============================================================================
