-------------------------------- MODULE Roots --------------------------------
(***************************************************************************)
(* The implicit multiset of roots (core/garbage_collected.hpp): Root<T> in *)
(* the frames of threads, and one Atomic<Root<T>> that they share.  An     *)
(* object counts its roots; the count is not changed in the same step as   *)
(* the pointer, and may be zero for a while though the object is held.     *)
(*                                                                         *)
(* The collector is taken for what Collector shows of it: what has no root *)
(* is freed once every thread has repinned since its last root went.       *)
(***************************************************************************)
EXTENDS Integers, SequencesExt, FiniteSetsExt

CONSTANTS Thread, Object, Local,      (* each thread has a Root at each Local *)
          Nil, OPERATIONS

VARIABLES
  count,      (* GarbageCollected::_count                                    *)
  root,       (* Root::_ptr                                                  *)
  cell,       (* Atomic<Root>::raw                                           *)
  owed,       (* what each thread still adds to counts, in order             *)
  desired,    (* the argument of its store, exchange or compare-exchange     *)
  does,       (* that operation, and its Local                               *)
  unpinned,   (* who has repinned since the last root of an object went      *)
  live, operations
vars == <<count, root, cell, owed, desired, does, unpinned, live, operations>>

Add(o) == IF o = Nil THEN << >> ELSE <<[object |-> o, by |-> 1]>>
Subtract(o) == IF o = Nil THEN << >> ELSE <<[object |-> o, by |-> -1]>>

Idle(t) == owed[t] = << >> /\ does[t].op = "none"
Begins(t) == Idle(t) /\ operations < OPERATIONS /\ operations' = operations + 1
Owes(t, changes) == owed' = [owed EXCEPT ![t] = changes]
Points(t, r, o) == root' = [root EXCEPT ![t][r] = o]
Keeps == UNCHANGED <<count, unpinned, live>>
Aside == UNCHANGED <<cell, desired, does>> /\ Keeps

(* roots_add and roots_subtract, each on its turn.  A count that falls to  *)
(* zero shades the object.                                                 *)
Settle(t) ==
  /\ owed[t] # << >>
  /\ LET o == Head(owed[t]).object IN
     /\ count' = [count EXCEPT ![o] = @ + Head(owed[t]).by]
     /\ unpinned' = IF Head(owed[t]).by = -1 /\ count[o] = 1 THEN [unpinned EXCEPT ![o] = {}] ELSE unpinned
  /\ Owes(t, Tail(owed[t]))
  /\ UNCHANGED <<root, cell, desired, does, live, operations>>

(* Root(U* ) of an object that the thread has just made, at an address that *)
(* may have been another's.                                                *)
New(t) == Begins(t) /\ \E r \in Local, o \in Object \ live :
  /\ root[t][r] = Nil /\ Points(t, r, o) /\ Owes(t, Add(o))
  /\ live' = live \cup {o} /\ unpinned' = [unpinned EXCEPT ![o] = {}]
  /\ UNCHANGED <<count, cell, desired, does>>

(* operator=(Root const& ) ...                                             *)
Copy(t) == Begins(t) /\ \E r, s \in Local :
  /\ Points(t, r, root[t][s]) /\ Owes(t, Subtract(root[t][r]) \o Add(root[t][s]))
  /\ Aside

WrongMove(t) == Begins(t) /\ \E r, s \in Local :     (* the source is left *)
  /\ Points(t, r, root[t][s]) /\ Owes(t, Subtract(root[t][r]))
  /\ Aside

(* ... and operator=(Root&& ), which may be given itself.                  *)
Move(t) == Begins(t) /\ \E r, s \in Local :
  /\ root' = [root EXCEPT ![t] = [@ EXCEPT ![r] = root[t][s], ![s] = Nil]]
  /\ Owes(t, Subtract(root[t][r]))
  /\ Aside

(* ~Root, or operator=(nullptr_t).                                         *)
Drop(t) == Begins(t) /\ \E r \in Local :
  Points(t, r, Nil) /\ Owes(t, Subtract(root[t][r])) /\ Aside

(* load: what was read is counted afterwards, and moved into a Root.       *)
Load(t) == Begins(t) /\ \E r \in Local :
  Points(t, r, cell) /\ Owes(t, Add(cell) \o Subtract(root[t][r])) /\ Aside

(* The argument of the others is a copy of a Root, or a Root moved there.  *)
Offer(t) == Begins(t) /\ \E r, s \in Local, op \in {"store", "exchange", "compare_exchange"} :
  /\ desired' = [desired EXCEPT ![t] = root[t][s]]
  /\ does' = [does EXCEPT ![t] = [op |-> op, at |-> r]]
  /\ \/ Owes(t, Add(root[t][s])) /\ UNCHANGED root
     \/ Owes(t, << >>) /\ Points(t, s, Nil)
  /\ UNCHANGED cell /\ Keeps

Done(t) ==
  /\ does' = [does EXCEPT ![t] = [op |-> "none", at |-> CHOOSE r \in Local : TRUE]]
  /\ desired' = [desired EXCEPT ![t] = Nil]
  /\ UNCHANGED operations /\ Keeps
Ready(t, op) == does[t].op = op /\ owed[t] = << >>

Store(t) ==
  /\ Ready(t, "store") /\ Done(t)
  /\ cell' = desired[t] /\ Owes(t, Subtract(cell)) /\ UNCHANGED root

(* The count the cell held is the caller's now. *)
Exchange(t) == Ready(t, "exchange") /\ Done(t) /\ LET r == does[t].at IN
  /\ cell' = desired[t] /\ Points(t, r, cell) /\ Owes(t, Subtract(root[t][r]))

WrongCompareExchange(t) == Ready(t, "compare_exchange") /\ Done(t) /\ LET r == does[t].at IN
  \/ /\ cell = root[t][r] /\ cell' = desired[t]
     /\ Owes(t, << >>) /\ UNCHANGED root
  \/ /\ UNCHANGED cell /\ Points(t, r, cell)
     /\ Owes(t, Subtract(root[t][r]) \o Add(cell) \o Subtract(desired[t]))

(* The expected Root keeps its count and the cell's is given up; or it is  *)
(* assigned what is there, and the argument is destroyed.  The weak form   *)
(* fails as it likes.                                                      *)
CompareExchange(t) == Ready(t, "compare_exchange") /\ Done(t) /\ LET r == does[t].at IN
  \/ /\ cell = root[t][r] /\ cell' = desired[t]
     /\ Owes(t, Subtract(root[t][r])) /\ UNCHANGED root
  \/ /\ UNCHANGED cell /\ Points(t, r, cell)
     /\ Owes(t, Subtract(root[t][r]) \o Add(cell) \o Subtract(desired[t]))

(* Between operations. *)
Repin(t) ==
  /\ Idle(t) /\ unpinned' = [o \in Object |-> unpinned[o] \cup {t}]
  /\ UNCHANGED <<count, root, cell, owed, desired, does, live, operations>>

Free(o) ==
  /\ o \in live /\ count[o] = 0 /\ unpinned[o] = Thread
  /\ live' = live \ {o}
  /\ UNCHANGED <<count, root, cell, owed, desired, does, unpinned, operations>>

(* Atomic(Root): an object is shared from the start. *)
Init ==
  /\ cell = CHOOSE o \in Object : TRUE
  /\ live = {cell} /\ count = [o \in Object |-> IF o = cell THEN 1 ELSE 0] /\ root = [t \in Thread |-> [r \in Local |-> Nil]]
  /\ owed = [t \in Thread |-> << >>] /\ desired = [t \in Thread |-> Nil]
  /\ does = [t \in Thread |-> [op |-> "none", at |-> CHOOSE r \in Local : TRUE]]
  /\ unpinned = [o \in Object |-> IF o = cell THEN {} ELSE Thread] /\ operations = 0

Next ==
  \/ \E t \in Thread :
       \/ Settle(t) \/ New(t) \/ Copy(t) \/ Move(t) \/ Drop(t) \/ Load(t) \/ Offer(t)
       \/ Store(t) \/ Exchange(t) \/ CompareExchange(t) \/ Repin(t)
  \/ \E o \in Object : Free(o)
Spec == Init /\ [][Next]_vars
-----------------------------------------------------------------------------
Holders(o) ==
  Cardinality({<<t, r>> \in Thread \X Local : root[t][r] = o})
  + Cardinality({t \in Thread : desired[t] = o}) + (IF cell = o THEN 1 ELSE 0)
Unsettled(o) ==
  FoldSet(LAMBDA t, n : n + FoldLeft(LAMBDA x, c : x + (IF c.object = o THEN c.by ELSE 0), 0, owed[t]), 0, Thread)

(* Counts and roots differ by what threads still owe, and by no more:      *)
(* nothing is counted for ever or forgotten, whoever raced whom.           *)
CountsSettle == \A o \in Object : count[o] >= 0 /\ count[o] + Unsettled(o) = Holders(o)

(* What a thread can follow is there, though its count was zero when the   *)
(* thread read it.                                                         *)
NothingDangles == \A o \in Object \ live : Holders(o) = 0 /\ Unsettled(o) = 0

RootsSound == CountsSettle /\ NothingDangles
=============================================================================
