---------------------------- MODULE EpochAllocator ----------------------------
(***************************************************************************)
(* The epoch allocator of core/epoch_allocator.hpp over the epoch service: *)
(* a thread allocates from its head list of slabs, keeps SIZE retired      *)
(* lists, and each time it observes a new epoch swaps the head with the    *)
(* oldest retired list and restarts it.  Restarting a list reuses (and     *)
(* poisons) the memory of everything that was ever allocated from it.      *)
(*                                                                         *)
(* `witness' is a history variable: for each list, the holders that had a  *)
(* pin when something was allocated from the list and have not released    *)
(* that pin since.  Any of them may still hold a pointer into the list.    *)
(***************************************************************************)
EXTENDS Epoch

CONSTANT Allocator   (* the threads whose slabs are tracked *)

(* A portable pin is not a thread's own. *)
ASSUME AllocatorAssumption == Allocator \subseteq Thread /\ Thread \cap Guard = {}

(* Wrong: a list rests for one advance only. *)
WrongSIZE == 1

(* The number of retired lists a thread keeps. *)
SIZE == 3

Lists == 0 .. SIZE

VARIABLES
  head,        (* the list a thread allocates from *)
  alternates,  (* its retired lists, the next to be reused first *)
  witness      (* history: the pins that may reach into a list *)

avars == <<vars, head, alternates, witness>>

AInit ==
  /\ Init
  /\ head = [t \in Allocator |-> 0]
  /\ alternates = [t \in Allocator |-> [i \in 1 .. SIZE |-> i]]
  /\ witness = [t \in Allocator |-> [l \in Lists |-> {}]]

(* Wrong: the list that becomes the head is also kept as retired. *)
WrongUpdateWith ==
  LET observes(t) == known'[t] # known[t] IN
  /\ head' = [t \in Allocator |-> IF observes(t) THEN alternates[t][1] ELSE head[t]]
  /\ alternates' = [t \in Allocator |-> IF observes(t)
       THEN [i \in 1 .. SIZE |-> alternates[t][IF i < SIZE THEN i + 1 ELSE 1]]
       ELSE alternates[t]]

(* LocalState::_update_with after an operation of the service: swap the    *)
(* head with the first alternate, then rotate the alternates left by one.  *)
UpdateWith ==
  LET observes(t) == known'[t] # known[t]
      rotated(t) == [i \in 1 .. SIZE |-> IF i < SIZE THEN alternates[t][i + 1] ELSE head[t]]
  IN /\ head' = [t \in Allocator |-> IF observes(t) THEN alternates[t][1] ELSE head[t]]
     /\ alternates' = [t \in Allocator |-> IF observes(t) THEN rotated(t) ELSE alternates[t]]

Released(h) == [t \in Allocator |-> [l \in Lists |-> witness[t][l] \ {h}]]

(* LocalState::pin, or a portable pin. *)
APin(h) == Pin(h) /\ UpdateWith /\ UNCHANGED witness

(* The portable pin continues the pin it was made from: what h may reach,  *)
(* g may reach.                                                            *)
APinExplicit(g, h) ==
  /\ PinExplicit(g, h) /\ UpdateWith
  /\ witness' = [t \in Allocator |-> [l \in Lists |->
                   IF h \in witness[t][l] THEN witness[t][l] \cup {g}
                                          ELSE witness[t][l]]]

(* LocalState::unpin and repin end the pin h had. *)
AUnpin(h) == Unpin(h) /\ UpdateWith /\ witness' = Released(h)

ARepin(t) == Repin(t) /\ UpdateWith /\ witness' = Released(t)

(* The collector repins, and then waits. *)
ARepinAndWait(w) == RepinAndWait(w) /\ UpdateWith /\ witness' = Released(w)

(* The wait and the wake-ups are the service's alone. *)
AWait(h) ==
  /\ NotifyAll(h) \/ (h \in Waiter /\ (WaitReturn(h) \/ WaitMark(h) \/ WaitSleep(h)))
  /\ UNCHANGED <<head, alternates, witness>>

(* epoch::allocate: from here on whoever has a pin may be handed the object. *)
Allocate(t) ==
  /\ t \in is_pinned /\ Idle(t)
  /\ witness' = [witness EXCEPT ![t][head[t]] = @ \cup is_pinned]
  /\ UNCHANGED <<vars, head, alternates>>

ANext ==
  \/ \E h \in Holder : APin(h) \/ AUnpin(h) \/ AWait(h)
  \/ \E t \in Thread : ARepin(t)
  \/ \E w \in Waiter : ARepinAndWait(w)
  \/ \E g \in Guard, h \in Holder : APinExplicit(g, h)
  \/ \E t \in Allocator : Allocate(t)

ASpec == AInit /\ [][ANext]_avars
------------------------------------------------------------------------------
(* A thread's lists are a permutation: no list is lost or duplicated by    *)
(* the rotation.                                                           *)
ATypeOK ==
  /\ head \in [Allocator -> Lists]
  /\ alternates \in [Allocator -> [1 .. SIZE -> Lists]]
  /\ witness \in [Allocator -> [Lists -> SUBSET Holder]]
  /\ \A t \in Allocator : \A i \in 1 .. SIZE :
       /\ alternates[t][i] # head[t]
       /\ \A j \in 1 .. SIZE : alternates[t][i] = alternates[t][j] => i = j

(* The embargo: a list is restarted only when every pin, of a thread or of *)
(* a coroutine, that was held while something was allocated from it has    *)
(* been released.                                                          *)
Embargo ==
  [][\A t \in Allocator :
       head'[t] # head[t] => witness'[t][head'[t]] = {}]_avars
==============================================================================
