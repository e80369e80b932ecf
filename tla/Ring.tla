-------------------------------- MODULE Ring --------------------------------
(***************************************************************************)
(* The ring of the registered threads (core/thread_public.cpp and .hpp): a *)
(* circular list that a thread enters behind the sentinel and leaves by    *)
(* marking its own link; whoever walks the ring unlinks what is marked.    *)
(*                                                                         *)
(* Every access to a shared link is a step.  The collector keeps a node    *)
(* while a walker holds it, so that no node's address is used again.       *)
(***************************************************************************)
EXTENDS Integers, FiniteSets, SequencesExt

CONSTANTS Thread, Walker, Sentinel

VARIABLES
  link,      (* _next of each node and of the sentinel: [ptr, marked]        *)
  place,     (* of each thread: where it is in its registration              *)
  seen,      (* the link each thread expects                                 *)
  walk       (* of each walker: [pc, pred, cur, ahead, visited], and what    *)
             (* the ring was like when it began: [live, alone]               *)

vars == <<link, place, seen, walk>>

To(n) == [ptr |-> n, marked |-> FALSE]
Nowhere == [pc |-> "idle", pred |-> Sentinel, cur |-> Sentinel, ahead |-> Sentinel,
            visited |-> << >>, live |-> {}, alone |-> TRUE]

Init ==
  /\ link = [n \in Thread \cup {Sentinel} |-> To(Sentinel)]
  /\ place = [t \in Thread |-> "unregistered"]
  /\ seen = [t \in Thread |-> To(Sentinel)]
  /\ walk = [w \in Walker |-> Nowhere]

Live == {t \in Thread : place[t] \in {"registered", "leaving"}}
Disturb(S) == [w \in Walker |-> [walk[w] EXCEPT !.alone = @ /\ w \notin S]]
-----------------------------------------------------------------------------
(* thread_public_register: the sentinel's link, then the exchange; the     *)
(* node is private until then.                                             *)
Register(t) ==
  /\ place[t] = "unregistered"
  /\ seen' = [seen EXCEPT ![t] = link[Sentinel]]
  /\ place' = [place EXCEPT ![t] = "entering"]
  /\ UNCHANGED <<link, walk>>

Enter(t) ==
  /\ place[t] = "entering"
  /\ IF link[Sentinel] = seen[t]
       THEN /\ link' = [link EXCEPT ![t] = To(seen[t].ptr), ![Sentinel] = To(t)]
            /\ place' = [place EXCEPT ![t] = "registered"]
            /\ walk' = Disturb(Walker)
            /\ UNCHANGED seen
       ELSE seen' = [seen EXCEPT ![t] = link[Sentinel]] /\ UNCHANGED <<link, place, walk>>

(* thread_public_deregister: only the owner marks, but an unlink of its    *)
(* successor may come in between.                                          *)
Deregister(t) ==
  /\ place[t] = "registered"
  /\ seen' = [seen EXCEPT ![t] = link[t]]
  /\ place' = [place EXCEPT ![t] = "leaving"]
  /\ UNCHANGED <<link, walk>>

Retire(t) ==
  /\ place[t] = "leaving"
  /\ IF link[t] = seen[t]
       THEN /\ link' = [link EXCEPT ![t].marked = TRUE]
            /\ place' = [place EXCEPT ![t] = "retired"]
            /\ walk' = Disturb(Walker)
            /\ UNCHANGED seen
       ELSE seen' = [seen EXCEPT ![t] = link[t]] /\ UNCHANGED <<link, place, walk>>
-----------------------------------------------------------------------------
(* thread_public_for_each.                                                 *)
Begin(w) ==
  /\ walk[w].pc = "idle"
  /\ walk' = [v \in Walker |->
       IF v = w THEN [Nowhere EXCEPT !.pc = "walking", !.cur = link[Sentinel].ptr, !.live = Live,
                                     !.alone = \A u \in Walker : walk[u].pc \in {"idle", "done"}]
       ELSE [walk[v] EXCEPT !.alone = FALSE]]
  /\ UNCHANGED <<link, place, seen>>

Step(w) ==
  LET me == walk[w]
      next == link[me.cur] IN
  /\ me.pc = "walking" /\ me.cur # Sentinel
  /\ walk' = [walk EXCEPT ![w] =
       IF next.marked THEN [me EXCEPT !.pc = "unlinking", !.ahead = next.ptr]
       ELSE [me EXCEPT !.visited = Append(@, me.cur), !.pred = me.cur, !.cur = next.ptr]]
  /\ UNCHANGED <<link, place, seen>>

(* Operators whose name begins with Wrong are mistakes the code could have  *)
(* made; nothing uses them.  Here the unlinking is a plain store.          *)
WrongUnlink(w) ==
  LET me == walk[w] IN
  /\ me.pc = "unlinking"
  /\ link' = [link EXCEPT ![me.pred] = To(me.ahead)]
  /\ walk' = [walk EXCEPT ![w] = [me EXCEPT !.pc = "walking", !.cur = me.ahead]]
  /\ UNCHANGED <<place, seen>>

(* A failed exchange steps through the retired node.                       *)
Unlink(w) ==
  LET me == walk[w]
      on == [me EXCEPT !.pc = "walking", !.cur = me.ahead] IN
  /\ me.pc = "unlinking"
  /\ IF link[me.pred] = To(me.cur)
       THEN /\ link' = [link EXCEPT ![me.pred] = To(me.ahead)]
            /\ walk' = [walk EXCEPT ![w] = on]
       ELSE /\ walk' = [walk EXCEPT ![w] = [on EXCEPT !.pred = me.cur]]
            /\ UNCHANGED link
  /\ UNCHANGED <<place, seen>>

Finish(w) ==
  /\ walk[w].pc = "walking" /\ walk[w].cur = Sentinel
  /\ walk' = [walk EXCEPT ![w].pc = "done"]
  /\ UNCHANGED <<link, place, seen>>

Finished ==
  /\ \A t \in Thread : place[t] = "retired"
  /\ \A w \in Walker : walk[w].pc = "done"
  /\ UNCHANGED vars

Next ==
  \/ Finished
  \/ \E t \in Thread : Register(t) \/ Enter(t) \/ Deregister(t) \/ Retire(t)
  \/ \E w \in Walker : Begin(w) \/ Step(w) \/ Unlink(w) \/ Finish(w)

Spec == Init /\ [][Next]_vars
-----------------------------------------------------------------------------
(* The nodes in the order of the ring.                                     *)
InRing ==
  LET from[k \in 0 .. Cardinality(Thread)] ==
        IF k = 0 THEN {Sentinel} ELSE from[k - 1] \cup {link[n].ptr : n \in from[k - 1]}
  IN from[Cardinality(Thread)]

(* Whoever registers, leaves or walks meanwhile, no unlinking takes a      *)
(* registered thread out of the ring, and a walk visits every thread that  *)
(* was registered all along, none twice, and none that it did not find     *)
(* registered or registering.                                              *)
WalksVisitTheLiving ==
  /\ Live \subseteq InRing
  /\ \A w \in Walker :
       /\ IsInjective(walk[w].visited)
       /\ walk[w].pc = "done" => (walk[w].live \cap Live) \subseteq ToSet(walk[w].visited)

(* A walk that had the ring to itself leaves no retired thread in it: the  *)
(* nodes that threads leave behind do not pile up.                         *)
WalksClean ==
  \A w \in Walker : walk[w].pc = "walking" /\ walk[w].cur = Sentinel /\ walk[w].alone =>
    \A n \in InRing \ {Sentinel} : ~link[n].marked

(* The walks of the ring, whoever comes and goes.                          *)
RingSound == WalksVisitTheLiving /\ WalksClean
=============================================================================
