----------------------------- MODULE SaveFormat -----------------------------
(***************************************************************************)
(* A world as a file (io/save_format.cpp): the objects it reaches, each    *)
(* once, as flat records in post-order, where a record's position is its   *)
(* name, and back.                                                         *)
(*                                                                         *)
(* An object has a kind and references to objects that are older than      *)
(* itself, as persistent structures have: a term on the heap, a cell of a  *)
(* machine's stack, a node of a trie, an entity.  The world itself refers  *)
(* to its maps and keeps a clock, the entities that are ready now and the  *)
(* wheel of those that wait for a later time.                              *)
(***************************************************************************)
EXTENDS Integers, FiniteSets, SequencesExt, FiniteSetsExt, Functions

CONSTANTS Entity, None,
          OBJECTS, TIMES   (* bounds on the objects and the clock            *)

Null == 0                  (* a null reference, on the heap and in the file  *)
Kind == {"leaf", "pair"}

VARIABLES
  heap,            (* the objects, oldest first                              *)
  maps,            (* the two references of the world                        *)
  time, ready, waiting_on_time,
  stream,          (* the file                                               *)
  loaded           (* the world that was loaded from it                      *)

world == <<heap, maps, time, ready, waiting_on_time>>
vars == <<world, stream, loaded>>

Init ==
  /\ heap = << >> /\ maps = <<Null, Null>>
  /\ time = 0 /\ ready = {} /\ waiting_on_time = {}
  /\ stream = None /\ loaded = None
-----------------------------------------------------------------------------
(* The world, as a game brings it about.                                   *)
Reference == Null .. Len(heap)
Refs(kind) == IF kind = "leaf" THEN {<< >>} ELSE Reference \X Reference

Allocate ==
  /\ stream = None /\ Len(heap) < OBJECTS
  /\ \E kind \in Kind : \E refs \in Refs(kind) : heap' = Append(heap, [kind |-> kind, refs |-> refs])
  /\ UNCHANGED <<maps, time, ready, waiting_on_time, stream, loaded>>

Sleep ==
  /\ stream = None
  /\ \E e \in Entity, t \in time + 1 .. TIMES :
       waiting_on_time' = waiting_on_time \cup {<<t, e>>}
  /\ UNCHANGED <<heap, maps, time, ready, stream, loaded>>

Tick ==
  /\ stream = None /\ time < TIMES /\ time' = time + 1
  /\ ready' = {w[2] : w \in {x \in waiting_on_time : x[1] = time + 1}}
  /\ waiting_on_time' = {w \in waiting_on_time : w[1] > time + 1}
  /\ UNCHANGED <<heap, maps, stream, loaded>>
-----------------------------------------------------------------------------
(* Saver::visit, with what it has written so far: [seen, records, next].   *)
(* An object's record follows those of its children, because the record is *)
(* appended when its body is closed.                                       *)
Record(s, p) ==
  [kind |-> heap[p].kind,
   refs |-> [i \in 1 .. Len(heap[p].refs) |->
               IF heap[p].refs[i] = Null THEN Null ELSE s.seen[heap[p].refs[i]]]]

(* The number is drawn when the record is opened.                          *)
RECURSIVE WrongVisit(_, _)
WrongVisit(s, p) ==
  IF p = Null \/ p \in DOMAIN s.seen THEN s
  ELSE LET opened == [s EXCEPT !.seen = [q \in DOMAIN @ \cup {p} |-> IF q = p THEN s.next ELSE @[q]],
                               !.next = @ + 1]
           within == FoldLeft(WrongVisit, opened, heap[p].refs)
       IN [within EXCEPT !.records = Append(@, Record(within, p))]

RECURSIVE Visit(_, _)
Visit(s, p) ==
  IF p = Null \/ p \in DOMAIN s.seen THEN s
  ELSE LET within == FoldLeft(Visit, s, heap[p].refs) IN
       [seen |-> [q \in DOMAIN within.seen \cup {p} |-> IF q = p THEN within.next ELSE within.seen[q]],
        records |-> Append(within.records, Record(within, p)),
        next |-> within.next + 1]

(* World::_save_body: the ready set is folded into the wheel.              *)
Folded == waiting_on_time \cup {<<time, e>> : e \in ready}

Written(roots) ==
  LET s == FoldLeft(Visit, [seen |-> << >>, records |-> << >>, next |-> 1], roots) IN
  [records |-> s.records, seen |-> s.seen,
   maps |-> [i \in DOMAIN roots |-> IF roots[i] = Null THEN Null ELSE s.seen[roots[i]]],
   time |-> time, wheel |-> Folded]

Save ==
  /\ stream = None
  /\ \E roots \in Reference \X Reference : maps' = roots /\ stream' = Written(roots)
  /\ UNCHANGED <<heap, time, ready, waiting_on_time, loaded>>

(* Loader::load_world: records are made one after the other, and their     *)
(* references resolved at once, to what has been made so far.              *)
Resolve(ptrs, ref) == IF ref \in 1 .. Len(ptrs) THEN ref ELSE Null
Read(records) ==
  FoldLeft(LAMBDA ptrs, r : Append(ptrs, [r EXCEPT !.refs = [i \in DOMAIN @ |-> Resolve(ptrs, @[i])]]),
           << >>, records)

(* hack_repair_invariant: what waits for the present becomes ready again.  *)
Repaired(w) ==
  LET due == {x \in w.waiting_on_time : x[1] = w.time}
      front == CHOOSE x \in w.waiting_on_time : \A y \in w.waiting_on_time : x[1] <= y[1] IN
  IF w.waiting_on_time # {} /\ front[1] = w.time
    THEN [w EXCEPT !.ready = {x[2] : x \in due}, !.waiting_on_time = @ \ due]
  ELSE w

Load ==
  /\ stream # None /\ loaded = None
  /\ loaded' = Repaired([heap |-> Read(stream.records), maps |-> stream.maps, time |-> stream.time,
                         ready |-> {}, waiting_on_time |-> stream.wheel])
  /\ UNCHANGED <<world, stream>>

Finished == loaded # None /\ UNCHANGED vars
Next == Allocate \/ Sleep \/ Tick \/ Save \/ Load \/ Finished
Spec == Init /\ [][Next]_vars
-----------------------------------------------------------------------------
RECURSIVE Reached(_)
Reached(p) ==
  IF p = Null THEN {} ELSE {p} \cup UNION {Reached(heap[p].refs[i]) : i \in DOMAIN heap[p].refs}

(* What was loaded is what was saved: the same objects, shared where they  *)
(* were shared and none twice, the same maps, and the same wake-ups at the *)
(* same times, with none left for a time that has passed.                  *)
WorldSurvives ==
  loaded # None =>
    LET Name(p) == IF p = Null THEN Null ELSE stream.seen[p]
        all == UNION {Reached(maps[i]) : i \in DOMAIN maps}
    IN
    /\ Len(loaded.heap) = Cardinality(all)
    /\ Cardinality({Name(p) : p \in all}) = Cardinality(all)
    /\ \A p \in all :
         loaded.heap[Name(p)] = [kind |-> heap[p].kind,
                                 refs |-> [i \in DOMAIN heap[p].refs |-> Name(heap[p].refs[i])]]
    /\ loaded.maps = [i \in DOMAIN maps |-> Name(maps[i])]
    /\ loaded.time = time /\ loaded.ready = ready /\ loaded.waiting_on_time = waiting_on_time
=============================================================================
