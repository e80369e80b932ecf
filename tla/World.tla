--------------------------------- MODULE World ---------------------------------
(***************************************************************************)
(* World::step of game/world.cpp: every ready entity proposes a            *)
(* transaction against the old world, the transactions are resolved, and   *)
(* the new world is rebuilt from those that committed.                     *)
(*                                                                         *)
(* The threads of a step meet only in the transactions, and Transaction    *)
(* shows that what they decide is a function of the proposals and of the   *)
(* priorities of the tick.  Here a step is therefore one action.  The      *)
(* priorities are a hash of the time and can come in any order, so the     *)
(* transactions that commit may be any set that Resolution allows: no two  *)
(* of them conflict, and every other one conflicts with one of them.       *)
(***************************************************************************)
EXTENDS Machine

CONSTANTS
  Worlds,      (* the starting worlds: the entities of each, by EntityID,  *)
               (* and its terms                                            *)
  Inputs,      (* the actions the player may submit                        *)
  QUEUE_MAX    (* model bound: actions submitted and not yet taken         *)

Stored == Term \cup {ABSENT}

MachineType ==
  [kind : {"Machine"}, phase : {"TRAVELLING", "WAITING_FOR_NEW"},
   on_arrival : Opcode \cup {"NOOP"}, stack : Seq(Term \ {EMPTY}), new_heading : 0 .. 3,
   old_location : Coordinate, new_location : Coordinate, eta : 0 .. TRAVEL]
SourceType == [kind : {"Source"}, location : Coordinate, of : Term]
FixedType == [kind : {"Sink", "Counter", "Evenator"}, location : Coordinate]
SpawnerType == [kind : {"Spawner"}, location : Coordinate, free_entity_id : ID \cup {NoID}]
Entity == MachineType \cup SourceType \cup FixedType \cup SpawnerType \cup [kind : {"Player"}]

(* Where an entity stands: a machine at both ends of its hop, the player   *)
(* nowhere.                                                                *)
Cells(e) ==
  CASE e.kind = "Machine" -> {e.old_location, e.new_location}
    [] e.kind = "Player" -> {}
    [] OTHER -> {e.location}

(* A world that can be started or loaded: machines are at rest in a cell   *)
(* or between two, and no two of them share one; the EntityIDs that        *)
(* spawners hold in reserve are nobody's and differ.                       *)
Possible(w) ==
  LET kind(k) == {id \in DOMAIN w.entities : w.entities[id].kind = k}
      ticket(s) == w.entities[s].free_entity_id IN
  /\ DOMAIN w.entities \subseteq ID /\ w.entities \in [DOMAIN w.entities -> Entity]
  /\ w.terms \in [Coordinate -> Stored]
  /\ \A m \in kind("Machine") :
       w.entities[m].phase = "TRAVELLING" <=> w.entities[m].old_location # w.entities[m].new_location
  /\ \A m, n \in kind("Machine") : m # n => Cells(w.entities[m]) \cap Cells(w.entities[n]) = {}
  /\ \A s \in kind("Spawner") : ticket(s) \notin DOMAIN w.entities
  /\ \A s, t \in kind("Spawner") : s # t /\ ticket(s) # NoID => ticket(s) # ticket(t)

ASSUME WorldAssumption ==
  /\ IsFiniteSet(ID) /\ ID = 1 .. Cardinality(ID)
  /\ WIDTH \in Nat \ {0, 1} /\ HEIGHT \in Nat \ {0, 1} /\ TRAVEL \in Nat \ {0}
  /\ NoEntity \notin Entity /\ QUEUE_MAX \in Nat
  /\ Inputs \subseteq [coordinate : Coordinate, value : Term]
  /\ \A w \in Worlds : Possible(w)

-----------------------------------------------------------------------------
(* What the entities that stand still and the player propose when they are *)
(* notified: the notify() of game/spawner.cpp and game/player.cpp.         *)

(* Source: it writes where the map has no entry. *)
SourceTx(id) ==
  LET at == entity[id].location IN
  [Nothing EXCEPT !.value =
     {WaitOnValue(at, WAIT_ALWAYS)} \cup
     (IF value[at] = ABSENT THEN {Write(at, entity[id].of)} ELSE {})]

(* Sink: it empties an entry, an empty one too. *)
SinkTx(id) ==
  LET at == entity[id].location IN
  [Nothing EXCEPT !.value =
     {WaitOnValue(at, WAIT_ALWAYS)} \cup
     (IF value[at] # ABSENT THEN {Write(at, EMPTY)} ELSE {})]

(* Term + 1: only a number has a successor. *)
Successor(v) == IF v \in Range(Integer) THEN Int4(AsInt(v) + 1) ELSE ERROR

(* Counter: it increments its cell, unless matter is parked on it. *)
CounterTx(id) ==
  LET at == entity[id].location
      v == IF value[at] = ABSENT THEN "0" ELSE value[at] IN
  [Nothing EXCEPT
     !.value = IF v = MATTER THEN {} ELSE {Write(at, Successor(v))},
     !.time = {OnCommitSleepFor(1, id), OnAbortRetry(id)}]

(* Evenator: it makes an odd value even and watches the others. *)
EvenatorTx(id) ==
  LET at == entity[id].location IN
  IF value[at] \in {"1", "3"}
    THEN [Nothing EXCEPT
            !.value = {Node(at, Successor(value[at]), {WRITE_ON_COMMIT, COMMITTED})},
            !.time = {OnAbortRetry(id)}]
    ELSE [Nothing EXCEPT !.value = {WaitOnValue(at, WAIT_ALWAYS)}]

(* The machine a Spawner makes: at rest, and with nothing in hand. *)
NewMachine(at) ==
  [kind |-> "Machine", phase |-> "WAITING_FOR_NEW", on_arrival |-> "NOOP",
   stack |-> << >>, new_heading |-> 0, old_location |-> at, new_location |-> at,
   eta |-> 0]

(* Spawner: it gets itself an EntityID, then puts a machine in its cell    *)
(* and gets itself another, or waits for the cell.                         *)
SpawnerTx(id) ==
  LET me == entity[id]
      at == me.location
      born == me.free_entity_id
      again == [Nothing EXCEPT
                  !.entity = {Write(id, [me EXCEPT !.free_entity_id = NoID])},
                  !.time = {OnCommitSleepFor(1, id)},
                  !.requested = 1] IN
  CASE born = NoID -> again
    [] born # NoID /\ occupant[at] = NoID ->
         [again EXCEPT
            !.entity = @ \cup {Write(born, NewMachine(at))},
            !.occupant = {Write(at, born)},
            !.located = {Write(at, located[at] \cup {born})},
            !.time = @ \cup {OnCommitSleepFor(1, born)}]
    [] OTHER ->
         [Nothing EXCEPT !.occupant = {Node(at, NoID, WAIT_ALWAYS)}]

(* Player: it asks for the next tick and acts on the front of its queue. *)
PlayerTx(id) ==
  [Nothing EXCEPT
     !.time = {OnCommitSleepFor(1, id)},
     !.value = IF queue = << >> THEN {}
               ELSE {Write(Head(queue).coordinate, Head(queue).value)}]
-----------------------------------------------------------------------------
vars == <<ready, waiting_on_time, entity, value, occupant, located,
          waiter_on_value, waiter_on_occupant, entity_id_source, queue>>

Live == {id \in ID : entity[id] # NoEntity}
Machines == {id \in Live : entity[id].kind = "Machine"}
Of(kind) == {id \in Live : entity[id].kind = kind}

(* A starting world.  Everybody is ready but the machines on the road,     *)
(* which have an appointment at their arrival.  Machines occupy both ends  *)
(* of their hop, and everybody but the player is located.                  *)
InitFrom(w) ==
  LET Everybody == DOMAIN w.entities
      kind(k) == {id \in Everybody : w.entities[id].kind = k}
      Standing(c) == {id \in Everybody : c \in Cells(w.entities[id])}
      OnTheRoad == {id \in kind("Machine") : w.entities[id].phase = "TRAVELLING"
                                             /\ w.entities[id].eta > 0}
      Issued == Everybody \cup {w.entities[id].free_entity_id : id \in kind("Spawner")} IN
  /\ ready = Everybody \ OnTheRoad
  /\ waiting_on_time = {<<w.entities[id].eta, id>> : id \in OnTheRoad}
  /\ entity = [id \in ID |-> IF id \in Everybody THEN w.entities[id] ELSE NoEntity]
  /\ value = w.terms
  /\ occupant = [c \in Coordinate |-> Max((Standing(c) \cap kind("Machine")) \cup {NoID})]
  /\ located = [c \in Coordinate |-> Standing(c)]
  /\ waiter_on_value = [c \in Coordinate |-> {}]
  /\ waiter_on_occupant = [c \in Coordinate |-> {}]
  /\ entity_id_source = 1 + Max(Issued \cup {NoID})
  /\ queue = << >>

Init == \E w \in Worlds : InitFrom(w)

(* Entity::notify *)
Notify(id) ==
  CASE entity[id].kind = "Machine" -> MachineTx(id)
    [] entity[id].kind = "Source" -> SourceTx(id)
    [] entity[id].kind = "Sink" -> SinkTx(id)
    [] entity[id].kind = "Counter" -> CounterTx(id)
    [] entity[id].kind = "Evenator" -> EvenatorTx(id)
    [] entity[id].kind = "Spawner" -> SpawnerTx(id)
    [] entity[id].kind = "Player" -> PlayerTx(id)

------------------------------------------------------------------------------
(* Resolution. *)

Maps == {"value", "occupant", "located", "entity"}
Writes(nodes) == {n.key : n \in {m \in nodes : WRITE_ON_COMMIT \in m.op}}

(* Operators whose name begins with Wrong are mistakes the code could have  *)
(* made.  Nothing uses them: each stands before the definition it would    *)
(* replace, and shows that a property notices.                             *)

(* Only writes of values exclude each other. *)
WrongConflict(s, t) == Writes(s.value) \cap Writes(t.value) # {}

Conflict(s, t) == \E p \in Maps : Writes(s[p]) \cap Writes(t[p]) # {}

Resolves(tx, committed) ==
  /\ \A i, j \in committed : i # j => ~Conflict(tx[i], tx[j])
  /\ \A i \in ready \ committed : \E j \in committed : Conflict(tx[i], tx[j])

------------------------------------------------------------------------------
(* The rebuild of one map: the nodes at a key, each with its proposer, and *)
(* what becomes of the key's value, of its waiters, and who is woken.      *)
At(tx, p, k) == UNION {{id} \X {n \in tx[id][p] : n.key = k} : id \in ready}

Writers(tx, p, k, committed) ==
  {x \in At(tx, p, k) : x[1] \in committed /\ WRITE_ON_COMMIT \in x[2].op}

State(id, committed) == IF id \in committed THEN COMMITTED ELSE ABORTED

Waiters(tx, p, k, committed) ==
  {x[1] : x \in {y \in At(tx, p, k) \ Writers(tx, p, k, committed) :
                   State(y[1], committed) \in y[2].op}}

Rebuilt(tx, p, k, committed, old) ==
  LET w == Writers(tx, p, k, committed) IN
  IF w = {} THEN old ELSE (CHOOSE x \in w : TRUE)[2].desired

(* A write takes all waiters off, its own wait included. *)
WrongRebuiltWaiters(tx, p, k, committed, old) ==
  IF Writers(tx, p, k, committed) = {} THEN old \cup Waiters(tx, p, k, committed) ELSE {}

RebuiltWaiters(tx, p, k, committed, old) ==
  LET w == Writers(tx, p, k, committed) IN
  IF w = {} THEN old \cup Waiters(tx, p, k, committed)
            ELSE {x[1] : x \in {y \in w : COMMITTED \in y[2].op}}

(* Whoever waits from this tick on misses the write of this tick. *)
WrongWoken(tx, p, k, committed, old) ==
  IF Writers(tx, p, k, committed) = {} THEN {} ELSE old

Woken(tx, p, k, committed, old) ==
  IF Writers(tx, p, k, committed) = {} THEN {}
  ELSE old \cup Waiters(tx, p, k, committed)

(* Appointments: those kept for a time, and the wait or retry just made.   *)
Appointments(tx, committed) ==
  waiting_on_time \cup
  {<<x[2].key, x[2].desired>> :
     x \in {y \in UNION {{id} \X tx[id].time : id \in ready} :
              State(y[1], committed) \in y[2].op}}

------------------------------------------------------------------------------
(* notify_and_accumulate and try_lookup_cumulant: the EntityIDs are handed *)
(* out in the order of the ready set, and delivered to the successor that  *)
(* the requester installs.                                                 *)
Asked(tx, S) == UNION {{id} \X (1 .. tx[id].requested) : id \in S}

WrongCumulant(tx, id) == Cardinality(Asked(tx, {j \in ready : j <= id}))

Cumulant(tx, id) == Cardinality(Asked(tx, {j \in ready : j < id}))

Requested(tx) == Cardinality(Asked(tx, ready))

Deliver(tx, id, e) ==
  IF id \in ready /\ tx[id].requested > 0
    THEN [e EXCEPT !.free_entity_id = entity_id_source + Cumulant(tx, id)]
    ELSE e

(* A tick passes for the machines that travel. *)
Elapse(e) ==
  IF e # NoEntity /\ e.kind = "Machine" /\ e.eta > 0 THEN [e EXCEPT !.eta = @ - 1] ELSE e

(* The leaf actions of the four maps: an entity is delivered what it asked *)
(* for by the write that installs it.                                      *)
Values(tx, committed) == [c \in Coordinate |-> Rebuilt(tx, "value", c, committed, value[c])]
Occupants(tx, committed) == [c \in Coordinate |-> Rebuilt(tx, "occupant", c, committed, occupant[c])]
Locations(tx, committed) == [c \in Coordinate |-> Rebuilt(tx, "located", c, committed, located[c])]
Entities(tx, committed) ==
  [id \in ID |->
     IF Writers(tx, "entity", id, committed) = {} THEN Elapse(entity[id])
     ELSE Elapse(Deliver(tx, id, Rebuilt(tx, "entity", id, committed, NoEntity)))]

(* Model bound on the source.  No run reaches it: a step that would is no  *)
(* step, and TLC would report the deadlock.                                *)
LAST == Cardinality(ID) + 1

(* The rebuild, when the transactions committed commit.                    *)
Rebuild(tx, committed) ==
  /\ entity_id_source + Requested(tx) <= LAST
  /\ value' = Values(tx, committed) /\ occupant' = Occupants(tx, committed)
  /\ located' = Locations(tx, committed) /\ entity' = Entities(tx, committed)
  /\ waiter_on_value' = [c \in Coordinate |->
       RebuiltWaiters(tx, "value", c, committed, waiter_on_value[c])]
  /\ waiter_on_occupant' = [c \in Coordinate |->
       RebuiltWaiters(tx, "occupant", c, committed, waiter_on_occupant[c])]
  /\ LET due == Appointments(tx, committed) IN
     /\ ready' = {a[2] : a \in {b \in due : b[1] = 1}}
          \cup (UNION {Woken(tx, "value", c, committed, waiter_on_value[c]) : c \in Coordinate})
          \cup (UNION {Woken(tx, "occupant", c, committed, waiter_on_occupant[c]) : c \in Coordinate})
     /\ waiting_on_time' = {<<a[1] - 1, a[2]>> : a \in {b \in due : b[1] > 1}}
  /\ entity_id_source' = entity_id_source + Requested(tx)
  /\ queue' = IF ready \cap Of("Player") = {} \/ queue = << >> THEN queue ELSE Tail(queue)

Step ==
  \E tx \in {[id \in ready |-> Notify(id)]}, committed \in SUBSET ready :
    Resolves(tx, committed) /\ Rebuild(tx, committed)

(* WorldState::update: a command of the server enters the player's queue. *)
Submit(input) ==
  /\ Of("Player") # {} /\ Len(queue) < QUEUE_MAX
  /\ queue' = Append(queue, input)
  /\ UNCHANGED <<ready, waiting_on_time, entity, value, occupant, located,
                 waiter_on_value, waiter_on_occupant, entity_id_source>>

Next == Step \/ \E input \in Inputs : Submit(input)

Spec == Init /\ [][Next]_vars

(* A frame steps the world, always. *)
FairSpec == Spec /\ WF_vars(Step)
------------------------------------------------------------------------------
TypeOK ==
  /\ ready \subseteq ID
  /\ waiting_on_time \subseteq (1 .. TRAVEL) \X ID
  /\ \A id \in ID : entity[id] = NoEntity \/ entity[id] \in Entity
  /\ value \in [Coordinate -> Stored]
  /\ occupant \in [Coordinate -> ID \cup {NoID}]
  /\ located \in [Coordinate -> SUBSET ID]
  /\ waiter_on_value \in [Coordinate -> SUBSET ID]
  /\ waiter_on_occupant \in [Coordinate -> SUBSET ID]
  /\ entity_id_source \in 1 .. LAST
  /\ queue \in Seq(Inputs) /\ Len(queue) <= QUEUE_MAX

(* No entity writes a key twice in one transaction, which both of its      *)
(* nodes would commit: the "assert(!writer)" of the rebuild, from within.  *)
WritesOnce ==
  \A id \in ready : \A p \in Maps : \A n, m \in Notify(id)[p] :
    n.key = m.key /\ WRITE_ON_COMMIT \in n.op \cap m.op => n = m

(* One node too few for a machine. *)
WrongCapacity(kind) ==
  CASE kind \in {"Machine", "Spawner"} -> 9
    [] kind \in {"Source", "Sink", "Player"} -> 2
    [] kind \in {"Counter", "Evenator"} -> 3

(* A transaction never has more nodes than the capacity its entity gave to *)
(* Transaction::make, which nothing checks: the array would be overrun.    *)
Capacity(kind) ==
  CASE kind \in {"Machine", "Spawner"} -> 10
    [] kind \in {"Source", "Sink", "Player"} -> 2
    [] kind \in {"Counter", "Evenator"} -> 3
WithinCapacity ==
  \A id \in ready :
    Cardinality(UNION {{p} \X Notify(id)[p] : p \in Maps \cup {"time"}})
      <= Capacity(entity[id].kind)

(* What an entity announces in a world its kind may be in is a transaction *)
(* the rebuild can take: see TypeOK, WritesOnce and WithinCapacity.        *)
WellFormed == TypeOK /\ WritesOnce /\ WithinCapacity

(* A machine occupies both ends of its hop until it lets go of them: the   *)
(* "assert(occupant == this->_entity_id)" of Machine::notify, and so no    *)
(* two machines are ever in a cell.                                        *)
Footing ==
  \A m \in Machines : occupant[entity[m].old_location] = m
                      /\ occupant[entity[m].new_location] = m

(* Location mirrors occupancy for machines, across claims, releases and    *)
(* spawns that race for the two maps of a cell, and the residents that     *)
(* occupy nothing are never swept out.                                     *)
LocatedMirrorsOccupancy ==
  \A c \in Coordinate :
    located[c] = {id \in Live \ Of("Player") :
                    IF id \in Machines THEN occupant[c] = id ELSE entity[id].location = c}

(* A machine holds no cell but the ends of its hop and the exit of the     *)
(* junction it is entering: "the claims release behind it as ordinary      *)
(* old-cell releases".                                                     *)
ClaimsAreReleased ==
  \A c \in Coordinate :
    LET m == occupant[c] IN
    m # NoID => c \in {entity[m].old_location, entity[m].new_location,
                       StepFrom(entity[m].new_location, entity[m].new_heading)}

(* A machine asleep at a cell could not go on if it were woken: whatever   *)
(* it waits for cannot have happened between its read and its wait.        *)
NoOversleeping ==
  \A m \in Machines :
    entity[m].phase = "WAITING_FOR_NEW" /\ m \notin ready /\ <<1, m>> \notin waiting_on_time
      => Plan(m).disposition # "PROCEED"

(* Who has something to be woken by. *)
Expected ==
  ready \cup {a[2] : a \in waiting_on_time}
        \cup UNION {waiter_on_value[c] \cup waiter_on_occupant[c] : c \in Coordinate}

(* Whatever commits or aborts, an entity that acts on the world has left   *)
(* itself a way to be woken again.                                         *)
NobodyIsForgotten == Live \ (Of("Player") \cup Of("Spawner")) \subseteq Expected

(* Location, occupancy and the claims tell the same story.                 *)
PlacesAgree == Footing /\ LocatedMirrorsOccupancy /\ ClaimsAreReleased

(* Nobody sleeps through what it waits for, and nobody is forgotten.       *)
WaitersHear == NoOversleeping /\ NobodyIsForgotten

(* EntityIDs are unique, also the ones that are held in reserve: no ticket *)
(* names a living entity or is held twice, and the source is beyond all.   *)
TicketsAreFresh ==
  LET holders == {s \in Of("Spawner") : entity[s].free_entity_id # NoID} IN
  /\ \A id \in Live : id < entity_id_source
  /\ \A s \in holders : /\ entity[s].free_entity_id \notin Live
                         /\ entity[s].free_entity_id < entity_id_source
  /\ \A s, t \in holders : s # t => entity[s].free_entity_id # entity[t].free_entity_id

(* The pieces of matter in the world: on the ground, which is nobody's, and *)
(* in the machines' hands.                                                 *)
Hand(m) == {i \in DOMAIN entity[m].stack : entity[m].stack[i] = MATTER}
Pieces == ({NoID} \X {c \in Coordinate : value[c] = MATTER})
          \cup UNION {{m} \X Hand(m) : m \in Machines}
Matter == Cardinality(Pieces)

(* Matter is conserved: only a Source creates it and only a Sink, or the   *)
(* player's hand, destroys it, however machines race, abort and retry.     *)
MatterConserved ==
  [][/\ Matter' > Matter => (ready \cap (Of("Source") \cup Of("Player"))) # {}
     /\ Matter' < Matter => (ready \cap (Of("Sink") \cup Of("Player"))) # {}]_vars

(* "Machines cannot write under an occupant": the term under a machine     *)
(* changes only by the machine itself or by what is fixed at the cell, if  *)
(* no player is there to write where it likes.                             *)
OnlyTheOccupantWrites ==
  [][\A c \in Coordinate :
       value'[c] # value[c] /\ occupant[c] # NoID /\ Of("Player") = {}
         => \/ occupant[c] \in ready /\ entity[occupant[c]].new_location = c
            \/ \E id \in located[c] \cap ready : id \notin Machines]_vars

(* "Always wait again": the player will be notified again whatever became  *)
(* of what it did.                                                         *)
PlayerAlwaysWaits ==
  \A p \in Of("Player") : p \in ready \/ \E a \in waiting_on_time : a[2] = p

(* "An entity can't starve indefinitely": a spawner that lost its cell to  *)
(* a rival tries again at some time.                                       *)
SpawnersDoNotStarve == Of("Spawner") \subseteq Expected
==============================================================================
