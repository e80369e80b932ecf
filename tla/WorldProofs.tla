------------------------------ MODULE WorldProofs ------------------------------
EXTENDS World, TLAPS, FiniteSetTheorems

(* World::step and the transactions of its entities, for any number of     *)
(* entities on a torus of any size, from any world that can be loaded.     *)
(* First, what a transaction looks like: its types, which cells it leaves  *)
(* and takes, that it writes no key twice.  Then what a step makes of each *)
(* cell and each entity, given that no two of the transactions that commit *)
(* write a key in common.  From both, the parts of the invariant, one by   *)
(* one; and then the theorems, which rest on the invariant IInv and, some  *)
(* of them, on ClaimsKept, OnTheRoad, Sleeps and SleepsSoundly, and on how *)
(* much matter the hands and the cells hold.  The files that a world is    *)
(* saved in come last, with an invariant of their own.                     *)

(* The kind of an entity tells its fields. *)
LEMMA KindsOf ==
  ASSUME NEW e \in Entity
  PROVE  /\ e.kind = "Machine" => e \in MachineType
         /\ e.kind = "Source" => e \in SourceType
         /\ e.kind \in {"Sink", "Counter", "Evenator"} => e \in FixedType
         /\ e.kind = "Spawner" => e \in SpawnerType
         /\ e.kind \in {"Machine", "Source", "Sink", "Counter", "Evenator", "Spawner", "Player"}
  BY DEF Entity, MachineType, SourceType, FixedType, SpawnerType

(* A step in any direction leads to another cell of the torus. *)
LEMMA StepFromOther ==
  ASSUME NEW c \in Coordinate, NEW h \in 0 .. 3
  PROVE  StepFrom(c, h) \in Coordinate /\ StepFrom(c, h) # c
  <1>1. WIDTH \in Nat /\ WIDTH > 1 /\ HEIGHT \in Nat /\ HEIGHT > 1
    BY WorldAssumption
  <1>2. PICK x \in 0 .. WIDTH - 1, y \in 0 .. HEIGHT - 1 : c = <<x, y>>
    BY DEF Coordinate
  <1>3. h % 4 = h /\ h \in {0, 1, 2, 3}
    OBVIOUS
  <1>4. /\ (y + 1) % HEIGHT \in 0 .. HEIGHT - 1 /\ (y + 1) % HEIGHT # y
        /\ (y + HEIGHT - 1) % HEIGHT \in 0 .. HEIGHT - 1 /\ (y + HEIGHT - 1) % HEIGHT # y
        /\ (x + 1) % WIDTH \in 0 .. WIDTH - 1 /\ (x + 1) % WIDTH # x
        /\ (x + WIDTH - 1) % WIDTH \in 0 .. WIDTH - 1 /\ (x + WIDTH - 1) % WIDTH # x
    BY <1>1, SMT
  <1> QED BY <1>2, <1>3, <1>4 DEF StepFrom, Coordinate

------------------------------------------------------------------------------
(* Terms and stacks. *)
Stack == Seq(Term \ {EMPTY})

(* Arithmetic yields terms. *)
LEMMA Numbers ==
  /\ \A n \in Int : Int4(n) \in Range(Integer) /\ Int4(n) \in Term \ {EMPTY}
  /\ \A v : IsInty(v) => AsInt(v) \in 0 .. 3 /\ v \in Term \ {EMPTY}
  /\ \A x, y : Bool(x = y) \in Term \ {EMPTY}
  <1>1. ASSUME NEW n \in Int PROVE Int4(n) \in Range(Integer)
    <2>1. 1 + (n % 4) \in 1 .. 4
      OBVIOUS
    <2> QED BY <2>1 DEF Int4, Integer, Range
  <1>2. ASSUME NEW v, IsInty(v) PROVE AsInt(v) \in 0 .. 3
    <2>1. CASE v \in Range(Integer)
      <3>1. PICK i \in 1 .. 4 : Integer[i] = v
        BY <2>1 DEF Range, Integer
      <3>2. i - 1 \in 0 .. 3 /\ Integer[(i - 1) + 1] = v
        BY <3>1
      <3> QED BY <2>1, <3>2 DEF AsInt
    <2>2. CASE v \notin Range(Integer)
      <3>1. PICK i \in 1 .. 2 : Boolean[i] = v
        BY <1>2, <2>2 DEF Range, Boolean, IsInty
      <3>2. i - 1 \in 0 .. 1 /\ Boolean[(i - 1) + 1] = v
        BY <3>1
      <3>3. AsInt(v) \in 0 .. 1
        BY <2>2, <3>2 DEF AsInt
      <3> QED BY <3>3
    <2> QED BY <2>1, <2>2
  <1>3. EMPTY \notin Range(Integer) \cup Range(Boolean)
    BY DEF Range, Integer, Boolean, EMPTY
  <1>4. \A x, y : Bool(x = y) \in Range(Boolean)
    BY DEF Range, Boolean, Bool
  <1> QED BY <1>1, <1>2, <1>3, <1>4 DEF IsInty, Term

(* Every opcode is a term. *)
LEMMA Glyphs ==
  /\ EMPTY \in Term /\ MATTER \in Term /\ ERROR \in Term /\ MATTER # EMPTY /\ ERROR # EMPTY
  /\ ABSENT \notin Term /\ Opcode \subseteq Term \ {EMPTY} /\ "NOOP" \notin Term
  <1>1. ABSENT \notin Range(Integer) \cup Range(Boolean) \cup Opcode \cup {EMPTY, MATTER, ERROR}
    BY DEF Range, Integer, Boolean, Opcode, ABSENT, EMPTY, MATTER, ERROR
  <1>2. "NOOP" \notin Range(Integer) \cup Range(Boolean) \cup Opcode \cup {EMPTY, MATTER, ERROR}
    BY DEF Range, Integer, Boolean, Opcode, ABSENT, EMPTY, MATTER, ERROR
  <1>3. EMPTY \notin Opcode
    BY DEF Opcode, EMPTY
  <1> QED BY <1>1, <1>2, <1>3 DEF Term, EMPTY, MATTER, ERROR

(* Pushing and popping keep a stack a stack. *)
LEMMA Stacks ==
  ASSUME NEW s \in Stack
  PROVE  /\ Peek(s) \in Term /\ Pop(s) \in Stack
         /\ \A v \in Term : Push(s, v) \in Stack
  <1>1. Peek(s) \in Term /\ Pop(s) \in Stack
    <2>1. CASE s = << >>
      BY <2>1, Glyphs DEF Peek, Pop
    <2>2. CASE s # << >>
      BY <2>2 DEF Peek, Pop, Stack
    <2> QED BY <2>1, <2>2
  <1>2. ASSUME NEW v \in Term PROVE Push(s, v) \in Stack
    <2>1. CASE v = EMPTY
      BY <2>1 DEF Push
    <2>2. CASE v # EMPTY
      <3>1. <<v>> \in Stack
        BY <2>2 DEF Stack
      <3> QED BY <2>2, <3>1 DEF Push, Stack
    <2> QED BY <2>1, <2>2
  <1> QED BY <1>1, <1>2

(* The glyphs that steer a machine. *)
Steering == {"TURN_NORTH", "TURN_EAST", "TURN_SOUTH", "TURN_WEST", "TURN_RIGHT", "TURN_LEFT",
             "TURN_BACK", "BRANCH_RIGHT", "BRANCH_LEFT", "HEADING_STORE", "FLIP_FLOP", "FLOP_FLIP"}

(* Of the opcodes, only those turn it. *)
LEMMA Steered ==
  ASSUME NEW a, NEW h \in 0 .. 3, NEW t
  PROVE  /\ Steer(a, h, t).heading \in 0 .. 3
         /\ a \notin Steering => Steer(a, h, t).heading = h
  <1>1. \A k \in Int : k % 4 \in 0 .. 3
    OBVIOUS
  <1>2. h % 4 = h
    OBVIOUS
  <1>3. IsInty(t) => AsInt(t) \in Int
    BY Numbers
  <1>4. /\ 0 % 4 \in 0 .. 3 /\ 1 % 4 \in 0 .. 3 /\ 2 % 4 \in 0 .. 3 /\ 3 % 4 \in 0 .. 3
        /\ (h + 1) % 4 \in 0 .. 3 /\ (h + 2) % 4 \in 0 .. 3 /\ (h + 3) % 4 \in 0 .. 3
    OBVIOUS
  <1>5. IsInty(t) => /\ (h + AsInt(t)) % 4 \in 0 .. 3 /\ (h + 4 - AsInt(t)) % 4 \in 0 .. 3
                     /\ AsInt(t) % 4 \in 0 .. 3
    BY <1>3
  <1>6. Steer(a, h, t).heading \in 0 .. 3
    BY <1>2, <1>4, <1>5 DEF Steer
  <1>7. a \notin Steering => Steer(a, h, t).heading = h
    BY <1>2 DEF Steer, Steering
  <1> QED BY <1>6, <1>7

(* A latched operation writes at most one term to the cell, and none that  *)
(* is not latched does.                                                    *)
LEMMA Applied ==
  ASSUME NEW pending, NEW s \in Stack, NEW cell \in Term
  PROVE  LET r == ApplyPending(pending, s, cell) IN
         /\ r.stack \in Stack
         /\ r.writes = {} \/ \E v \in Term : r.writes = {v}
         /\ r.writes # {} => TreatsCellAsData(pending)
  <1>1. /\ Peek(s) \in Term /\ Pop(s) \in Stack /\ Push(s, cell) \in Stack
        /\ Push(Pop(s), cell) \in Stack
    BY Stacks
  <1>2. Taken(cell) = {} \/ Taken(cell) = {EMPTY}
    BY DEF Taken
  <1> QED BY <1>1, <1>2, Glyphs DEF ApplyPending, TreatsCellAsData

(* What a latched operation may leave behind: a stack, and one write at    *)
(* most.                                                                   *)
LEMMA Acted ==
  ASSUME NEW action \in Opcode \cup {"NOOP"}, NEW s \in Stack, NEW h \in 0 .. 3
  PROVE  LET r == ApplyAction(action, s, h) IN
         /\ r.stack \in Stack /\ r.latched \in Opcode \cup {"NOOP"}
         /\ r.writes = {} \/ \E v \in Term : r.writes = {v}
         /\ r.writes # {} => action \in Opcode
  <1> DEFINE top == Peek(s)
             under == Peek(Pop(s))
  <1>1. top \in Term /\ Pop(s) \in Stack
    BY Stacks
  <1>2. under \in Term /\ Pop(Pop(s)) \in Stack
    BY <1>1, Stacks
  <1>3. IsInty(top) => Int4(4 - AsInt(top)) \in Term
    BY Numbers
  <1>4. IsInty(top) /\ IsInty(under) => Int4(AsInt(under) + AsInt(top)) \in Term
    BY Numbers
  <1>5. Int4(h) \in Term /\ Bool(top = MATTER) \in Term
    BY Numbers
  <1>6. /\ Push(s, Int4(h)) \in Stack /\ Push(s, top) \in Stack /\ Push(s, Bool(top = MATTER)) \in Stack
        /\ Push(Push(Pop(Pop(s)), top), under) \in Stack
    BY <1>1, <1>2, <1>5, Stacks
  <1>7. /\ IsInty(top) => Push(Pop(s), Int4(4 - AsInt(top))) \in Stack
        /\ IsInty(top) /\ IsInty(under) =>
             Push(Pop(Pop(s)), Int4(AsInt(under) + AsInt(top))) \in Stack
    BY <1>1, <1>2, <1>3, <1>4, Stacks
  <1>8. {"STORE", "FLIP_FLOP", "FLOP_FLIP", "VALVE_NORTH_SOUTH", "VALVE_EAST_WEST"} \subseteq Opcode
    BY DEF Opcode
  <1> HIDE DEF top, under
  <1>9. ApplyAction(action, s, h).stack \in Stack
    BY <1>1, <1>6, <1>7 DEF ApplyAction, top, under
  <1> QED BY <1>8, <1>9, Glyphs DEF ApplyAction
------------------------------------------------------------------------------
(* The inductive invariant. *)

(* Whoever will be notified lives. *)
Awake == Expected \subseteq Live

(* Only machines occupy cells. *)
Occupied == \A c \in Coordinate : occupant[c] \in Machines \cup {NoID}

(* A machine on the road has left one cell for another. *)
Hops == \A m \in Machines :
          entity[m].phase = "TRAVELLING" <=> entity[m].old_location # entity[m].new_location

(* The invariant that a step preserves. *)
IInv == TypeOK /\ Awake /\ TicketsAreFresh /\ Occupied /\ Hops
        /\ Footing /\ LocatedMirrorsOccupancy

(* The types of the living. *)
LEMMA Alive ==
  ASSUME TypeOK, NEW id \in Live
  PROVE  /\ id \in ID /\ entity[id] \in Entity
         /\ id \in Machines => entity[id] \in MachineType
         /\ id \in Of("Spawner") => entity[id] \in SpawnerType
  <1>1. id \in ID /\ entity[id] \in Entity
    BY DEF Live, TypeOK
  <1> QED BY <1>1, KindsOf DEF Machines, Of

(* What is read of a cell is a term. *)
LEMMA Reads ==
  ASSUME TypeOK, NEW c \in Coordinate
  PROVE  Read(c) \in Term /\ (value[c] # ABSENT => value[c] \in Term)
  BY Glyphs DEF Read, TypeOK, Stored

(* What a machine makes of the cell it stands on and of the way ahead. *)
LEMMA Planned ==
  ASSUME TypeOK, NEW id \in Machines
  PROVE  LET p == Plan(id)
             e == entity[id] IN
         /\ p.cell = Read(e.new_location) /\ p.cell \in Term
         /\ p.action \in Opcode \cup {"NOOP"} /\ p.heading \in 0 .. 3
         /\ p.action \in Opcode => ~TreatsCellAsData(e.on_arrival)
         /\ p.action # "NOOP" => p.action = p.cell
         /\ p.action \notin Steering => p.heading = e.new_heading
         /\ p.next = StepFrom(e.new_location, p.heading) /\ p.next \in Coordinate
         /\ p.next # e.new_location
         /\ p.beyond = StepFrom(p.next, p.heading) /\ p.beyond \in Coordinate /\ p.beyond # p.next
         /\ p.claim_beyond = (Read(p.next) = "DO_NOT_QUEUE")
         /\ p.disposition = "PROCEED" =>
              /\ occupant[p.next] = NoID \/ Ours(id, p.next)
              /\ p.claim_beyond => occupant[p.beyond] = NoID
  <1> DEFINE e == entity[id]
             cell == Read(e.new_location)
             action == IF cell \in Opcode /\ ~TreatsCellAsData(e.on_arrival) THEN cell ELSE "NOOP"
             steer == Steer(action, e.new_heading, Peek(e.stack))
             next == StepFrom(e.new_location, steer.heading)
             beyond == StepFrom(next, steer.heading)
             p == Plan(id)
  <1>1. e \in MachineType
    BY Alive DEF Machines
  <1>2. e.new_heading \in 0 .. 3 /\ e.new_location \in Coordinate
    BY <1>1 DEF MachineType
  <1>3. cell \in Term
    BY <1>2, Reads
  <1>4. /\ action \in Opcode \cup {"NOOP"} /\ (action \in Opcode => ~TreatsCellAsData(e.on_arrival))
        /\ (action # "NOOP" => action = cell)
    BY Glyphs
  <1>5. steer.heading \in 0 .. 3 /\ (action \notin Steering => steer.heading = e.new_heading)
    BY <1>2, Steered
  <1>6. next \in Coordinate /\ next # e.new_location
    BY <1>2, <1>5, StepFromOther
  <1>7. beyond \in Coordinate /\ beyond # next
    BY <1>5, <1>6, StepFromOther
  <1>8. /\ p.cell = cell /\ p.action = action /\ p.heading = steer.heading /\ p.next = next
        /\ p.beyond = beyond /\ p.claim_beyond = (Read(next) = "DO_NOT_QUEUE")
    BY DEF Plan
  <1>9. p.disposition = "PROCEED" =>
          /\ occupant[next] = NoID \/ Ours(id, next)
          /\ Read(next) = "DO_NOT_QUEUE" => occupant[beyond] = NoID
    BY DEF Plan
  <1> HIDE DEF e, cell, action, steer, next, beyond, p
  <1>10. /\ p.cell = Read(e.new_location) /\ p.next = StepFrom(e.new_location, p.heading)
         /\ p.beyond = StepFrom(p.next, p.heading)
    BY <1>8 DEF next, beyond, cell
  <1>11. p.claim_beyond = (Read(p.next) = "DO_NOT_QUEUE")
    BY <1>8
  <1>12. p.disposition = "PROCEED" =>
              /\ occupant[p.next] = NoID \/ Ours(id, p.next)
              /\ p.claim_beyond => occupant[p.beyond] = NoID
    BY <1>8, <1>9
  <1> QED BY <1>3, <1>4, <1>5, <1>6, <1>7, <1>8, <1>10, <1>11, <1>12 DEF e, p
------------------------------------------------------------------------------
(* The shape of a machine's transaction: what it leaves and what it takes. *)
Left(id) == IF entity[id].phase = "WAITING_FOR_NEW" THEN {} ELSE {entity[id].old_location}

(* The cells a machine takes when it goes on: the next one, and the exit of*)
(* a junction.                                                             *)
Taking(id) == IF Plan(id).claim_beyond THEN {Plan(id).next, Plan(id).beyond} ELSE {Plan(id).next}

(* Where a machine has arrived. *)
Here(id) == entity[id].new_location

(* A machine that is woken before its arrival sleeps on. *)
Waits(id) == entity[id].phase = "TRAVELLING" /\ entity[id].eta > 0

(* A machine that goes on. *)
Proceeds(id) == ~Waits(id) /\ Plan(id).disposition = "PROCEED"

(* A machine that stays before what is in its way. *)
Parks(id) == ~Waits(id) /\ Plan(id).disposition # "PROCEED"

(* The nodes by which a machine lets go of the cells behind it. *)
LEMMA Leaves ==
  ASSUME NEW id
  PROVE  /\ ReleaseOld(id).occupant = {Write(c, NoID) : c \in Left(id)}
         /\ ReleaseOld(id).located = {Write(c, located[c] \ {id}) : c \in Left(id)}
         /\ ReleaseOld(id).value = {} /\ ReleaseOld(id).entity = {} /\ ReleaseOld(id).time = {}
         /\ ReleaseOld(id).requested = 0
         /\ DOMAIN ReleaseOld(id) = {"value", "occupant", "located", "entity", "time", "requested"}
  BY DEF ReleaseOld, Left, Nothing

(* A machine as its transaction leaves it. *)
Rested(id) == [entity[id] EXCEPT !.phase = "WAITING_FOR_NEW", !.old_location = Here(id)]

(* A machine as it parks. *)
Parked(id) == IF Plan(id).disposition = "PARK_HALT"
                THEN [Rested(id) EXCEPT !.on_arrival = "NOOP"] ELSE Rested(id)

(* A halted machine makes no appointment. *)
Retry(id) == IF Plan(id).disposition = "PARK_HALT" THEN {} ELSE {OnAbortRetry(id)}

(* The nodes of a machine that parks. *)
LEMMA ParkShape ==
  ASSUME NEW id, Parks(id)
  PROVE  LET tx == MachineTx(id) IN
         /\ tx.occupant = {Write(c, NoID) : c \in Left(id)}
                          \cup {WaitOnOccupant(c) : c \in WaitsForOccupant(Plan(id))}
         /\ tx.located = {Write(c, located[c] \ {id}) : c \in Left(id)}
         /\ tx.value = {WaitOnValue(c, {COMMITTED}) : c \in WaitsForValue(Plan(id), Here(id))}
         /\ tx.entity = {Write(id, Parked(id))}
         /\ tx.time = Retry(id) /\ tx.requested = 0
  <1>1. MachineTx(id) = Park(id, Plan(id), Rested(id))
    BY DEF MachineTx, Parks, Waits, Rested, Here
  <1>2. Rested(id).new_location = Here(id)
    BY DEF Rested, Here
  <1> QED BY <1>1, <1>2, Leaves DEF Park, Parked, Retry

(* A machine that goes on. *)
Onward(id) ==
  LET p == Plan(id)
      memory == ApplyPending(entity[id].on_arrival, entity[id].stack, p.cell)
      done == ApplyAction(p.action, IF p.pop THEN Pop(memory.stack) ELSE memory.stack,
                          entity[id].new_heading) IN
  [machine |-> [Rested(id) EXCEPT !.phase = "TRAVELLING", !.on_arrival = done.latched,
                                  !.stack = done.stack, !.new_heading = p.heading,
                                  !.new_location = p.next, !.eta = TRAVEL],
   writes |-> memory.writes \cup done.writes]

(* The nodes of a machine that goes on. *)
LEMMA ProceedShape ==
  ASSUME NEW id, Proceeds(id)
  PROVE  LET tx == MachineTx(id) IN
         /\ tx.occupant = {Write(c, NoID) : c \in Left(id)} \cup {Write(c, id) : c \in Taking(id)}
         /\ tx.located = {Write(c, located[c] \ {id}) : c \in Left(id)}
                         \cup {Write(c, located[c] \cup {id}) : c \in Taking(id)}
         /\ tx.value = {Write(Here(id), v) : v \in Onward(id).writes}
         /\ tx.entity = {Write(id, Onward(id).machine)}
         /\ tx.time = {OnCommitSleepFor(TRAVEL, id), OnAbortRetry(id)}
         /\ tx.requested = 0
  <1>1. MachineTx(id) = Proceed(id, Plan(id), Rested(id))
    BY DEF MachineTx, Proceeds, Waits, Rested, Here
  <1>2. /\ Rested(id).new_location = Here(id) /\ Rested(id).on_arrival = entity[id].on_arrival
        /\ Rested(id).stack = entity[id].stack /\ Rested(id).new_heading = entity[id].new_heading
    BY DEF Rested, Here
  <1> DEFINE p == Plan(id)
             claimed == Claim(ReleaseOld(id), id, p.next)
             tx == IF p.claim_beyond THEN Claim(claimed, id, p.beyond) ELSE claimed
  <1>3. /\ claimed.occupant = {Write(c, NoID) : c \in Left(id)} \cup {Write(p.next, id)}
        /\ claimed.located = {Write(c, located[c] \ {id}) : c \in Left(id)}
                             \cup {Write(p.next, located[p.next] \cup {id})}
        /\ claimed.requested = 0
        /\ DOMAIN claimed = {"value", "occupant", "located", "entity", "time", "requested"}
    BY Leaves DEF Claim
  <1>4. /\ tx.occupant = {Write(c, NoID) : c \in Left(id)} \cup {Write(c, id) : c \in Taking(id)}
        /\ tx.located = {Write(c, located[c] \ {id}) : c \in Left(id)}
                         \cup {Write(c, located[c] \cup {id}) : c \in Taking(id)}
        /\ tx.requested = 0
        /\ DOMAIN tx = {"value", "occupant", "located", "entity", "time", "requested"}
    <2> HIDE DEF claimed
    <2>1. CASE p.claim_beyond
      BY <1>3, <2>1 DEF Claim, Taking
    <2>2. CASE ~p.claim_beyond
      <3>1. tx = claimed /\ Taking(id) = {p.next}
        BY <2>2 DEF Taking
      <3>2. /\ {Write(c, id) : c \in Taking(id)} = {Write(p.next, id)}
            /\ {Write(c, located[c] \cup {id}) : c \in Taking(id)}
                 = {Write(p.next, located[p.next] \cup {id})}
        BY <3>1
      <3> QED BY <1>3, <3>1, <3>2
    <2> QED BY <2>1, <2>2
  <1>5. /\ MachineTx(id).occupant = tx.occupant /\ MachineTx(id).located = tx.located
        /\ MachineTx(id).requested = tx.requested
        /\ MachineTx(id).value = {Write(Here(id), v) : v \in Onward(id).writes}
        /\ MachineTx(id).entity = {Write(id, Onward(id).machine)}
        /\ MachineTx(id).time = {OnCommitSleepFor(TRAVEL, id), OnAbortRetry(id)}
    <2> HIDE DEF tx, p
    <2>1. DOMAIN tx = {"value", "occupant", "located", "entity", "time", "requested"}
      BY <1>4
    <2>2. Proceed(id, p, Rested(id)) =
            [tx EXCEPT !.entity = {Write(id, Onward(id).machine)},
                       !.value = {Write(Here(id), v) : v \in Onward(id).writes},
                       !.time = {OnCommitSleepFor(TRAVEL, id), OnAbortRetry(id)}]
      BY <1>2 DEF Proceed, Onward, tx, p
    <2> QED BY <1>1, <2>1, <2>2 DEF p
  <1> HIDE DEF Proceeds, tx
  <1> QED BY <1>4, <1>5
------------------------------------------------------------------------------
(* Transactions have the types of the maps they write. *)
Op == SUBSET {WRITE_ON_COMMIT, COMMITTED, ABORTED}

(* A transaction of the right types. *)
HasTypes(tx) ==
  /\ tx.value \in SUBSET [key : Coordinate, desired : Term, op : Op]
  /\ tx.occupant \in SUBSET [key : Coordinate, desired : ID \cup {NoID}, op : Op]
  /\ tx.located \in SUBSET [key : Coordinate, desired : SUBSET ID, op : Op]
  /\ tx.entity \in SUBSET [key : ID, desired : Entity, op : Op]
  /\ tx.time \in SUBSET [key : 1 .. TRAVEL, desired : ID, op : Op]
  /\ tx.requested \in {0, 1}

(* The constructors of nodes are typed. *)
LEMMA NodeTypes ==
  ASSUME NEW K, NEW V, NEW k \in K, NEW v \in V, NEW op \in Op
  PROVE  /\ Node(k, v, op) \in [key : K, desired : V, op : Op]
         /\ Write(k, v) \in [key : K, desired : V, op : Op]
  BY DEF Node, Write, Op

(* EntityIDs are finitely many positive numbers. *)
LEMMA Numbered == ID \subseteq Nat \ {0} /\ NoID \notin ID /\ IsFiniteSet(ID) /\ Cardinality(ID) \in Nat
  <1>1. IsFiniteSet(ID) /\ ID = 1 .. Cardinality(ID)
    BY WorldAssumption
  <1>2. Cardinality(ID) \in Nat
    BY <1>1, FS_CardinalityType
  <1> QED BY <1>1, <1>2 DEF NoID

(* A machine that has arrived is a machine. *)
LEMMA RestedType ==
  ASSUME TypeOK, NEW id \in Machines
  PROVE  /\ Rested(id) \in MachineType /\ Here(id) \in Coordinate
         /\ Parked(id) \in MachineType /\ Left(id) \subseteq Coordinate
  BY Alive DEF Rested, Here, MachineType, Machines, Left, Parked

(* A machine that goes on is one on its way from here to the next cell. *)
LEMMA OnwardType ==
  ASSUME TypeOK, NEW id \in Machines
  PROVE  /\ Onward(id).machine \in MachineType
         /\ Onward(id).machine.old_location = Here(id)
         /\ Onward(id).machine.new_location = Plan(id).next
         /\ Onward(id).machine.new_heading = Plan(id).heading
         /\ Onward(id).machine.phase = "TRAVELLING" /\ Onward(id).machine.eta = TRAVEL
         /\ Onward(id).writes = {} \/ \E v \in Term : Onward(id).writes = {v}
  <1> DEFINE p == Plan(id)
             e == entity[id]
             memory == ApplyPending(e.on_arrival, e.stack, p.cell)
             s == IF p.pop THEN Pop(memory.stack) ELSE memory.stack
             done == ApplyAction(p.action, s, e.new_heading)
  <1>1. e \in MachineType
    BY Alive DEF Machines
  <1>2. e.stack \in Stack /\ e.new_heading \in 0 .. 3 /\ Rested(id) \in MachineType
    BY <1>1, RestedType DEF MachineType, Stack
  <1>3. /\ p.cell \in Term /\ p.action \in Opcode \cup {"NOOP"} /\ p.heading \in 0 .. 3
        /\ p.next \in Coordinate /\ (p.action \in Opcode => ~TreatsCellAsData(e.on_arrival))
    BY Planned
  <1>4. /\ memory.stack \in Stack /\ (memory.writes = {} \/ \E v \in Term : memory.writes = {v})
        /\ (memory.writes # {} => TreatsCellAsData(e.on_arrival))
    BY <1>2, <1>3, Applied
  <1>5. s \in Stack
    <2> HIDE DEF memory, p
    <2> QED BY <1>4, Stacks
  <1>6. /\ done.stack \in Stack /\ done.latched \in Opcode \cup {"NOOP"}
        /\ (done.writes = {} \/ \E v \in Term : done.writes = {v})
        /\ (done.writes # {} => p.action \in Opcode)
    <2> HIDE DEF s, p, e
    <2> QED BY <1>2, <1>3, <1>5, Acted
  <1>7. /\ Onward(id).machine = [Rested(id) EXCEPT
                !.phase = "TRAVELLING", !.on_arrival = done.latched, !.stack = done.stack,
                !.new_heading = p.heading, !.new_location = p.next, !.eta = TRAVEL]
        /\ Onward(id).writes = memory.writes \cup done.writes
    BY DEF Onward
  <1>8. TRAVEL \in 0 .. TRAVEL
    BY WorldAssumption
  <1> HIDE DEF p, e, memory, s, done
  <1>9. Onward(id).writes = {} \/ \E v \in Term : Onward(id).writes = {v}
    BY <1>3, <1>4, <1>6, <1>7
  <1>10. Onward(id).machine \in MachineType
    BY <1>2, <1>3, <1>6, <1>7, <1>8 DEF MachineType, Stack
  <1>11. Rested(id).old_location = Here(id)
    BY <1>1 DEF Rested, MachineType, e
  <1> QED BY <1>2, <1>7, <1>9, <1>10, <1>11 DEF p, MachineType

(* Machines take cells of the torus. *)
LEMMA TakingCells ==
  ASSUME TypeOK, NEW id \in Machines
  PROVE  Taking(id) \subseteq Coordinate
  BY Planned DEF Taking

(* A machine's transaction is well typed. *)
LEMMA MachineTypes ==
  ASSUME TypeOK, NEW id \in Machines
  PROVE  HasTypes(MachineTx(id))
  <1>1. id \in ID /\ id \in ID \cup {NoID} /\ NoID \in ID \cup {NoID}
    BY Alive DEF Machines
  <1>2. /\ Rested(id) \in Entity /\ Onward(id).machine \in Entity /\ Here(id) \in Coordinate
        /\ Parked(id) \in Entity /\ Left(id) \subseteq Coordinate
        /\ Onward(id).writes \subseteq Term
    BY RestedType, OnwardType DEF Entity
  <1>3. Plan(id).next \in Coordinate /\ Plan(id).beyond \in Coordinate /\ Taking(id) \subseteq Coordinate
    BY Planned, TakingCells
  <1>4. 1 \in 1 .. TRAVEL /\ TRAVEL \in 1 .. TRAVEL
    BY WorldAssumption
  <1>5. {COMMITTED} \in Op /\ {ABORTED} \in Op /\ EMPTY \in Term
    BY Glyphs DEF Op
  <1>6. \A c \in Coordinate : located[c] \ {id} \in SUBSET ID /\ located[c] \cup {id} \in SUBSET ID
    BY <1>1 DEF TypeOK
  <1>7. CASE Waits(id)
    <2>1. MachineTx(id) = Nothing
      BY <1>7 DEF MachineTx, Waits
    <2> QED BY <2>1 DEF Nothing, HasTypes
  <1>8. CASE Parks(id)
    <2>1. /\ WaitsForValue(Plan(id), Here(id)) \subseteq Coordinate
          /\ WaitsForOccupant(Plan(id)) \subseteq Coordinate
      BY <1>2, <1>3 DEF WaitsForValue, WaitsForOccupant
    <2>2. \A c \in Left(id) : Write(c, NoID) \in [key : Coordinate, desired : ID \cup {NoID}, op : Op]
      BY <1>1, <1>2, <1>5, NodeTypes
    <2>3. \A c \in WaitsForOccupant(Plan(id)) :
            WaitOnOccupant(c) \in [key : Coordinate, desired : ID \cup {NoID}, op : Op]
      BY <1>1, <1>5, <2>1, NodeTypes DEF WaitOnOccupant
    <2>4. \A c \in Left(id) :
            Write(c, located[c] \ {id}) \in [key : Coordinate, desired : SUBSET ID, op : Op]
      BY <1>2, <1>5, <1>6, NodeTypes
    <2>5. \A c \in WaitsForValue(Plan(id), Here(id)) :
            WaitOnValue(c, {COMMITTED}) \in [key : Coordinate, desired : Term, op : Op]
      BY <1>5, <2>1, NodeTypes DEF WaitOnValue
    <2>6. \A m \in Entity : Write(id, m) \in [key : ID, desired : Entity, op : Op]
      BY <1>1, <1>5, NodeTypes
    <2>7. OnAbortRetry(id) \in [key : 1 .. TRAVEL, desired : ID, op : Op]
      BY <1>1, <1>4, <1>5, NodeTypes DEF OnAbortRetry, WaitOnTime
    <2> DEFINE tx == MachineTx(id)
    <2>8. tx.value \in SUBSET [key : Coordinate, desired : Term, op : Op]
      <3>1. tx.value = {WaitOnValue(c, {COMMITTED}) : c \in WaitsForValue(Plan(id), Here(id))}
        BY <1>8, ParkShape
      <3> QED BY ONLY <2>5, <3>1
    <2>9. tx.occupant \in SUBSET [key : Coordinate, desired : ID \cup {NoID}, op : Op]
      BY <1>8, <2>2, <2>3, ParkShape
    <2>10. tx.located \in SUBSET [key : Coordinate, desired : SUBSET ID, op : Op]
      <3>1. tx.located = {Write(c, located[c] \ {id}) : c \in Left(id)}
        BY <1>8, ParkShape
      <3> QED BY ONLY <2>4, <3>1
    <2>11. tx.entity \in SUBSET [key : ID, desired : Entity, op : Op]
      BY <1>2, <1>8, <2>6, ParkShape
    <2>12. tx.time \in SUBSET [key : 1 .. TRAVEL, desired : ID, op : Op] /\ tx.requested \in {0, 1}
      <3>1. tx.time \subseteq {OnAbortRetry(id)} /\ tx.requested = 0
        BY <1>8, ParkShape DEF Retry
      <3> QED BY ONLY <2>7, <3>1
    <2> QED BY <2>8, <2>9, <2>10, <2>11, <2>12 DEF HasTypes
  <1>9. CASE Proceeds(id)
    <2>1. \A c \in Coordinate : /\ Write(c, NoID) \in [key : Coordinate, desired : ID \cup {NoID}, op : Op]
                                /\ Write(c, id) \in [key : Coordinate, desired : ID \cup {NoID}, op : Op]
      BY <1>1, <1>5, NodeTypes
    <2>2. \A c \in Coordinate :
            /\ Write(c, located[c] \ {id}) \in [key : Coordinate, desired : SUBSET ID, op : Op]
            /\ Write(c, located[c] \cup {id}) \in [key : Coordinate, desired : SUBSET ID, op : Op]
      BY <1>5, <1>6, NodeTypes
    <2>3. \A v \in Term : Write(Here(id), v) \in [key : Coordinate, desired : Term, op : Op]
      BY <1>2, <1>5, NodeTypes
    <2>4. Write(id, Onward(id).machine) \in [key : ID, desired : Entity, op : Op]
      BY <1>1, <1>2, <1>5, NodeTypes
    <2>5. /\ OnAbortRetry(id) \in [key : 1 .. TRAVEL, desired : ID, op : Op]
          /\ OnCommitSleepFor(TRAVEL, id) \in [key : 1 .. TRAVEL, desired : ID, op : Op]
      BY <1>1, <1>4, <1>5, NodeTypes DEF OnAbortRetry, OnCommitSleepFor, WaitOnTime
    <2> DEFINE tx == MachineTx(id)
    <2>8. tx.value \in SUBSET [key : Coordinate, desired : Term, op : Op]
      BY <1>2, <1>9, <2>3, ProceedShape
    <2>9. tx.occupant \in SUBSET [key : Coordinate, desired : ID \cup {NoID}, op : Op]
      BY <1>2, <1>3, <1>9, <2>1, ProceedShape
    <2>10. tx.located \in SUBSET [key : Coordinate, desired : SUBSET ID, op : Op]
      <3>1. tx.located = {Write(c, located[c] \ {id}) : c \in Left(id)}
                         \cup {Write(c, located[c] \cup {id}) : c \in Taking(id)}
        BY <1>9, ProceedShape
      <3>2. Left(id) \subseteq Coordinate /\ Taking(id) \subseteq Coordinate
        BY <1>2, <1>3
      <3> QED BY ONLY <2>2, <3>1, <3>2
    <2>11. tx.entity \in SUBSET [key : ID, desired : Entity, op : Op]
      BY <1>9, <2>4, ProceedShape
    <2>12. tx.time \in SUBSET [key : 1 .. TRAVEL, desired : ID, op : Op] /\ tx.requested \in {0, 1}
      BY <1>9, <2>5, ProceedShape
    <2> QED BY <2>8, <2>9, <2>10, <2>11, <2>12 DEF HasTypes
  <1> QED BY <1>7, <1>8, <1>9 DEF Parks, Proceeds

(* The successor of a term is a term. *)
LEMMA SuccessorType == \A v : Successor(v) \in Term
  <1>1. ASSUME NEW v, v \in Range(Integer) PROVE Int4(AsInt(v) + 1) \in Term
    <2>1. AsInt(v) \in Int
      BY <1>1, Numbers DEF IsInty
    <2> QED BY <2>1, Numbers
  <1> QED BY <1>1, Glyphs DEF Successor

(* What a spawner makes is a machine. *)
LEMMA NewMachineType ==
  ASSUME NEW c \in Coordinate
  PROVE  NewMachine(c) \in MachineType
  <1>1. 0 \in 0 .. 3 /\ 0 \in 0 .. TRAVEL
    BY WorldAssumption
  <1>2. << >> \in Seq(Term \ {EMPTY})
    OBVIOUS
  <1> QED BY <1>1, <1>2 DEF NewMachine, MachineType

(* What a spawner's transaction is made of. *)
Reserve(id) == entity[id].free_entity_id

Spent(id) == [entity[id] EXCEPT !.free_entity_id = NoID]

Place(id) == entity[id].location

Spawns(id) == Reserve(id) # NoID /\ occupant[Place(id)] = NoID

(* The nodes of a spawner: it asks for an EntityID, or spawns, or waits for*)
(* its cell.                                                               *)
LEMMA SpawnerShape ==
  ASSUME NEW id
  PROVE  LET tx == SpawnerTx(id) IN
         /\ tx.value = {}
         /\ Reserve(id) = NoID =>
              /\ tx.occupant = {} /\ tx.located = {} /\ tx.entity = {Write(id, Spent(id))}
              /\ tx.time = {OnCommitSleepFor(1, id)} /\ tx.requested = 1
         /\ Spawns(id) =>
              /\ tx.occupant = {Write(Place(id), Reserve(id))}
              /\ tx.located = {Write(Place(id), located[Place(id)] \cup {Reserve(id)})}
              /\ tx.entity = {Write(id, Spent(id)), Write(Reserve(id), NewMachine(Place(id)))}
              /\ tx.time = {OnCommitSleepFor(1, id), OnCommitSleepFor(1, Reserve(id))}
              /\ tx.requested = 1
         /\ Reserve(id) # NoID /\ ~Spawns(id) =>
              /\ tx.occupant = {Node(Place(id), NoID, WAIT_ALWAYS)}
              /\ tx.located = {} /\ tx.entity = {} /\ tx.time = {} /\ tx.requested = 0
  <1>1. CASE Reserve(id) = NoID
    BY <1>1 DEF SpawnerTx, Reserve, Spent, Spawns, Nothing
  <1>2. CASE Spawns(id)
    BY <1>2 DEF SpawnerTx, Reserve, Spent, Place, Spawns, Nothing
  <1>3. CASE Reserve(id) # NoID /\ ~Spawns(id)
    BY <1>3 DEF SpawnerTx, Reserve, Spent, Place, Spawns, Nothing
  <1> QED BY <1>1, <1>2, <1>3 DEF Spawns

(* The types of what a spawner keeps. *)
LEMMA SpawnerFacts ==
  ASSUME TypeOK, NEW id \in Of("Spawner")
  PROVE  /\ id \in ID /\ Reserve(id) \in ID \cup {NoID} /\ Place(id) \in Coordinate
         /\ Spent(id) \in SpawnerType /\ Spent(id).free_entity_id = NoID
         /\ Spent(id).location = Place(id)
  BY Alive DEF Of, SpawnerType, Reserve, Place, Spent

(* A spawner's transaction is well typed. *)
LEMMA SpawnerTypes ==
  ASSUME TypeOK, NEW id \in Of("Spawner")
  PROVE  HasTypes(SpawnerTx(id))
  <1> DEFINE tx == SpawnerTx(id)
  <1>1. /\ id \in ID /\ Reserve(id) \in ID \cup {NoID} /\ Place(id) \in Coordinate
        /\ Spent(id) \in Entity /\ NewMachine(Place(id)) \in Entity
    BY SpawnerFacts, NewMachineType DEF Entity
  <1>2. 1 \in 1 .. TRAVEL /\ {COMMITTED} \in Op /\ {WRITE_ON_COMMIT} \in Op /\ WAIT_ALWAYS \in Op
    BY WorldAssumption DEF Op, WAIT_ALWAYS
  <1>3. NoID \in ID \cup {NoID}
    OBVIOUS
  <1>4. /\ Node(Place(id), NoID, WAIT_ALWAYS) \in [key : Coordinate, desired : ID \cup {NoID}, op : Op]
        /\ Write(Place(id), Reserve(id)) \in [key : Coordinate, desired : ID \cup {NoID}, op : Op]
    BY <1>1, <1>2, <1>3, NodeTypes
  <1>5. Reserve(id) # NoID => located[Place(id)] \cup {Reserve(id)} \in SUBSET ID
    BY <1>1 DEF TypeOK
  <1>6. Reserve(id) # NoID =>
          Write(Place(id), located[Place(id)] \cup {Reserve(id)})
            \in [key : Coordinate, desired : SUBSET ID, op : Op]
    BY <1>1, <1>2, <1>5, NodeTypes
  <1>7. /\ Write(id, Spent(id)) \in [key : ID, desired : Entity, op : Op]
        /\ Reserve(id) # NoID =>
             Write(Reserve(id), NewMachine(Place(id))) \in [key : ID, desired : Entity, op : Op]
    BY <1>1, <1>2, NodeTypes
  <1>8. /\ OnCommitSleepFor(1, id) \in [key : 1 .. TRAVEL, desired : ID, op : Op]
        /\ Reserve(id) # NoID =>
             OnCommitSleepFor(1, Reserve(id)) \in [key : 1 .. TRAVEL, desired : ID, op : Op]
    BY <1>1, <1>2, NodeTypes DEF OnCommitSleepFor, WaitOnTime
  <1>9. CASE Reserve(id) = NoID
    <2>1. /\ tx.occupant = {} /\ tx.located = {} /\ tx.value = {} /\ tx.requested = 1
          /\ tx.entity = {Write(id, Spent(id))} /\ tx.time = {OnCommitSleepFor(1, id)}
      BY <1>9, SpawnerShape
    <2> HIDE DEF tx
    <2>2. tx.requested \in {0, 1}
      BY <2>1
    <2>3. HasTypes(tx)
      BY ONLY <1>7, <1>8, <2>1, <2>2 DEF HasTypes
    <2> QED BY <2>3 DEF tx
  <1>10. CASE Spawns(id)
    <2>1. Reserve(id) # NoID
      BY <1>10 DEF Spawns
    <2> QED BY <1>4, <1>6, <1>7, <1>8, <1>10, <2>1, SpawnerShape DEF HasTypes
  <1>11. CASE Reserve(id) # NoID /\ ~Spawns(id)
    BY <1>4, <1>11, SpawnerShape DEF HasTypes
  <1> QED BY <1>9, <1>10, <1>11

(* The entities that stay where they are, and the player, write values and *)
(* nothing else.                                                           *)
LEMMA OthersTypes ==
  ASSUME TypeOK, NEW id \in Live, id \notin Machines, id \notin Of("Spawner")
  PROVE  LET tx == Notify(id) IN
         /\ tx.occupant = {} /\ tx.located = {} /\ tx.entity = {} /\ tx.requested = 0
         /\ HasTypes(tx)
  <1>0. /\ id \in ID /\ entity[id] \in Entity
        /\ 1 \in 1 .. TRAVEL /\ {COMMITTED} \in Op /\ {ABORTED} \in Op /\ {WRITE_ON_COMMIT} \in Op
        /\ WAIT_ALWAYS \in Op /\ {WRITE_ON_COMMIT, COMMITTED} \in Op /\ EMPTY \in Term
    BY Alive, WorldAssumption, Glyphs DEF Op, WAIT_ALWAYS
  <1>1. /\ OnAbortRetry(id) \in [key : 1 .. TRAVEL, desired : ID, op : Op]
        /\ OnCommitSleepFor(1, id) \in [key : 1 .. TRAVEL, desired : ID, op : Op]
    BY <1>0, NodeTypes DEF OnAbortRetry, OnCommitSleepFor, WaitOnTime
  <1>2. \A c \in Coordinate, v \in Term :
          /\ Write(c, v) \in [key : Coordinate, desired : Term, op : Op]
          /\ WaitOnValue(c, WAIT_ALWAYS) \in [key : Coordinate, desired : Term, op : Op]
          /\ Node(c, v, {WRITE_ON_COMMIT, COMMITTED}) \in [key : Coordinate, desired : Term, op : Op]
    BY <1>0, NodeTypes DEF WaitOnValue
  <1>3. CASE entity[id].kind = "Source"
    <2>1. entity[id].location \in Coordinate /\ entity[id].of \in Term
      BY <1>0, <1>3, KindsOf DEF SourceType
    <2>2. Notify(id) = SourceTx(id)
      BY <1>3 DEF Notify
    <2> QED BY <1>2, <2>1, <2>2 DEF SourceTx, Nothing, HasTypes
  <1>4. CASE entity[id].kind = "Sink"
    <2>1. entity[id].location \in Coordinate
      BY <1>0, <1>4, KindsOf DEF FixedType
    <2>2. Notify(id) = SinkTx(id)
      BY <1>4 DEF Notify
    <2> QED BY <1>0, <1>2, <2>1, <2>2 DEF SinkTx, Nothing, HasTypes
  <1>5. CASE entity[id].kind = "Counter"
    <2>1. entity[id].location \in Coordinate
      BY <1>0, <1>5, KindsOf DEF FixedType
    <2>2. Notify(id) = CounterTx(id)
      BY <1>5 DEF Notify
    <2> QED BY <1>0, <1>1, <1>2, <2>1, <2>2, SuccessorType DEF CounterTx, Nothing, HasTypes
  <1>6. CASE entity[id].kind = "Evenator"
    <2>1. entity[id].location \in Coordinate
      BY <1>0, <1>6, KindsOf DEF FixedType
    <2>2. Notify(id) = EvenatorTx(id)
      BY <1>6 DEF Notify
    <2> DEFINE at == entity[id].location
    <2>3. CASE value[at] \in {"1", "3"}
      <3>1. Notify(id) = [Nothing EXCEPT
              !.value = {Node(at, Successor(value[at]), {WRITE_ON_COMMIT, COMMITTED})},
              !.time = {OnAbortRetry(id)}]
        BY <2>2, <2>3 DEF EvenatorTx
      <3> QED BY <1>1, <1>2, <2>1, <3>1, SuccessorType DEF Nothing, HasTypes
    <2>4. CASE value[at] \notin {"1", "3"}
      <3>1. Notify(id) = [Nothing EXCEPT !.value = {WaitOnValue(at, WAIT_ALWAYS)}]
        BY <2>2, <2>4 DEF EvenatorTx
      <3> QED BY <1>0, <1>2, <2>1, <3>1 DEF Nothing, HasTypes
    <2> QED BY <2>3, <2>4
  <1>7. CASE entity[id].kind = "Player"
    <2>1. queue # << >> => Head(queue).coordinate \in Coordinate /\ Head(queue).value \in Term
      <3>1. queue # << >> => Head(queue) \in Inputs
        BY DEF TypeOK
      <3> QED BY <3>1, WorldAssumption
    <2>2. Notify(id) = PlayerTx(id)
      BY <1>7 DEF Notify
    <2>3. PICK S : /\ S \in SUBSET [key : Coordinate, desired : Term, op : Op]
                   /\ Notify(id) = [Nothing EXCEPT !.time = {OnCommitSleepFor(1, id)}, !.value = S]
      <3>1. CASE queue = << >>
        BY <2>2, <3>1 DEF PlayerTx
      <3>2. CASE queue # << >>
        <4> DEFINE n == Write(Head(queue).coordinate, Head(queue).value)
        <4>1. {n} \in SUBSET [key : Coordinate, desired : Term, op : Op]
          BY <1>2, <2>1, <3>2
        <4>2. Notify(id) = [Nothing EXCEPT !.time = {OnCommitSleepFor(1, id)}, !.value = {n}]
          BY <2>2, <3>2 DEF PlayerTx
        <4> QED BY <4>1, <4>2
      <3> QED BY <3>1, <3>2
    <2> QED BY <1>1, <2>3 DEF Nothing, HasTypes
  <1> QED BY <1>0, <1>3, <1>4, <1>5, <1>6, <1>7, KindsOf DEF Machines, Of, Live

(* Every transaction is well typed. *)
LEMMA NotifyTypes ==
  ASSUME TypeOK, NEW id \in Live
  PROVE  HasTypes(Notify(id))
  <1>1. ASSUME id \in Machines PROVE Notify(id) = MachineTx(id)
    BY <1>1 DEF Notify, Machines
  <1>2. ASSUME id \in Of("Spawner") PROVE Notify(id) = SpawnerTx(id)
    BY <1>2 DEF Notify, Of
  <1> QED BY <1>1, <1>2, MachineTypes, SpawnerTypes, OthersTypes
------------------------------------------------------------------------------
(* Who leaves which cells and who takes which: the writes of a transaction *)
(* to the maps of occupants and of locations.                              *)
Leaving(id) == IF id \in Machines /\ ~Waits(id) THEN Left(id) ELSE {}

(* The cells a transaction puts somebody in. *)
Entering(id) ==
  IF id \in Machines THEN (IF Proceeds(id) THEN Taking(id) ELSE {})
  ELSE IF id \in Of("Spawner") /\ Spawns(id) THEN {Place(id)} ELSE {}

(* Whom it puts there. *)
Enters(id) == IF id \in Machines THEN id ELSE Reserve(id)

(* The nodes that are written if the transaction commits. *)
Written(nodes) == {n \in nodes : WRITE_ON_COMMIT \in n.op}

(* Which nodes write. *)
LEMMA Ops ==
  ASSUME NEW k, NEW v
  PROVE  /\ Write(k, v) = [key |-> k, desired |-> v, op |-> {WRITE_ON_COMMIT}]
         /\ WRITE_ON_COMMIT \in Write(k, v).op
         /\ WRITE_ON_COMMIT \notin WaitOnOccupant(k).op
         /\ WRITE_ON_COMMIT \notin WaitOnValue(k, {COMMITTED}).op
         /\ WRITE_ON_COMMIT \notin WaitOnValue(k, WAIT_ALWAYS).op
         /\ WRITE_ON_COMMIT \notin Node(k, v, WAIT_ALWAYS).op
         /\ WRITE_ON_COMMIT \in Node(k, v, {WRITE_ON_COMMIT, COMMITTED}).op
  BY DEF Write, Node, WaitOnOccupant, WaitOnValue, WAIT_ALWAYS, WRITE_ON_COMMIT, COMMITTED, ABORTED

(* What a transaction writes to the two maps of places is who leaves and   *)
(* who enters.                                                             *)
LEMMA Placements ==
  ASSUME TypeOK, NEW id \in Live
  PROVE  /\ Written(Notify(id).occupant) = {Write(c, NoID) : c \in Leaving(id)}
                                           \cup {Write(c, Enters(id)) : c \in Entering(id)}
         /\ Written(Notify(id).located) = {Write(c, located[c] \ {id}) : c \in Leaving(id)}
                                          \cup {Write(c, located[c] \cup {Enters(id)}) : c \in Entering(id)}
  <1>1. CASE id \in Machines
    <2>1. Notify(id) = MachineTx(id) /\ Enters(id) = id
      BY <1>1 DEF Notify, Machines, Enters
    <2>2. CASE Waits(id)
      <3>1. MachineTx(id) = Nothing /\ Leaving(id) = {} /\ Entering(id) = {}
        BY <1>1, <2>2 DEF MachineTx, Waits, Leaving, Entering, Proceeds
      <3> QED BY <2>1, <3>1 DEF Nothing, Written
    <2>3. CASE Parks(id)
      <3>1. Leaving(id) = Left(id) /\ Entering(id) = {}
        BY <1>1, <2>3 DEF Parks, Leaving, Entering, Proceeds
      <3>2. /\ MachineTx(id).occupant = {Write(c, NoID) : c \in Left(id)}
                          \cup {WaitOnOccupant(c) : c \in WaitsForOccupant(Plan(id))}
            /\ MachineTx(id).located = {Write(c, located[c] \ {id}) : c \in Left(id)}
        BY <2>3, ParkShape
      <3>3. Written(MachineTx(id).occupant) = {Write(c, NoID) : c \in Left(id)}
        BY <3>2, Ops DEF Written
      <3>4. Written(MachineTx(id).located) = {Write(c, located[c] \ {id}) : c \in Left(id)}
        BY <3>2, Ops DEF Written
      <3> QED BY <2>1, <3>1, <3>3, <3>4
    <2>4. CASE Proceeds(id)
      <3>1. Leaving(id) = Left(id) /\ Entering(id) = Taking(id)
        BY <1>1, <2>4 DEF Leaving, Entering, Proceeds
      <3>2. /\ MachineTx(id).occupant = {Write(c, NoID) : c \in Left(id)} \cup {Write(c, id) : c \in Taking(id)}
            /\ MachineTx(id).located = {Write(c, located[c] \ {id}) : c \in Left(id)}
                         \cup {Write(c, located[c] \cup {id}) : c \in Taking(id)}
        BY <2>4, ProceedShape
      <3>3. Written(MachineTx(id).occupant) = MachineTx(id).occupant
        BY <3>2, Ops DEF Written
      <3>4. Written(MachineTx(id).located) = MachineTx(id).located
        BY <3>2, Ops DEF Written
      <3>5. /\ {Write(c, Enters(id)) : c \in Entering(id)} = {Write(c, id) : c \in Taking(id)}
            /\ {Write(c, located[c] \cup {Enters(id)}) : c \in Entering(id)}
                 = {Write(c, located[c] \cup {id}) : c \in Taking(id)}
        BY ONLY <2>1, <3>1
      <3> QED BY ONLY <2>1, <3>1, <3>2, <3>3, <3>4, <3>5
    <2> QED BY <2>2, <2>3, <2>4 DEF Parks, Proceeds
  <1>2. CASE id \in Of("Spawner")
    <2>1. Notify(id) = SpawnerTx(id) /\ Leaving(id) = {} /\ id \notin Machines
      BY <1>2 DEF Notify, Of, Machines, Leaving
    <2>2. CASE Spawns(id)
      <3>1. Entering(id) = {Place(id)} /\ Enters(id) = Reserve(id)
        BY <1>2, <2>1, <2>2 DEF Entering, Enters
      <3>2. /\ SpawnerTx(id).occupant = {Write(Place(id), Reserve(id))}
            /\ SpawnerTx(id).located = {Write(Place(id), located[Place(id)] \cup {Reserve(id)})}
        BY <2>2, SpawnerShape
      <3>3. /\ Written(SpawnerTx(id).occupant) = {Write(Place(id), Reserve(id))}
            /\ Written(SpawnerTx(id).located) = {Write(Place(id), located[Place(id)] \cup {Reserve(id)})}
        BY <3>2, Ops DEF Written
      <3> QED BY <2>1, <3>1, <3>3
    <2>3. CASE ~Spawns(id)
      <3>1. Entering(id) = {}
        BY <2>1, <2>3 DEF Entering
      <3>2. /\ SpawnerTx(id).occupant = {} \/ SpawnerTx(id).occupant = {Node(Place(id), NoID, WAIT_ALWAYS)}
            /\ SpawnerTx(id).located = {}
        BY <2>3, SpawnerShape
      <3>3. Written(SpawnerTx(id).occupant) = {} /\ Written(SpawnerTx(id).located) = {}
        BY <3>2, Ops DEF Written
      <3> QED BY <2>1, <3>1, <3>3
    <2> QED BY <2>2, <2>3
  <1>3. CASE id \notin Machines /\ id \notin Of("Spawner")
    BY <1>3, OthersTypes DEF Leaving, Entering, Written
  <1> QED BY <1>1, <1>2, <1>3

(* A cell that is left is the leaver's, and one that is taken is nobody's  *)
(* or the taker's already; a machine never leaves what it takes.           *)
LEMMA PlaceFacts ==
  ASSUME IInv, NEW id \in Live
  PROVE  /\ \A c \in Leaving(id) :
              /\ c \in Coordinate /\ id \in Machines /\ occupant[c] = id
              /\ c = entity[id].old_location /\ c # Here(id) /\ c \notin Entering(id)
         /\ \A c \in Entering(id) :
              /\ c \in Coordinate
              /\ occupant[c] = NoID \/ (id \in Machines /\ occupant[c] = id)
              /\ id \in Machines => c # Here(id)
  <1>1. CASE id \in Machines
    <2> DEFINE e == entity[id]
    <2>1. /\ e \in MachineType /\ id # NoID
          /\ occupant[e.old_location] = id /\ occupant[e.new_location] = id
          /\ (e.phase = "TRAVELLING" <=> e.old_location # e.new_location)
      BY <1>1, Alive, Numbered DEF IInv, Footing, Hops, Machines
    <2>2. ASSUME NEW c \in Left(id)
          PROVE  c \in Coordinate /\ occupant[c] = id /\ c = e.old_location /\ c # Here(id)
      BY <2>1, <2>2 DEF Left, MachineType, Here
    <2>3. ASSUME NEW c \in Taking(id), Proceeds(id)
          PROVE  /\ c \in Coordinate /\ (occupant[c] = NoID \/ occupant[c] = id)
                 /\ c # Here(id) /\ c # e.old_location
      <3> DEFINE p == Plan(id)
      <3>0. TypeOK
        BY DEF IInv
      <3>1. /\ p.next \in Coordinate /\ p.next # Here(id) /\ p.beyond \in Coordinate
            /\ occupant[p.next] = NoID \/ Ours(id, p.next)
            /\ p.claim_beyond => occupant[p.beyond] = NoID
        BY <1>1, <2>3, <3>0, Planned DEF Proceeds, Here
      <3>2. p.next # e.old_location /\ (occupant[p.next] = NoID \/ occupant[p.next] = id)
        BY <2>1, <3>1 DEF Ours
      <3>3. p.claim_beyond => p.beyond # e.old_location /\ p.beyond # Here(id)
        BY <2>1, <3>1 DEF Here
      <3> QED BY <3>1, <3>2, <3>3 DEF Taking
    <2> QED BY <1>1, <2>2, <2>3 DEF Leaving, Entering
  <1>2. CASE id \notin Machines
    <2>1. Leaving(id) = {}
      BY <1>2 DEF Leaving
    <2>2. CASE id \in Of("Spawner") /\ Spawns(id)
      BY <1>2, <2>1, <2>2, SpawnerFacts DEF Entering, Spawns, IInv
    <2>3. CASE ~(id \in Of("Spawner") /\ Spawns(id))
      BY <1>2, <2>1, <2>3 DEF Entering
    <2> QED BY <2>2, <2>3
  <1> QED BY <1>1, <1>2
------------------------------------------------------------------------------
(* No transaction writes a key twice. *)
Once(nodes) == \A n, m \in Written(nodes) : n.key = m.key => n = m

(* No transaction puts two machines in a cell, or a cell in two states. *)
LEMMA PlacedOnce ==
  ASSUME IInv, NEW id \in Live
  PROVE  Once(Notify(id).occupant) /\ Once(Notify(id).located)
  <1>1. Leaving(id) \cap Entering(id) = {}
    BY PlaceFacts
  <1>2. TypeOK
    BY DEF IInv
  <1>3. Once(Notify(id).occupant)
    <2>1. Written(Notify(id).occupant) = {Write(c, NoID) : c \in Leaving(id)}
                                           \cup {Write(c, Enters(id)) : c \in Entering(id)}
      BY <1>2, Placements
    <2>2. \A c, v : Write(c, v).key = c
      BY Ops
    <2>3. ASSUME NEW n \in Written(Notify(id).occupant)
          PROVE  \/ n.key \in Leaving(id) /\ n = Write(n.key, NoID)
                 \/ n.key \in Entering(id) /\ n = Write(n.key, Enters(id))
      BY ONLY <2>1, <2>2, <2>3
    <2> QED BY ONLY <1>1, <2>3 DEF Once
  <1>4. Once(Notify(id).located)
    <2>1. Written(Notify(id).located) = {Write(c, located[c] \ {id}) : c \in Leaving(id)}
                                 \cup {Write(c, located[c] \cup {Enters(id)}) : c \in Entering(id)}
      BY <1>2, Placements
    <2>2. \A c, v : Write(c, v).key = c
      BY Ops
    <2>3. ASSUME NEW n \in Written(Notify(id).located)
          PROVE  \/ n.key \in Leaving(id) /\ n = Write(n.key, located[n.key] \ {id})
                 \/ n.key \in Entering(id) /\ n = Write(n.key, located[n.key] \cup {Enters(id)})
      BY ONLY <2>1, <2>2, <2>3
    <2> QED BY ONLY <1>1, <2>3 DEF Once
  <1> QED BY <1>3, <1>4

(* What a transaction installs in the map of entities. *)
LEMMA Installs ==
  ASSUME TypeOK, NEW id \in Live
  PROVE  Written(Notify(id).entity) =
           IF id \in Machines /\ Parks(id) THEN {Write(id, Parked(id))}
           ELSE IF id \in Machines /\ Proceeds(id) THEN {Write(id, Onward(id).machine)}
           ELSE IF id \in Of("Spawner") /\ Reserve(id) = NoID THEN {Write(id, Spent(id))}
           ELSE IF id \in Of("Spawner") /\ Spawns(id)
             THEN {Write(id, Spent(id)), Write(Reserve(id), NewMachine(Place(id)))}
           ELSE {}
  <1>1. CASE id \in Machines
    <2>1. Notify(id) = MachineTx(id) /\ id \notin Of("Spawner")
      BY <1>1 DEF Notify, Machines, Of
    <2>2. CASE Waits(id)
      <3>1. MachineTx(id).entity = {} /\ ~Parks(id) /\ ~Proceeds(id)
        BY <2>2 DEF MachineTx, Waits, Parks, Proceeds, Nothing
      <3> QED BY <2>1, <3>1 DEF Written
    <2>3. CASE Parks(id)
      <3>1. MachineTx(id).entity = {Write(id, Parked(id))}
        BY <2>3, ParkShape
      <3> QED BY <1>1, <2>1, <2>3, <3>1, Ops DEF Written
    <2>4. CASE Proceeds(id)
      <3>1. MachineTx(id).entity = {Write(id, Onward(id).machine)} /\ ~Parks(id)
        BY <2>4, ProceedShape DEF Parks, Proceeds
      <3> QED BY <1>1, <2>1, <2>4, <3>1, Ops DEF Written
    <2> QED BY <2>2, <2>3, <2>4 DEF Parks, Proceeds
  <1>2. CASE id \in Of("Spawner")
    <2>1. Notify(id) = SpawnerTx(id) /\ id \notin Machines
      BY <1>2 DEF Notify, Machines, Of
    <2>2. CASE Reserve(id) = NoID
      <3>1. SpawnerTx(id).entity = {Write(id, Spent(id))}
        BY <2>2, SpawnerShape
      <3> QED BY <1>2, <2>1, <2>2, <3>1, Ops DEF Written
    <2>3. CASE Spawns(id)
      <3>1. SpawnerTx(id).entity = {Write(id, Spent(id)), Write(Reserve(id), NewMachine(Place(id)))}
        BY <2>3, SpawnerShape
      <3>2. Reserve(id) # NoID
        BY <2>3 DEF Spawns
      <3> QED BY <1>2, <2>1, <2>3, <3>1, <3>2, Ops DEF Written
    <2>4. CASE Reserve(id) # NoID /\ ~Spawns(id)
      <3>1. SpawnerTx(id).entity = {}
        BY <2>4, SpawnerShape
      <3> QED BY <2>1, <2>4, <3>1 DEF Written
    <2> QED BY <2>2, <2>3, <2>4
  <1>3. CASE id \notin Machines /\ id \notin Of("Spawner")
    BY <1>3, OthersTypes DEF Written
  <1> QED BY <1>1, <1>2, <1>3

(* The reserve of a spawner is nobody's, and nobody else's reserve. *)
LEMMA TicketFacts ==
  ASSUME IInv, NEW id \in Of("Spawner"), Reserve(id) # NoID
  PROVE  /\ Reserve(id) \in ID /\ Reserve(id) \notin Live /\ Reserve(id) # id
         /\ Reserve(id) < entity_id_source
         /\ \A s \in Of("Spawner") : Reserve(s) = Reserve(id) => s = id
  <1>1. id \in Live
    BY DEF Of
  <1>2. Reserve(id) \in ID
    BY SpawnerFacts DEF IInv
  <1> QED BY <1>1, <1>2 DEF IInv, TicketsAreFresh, Reserve

(* A transaction installs an entity once: a spawner's machine is not the   *)
(* spawner.                                                                *)
LEMMA InstalledOnce ==
  ASSUME IInv, NEW id \in Live
  PROVE  Once(Notify(id).entity)
  <1>1. TypeOK
    BY DEF IInv
  <1>2. ASSUME id \in Of("Spawner"), Spawns(id) PROVE Reserve(id) # id
    BY <1>2, TicketFacts DEF Spawns
  <1>3. \A c, v : Write(c, v).key = c
    BY Ops
  <1>4. CASE id \in Of("Spawner") /\ Spawns(id)
    <2>1. Written(Notify(id).entity) = {Write(id, Spent(id)), Write(Reserve(id), NewMachine(Place(id)))}
      <3>1. id \notin Machines /\ Reserve(id) # NoID
        BY <1>4 DEF Machines, Of, Spawns
      <3> QED BY <1>1, <1>4, <3>1, Installs
    <2> QED BY ONLY <1>2, <1>3, <1>4, <2>1 DEF Once
  <1>5. CASE ~(id \in Of("Spawner") /\ Spawns(id))
    <2>1. \E n : Written(Notify(id).entity) \subseteq {n}
      BY <1>1, <1>5, Installs
    <2> QED BY ONLY <2>1 DEF Once
  <1> QED BY <1>4, <1>5

(* At most one value, in the cell where a machine or a fixture stands, or  *)
(* where the player's command says.                                        *)
LEMMA ValuesWritten ==
  ASSUME TypeOK, NEW id \in Live
  PROVE  \/ Written(Notify(id).value) = {}
         \/ \E n : /\ Written(Notify(id).value) = {n} /\ n.desired \in Term
                   /\ \/ id \in Machines /\ Proceeds(id) /\ n.key = Here(id)
                      \/ /\ entity[id].kind = "Source" /\ n.key = entity[id].location
                         /\ value[n.key] = ABSENT
                      \/ /\ entity[id].kind \in {"Sink", "Counter", "Evenator"}
                         /\ n.key = entity[id].location /\ n.desired \notin Opcode
                      \/ /\ entity[id].kind = "Player" /\ queue # << >>
                         /\ n.key = Head(queue).coordinate /\ n.desired = Head(queue).value
  <1>0. \A v : Successor(v) \in Term \ Opcode
    <2>1. Range(Integer) \cap Opcode = {} /\ ERROR \notin Opcode
      BY DEF Range, Integer, Opcode, ERROR
    <2>2. \A v : Successor(v) \in Range(Integer) \cup {ERROR}
      <3>1. ASSUME NEW v, v \in Range(Integer) PROVE Int4(AsInt(v) + 1) \in Range(Integer)
        <4>1. AsInt(v) \in Int
          BY <3>1, Numbers DEF IsInty
        <4> QED BY <4>1, Numbers
      <3> QED BY <3>1 DEF Successor
    <2> QED BY <2>1, <2>2, SuccessorType
  <1>1. entity[id] \in Entity
    BY Alive
  <1>2. \A c, v : /\ Write(c, v).key = c /\ Write(c, v).desired = v
                  /\ Node(c, v, {WRITE_ON_COMMIT, COMMITTED}).key = c
                  /\ Node(c, v, {WRITE_ON_COMMIT, COMMITTED}).desired = v
    BY DEF Write, Node
  <1>3. CASE id \in Machines
    <2>1. Notify(id) = MachineTx(id)
      BY <1>3 DEF Notify, Machines
    <2>2. CASE Waits(id)
      <3>1. MachineTx(id).value = {}
        BY <2>2 DEF MachineTx, Waits, Nothing
      <3> QED BY <2>1, <3>1 DEF Written
    <2>3. CASE Parks(id)
      <3>1. MachineTx(id).value = {WaitOnValue(c, {COMMITTED}) : c \in WaitsForValue(Plan(id), Here(id))}
        BY <2>3, ParkShape
      <3> QED BY <2>1, <3>1, Ops DEF Written
    <2>4. CASE Proceeds(id)
      <3>1. MachineTx(id).value = {Write(Here(id), v) : v \in Onward(id).writes}
        BY <2>4, ProceedShape
      <3>2. Onward(id).writes = {} \/ \E v \in Term : Onward(id).writes = {v}
        BY <1>3, OnwardType
      <3>3. Written(MachineTx(id).value) = MachineTx(id).value
        BY <3>1, Ops DEF Written
      <3>4. CASE Onward(id).writes = {}
        BY <2>1, <3>1, <3>3, <3>4
      <3>5. ASSUME NEW v \in Term, Onward(id).writes = {v}
            PROVE  \E n : /\ Written(Notify(id).value) = {n} /\ n.desired \in Term
                          /\ n.key = Here(id)
        <4>1. Written(Notify(id).value) = {Write(Here(id), v)}
          BY <2>1, <3>1, <3>3, <3>5
        <4> QED BY <1>2, <4>1
      <3> QED BY <1>3, <2>4, <3>2, <3>4, <3>5
    <2> QED BY <2>2, <2>3, <2>4 DEF Parks, Proceeds
  <1>4. CASE id \in Of("Spawner")
    <2>1. Notify(id) = SpawnerTx(id)
      BY <1>4 DEF Notify, Of
    <2> QED BY <2>1, SpawnerShape DEF Written
  <1>5. CASE entity[id].kind = "Source"
    <2> DEFINE at == entity[id].location
               n == Write(at, entity[id].of)
    <2>1. entity[id].of \in Term /\ Notify(id) = SourceTx(id)
      BY <1>1, <1>5, KindsOf DEF SourceType, Notify
    <2>2. CASE value[at] = ABSENT
      <3>1. Notify(id).value = {WaitOnValue(at, WAIT_ALWAYS), n}
        BY <2>1, <2>2 DEF SourceTx, Nothing
      <3>2. Written(Notify(id).value) = {n}
        BY <3>1, Ops DEF Written
      <3> QED BY <1>2, <1>5, <2>1, <2>2, <3>2
    <2>3. CASE value[at] # ABSENT
      <3>1. Notify(id).value = {WaitOnValue(at, WAIT_ALWAYS)}
        BY <2>1, <2>3 DEF SourceTx, Nothing
      <3> QED BY <3>1, Ops DEF Written
    <2> QED BY <2>2, <2>3
  <1>6. CASE entity[id].kind = "Sink"
    <2> DEFINE at == entity[id].location
               n == Write(at, EMPTY)
    <2>1. EMPTY \in Term \ Opcode /\ Notify(id) = SinkTx(id)
      BY <1>6, Glyphs DEF Notify
    <2>2. CASE value[at] # ABSENT
      <3>1. Notify(id).value = {WaitOnValue(at, WAIT_ALWAYS), n}
        BY <2>1, <2>2 DEF SinkTx, Nothing
      <3>2. Written(Notify(id).value) = {n}
        BY <3>1, Ops DEF Written
      <3> QED BY <1>2, <1>6, <2>1, <2>2, <3>2
    <2>3. CASE value[at] = ABSENT
      <3>1. Notify(id).value = {WaitOnValue(at, WAIT_ALWAYS)}
        BY <2>1, <2>3 DEF SinkTx, Nothing
      <3> QED BY <3>1, Ops DEF Written
    <2> QED BY <2>2, <2>3
  <1>7. CASE entity[id].kind = "Counter"
    <2> DEFINE at == entity[id].location
    <2>1. Notify(id) = CounterTx(id)
      BY <1>7 DEF Notify
    <2>2. Notify(id).value = {} \/ \E v : Notify(id).value = {Write(at, Successor(v))}
      BY <2>1 DEF CounterTx, Nothing
    <2>3. ASSUME NEW v, Notify(id).value = {Write(at, Successor(v))}
          PROVE  Written(Notify(id).value) = {Write(at, Successor(v))}
      BY <2>3, Ops DEF Written
    <2>4. Notify(id).value = {} => Written(Notify(id).value) = {}
      BY DEF Written
    <2> QED BY <1>0, <1>2, <1>7, <2>2, <2>3, <2>4
  <1>8. CASE entity[id].kind = "Evenator"
    <2> DEFINE at == entity[id].location
               n == Node(at, Successor(value[at]), {WRITE_ON_COMMIT, COMMITTED})
    <2>1. Notify(id) = EvenatorTx(id)
      BY <1>8 DEF Notify
    <2>2. CASE value[at] \in {"1", "3"}
      <3>1. Notify(id).value = {n}
        BY <2>1, <2>2 DEF EvenatorTx, Nothing
      <3>2. Written(Notify(id).value) = {n}
        BY <3>1, Ops DEF Written
      <3>3. n.key = at /\ n.desired \in Term /\ n.desired \notin Opcode
        <4>1. n.key = at /\ n.desired = Successor(value[at])
          BY ONLY <1>2
        <4> QED BY ONLY <1>0, <4>1
      <3> HIDE DEF n
      <3> QED BY <1>8, <3>2, <3>3
    <2>3. CASE value[at] \notin {"1", "3"}
      <3>1. Notify(id).value = {WaitOnValue(at, WAIT_ALWAYS)}
        BY <2>1, <2>3 DEF EvenatorTx, Nothing
      <3> QED BY <3>1, Ops DEF Written
    <2> QED BY <2>2, <2>3
  <1>9. CASE entity[id].kind = "Player"
    <2>1. Notify(id) = PlayerTx(id)
      BY <1>9 DEF Notify
    <2>2. CASE queue = << >>
      BY <2>1, <2>2 DEF PlayerTx, Nothing, Written
    <2>3. CASE queue # << >>
      <3> DEFINE n == Write(Head(queue).coordinate, Head(queue).value)
      <3>1. Notify(id).value = {n}
        BY <2>1, <2>3 DEF PlayerTx, Nothing
      <3>2. Written(Notify(id).value) = {n}
        BY <3>1, Ops DEF Written
      <3>3. Head(queue) \in Inputs
        BY <2>3 DEF TypeOK
      <3>4. Head(queue).value \in Term
        BY <3>3, WorldAssumption
      <3> QED BY <1>2, <1>9, <2>3, <3>2, <3>4
    <2> QED BY <2>2, <2>3
  <1> QED BY <1>1, <1>3, <1>4, <1>5, <1>6, <1>7, <1>8, <1>9, KindsOf DEF Machines, Of

(* The assertion of the rebuild, from within. *)
LEMMA NeverTwice ==
  ASSUME IInv
  PROVE  WritesOnce
  <1>1. TypeOK /\ ready \subseteq Live
    BY DEF IInv, Awake, Expected
  <1>2. ASSUME NEW id \in ready PROVE \A p \in Maps : Once(Notify(id)[p])
    <2>1. id \in Live
      BY <1>1
    <2>2. Once(Notify(id).value)
      BY <1>1, <2>1, ValuesWritten DEF Once
    <2> QED BY <2>1, <2>2, PlacedOnce, InstalledOnce DEF Maps
  <1> QED BY <1>2 DEF WritesOnce, Once, Written
------------------------------------------------------------------------------
(* A step, with the transactions that commit. *)
Proposed == [id \in ready |-> Notify(id)]

(* A step in which just the transactions committed commit. *)
Steps(committed) ==
  committed \in SUBSET ready /\ Resolves(Proposed, committed) /\ Rebuild(Proposed, committed)

(* A step has its set of transactions that commit. *)
LEMMA StepSteps ==
  ASSUME Step
  PROVE  \E committed : Steps(committed)
  BY DEF Step, Steps, Proposed

(* What is proposed is what Notify makes of the living. *)
LEMMA Proposal ==
  ASSUME IInv, NEW id \in ready
  PROVE  id \in Live /\ Proposed[id] = Notify(id) /\ HasTypes(Notify(id))
  <1>1. TypeOK /\ id \in Live
    BY DEF IInv, Awake, Expected
  <1> QED BY <1>1, NotifyTypes DEF Proposed

(* No two of those that commit write a key of a map. *)
LEMMA OneWriter ==
  ASSUME IInv, NEW committed, Steps(committed), NEW p \in Maps,
         NEW i \in committed, NEW j \in committed,
         NEW n \in Written(Proposed[i][p]), NEW m \in Written(Proposed[j][p]), n.key = m.key
  PROVE  i = j /\ n = m
  <1>1. /\ i \in ready /\ j \in ready
        /\ \A k, l \in committed : k # l => ~Conflict(Proposed[k], Proposed[l])
    BY DEF Steps, Resolves
  <1>2. i = j
    <2>1. n.key \in Writes(Proposed[i][p]) /\ m.key \in Writes(Proposed[j][p])
      BY DEF Written, Writes
    <2> QED BY <1>1, <2>1 DEF Conflict
  <1>3. Proposed[i] = Notify(i)
    BY <1>1, Proposal
  <1> QED BY <1>1, <1>2, <1>3, NeverTwice DEF WritesOnce, Written

(* The writers of a key are the writing nodes of those that commit. *)
LEMMA WritersAre ==
  ASSUME IInv, NEW committed, Steps(committed), NEW p, NEW k
  PROVE  Writers(Proposed, p, k, committed) =
           UNION {{i} \X {n \in Written(Proposed[i][p]) : n.key = k} : i \in committed}
  BY DEF Writers, At, Written, Steps

(* What a key holds after the step is what the one who commits there wrote, *)
(* or what it held.                                                         *)
LEMMA RebuiltIs ==
  ASSUME IInv, NEW committed, Steps(committed), NEW p \in Maps, NEW k, NEW old
  PROVE  /\ \A i \in committed : \A n \in Written(Proposed[i][p]) :
              n.key = k => /\ Writers(Proposed, p, k, committed) = {<<i, n>>}
                           /\ Rebuilt(Proposed, p, k, committed, old) = n.desired
         /\ \/ Writers(Proposed, p, k, committed) = {}
               /\ Rebuilt(Proposed, p, k, committed, old) = old
            \/ \E i \in committed : \E n \in Written(Proposed[i][p]) : n.key = k
  <1> DEFINE w == Writers(Proposed, p, k, committed)
  <1>1. w = UNION {{i} \X {n \in Written(Proposed[i][p]) : n.key = k} : i \in committed}
    BY WritersAre
  <1>2. ASSUME NEW i \in committed, NEW n \in Written(Proposed[i][p]), n.key = k
        PROVE  w = {<<i, n>>} /\ Rebuilt(Proposed, p, k, committed, old) = n.desired
    <2>1. <<i, n>> \in w
      BY <1>1, <1>2
    <2>2. ASSUME NEW x \in w PROVE x = <<i, n>>
      <3>1. PICK j \in committed : \E m \in Written(Proposed[j][p]) : m.key = k /\ x = <<j, m>>
        BY <1>1, <2>2
      <3>2. PICK m \in Written(Proposed[j][p]) : m.key = k /\ x = <<j, m>>
        BY <3>1
      <3> QED BY <1>2, <3>2, OneWriter
    <2>3. w = {<<i, n>>}
      BY <2>1, <2>2
    <2> HIDE DEF w
    <2>4. (CHOOSE x \in w : TRUE) = <<i, n>>
      BY <2>3
    <2> QED BY <2>3, <2>4 DEF Rebuilt, w
  <1>3. CASE w = {}
    BY <1>2, <1>3 DEF Rebuilt
  <1>4. CASE w # {}
    BY <1>1, <1>2, <1>4
  <1> QED BY <1>2, <1>3, <1>4

(* A key that nobody names in a write has no writers. *)
LEMMA RebuiltNot ==
  ASSUME IInv, NEW committed, Steps(committed), NEW p \in Maps, NEW k,
         \A i \in committed : \A n \in Written(Proposed[i][p]) : n.key # k
  PROVE  Writers(Proposed, p, k, committed) = {}
  <1>1. Writers(Proposed, p, k, committed) =
          UNION {{i} \X {n \in Written(Proposed[i][p]) : n.key = k} : i \in committed}
    BY WritersAre
  <1> QED BY <1>1

------------------------------------------------------------------------------
(* What a step makes of a cell, and of an entity. *)
LEMMA CellStep ==
  ASSUME IInv, NEW committed, Steps(committed), NEW c \in Coordinate
  PROVE  /\ \A i \in committed : c \in Leaving(i) =>
              occupant'[c] = NoID /\ located'[c] = located[c] \ {i}
         /\ \A i \in committed : c \in Entering(i) =>
              occupant'[c] = Enters(i) /\ located'[c] = located[c] \cup {Enters(i)}
         /\ (\A i \in committed : c \notin Leaving(i) /\ c \notin Entering(i)) =>
              occupant'[c] = occupant[c] /\ located'[c] = located[c]
  <1>1. /\ TypeOK /\ committed \subseteq ready
        /\ occupant'[c] = Rebuilt(Proposed, "occupant", c, committed, occupant[c])
        /\ located'[c] = Rebuilt(Proposed, "located", c, committed, located[c])
    BY DEF IInv, Steps, Rebuild, Occupants, Locations
  <1>2. /\ "occupant" \in Maps /\ "located" \in Maps
        /\ \A k, v : Write(k, v).key = k /\ Write(k, v).desired = v
    BY Ops DEF Maps
  <1>3. ASSUME NEW i \in committed
        PROVE  /\ Written(Proposed[i].occupant) = {Write(k, NoID) : k \in Leaving(i)}
                                           \cup {Write(k, Enters(i)) : k \in Entering(i)}
               /\ Written(Proposed[i].located) = {Write(k, located[k] \ {i}) : k \in Leaving(i)}
                                          \cup {Write(k, located[k] \cup {Enters(i)}) : k \in Entering(i)}
    BY <1>1, Proposal, Placements
  <1>4. ASSUME NEW i \in committed, c \in Leaving(i)
        PROVE  occupant'[c] = NoID /\ located'[c] = located[c] \ {i}
    <2>1. /\ Write(c, NoID) \in Written(Proposed[i].occupant)
          /\ Write(c, located[c] \ {i}) \in Written(Proposed[i].located)
      BY <1>3, <1>4
    <2>2. /\ Rebuilt(Proposed, "occupant", c, committed, occupant[c]) = Write(c, NoID).desired
          /\ Rebuilt(Proposed, "located", c, committed, located[c]) = Write(c, located[c] \ {i}).desired
      BY <1>2, <2>1, RebuiltIs
    <2> QED BY <1>1, <1>2, <2>2
  <1>5. ASSUME NEW i \in committed, c \in Entering(i)
        PROVE  occupant'[c] = Enters(i) /\ located'[c] = located[c] \cup {Enters(i)}
    <2>1. /\ Write(c, Enters(i)) \in Written(Proposed[i].occupant)
          /\ Write(c, located[c] \cup {Enters(i)}) \in Written(Proposed[i].located)
      BY <1>3, <1>5
    <2>2. /\ Rebuilt(Proposed, "occupant", c, committed, occupant[c]) = Write(c, Enters(i)).desired
          /\ Rebuilt(Proposed, "located", c, committed, located[c])
               = Write(c, located[c] \cup {Enters(i)}).desired
      BY <1>2, <2>1, RebuiltIs
    <2> QED BY <1>1, <1>2, <2>2
  <1>6. ASSUME \A i \in committed : c \notin Leaving(i) /\ c \notin Entering(i)
        PROVE  occupant'[c] = occupant[c] /\ located'[c] = located[c]
    <2>1. ASSUME NEW i \in committed
          PROVE  /\ \A n \in Written(Proposed[i].occupant) : n.key # c
                 /\ \A n \in Written(Proposed[i].located) : n.key # c
      <3>1. \A n \in Written(Proposed[i].occupant) : n.key \in Leaving(i) \cup Entering(i)
        <4>1. Written(Proposed[i].occupant) = {Write(k, NoID) : k \in Leaving(i)}
                                           \cup {Write(k, Enters(i)) : k \in Entering(i)}
          BY <1>3
        <4> QED BY ONLY <1>2, <4>1
      <3>2. \A n \in Written(Proposed[i].located) : n.key \in Leaving(i) \cup Entering(i)
        <4>1. Written(Proposed[i].located) = {Write(k, located[k] \ {i}) : k \in Leaving(i)}
                                \cup {Write(k, located[k] \cup {Enters(i)}) : k \in Entering(i)}
          BY <1>3
        <4> QED BY ONLY <1>2, <4>1
      <3> QED BY <1>6, <3>1, <3>2
    <2> QED BY <1>1, <1>2, <2>1, RebuiltIs
  <1> QED BY <1>4, <1>5, <1>6

(* The spawners that put a machine into the world. *)
Spawning(committed) == {i \in committed : i \in Of("Spawner") /\ Spawns(i)}

(* The spawners that are delivered an EntityID. *)
Asking(committed) == {i \in committed : i \in Of("Spawner") /\ (Reserve(i) = NoID \/ Spawns(i))}

(* The EntityID that a spawner is delivered. *)
Ticket(id) == entity_id_source + Cumulant(Proposed, id)

(* The machines that arrive, or try again, and commit. *)
Moving(committed) == {i \in committed : i \in Machines /\ ~Waits(i)}

(* What the step makes of an entity, before the clock is counted down. *)
LEMMA EntityStep ==
  ASSUME IInv, NEW committed, Steps(committed)
  PROVE  /\ \A i \in Moving(committed) :
              entity'[i] = Elapse(IF Parks(i) THEN Parked(i) ELSE Onward(i).machine)
         /\ \A i \in Asking(committed) :
              entity'[i] = Elapse([entity[i] EXCEPT !.free_entity_id = Ticket(i)])
         /\ \A i \in Spawning(committed) : entity'[Reserve(i)] = Elapse(NewMachine(Place(i)))
         /\ \A k \in ID : /\ k \notin Moving(committed) /\ k \notin Asking(committed)
                          /\ \A i \in Spawning(committed) : k # Reserve(i)
                          => entity'[k] = Elapse(entity[k])
  <1>1. /\ TypeOK /\ committed \subseteq ready /\ ready \subseteq Live /\ Live \subseteq ID
        /\ entity' = Entities(Proposed, committed) /\ "entity" \in Maps
        /\ \A k, v : Write(k, v).key = k /\ Write(k, v).desired = v
    BY Ops DEF IInv, Steps, Rebuild, Maps, Awake, Expected, Live
  <1>2. ASSUME NEW i \in committed, NEW n \in Written(Proposed[i].entity), n.key \in ID
        PROVE  entity'[n.key] = Elapse(Deliver(Proposed, n.key, n.desired))
    <2>1. /\ Writers(Proposed, "entity", n.key, committed) = {<<i, n>>}
          /\ Rebuilt(Proposed, "entity", n.key, committed, NoEntity) = n.desired
      BY <1>1, RebuiltIs
    <2>2. Writers(Proposed, "entity", n.key, committed) # {}
      BY <2>1
    <2> QED BY <1>1, <1>2, <2>1, <2>2 DEF Entities
  <1>3. ASSUME NEW i \in committed
        PROVE  /\ i \in Live /\ i \in ready /\ Proposed[i] = Notify(i)
               /\ Written(Proposed[i].entity) =
                    IF i \in Machines /\ Parks(i) THEN {Write(i, Parked(i))}
                    ELSE IF i \in Machines /\ Proceeds(i) THEN {Write(i, Onward(i).machine)}
                    ELSE IF i \in Of("Spawner") /\ Reserve(i) = NoID THEN {Write(i, Spent(i))}
                    ELSE IF i \in Of("Spawner") /\ Spawns(i)
                      THEN {Write(i, Spent(i)), Write(Reserve(i), NewMachine(Place(i)))}
                    ELSE {}
    BY <1>1, <1>3, Proposal, Installs
  <1>4. ASSUME NEW i \in Moving(committed)
        PROVE  entity'[i] = Elapse(IF Parks(i) THEN Parked(i) ELSE Onward(i).machine)
    <2> DEFINE e == IF Parks(i) THEN Parked(i) ELSE Onward(i).machine
    <2>1. i \in committed /\ i \in Machines /\ i \in ID /\ (Parks(i) \/ Proceeds(i))
      BY <1>1, <1>3, <1>4 DEF Moving, Parks, Proceeds
    <2>2. Write(i, e) \in Written(Proposed[i].entity)
      BY <1>3, <2>1
    <2>3. entity'[i] = Elapse(Deliver(Proposed, i, e))
      <3> HIDE DEF e
      <3> QED BY <1>1, <1>2, <2>1, <2>2
    <2>4. Proposed[i].requested = 0
      <3>1. Notify(i) = MachineTx(i)
        BY <2>1 DEF Notify, Machines
      <3> QED BY <1>3, <2>1, <3>1, ParkShape, ProceedShape
    <2> QED BY <2>3, <2>4 DEF Deliver
  <1>5. ASSUME NEW i \in Asking(committed)
        PROVE  /\ entity'[i] = Elapse([entity[i] EXCEPT !.free_entity_id = Ticket(i)])
               /\ Proposed[i].requested = 1
    <2>1. i \in committed /\ i \in Of("Spawner") /\ i \notin Machines /\ i \in ID
          /\ (Reserve(i) = NoID \/ Spawns(i))
      BY <1>1, <1>3, <1>5 DEF Asking, Machines, Of
    <2>2. Write(i, Spent(i)) \in Written(Proposed[i].entity)
      BY <1>3, <2>1
    <2>3. entity'[i] = Elapse(Deliver(Proposed, i, Spent(i)))
      BY <1>1, <1>2, <2>1, <2>2
    <2>4. Proposed[i].requested = 1 /\ i \in ready
      <3>1. Notify(i) = SpawnerTx(i)
        BY <2>1 DEF Notify, Of
      <3> QED BY <1>3, <2>1, <3>1, SpawnerShape
    <2>5. Deliver(Proposed, i, Spent(i)) = [entity[i] EXCEPT !.free_entity_id = Ticket(i)]
      <3>1. Deliver(Proposed, i, Spent(i)) = [Spent(i) EXCEPT !.free_entity_id = Ticket(i)]
        BY <2>4 DEF Deliver, Ticket
      <3>2. entity[i] \in SpawnerType
        BY <1>1, <2>1, <1>3, Alive
      <3> QED BY <3>1, <3>2 DEF Spent, SpawnerType
    <2> QED BY <2>3, <2>4, <2>5
  <1>6. ASSUME NEW i \in Spawning(committed)
        PROVE  entity'[Reserve(i)] = Elapse(NewMachine(Place(i)))
    <2>1. i \in committed /\ i \in Of("Spawner") /\ i \notin Machines /\ Spawns(i) /\ Reserve(i) # NoID
      BY <1>6 DEF Spawning, Machines, Of, Spawns
    <2>2. Reserve(i) \in ID /\ Reserve(i) \notin ready
      BY <1>1, <2>1, TicketFacts
    <2>3. Write(Reserve(i), NewMachine(Place(i))) \in Written(Proposed[i].entity)
      BY <1>3, <2>1
    <2>4. entity'[Reserve(i)] = Elapse(Deliver(Proposed, Reserve(i), NewMachine(Place(i))))
      BY <1>1, <1>2, <2>1, <2>2, <2>3
    <2> QED BY <2>2, <2>4 DEF Deliver
  <1>7. ASSUME NEW k \in ID, k \notin Moving(committed), k \notin Asking(committed),
               \A i \in Spawning(committed) : k # Reserve(i)
        PROVE  entity'[k] = Elapse(entity[k])
    <2>1. ASSUME NEW i \in committed, NEW n \in Written(Proposed[i].entity)
          PROVE  n.key # k
      <3>1. n.key = i => i \in Moving(committed) \/ i \in Asking(committed)
        <4>1. i \in Machines => i \in Moving(committed) \/ Written(Proposed[i].entity) = {}
          BY <1>3, <2>1 DEF Moving, Machines, Of, Parks, Proceeds
        <4>2. i \notin Machines => i \in Asking(committed) \/ Written(Proposed[i].entity) = {}
          BY <1>3, <2>1 DEF Asking
        <4> QED BY <2>1, <4>1, <4>2
      <3>2. n.key = i \/ (i \in Spawning(committed) /\ n.key = Reserve(i))
        <4>1. CASE i \in Of("Spawner") /\ Spawns(i)
          <5>1. i \notin Machines /\ Reserve(i) # NoID
            BY <4>1 DEF Machines, Of, Spawns
          <5>2. Written(Proposed[i].entity) = {Write(i, Spent(i)), Write(Reserve(i), NewMachine(Place(i)))}
            BY <1>3, <4>1, <5>1
          <5> QED BY <1>1, <2>1, <4>1, <5>2 DEF Spawning
        <4>2. CASE ~(i \in Of("Spawner") /\ Spawns(i))
          <5>1. \E v : Written(Proposed[i].entity) \subseteq {Write(i, v)}
            BY <1>3, <4>2
          <5> QED BY <1>1, <2>1, <5>1
        <4> QED BY <4>1, <4>2
      <3> QED BY <1>7, <3>1, <3>2
    <2>2. Writers(Proposed, "entity", k, committed) = {}
      BY <1>1, <2>1, RebuiltNot
    <2> QED BY <1>1, <2>2 DEF Entities
  <1> QED BY <1>4, <1>5, <1>6, <1>7
------------------------------------------------------------------------------
(* EntityIDs. *)
LEMMA AskedFinite ==
  ASSUME IInv, NEW S \in SUBSET ready
  PROVE  /\ IsFiniteSet(Asked(Proposed, S)) /\ Cardinality(Asked(Proposed, S)) \in Nat
         /\ \A i, n : <<i, n>> \in Asked(Proposed, S) <=> i \in S /\ n \in 1 .. Proposed[i].requested
  <1>1. ASSUME NEW i \in S PROVE Proposed[i].requested \in {0, 1} /\ i \in ID
    BY Proposal DEF HasTypes, Live
  <1>2. ASSUME NEW i, NEW n
        PROVE  <<i, n>> \in Asked(Proposed, S) <=> i \in S /\ n \in 1 .. Proposed[i].requested
    BY DEF Asked
  <1>3. Asked(Proposed, S) \subseteq ID \X {1}
    BY <1>1 DEF Asked
  <1>4. IsFiniteSet(ID \X {1})
    BY Numbered, FS_Singleton, FS_Product
  <1>5. IsFiniteSet(Asked(Proposed, S))
    BY <1>3, <1>4, FS_Subset
  <1> QED BY <1>2, <1>5, FS_CardinalityType

(* The EntityIDs delivered are new, in bounds and different. *)
LEMMA TicketBounds ==
  ASSUME IInv, NEW committed, Steps(committed)
  PROVE  /\ entity_id_source' \in Nat /\ entity_id_source <= entity_id_source' /\ entity_id_source' <= LAST
         /\ \A i \in Asking(committed) :
              Ticket(i) \in ID /\ entity_id_source <= Ticket(i) /\ Ticket(i) < entity_id_source'
         /\ \A i, j \in Asking(committed) : Ticket(i) = Ticket(j) => i = j
  <1> DEFINE Before(i) == {k \in ready : k < i}
  <1>1. /\ entity_id_source \in Nat /\ entity_id_source >= 1
        /\ LAST \in Nat /\ LAST = Cardinality(ID) + 1 /\ ID = 1 .. Cardinality(ID) /\ Cardinality(ID) \in Nat
        /\ entity_id_source' = entity_id_source + Requested(Proposed)
        /\ entity_id_source + Requested(Proposed) <= LAST
    BY Numbered, WorldAssumption DEF IInv, TypeOK, LAST, Steps, Rebuild
  <1>2. Requested(Proposed) \in Nat
    BY AskedFinite DEF Requested
  <1>3. ASSUME NEW i \in Asking(committed)
        PROVE  i \in ready /\ i \in Nat /\ Proposed[i].requested = 1
    <2>1. i \in committed /\ i \in Of("Spawner") /\ (Reserve(i) = NoID \/ Spawns(i)) /\ i \in ready
      BY <1>3 DEF Asking, Steps
    <2>2. Proposed[i] = SpawnerTx(i) /\ i \in Nat
      BY <2>1, Proposal, Numbered DEF Notify, Of, Live
    <2> QED BY <2>1, <2>2, SpawnerShape
  <1>4. \A i : Before(i) \in SUBSET ready
    OBVIOUS
  <1>5. ASSUME NEW i \in Asking(committed)
        PROVE  Cumulant(Proposed, i) \in Nat /\ Cumulant(Proposed, i) < Requested(Proposed)
    <2> DEFINE A == Asked(Proposed, Before(i))
               B == Asked(Proposed, ready)
    <2>1. IsFiniteSet(B) /\ Cardinality(A) \in Nat
      BY <1>4, AskedFinite
    <2>2. A \subseteq B
      BY <1>4 DEF Asked
    <2>3. <<i, 1>> \in B
      BY <1>3, AskedFinite
    <2>4. ~(i < i)
      BY <1>3
    <2>5. <<i, 1>> \notin A
      BY <1>4, <2>4, AskedFinite
    <2>6. Cardinality(A) < Cardinality(B)
      <3> HIDE DEF A, B
      <3> QED BY <2>1, <2>2, <2>3, <2>5, FS_Subset, FS_CardinalityType
    <2> QED BY <2>1, <2>6 DEF Cumulant, Requested
  <1>6. ASSUME NEW i \in Asking(committed), NEW j \in Asking(committed), i < j
        PROVE  Cumulant(Proposed, i) < Cumulant(Proposed, j)
    <2> DEFINE A == Asked(Proposed, Before(i))
               B == Asked(Proposed, Before(j))
    <2>1. IsFiniteSet(B) /\ Cardinality(A) \in Nat
      BY <1>4, AskedFinite
    <2>0. ready \subseteq Nat
      BY Proposal, Numbered DEF Live
    <2>2. Before(i) \subseteq Before(j)
      <3>1. i \in Nat /\ j \in Nat /\ i < j
        BY <1>3, <1>6
      <3>2. \A k \in Nat : k < i => k < j
        BY ONLY <3>1
      <3> QED BY <2>0, <3>2
    <2>3. A \subseteq B
      BY <2>2 DEF Asked
    <2>4. <<i, 1>> \in B
      BY <1>3, <1>4, <1>6, AskedFinite
    <2>5. ~(i < i)
      BY <1>3
    <2>6. <<i, 1>> \notin A
      BY <1>4, <2>5, AskedFinite
    <2>7. Cardinality(A) < Cardinality(B)
      <3> HIDE DEF A, B
      <3> QED BY <2>1, <2>3, <2>4, <2>6, FS_Subset, FS_CardinalityType
    <2> QED BY <2>7 DEF Cumulant
  <1>7. ASSUME NEW i \in Asking(committed)
        PROVE  Ticket(i) \in ID /\ entity_id_source <= Ticket(i) /\ Ticket(i) < entity_id_source'
    BY <1>1, <1>2, <1>5 DEF Ticket
  <1>8. ASSUME NEW i \in Asking(committed), NEW j \in Asking(committed), Ticket(i) = Ticket(j)
        PROVE  i = j
    BY <1>1, <1>3, <1>5, <1>6, <1>8 DEF Ticket
  <1> QED BY <1>1, <1>2, <1>7, <1>8
------------------------------------------------------------------------------
(* What becomes of an entity. *)
SamePlace(e, d) ==
  /\ e.kind = d.kind /\ e.phase = d.phase /\ e.old_location = d.old_location
  /\ e.new_location = d.new_location /\ e.new_heading = d.new_heading

(* Counting down the clock moves no machine. *)
LEMMA Elapsed ==
  ASSUME NEW e \in MachineType
  PROVE  Elapse(e) \in MachineType /\ SamePlace(Elapse(e), e)
  <1>1. e.eta > 0 => e.eta - 1 \in 0 .. TRAVEL
    BY WorldAssumption DEF MachineType
  <1> QED BY <1>1 DEF Elapse, MachineType, SamePlace

(* The clock is a machine's only. *)
LEMMA ElapsedOthers ==
  /\ \A e : e = NoEntity \/ e.kind # "Machine" => Elapse(e) = e
  /\ \A c : Elapse(NewMachine(c)) = NewMachine(c)
  BY DEF Elapse, NewMachine

(* What the step makes of every entity. *)
LEMMA EntityAfter ==
  ASSUME IInv, NEW committed, Steps(committed)
  PROVE  /\ \A k \in Machines :
              /\ entity'[k] \in MachineType
              /\ k \notin Moving(committed) => SamePlace(entity'[k], entity[k])
              /\ k \in Moving(committed) /\ Parks(k) => SamePlace(entity'[k], Rested(k))
              /\ k \in Moving(committed) /\ Proceeds(k) => SamePlace(entity'[k], Onward(k).machine)
         /\ \A k \in Of("Spawner") :
              /\ entity'[k] \in SpawnerType /\ entity'[k].location = Place(k)
              /\ entity'[k].free_entity_id = IF k \in Asking(committed) THEN Ticket(k) ELSE Reserve(k)
         /\ \A k \in Live : k \notin Machines /\ k \notin Of("Spawner") => entity'[k] = entity[k]
         /\ \A k \in Spawning(committed) : entity'[Reserve(k)] = NewMachine(Place(k))
         /\ \A k \in ID \ Live : \/ entity'[k] = NoEntity
                                 \/ \E i \in Spawning(committed) : k = Reserve(i)
  <1>1. /\ TypeOK /\ committed \subseteq ready /\ ready \subseteq Live /\ Live \subseteq ID
        /\ Machines \subseteq Live /\ Of("Spawner") \subseteq Live
    BY DEF IInv, Steps, Awake, Expected, Live, Machines, Of
  <1>2. \A i \in Spawning(committed) : Reserve(i) \notin Live
    BY <1>1, TicketFacts DEF Spawning, Spawns
  <1>3. ASSUME NEW k \in Machines
        PROVE  /\ entity'[k] \in MachineType
               /\ k \notin Moving(committed) => SamePlace(entity'[k], entity[k])
               /\ k \in Moving(committed) /\ Parks(k) => SamePlace(entity'[k], Rested(k))
               /\ k \in Moving(committed) /\ Proceeds(k) => SamePlace(entity'[k], Onward(k).machine)
    <2>1. k \in Live /\ k \in ID /\ k \notin Asking(committed)
      BY <1>1 DEF Asking, Machines, Of
    <2>2. CASE k \notin Moving(committed)
      <3>1. entity'[k] = Elapse(entity[k])
        BY <1>2, <2>1, <2>2, EntityStep
      <3>2. entity[k] \in MachineType
        BY <1>1, <2>1, Alive
      <3> QED BY <2>2, <3>1, <3>2, Elapsed
    <2>3. CASE k \in Moving(committed) /\ Parks(k)
      <3>1. entity'[k] = Elapse(Parked(k))
        BY <2>3, EntityStep
      <3>2. Parked(k) \in MachineType /\ Rested(k) \in MachineType
        BY <1>1, RestedType
      <3>3. SamePlace(Parked(k), Rested(k))
        BY <3>2 DEF Parked, SamePlace, MachineType
      <3>4. Elapse(Parked(k)) \in MachineType /\ SamePlace(Elapse(Parked(k)), Parked(k))
        BY <3>2, Elapsed
      <3>5. SamePlace(entity'[k], Rested(k))
        BY <3>1, <3>3, <3>4 DEF SamePlace
      <3>6. ~Proceeds(k)
        BY <2>3 DEF Proceeds, Parks
      <3> QED BY <2>3, <3>1, <3>4, <3>5, <3>6
    <2>4. CASE k \in Moving(committed) /\ ~Parks(k)
      <3>1. entity'[k] = Elapse(Onward(k).machine)
        BY <2>4, EntityStep
      <3>2. Onward(k).machine \in MachineType
        BY <1>1, OnwardType
      <3> QED BY <2>4, <3>1, <3>2, Elapsed
    <2> QED BY <2>2, <2>3, <2>4
  <1>4. ASSUME NEW k \in Of("Spawner")
        PROVE  /\ entity'[k] \in SpawnerType /\ entity'[k].location = Place(k)
               /\ entity'[k].free_entity_id = IF k \in Asking(committed) THEN Ticket(k) ELSE Reserve(k)
    <2>1. k \in Live /\ k \in ID /\ k \notin Moving(committed) /\ entity[k] \in SpawnerType
      BY <1>1, Alive DEF Moving, Machines, Of
    <2>2. CASE k \in Asking(committed)
      <3> DEFINE e == [entity[k] EXCEPT !.free_entity_id = Ticket(k)]
      <3>1. entity'[k] = Elapse(e)
        BY <2>2, EntityStep
      <3>2. Ticket(k) \in ID
        BY <2>2, TicketBounds
      <3>3. e \in SpawnerType /\ e.kind # "Machine" /\ e.location = Place(k) /\ e.free_entity_id = Ticket(k)
        BY <2>1, <3>2 DEF SpawnerType, Place
      <3> HIDE DEF e
      <3> QED BY <2>2, <3>1, <3>3, ElapsedOthers
    <2>3. CASE k \notin Asking(committed)
      <3>1. entity'[k] = Elapse(entity[k])
        BY <1>2, <2>1, <2>3, EntityStep
      <3>2. entity[k].kind # "Machine"
        BY <2>1 DEF SpawnerType
      <3> QED BY <2>1, <2>3, <3>1, <3>2, ElapsedOthers DEF Place, Reserve
    <2> QED BY <2>2, <2>3
  <1>5. ASSUME NEW k \in Live, k \notin Machines, k \notin Of("Spawner")
        PROVE  entity'[k] = entity[k]
    <2>1. k \in ID /\ k \notin Moving(committed) /\ k \notin Asking(committed) /\ entity[k].kind # "Machine"
      BY <1>1, <1>5 DEF Moving, Asking, Machines
    <2>2. entity'[k] = Elapse(entity[k])
      BY <1>2, <1>5, <2>1, EntityStep
    <2> QED BY <2>1, <2>2, ElapsedOthers
  <1>6. ASSUME NEW k \in Spawning(committed)
        PROVE  entity'[Reserve(k)] = NewMachine(Place(k))
    BY EntityStep, ElapsedOthers
  <1>7. ASSUME NEW k \in ID \ Live, \A i \in Spawning(committed) : k # Reserve(i)
        PROVE  entity'[k] = NoEntity
    <2>1. k \in ID /\ entity[k] = NoEntity /\ k \notin Moving(committed) /\ k \notin Asking(committed)
      BY <1>1, <1>7 DEF Live, Moving, Asking
    <2>2. entity'[k] = Elapse(entity[k])
      BY <1>7, <2>1, EntityStep
    <2> QED BY <2>1, <2>2, ElapsedOthers
  <1> QED BY <1>3, <1>4, <1>5, <1>6, <1>7

(* Machines are added by spawners, and nobody goes. *)
LEMMA LiveAfter ==
  ASSUME IInv, NEW committed, Steps(committed)
  PROVE  /\ Live' = Live \cup {Reserve(i) : i \in Spawning(committed)}
         /\ Machines' = Machines \cup {Reserve(i) : i \in Spawning(committed)}
         /\ Of("Spawner")' = Of("Spawner") /\ Of("Player")' = Of("Player")
         /\ \A k \in Live : entity'[k].kind = entity[k].kind
  <1>1. /\ TypeOK /\ Live \subseteq ID /\ Machines \subseteq Live /\ Of("Spawner") \subseteq Live
        /\ NoEntity \notin Entity
    BY WorldAssumption DEF IInv, Live, Machines, Of
  <1>2. ASSUME NEW k \in Live
        PROVE  entity'[k] # NoEntity /\ entity'[k].kind = entity[k].kind
    <2>1. entity[k] \in Entity /\ entity[k] # NoEntity
      BY <1>1, <1>2, Alive
    <2>2. CASE k \in Machines
      <3>1. entity'[k] \in MachineType /\ entity[k].kind = "Machine"
        BY <2>2, EntityAfter DEF Machines
      <3> QED BY <1>1, <3>1 DEF MachineType, Entity
    <2>3. CASE k \in Of("Spawner")
      <3>1. entity'[k] \in SpawnerType /\ entity[k].kind = "Spawner"
        BY <2>3, EntityAfter DEF Of
      <3> QED BY <1>1, <3>1 DEF SpawnerType, Entity
    <2>4. CASE k \notin Machines /\ k \notin Of("Spawner")
      BY <1>2, <2>1, <2>4, EntityAfter
    <2> QED BY <2>2, <2>3, <2>4
  <1>3. ASSUME NEW i \in Spawning(committed)
        PROVE  /\ Reserve(i) \in ID \ Live /\ entity'[Reserve(i)].kind = "Machine"
               /\ entity'[Reserve(i)] # NoEntity
    <2>1. i \in Of("Spawner") /\ Reserve(i) # NoID
      BY <1>3 DEF Spawning, Spawns
    <2>2. Reserve(i) \in ID \ Live /\ Place(i) \in Coordinate
      BY <1>1, <2>1, TicketFacts, SpawnerFacts
    <2>3. entity'[Reserve(i)] = NewMachine(Place(i)) /\ NewMachine(Place(i)) \in MachineType
      BY <1>3, <2>2, EntityAfter, NewMachineType
    <2> QED BY <1>1, <2>2, <2>3 DEF MachineType, Entity
  <1>4. ASSUME NEW k \in ID \ Live, \A i \in Spawning(committed) : k # Reserve(i)
        PROVE  entity'[k] = NoEntity
    BY <1>4, EntityAfter
  <1>5. Live' = Live \cup {Reserve(i) : i \in Spawning(committed)}
    BY <1>1, <1>2, <1>3, <1>4 DEF Live
  <1>6. Machines' = Machines \cup {Reserve(i) : i \in Spawning(committed)}
    BY <1>1, <1>2, <1>3, <1>5 DEF Machines
  <1>7. Of("Spawner")' = Of("Spawner")
    BY <1>1, <1>2, <1>3, <1>5 DEF Of
  <1>8. Of("Player")' = Of("Player")
    BY <1>1, <1>2, <1>3, <1>5 DEF Of
  <1> QED BY <1>2, <1>5, <1>6, <1>7, <1>8
------------------------------------------------------------------------------
(* The parts of the invariant, one by one. *)
LEMMA FreshStep ==
  ASSUME IInv, NEW committed, Steps(committed)
  PROVE  TicketsAreFresh'
  <1> DEFINE holders == {s \in Of("Spawner") : entity[s].free_entity_id # NoID}
             Born == {Reserve(i) : i \in Spawning(committed)}
  <1>1. /\ entity_id_source \in Nat /\ entity_id_source' \in Nat /\ entity_id_source <= entity_id_source'
        /\ \A id \in Live : id \in Nat /\ id < entity_id_source
    BY TicketBounds, Numbered DEF IInv, TypeOK, TicketsAreFresh, Live
  <1>2. ASSUME NEW i \in Spawning(committed)
        PROVE  /\ i \in Of("Spawner") /\ i \in Asking(committed) /\ Reserve(i) # NoID
               /\ Reserve(i) \in Nat /\ Reserve(i) < entity_id_source
    <2>1. i \in Of("Spawner") /\ i \in Asking(committed) /\ Reserve(i) # NoID
      BY <1>2 DEF Spawning, Spawns, Asking
    <2> QED BY <2>1, TicketFacts, Numbered
  <1>3. ASSUME NEW id \in Live' PROVE id \in Nat /\ id < entity_id_source /\ id < entity_id_source'
    <2>1. id \in Live \/ id \in Born
      BY <1>3, LiveAfter
    <2>2. id \in Nat /\ id < entity_id_source
      BY <1>1, <1>2, <2>1
    <2> QED BY ONLY <1>1, <2>2
  <1>4. ASSUME NEW s \in Of("Spawner"), s \in Asking(committed)
        PROVE  /\ entity'[s].free_entity_id = Ticket(s) /\ Ticket(s) \in Nat
               /\ entity_id_source <= Ticket(s) /\ Ticket(s) < entity_id_source'
    BY <1>4, EntityAfter, TicketBounds, Numbered
  <1>5. ASSUME NEW s \in Of("Spawner"), s \notin Asking(committed), entity'[s].free_entity_id # NoID
        PROVE  /\ entity'[s].free_entity_id = Reserve(s) /\ Reserve(s) \in Nat /\ Reserve(s) # NoID
               /\ Reserve(s) < entity_id_source /\ Reserve(s) \notin Live'
               /\ \A t \in Of("Spawner") : Reserve(t) = Reserve(s) => t = s
    <2>1. entity'[s].free_entity_id = Reserve(s) /\ Reserve(s) # NoID
      BY <1>5, EntityAfter
    <2>2. /\ Reserve(s) \in ID /\ Reserve(s) \notin Live /\ Reserve(s) < entity_id_source
          /\ \A t \in Of("Spawner") : Reserve(t) = Reserve(s) => t = s
      BY <2>1, TicketFacts
    <2>3. Reserve(s) \notin Born
      BY <1>2, <1>5, <2>2
    <2> QED BY <2>1, <2>2, <2>3, LiveAfter, Numbered
  <1>6. Of("Spawner")' = Of("Spawner")
    BY LiveAfter
  <1>7. ASSUME NEW s \in Of("Spawner"), entity'[s].free_entity_id # NoID
        PROVE  entity'[s].free_entity_id \notin Live' /\ entity'[s].free_entity_id < entity_id_source'
    <2>1. CASE s \in Asking(committed)
      <3>1. Ticket(s) \notin Live'
        <4>1. ~(Ticket(s) < entity_id_source)
          BY <1>1, <1>4, <2>1
        <4> QED BY <1>3, <4>1
      <3> QED BY <1>4, <2>1, <3>1
    <2>2. CASE s \notin Asking(committed)
      <3>1. Reserve(s) < entity_id_source'
        BY <1>1, <1>5, <1>7, <2>2
      <3> QED BY <1>5, <1>7, <2>2, <3>1
    <2> QED BY <2>1, <2>2
  <1>8. ASSUME NEW s \in Of("Spawner"), NEW t \in Of("Spawner"), s # t,
               entity'[s].free_entity_id # NoID, entity'[t].free_entity_id # NoID
        PROVE  entity'[s].free_entity_id # entity'[t].free_entity_id
    <2>1. CASE s \in Asking(committed) /\ t \in Asking(committed)
      BY <1>4, <1>8, <2>1, TicketBounds
    <2>2. CASE s \notin Asking(committed) /\ t \notin Asking(committed)
      BY <1>5, <1>8, <2>2
    <2>3. CASE s \in Asking(committed) /\ t \notin Asking(committed)
      <3>1. Ticket(s) # Reserve(t)
        BY <1>1, <1>4, <1>5, <1>8, <2>3
      <3> QED BY <1>4, <1>5, <1>8, <2>3, <3>1
    <2>4. CASE s \notin Asking(committed) /\ t \in Asking(committed)
      <3>1. Ticket(t) # Reserve(s)
        BY <1>1, <1>4, <1>5, <1>8, <2>4
      <3> QED BY <1>4, <1>5, <1>8, <2>4, <3>1
    <2> QED BY <2>1, <2>2, <2>3, <2>4
  <1> QED BY <1>3, <1>6, <1>7, <1>8 DEF TicketsAreFresh

(* A machine on the road, after the step. *)
LEMMA HopsStep ==
  ASSUME IInv, NEW committed, Steps(committed)
  PROVE  Hops'
  <1>1. /\ TypeOK /\ Machines' = Machines \cup {Reserve(i) : i \in Spawning(committed)}
    BY LiveAfter DEF IInv
  <1>2. ASSUME NEW m \in Machines
        PROVE  entity'[m].phase = "TRAVELLING" <=> entity'[m].old_location # entity'[m].new_location
    <2>1. CASE m \notin Moving(committed)
      BY <2>1, EntityAfter DEF SamePlace, IInv, Hops
    <2>2. CASE m \in Moving(committed) /\ Parks(m)
      <3>1. SamePlace(entity'[m], Rested(m)) /\ Rested(m) \in MachineType
        BY <1>1, <2>2, EntityAfter, RestedType
      <3>2. /\ Rested(m).phase = "WAITING_FOR_NEW" /\ Rested(m).old_location = Here(m)
            /\ Rested(m).new_location = Here(m)
        <4>1. entity[m] \in MachineType
          BY <1>1, Alive DEF Machines
        <4> QED BY <4>1 DEF Rested, Here, MachineType
      <3> QED BY <3>1, <3>2 DEF SamePlace
    <2>3. CASE m \in Moving(committed) /\ Proceeds(m)
      <3>1. Plan(m).next # Here(m)
        BY <1>1, Planned DEF Here
      <3> QED BY <1>1, <2>3, <3>1, EntityAfter, OnwardType DEF SamePlace
    <2> QED BY <2>1, <2>2, <2>3 DEF Moving, Parks, Proceeds
  <1>3. ASSUME NEW i \in Spawning(committed)
        PROVE  LET e == entity'[Reserve(i)] IN
               e.phase = "TRAVELLING" <=> e.old_location # e.new_location
    <2>1. entity'[Reserve(i)] = NewMachine(Place(i))
      BY <1>3, EntityAfter
    <2> QED BY <2>1 DEF NewMachine
  <1> QED BY <1>1, <1>2, <1>3 DEF Hops

(* Nobody else touches the cell of a machine that does not leave it. *)
LEMMA KeepsCell ==
  ASSUME IInv, NEW committed, Steps(committed), NEW c \in Coordinate, NEW m \in Machines,
         occupant[c] = m, m \notin Moving(committed) \/ c = Here(m)
  PROVE  occupant'[c] = m
  <1>1. committed \subseteq Live /\ m # NoID
    BY Numbered DEF Steps, IInv, Awake, Expected, Machines, Live
  <1>2. ASSUME NEW i \in committed, c \in Leaving(i) PROVE FALSE
    <2>1. i = m /\ c # Here(i)
      BY <1>1, <1>2, PlaceFacts
    <2>2. m \in Moving(committed)
      BY <1>2, <2>1 DEF Leaving, Moving
    <2> QED BY <2>1, <2>2
  <1>3. ASSUME NEW i \in committed, c \in Entering(i) PROVE FALSE
    <2>1. i = m /\ c # Here(i)
      BY <1>1, <1>3, PlaceFacts
    <2>2. m \in Moving(committed)
      BY <1>3, <2>1 DEF Entering, Moving, Proceeds
    <2> QED BY <2>1, <2>2
  <1> QED BY <1>2, <1>3, CellStep

(* A machine occupies the cells it stands in, after the step. *)
LEMMA FootingStep ==
  ASSUME IInv, NEW committed, Steps(committed)
  PROVE  Footing'
  <1>1. /\ TypeOK /\ Machines' = Machines \cup {Reserve(i) : i \in Spawning(committed)}
        /\ committed \subseteq Live
    BY LiveAfter DEF IInv, Steps, Awake, Expected
  <1>2. ASSUME NEW m \in Machines
        PROVE  occupant'[entity'[m].old_location] = m /\ occupant'[entity'[m].new_location] = m
    <2> DEFINE e == entity[m]
    <2>1. /\ e \in MachineType /\ occupant[e.old_location] = m /\ occupant[e.new_location] = m
          /\ e.old_location \in Coordinate /\ e.new_location \in Coordinate /\ Here(m) = e.new_location
      BY <1>1, Alive DEF Machines, MachineType, Here, IInv, Footing
    <2>2. occupant'[Here(m)] = m
      BY <2>1, KeepsCell
    <2>3. CASE m \notin Moving(committed)
      <3>1. occupant'[e.old_location] = m
        BY <2>1, <2>3, KeepsCell
      <3> QED BY <2>1, <2>2, <2>3, <3>1, EntityAfter DEF SamePlace
    <2>4. CASE m \in Moving(committed) /\ Parks(m)
      <3>1. Rested(m).old_location = Here(m) /\ Rested(m).new_location = Here(m)
        BY <2>1 DEF Rested, Here, MachineType
      <3> QED BY <2>2, <2>4, <3>1, EntityAfter DEF SamePlace
    <2>5. CASE m \in Moving(committed) /\ Proceeds(m)
      <3>1. Plan(m).next \in Entering(m) /\ Enters(m) = m /\ m \in committed
        BY <2>5 DEF Entering, Enters, Taking, Moving
      <3>2. Plan(m).next \in Coordinate
        BY <1>1, Planned
      <3>3. occupant'[Plan(m).next] = m
        BY <3>1, <3>2, CellStep
      <3> QED BY <1>1, <2>2, <2>5, <3>3, EntityAfter, OnwardType DEF SamePlace
    <2> QED BY <2>3, <2>4, <2>5 DEF Moving, Parks, Proceeds
  <1>3. ASSUME NEW i \in Spawning(committed)
        PROVE  LET e == entity'[Reserve(i)] IN
               occupant'[e.old_location] = Reserve(i) /\ occupant'[e.new_location] = Reserve(i)
    <2>1. i \in committed /\ i \in Of("Spawner") /\ Spawns(i) /\ i \notin Machines
      BY <1>3 DEF Spawning, Of, Machines
    <2>2. Place(i) \in Entering(i) /\ Enters(i) = Reserve(i) /\ Place(i) \in Coordinate
      BY <1>1, <2>1, SpawnerFacts DEF Entering, Enters
    <2>3. occupant'[Place(i)] = Reserve(i)
      BY <2>1, <2>2, CellStep
    <2>4. entity'[Reserve(i)] = NewMachine(Place(i))
      BY <1>3, EntityAfter
    <2> QED BY <2>3, <2>4 DEF NewMachine
  <1> QED BY <1>1, <1>2, <1>3 DEF Footing

(* Who takes a cell is a machine of the new world. *)
LEMMA EntersMachine ==
  ASSUME IInv, NEW committed, Steps(committed), NEW i \in committed, NEW c \in Entering(i)
  PROVE  /\ Enters(i) \in Machines' /\ c \in Coordinate
         /\ occupant[c] = NoID \/ occupant[c] = Enters(i)
         /\ i \notin Machines => i \in Spawning(committed) /\ Enters(i) = Reserve(i)
  <1>1. i \in Live
    BY DEF Steps, IInv, Awake, Expected
  <1>2. c \in Coordinate /\ (occupant[c] = NoID \/ (i \in Machines /\ occupant[c] = i))
    BY <1>1, PlaceFacts
  <1>3. CASE i \in Machines
    BY <1>2, <1>3, LiveAfter DEF Enters
  <1>4. CASE i \notin Machines
    <2>1. i \in Spawning(committed) /\ Enters(i) = Reserve(i)
      BY <1>4 DEF Entering, Spawning, Enters
    <2> QED BY <1>2, <1>4, <2>1, LiveAfter
  <1> QED BY <1>3, <1>4

(* Only machines occupy cells, after the step. *)
LEMMA OccupiedStep ==
  ASSUME IInv, NEW committed, Steps(committed)
  PROVE  Occupied'
  <1> SUFFICES ASSUME NEW c \in Coordinate PROVE occupant'[c] \in Machines' \cup {NoID}
    BY DEF Occupied
  <1>1. CASE \E i \in committed : c \in Leaving(i)
    BY <1>1, CellStep
  <1>2. CASE \E i \in committed : c \in Entering(i)
    BY <1>2, CellStep, EntersMachine
  <1>3. CASE \A i \in committed : c \notin Leaving(i) /\ c \notin Entering(i)
    BY <1>3, CellStep, LiveAfter DEF IInv, Occupied
  <1> QED BY <1>1, <1>2, <1>3

(* Who stands in a cell. *)
Standing(id, c) ==
  id \in Live /\ id \notin Of("Player")
  /\ (IF id \in Machines THEN occupant[c] = id ELSE entity[id].location = c)

(* The map of locations mirrors that of occupants, after the step. *)
LEMMA LocatedStep ==
  ASSUME IInv, NEW committed, Steps(committed)
  PROVE  LocatedMirrorsOccupancy'
  <1> DEFINE Born == {Reserve(i) : i \in Spawning(committed)}
             Fixed(id, c) == id \in Live /\ id \notin Of("Player") /\ id \notin Machines
                             /\ entity[id].location = c
  <1>1. /\ Live' = Live \cup Born /\ Machines' = Machines \cup Born /\ Of("Player")' = Of("Player")
        /\ \A c \in Coordinate : occupant[c] \in Machines \cup {NoID}
        /\ \A c \in Coordinate : \A id : id \in located[c] <=> Standing(id, c)
        /\ Machines \subseteq Live /\ Machines \cap Of("Player") = {} /\ Of("Player") \subseteq Live
    BY LiveAfter DEF IInv, Occupied, LocatedMirrorsOccupancy, Standing, Machines, Of
  <1>2. ASSUME NEW i \in Spawning(committed) PROVE Reserve(i) \notin Live
    BY TicketFacts DEF Spawning, Spawns
  <1>3. ASSUME NEW id \in Live, id \notin Machines, id \notin Of("Player")
        PROVE  entity'[id].location = entity[id].location
    <2>1. CASE id \in Of("Spawner")
      BY <2>1, EntityAfter DEF Place
    <2>2. CASE id \notin Of("Spawner")
      BY <1>3, <2>2, EntityAfter
    <2> QED BY <2>1, <2>2
  <1>4. ASSUME NEW c \in Coordinate, NEW id
        PROVE  Standing(id, c)' <=> Fixed(id, c) \/ (id \in Machines' /\ occupant'[c] = id)
    <2>1. CASE id \in Machines'
      <3>1. id \in Live' /\ id \notin Of("Player")' /\ id \notin Of("Player")
        BY <1>1, <1>2, <2>1
      <3>2. ~Fixed(id, c)
        BY <1>1, <1>2, <2>1
      <3> QED BY <2>1, <3>1, <3>2 DEF Standing
    <2>2. CASE id \notin Machines'
      BY <1>1, <1>3, <2>2 DEF Standing
    <2> QED BY <2>1, <2>2
  <1>5. ASSUME NEW c \in Coordinate, NEW id
        PROVE  id \in located[c] <=> Fixed(id, c) \/ (id \in Machines /\ occupant[c] = id)
    BY <1>1 DEF Standing
  <1>6. NoID \notin Machines' /\ NoID \notin Machines
    BY <1>1, Numbered, EntityAfter, TicketFacts DEF Live, Spawning, Spawns
  <1>7. ASSUME NEW c \in Coordinate, NEW id
        PROVE  id \in located'[c] <=> Standing(id, c)'
    <2>1. ASSUME NEW i \in committed, c \in Leaving(i)
          PROVE  id \in located'[c] <=> Fixed(id, c) \/ (id \in Machines' /\ occupant'[c] = id)
      <3>1. occupant'[c] = NoID /\ located'[c] = located[c] \ {i}
        BY <2>1, CellStep
      <3>2. i \in Machines /\ occupant[c] = i
        <4>1. i \in Live
          BY DEF Steps, IInv, Awake, Expected
        <4> QED BY <2>1, <4>1, PlaceFacts
      <3> QED BY <1>5, <1>6, <3>1, <3>2
    <2>2. ASSUME NEW i \in committed, c \in Entering(i)
          PROVE  id \in located'[c] <=> Fixed(id, c) \/ (id \in Machines' /\ occupant'[c] = id)
      <3>1. occupant'[c] = Enters(i) /\ located'[c] = located[c] \cup {Enters(i)}
        BY <2>2, CellStep
      <3>2. Enters(i) \in Machines' /\ (occupant[c] = NoID \/ occupant[c] = Enters(i))
        BY <2>2, EntersMachine
      <3> QED BY <1>1, <1>5, <1>6, <3>1, <3>2
    <2>3. ASSUME \A i \in committed : c \notin Leaving(i) /\ c \notin Entering(i)
          PROVE  id \in located'[c] <=> Fixed(id, c) \/ (id \in Machines' /\ occupant'[c] = id)
      <3>1. occupant'[c] = occupant[c] /\ located'[c] = located[c]
        BY <2>3, CellStep
      <3> QED BY <1>1, <1>5, <1>6, <3>1
    <2>4. id \in located'[c] <=> Fixed(id, c) \/ (id \in Machines' /\ occupant'[c] = id)
      <3> HIDE DEF Fixed
      <3> QED BY <2>1, <2>2, <2>3
    <2> QED BY <1>4, <2>4
  <1>8. \A c \in Coordinate : located'[c] \subseteq Live'
    BY <1>7 DEF Standing
  <1> QED BY <1>7, <1>8 DEF LocatedMirrorsOccupancy, Standing

------------------------------------------------------------------------------
(* Whom a transaction may put to sleep: the proposer, and the machine that *)
(* it puts into the world.                                                 *)
LEMMA Whom ==
  ASSUME TypeOK, NEW id \in Live, NEW n \in Notify(id).time
  PROVE  \/ n.desired = id
         \/ /\ id \in Of("Spawner") /\ Spawns(id) /\ n.desired = Reserve(id)
            /\ n.op = {COMMITTED}
  <1>1. /\ \A d : OnCommitSleepFor(d, id).desired = id /\ OnAbortRetry(id).desired = id
        /\ \A d, k : OnCommitSleepFor(d, k).desired = k /\ OnCommitSleepFor(d, k).op = {COMMITTED}
    BY DEF OnCommitSleepFor, OnAbortRetry, WaitOnTime, Node
  <1>2. CASE id \in Machines
    <2>1. Notify(id) = MachineTx(id)
      BY <1>2 DEF Notify, Machines
    <2>2. CASE Waits(id)
      <3>1. MachineTx(id) = Nothing
        BY <2>2 DEF MachineTx, Waits
      <3> QED BY <2>1, <3>1 DEF Nothing
    <2>3. CASE Parks(id)
      <3>1. MachineTx(id).time \subseteq {OnAbortRetry(id)}
        BY <2>3, ParkShape DEF Retry
      <3> QED BY <1>1, <2>1, <3>1
    <2>4. CASE Proceeds(id)
      <3>1. MachineTx(id).time = {OnCommitSleepFor(TRAVEL, id), OnAbortRetry(id)}
        BY <2>4, ProceedShape
      <3> QED BY <1>1, <2>1, <3>1
    <2> QED BY <2>2, <2>3, <2>4 DEF Parks, Proceeds
  <1>3. CASE id \in Of("Spawner")
    <2>1. Notify(id) = SpawnerTx(id)
      BY <1>3 DEF Notify, Of
    <2>2. CASE Reserve(id) = NoID
      <3>1. SpawnerTx(id).time = {OnCommitSleepFor(1, id)}
        BY <2>2, SpawnerShape
      <3> QED BY <1>1, <2>1, <3>1
    <2>3. CASE Spawns(id)
      <3>1. SpawnerTx(id).time = {OnCommitSleepFor(1, id), OnCommitSleepFor(1, Reserve(id))}
        BY <2>3, SpawnerShape
      <3> QED BY <1>1, <1>3, <2>1, <2>3, <3>1
    <2>4. CASE Reserve(id) # NoID /\ ~Spawns(id)
      <3>1. SpawnerTx(id).time = {}
        BY <2>4, SpawnerShape
      <3> QED BY <2>1, <3>1
    <2> QED BY <2>2, <2>3, <2>4
  <1>4. CASE id \notin Machines /\ id \notin Of("Spawner")
    <2>1. Notify(id).time \subseteq {OnCommitSleepFor(1, id), OnAbortRetry(id)}
      <3>1. entity[id].kind \in {"Source", "Sink", "Counter", "Evenator", "Player"}
        BY <1>4, Alive, KindsOf DEF Machines, Of
      <3>2. CASE entity[id].kind = "Source"
        BY <3>2 DEF Notify, SourceTx, Nothing
      <3>3. CASE entity[id].kind = "Sink"
        BY <3>3 DEF Notify, SinkTx, Nothing
      <3>4. CASE entity[id].kind = "Counter"
        <4>1. Notify(id) = CounterTx(id)
          BY <3>4 DEF Notify
        <4>2. CounterTx(id).time = {OnCommitSleepFor(1, id), OnAbortRetry(id)}
          BY DEF CounterTx, Nothing
        <4> QED BY <4>1, <4>2
      <3>5. CASE entity[id].kind = "Evenator"
        <4>1. Notify(id) = EvenatorTx(id)
          BY <3>5 DEF Notify
        <4>2. EvenatorTx(id).time \subseteq {OnAbortRetry(id)}
          BY DEF EvenatorTx, Nothing
        <4> QED BY <4>1, <4>2
      <3>6. CASE entity[id].kind = "Player"
        <4>1. Notify(id) = PlayerTx(id)
          BY <3>6 DEF Notify
        <4>2. PlayerTx(id).time = {OnCommitSleepFor(1, id)}
          BY DEF PlayerTx, Nothing
        <4> QED BY <4>1, <4>2
      <3> QED BY <3>1, <3>2, <3>3, <3>4, <3>5, <3>6
    <2> QED BY <1>1, <2>1
  <1> QED BY <1>2, <1>3, <1>4

(* Appointments are made for the living. *)
LEMMA AppointmentsKept ==
  ASSUME IInv, NEW committed, Steps(committed), NEW a \in Appointments(Proposed, committed)
  PROVE  a \in (1 .. TRAVEL) \X Live'
  <1>1. /\ TypeOK /\ Live \subseteq Live' /\ committed \subseteq ready
        /\ \A b \in waiting_on_time : b \in (1 .. TRAVEL) \X ID /\ b[2] \in Live
    BY LiveAfter DEF IInv, TypeOK, Awake, Expected, Steps
  <1>2. CASE a \in waiting_on_time
    BY <1>1, <1>2
  <1>3. CASE a \notin waiting_on_time
    <2>1. PICK id \in ready : \E n \in Proposed[id].time :
                 a = <<n.key, n.desired>> /\ State(id, committed) \in n.op
      BY <1>3 DEF Appointments
    <2>2. PICK n \in Proposed[id].time : a = <<n.key, n.desired>> /\ State(id, committed) \in n.op
      BY <2>1
    <2>3. id \in Live /\ n \in Notify(id).time /\ HasTypes(Notify(id))
      BY <2>1, <2>2, Proposal
    <2>4. n.key \in 1 .. TRAVEL
      BY <2>3 DEF HasTypes
    <2>5. n.desired \in Live'
      <3>1. CASE n.desired = id
        BY <1>1, <2>3, <3>1
      <3>2. CASE n.desired # id
        <4>1. /\ id \in Of("Spawner") /\ Spawns(id) /\ n.desired = Reserve(id)
              /\ n.op = {COMMITTED}
          BY <1>1, <2>3, <3>2, Whom
        <4>2. id \in committed
          BY <2>2, <4>1 DEF State, COMMITTED, ABORTED
        <4> QED BY <4>1, <4>2, LiveAfter DEF Spawning
      <3> QED BY <3>1, <3>2
    <2> QED BY <2>2, <2>4, <2>5
  <1> QED BY <1>2, <1>3

(* Those who wait and those who are woken are the living. *)
LEMMA WaitersKept ==
  ASSUME IInv, NEW committed, Steps(committed), NEW p, NEW k, NEW old, old \subseteq Live
  PROVE  /\ RebuiltWaiters(Proposed, p, k, committed, old) \subseteq Live
         /\ Woken(Proposed, p, k, committed, old) \subseteq Live
  <1>1. \A x \in At(Proposed, p, k) : x[1] \in Live
    BY Proposal DEF At
  <1>2. Writers(Proposed, p, k, committed) \subseteq At(Proposed, p, k)
    BY DEF Writers
  <1>3. Waiters(Proposed, p, k, committed) \subseteq Live
    BY <1>1 DEF Waiters
  <1> QED BY <1>1, <1>2, <1>3 DEF RebuiltWaiters, Woken

(* Whoever is notified lives, after the step. *)
LEMMA AwakeStep ==
  ASSUME IInv, NEW committed, Steps(committed)
  PROVE  Awake'
  <1> DEFINE due == Appointments(Proposed, committed)
             Due == {a[2] : a \in {b \in due : b[1] = 1}}
             Kept == {<<a[1] - 1, a[2]>> : a \in {b \in due : b[1] > 1}}
             V == UNION {Woken(Proposed, "value", c, committed, waiter_on_value[c]) : c \in Coordinate}
             O == UNION {Woken(Proposed, "occupant", c, committed, waiter_on_occupant[c]) : c \in Coordinate}
  <1>1. /\ Live \subseteq Live'
        /\ \A c \in Coordinate : waiter_on_value[c] \subseteq Live /\ waiter_on_occupant[c] \subseteq Live
    BY LiveAfter DEF IInv, Awake, Expected
  <1>2. ready' = Due \cup V \cup O /\ waiting_on_time' = Kept
    BY DEF Steps, Rebuild
  <1>3. /\ waiter_on_value' = [c \in Coordinate |->
             RebuiltWaiters(Proposed, "value", c, committed, waiter_on_value[c])]
        /\ waiter_on_occupant' = [c \in Coordinate |->
             RebuiltWaiters(Proposed, "occupant", c, committed, waiter_on_occupant[c])]
    BY DEF Steps, Rebuild
  <1>4. \A a \in due : a[2] \in Live'
    BY AppointmentsKept
  <1>5. \A k \in V \cup O : k \in Live'
    BY <1>1, WaitersKept
  <1>6. \A c \in Coordinate : waiter_on_value'[c] \subseteq Live' /\ waiter_on_occupant'[c] \subseteq Live'
    BY <1>1, <1>3, WaitersKept
  <1> HIDE DEF due
  <1>7. (\A k \in Due : k \in Live') /\ (\A a \in Kept : a[2] \in Live')
    BY <1>4
  <1> HIDE DEF Due, Kept, V, O
  <1>8. ready' \subseteq Live' /\ \A a \in waiting_on_time' : a[2] \in Live'
    BY <1>2, <1>5, <1>7
  <1> QED BY <1>6, <1>8 DEF Awake, Expected

(* The types, after the step. *)
LEMMA TypeStep ==
  ASSUME IInv, NEW committed, Steps(committed)
  PROVE  TypeOK'
  <1>1. TypeOK /\ Awake' /\ Occupied' /\ LocatedMirrorsOccupancy' /\ Live' \subseteq ID /\ Machines' \subseteq ID
    BY AwakeStep, OccupiedStep, LocatedStep DEF IInv, Live, Machines
  <1>2. ready' \subseteq ID
    BY <1>1 DEF Awake, Expected
  <1>3. waiting_on_time' \subseteq (1 .. TRAVEL) \X ID
    <2>1. waiting_on_time' = {<<a[1] - 1, a[2]>> : a \in {b \in Appointments(Proposed, committed) : b[1] > 1}}
      BY DEF Steps, Rebuild
    <2>2. \A a \in Appointments(Proposed, committed) : a[1] \in 1 .. TRAVEL /\ a[2] \in ID
      BY <1>1, AppointmentsKept
    <2>3. TRAVEL \in Nat
      BY WorldAssumption
    <2>4. \A d \in 1 .. TRAVEL : d > 1 => d - 1 \in 1 .. TRAVEL
      BY <2>3
    <2> QED BY <2>1, <2>2, <2>4
  <1>4. \A id \in ID : entity'[id] = NoEntity \/ entity'[id] \in Entity
    <2> SUFFICES ASSUME NEW id \in ID PROVE entity'[id] = NoEntity \/ entity'[id] \in Entity
      OBVIOUS
    <2>1. CASE id \in Machines
      BY <2>1, EntityAfter DEF Entity
    <2>2. CASE id \in Of("Spawner")
      BY <2>2, EntityAfter DEF Entity
    <2>3. CASE id \in Live /\ id \notin Machines /\ id \notin Of("Spawner")
      BY <1>1, <2>3, EntityAfter, Alive
    <2>4. CASE id \notin Live
      <3>1. ASSUME NEW i \in Spawning(committed), id = Reserve(i) PROVE entity'[id] \in Entity
        <4>1. Place(i) \in Coordinate
          BY <1>1, <3>1, SpawnerFacts DEF Spawning
        <4> QED BY <3>1, <4>1, EntityAfter, NewMachineType DEF Entity
      <3> QED BY <2>4, <3>1, EntityAfter
    <2> QED BY <2>1, <2>2, <2>3, <2>4
  <1>5. value' \in [Coordinate -> Stored]
    <2>1. value' = [c \in Coordinate |-> Rebuilt(Proposed, "value", c, committed, value[c])]
      BY DEF Steps, Rebuild, Values
    <2>2. ASSUME NEW c \in Coordinate
          PROVE  Rebuilt(Proposed, "value", c, committed, value[c]) \in Stored
      <3>1. value[c] \in Stored /\ "value" \in Maps
        BY <1>1 DEF TypeOK, Maps
      <3>2. ASSUME NEW i \in committed, NEW n \in Written(Proposed[i].value) PROVE n.desired \in Stored
        <4>1. i \in ready
          BY DEF Steps
        <4>2. n \in Notify(i).value /\ HasTypes(Notify(i))
          BY <4>1, Proposal DEF Written
        <4> QED BY <4>2 DEF HasTypes, Stored
      <3>3. \/ Rebuilt(Proposed, "value", c, committed, value[c]) = value[c]
            \/ \E i \in committed : \E n \in Written(Proposed[i].value) :
                 Rebuilt(Proposed, "value", c, committed, value[c]) = n.desired
        BY <3>1, RebuiltIs
      <3> QED BY <3>1, <3>2, <3>3
    <2> QED BY <2>1, <2>2
  <1>6. occupant' \in [Coordinate -> ID \cup {NoID}]
    <2>1. occupant' = [c \in Coordinate |-> Rebuilt(Proposed, "occupant", c, committed, occupant[c])]
      BY DEF Steps, Rebuild, Occupants
    <2>2. \A c \in Coordinate : occupant'[c] \in ID \cup {NoID}
      BY <1>1 DEF Occupied
    <2> QED BY <2>1, <2>2
  <1>7. located' \in [Coordinate -> SUBSET ID]
    <2>1. located' = [c \in Coordinate |-> Rebuilt(Proposed, "located", c, committed, located[c])]
      BY DEF Steps, Rebuild, Locations
    <2>2. \A c \in Coordinate : located'[c] \in SUBSET ID
      BY <1>1 DEF LocatedMirrorsOccupancy
    <2> QED BY <2>1, <2>2
  <1>8. waiter_on_value' \in [Coordinate -> SUBSET ID] /\ waiter_on_occupant' \in [Coordinate -> SUBSET ID]
    <2>1. /\ waiter_on_value' = [c \in Coordinate |->
               RebuiltWaiters(Proposed, "value", c, committed, waiter_on_value[c])]
          /\ waiter_on_occupant' = [c \in Coordinate |->
               RebuiltWaiters(Proposed, "occupant", c, committed, waiter_on_occupant[c])]
      BY DEF Steps, Rebuild
    <2>2. \A c \in Coordinate : waiter_on_value'[c] \in SUBSET ID /\ waiter_on_occupant'[c] \in SUBSET ID
      BY <1>1 DEF Awake, Expected
    <2> QED BY <2>1, <2>2
  <1>9. entity_id_source' \in 1 .. LAST
    <2>1. LAST \in Nat /\ entity_id_source \in 1 .. LAST
      BY <1>1, Numbered DEF TypeOK, LAST
    <2> QED BY <2>1, TicketBounds
  <1>10. queue' \in Seq(Inputs) /\ Len(queue') <= QUEUE_MAX
    <2>1. queue' = queue \/ (queue # << >> /\ queue' = Tail(queue))
      BY DEF Steps, Rebuild
    <2>2. queue \in Seq(Inputs) /\ Len(queue) <= QUEUE_MAX /\ QUEUE_MAX \in Nat
      BY <1>1, WorldAssumption DEF TypeOK
    <2> QED BY <2>1, <2>2
  <1> QED BY <1>2, <1>3, <1>4, <1>5, <1>6, <1>7, <1>8, <1>9, <1>10 DEF TypeOK

------------------------------------------------------------------------------
(* A command waits in the queue, and everything else stays as it is. *)
LEMMA SubmitStep ==
  ASSUME IInv, NEW input \in Inputs, Submit(input)
  PROVE  IInv'
  <1>1. queue' \in Seq(Inputs) /\ Len(queue') <= QUEUE_MAX
    <2>1. /\ queue \in Seq(Inputs) /\ QUEUE_MAX \in Nat
          /\ Len(queue) < QUEUE_MAX /\ queue' = Append(queue, input)
      BY WorldAssumption DEF IInv, TypeOK, Submit
    <2> QED BY <2>1
  <1>2. /\ ready' = ready /\ waiting_on_time' = waiting_on_time /\ entity' = entity
        /\ value' = value /\ occupant' = occupant /\ located' = located
        /\ waiter_on_value' = waiter_on_value /\ waiter_on_occupant' = waiter_on_occupant
        /\ entity_id_source' = entity_id_source
    BY DEF Submit
  <1>3. Live' = Live /\ Machines' = Machines /\ (\A k : Of(k)' = Of(k)) /\ Expected' = Expected
    BY <1>2 DEF Live, Machines, Of, Expected
  <1>4. TypeOK'
    BY <1>1, <1>2 DEF IInv, TypeOK
  <1>5. Awake' /\ Occupied' /\ Hops' /\ Footing'
    BY <1>2, <1>3 DEF IInv, Awake, Occupied, Hops, Footing
  <1>6. TicketsAreFresh'
    BY <1>2, <1>3 DEF IInv, TicketsAreFresh
  <1>7. LocatedMirrorsOccupancy'
    BY <1>2, <1>3 DEF IInv, LocatedMirrorsOccupancy
  <1> QED BY <1>4, <1>5, <1>6, <1>7 DEF IInv

(* Where the variables do not change, the invariant does not. *)
LEMMA Stutter ==
  ASSUME IInv, UNCHANGED vars
  PROVE  IInv'
  <1>2. /\ ready' = ready /\ waiting_on_time' = waiting_on_time /\ entity' = entity
        /\ value' = value /\ occupant' = occupant /\ located' = located
        /\ waiter_on_value' = waiter_on_value /\ waiter_on_occupant' = waiter_on_occupant
        /\ entity_id_source' = entity_id_source /\ queue' = queue
    BY DEF vars
  <1>3. Live' = Live /\ Machines' = Machines /\ (\A k : Of(k)' = Of(k)) /\ Expected' = Expected
    BY <1>2 DEF Live, Machines, Of, Expected
  <1>4. TypeOK'
    BY <1>2 DEF IInv, TypeOK
  <1>5. Awake' /\ Occupied' /\ Hops' /\ Footing'
    BY <1>2, <1>3 DEF IInv, Awake, Occupied, Hops, Footing
  <1>6. TicketsAreFresh'
    BY <1>2, <1>3 DEF IInv, TicketsAreFresh
  <1>7. LocatedMirrorsOccupancy'
    BY <1>2, <1>3 DEF IInv, LocatedMirrorsOccupancy
  <1> QED BY <1>4, <1>5, <1>6, <1>7 DEF IInv

------------------------------------------------------------------------------
(* The starting worlds. *)

(* Max is defined by CHOOSE: a finite set of numbers has a greatest one. *)
LEMMA Greatest ==
  ASSUME NEW n \in Nat, NEW S \in SUBSET (0 .. n), S # {}
  PROVE  Max(S) \in S /\ \A x \in S : x <= Max(S)
  <1> DEFINE Above == {k \in 0 .. n : \A x \in S : x <= k}
  <1>1. S \subseteq Int
    OBVIOUS
  <1>2. n \in Above
    OBVIOUS
  <1>3. PICK g \in S : \A x \in S : x <= g
    <2> DEFINE P == {n - x : x \in S}
    <2>1. P \subseteq Nat /\ P # {}
      <3>1. \A x \in S : n - x \in Nat
        BY <1>1
      <3>2. PICK x : x \in S
        OBVIOUS
      <3>3. n - x \in P
        BY <3>2
      <3> QED BY <3>1, <3>3
    <2>2. PICK d \in P : \A e \in P : ~(<<e, d>> \in OpToRel(<, Nat))
      <3>1. IsWellFoundedOn(OpToRel(<, Nat), Nat)
        BY NatLessThanWellFounded
      <3> QED BY <2>1, <3>1, WFMin
    <2>3. PICK g \in S : d = n - g
      BY <2>2
    <2>4. \A x \in S : n - x \in P /\ ~(n - x < n - g)
      <3> SUFFICES ASSUME NEW x \in S PROVE ~(n - x < n - g)
        OBVIOUS
      <3>1. n - x \in P
        OBVIOUS
      <3>2. ~(<<n - x, d>> \in OpToRel(<, Nat))
        BY <2>2, <3>1
      <3> QED BY <2>1, <2>2, <2>3, <3>1, <3>2 DEF OpToRel
    <2>5. \A x \in S : x <= g
      BY <1>1, <2>3, <2>4
    <2> QED BY <2>3, <2>5
  <1> QED BY <1>3 DEF Max

(* A world that can be loaded starts out in the invariant. *)
LEMMA Starting ==
  ASSUME NEW w \in Worlds, InitFrom(w)
  PROVE  IInv
  <1> DEFINE D == DOMAIN w.entities
             e(k) == w.entities[k]
             M == {k \in D : e(k).kind = "Machine"}
             S == {k \in D : e(k).kind = "Spawner"}
             N == Cardinality(ID)
             Stand(c) == {k \in D : c \in Cells(e(k))}
             Issued == D \cup {e(k).free_entity_id : k \in S}
             Road == {k \in M : e(k).phase = "TRAVELLING" /\ e(k).eta > 0}
  <1>1. /\ D \subseteq ID /\ \A k \in D : e(k) \in Entity
        /\ w.terms \in [Coordinate -> Stored]
        /\ \A m \in M : e(m).phase = "TRAVELLING" <=> e(m).old_location # e(m).new_location
    BY WorldAssumption DEF Possible
  <1>2. \A m, n \in M : m # n => Cells(e(m)) \cap Cells(e(n)) = {}
    BY WorldAssumption DEF Possible
  <1>3. /\ \A s \in S : e(s).free_entity_id \notin D
        /\ \A s, t \in S : s # t /\ e(s).free_entity_id # NoID => e(s).free_entity_id # e(t).free_entity_id
    BY WorldAssumption DEF Possible
  <1>4. N \in Nat /\ ID = 1 .. N /\ LAST = N + 1 /\ NoID = 0 /\ NoEntity \notin Entity
        /\ QUEUE_MAX \in Nat /\ TRAVEL \in Nat \ {0}
    BY WorldAssumption, Numbered DEF LAST, NoID
  <1>5. /\ ready = D \ Road /\ waiting_on_time = {<<e(k).eta, k>> : k \in Road}
        /\ entity = [id \in ID |-> IF id \in D THEN e(id) ELSE NoEntity]
        /\ value = w.terms
        /\ occupant = [c \in Coordinate |-> Max((Stand(c) \cap M) \cup {NoID})]
        /\ located = [c \in Coordinate |-> Stand(c)]
        /\ waiter_on_value = [c \in Coordinate |-> {}]
        /\ waiter_on_occupant = [c \in Coordinate |-> {}]
        /\ entity_id_source = 1 + Max(Issued \cup {NoID})
        /\ queue = << >>
    BY DEF InitFrom
  <1> HIDE DEF e, N
  <1>6. \A k \in ID : entity[k] = IF k \in D THEN e(k) ELSE NoEntity
    BY <1>5
  <1>7. Live = D
    BY <1>1, <1>4, <1>6 DEF Live
  <1>8. Machines = M /\ Of("Spawner") = S /\ \A k \in D : entity[k] = e(k)
    BY <1>1, <1>6, <1>7 DEF Machines, Of
  <1>9. \A m \in M : e(m) \in MachineType /\ Cells(e(m)) = {e(m).old_location, e(m).new_location}
    BY <1>1, KindsOf DEF Cells
  <1> HIDE DEF M, S, D, Road
  <1>10. M \subseteq D /\ S \subseteq D /\ Road \subseteq M
    BY DEF M, S, Road
  <1>11. ASSUME NEW c \in Coordinate
         PROVE  /\ occupant[c] \in (Stand(c) \cap M) \cup {NoID}
                /\ \A k \in Stand(c) \cap M : occupant[c] = k
    <2> DEFINE T == (Stand(c) \cap M) \cup {NoID}
    <2>0. \A k \in ID \cup {NoID} : k \in 0 .. N
      BY ONLY <1>4
    <2>1. T \in SUBSET (0 .. N) /\ NoID \in T
      BY <1>1, <1>10, <2>0
    <2>2. Max(T) \in T /\ \A x \in T : x <= Max(T)
      <3> HIDE DEF T
      <3> QED BY <1>4, <2>1, Greatest
    <2>3. occupant[c] = Max(T)
      BY <1>5
    <2>4. \A k, l \in Stand(c) \cap M : k = l
      BY <1>2
    <2>5. ASSUME NEW k \in Stand(c) \cap M PROVE occupant[c] = k
      <3>1. k \in T /\ k \in 1 .. N
        BY <1>1, <1>4, <1>10
      <3>2. k <= Max(T) /\ Max(T) # 0
        BY <1>4, <2>1, <2>2, <3>1
      <3>3. Max(T) \in Stand(c) \cap M
        BY <1>4, <2>2, <3>2
      <3> QED BY <2>3, <2>4, <3>3
    <2> QED BY <2>2, <2>3, <2>5
  <1>12. ASSUME NEW m \in M
         PROVE  /\ e(m).old_location \in Coordinate /\ e(m).new_location \in Coordinate
                /\ occupant[e(m).old_location] = m /\ occupant[e(m).new_location] = m
    <2>1. e(m).old_location \in Coordinate /\ e(m).new_location \in Coordinate
      BY <1>9 DEF MachineType
    <2>2. m \in Stand(e(m).old_location) /\ m \in Stand(e(m).new_location)
      BY <1>9, <1>10
    <2> QED BY <1>11, <2>1, <2>2
  <1>13. /\ entity_id_source \in 1 .. LAST
         /\ \A k \in Issued : k < entity_id_source
    <2> DEFINE T == Issued \cup {NoID}
    <2>1. \A s \in S : e(s).free_entity_id \in ID \cup {NoID}
      BY <1>1, KindsOf DEF S, SpawnerType
    <2>0. \A k \in ID \cup {NoID} : k \in 0 .. N
      BY ONLY <1>4
    <2>2. T \in SUBSET (0 .. N) /\ NoID \in T
      BY <1>1, <2>0, <2>1
    <2>3. Max(T) \in 0 .. N /\ \A x \in T : x <= Max(T)
      <3> HIDE DEF T
      <3> QED BY <1>4, <2>2, Greatest
    <2>4. entity_id_source = 1 + Max(T)
      BY <1>5
    <2>5. \A k \in Issued : k \in T /\ k \in 0 .. N
      BY <2>2
    <2> HIDE DEF T, Issued
    <2> QED BY <1>4, <2>3, <2>4, <2>5
  <1>14. TypeOK
    <2>1. ready \subseteq ID
      BY <1>1, <1>5
    <2>2. waiting_on_time \subseteq (1 .. TRAVEL) \X ID
      <3>1. \A k \in Road : e(k).eta > 0 /\ e(k).eta \in 0 .. TRAVEL
        BY <1>9, <1>10 DEF Road, MachineType
      <3>2. \A k \in Road : e(k).eta \in 1 .. TRAVEL /\ k \in ID
        BY <1>1, <1>4, <1>10, <3>1
      <3> QED BY <1>5, <3>2
    <2>3. \A id \in ID : entity[id] = NoEntity \/ entity[id] \in Entity
      BY <1>1, <1>6
    <2>4. occupant \in [Coordinate -> ID \cup {NoID}]
      <3>1. \A c \in Coordinate : occupant[c] \in ID \cup {NoID}
        BY <1>1, <1>10, <1>11
      <3> QED BY <1>5, <3>1
    <2>5. located \in [Coordinate -> SUBSET ID]
      BY <1>1, <1>5
    <2>6. waiter_on_value \in [Coordinate -> SUBSET ID] /\ waiter_on_occupant \in [Coordinate -> SUBSET ID]
      BY <1>5
    <2>7. queue \in Seq(Inputs) /\ Len(queue) <= QUEUE_MAX
      BY <1>4, <1>5
    <2>8. value \in [Coordinate -> Stored]
      BY <1>1, <1>5
    <2> QED BY <1>13, <2>1, <2>2, <2>3, <2>4, <2>5, <2>6, <2>7, <2>8 DEF TypeOK
  <1>15. Awake
    <2>1. \A a \in waiting_on_time : a[2] \in D
      BY <1>5, <1>10
    <2> QED BY <1>5, <1>7, <2>1 DEF Awake, Expected
  <1>16. TicketsAreFresh
    <2>1. \A id \in Live : id < entity_id_source
      BY <1>7, <1>13
    <2>2. \A s \in S : entity[s].free_entity_id = e(s).free_entity_id
      BY <1>8, <1>10
    <2>3. \A s \in S : e(s).free_entity_id < entity_id_source
      BY <1>13
    <2> QED BY <1>3, <1>7, <1>8, <2>1, <2>2, <2>3 DEF TicketsAreFresh
  <1>17. Occupied
    BY <1>8, <1>11 DEF Occupied
  <1>18. Hops
    BY <1>1, <1>8, <1>10 DEF Hops
  <1>19. Footing
    BY <1>8, <1>10, <1>12 DEF Footing
  <1>20. LocatedMirrorsOccupancy
    <2> SUFFICES ASSUME NEW c \in Coordinate, NEW id \in D
                 PROVE  id \in Stand(c) <=> /\ id \notin Of("Player")
                                            /\ IF id \in M THEN occupant[c] = id ELSE e(id).location = c
      BY <1>5, <1>7, <1>8 DEF LocatedMirrorsOccupancy
    <2>1. CASE id \in M
      <3>1. id \notin Of("Player") /\ id # NoID
        BY <1>1, <1>4, <1>8, <1>10, <2>1, Numbered DEF Machines, Of
      <3> QED BY <1>11, <2>1, <3>1
    <2>2. CASE id \notin M /\ id \notin Of("Player")
      <3>1. e(id).kind # "Machine" /\ e(id).kind # "Player"
        BY <1>7, <1>8, <2>2 DEF M, Of
      <3>2. Cells(e(id)) = {e(id).location}
        BY <3>1 DEF Cells
      <3> QED BY <2>2, <3>2
    <2>3. CASE id \in Of("Player")
      <3>1. Cells(e(id)) = {}
        BY <1>8, <2>3 DEF Cells, Of
      <3> QED BY <2>3, <3>1
    <2> QED BY <2>1, <2>2, <2>3
  <1> QED BY <1>14, <1>15, <1>16, <1>17, <1>18, <1>19, <1>20 DEF IInv

(* A step keeps the invariant. *)
LEMMA StepKeeps ==
  ASSUME IInv, NEW committed, Steps(committed)
  PROVE  IInv'
  BY TypeStep, AwakeStep, FreshStep, OccupiedStep, HopsStep, FootingStep, LocatedStep DEF IInv

(* In every reachable world the types are right, whoever is to be notified *)
(* lives, EntityIDs in reserve are nobody's, machines on the road have left *)
(* one cell for another and occupy both, and the maps of occupants and of  *)
(* locations agree.                                                        *)
THEOREM Invariant == Spec => []IInv
  <1>1. Init => IInv
    BY Starting DEF Init
  <1>2. IInv /\ [Next]_vars => IInv'
    <2>1. ASSUME IInv, Step PROVE IInv'
      <3>1. PICK committed : Steps(committed)
        BY <2>1, StepSteps
      <3> QED BY <2>1, <3>1, StepKeeps
    <2> QED BY <2>1, SubmitStep, Stutter DEF Next
  <1> QED BY <1>1, <1>2, PTL DEF Spec

------------------------------------------------------------------------------
(* How many nodes a transaction has. *)
AtMost(S, n) == IsFiniteSet(S) /\ Cardinality(S) <= n

(* The nodes of a transaction, over all the maps. *)
Nodes(tx) == UNION {{p} \X tx[p] : p \in Maps \cup {"time"}}

(* A part of a small set is small. *)
LEMMA FewerThan ==
  ASSUME NEW n \in Nat, NEW T, AtMost(T, n), NEW S, S \subseteq T
  PROVE  AtMost(S, n)
  <1>1. IsFiniteSet(S) /\ Cardinality(S) <= Cardinality(T)
    BY FS_Subset DEF AtMost
  <1>2. Cardinality(S) \in Nat /\ Cardinality(T) \in Nat
    BY <1>1, FS_CardinalityType DEF AtMost
  <1> QED BY <1>1, <1>2 DEF AtMost

(* Two small sets make one that is as small as their bounds together. *)
LEMMA Together ==
  ASSUME NEW m \in Nat, NEW n \in Nat, NEW S, NEW T, AtMost(S, m), AtMost(T, n)
  PROVE  AtMost(S \cup T, m + n)
  <1>1. /\ IsFiniteSet(S \cup T) /\ IsFiniteSet(S \cap T)
        /\ Cardinality(S \cup T) = Cardinality(S) + Cardinality(T) - Cardinality(S \cap T)
    BY FS_Union, FS_Intersection DEF AtMost
  <1>2. /\ Cardinality(S) \in Nat /\ Cardinality(T) \in Nat /\ Cardinality(S \cap T) \in Nat
        /\ Cardinality(S \cup T) \in Nat
    BY <1>1, FS_CardinalityType DEF AtMost
  <1> QED BY <1>1, <1>2 DEF AtMost

(* Sets of no, one, two and three elements. *)
LEMMA Few ==
  /\ \A S : S = {} => AtMost(S, 0)
  /\ \A S, x : S \subseteq {x} => AtMost(S, 1)
  /\ \A S, x, y : S \subseteq {x, y} => AtMost(S, 2)
  /\ \A S, x, y, z : S \subseteq {x, y, z} => AtMost(S, 3)
  <1>1. AtMost({}, 0)
    BY FS_EmptySet DEF AtMost
  <1>2. \A x : AtMost({x}, 1)
    <2> TAKE x
    <2>1. IsFiniteSet({x}) /\ Cardinality({x}) = 1
      BY FS_Singleton
    <2> QED BY <2>1 DEF AtMost
  <1>3. \A x, y : AtMost({x, y}, 2)
    <2> TAKE x, y
    <2>1. AtMost({x} \cup {y}, 1 + 1)
      BY <1>2, Together
    <2>2. {x} \cup {y} = {x, y} /\ 1 + 1 = 2
      OBVIOUS
    <2> QED BY <2>1, <2>2
  <1>4. \A x, y, z : AtMost({x, y, z}, 3)
    <2> TAKE x, y, z
    <2>1. AtMost({x, y} \cup {z}, 2 + 1)
      BY <1>2, <1>3, Together
    <2>2. {x, y} \cup {z} = {x, y, z} /\ 2 + 1 = 3
      OBVIOUS
    <2> QED BY <2>1, <2>2
  <1> QED BY <1>1, <1>2, <1>3, <1>4, FewerThan

(* A transaction has the nodes of its five maps together. *)
LEMMA NodeCount ==
  ASSUME NEW tx, NEW v \in Nat, NEW o \in Nat, NEW l \in Nat, NEW e \in Nat, NEW t \in Nat,
         AtMost(tx.value, v), AtMost(tx.occupant, o), AtMost(tx.located, l),
         AtMost(tx.entity, e), AtMost(tx.time, t)
  PROVE  AtMost(Nodes(tx), v + o + l + e + t)
  <1>1. ASSUME NEW p, NEW S, NEW n \in Nat, AtMost(S, n)
        PROVE  AtMost({p} \X S, n)
    <2>1. /\ IsFiniteSet({p} \X S)
          /\ Cardinality({p} \X S) = Cardinality({p}) * Cardinality(S)
      BY <1>1, FS_Singleton, FS_Product DEF AtMost
    <2>2. Cardinality({p}) = 1 /\ Cardinality(S) \in Nat
      BY <1>1, FS_Singleton, FS_CardinalityType DEF AtMost
    <2> QED BY <1>1, <2>1, <2>2 DEF AtMost
  <1> DEFINE V == {"value"} \X tx.value
             O == {"occupant"} \X tx.occupant
             L == {"located"} \X tx.located
             E == {"entity"} \X tx.entity
             T == {"time"} \X tx.time
  <1>2. AtMost(V, v) /\ AtMost(O, o) /\ AtMost(L, l) /\ AtMost(E, e) /\ AtMost(T, t)
    BY <1>1
  <1>3. Nodes(tx) = V \cup O \cup L \cup E \cup T
    BY DEF Nodes, Maps
  <1> HIDE DEF V, O, L, E, T
  <1>4. AtMost(V \cup O, v + o)
    BY <1>2, Together
  <1>5. AtMost(V \cup O \cup L, v + o + l)
    BY <1>2, <1>4, Together
  <1>6. AtMost(V \cup O \cup L \cup E, v + o + l + e)
    BY <1>2, <1>5, Together
  <1>7. AtMost(V \cup O \cup L \cup E \cup T, v + o + l + e + t)
    BY <1>2, <1>6, Together
  <1> QED BY <1>3, <1>7

(* No more than the capacity its entity gives to Transaction::make. *)
LEMMA MachineCount ==
  ASSUME TypeOK, NEW id \in Machines
  PROVE  AtMost(Nodes(MachineTx(id)), 10)
  <1> DEFINE tx == MachineTx(id)
  <1>1. \E c : Left(id) \subseteq {c}
    BY DEF Left
  <1>2. CASE Waits(id)
    <2>1. tx = Nothing
      BY <1>2 DEF MachineTx, Waits
    <2>2. tx.value = {} /\ tx.occupant = {} /\ tx.located = {} /\ tx.entity = {} /\ tx.time = {}
      BY <2>1 DEF Nothing
    <2> HIDE DEF tx
    <2>3. AtMost(Nodes(tx), 0 + 0 + 0 + 0 + 0)
      BY <2>2, Few, NodeCount
    <2>4. IsFiniteSet(Nodes(tx)) /\ Cardinality(Nodes(tx)) <= 0
      BY <2>3 DEF AtMost
    <2> QED BY <2>4, FS_CardinalityType DEF AtMost, tx
  <1>3. CASE Parks(id)
    <2>1. /\ tx.occupant = {Write(c, NoID) : c \in Left(id)}
                           \cup {WaitOnOccupant(c) : c \in WaitsForOccupant(Plan(id))}
          /\ tx.located = {Write(c, located[c] \ {id}) : c \in Left(id)}
          /\ tx.value = {WaitOnValue(c, {COMMITTED}) : c \in WaitsForValue(Plan(id), Here(id))}
          /\ tx.entity = {Write(id, Parked(id))} /\ tx.time \subseteq {OnAbortRetry(id)}
      BY <1>3, ParkShape DEF Retry
    <2>2. /\ \E c, d : WaitsForValue(Plan(id), Here(id)) \subseteq {c, d}
          /\ \E c : WaitsForOccupant(Plan(id)) \subseteq {c}
      BY DEF WaitsForValue, WaitsForOccupant
    <2> HIDE DEF tx
    <2>3. AtMost(tx.entity, 1) /\ AtMost(tx.time, 1)
      BY <2>1, Few
    <2>4. AtMost(tx.value, 2)
      <3>1. PICK c, d : WaitsForValue(Plan(id), Here(id)) \subseteq {c, d}
        BY <2>2
      <3>2. tx.value \subseteq {WaitOnValue(c, {COMMITTED}), WaitOnValue(d, {COMMITTED})}
        BY <2>1, <3>1
      <3> QED BY <3>2, Few
    <2>5. AtMost(tx.occupant, 2) /\ AtMost(tx.located, 1)
      <3>1. PICK c : Left(id) \subseteq {c}
        BY <1>1
      <3>2. PICK d : WaitsForOccupant(Plan(id)) \subseteq {d}
        BY <2>2
      <3>3. tx.occupant \subseteq {Write(c, NoID), WaitOnOccupant(d)}
        BY <2>1, <3>1, <3>2
      <3>4. tx.located \subseteq {Write(c, located[c] \ {id})}
        BY <2>1, <3>1
      <3> QED BY <3>3, <3>4, Few
    <2>6. AtMost(Nodes(tx), 2 + 2 + 1 + 1 + 1)
      BY <2>3, <2>4, <2>5, NodeCount
    <2>7. IsFiniteSet(Nodes(tx)) /\ Cardinality(Nodes(tx)) <= 7
      BY <2>6 DEF AtMost
    <2> QED BY <2>7, FS_CardinalityType DEF AtMost, tx
  <1>4. CASE Proceeds(id)
    <2>1. /\ tx.occupant = {Write(c, NoID) : c \in Left(id)} \cup {Write(c, id) : c \in Taking(id)}
          /\ tx.located = {Write(c, located[c] \ {id}) : c \in Left(id)}
                          \cup {Write(c, located[c] \cup {id}) : c \in Taking(id)}
          /\ tx.value = {Write(Here(id), v) : v \in Onward(id).writes}
          /\ tx.entity = {Write(id, Onward(id).machine)}
          /\ tx.time = {OnCommitSleepFor(TRAVEL, id), OnAbortRetry(id)}
      BY <1>4, ProceedShape
    <2>2. \E v : Onward(id).writes \subseteq {v}
      BY OnwardType
    <2>3. \E c, d : Taking(id) \subseteq {c, d}
      BY DEF Taking
    <2> HIDE DEF tx
    <2>4. AtMost(tx.entity, 1) /\ AtMost(tx.time, 2)
      BY <2>1, Few
    <2>5. AtMost(tx.value, 1)
      <3>1. PICK v : Onward(id).writes \subseteq {v}
        BY <2>2
      <3>2. tx.value \subseteq {Write(Here(id), v)}
        BY <2>1, <3>1
      <3> QED BY <3>2, Few
    <2>6. AtMost(tx.occupant, 3) /\ AtMost(tx.located, 3)
      <3>1. PICK b : Left(id) \subseteq {b}
        BY <1>1
      <3>2. PICK c, d : Taking(id) \subseteq {c, d}
        BY <2>3
      <3>3. tx.occupant \subseteq {Write(b, NoID), Write(c, id), Write(d, id)}
        BY <2>1, <3>1, <3>2
      <3>4. tx.located \subseteq {Write(b, located[b] \ {id}), Write(c, located[c] \cup {id}),
                                  Write(d, located[d] \cup {id})}
        BY <2>1, <3>1, <3>2
      <3>5. AtMost(tx.occupant, 3)
        BY ONLY <3>3, Few
      <3>6. AtMost(tx.located, 3)
        BY ONLY <3>4, Few
      <3> QED BY ONLY <3>5, <3>6
    <2>7. AtMost(Nodes(tx), 1 + 3 + 3 + 1 + 2)
      BY <2>4, <2>5, <2>6, NodeCount
    <2> QED BY <2>7 DEF AtMost, tx
  <1> QED BY <1>2, <1>3, <1>4 DEF Parks, Proceeds

(* A spawner has no more than ten. *)
LEMMA SpawnerCount ==
  ASSUME NEW id
  PROVE  AtMost(Nodes(SpawnerTx(id)), 10)
  <1> DEFINE tx == SpawnerTx(id)
  <1>1. /\ tx.value = {} /\ \E n : tx.occupant \subseteq {n} /\ \E k : tx.located \subseteq {k}
        /\ \E n, m : tx.entity \subseteq {n, m} /\ \E k, l : tx.time \subseteq {k, l}
    <2>1. CASE Reserve(id) = NoID
      BY <2>1, SpawnerShape
    <2>2. CASE Spawns(id)
      BY <2>2, SpawnerShape
    <2>3. CASE Reserve(id) # NoID /\ ~Spawns(id)
      BY <2>3, SpawnerShape
    <2> QED BY <2>1, <2>2, <2>3
  <1> HIDE DEF tx
  <1>2. AtMost(tx.value, 0) /\ AtMost(tx.occupant, 1) /\ AtMost(tx.located, 1)
        /\ AtMost(tx.entity, 2) /\ AtMost(tx.time, 2)
    BY <1>1, Few
  <1>3. AtMost(Nodes(tx), 0 + 1 + 1 + 2 + 2)
    BY <1>2, NodeCount
  <1>4. IsFiniteSet(Nodes(tx)) /\ Cardinality(Nodes(tx)) <= 6
    BY <1>3 DEF AtMost
  <1> QED BY <1>4, FS_CardinalityType DEF AtMost, tx

(* A value or two, and an appointment or two. *)
LEMMA OthersCount ==
  ASSUME NEW tx, NEW v \in Nat, NEW t \in Nat, AtMost(tx.value, v), AtMost(tx.time, t),
         tx.occupant = {}, tx.located = {}, tx.entity = {}
  PROVE  AtMost(Nodes(tx), v + t)
  <1>1. AtMost(Nodes(tx), v + 0 + 0 + 0 + t)
    BY Few, NodeCount
  <1> QED BY <1>1

(* Every transaction fits its capacity. *)
LEMMA EnoughCapacity ==
  ASSUME IInv
  PROVE  WithinCapacity
  <1> SUFFICES ASSUME NEW id \in ready PROVE AtMost(Nodes(Notify(id)), Capacity(entity[id].kind))
    BY DEF WithinCapacity, AtMost, Nodes
  <1>1. TypeOK /\ id \in Live
    BY DEF IInv, Awake, Expected
  <1>2. CASE id \in Machines
    BY <1>1, <1>2, MachineCount DEF Notify, Machines, Capacity
  <1>3. CASE id \in Of("Spawner")
    BY <1>3, SpawnerCount DEF Notify, Of, Capacity
  <1>4. CASE id \notin Machines /\ id \notin Of("Spawner")
    <2> DEFINE tx == Notify(id)
    <2>1. tx.occupant = {} /\ tx.located = {} /\ tx.entity = {}
      BY <1>1, <1>4, OthersTypes
    <2>2. entity[id].kind \in {"Source", "Sink", "Counter", "Evenator", "Player"}
      BY <1>1, <1>4, Alive, KindsOf DEF Machines, Of
    <2>3. CASE entity[id].kind = "Source"
      <3>1. /\ \E n, m : tx.value \subseteq {n, m}
            /\ tx.time = {}
        BY <2>3 DEF Notify, SourceTx, Nothing
      <3> HIDE DEF tx
      <3>2. AtMost(tx.value, 2) /\ AtMost(tx.time, 0)
        BY <3>1, Few
      <3>3. AtMost(Nodes(tx), 2 + 0)
        BY <2>1, <3>2, OthersCount
      <3> QED BY <2>3, <3>3 DEF Capacity, tx
    <2>4. CASE entity[id].kind = "Sink"
      <3>1. /\ \E n, m : tx.value \subseteq {n, m}
            /\ tx.time = {}
        BY <2>4 DEF Notify, SinkTx, Nothing
      <3> HIDE DEF tx
      <3>2. AtMost(tx.value, 2) /\ AtMost(tx.time, 0)
        BY <3>1, Few
      <3>3. AtMost(Nodes(tx), 2 + 0)
        BY <2>1, <3>2, OthersCount
      <3> QED BY <2>4, <3>3 DEF Capacity, tx
    <2>5. CASE entity[id].kind = "Counter"
      <3>1. tx = CounterTx(id)
        BY <2>5 DEF Notify
      <3>2. /\ \E n : CounterTx(id).value \subseteq {n}
            /\ CounterTx(id).time = {OnCommitSleepFor(1, id), OnAbortRetry(id)}
        BY DEF CounterTx, Nothing
      <3> HIDE DEF tx
      <3>3. AtMost(tx.value, 1) /\ AtMost(tx.time, 2)
        BY <3>1, <3>2, Few
      <3>4. AtMost(Nodes(tx), 1 + 2)
        BY <2>1, <3>3, OthersCount
      <3> QED BY <2>5, <3>4 DEF Capacity, tx
    <2>6. CASE entity[id].kind = "Evenator"
      <3>1. tx = EvenatorTx(id)
        BY <2>6 DEF Notify
      <3>2. /\ \E n : EvenatorTx(id).value \subseteq {n}
            /\ EvenatorTx(id).time \subseteq {OnAbortRetry(id)}
        BY DEF EvenatorTx, Nothing
      <3> HIDE DEF tx
      <3>3. AtMost(tx.value, 1) /\ AtMost(tx.time, 1)
        BY <3>1, <3>2, Few
      <3>4. AtMost(Nodes(tx), 1 + 1)
        BY <2>1, <3>3, OthersCount
      <3>5. IsFiniteSet(Nodes(tx)) /\ Cardinality(Nodes(tx)) <= 2
        BY <3>4 DEF AtMost
      <3> QED BY <2>6, <3>5, FS_CardinalityType DEF AtMost, Capacity, tx
    <2>7. CASE entity[id].kind = "Player"
      <3>1. tx = PlayerTx(id)
        BY <2>7 DEF Notify
      <3>2. /\ \E n : PlayerTx(id).value \subseteq {n}
            /\ PlayerTx(id).time = {OnCommitSleepFor(1, id)}
        BY DEF PlayerTx, Nothing
      <3> HIDE DEF tx
      <3>3. AtMost(tx.value, 1) /\ AtMost(tx.time, 1)
        BY <3>1, <3>2, Few
      <3>4. AtMost(Nodes(tx), 1 + 1)
        BY <2>1, <3>3, OthersCount
      <3> QED BY <2>7, <3>4 DEF Capacity, tx
    <2> QED BY <2>2, <2>3, <2>4, <2>5, <2>6, <2>7
  <1> QED BY <1>2, <1>3, <1>4

------------------------------------------------------------------------------
(* Who changes the term in a cell. *)
LEMMA ValueStep ==
  ASSUME IInv, NEW committed, Steps(committed), NEW c \in Coordinate, value'[c] # value[c]
  PROVE  \E i \in committed :
           /\ i \in Live /\ value'[c] \in Term
           /\ \/ i \in Machines /\ Proceeds(i) /\ c = Here(i) /\ occupant[c] = i
              \/ entity[i].kind = "Source" /\ entity[i].location = c /\ value[c] = ABSENT
              \/ /\ entity[i].kind \in {"Sink", "Counter", "Evenator"} /\ entity[i].location = c
                 /\ value'[c] \notin Opcode
              \/ entity[i].kind = "Player" /\ queue # << >> /\ value'[c] = Head(queue).value
  <1>1. value' = [k \in Coordinate |-> Rebuilt(Proposed, "value", k, committed, value[k])]
    BY DEF Steps, Rebuild, Values
  <1>2. value'[c] = Rebuilt(Proposed, "value", c, committed, value[c]) /\ "value" \in Maps
    BY <1>1 DEF Maps
  <1>3. PICK i \in committed : \E n \in Written(Proposed[i].value) : n.key = c
    BY <1>2, RebuiltIs
  <1>4. PICK n \in Written(Proposed[i].value) : n.key = c
    BY <1>3
  <1>5. value'[c] = n.desired
    BY <1>2, <1>4, RebuiltIs
  <1>6. TypeOK /\ i \in Live /\ n \in Written(Notify(i).value)
    <2>1. i \in ready
      BY DEF Steps
    <2> QED BY <1>4, <2>1, Proposal DEF IInv
  <1>7. /\ n.desired \in Term
        /\ \/ i \in Machines /\ Proceeds(i) /\ n.key = Here(i)
           \/ entity[i].kind = "Source" /\ n.key = entity[i].location /\ value[n.key] = ABSENT
           \/ /\ entity[i].kind \in {"Sink", "Counter", "Evenator"}
              /\ n.key = entity[i].location /\ n.desired \notin Opcode
           \/ /\ entity[i].kind = "Player" /\ queue # << >>
              /\ n.key = Head(queue).coordinate /\ n.desired = Head(queue).value
    BY <1>6, ValuesWritten
  <1>8. i \in Machines => occupant[Here(i)] = i
    BY DEF IInv, Footing, Here
  <1> QED BY <1>4, <1>5, <1>6, <1>7, <1>8

(* Who changes the term under a machine, without a player. *)
LEMMA OccupantWrites ==
  ASSUME IInv, NEW committed, Steps(committed), NEW c \in Coordinate,
         value'[c] # value[c], occupant[c] # NoID, Of("Player") = {}
  PROVE  \/ occupant[c] \in ready /\ entity[occupant[c]].new_location = c
         \/ \E id \in located[c] \cap ready : id \notin Machines
  <1>1. PICK i \in committed :
           /\ i \in Live
           /\ \/ i \in Machines /\ c = Here(i) /\ occupant[c] = i
              \/ /\ entity[i].kind \in {"Source", "Sink", "Counter", "Evenator"}
                 /\ entity[i].location = c
              \/ entity[i].kind = "Player"
    BY ValueStep
  <1>2. i \in ready /\ entity[i].kind # "Player"
    BY <1>1 DEF Steps, Of
  <1>3. CASE entity[i].kind \in {"Source", "Sink", "Counter", "Evenator"} /\ entity[i].location = c
    <2>1. i \notin Machines /\ i \notin Of("Player")
      BY <1>3 DEF Machines, Of
    <2>2. i \in located[c]
      BY <1>1, <1>3, <2>1 DEF IInv, LocatedMirrorsOccupancy
    <2> QED BY <1>2, <2>1, <2>2
  <1> QED BY <1>1, <1>2, <1>3 DEF Here
------------------------------------------------------------------------------
(* The claims of a machine.  What it holds beyond the ends of its hop is   *)
(* the cell ahead of it, and the glyph it stands on does not turn it away. *)
ClaimsKept ==
  \A c \in Coordinate :
    LET e == entity[occupant[c]] IN
    occupant[c] # NoID /\ c \notin {e.old_location, e.new_location}
      => /\ c = StepFrom(e.new_location, e.new_heading)
         /\ value[e.new_location] # ABSENT /\ value[e.new_location] \notin Steering

(* The player puts down no glyph that steers machines. *)
NoSteeringInput == \A input \in Inputs : input.value \notin Steering

(* A glyph that does not steer is not replaced by one that does, unless by *)
(* the machine that stands on it.                                          *)
LEMMA StillStraight ==
  ASSUME IInv, NoSteeringInput, NEW committed, Steps(committed), NEW c \in Coordinate,
         value[c] # ABSENT, value[c] \notin Steering,
         \A i \in committed : i \in Machines /\ Proceeds(i) => c # Here(i)
  PROVE  value'[c] # ABSENT /\ value'[c] \notin Steering
  <1>1. CASE value'[c] = value[c]
    BY <1>1
  <1>2. CASE value'[c] # value[c]
    <2>1. PICK i \in committed :
           /\ value'[c] \in Term
           /\ \/ i \in Machines /\ Proceeds(i) /\ c = Here(i)
              \/ value[c] = ABSENT
              \/ value'[c] \notin Opcode
              \/ queue # << >> /\ value'[c] = Head(queue).value
      BY <1>2, ValueStep
    <2>2. Steering \subseteq Opcode
      BY DEF Steering, Opcode
    <2>3. queue # << >> => Head(queue) \in Inputs
      BY DEF IInv, TypeOK
    <2> QED BY <2>1, <2>2, <2>3, Glyphs DEF NoSteeringInput
  <1> QED BY <1>1, <1>2

(* The claims, after the step. *)
LEMMA ClaimsStep ==
  ASSUME IInv, NoSteeringInput, ClaimsKept, NEW committed, Steps(committed)
  PROVE  ClaimsKept'
  <1> SUFFICES ASSUME NEW c \in Coordinate, NEW m, m = occupant'[c], m # NoID,
                      c # entity'[m].old_location, c # entity'[m].new_location
               PROVE  /\ c = StepFrom(entity'[m].new_location, entity'[m].new_heading)
                      /\ value'[entity'[m].new_location] # ABSENT
                      /\ value'[entity'[m].new_location] \notin Steering
    BY DEF ClaimsKept, StepFrom
  <1>1. TypeOK /\ committed \subseteq Live
    BY DEF IInv, Steps, Awake, Expected
  <1>2. \A i \in committed : c \notin Leaving(i)
    BY CellStep
  <1>3. ASSUME NEW i \in committed, c \in Entering(i)
        PROVE  /\ c = StepFrom(entity'[m].new_location, entity'[m].new_heading)
               /\ value'[entity'[m].new_location] # ABSENT
               /\ value'[entity'[m].new_location] \notin Steering
    <2>1. m = Enters(i)
      BY <1>3, CellStep
    <2>2. CASE i \in Machines
      <3> DEFINE p == Plan(i)
      <3>1. m = i /\ Proceeds(i) /\ c \in Taking(i) /\ i \in Moving(committed)
        BY <1>3, <2>1, <2>2 DEF Enters, Entering, Moving, Proceeds
      <3>2. entity'[i].new_location = p.next /\ entity'[i].new_heading = p.heading
        BY <1>1, <2>2, <3>1, EntityAfter, OnwardType DEF SamePlace
      <3>3. /\ p.next \in Coordinate /\ p.next # Here(i) /\ p.beyond = StepFrom(p.next, p.heading)
            /\ p.claim_beyond = (Read(p.next) = "DO_NOT_QUEUE")
            /\ occupant[p.next] = NoID \/ occupant[p.next] = i
        BY <1>1, <2>2, <3>1, Planned DEF Proceeds, Ours, Here
      <3>4. p.claim_beyond /\ c = p.beyond
        BY <3>1, <3>2 DEF Taking
      <3>5. value[p.next] = "DO_NOT_QUEUE"
        BY <3>3, <3>4 DEF Read, EMPTY
      <3>6. "DO_NOT_QUEUE" # ABSENT /\ "DO_NOT_QUEUE" \notin Steering
        BY DEF ABSENT, Steering
      <3>7. \A j \in committed : j \in Machines /\ Proceeds(j) => p.next # Here(j)
        <4> SUFFICES ASSUME NEW j \in committed, j \in Machines, p.next = Here(j) PROVE FALSE
          OBVIOUS
        <4>1. occupant[p.next] = j /\ j # NoID
          BY Numbered DEF IInv, Footing, Here, Machines, Live
        <4> QED BY <3>3, <4>1
      <3> HIDE DEF p
      <3> QED BY <3>1, <3>2, <3>3, <3>4, <3>5, <3>6, <3>7, StillStraight
    <2>3. CASE i \notin Machines
      <3>1. i \in Spawning(committed) /\ Enters(i) = Reserve(i) /\ c = Place(i)
        BY <1>3, <2>3 DEF Entering, Spawning, Enters
      <3>2. entity'[m] = NewMachine(Place(i))
        BY <2>1, <3>1, EntityAfter
      <3> QED BY <3>1, <3>2 DEF NewMachine
    <2> QED BY <2>2, <2>3
  <1>4. ASSUME \A i \in committed : c \notin Entering(i)
        PROVE  /\ c = StepFrom(entity'[m].new_location, entity'[m].new_heading)
               /\ value'[entity'[m].new_location] # ABSENT
               /\ value'[entity'[m].new_location] \notin Steering
    <2> DEFINE e == entity[m]
    <2>1. occupant[c] = m
      BY <1>2, <1>4, CellStep
    <2>2. /\ m \in Machines /\ m \in Live /\ e \in MachineType /\ Here(m) \in Coordinate
          /\ occupant[Here(m)] = m /\ Here(m) = e.new_location
      BY <1>1, <2>1, Alive, RestedType DEF IInv, Occupied, Footing, Machines, Here
    <2>3. c \notin {e.old_location, e.new_location} =>
            /\ c = StepFrom(e.new_location, e.new_heading)
            /\ value[e.new_location] # ABSENT /\ value[e.new_location] \notin Steering
      BY <2>1 DEF ClaimsKept
    <2>4. \A j \in committed : j \in Machines /\ Proceeds(j) /\ Here(m) = Here(j) => j = m
      BY <2>2 DEF IInv, Footing, Here
    <2>5. CASE m \notin Moving(committed)
      <3>1. /\ entity'[m].old_location = e.old_location /\ entity'[m].new_location = e.new_location
            /\ entity'[m].new_heading = e.new_heading
        BY <2>2, <2>5, EntityAfter DEF SamePlace
      <3>2. \A j \in committed : j \in Machines /\ Proceeds(j) => Here(m) # Here(j)
        BY <2>4, <2>5 DEF Moving, Proceeds
      <3>3. value'[Here(m)] # ABSENT /\ value'[Here(m)] \notin Steering
        BY <2>2, <2>3, <3>1, <3>2, StillStraight
      <3> QED BY <2>2, <2>3, <3>1, <3>3
    <2>6. CASE m \in Moving(committed) /\ Parks(m)
      <3>1. /\ entity'[m].old_location = Here(m) /\ entity'[m].new_location = Here(m)
            /\ entity'[m].new_heading = e.new_heading
        <4>1. /\ Rested(m).old_location = Here(m) /\ Rested(m).new_location = Here(m)
              /\ Rested(m).new_heading = e.new_heading
          BY <2>2 DEF Rested, MachineType
        <4> QED BY <2>2, <2>6, <4>1, EntityAfter DEF SamePlace
      <3>2. c # Here(m) /\ c # e.old_location
        <4>1. c # Here(m)
          BY <3>1
        <4>2. e.phase = "WAITING_FOR_NEW" => e.old_location = Here(m)
          BY <2>2 DEF IInv, Hops
        <4>3. e.phase # "WAITING_FOR_NEW" => e.old_location \in Leaving(m)
          BY <2>2, <2>6 DEF Leaving, Left, Moving
        <4>4. m \in committed
          BY <2>6 DEF Moving
        <4> QED BY <1>2, <4>1, <4>2, <4>3, <4>4
      <3>3. \A j \in committed : j \in Machines /\ Proceeds(j) => Here(m) # Here(j)
        BY <2>4, <2>6 DEF Parks, Proceeds
      <3>4. value'[Here(m)] # ABSENT /\ value'[Here(m)] \notin Steering
        BY <2>2, <2>3, <3>2, <3>3, StillStraight
      <3> QED BY <2>2, <2>3, <3>1, <3>2, <3>4
    <2>7. CASE m \in Moving(committed) /\ Proceeds(m)
      <3> DEFINE p == Plan(m)
      <3>1. /\ entity'[m].old_location = Here(m) /\ entity'[m].new_location = p.next
            /\ m \in committed /\ p.next \in Entering(m)
        BY <1>1, <2>2, <2>7, EntityAfter, OnwardType DEF SamePlace, Moving, Entering, Taking
      <3>2. c # Here(m) /\ c # e.old_location
        <4>1. e.phase = "WAITING_FOR_NEW" => e.old_location = Here(m)
          BY <2>2 DEF IInv, Hops
        <4>2. e.phase # "WAITING_FOR_NEW" => e.old_location \in Leaving(m)
          BY <2>2, <2>7 DEF Leaving, Left, Moving
        <4> QED BY <1>2, <3>1, <4>1, <4>2
      <3>3. /\ p.next = StepFrom(e.new_location, p.heading)
            /\ p.action \notin Steering => p.heading = e.new_heading
            /\ p.action # "NOOP" => p.action = Read(e.new_location)
        BY <1>1, <2>2, Planned
      <3>4. p.action \notin Steering
        <4>1. value[e.new_location] # ABSENT /\ value[e.new_location] \notin Steering
          BY <2>2, <2>3, <3>2
        <4>2. "NOOP" \notin Steering
          BY DEF Steering
        <4> QED BY <3>3, <4>1, <4>2 DEF Read
      <3>5. c = p.next
        BY <2>2, <2>3, <3>2, <3>3, <3>4
      <3> QED BY <1>4, <3>1, <3>5
    <2> QED BY <2>5, <2>6, <2>7 DEF Moving, Parks, Proceeds
  <1> QED BY <1>3, <1>4

------------------------------------------------------------------------------
(* Who is awake stays awake, or leaves itself a way to be woken. *)

(* A machine on the road has an appointment with its arrival. *)
OnTheRoad == \A m \in Machines : Waits(m) => <<entity[m].eta, m>> \in waiting_on_time

(* An appointment is the next tick's, or kept. *)
LEMMA DueLater ==
  ASSUME NEW committed, Steps(committed), NEW a \in Appointments(Proposed, committed)
  PROVE  /\ a[1] = 1 => a[2] \in ready'
         /\ a[1] > 1 => <<a[1] - 1, a[2]>> \in waiting_on_time'
  <1> DEFINE due == Appointments(Proposed, committed)
             Due == {b[2] : b \in {d \in due : d[1] = 1}}
             V == UNION {Woken(Proposed, "value", c, committed, waiter_on_value[c]) : c \in Coordinate}
             O == UNION {Woken(Proposed, "occupant", c, committed, waiter_on_occupant[c]) : c \in Coordinate}
  <1>1. ready' = Due \cup V \cup O /\ waiting_on_time' = {<<b[1] - 1, b[2]>> : b \in {d \in due : d[1] > 1}}
    BY DEF Steps, Rebuild
  <1>2. a[1] = 1 => a[2] \in Due
    OBVIOUS
  <1> HIDE DEF Due, V, O
  <1> QED BY <1>1, <1>2

(* Whoever has an appointment is expected. *)
LEMMA Appointed ==
  ASSUME IInv, NEW committed, Steps(committed), NEW a \in Appointments(Proposed, committed)
  PROVE  a[2] \in Expected'
  <1>1. a[1] \in 1 .. TRAVEL /\ TRAVEL \in Nat
    BY AppointmentsKept, WorldAssumption
  <1>2. a[1] = 1 \/ a[1] > 1
    BY <1>1
  <1>3. CASE a[1] = 1
    BY <1>3, DueLater DEF Expected
  <1>4. CASE a[1] > 1
    <2>1. <<a[1] - 1, a[2]>> \in waiting_on_time'
      BY <1>4, DueLater
    <2> QED BY <2>1 DEF Expected
  <1> QED BY <1>2, <1>3, <1>4

(* An appointment of a transaction is made if it ends as the node asks. *)
LEMMA Appoints ==
  ASSUME IInv, NEW committed, Steps(committed), NEW id \in ready, NEW n \in Notify(id).time,
         State(id, committed) \in n.op
  PROVE  <<n.key, n.desired>> \in Appointments(Proposed, committed)
  <1>1. n \in Proposed[id].time
    BY Proposal
  <1>2. <<id, n>> \in UNION {{k} \X Proposed[k].time : k \in ready}
    BY <1>1
  <1> QED BY <1>2 DEF Appointments

(* Where the step puts those who waited: woken, or waiting still. *)
LEMMA WokenReady ==
  ASSUME NEW committed, Steps(committed), NEW c \in Coordinate
  PROVE  /\ Woken(Proposed, "value", c, committed, waiter_on_value[c]) \subseteq ready'
         /\ Woken(Proposed, "occupant", c, committed, waiter_on_occupant[c]) \subseteq ready'
         /\ waiter_on_value'[c] = RebuiltWaiters(Proposed, "value", c, committed, waiter_on_value[c])
         /\ waiter_on_occupant'[c]
              = RebuiltWaiters(Proposed, "occupant", c, committed, waiter_on_occupant[c])
  <1> DEFINE due == Appointments(Proposed, committed)
             Due == {b[2] : b \in {d \in due : d[1] = 1}}
             V == UNION {Woken(Proposed, "value", k, committed, waiter_on_value[k]) : k \in Coordinate}
             O == UNION {Woken(Proposed, "occupant", k, committed, waiter_on_occupant[k]) : k \in Coordinate}
  <1>1. ready' = Due \cup V \cup O
    BY DEF Steps, Rebuild
  <1>2. /\ Woken(Proposed, "value", c, committed, waiter_on_value[c]) \subseteq V
        /\ Woken(Proposed, "occupant", c, committed, waiter_on_occupant[c]) \subseteq O
    OBVIOUS
  <1>3. /\ waiter_on_value' = [k \in Coordinate |->
             RebuiltWaiters(Proposed, "value", k, committed, waiter_on_value[k])]
        /\ waiter_on_occupant' = [k \in Coordinate |->
             RebuiltWaiters(Proposed, "occupant", k, committed, waiter_on_occupant[k])]
    BY DEF Steps, Rebuild
  <1> HIDE DEF Due, V, O
  <1> QED BY <1>1, <1>2, <1>3

(* Whoever waits at a key is woken or waits on. *)
LEMMA WaitersStay ==
  ASSUME NEW committed, Steps(committed), NEW c \in Coordinate
  PROVE  waiter_on_value[c] \cup waiter_on_occupant[c] \subseteq Expected'
  <1>1. ASSUME NEW p, NEW old
        PROVE  old \subseteq RebuiltWaiters(Proposed, p, c, committed, old)
                             \cup Woken(Proposed, p, c, committed, old)
    BY DEF RebuiltWaiters, Woken
  <1>2. /\ waiter_on_value[c] \subseteq waiter_on_value'[c] \cup ready'
        /\ waiter_on_occupant[c] \subseteq waiter_on_occupant'[c] \cup ready'
    BY <1>1, WokenReady
  <1>3. waiter_on_value'[c] \cup waiter_on_occupant'[c] \cup ready' \subseteq Expected'
    BY DEF Expected
  <1> QED BY <1>2, <1>3

(* Whoever leaves a waiting node that matches its end is expected. *)
LEMMA Listens ==
  ASSUME IInv, NEW committed, Steps(committed), NEW id \in ready, NEW n \in Notify(id).value,
         State(id, committed) \in n.op,
         WRITE_ON_COMMIT \notin n.op \/ id \in committed
  PROVE  id \in Expected'
  <1>1. n \in Proposed[id].value /\ n.key \in Coordinate
    BY Proposal DEF HasTypes
  <1> DEFINE c == n.key
             old == waiter_on_value[c]
  <1>2. <<id, n>> \in At(Proposed, "value", c)
    BY <1>1 DEF At
  <1>3. CASE WRITE_ON_COMMIT \notin n.op
    <2>1. <<id, n>> \notin Writers(Proposed, "value", c, committed)
      BY <1>3 DEF Writers
    <2>2. id \in Waiters(Proposed, "value", c, committed)
      BY <1>2, <2>1 DEF Waiters
    <2>3. \/ id \in RebuiltWaiters(Proposed, "value", c, committed, old)
          \/ id \in Woken(Proposed, "value", c, committed, old)
      BY <2>2 DEF RebuiltWaiters, Woken
    <2>4. id \in waiter_on_value'[c] \/ id \in ready'
      BY <1>1, <2>3, WokenReady
    <2> QED BY <1>1, <2>4 DEF Expected
  <1>4. CASE WRITE_ON_COMMIT \in n.op
    <2>1. id \in committed /\ COMMITTED \in n.op
      BY <1>4 DEF State
    <2>2. <<id, n>> \in Writers(Proposed, "value", c, committed)
      BY <1>2, <1>4, <2>1 DEF Writers
    <2>3. id \in RebuiltWaiters(Proposed, "value", c, committed, old)
      BY <2>1, <2>2 DEF RebuiltWaiters
    <2>4. id \in waiter_on_value'[c]
      BY <1>1, <2>3, WokenReady
    <2> QED BY <1>1, <2>4 DEF Expected
  <1> QED BY <1>3, <1>4

(* A machine that parks writes nothing that anybody else may write. *)
LEMMA ParkingCommits ==
  ASSUME IInv, NEW committed, Steps(committed), NEW id \in ready, id \in Machines, Parks(id)
  PROVE  id \in committed
  <1> SUFFICES ASSUME id \notin committed PROVE FALSE
    OBVIOUS
  <1>1. PICK j \in committed : Conflict(Proposed[id], Proposed[j])
    BY DEF Steps, Resolves
  <1>2. PICK p \in Maps : \E n \in Written(Proposed[id][p]) : \E m \in Written(Proposed[j][p]) : n.key = m.key
    BY <1>1 DEF Conflict, Writes, Written
  <1>3. /\ TypeOK /\ j \in Live /\ id \in Live /\ j # id /\ id # NoID
        /\ Proposed[id] = Notify(id) /\ Proposed[j] = Notify(j)
    <2>1. j \in ready
      BY DEF Steps
    <2>2. j \in Live /\ id \in Live /\ Proposed[id] = Notify(id) /\ Proposed[j] = Notify(j)
      BY <2>1, Proposal
    <2> QED BY <2>2, Numbered DEF IInv, Live
  <1>4. \A c, v : Write(c, v).key = c
    BY Ops
  <1>5. CASE p = "value"
    <2>1. Written(Notify(id).value) = {}
      <3>1. entity[id].kind = "Machine" /\ ~Proceeds(id)
        BY DEF Machines, Parks, Proceeds
      <3> QED BY <1>3, <3>1, ValuesWritten
    <2> QED BY <1>2, <1>3, <1>5, <2>1
  <1>6. ASSUME NEW k \in Leaving(id), k \in Leaving(j) \cup Entering(j) PROVE FALSE
    BY <1>3, <1>6, PlaceFacts
  <1>7. Entering(id) = {}
    BY DEF Entering, Parks, Proceeds
  <1>8. CASE p = "occupant"
    <2>1. /\ Written(Notify(id).occupant) = {Write(c, NoID) : c \in Leaving(id)}
                                           \cup {Write(c, Enters(id)) : c \in Entering(id)}
          /\ Written(Notify(j).occupant) = {Write(c, NoID) : c \in Leaving(j)}
                                           \cup {Write(c, Enters(j)) : c \in Entering(j)}
      BY <1>3, Placements
    <2>2. \A n \in Written(Notify(id).occupant) : n.key \in Leaving(id)
      BY ONLY <1>4, <1>7, <2>1
    <2>3. \A n \in Written(Notify(j).occupant) : n.key \in Leaving(j) \cup Entering(j)
      BY ONLY <1>4, <2>1
    <2> QED BY <1>2, <1>3, <1>6, <1>8, <2>2, <2>3
  <1>9. CASE p = "located"
    <2>1. /\ Written(Notify(id).located) = {Write(c, located[c] \ {id}) : c \in Leaving(id)}
                                  \cup {Write(c, located[c] \cup {Enters(id)}) : c \in Entering(id)}
          /\ Written(Notify(j).located) = {Write(c, located[c] \ {j}) : c \in Leaving(j)}
                                  \cup {Write(c, located[c] \cup {Enters(j)}) : c \in Entering(j)}
      BY <1>3, Placements
    <2>2. ASSUME NEW n \in Written(Notify(id).located) PROVE n.key \in Leaving(id)
      <3>1. \E c \in Leaving(id) : n = Write(c, located[c] \ {id})
        BY <1>7, <2>1
      <3> QED BY <1>4, <3>1
    <2>3. ASSUME NEW n \in Written(Notify(j).located) PROVE n.key \in Leaving(j) \cup Entering(j)
      <3>1. \/ \E c \in Leaving(j) : n = Write(c, located[c] \ {j})
            \/ \E c \in Entering(j) : n = Write(c, located[c] \cup {Enters(j)})
        BY <2>1
      <3> QED BY <1>4, <3>1
    <2> QED BY <1>2, <1>3, <1>6, <1>9, <2>2, <2>3
  <1>10. CASE p = "entity"
    <2>1. \A n \in Written(Notify(id).entity) : n.key = id
      <3>1. Written(Notify(id).entity) = {Write(id, Parked(id))}
        BY <1>3, Installs
      <3> QED BY <1>4, <3>1
    <2>2. \A n \in Written(Notify(j).entity) : n.key # id
      <3>1. CASE j \in Of("Spawner") /\ Spawns(j)
        <4>1. j \notin Machines /\ Reserve(j) # NoID
          BY <3>1 DEF Machines, Of, Spawns
        <4>2. Written(Notify(j).entity) = {Write(j, Spent(j)), Write(Reserve(j), NewMachine(Place(j)))}
          BY <1>3, <3>1, <4>1, Installs
        <4>3. Reserve(j) # id
          BY <1>3, <3>1, <4>1, TicketFacts
        <4> QED BY <1>3, <1>4, <4>2, <4>3
      <3>2. CASE ~(j \in Of("Spawner") /\ Spawns(j))
        <4>1. \E v : Written(Notify(j).entity) \subseteq {Write(j, v)}
          BY <1>3, <3>2, Installs
        <4> QED BY <1>3, <1>4, <4>1
      <3> QED BY <3>1, <3>2
    <2> QED BY <1>2, <1>3, <1>10, <2>1, <2>2
  <1> QED BY <1>5, <1>8, <1>9, <1>10 DEF Maps

(* Every machine on the road has its appointment, after the step. *)
LEMMA OnTheRoadStep ==
  ASSUME IInv, OnTheRoad, NEW committed, Steps(committed)
  PROVE  OnTheRoad'
  <1> SUFFICES ASSUME NEW m \in Machines', entity'[m].phase = "TRAVELLING", entity'[m].eta > 0
               PROVE  <<entity'[m].eta, m>> \in waiting_on_time'
    BY DEF OnTheRoad, Waits
  <1>1. /\ TypeOK /\ Machines' = Machines \cup {Reserve(i) : i \in Spawning(committed)}
        /\ TRAVEL \in Nat
    BY LiveAfter, WorldAssumption DEF IInv
  <1>2. ASSUME NEW i \in Spawning(committed), m = Reserve(i) PROVE FALSE
    <2>1. entity'[m] = NewMachine(Place(i))
      BY <1>2, EntityAfter
    <2> QED BY <2>1 DEF NewMachine
  <1>3. m \in Machines /\ m \in ID /\ entity[m] \in MachineType
    BY <1>1, <1>2, Alive DEF Machines, Live
  <1>4. CASE m \notin Moving(committed)
    <2>1. entity'[m] = Elapse(entity[m])
      <3>1. m \notin Asking(committed) /\ \A i \in Spawning(committed) : m # Reserve(i)
        BY <1>2, <1>3 DEF Asking, Machines, Of
      <3> QED BY <1>3, <1>4, <3>1, EntityStep
    <2>2. /\ entity[m].phase = "TRAVELLING" /\ entity[m].eta > 0 /\ entity[m].eta \in Nat
          /\ entity'[m].eta = entity[m].eta - 1
      <3> DEFINE e == entity[m]
      <3>1. e.eta \in Nat /\ e.kind = "Machine" /\ e # NoEntity /\ e \in MachineType
        BY <1>1, <1>3, WorldAssumption DEF MachineType, Entity
      <3>2. ~(e.eta > 0) => Elapse(e) = e
        BY <3>1 DEF Elapse
      <3>3. e.eta > 0 => Elapse(e) = [e EXCEPT !.eta = @ - 1]
        BY <3>1 DEF Elapse
      <3>4. e.eta > 0
        BY <2>1, <3>2
      <3>5. Elapse(e).phase = e.phase /\ Elapse(e).eta = e.eta - 1
        BY <3>1, <3>3, <3>4 DEF MachineType
      <3> QED BY <2>1, <3>1, <3>4, <3>5
    <2>3. <<entity[m].eta, m>> \in Appointments(Proposed, committed)
      BY <1>3, <2>2 DEF OnTheRoad, Waits, Appointments
    <2>4. entity[m].eta > 1
      BY <2>2
    <2> QED BY <2>2, <2>3, <2>4, DueLater
  <1>5. CASE m \in Moving(committed) /\ Parks(m)
    <2>1. Rested(m).phase = "WAITING_FOR_NEW"
      BY <1>3 DEF Rested, MachineType
    <2> QED BY <1>3, <1>5, <2>1, EntityAfter DEF SamePlace
  <1>6. CASE m \in Moving(committed) /\ Proceeds(m)
    <2>1. ~Parks(m) /\ m \in committed /\ m \in ready
      BY <1>6 DEF Parks, Proceeds, Moving, Steps
    <2>2. entity'[m] = Elapse(Onward(m).machine)
      BY <1>6, <2>1, EntityStep
    <2>3. Onward(m).machine.eta = TRAVEL /\ Onward(m).machine \in MachineType
      BY <1>1, <1>3, OnwardType
    <2>4. entity'[m].eta = TRAVEL - 1 /\ TRAVEL > 1
      <3> DEFINE e == Onward(m).machine
      <3>1. e.eta = TRAVEL /\ e.kind = "Machine" /\ e # NoEntity
        BY <2>3, WorldAssumption DEF MachineType, Entity
      <3>2. Elapse(e).eta = IF TRAVEL > 0 THEN TRAVEL - 1 ELSE TRAVEL
        BY <2>3, <3>1 DEF Elapse, MachineType
      <3> QED BY <1>1, <2>2, <3>2, WorldAssumption
    <2>5. OnCommitSleepFor(TRAVEL, m) \in Notify(m).time
      <3>1. Notify(m) = MachineTx(m)
        BY <1>3 DEF Notify, Machines
      <3>2. MachineTx(m).time = {OnCommitSleepFor(TRAVEL, m), OnAbortRetry(m)}
        BY <1>6, ProceedShape
      <3> QED BY <3>1, <3>2
    <2>6. /\ OnCommitSleepFor(TRAVEL, m).key = TRAVEL /\ OnCommitSleepFor(TRAVEL, m).desired = m
          /\ State(m, committed) \in OnCommitSleepFor(TRAVEL, m).op
      BY <2>1 DEF OnCommitSleepFor, WaitOnTime, Node, State
    <2>7. <<TRAVEL, m>> \in Appointments(Proposed, committed)
      BY <2>1, <2>5, <2>6, Appoints
    <2> QED BY <2>4, <2>7, DueLater
  <1> QED BY <1>4, <1>5, <1>6 DEF Moving, Parks, Proceeds

(* Whoever acts on the world and is notified is expected afterwards. *)
LEMMA NotifiedExpected ==
  ASSUME IInv, OnTheRoad, NEW committed, Steps(committed), NEW id \in ready,
         id \notin Of("Player"), id \notin Of("Spawner")
  PROVE  id \in Expected'
  <1>1. TypeOK /\ id \in Live /\ id \in ID
    BY DEF IInv, Awake, Expected, Live
  <1>2. /\ \A d : /\ OnCommitSleepFor(d, id).desired = id /\ OnCommitSleepFor(d, id).key = d
                  /\ OnCommitSleepFor(d, id).op = {COMMITTED}
        /\ OnAbortRetry(id).desired = id /\ OnAbortRetry(id).op = {ABORTED}
        /\ \A c : /\ WaitOnValue(c, WAIT_ALWAYS).op = WAIT_ALWAYS
                  /\ WaitOnValue(c, {COMMITTED}).op = {COMMITTED}
        /\ WRITE_ON_COMMIT \notin WAIT_ALWAYS /\ WRITE_ON_COMMIT \notin {COMMITTED}
        /\ State(id, committed) \in WAIT_ALWAYS
        /\ State(id, committed) = IF id \in committed THEN COMMITTED ELSE ABORTED
    BY DEF OnCommitSleepFor, OnAbortRetry, WaitOnTime, WaitOnValue, Node, WAIT_ALWAYS, State,
           WRITE_ON_COMMIT, COMMITTED, ABORTED
  <1>3. ASSUME OnAbortRetry(id) \in Notify(id).time, id \notin committed
        PROVE  id \in Expected'
    <2>1. <<OnAbortRetry(id).key, id>> \in Appointments(Proposed, committed)
      BY <1>2, <1>3, Appoints
    <2> QED BY <2>1, Appointed
  <1>4. ASSUME NEW d, OnCommitSleepFor(d, id) \in Notify(id).time, id \in committed
        PROVE  id \in Expected'
    <2>1. <<d, id>> \in Appointments(Proposed, committed)
      BY <1>2, <1>4, Appoints
    <2> QED BY <2>1, Appointed
  <1>5. ASSUME NEW c, WaitOnValue(c, WAIT_ALWAYS) \in Notify(id).value
        PROVE  id \in Expected'
    BY <1>2, <1>5, Listens
  <1>6. CASE id \in Machines
    <2>1. Notify(id) = MachineTx(id)
      BY <1>6 DEF Notify, Machines
    <2>2. CASE Waits(id)
      <3>1. <<entity[id].eta, id>> \in Appointments(Proposed, committed)
        BY <1>6, <2>2 DEF OnTheRoad, Appointments
      <3> QED BY <3>1, Appointed
    <2>3. CASE Parks(id)
      <3>1. MachineTx(id).value = {WaitOnValue(c, {COMMITTED}) : c \in WaitsForValue(Plan(id), Here(id))}
        BY <2>3, ParkShape
      <3>2. Here(id) \in WaitsForValue(Plan(id), Here(id))
        BY DEF WaitsForValue
      <3>3. WaitOnValue(Here(id), {COMMITTED}) \in Notify(id).value
        BY <2>1, <3>1, <3>2
      <3>4. id \in committed
        BY <1>6, <2>3, ParkingCommits
      <3> QED BY <1>2, <3>3, <3>4, Listens
    <2>4. CASE Proceeds(id)
      <3>1. MachineTx(id).time = {OnCommitSleepFor(TRAVEL, id), OnAbortRetry(id)}
        BY <2>4, ProceedShape
      <3> QED BY <1>3, <1>4, <2>1, <3>1
    <2> QED BY <2>2, <2>3, <2>4 DEF Parks, Proceeds
  <1>7. CASE entity[id].kind = "Source"
    <2>1. Notify(id) = SourceTx(id)
      BY <1>7 DEF Notify
    <2>2. WaitOnValue(entity[id].location, WAIT_ALWAYS) \in SourceTx(id).value
      BY DEF SourceTx, Nothing
    <2> QED BY <1>5, <2>1, <2>2
  <1>8. CASE entity[id].kind = "Sink"
    <2>1. Notify(id) = SinkTx(id)
      BY <1>8 DEF Notify
    <2>2. WaitOnValue(entity[id].location, WAIT_ALWAYS) \in SinkTx(id).value
      BY DEF SinkTx, Nothing
    <2> QED BY <1>5, <2>1, <2>2
  <1>9. CASE entity[id].kind = "Counter"
    <2>1. Notify(id) = CounterTx(id)
      BY <1>9 DEF Notify
    <2>2. CounterTx(id).time = {OnCommitSleepFor(1, id), OnAbortRetry(id)}
      BY DEF CounterTx, Nothing
    <2> QED BY <1>3, <1>4, <2>1, <2>2
  <1>10. CASE entity[id].kind = "Evenator"
    <2> DEFINE at == entity[id].location
               n == Node(at, Successor(value[at]), {WRITE_ON_COMMIT, COMMITTED})
    <2>1. Notify(id) = EvenatorTx(id)
      BY <1>10 DEF Notify
    <2>2. CASE value[at] \in {"1", "3"}
      <3>1. n \in Notify(id).value /\ OnAbortRetry(id) \in Notify(id).time
        BY <2>1, <2>2 DEF EvenatorTx, Nothing
      <3>2. n.op = {WRITE_ON_COMMIT, COMMITTED}
        BY DEF Node
      <3> HIDE DEF n
      <3>3. CASE id \in committed
        BY <1>2, <3>1, <3>2, <3>3, Listens
      <3> QED BY <1>3, <3>1, <3>3
    <2>3. CASE value[at] \notin {"1", "3"}
      <3>1. WaitOnValue(at, WAIT_ALWAYS) \in Notify(id).value
        BY <2>1, <2>3 DEF EvenatorTx, Nothing
      <3> QED BY <1>5, <3>1
    <2> QED BY <2>2, <2>3
  <1> QED BY <1>1, <1>6, <1>7, <1>8, <1>9, <1>10, Alive, KindsOf DEF Machines, Of

(* Nobody is forgotten, after the step. *)
LEMMA ForgottenStep ==
  ASSUME IInv, OnTheRoad, NobodyIsForgotten, NEW committed, Steps(committed)
  PROVE  NobodyIsForgotten'
  <1> SUFFICES ASSUME NEW id \in Live', id \notin Of("Player")', id \notin Of("Spawner")'
               PROVE  id \in Expected'
    BY DEF NobodyIsForgotten
  <1>1. /\ Live' = Live \cup {Reserve(i) : i \in Spawning(committed)}
        /\ Of("Spawner")' = Of("Spawner") /\ Of("Player")' = Of("Player")
    BY LiveAfter
  <1>2. CASE id \in Live
    <2>1. id \in Expected /\ id \notin Of("Player") /\ id \notin Of("Spawner")
      BY <1>1, <1>2 DEF NobodyIsForgotten
    <2>2. CASE id \in ready
      BY <2>1, <2>2, NotifiedExpected
    <2>3. ASSUME NEW a \in waiting_on_time, id = a[2] PROVE id \in Expected'
      <3>1. a \in Appointments(Proposed, committed)
        BY DEF Appointments
      <3> QED BY <2>3, <3>1, Appointed
    <2>4. ASSUME NEW c \in Coordinate, id \in waiter_on_value[c] \cup waiter_on_occupant[c]
          PROVE  id \in Expected'
      BY <2>4, WaitersStay
    <2> QED BY <2>1, <2>2, <2>3, <2>4 DEF Expected
  <1>3. ASSUME NEW i \in Spawning(committed), id = Reserve(i) PROVE id \in Expected'
    <2> DEFINE n == OnCommitSleepFor(1, id)
    <2>1. i \in committed /\ i \in ready /\ i \in Of("Spawner") /\ Spawns(i)
      BY <1>3 DEF Spawning, Steps
    <2>2. Notify(i) = SpawnerTx(i)
      BY <2>1 DEF Notify, Of
    <2>3. n \in Notify(i).time
      BY <1>3, <2>1, <2>2, SpawnerShape
    <2>4. State(i, committed) \in n.op /\ n.desired = id
      BY <2>1 DEF State, OnCommitSleepFor, WaitOnTime, Node
    <2> HIDE DEF n
    <2>5. <<n.key, id>> \in Appointments(Proposed, committed)
      BY <2>1, <2>3, <2>4, Appoints
    <2> QED BY <2>5, Appointed
  <1> QED BY <1>1, <1>2, <1>3
------------------------------------------------------------------------------
(* Nobody sleeps through what it waits for.  A machine that has parked     *)
(* stays in the way of what made it park until that changes, and whatever  *)
(* it is that holds it, its own cell, a valve, a neighbour or the exit of  *)
(* a junction, it listens to.  The one thing it has read and does not      *)
(* listen to is the glyph of the junction itself.                          *)

(* What a machine executes, and where it heads then. *)
Action(m) ==
  IF Read(Here(m)) \in Opcode /\ ~TreatsCellAsData(entity[m].on_arrival) THEN Read(Here(m)) ELSE "NOOP"
Heading(m) == Steer(Action(m), entity[m].new_heading, Peek(entity[m].stack)).heading

(* It would store over matter, or matter over something. *)
Guarded(m) ==
  /\ entity[m].on_arrival = "STORE"
  /\ Read(Here(m)) = MATTER \/ (Peek(entity[m].stack) = MATTER /\ Read(Here(m)) # EMPTY)

(* The cell c cannot be entered by a junction. *)
Shut(c, heading) == occupant[c] # NoID \/ ValveBlocks(Read(c), heading)

(* The plan of a machine is made of these, and its disposition tells what  *)
(* is in its way.                                                          *)
Planning ==
  \A m :
    LET p == Plan(m) IN
    /\ p.action = Action(m) /\ p.heading = Heading(m)
    /\ p.next = StepFrom(Here(m), Heading(m)) /\ p.beyond = StepFrom(p.next, Heading(m))
    /\ p.claim_beyond = (Read(p.next) = "DO_NOT_QUEUE")
    /\ p.disposition =
         IF Action(m) = "HALT" THEN "PARK_HALT"
         ELSE IF Guarded(m) THEN "PARK_STORE_GUARD"
         ELSE IF ValveBlocks(Read(p.next), p.heading) THEN "PARK_VALVE"
         ELSE IF occupant[p.next] # NoID /\ ~Ours(m, p.next) THEN "PARK_OCCUPIED"
         ELSE IF p.claim_beyond /\ Shut(p.beyond, p.heading) THEN "PARK_JUNCTION"
         ELSE "PROCEED"

(* So it is of any machine, in any world. *)
LEMMA PlanIs == Planning
  <1> SUFFICES ASSUME NEW m
               PROVE  LET p == Plan(m) IN
               /\ p.action = Action(m) /\ p.heading = Heading(m)
               /\ p.next = StepFrom(Here(m), Heading(m)) /\ p.beyond = StepFrom(p.next, Heading(m))
               /\ p.claim_beyond = (Read(p.next) = "DO_NOT_QUEUE")
               /\ p.disposition =
                    IF Action(m) = "HALT" THEN "PARK_HALT"
                    ELSE IF Guarded(m) THEN "PARK_STORE_GUARD"
                    ELSE IF ValveBlocks(Read(p.next), p.heading) THEN "PARK_VALVE"
                    ELSE IF occupant[p.next] # NoID /\ ~Ours(m, p.next) THEN "PARK_OCCUPIED"
                    ELSE IF p.claim_beyond /\ Shut(p.beyond, p.heading) THEN "PARK_JUNCTION"
                    ELSE "PROCEED"

    BY DEF Planning
  <1> DEFINE e == entity[m]
             cell == Read(e.new_location)
             top == Peek(e.stack)
             action == IF cell \in Opcode /\ ~TreatsCellAsData(e.on_arrival) THEN cell ELSE "NOOP"
             steer == Steer(action, e.new_heading, top)
             next == StepFrom(e.new_location, steer.heading)
             beyond == StepFrom(next, steer.heading)
             p == Plan(m)
  <1>1. /\ p.action = action /\ p.heading = steer.heading /\ p.next = next
        /\ p.beyond = beyond /\ p.claim_beyond = (Read(next) = "DO_NOT_QUEUE")
    BY DEF Plan
  <1>2. p.disposition =
         IF action = "HALT" THEN "PARK_HALT"
         ELSE IF e.on_arrival = "STORE" /\ (cell = MATTER \/ (top = MATTER /\ cell # EMPTY))
           THEN "PARK_STORE_GUARD"
         ELSE IF ValveBlocks(Read(next), steer.heading) THEN "PARK_VALVE"
         ELSE IF occupant[next] # NoID /\ ~Ours(m, next) THEN "PARK_OCCUPIED"
         ELSE IF /\ Read(next) = "DO_NOT_QUEUE"
                 /\ occupant[beyond] # NoID \/ ValveBlocks(Read(beyond), steer.heading)
           THEN "PARK_JUNCTION"
         ELSE "PROCEED"
    BY DEF Plan
  <1>3. action = Action(m) /\ steer.heading = Heading(m)
    BY DEF Action, Heading, Here
  <1>4. next = StepFrom(Here(m), Heading(m)) /\ beyond = StepFrom(next, Heading(m))
    BY DEF Action, Heading, Here
  <1>5. Guarded(m) = (e.on_arrival = "STORE" /\ (cell = MATTER \/ (top = MATTER /\ cell # EMPTY)))
    BY DEF Guarded, Here
  <1>6. Shut(beyond, steer.heading)
          = (occupant[beyond] # NoID \/ ValveBlocks(Read(beyond), steer.heading))
    BY DEF Shut
  <1> HIDE DEF e, cell, top, action, steer, next, beyond, p
  <1>7. p.action = Action(m) /\ p.heading = Heading(m) /\ p.claim_beyond = (Read(p.next) = "DO_NOT_QUEUE")
    BY ONLY <1>1, <1>3
  <1>8. p.next = StepFrom(Here(m), Heading(m)) /\ p.beyond = StepFrom(p.next, Heading(m))
    BY ONLY <1>1, <1>4
  <1>9. p.disposition =
         IF Action(m) = "HALT" THEN "PARK_HALT"
         ELSE IF Guarded(m) THEN "PARK_STORE_GUARD"
         ELSE IF ValveBlocks(Read(p.next), p.heading) THEN "PARK_VALVE"
         ELSE IF occupant[p.next] # NoID /\ ~Ours(m, p.next) THEN "PARK_OCCUPIED"
         ELSE IF p.claim_beyond /\ Shut(p.beyond, p.heading) THEN "PARK_JUNCTION"
         ELSE "PROCEED"
    BY ONLY <1>1, <1>2, <1>3, <1>5, <1>6
  <1> QED BY ONLY <1>7, <1>8, <1>9 DEF p

(* Also in the world after a step. *)
LEMMA PlanIsNow == Planning'
  BY PlanIs, PTL

(* A machine that waits before what was in its way and has not been woken. *)
Sleeping(m) ==
  /\ entity[m].phase = "WAITING_FOR_NEW"
  /\ m \notin ready /\ <<1, m>> \notin waiting_on_time

(* It is held by its own cell, or by the next one, and would be woken by a *)
(* change of what holds it.                                                *)
Held(m) ==
  LET p == Plan(m) IN
  \/ p.disposition \in {"PARK_HALT", "PARK_STORE_GUARD"}
  \/ ValveBlocks(Read(p.next), p.heading) /\ m \in waiter_on_value[p.next]
  \/ occupant[p.next] \notin {NoID, m} /\ m \in waiter_on_occupant[p.next]

(* It is held by the exit of a junction, and would be woken by a change of *)
(* the exit.                                                               *)
HeldBeyond(m) ==
  LET p == Plan(m) IN
  /\ Shut(p.beyond, p.heading)
  /\ m \in waiter_on_value[p.beyond] /\ m \in waiter_on_occupant[p.beyond]

(* It also listens to its own cell. *)
Sleeps ==
  \A m \in Machines : Sleeping(m) =>
    m \in waiter_on_value[Here(m)] /\ (Held(m) \/ HeldBeyond(m))

(* A machine whose cell and whose entity stay as they are goes on as it    *)
(* planned, and a halted one stays halted when it has forgotten what it    *)
(* was to do on arrival.                                                   *)
LEMMA SameWay ==
  ASSUME NEW m, value'[Here(m)] = value[Here(m)], Here(m)' = Here(m),
         entity'[m].new_heading = entity[m].new_heading, entity'[m].stack = entity[m].stack,
         \/ entity'[m].on_arrival = entity[m].on_arrival
         \/ Action(m) = "HALT" /\ entity'[m].on_arrival = "NOOP"
  PROVE  /\ Plan(m)'.heading = Plan(m).heading /\ Plan(m)'.next = Plan(m).next
         /\ Plan(m)'.beyond = Plan(m).beyond
         /\ Plan(m).disposition \in {"PARK_HALT", "PARK_STORE_GUARD"} =>
              Plan(m)'.disposition \in {"PARK_HALT", "PARK_STORE_GUARD"}
  <1>1. Read(Here(m))' = Read(Here(m))
    BY DEF Read
  <1>2. Action(m)' = Action(m)
    <2>1. CASE entity'[m].on_arrival = entity[m].on_arrival
      BY <1>1, <2>1 DEF Action
    <2>2. CASE Action(m) = "HALT" /\ entity'[m].on_arrival = "NOOP"
      <3>1. Read(Here(m)) = "HALT" /\ "HALT" \in Opcode /\ ~TreatsCellAsData("NOOP")
        BY <2>2 DEF Action, Opcode, TreatsCellAsData
      <3> QED BY <1>1, <2>2, <3>1 DEF Action
    <2> QED BY <2>1, <2>2
  <1>3. Heading(m)' = Heading(m)
    BY <1>2 DEF Heading
  <1>4. /\ Plan(m)'.heading = Plan(m).heading /\ Plan(m)'.next = Plan(m).next
        /\ Plan(m)'.beyond = Plan(m).beyond
    <2>1. /\ Plan(m).heading = Heading(m) /\ Plan(m).next = StepFrom(Here(m), Heading(m))
          /\ Plan(m).beyond = StepFrom(Plan(m).next, Heading(m))
      BY PlanIs DEF Planning
    <2>2. /\ Plan(m)'.heading = Heading(m)' /\ Plan(m)'.next = StepFrom(Here(m)', Heading(m)')
          /\ Plan(m)'.beyond = StepFrom(Plan(m)'.next, Heading(m)')
      BY PlanIsNow DEF Planning
    <2> QED BY ONLY <1>3, <2>1, <2>2, Here(m)' = Here(m)
  <1>5. Plan(m).disposition = "PARK_HALT" <=> Action(m) = "HALT"
    BY PlanIs DEF Planning
  <1>6. Plan(m)'.disposition = "PARK_HALT" <=> Action(m)' = "HALT"
    BY PlanIsNow DEF Planning
  <1>7. Plan(m).disposition = "PARK_STORE_GUARD" <=> Action(m) # "HALT" /\ Guarded(m)
    BY PlanIs DEF Planning
  <1>8. Plan(m)'.disposition = "PARK_STORE_GUARD" <=> Action(m)' # "HALT" /\ Guarded(m)'
    BY PlanIsNow DEF Planning
  <1>9. ASSUME Action(m) # "HALT", Guarded(m) PROVE Guarded(m)'
    BY <1>1, <1>9 DEF Guarded
  <1> QED BY <1>2, <1>4, <1>5, <1>6, <1>7, <1>8, <1>9

(* What holds a machine keeps it from going on; the exit of a junction     *)
(* does so while the junction is one.                                      *)
LEMMA HeldBack ==
  ASSUME NEW m, Held(m) \/ (HeldBeyond(m) /\ Plan(m).claim_beyond)
  PROVE  Plan(m).disposition # "PROCEED"
  BY PlanIs DEF Planning, Held, HeldBeyond, Ours

(* Whoever listens to a cell and is not woken will find it as it was, and  *)
(* listens on; no matter whether it has listened before this step.         *)
LEMMA Undisturbed ==
  ASSUME IInv, NEW committed, Steps(committed), NEW c \in Coordinate, NEW m, m \notin ready'
  PROVE  /\ m \in waiter_on_value[c] \cup Waiters(Proposed, "value", c, committed) =>
              value'[c] = value[c] /\ m \in waiter_on_value'[c]
         /\ m \in waiter_on_occupant[c] \cup Waiters(Proposed, "occupant", c, committed) =>
              occupant'[c] = occupant[c] /\ m \in waiter_on_occupant'[c]
  <1>1. /\ value'[c] = Rebuilt(Proposed, "value", c, committed, value[c])
        /\ occupant'[c] = Rebuilt(Proposed, "occupant", c, committed, occupant[c])
    BY DEF Steps, Rebuild, Values, Occupants
  <1>2. ASSUME m \in waiter_on_value[c] \cup Waiters(Proposed, "value", c, committed)
        PROVE  value'[c] = value[c] /\ m \in waiter_on_value'[c]
    <2>1. Writers(Proposed, "value", c, committed) = {}
      <3>1. m \notin Woken(Proposed, "value", c, committed, waiter_on_value[c])
        BY WokenReady
      <3> QED BY <1>2, <3>1 DEF Woken
    <2>2. waiter_on_value'[c] = RebuiltWaiters(Proposed, "value", c, committed, waiter_on_value[c])
      BY WokenReady
    <2> QED BY <1>1, <1>2, <2>1, <2>2 DEF Rebuilt, RebuiltWaiters
  <1>3. ASSUME m \in waiter_on_occupant[c] \cup Waiters(Proposed, "occupant", c, committed)
        PROVE  occupant'[c] = occupant[c] /\ m \in waiter_on_occupant'[c]
    <2>1. Writers(Proposed, "occupant", c, committed) = {}
      <3>1. m \notin Woken(Proposed, "occupant", c, committed, waiter_on_occupant[c])
        BY WokenReady
      <3> QED BY <1>3, <3>1 DEF Woken
    <2>2. waiter_on_occupant'[c]
            = RebuiltWaiters(Proposed, "occupant", c, committed, waiter_on_occupant[c])
      BY WokenReady
    <2> QED BY <1>1, <1>3, <2>1, <2>2 DEF Rebuilt, RebuiltWaiters
  <1> QED BY <1>2, <1>3

(* The nodes of a machine that parks: it listens to its cell and to what   *)
(* is in its way.                                                          *)
LEMMA ParkingListens ==
  ASSUME IInv, NEW committed, Steps(committed), NEW m \in ready, m \in Machines, Parks(m)
  PROVE  /\ \A c \in WaitsForValue(Plan(m), Here(m)) : m \in Waiters(Proposed, "value", c, committed)
         /\ \A c \in WaitsForOccupant(Plan(m)) : m \in Waiters(Proposed, "occupant", c, committed)
  <1>1. m \in committed /\ State(m, committed) = COMMITTED
    BY ParkingCommits DEF State
  <1>2. /\ Proposed[m].value = {WaitOnValue(c, {COMMITTED}) : c \in WaitsForValue(Plan(m), Here(m))}
        /\ Proposed[m].occupant = {Write(c, NoID) : c \in Left(m)}
                          \cup {WaitOnOccupant(c) : c \in WaitsForOccupant(Plan(m))}
    <2>1. Proposed[m] = MachineTx(m)
      BY Proposal DEF Notify, Machines
    <2> QED BY <2>1, ParkShape
  <1>3. ASSUME NEW c \in WaitsForValue(Plan(m), Here(m))
        PROVE  m \in Waiters(Proposed, "value", c, committed)
    <2> DEFINE n == WaitOnValue(c, {COMMITTED})
    <2>1. n.key = c /\ n.op = {COMMITTED} /\ WRITE_ON_COMMIT \notin n.op
      BY DEF WaitOnValue, Node, COMMITTED, WRITE_ON_COMMIT
    <2>2. n \in Proposed[m].value
      BY <1>2
    <2> HIDE DEF n
    <2>3. <<m, n>> \in At(Proposed, "value", c)
      BY <2>1, <2>2 DEF At
    <2>4. <<m, n>> \notin Writers(Proposed, "value", c, committed)
      BY <2>1 DEF Writers
    <2> QED BY <1>1, <2>1, <2>3, <2>4 DEF Waiters
  <1>4. ASSUME NEW c \in WaitsForOccupant(Plan(m))
        PROVE  m \in Waiters(Proposed, "occupant", c, committed)
    <2> DEFINE n == WaitOnOccupant(c)
    <2>1. n.key = c /\ n.op = {COMMITTED} /\ WRITE_ON_COMMIT \notin n.op
      BY DEF WaitOnOccupant, Node, COMMITTED, WRITE_ON_COMMIT
    <2>2. n \in Proposed[m].occupant
      BY <1>2
    <2> HIDE DEF n
    <2>3. <<m, n>> \in At(Proposed, "occupant", c)
      BY <2>1, <2>2 DEF At
    <2>4. <<m, n>> \notin Writers(Proposed, "occupant", c, committed)
      BY <2>1 DEF Writers
    <2> QED BY <1>1, <2>1, <2>3, <2>4 DEF Waiters
  <1> QED BY <1>3, <1>4

(* The clock changes nothing that a plan depends on. *)
LEMMA Unhurried ==
  ASSUME NEW e \in MachineType
  PROVE  /\ Elapse(e).phase = e.phase /\ Elapse(e).old_location = e.old_location
         /\ Elapse(e).new_location = e.new_location /\ Elapse(e).new_heading = e.new_heading
         /\ Elapse(e).stack = e.stack /\ Elapse(e).on_arrival = e.on_arrival
  BY DEF Elapse, MachineType

(* Who sleeps after a step has slept before it, or has parked in it. *)
LEMMA WhoSleeps ==
  ASSUME IInv, NEW committed, Steps(committed), NEW m \in Machines', Sleeping(m)'
  PROVE  /\ m \in Machines /\ m \notin ready'
         /\ \/ m \notin ready /\ Sleeping(m) /\ entity'[m] = Elapse(entity[m])
            \/ m \in ready /\ Parks(m) /\ entity'[m] = Elapse(Parked(m))
  <1>1. /\ TypeOK /\ Machines' = Machines \cup {Reserve(i) : i \in Spawning(committed)}
        /\ committed \subseteq ready /\ m \notin ready' /\ entity'[m].phase = "WAITING_FOR_NEW"
    BY LiveAfter DEF IInv, Steps, Sleeping
  <1>2. ASSUME NEW a \in Appointments(Proposed, committed), a[1] = 1 PROVE a[2] # m
    BY <1>1, <1>2, DueLater
  <1>3. ASSUME NEW i \in Spawning(committed), m = Reserve(i) PROVE FALSE
    <2> DEFINE n == OnCommitSleepFor(1, m)
    <2>1. i \in committed /\ i \in ready /\ i \in Of("Spawner") /\ Spawns(i)
      BY <1>1, <1>3 DEF Spawning
    <2>2. Notify(i) = SpawnerTx(i)
      BY <2>1 DEF Notify, Of
    <2>3. n \in Notify(i).time
      BY <1>3, <2>1, <2>2, SpawnerShape
    <2>4. State(i, committed) \in n.op /\ n.desired = m /\ n.key = 1
      BY <2>1 DEF State, OnCommitSleepFor, WaitOnTime, Node
    <2> HIDE DEF n
    <2>5. <<1, m>> \in Appointments(Proposed, committed)
      BY <2>1, <2>3, <2>4, Appoints
    <2> QED BY <1>2, <2>5
  <1>4. m \in Machines /\ m \in ID /\ entity[m] \in MachineType
    BY <1>1, <1>3, Alive DEF Machines, Live
  <1>5. m \notin Asking(committed) /\ \A i \in Spawning(committed) : m # Reserve(i)
    BY <1>3, <1>4 DEF Asking, Machines, Of
  <1>6. m \notin Moving(committed) => entity'[m] = Elapse(entity[m]) /\ entity'[m].phase = entity[m].phase
    BY <1>4, <1>5, EntityStep, Unhurried
  <1>7. CASE m \notin ready
    <2>1. m \notin Moving(committed)
      BY <1>1, <1>7 DEF Moving
    <2>2. <<1, m>> \notin waiting_on_time
      <3>1. waiting_on_time \subseteq Appointments(Proposed, committed)
        BY DEF Appointments
      <3> QED BY <1>2, <3>1
    <2> QED BY <1>1, <1>4, <1>6, <1>7, <2>1, <2>2 DEF Sleeping
  <1>8. CASE m \in ready /\ Waits(m)
    <2>1. m \notin Moving(committed)
      BY <1>8 DEF Moving
    <2> QED BY <1>1, <1>6, <1>8, <2>1 DEF Waits
  <1>9. CASE m \in ready /\ Proceeds(m) /\ m \in committed
    <2>1. ~Parks(m) /\ m \in Moving(committed)
      BY <1>4, <1>9 DEF Parks, Proceeds, Moving
    <2>2. entity'[m] = Elapse(Onward(m).machine)
      BY <2>1, EntityStep
    <2>3. Onward(m).machine \in MachineType /\ Onward(m).machine.phase = "TRAVELLING"
      <3>1. Onward(m).machine \in MachineType
        BY <1>1, <1>4, OnwardType
      <3>2. Rested(m) \in MachineType
        BY <1>1, <1>4, RestedType
      <3>3. Onward(m).machine.phase = "TRAVELLING"
        BY <3>2 DEF Onward, MachineType
      <3> QED BY <3>1, <3>3
    <2> QED BY <1>1, <2>2, <2>3, Unhurried
  <1>10. CASE m \in ready /\ Proceeds(m) /\ m \notin committed
    <2>1. OnAbortRetry(m) \in Notify(m).time
      <3>1. Notify(m) = MachineTx(m)
        BY <1>4 DEF Notify, Machines
      <3>2. MachineTx(m).time = {OnCommitSleepFor(TRAVEL, m), OnAbortRetry(m)}
        BY <1>10, ProceedShape
      <3> QED BY <3>1, <3>2
    <2>2. OnAbortRetry(m).key = 1 /\ OnAbortRetry(m).desired = m
          /\ State(m, committed) \in OnAbortRetry(m).op
      BY <1>10 DEF OnAbortRetry, WaitOnTime, Node, State
    <2>3. <<1, m>> \in Appointments(Proposed, committed)
      BY <1>10, <2>1, <2>2, Appoints
    <2> QED BY <1>2, <2>3
  <1>11. CASE m \in ready /\ Parks(m)
    <2>1. m \in Moving(committed)
      BY <1>4, <1>11, ParkingCommits DEF Moving, Parks
    <2> QED BY <1>1, <1>4, <1>11, <2>1, EntityStep
  <1> QED BY <1>7, <1>8, <1>9, <1>10, <1>11 DEF Parks, Proceeds

(* What holds a machine that sleeps through the step still holds it, and   *)
(* it still listens to it.                                                 *)
LEMMA SleepsOn ==
  ASSUME IInv, NEW committed, Steps(committed), NEW m \in Machines, m \notin ready',
         entity'[m] = Elapse(entity[m]), m \in waiter_on_value[Here(m)]
  PROVE  /\ Plan(m)'.next = Plan(m).next /\ m \in waiter_on_value'[Here(m)']
         /\ Held(m) => Held(m)'
         /\ HeldBeyond(m) => HeldBeyond(m)'
  <1> DEFINE p == Plan(m)
             q == Plan(m)'
  <1>1. /\ TypeOK /\ entity[m] \in MachineType /\ Here(m) \in Coordinate
        /\ p.next \in Coordinate /\ p.beyond \in Coordinate
    BY Alive, Planned, RestedType DEF IInv, Machines
  <1>2. value'[Here(m)] = value[Here(m)] /\ m \in waiter_on_value'[Here(m)]
    BY <1>1, Undisturbed
  <1>3. /\ Here(m)' = Here(m) /\ entity'[m].new_heading = entity[m].new_heading
        /\ entity'[m].stack = entity[m].stack /\ entity'[m].on_arrival = entity[m].on_arrival
    BY <1>1, Unhurried DEF Here
  <1>4. /\ q.heading = p.heading /\ q.next = p.next /\ q.beyond = p.beyond
        /\ p.disposition \in {"PARK_HALT", "PARK_STORE_GUARD"} =>
             q.disposition \in {"PARK_HALT", "PARK_STORE_GUARD"}
    BY <1>2, <1>3, SameWay
  <1>5. ASSUME Held(m) PROVE Held(m)'
    <2>1. CASE p.disposition \in {"PARK_HALT", "PARK_STORE_GUARD"}
      BY <1>4, <2>1 DEF Held
    <2>2. CASE ValveBlocks(Read(p.next), p.heading) /\ m \in waiter_on_value[p.next]
      <3>1. value'[p.next] = value[p.next] /\ m \in waiter_on_value'[p.next]
        BY <1>1, <2>2, Undisturbed
      <3>2. ValveBlocks(Read(p.next), p.heading)'
        BY <1>4, <2>2, <3>1 DEF Read
      <3> QED BY <1>4, <3>1, <3>2 DEF Held
    <2>3. CASE occupant[p.next] \notin {NoID, m} /\ m \in waiter_on_occupant[p.next]
      <3>1. occupant'[p.next] = occupant[p.next] /\ m \in waiter_on_occupant'[p.next]
        BY <1>1, <2>3, Undisturbed
      <3>2. occupant'[q.next] \notin {NoID, m} /\ m \in waiter_on_occupant'[q.next]
        BY <1>4, <2>3, <3>1
      <3> QED BY <3>2 DEF Held
    <2> QED BY <1>5, <2>1, <2>2, <2>3 DEF Held
  <1>6. ASSUME HeldBeyond(m) PROVE HeldBeyond(m)'
    <2>1. /\ value'[p.beyond] = value[p.beyond] /\ m \in waiter_on_value'[p.beyond]
          /\ occupant'[p.beyond] = occupant[p.beyond] /\ m \in waiter_on_occupant'[p.beyond]
      BY <1>1, <1>6, Undisturbed DEF HeldBeyond
    <2>2. Shut(p.beyond, p.heading)
      BY <1>6 DEF HeldBeyond
    <2>3. Shut(p.beyond, p.heading)'
      BY <1>4, <2>1, <2>2 DEF Shut, Read
    <2> QED BY <1>4, <2>1, <2>3 DEF HeldBeyond
  <1> QED BY <1>2, <1>3, <1>4, <1>5, <1>6

(* A machine that has parked and is not woken at once is held by what it   *)
(* listens to.                                                             *)
LEMMA FallsAsleep ==
  ASSUME IInv, NEW committed, Steps(committed), NEW m \in Machines, m \notin ready',
         m \in ready, Parks(m), entity'[m] = Elapse(Parked(m))
  PROVE  /\ Plan(m)'.next = Plan(m).next /\ m \in waiter_on_value'[Here(m)']
         /\ Held(m)' \/ (HeldBeyond(m)' /\ Plan(m).claim_beyond)
  <1> DEFINE p == Plan(m)
             q == Plan(m)'
  <1>1. /\ TypeOK /\ entity[m] \in MachineType /\ Here(m) \in Coordinate
        /\ p.next \in Coordinate /\ p.beyond \in Coordinate /\ p.next # Here(m)
        /\ Parked(m) \in MachineType /\ Rested(m) \in MachineType
    BY Alive, Planned, RestedType DEF IInv, Machines, Here
  <1>2. /\ \A c \in WaitsForValue(p, Here(m)) : m \in Waiters(Proposed, "value", c, committed)
        /\ \A c \in WaitsForOccupant(p) : m \in Waiters(Proposed, "occupant", c, committed)
    BY ParkingListens
  <1>3. ASSUME NEW c \in Coordinate, c \in WaitsForValue(p, Here(m))
        PROVE  value'[c] = value[c] /\ m \in waiter_on_value'[c]
    BY <1>2, <1>3, Undisturbed
  <1>4. ASSUME NEW c \in Coordinate, c \in WaitsForOccupant(p)
        PROVE  occupant'[c] = occupant[c] /\ m \in waiter_on_occupant'[c]
    BY <1>2, <1>4, Undisturbed
  <1>5. value'[Here(m)] = value[Here(m)] /\ m \in waiter_on_value'[Here(m)]
    BY <1>1, <1>3 DEF WaitsForValue
  <1>6. p.disposition = "PARK_HALT" <=> Action(m) = "HALT"
    BY PlanIs DEF Planning
  <1>7. /\ Here(m)' = Here(m) /\ entity'[m].new_heading = entity[m].new_heading
        /\ entity'[m].stack = entity[m].stack
        /\ \/ entity'[m].on_arrival = entity[m].on_arrival
           \/ Action(m) = "HALT" /\ entity'[m].on_arrival = "NOOP"
    <2>1. /\ Rested(m).new_location = Here(m) /\ Rested(m).new_heading = entity[m].new_heading
          /\ Rested(m).stack = entity[m].stack /\ Rested(m).on_arrival = entity[m].on_arrival
      BY <1>1 DEF Rested, Here, MachineType
    <2>2. /\ Parked(m).new_location = Here(m) /\ Parked(m).new_heading = entity[m].new_heading
          /\ Parked(m).stack = entity[m].stack
          /\ \/ Parked(m).on_arrival = entity[m].on_arrival
             \/ Action(m) = "HALT" /\ Parked(m).on_arrival = "NOOP"
      BY <1>1, <1>6, <2>1 DEF Parked, MachineType
    <2> QED BY <1>1, <2>2, Unhurried DEF Here
  <1>8. /\ q.heading = p.heading /\ q.next = p.next /\ q.beyond = p.beyond
        /\ p.disposition \in {"PARK_HALT", "PARK_STORE_GUARD"} =>
             q.disposition \in {"PARK_HALT", "PARK_STORE_GUARD"}
    BY <1>5, <1>7, SameWay
  <1>9. CASE p.disposition \in {"PARK_HALT", "PARK_STORE_GUARD"}
    BY <1>5, <1>7, <1>8, <1>9 DEF Held
  <1>10. CASE p.disposition = "PARK_VALVE"
    <2>1. ValveBlocks(Read(p.next), p.heading)
      BY <1>10, PlanIs DEF Planning
    <2>2. value'[p.next] = value[p.next] /\ m \in waiter_on_value'[p.next]
      BY <1>1, <1>3, <1>10 DEF WaitsForValue
    <2>3. ValveBlocks(Read(p.next), p.heading)'
      BY <1>8, <2>1, <2>2 DEF Read
    <2>4. Held(m)'
      BY <1>8, <2>2, <2>3 DEF Held
    <2> QED BY <1>5, <1>7, <1>8, <2>4
  <1>11. CASE p.disposition = "PARK_OCCUPIED"
    <2>1. occupant[p.next] # NoID /\ ~Ours(m, p.next)
      BY <1>11, PlanIs DEF Planning
    <2>2. occupant'[p.next] = occupant[p.next] /\ m \in waiter_on_occupant'[p.next]
      BY <1>1, <1>4, <1>11 DEF WaitsForOccupant
    <2>3. ASSUME occupant[p.next] = m PROVE FALSE
      <3>1. p.next = entity[m].old_location
        BY <2>1, <2>3 DEF Ours
      <3>2. p.next \in Left(m) /\ m \in committed /\ ~Waits(m)
        BY <1>1, <3>1, ParkingCommits DEF IInv, Hops, Left, Here, Parks, MachineType
      <3>3. occupant'[p.next] = NoID
        BY <1>1, <3>2, CellStep DEF Leaving
      <3> QED BY <2>1, <2>2, <3>3
    <2>4. occupant'[q.next] \notin {NoID, m} /\ m \in waiter_on_occupant'[q.next]
      BY <1>8, <2>1, <2>2, <2>3
    <2>5. Held(m)'
      BY <2>4 DEF Held
    <2> QED BY <1>5, <1>7, <1>8, <2>5
  <1>12. CASE p.disposition = "PARK_JUNCTION"
    <2>1. p.claim_beyond /\ Shut(p.beyond, p.heading)
      BY <1>12, PlanIs DEF Planning
    <2>2. /\ value'[p.beyond] = value[p.beyond] /\ m \in waiter_on_value'[p.beyond]
          /\ occupant'[p.beyond] = occupant[p.beyond] /\ m \in waiter_on_occupant'[p.beyond]
      BY <1>1, <1>3, <1>4, <1>12 DEF WaitsForValue, WaitsForOccupant
    <2>3. Shut(p.beyond, p.heading)'
      BY <1>8, <2>1, <2>2 DEF Shut, Read
    <2>4. HeldBeyond(m)'
      BY <1>8, <2>2, <2>3 DEF HeldBeyond
    <2> QED BY <1>5, <1>7, <1>8, <2>1, <2>4
  <1>13. p.disposition \in {"PARK_HALT", "PARK_STORE_GUARD", "PARK_VALVE", "PARK_OCCUPIED", "PARK_JUNCTION"}
    BY PlanIs DEF Planning, Parks
  <1> QED BY <1>9, <1>10, <1>11, <1>12, <1>13

(* The player's queue is nothing that a sleeping machine listens to. *)
LEMMA SleepsUndisturbed ==
  ASSUME UNCHANGED <<ready, waiting_on_time, entity, value, occupant,
                     waiter_on_value, waiter_on_occupant>>
  PROVE  /\ Machines' = Machines
         /\ \A m : /\ Sleeping(m)' = Sleeping(m) /\ Held(m)' = Held(m)
                   /\ HeldBeyond(m)' = HeldBeyond(m) /\ Here(m)' = Here(m)
                   /\ Plan(m)' = Plan(m)
  <1>1. Machines' = Machines
    BY DEF Machines, Live
  <1>2. ASSUME NEW m PROVE Plan(m)' = Plan(m)
    BY DEF Plan, Read, Ours
  <1>3. ASSUME NEW m
        PROVE  Sleeping(m)' = Sleeping(m) /\ Here(m)' = Here(m) /\ Held(m)' = Held(m)
    BY <1>2 DEF Sleeping, Held, Here, Read
  <1>4. ASSUME NEW m PROVE HeldBeyond(m)' = HeldBeyond(m)
    BY <1>2 DEF HeldBeyond, Shut, Read
  <1> QED BY <1>1, <1>2, <1>3, <1>4

(* Nobody sleeps in a world that has just been started. *)
LEMMA StartsAwake ==
  ASSUME NEW w \in Worlds, InitFrom(w), NEW m \in Machines
  PROVE  ~Sleeping(m)
  <1> DEFINE D == DOMAIN w.entities
             Road == {id \in {k \in D : w.entities[k].kind = "Machine"} :
                        w.entities[id].phase = "TRAVELLING" /\ w.entities[id].eta > 0}
  <1>1. ready = D \ Road /\ m \in D /\ entity[m] = w.entities[m]
    BY DEF InitFrom, Machines, Live
  <1> QED BY <1>1 DEF Sleeping

(* A junction stays one: nobody writes over the glyph.                     *)
JunctionsStay == \A c \in Coordinate : Read(c) = "DO_NOT_QUEUE" => Read(c)' = "DO_NOT_QUEUE"

(* A machine asleep is held by what it listens to. *)
SleepsSoundly ==
  \A m \in Machines : Sleeping(m) =>
    /\ m \in waiter_on_value[Here(m)]
    /\ Held(m) \/ (HeldBeyond(m) /\ Plan(m).claim_beyond)

(* What a machine may oversleep: it could go on, but it waits for the exit *)
(* of a junction which is none any more.                                   *)
OverslepsJunctionsOnly ==
  \A m \in Machines :
    Sleeping(m) /\ Plan(m).disposition = "PROCEED" => HeldBeyond(m) /\ ~Plan(m).claim_beyond

(* Both invariants survive a step, the second if junctions do. *)
LEMMA SleepStep ==
  ASSUME IInv, NEW committed, Steps(committed)
  PROVE  /\ Sleeps => Sleeps'
         /\ SleepsSoundly /\ JunctionsStay => SleepsSoundly'
  <1>1. ASSUME Sleeps PROVE Sleeps'
    <2> SUFFICES ASSUME NEW m \in Machines', Sleeping(m)'
                 PROVE  m \in waiter_on_value'[Here(m)'] /\ (Held(m)' \/ HeldBeyond(m)')
      BY DEF Sleeps
    <2>1. m \in Machines /\ m \notin ready'
      BY WhoSleeps
    <2>2. CASE m \notin ready /\ Sleeping(m) /\ entity'[m] = Elapse(entity[m])
      BY <1>1, <2>1, <2>2, SleepsOn DEF Sleeps
    <2>3. CASE m \in ready /\ Parks(m) /\ entity'[m] = Elapse(Parked(m))
      BY <2>1, <2>3, FallsAsleep
    <2> QED BY <2>2, <2>3, WhoSleeps
  <1>2. ASSUME SleepsSoundly, JunctionsStay PROVE SleepsSoundly'
    <2> SUFFICES ASSUME NEW m \in Machines', Sleeping(m)'
                 PROVE  /\ m \in waiter_on_value'[Here(m)']
                        /\ Held(m)' \/ (HeldBeyond(m)' /\ Plan(m)'.claim_beyond)
      BY DEF SleepsSoundly
    <2>1. m \in Machines /\ m \notin ready' /\ TypeOK
      BY WhoSleeps DEF IInv
    <2>2. ASSUME Plan(m)'.next = Plan(m).next, Plan(m).claim_beyond PROVE Plan(m)'.claim_beyond
      <3>1. Plan(m).next \in Coordinate
        BY <2>1, Planned
      <3>2. Read(Plan(m).next) = "DO_NOT_QUEUE"
        BY <2>2, PlanIs DEF Planning
      <3>3. value'[Plan(m).next] = "DO_NOT_QUEUE"
        BY <1>2, <3>1, <3>2 DEF JunctionsStay, Read, EMPTY
      <3>4. (Read(Plan(m).next))' = "DO_NOT_QUEUE"
        BY <2>2, <3>3 DEF Read, ABSENT
      <3> QED BY <3>4, PlanIsNow DEF Planning
    <2>3. CASE m \notin ready /\ Sleeping(m) /\ entity'[m] = Elapse(entity[m])
      BY <1>2, <2>1, <2>2, <2>3, SleepsOn DEF SleepsSoundly
    <2>4. CASE m \in ready /\ Parks(m) /\ entity'[m] = Elapse(Parked(m))
      BY <2>1, <2>2, <2>4, FallsAsleep
    <2> QED BY <2>3, <2>4, WhoSleeps
  <1> QED BY <1>1, <1>2
------------------------------------------------------------------------------
(* What stacks and cells weigh, in pieces of matter. *)

(* How much matter a stack holds, and a single term. *)
Mass(s) == Cardinality({i \in DOMAIN s : s[i] = MATTER})
Unit(v) == IF v = MATTER THEN 1 ELSE 0

(* A term more on the stack. *)
LEMMA Heavier ==
  ASSUME NEW s \in Stack, NEW v \in Term \ {EMPTY}
  PROVE  /\ IsFiniteSet({i \in DOMAIN s : s[i] = MATTER}) /\ Mass(s) \in Nat
         /\ Mass(<<v>> \o s) = Mass(s) + Unit(v)
  <1> DEFINE t == <<v>> \o s
             S == {i \in DOMAIN s : s[i] = MATTER}
             T == {i \in DOMAIN t : t[i] = MATTER}
             U == {i + 1 : i \in S}
  <1>1. Len(s) \in Nat /\ DOMAIN s = 1 .. Len(s)
    BY DEF Stack
  <1>2. /\ DOMAIN t = 1 .. Len(s) + 1 /\ t[1] = v
        /\ \A i \in 1 .. Len(s) : t[i + 1] = s[i]
    BY DEF Stack
  <1>3. IsFiniteSet(S)
    <2>1. IsFiniteSet(1 .. Len(s)) /\ S \in SUBSET (1 .. Len(s))
      BY <1>1, FS_Interval
    <2> HIDE DEF S
    <2> QED BY <2>1, FS_Subset
  <1>4. IsFiniteSet(U) /\ Cardinality(U) = Cardinality(S)
    <2> DEFINE f == [i \in S |-> i + 1]
    <2>1. f \in Bijection(S, U)
      <3>1. f \in [S -> U] /\ \A i, j \in S : f[i] = f[j] => i = j
        BY <1>1
      <3>2. \A u \in U : \E i \in S : f[i] = u
        OBVIOUS
      <3> HIDE DEF f, U
      <3> QED BY <3>1, <3>2 DEF Bijection, Injection, Surjection, IsInjective
    <2> QED BY <1>3, <2>1, FS_Bijection DEF ExistsBijection
  <1>5. 1 \notin U
    BY <1>1
  <1>6. T = IF v = MATTER THEN U \cup {1} ELSE U
    <2>1. \A i \in T : i = 1 \/ i \in U
      <3>1. ASSUME NEW i \in T, i # 1 PROVE i \in U
        <4>1. i - 1 \in 1 .. Len(s) /\ i = (i - 1) + 1
          BY <1>1, <1>2, <3>1
        <4>2. t[(i - 1) + 1] = s[i - 1]
          BY <1>2, <4>1
        <4>3. i - 1 \in S
          BY <1>1, <4>1, <4>2
        <4> QED BY <4>1, <4>3
      <3> QED BY <3>1
    <2>2. \A i \in U : i \in T
      BY <1>1, <1>2
    <2>3. 1 \in T <=> v = MATTER
      BY <1>1, <1>2
    <2> HIDE DEF T, U
    <2> QED BY <2>1, <2>2, <2>3, <1>5
  <1>7. Cardinality(T) = Cardinality(S) + Unit(v)
    <2> HIDE DEF T, U, S
    <2>1. Cardinality(S) \in Nat
      BY <1>3, FS_CardinalityType
    <2>2. Cardinality(U \cup {1}) = Cardinality(U) + 1
      BY <1>4, <1>5, FS_AddElement
    <2> QED BY <1>4, <1>6, <2>1, <2>2 DEF Unit
  <1> QED BY <1>3, <1>7, FS_CardinalityType DEF Mass

(* What is pushed and popped adds and takes its mass. *)
LEMMA Weights ==
  ASSUME NEW s \in Stack
  PROVE  /\ Mass(s) \in Nat /\ Mass(Pop(s)) \in Nat /\ Mass(s) = Mass(Pop(s)) + Unit(Peek(s))
         /\ \A v \in Term : Mass(Push(s, v)) = Mass(s) + Unit(v)
  <1>0. MATTER # EMPTY
    BY Glyphs
  <1>1. EMPTY \in Term /\ MATTER \in Term \ {EMPTY}
    BY Glyphs
  <1>2. Mass(s) \in Nat
    BY <1>1, Heavier
  <1>3. ASSUME NEW v \in Term PROVE Mass(Push(s, v)) = Mass(s) + Unit(v)
    <2>1. CASE v = EMPTY
      BY <1>0, <1>2, <2>1 DEF Push, Unit
    <2>2. CASE v # EMPTY
      BY <2>2, Heavier DEF Push
    <2> QED BY <2>1, <2>2
  <1>4. Pop(s) \in Stack
    BY Stacks
  <1>5. Mass(Pop(s)) \in Nat
    BY <1>1, <1>4, Heavier
  <1>6. Mass(s) = Mass(Pop(s)) + Unit(Peek(s))
    <2>1. CASE s = << >>
      BY <1>0, <1>2, <2>1 DEF Pop, Peek, Unit
    <2>2. CASE s # << >>
      <3>1. Peek(s) = Head(s) /\ Pop(s) = Tail(s)
        BY <2>2 DEF Peek, Pop
      <3>2. Head(s) \in Term \ {EMPTY} /\ <<Head(s)>> \o Tail(s) = s
        BY <2>2 DEF Stack
      <3> QED BY <1>4, <3>1, <3>2, Heavier
    <2> QED BY <2>1, <2>2
  <1> QED BY <1>2, <1>3, <1>5, <1>6


(* A latched operation moves matter between the hand and the cell, and     *)
(* leaves none of it behind; the guard of STORE is needed.                 *)
LEMMA AppliedMass ==
  ASSUME NEW pending, NEW s \in Stack, NEW cell \in Term,
         pending = "STORE" => ~(cell = MATTER \/ (Peek(s) = MATTER /\ cell # EMPTY))
  PROVE  LET r == ApplyPending(pending, s, cell) IN
         /\ r.writes = {} => Mass(r.stack) = Mass(s)
         /\ \A v \in r.writes : Mass(r.stack) + Unit(v) = Mass(s) + Unit(cell)
  <1> DEFINE r == ApplyPending(pending, s, cell)
             Balance == /\ r.writes = {} => Mass(r.stack) = Mass(s)
                        /\ \A v \in r.writes : Mass(r.stack) + Unit(v) = Mass(s) + Unit(cell)
  <1>1. /\ Mass(s) \in Nat /\ Mass(Pop(s)) \in Nat /\ Mass(s) = Mass(Pop(s)) + Unit(Peek(s))
        /\ Mass(Push(s, cell)) = Mass(s) + Unit(cell)
    BY Weights
  <1>2. Mass(Push(Pop(s), cell)) = Mass(Pop(s)) + Unit(cell)
    BY Stacks, Weights
  <1>3. Unit(cell) \in Nat /\ Unit(Peek(s)) \in Nat /\ Unit(EMPTY) = 0 /\ Unit(MATTER) = 1
        /\ (cell # MATTER => Unit(cell) = 0)
    BY Glyphs DEF Unit
  <1>4. ASSUME pending = "LOAD" PROVE Balance
    <2>1. r.stack = Push(s, cell) /\ r.writes = IF cell = MATTER THEN {EMPTY} ELSE {}
      BY <1>4 DEF ApplyPending, Taken
    <2> HIDE DEF r
    <2> QED BY <1>1, <1>3, <2>1
  <1>5. ASSUME pending = "STORE" PROVE Balance
    <2>1. r.stack = Pop(s) /\ r.writes = {Peek(s)}
      BY <1>5 DEF ApplyPending
    <2> HIDE DEF r
    <2> QED BY <1>1, <1>3, <1>5, <2>1
  <1>6. ASSUME pending = "EXCHANGE" PROVE Balance
    <2>1. r.stack = Push(Pop(s), cell) /\ r.writes = {Peek(s)}
      BY <1>6 DEF ApplyPending
    <2> HIDE DEF r
    <2> QED BY <1>1, <1>2, <1>3, <2>1
  <1>7. ASSUME pending \notin {"LOAD", "STORE", "EXCHANGE"} PROVE Balance
    <2>1. r.writes = {} /\ (r.stack = s \/ (IsInty(cell) /\ r.stack = Push(s, cell)))
      BY <1>7 DEF ApplyPending
    <2>2. IsInty(cell) => cell # MATTER
      BY DEF IsInty, Integer, Boolean, Range, MATTER
    <2> HIDE DEF r
    <2> QED BY <1>1, <1>3, <2>1, <2>2
  <1> QED BY <1>4, <1>5, <1>6, <1>7

(* An action neither makes matter nor drops it, and no glyph it writes is  *)
(* matter.                                                                 *)
LEMMA ActedMass ==
  ASSUME NEW action \in Opcode \cup {"NOOP"}, NEW s \in Stack, NEW h \in 0 .. 3
  PROVE  LET r == ApplyAction(action, s, h) IN
         Mass(r.stack) = Mass(s) /\ \A v \in r.writes : v # MATTER
  <1> DEFINE top == Peek(s)
             under == Peek(Pop(s))
             r == ApplyAction(action, s, h)
  <1>1. top \in Term /\ Pop(s) \in Stack /\ under \in Term /\ Pop(Pop(s)) \in Stack
    BY Stacks
  <1>2. /\ \A n \in Int : Int4(n) \in Term /\ Int4(n) # MATTER
        /\ \A v : IsInty(v) => AsInt(v) \in Int /\ v # MATTER
        /\ \A x, y : Bool(x = y) \in Term /\ Bool(x = y) # MATTER
    <2>1. MATTER \notin Range(Integer) \cup Range(Boolean)
      <3>1. MATTER \notin Range(Integer)
        BY DEF Integer, Range, MATTER
      <3>2. MATTER \notin Range(Boolean)
        BY DEF Boolean, Range, MATTER
      <3> QED BY <3>1, <3>2
    <2>2. \A x, y : Bool(x = y) \in Range(Boolean)
      BY DEF Range, Boolean, Bool
    <2>3. \A v : IsInty(v) => AsInt(v) \in Int
      BY Numbers
    <2>4. \A n \in Int : Int4(n) \in Term /\ Int4(n) # MATTER
      BY <2>1, Numbers
    <2>5. \A v : IsInty(v) => v # MATTER
      BY <2>1 DEF IsInty
    <2>6. \A x, y : Bool(x = y) \in Term /\ Bool(x = y) # MATTER
      <3>1. Range(Boolean) \subseteq Term
        BY DEF Term
      <3> QED BY ONLY <2>1, <2>2, <3>1
    <2> QED BY <2>3, <2>4, <2>5, <2>6
  <1>3. /\ Mass(s) \in Nat /\ Mass(Pop(s)) \in Nat /\ Mass(Pop(Pop(s))) \in Nat
        /\ Mass(s) = Mass(Pop(s)) + Unit(top) /\ Mass(Pop(s)) = Mass(Pop(Pop(s))) + Unit(under)
    BY <1>1, Weights
  <1>4. Unit(top) \in Nat /\ Unit(under) \in Nat /\ \A v : v # MATTER => Unit(v) = 0
    BY DEF Unit
  <1> HIDE DEF top, under
  <1>5. \A v \in Term : Mass(Push(s, v)) = Mass(s) + Unit(v)
                        /\ Mass(Push(Pop(s), v)) = Mass(Pop(s)) + Unit(v)
    BY <1>1, Weights
  <1>6. Mass(Push(Push(Pop(Pop(s)), top), under)) = Mass(s)
    <2>1. Push(Pop(Pop(s)), top) \in Stack
      BY <1>1, Stacks
    <2>2. Mass(Push(Pop(Pop(s)), top)) = Mass(Pop(Pop(s))) + Unit(top)
      BY <1>1, Weights
    <2>3. Mass(Push(Push(Pop(Pop(s)), top), under)) = Mass(Push(Pop(Pop(s)), top)) + Unit(under)
      BY <1>1, <2>1, Weights
    <2> QED BY <1>3, <1>4, <2>2, <2>3
  <1>7. Mass(Push(s, Int4(h))) = Mass(s) /\ Mass(Push(s, Bool(top = MATTER))) = Mass(s)
    <2>1. \A v \in Term : v # MATTER => Mass(Push(s, v)) = Mass(s)
      BY <1>3, <1>4, <1>5
    <2>2. Int4(h) \in Term /\ Int4(h) # MATTER
      BY <1>2
    <2>3. Bool(top = MATTER) \in Term /\ Bool(top = MATTER) # MATTER
      BY ONLY <1>2
    <2> QED BY ONLY <2>1, <2>2, <2>3
  <1>8. top # MATTER => Mass(Pop(s)) = Mass(s) /\ Mass(Push(s, top)) = Mass(s)
    BY <1>1, <1>3, <1>4, <1>5
  <1>9. IsInty(top) => Mass(Push(Pop(s), Int4(4 - AsInt(top)))) = Mass(s)
    <2>1. IsInty(top) => 4 - AsInt(top) \in Int /\ top # MATTER
      BY <1>2
    <2> HIDE DEF r
    <2> QED BY <1>2, <1>3, <1>4, <1>5, <2>1
  <1>10. IsInty(top) /\ IsInty(under) =>
           Mass(Push(Pop(Pop(s)), Int4(AsInt(under) + AsInt(top)))) = Mass(s)
    <2> SUFFICES ASSUME IsInty(top), IsInty(under)
                 PROVE  Mass(Push(Pop(Pop(s)), Int4(AsInt(under) + AsInt(top)))) = Mass(s)
      OBVIOUS
    <2>1. AsInt(under) + AsInt(top) \in Int /\ top # MATTER /\ under # MATTER
      BY <1>2
    <2> DEFINE sum == Int4(AsInt(under) + AsInt(top))
    <2>2. sum \in Term /\ sum # MATTER
      BY <1>2, <2>1
    <2> HIDE DEF sum
    <2>3. Mass(Push(Pop(Pop(s)), sum)) = Mass(Pop(Pop(s))) + Unit(sum)
      BY <1>1, <2>2, Weights
    <2>4. Unit(sum) = 0 /\ Unit(top) = 0 /\ Unit(under) = 0
      BY <1>4, <2>1, <2>2
    <2>5. Mass(Push(Pop(Pop(s)), sum)) = Mass(s)
      BY <1>3, <2>3, <2>4
    <2> QED BY <2>5 DEF sum
  <1>11. Mass(r.stack) = Mass(s)
    BY <1>6, <1>7, <1>8, <1>9, <1>10 DEF ApplyAction, top, under
  <1>12. \A v \in r.writes : v # MATTER
    BY DEF ApplyAction, MATTER
  <1> QED BY <1>11, <1>12

(* A machine that goes on carries what it takes from the cell, and puts    *)
(* down what it carried.                                                   *)
LEMMA Carries ==
  ASSUME TypeOK, NEW id \in Machines, Proceeds(id)
  PROVE  /\ Onward(id).machine.stack \in Stack
         /\ Onward(id).writes = {} => Mass(Onward(id).machine.stack) = Mass(entity[id].stack)
         /\ \A v \in Onward(id).writes :
              Mass(Onward(id).machine.stack) + Unit(v)
                = Mass(entity[id].stack) + Unit(value[Here(id)])
  <1> DEFINE p == Plan(id)
             e == entity[id]
             memory == ApplyPending(e.on_arrival, e.stack, p.cell)
             s == IF p.pop THEN Pop(memory.stack) ELSE memory.stack
             done == ApplyAction(p.action, s, e.new_heading)
  <1>1. e \in MachineType
    BY Alive DEF Machines
  <1>2. e.stack \in Stack /\ e.new_heading \in 0 .. 3 /\ Rested(id) \in MachineType
        /\ Here(id) \in Coordinate
    BY <1>1, RestedType DEF MachineType, Stack
  <1>3. /\ p.cell = Read(Here(id)) /\ p.cell \in Term /\ p.action \in Opcode \cup {"NOOP"}
        /\ (p.action \in Opcode => ~TreatsCellAsData(e.on_arrival))
        /\ (p.action # "NOOP" => p.action = p.cell)
    BY Planned DEF Here
  <1>4. e.on_arrival = "STORE" => ~(p.cell = MATTER \/ (Peek(e.stack) = MATTER /\ p.cell # EMPTY))
    BY DEF Proceeds, Plan
  <1>5. p.pop => p.action \in Opcode /\ IsInty(Peek(e.stack))
    <2>1. \A a, h, t : Steer(a, h, t).pop =>
            IsInty(t) /\ a \in {"BRANCH_RIGHT", "BRANCH_LEFT", "HEADING_STORE"}
      BY DEF Steer
    <2>2. p.pop = Steer(p.action, e.new_heading, Peek(e.stack)).pop
      BY DEF Plan
    <2>3. {"BRANCH_RIGHT", "BRANCH_LEFT", "HEADING_STORE"} \subseteq Opcode
      BY DEF Opcode
    <2> HIDE DEF p
    <2> QED BY <2>1, <2>2, <2>3
  <1>6. /\ memory.stack \in Stack /\ (memory.writes # {} => TreatsCellAsData(e.on_arrival))
        /\ (memory.writes = {} => Mass(memory.stack) = Mass(e.stack))
        /\ \A v \in memory.writes : Mass(memory.stack) + Unit(v) = Mass(e.stack) + Unit(p.cell)
    <2> HIDE DEF p, e
    <2>1. memory.stack \in Stack /\ (memory.writes # {} => TreatsCellAsData(e.on_arrival))
      BY <1>2, <1>3, Applied
    <2>2. /\ memory.writes = {} => Mass(memory.stack) = Mass(e.stack)
          /\ \A v \in memory.writes : Mass(memory.stack) + Unit(v) = Mass(e.stack) + Unit(p.cell)
      BY <1>2, <1>3, <1>4, AppliedMass
    <2> QED BY <2>1, <2>2
  <1>7. MATTER \notin Opcode /\ \A v : IsInty(v) => v # MATTER /\ v \notin Opcode
    BY DEF Opcode, MATTER, IsInty, Range, Integer, Boolean
  <1>8. p.pop => memory.stack = e.stack
    <2>1. p.pop => p.cell \in Opcode /\ ~TreatsCellAsData(e.on_arrival)
      <3> HIDE DEF p, e
      <3> QED BY <1>3, <1>5, Glyphs
    <2>2. p.pop => ~IsInty(p.cell)
      BY <1>7, <2>1
    <2> HIDE DEF p, e
    <2> QED BY <2>1, <2>2 DEF ApplyPending, TreatsCellAsData
  <1> HIDE DEF p, e
  <1>9. s \in Stack /\ Mass(s) = Mass(memory.stack)
    <2>1. CASE p.pop
      <3>1. Mass(e.stack) = Mass(Pop(e.stack)) + Unit(Peek(e.stack)) /\ Mass(Pop(e.stack)) \in Nat
        BY <1>2, Weights
      <3>2. Unit(Peek(e.stack)) = 0
        BY <1>5, <1>7, <2>1 DEF Unit
      <3>3. s = Pop(e.stack) /\ memory.stack = e.stack
        BY <1>8, <2>1
      <3> HIDE DEF s, memory
      <3> QED BY <1>2, <3>1, <3>2, <3>3, Stacks
    <2>2. CASE ~p.pop
      <3>1. s = memory.stack
        BY <2>2
      <3> HIDE DEF s, memory
      <3> QED BY <1>6, <3>1
    <2> QED BY <2>1, <2>2
  <1> HIDE DEF s, memory
  <1>10. /\ done.stack \in Stack /\ Mass(done.stack) = Mass(s) /\ \A v \in done.writes : v # MATTER
         /\ (done.writes # {} => p.action \in Opcode)
    BY <1>2, <1>3, <1>9, Acted, ActedMass
  <1>11. Onward(id).machine.stack = done.stack /\ Onward(id).writes = memory.writes \cup done.writes
    <2>1. Onward(id).machine = [Rested(id) EXCEPT
                !.phase = "TRAVELLING", !.on_arrival = done.latched, !.stack = done.stack,
                !.new_heading = p.heading, !.new_location = p.next, !.eta = TRAVEL]
          /\ Onward(id).writes = memory.writes \cup done.writes
      BY DEF Onward, memory, s, p, e
    <2> HIDE DEF done
    <2> QED BY <1>2, <2>1 DEF MachineType
  <1> HIDE DEF done
  <1>12. Unit(p.cell) = Unit(value[Here(id)])
    BY <1>3, Glyphs DEF Read, Unit, ABSENT, MATTER, EMPTY
  <1>13. \A t \in Stack : Mass(t) \in Nat
    BY Weights
  <1>14. \A v \in done.writes : memory.writes = {} /\ Unit(v) = 0 /\ Unit(p.cell) = 0
    BY <1>3, <1>6, <1>7, <1>10, Glyphs DEF Unit
  <1> QED BY <1>2, <1>6, <1>9, <1>10, <1>11, <1>12, <1>13, <1>14 DEF e

------------------------------------------------------------------------------
(* What lies in the cells G and in the hands f of the machines S. *)
Gathered(G, f, S) == ({NoID} \X G) \cup UNION {{m} \X f[m] : m \in S}

(* What is in the hand h of m, and in the cells K. *)
HandAnd(m, h, K) == ({m} \X h) \cup ({NoID} \X K)

(* A hand and one cell hold as much as the hand, and the cell. *)
LEMMA HandAndCell ==
  ASSUME NEW m, m # NoID, NEW h, IsFiniteSet(h), NEW c, NEW K \in SUBSET {c}
  PROVE  /\ IsFiniteSet(HandAnd(m, h, K))
         /\ Cardinality(HandAnd(m, h, K)) = Cardinality(h) + IF c \in K THEN 1 ELSE 0
  <1>1. IsFiniteSet({m}) /\ Cardinality({m}) = 1
    BY FS_Singleton
  <1>2. IsFiniteSet({m} \X h) /\ Cardinality({m} \X h) = Cardinality({m}) * Cardinality(h)
    BY <1>1, FS_Product
  <1>3. Cardinality(h) \in Nat
    BY FS_CardinalityType
  <1>4. Cardinality({m} \X h) = Cardinality(h)
    BY <1>1, <1>2, <1>3
  <1>5. <<NoID, c>> \notin {m} \X h
    OBVIOUS
  <1>6. {NoID} \X K = IF c \in K THEN {<<NoID, c>>} ELSE {}
    OBVIOUS
  <1>7. CASE c \in K
    <2>1. HandAnd(m, h, K) = ({m} \X h) \cup {<<NoID, c>>}
      BY <1>6, <1>7 DEF HandAnd
    <2> DEFINE D == {m} \X h
    <2>2. /\ IsFiniteSet(D \cup {<<NoID, c>>})
          /\ Cardinality(D \cup {<<NoID, c>>}) = Cardinality(D) + 1
      <3>1. IsFiniteSet(D) /\ <<NoID, c>> \notin D
        BY <1>2, <1>5
      <3> HIDE DEF D
      <3> QED BY <3>1, FS_AddElement
    <2> QED BY <1>4, <1>7, <2>1, <2>2
  <1>8. CASE c \notin K
    <2>1. HandAnd(m, h, K) = {m} \X h
      BY <1>6, <1>8 DEF HandAnd
    <2> DEFINE D == {m} \X h
               E == HandAnd(m, h, K)
    <2>2. IsFiniteSet(D) /\ Cardinality(D) = Cardinality(h) /\ E = D
      BY <1>2, <1>4, <2>1
    <2> HIDE DEF D, E
    <2>3. IsFiniteSet(E) /\ Cardinality(E) = Cardinality(h) + IF c \in K THEN 1 ELSE 0
      BY <1>3, <1>8, <2>2
    <2> QED BY <2>3 DEF E
  <1> QED BY <1>7, <1>8

(* What is gathered can be counted. *)
LEMMA Countable ==
  ASSUME NEW S, IsFiniteSet(S), NEW H, IsFiniteSet(H), NEW g, \A m \in S : IsFiniteSet(g[m])
  PROVE  IsFiniteSet(Gathered(H, g, S)) /\ Cardinality(Gathered(H, g, S)) \in Nat
  <1> DEFINE hands == [m \in S |-> {m} \X g[m]]
             T == {{m} \X g[m] : m \in S}
  <1>1. hands \in Surjection(S, T)
    <2>1. hands \in [S -> T] /\ \A t \in T : \E m \in S : hands[m] = t
      OBVIOUS
    <2> HIDE DEF hands, T
    <2> QED BY <2>1 DEF Surjection
  <1>2. IsFiniteSet(T)
    <2> HIDE DEF hands, T
    <2> QED BY <1>1, FS_Surjection
  <1>3. \A t \in T : IsFiniteSet(t)
    <2>1. ASSUME NEW m \in S PROVE IsFiniteSet({m} \X g[m])
      BY FS_Singleton, FS_Product
    <2> QED BY <2>1
  <1>4. IsFiniteSet(UNION T)
    <2> HIDE DEF T
    <2> QED BY <1>2, <1>3, FS_UNION
  <1>5. IsFiniteSet({NoID} \X H)
    BY FS_Singleton, FS_Product
  <1>6. IsFiniteSet(Gathered(H, g, S))
    BY <1>4, <1>5, FS_Union DEF Gathered
  <1> QED BY <1>6, FS_CardinalityType

(* If every machine, with the cell it works at if there is one, has no     *)
(* more and no less in the first state than in the second, and what lies   *)
(* in other cells in the first state also lies there in the second, there  *)
(* is no more in the first than in the second.                             *)
LEMMA Balanced ==
  ASSUME NEW S, IsFiniteSet(S), NoID \notin S, NEW W \in SUBSET S, NEW at,
         \A m, n \in W : at[m] = at[n] => m = n,
         NEW G, NEW H, IsFiniteSet(H), NEW f, NEW g,
         \A m \in S : IsFiniteSet(f[m]) /\ IsFiniteSet(g[m]),
         \A m \in S \ W : Cardinality(f[m]) = Cardinality(g[m]),
         \A m \in W : Cardinality(f[m]) + (IF at[m] \in G THEN 1 ELSE 0)
                        = Cardinality(g[m]) + (IF at[m] \in H THEN 1 ELSE 0),
         \A c \in G : (\A m \in W : at[m] # c) => c \in H
  PROVE  Cardinality(Gathered(G, f, S)) <= Cardinality(Gathered(H, g, S))
  <1> DEFINE A == Gathered(G, f, S)
             B == Gathered(H, g, S)
             Under(m, K) == {c \in K : m \in W /\ c = at[m]}
             X(m) == HandAnd(m, f[m], Under(m, G))
             Y(m) == HandAnd(m, g[m], Under(m, H))
  <1>1. ASSUME NEW m \in S
        PROVE  /\ IsFiniteSet(X(m)) /\ IsFiniteSet(Y(m)) /\ Cardinality(X(m)) = Cardinality(Y(m))
    <2>1. /\ m # NoID /\ Under(m, G) \in SUBSET {at[m]} /\ Under(m, H) \in SUBSET {at[m]}
          /\ at[m] \in Under(m, G) <=> m \in W /\ at[m] \in G
          /\ at[m] \in Under(m, H) <=> m \in W /\ at[m] \in H
      OBVIOUS
    <2>2. /\ IsFiniteSet(X(m)) /\ IsFiniteSet(Y(m))
          /\ Cardinality(X(m)) = Cardinality(f[m]) + IF at[m] \in Under(m, G) THEN 1 ELSE 0
          /\ Cardinality(Y(m)) = Cardinality(g[m]) + IF at[m] \in Under(m, H) THEN 1 ELSE 0
      <3>1. IsFiniteSet(f[m]) /\ IsFiniteSet(g[m])
        OBVIOUS
      <3> DEFINE U == Under(m, G)
                 V == Under(m, H)
      <3>2. /\ U \in SUBSET {at[m]} /\ V \in SUBSET {at[m]} /\ m # NoID
            /\ X(m) = HandAnd(m, f[m], U) /\ Y(m) = HandAnd(m, g[m], V)
        BY <2>1
      <3> HIDE DEF U, V, X, Y, Under
      <3>3. IsFiniteSet(X(m)) /\ Cardinality(X(m)) = Cardinality(f[m]) + IF at[m] \in U THEN 1 ELSE 0
        BY ONLY <3>1, <3>2, HandAndCell
      <3>4. IsFiniteSet(Y(m)) /\ Cardinality(Y(m)) = Cardinality(g[m]) + IF at[m] \in V THEN 1 ELSE 0
        BY ONLY <3>1, <3>2, HandAndCell
      <3> QED BY <3>3, <3>4 DEF U, V
    <2> HIDE DEF X, Y, Under
    <2>3. CASE m \in W
      BY <2>1, <2>2, <2>3
    <2>4. CASE m \notin W
      BY <2>1, <2>2, <2>4
    <2> QED BY <2>2, <2>3, <2>4
  <1> DEFINE b == [m \in S |-> CHOOSE k : k \in Bijection(X(m), Y(m))]
  <1>2. ASSUME NEW m \in S
        PROVE  b[m] \in [X(m) -> Y(m)] /\ \A x, y \in X(m) : b[m][x] = b[m][y] => x = y
    <2>1. ExistsBijection(X(m), Y(m))
      <3> HIDE DEF X, Y
      <3> QED BY <1>1, FS_SameCardinalityBij
    <2>2. b[m] \in Bijection(X(m), Y(m))
      <3> HIDE DEF X, Y
      <3> QED BY <2>1 DEF ExistsBijection
    <2> HIDE DEF X, Y, b
    <2> QED BY <2>2 DEF Bijection, Injection, IsInjective
  <1>3. ASSUME NEW m \in S, NEW n \in S, NEW x, x \in Y(m), x \in Y(n)
        PROVE  m = n
    <2>1. x[1] = m \/ (x[1] = NoID /\ m \in W /\ x[2] = at[m])
      BY <1>3 DEF HandAnd
    <2>2. x[1] = n \/ (x[1] = NoID /\ n \in W /\ x[2] = at[n])
      BY <1>3 DEF HandAnd
    <2> HIDE DEF X, Y
    <2> QED BY <2>1, <2>2
  <1>4. ASSUME NEW x \in A, \A m \in S : x \notin X(m)
        PROVE  x \in B /\ \A m \in S : x \notin Y(m)
    <2>1. PICK c \in G : x = <<NoID, c>>
      BY <1>4 DEF Gathered, HandAnd
    <2>2. \A m \in W : at[m] # c
      BY <1>4, <2>1 DEF HandAnd
    <2>3. c \in H
      BY <2>2
    <2>4. \A m \in S : x \notin Y(m)
      BY <2>1, <2>2 DEF HandAnd
    <2>5. x \in {NoID} \X H
      BY <2>1, <2>3
    <2> QED BY <2>4, <2>5 DEF Gathered
  <1>5. \A m \in S : Y(m) \subseteq B
    BY DEF Gathered, HandAnd
  <1> DEFINE Holder(x) == CHOOSE m \in S : x \in X(m)
             move == [x \in A |-> IF \E m \in S : x \in X(m) THEN b[Holder(x)][x] ELSE x]
  <1>6. ASSUME NEW x \in A
        PROVE  /\ (\E m \in S : x \in X(m)) =>
                    /\ Holder(x) \in S /\ x \in X(Holder(x))
                    /\ move[x] = b[Holder(x)][x] /\ move[x] \in Y(Holder(x))
               /\ ~(\E m \in S : x \in X(m)) => move[x] = x
    <2> HIDE DEF X, Y, b, A
    <2>1. (\E m \in S : x \in X(m)) => Holder(x) \in S /\ x \in X(Holder(x))
      OBVIOUS
    <2> HIDE DEF Holder
    <2> QED BY <1>2, <2>1
  <1>7. move \in Injection(A, B)
    <2> HIDE DEF X, Y, b, A, B, Holder
    <2>1. \A x \in A : move[x] \in B
      BY <1>4, <1>5, <1>6
    <2>2. move \in [A -> B]
      BY <2>1
    <2> HIDE DEF move
    <2>3. ASSUME NEW x \in A, NEW y \in A, move[x] = move[y] PROVE x = y
      <3>1. CASE (\E m \in S : x \in X(m)) /\ (\E m \in S : y \in X(m))
        <4>1. /\ Holder(x) \in S /\ x \in X(Holder(x)) /\ move[x] = b[Holder(x)][x]
              /\ move[x] \in Y(Holder(x))
              /\ Holder(y) \in S /\ y \in X(Holder(y)) /\ move[y] = b[Holder(y)][y]
              /\ move[y] \in Y(Holder(y))
          BY <1>6, <3>1
        <4>2. Holder(x) = Holder(y)
          BY <1>3, <2>3, <4>1
        <4> QED BY <1>2, <2>3, <4>1, <4>2
      <3>2. CASE (\E m \in S : x \in X(m)) /\ ~(\E m \in S : y \in X(m))
        BY <1>4, <1>6, <2>3, <3>2
      <3>3. CASE ~(\E m \in S : x \in X(m)) /\ (\E m \in S : y \in X(m))
        BY <1>4, <1>6, <2>3, <3>3
      <3>4. CASE ~(\E m \in S : x \in X(m)) /\ ~(\E m \in S : y \in X(m))
        BY <1>6, <2>3, <3>4
      <3> QED BY <3>1, <3>2, <3>3, <3>4
    <2> QED BY <2>2, <2>3 DEF Injection, IsInjective
  <1>8. IsFiniteSet(B)
    BY Countable
  <1> HIDE DEF A, B, move
  <1>9. IsFiniteSet(A) /\ Cardinality(A) <= Cardinality(B)
    BY <1>7, <1>8, FS_Injection
  <1> QED BY <1>9 DEF A, B

------------------------------------------------------------------------------
(* Who writes matter, and over matter: machines write what they put down,  *)
(* and of the others only sources and players write matter, and only sinks *)
(* and players write over it.                                              *)
LEMMA MatterWritten ==
  ASSUME TypeOK, NEW id \in Live, NEW n \in Written(Notify(id).value)
  PROVE  /\ id \in Machines => Proceeds(id) /\ \E v \in Onward(id).writes : n = Write(Here(id), v)
         /\ id \notin Machines =>
              /\ n.desired = MATTER => entity[id].kind \in {"Source", "Player"}
              /\ value[n.key] = MATTER => entity[id].kind \in {"Sink", "Player"}
  <1>1. entity[id] \in Entity
    BY Alive
  <1>2. \A v : Successor(v) # MATTER
    <2>1. MATTER \notin Range(Integer) /\ MATTER # ERROR
      BY DEF Range, Integer, MATTER, ERROR
    <2>2. ASSUME NEW v, v \in Range(Integer) PROVE Successor(v) \in Range(Integer)
      <3>1. AsInt(v) \in Int
        BY <2>2, Numbers DEF IsInty
      <3> QED BY <2>2, <3>1, Numbers DEF Successor
    <2> QED BY <2>1, <2>2 DEF Successor
  <1>3. CASE id \in Machines
    <2>1. Notify(id) = MachineTx(id)
      BY <1>3 DEF Notify, Machines
    <2>2. ~Waits(id)
      <3>1. Waits(id) => MachineTx(id).value = {}
        BY DEF MachineTx, Waits, Nothing
      <3> QED BY <2>1, <3>1 DEF Written
    <2>3. ~Parks(id)
      <3>1. Parks(id) =>
              MachineTx(id).value = {WaitOnValue(c, {COMMITTED}) : c \in WaitsForValue(Plan(id), Here(id))}
        BY ParkShape
      <3> QED BY <2>1, <3>1, Ops DEF Written
    <2>4. Proceeds(id)
      BY <2>2, <2>3 DEF Parks, Proceeds
    <2>5. MachineTx(id).value = {Write(Here(id), v) : v \in Onward(id).writes}
      BY <2>4, ProceedShape
    <2> QED BY <1>3, <2>1, <2>4, <2>5 DEF Written
  <1>4. CASE id \in Of("Spawner")
    <2>1. Notify(id) = SpawnerTx(id)
      BY <1>4 DEF Notify, Of
    <2> QED BY <2>1, SpawnerShape DEF Written
  <1>5. CASE entity[id].kind = "Source"
    <2>1. value[n.key] = ABSENT
      BY <1>5, ValuesWritten DEF Machines
    <2> QED BY <1>5, <2>1 DEF ABSENT, MATTER, Machines
  <1>6. CASE entity[id].kind = "Sink"
    <2>1. Notify(id) = SinkTx(id)
      BY <1>6 DEF Notify
    <2>2. n = Write(entity[id].location, EMPTY)
      BY <2>1, Ops DEF SinkTx, Nothing, Written
    <2>3. n.desired = EMPTY
      BY <2>2 DEF Write, Node
    <2> QED BY <1>6, <2>3 DEF Machines, EMPTY, MATTER
  <1>7. CASE entity[id].kind = "Counter"
    <2> DEFINE at == entity[id].location
               v == IF value[at] = ABSENT THEN "0" ELSE value[at]
    <2>1. Notify(id) = CounterTx(id)
      BY <1>7 DEF Notify
    <2>2. v # MATTER /\ n = Write(at, Successor(v))
      BY <2>1 DEF CounterTx, Nothing, Written
    <2>3. n.key = at /\ n.desired = Successor(v)
      BY <2>2 DEF Write, Node
    <2>4. value[at] # MATTER
      BY <2>2 DEF ABSENT, MATTER
    <2> QED BY <1>2, <1>7, <2>3, <2>4 DEF Machines
  <1>8. CASE entity[id].kind = "Evenator"
    <2> DEFINE at == entity[id].location
    <2>1. Notify(id) = EvenatorTx(id)
      BY <1>8 DEF Notify
    <2>2. value[at] \in {"1", "3"} /\ n = Node(at, Successor(value[at]), {WRITE_ON_COMMIT, COMMITTED})
      <3>1. CASE value[at] \in {"1", "3"}
        <4>1. Notify(id).value = {Node(at, Successor(value[at]), {WRITE_ON_COMMIT, COMMITTED})}
          BY <2>1, <3>1 DEF EvenatorTx, Nothing
        <4> QED BY <3>1, <4>1 DEF Written
      <3>2. CASE value[at] \notin {"1", "3"}
        <4>1. Notify(id).value = {WaitOnValue(at, WAIT_ALWAYS)}
          BY <2>1, <3>2 DEF EvenatorTx, Nothing
        <4> QED BY <4>1, Ops DEF Written
      <3> QED BY <3>1, <3>2
    <2>3. n.key = at /\ n.desired = Successor(value[at])
      BY <2>2 DEF Node
    <2>4. value[at] # MATTER
      BY <2>2 DEF MATTER
    <2> QED BY <1>2, <1>8, <2>3, <2>4 DEF Machines
  <1>9. CASE entity[id].kind = "Player"
    BY <1>9 DEF Machines
  <1> QED BY <1>1, <1>3, <1>4, <1>5, <1>6, <1>7, <1>8, <1>9, KindsOf DEF Machines, Of

(* The machines that put something down in a step, an empty term too. *)
Working(committed) == {m \in committed : m \in Machines /\ Proceeds(m) /\ Onward(m).writes # {}}

(* What a machine works at holds what it wrote; elsewhere only sources,    *)
(* sinks and players make matter appear and disappear.                     *)
LEMMA GroundStep ==
  ASSUME IInv, NEW committed, Steps(committed), NEW c \in Coordinate
  PROVE  /\ \A m \in Working(committed) : Here(m) = c => value'[c] \in Onward(m).writes
         /\ (\A m \in Working(committed) : Here(m) # c) =>
              /\ value'[c] = MATTER /\ value[c] # MATTER => ready \cap (Of("Source") \cup Of("Player")) # {}
              /\ value'[c] # MATTER /\ value[c] = MATTER => ready \cap (Of("Sink") \cup Of("Player")) # {}
  <1>1. value' = [k \in Coordinate |-> Rebuilt(Proposed, "value", k, committed, value[k])]
    BY DEF Steps, Rebuild, Values
  <1>2. value'[c] = Rebuilt(Proposed, "value", c, committed, value[c]) /\ "value" \in Maps
    BY <1>1 DEF Maps
  <1>3. TypeOK /\ \A i \in committed : i \in ready /\ i \in Live /\ Proposed[i].value = Notify(i).value
    BY Proposal DEF IInv, Steps
  <1>4. ASSUME NEW m \in Working(committed), Here(m) = c PROVE value'[c] \in Onward(m).writes
    <2>1. m \in committed /\ m \in Machines /\ Proceeds(m)
      BY <1>4 DEF Working
    <2>2. PICK v : v \in Onward(m).writes
      BY <1>4 DEF Working
    <2>3. Notify(m).value = {Write(Here(m), u) : u \in Onward(m).writes}
      BY <2>1, ProceedShape DEF Notify, Machines
    <2>4. Write(Here(m), v) \in Written(Proposed[m].value)
      BY <1>3, <2>1, <2>2, <2>3, Ops DEF Written
    <2>5. Write(Here(m), v).key = c /\ Write(Here(m), v).desired = v
      BY <1>4 DEF Write, Node
    <2>6. value'[c] = v
      BY <1>2, <2>1, <2>4, <2>5, RebuiltIs
    <2> QED BY <2>2, <2>6
  <1>5. ASSUME \A m \in Working(committed) : Here(m) # c, value'[c] # value[c]
        PROVE  \E i \in ready :
                 /\ i \in Live
                 /\ value'[c] = MATTER => entity[i].kind \in {"Source", "Player"}
                 /\ value[c] = MATTER => entity[i].kind \in {"Sink", "Player"}
    <2>1. PICK i \in committed : \E n \in Written(Proposed[i].value) : n.key = c
      BY <1>2, <1>5, RebuiltIs
    <2>2. PICK n \in Written(Proposed[i].value) : n.key = c
      BY <2>1
    <2>3. value'[c] = n.desired
      BY <1>2, <2>2, RebuiltIs
    <2>4. i \in ready /\ i \in Live /\ n \in Written(Notify(i).value)
      BY <1>3, <2>2
    <2>5. i \notin Machines
      <3>1. SUFFICES ASSUME i \in Machines PROVE FALSE
        OBVIOUS
      <3>2. Proceeds(i) /\ \E v \in Onward(i).writes : n = Write(Here(i), v)
        BY <1>3, <2>4, <3>1, MatterWritten
      <3>3. i \in Working(committed) /\ n.key = Here(i)
        BY <3>1, <3>2 DEF Working, Write, Node
      <3> QED BY <1>5, <2>2, <3>3
    <2> QED BY <1>3, <2>2, <2>3, <2>4, <2>5, MatterWritten
  <1>6. ASSUME \A m \in Working(committed) : Here(m) # c
        PROVE  /\ value'[c] = MATTER /\ value[c] # MATTER => ready \cap (Of("Source") \cup Of("Player")) # {}
               /\ value'[c] # MATTER /\ value[c] = MATTER => ready \cap (Of("Sink") \cup Of("Player")) # {}
    <2>1. CASE value'[c] = value[c]
      BY <2>1
    <2>2. CASE value'[c] # value[c]
      <3>1. PICK i \in ready :
              /\ i \in Live
              /\ value'[c] = MATTER => entity[i].kind \in {"Source", "Player"}
              /\ value[c] = MATTER => entity[i].kind \in {"Sink", "Player"}
        BY <1>5, <1>6, <2>2
      <3> QED BY <3>1 DEF Of
    <2> QED BY <2>1, <2>2
  <1> QED BY <1>4, <1>6

(* A stack changes only as its machine goes on; who is born has none.      *)
LEMMA StackStep ==
  ASSUME IInv, NEW committed, Steps(committed)
  PROVE  /\ \A m \in Machines :
              entity'[m].stack = IF m \in committed /\ Proceeds(m) THEN Onward(m).machine.stack
                                 ELSE entity[m].stack
         /\ \A i \in Spawning(committed) : entity'[Reserve(i)].stack = << >>
  <1>1. TypeOK /\ Machines \subseteq Live /\ Live \subseteq ID
    BY DEF IInv, Machines, Live
  <1>2. ASSUME NEW m \in Machines, m \in committed, Proceeds(m)
        PROVE  entity'[m].stack = Onward(m).machine.stack
    <2>1. m \in Moving(committed) /\ ~Parks(m)
      BY <1>2 DEF Moving, Proceeds, Parks
    <2>2. entity'[m] = Elapse(Onward(m).machine) /\ Onward(m).machine \in MachineType
      BY <1>1, <2>1, EntityStep, OnwardType
    <2> QED BY <2>2, Unhurried
  <1>3. ASSUME NEW m \in Machines, ~(m \in committed /\ Proceeds(m))
        PROVE  entity'[m].stack = entity[m].stack
    <2>1. entity[m] \in MachineType
      BY <1>1, Alive
    <2>2. CASE m \in Moving(committed)
      <3>1. Parks(m)
        BY <1>3, <2>2 DEF Moving, Proceeds, Parks
      <3>2. entity'[m] = Elapse(Parked(m)) /\ Parked(m) \in MachineType
        BY <1>1, <2>2, <3>1, EntityStep, RestedType
      <3>3. Parked(m).stack = entity[m].stack
        BY <2>1 DEF Parked, Rested, MachineType
      <3> QED BY <3>2, <3>3, Unhurried
    <2>3. CASE m \notin Moving(committed)
      <3>1. m \notin Asking(committed)
        BY DEF Asking, Of, Machines
      <3>2. \A i \in Spawning(committed) : m # Reserve(i)
        BY <1>1, TicketFacts DEF Spawning, Spawns
      <3>3. entity'[m] = Elapse(entity[m])
        BY <1>1, <2>3, <3>1, <3>2, EntityStep
      <3> QED BY <2>1, <3>3, Unhurried
    <2> QED BY <2>2, <2>3
  <1>4. ASSUME NEW i \in Spawning(committed) PROVE entity'[Reserve(i)].stack = << >>
    <2>1. entity'[Reserve(i)] = NewMachine(Place(i))
      BY EntityAfter
    <2> QED BY <2>1 DEF NewMachine
  <1> QED BY <1>2, <1>3, <1>4

(* There is only so much matter. *)
LEMMA MatterNumber ==
  ASSUME IInv
  PROVE  Matter \in Nat /\ IsFiniteSet(Machines) /\ NoID \notin Machines /\ IsFiniteSet(Coordinate)
  <1> DEFINE G == {c \in Coordinate : value[c] = MATTER}
             f == [m \in Machines |-> Hand(m)]
  <1>1. IsFiniteSet(Machines) /\ NoID \notin Machines
    <2>1. Machines \in SUBSET ID
      BY DEF Machines, Live
    <2> QED BY <2>1, Numbered, FS_Subset DEF IInv
  <1>2. IsFiniteSet(Coordinate)
    <2>1. IsFiniteSet(0 .. WIDTH - 1) /\ IsFiniteSet(0 .. HEIGHT - 1)
      BY WorldAssumption, FS_Interval
    <2> QED BY <2>1, FS_Product DEF Coordinate
  <1>3. IsFiniteSet(G)
    BY <1>2, FS_Subset
  <1>4. \A m \in Machines : IsFiniteSet(f[m])
    <2>1. ASSUME NEW m \in Machines PROVE entity[m].stack \in Stack
      <3>1. TypeOK /\ m \in Live
        BY DEF IInv, Machines
      <3> QED BY <3>1, Alive DEF MachineType, Stack
    <2>2. MATTER \in Term \ {EMPTY}
      BY Glyphs
    <2> QED BY <2>1, <2>2, Heavier DEF Hand
  <1>5. Pieces = Gathered(G, f, Machines)
    BY DEF Pieces, Gathered
  <1> HIDE DEF G, f
  <1> QED BY <1>1, <1>2, <1>3, <1>4, <1>5, Countable DEF Matter

(* No step makes matter without a source or a player, or takes it away     *)
(* without a sink or a player.                                             *)
LEMMA MatterStep ==
  ASSUME IInv, NEW committed, Steps(committed)
  PROVE  /\ Matter' > Matter => ready \cap (Of("Source") \cup Of("Player")) # {}
         /\ Matter' < Matter => ready \cap (Of("Sink") \cup Of("Player")) # {}
  <1> DEFINE M(s) == {i \in DOMAIN s : s[i] = MATTER}
             W == Working(committed)
             at == [m \in W |-> Here(m)]
             G == {c \in Coordinate : value[c] = MATTER}
             H == {c \in Coordinate : value'[c] = MATTER}
             f == [m \in Machines |-> M(entity[m].stack)]
             g == [m \in Machines |-> M(entity'[m].stack)]
  <1>1. TypeOK /\ IsFiniteSet(Machines) /\ NoID \notin Machines
    BY MatterNumber DEF IInv
  <1>2. W \in SUBSET Machines /\ \A m, n \in W : at[m] = at[n] => m = n
    BY DEF Working, IInv, Footing, Here
  <1>3. IsFiniteSet(G) /\ IsFiniteSet(H)
    <2>1. IsFiniteSet(Coordinate)
      BY MatterNumber
    <2>2. G \in SUBSET Coordinate /\ H \in SUBSET Coordinate
      OBVIOUS
    <2> HIDE DEF G, H
    <2> QED BY <2>1, <2>2, FS_Subset
  <1>4. ASSUME NEW m \in Machines
        PROVE  /\ entity[m].stack \in Stack /\ entity'[m].stack \in Stack
               /\ m \notin W => Mass(entity'[m].stack) = Mass(entity[m].stack)
               /\ m \in W => /\ Here(m) \in Coordinate
                             /\ Mass(entity'[m].stack) + Unit(value'[Here(m)])
                                  = Mass(entity[m].stack) + Unit(value[Here(m)])
    <2>1. entity[m].stack \in Stack /\ Here(m) \in Coordinate
      <3>1. m \in Live
        BY DEF Machines
      <3> QED BY <1>1, <3>1, Alive, RestedType DEF MachineType, Stack
    <2>2. CASE m \in committed /\ Proceeds(m)
      <3>1. /\ Onward(m).machine.stack \in Stack
            /\ Onward(m).writes = {} => Mass(Onward(m).machine.stack) = Mass(entity[m].stack)
            /\ \A v \in Onward(m).writes :
                 Mass(Onward(m).machine.stack) + Unit(v) = Mass(entity[m].stack) + Unit(value[Here(m)])
        BY <1>1, <2>2, Carries
      <3>2. entity'[m].stack = Onward(m).machine.stack
        BY <2>2, StackStep
      <3>3. m \in W <=> Onward(m).writes # {}
        BY <2>2 DEF Working
      <3>4. m \in W => value'[Here(m)] \in Onward(m).writes
        BY <2>1, GroundStep
      <3> HIDE DEF W
      <3> QED BY <2>1, <3>1, <3>2, <3>3, <3>4
    <2>3. CASE ~(m \in committed /\ Proceeds(m))
      <3>1. entity'[m].stack = entity[m].stack /\ m \notin W
        BY <2>3, StackStep DEF Working
      <3> HIDE DEF W
      <3> QED BY <2>1, <3>1
    <2> QED BY <2>2, <2>3
  <1>5. ASSUME NEW m \in Machines
        PROVE  /\ IsFiniteSet(f[m]) /\ IsFiniteSet(g[m])
               /\ Cardinality(f[m]) = Mass(entity[m].stack) /\ Cardinality(g[m]) = Mass(entity'[m].stack)
    <2>1. \A s \in Stack : IsFiniteSet(M(s)) /\ Cardinality(M(s)) = Mass(s)
      <3>1. MATTER \in Term \ {EMPTY}
        BY Glyphs
      <3> QED BY <3>1, Heavier DEF Mass
    <2>2. f[m] = M(entity[m].stack) /\ g[m] = M(entity'[m].stack)
      OBVIOUS
    <2> HIDE DEF M, f, g
    <2> QED BY <1>4, <2>1, <2>2
  <1>6. Matter = Cardinality(Gathered(G, f, Machines))
    <2>1. Pieces = Gathered(G, f, Machines)
      BY DEF Pieces, Gathered, Hand
    <2> QED BY <2>1 DEF Matter
  <1>7. Matter' = Cardinality(Gathered(H, g, Machines))
    <2>1. Pieces' = ({NoID} \X H) \cup UNION {{m} \X M(entity'[m].stack) : m \in Machines'}
      BY DEF Pieces, Hand
    <2>2. Machines' = Machines \cup {Reserve(i) : i \in Spawning(committed)}
      BY LiveAfter
    <2>3. \A i \in Spawning(committed) : M(entity'[Reserve(i)].stack) = {}
      BY StackStep
    <2>4. UNION {{m} \X M(entity'[m].stack) : m \in Machines'} = UNION {{m} \X g[m] : m \in Machines}
      <3> HIDE DEF M
      <3> QED BY <2>2, <2>3
    <2>5. Pieces' = Gathered(H, g, Machines)
      <3> HIDE DEF M, g, H
      <3> QED BY <2>1, <2>4 DEF Gathered
    <2> QED BY <2>5 DEF Matter
  <1>8. \A m \in Machines \ W : Cardinality(f[m]) = Cardinality(g[m])
    <2> HIDE DEF f, g, W
    <2> QED BY <1>4, <1>5
  <1>9. \A m \in W : Cardinality(f[m]) + (IF at[m] \in G THEN 1 ELSE 0)
                       = Cardinality(g[m]) + (IF at[m] \in H THEN 1 ELSE 0)
    <2> SUFFICES ASSUME NEW m \in W
                 PROVE  Cardinality(f[m]) + (IF at[m] \in G THEN 1 ELSE 0)
                          = Cardinality(g[m]) + (IF at[m] \in H THEN 1 ELSE 0)
      OBVIOUS
    <2>1. m \in Machines /\ at[m] = Here(m)
      BY <1>2
    <2>2. Here(m) \in Coordinate
      BY <1>4, <2>1
    <2>3. /\ (IF at[m] \in G THEN 1 ELSE 0) = Unit(value[Here(m)])
          /\ (IF at[m] \in H THEN 1 ELSE 0) = Unit(value'[Here(m)])
      BY <2>1, <2>2 DEF Unit
    <2> HIDE DEF f, g, W, at, G, H
    <2> QED BY <1>4, <1>5, <2>1, <2>3
  <1>10. ASSUME ready \cap (Of("Source") \cup Of("Player")) = {} PROVE Matter' <= Matter
    <2>1. \A c \in H : (\A m \in W : at[m] # c) => c \in G
      BY <1>10, GroundStep
    <2> HIDE DEF f, g, W, at, G, H
    <2>2. \A m \in Machines \ W : Cardinality(g[m]) = Cardinality(f[m])
      BY <1>8
    <2>3. \A m \in W : Cardinality(g[m]) + (IF at[m] \in H THEN 1 ELSE 0)
                         = Cardinality(f[m]) + (IF at[m] \in G THEN 1 ELSE 0)
      BY <1>9
    <2>4. \A m \in Machines : IsFiniteSet(g[m]) /\ IsFiniteSet(f[m])
      BY <1>5
    <2>5. Cardinality(Gathered(H, g, Machines)) <= Cardinality(Gathered(G, f, Machines))
      BY ONLY <1>1, <1>2, <1>3, <2>1, <2>2, <2>3, <2>4, Balanced
    <2> QED BY <1>6, <1>7, <2>5
  <1>11. ASSUME ready \cap (Of("Sink") \cup Of("Player")) = {} PROVE Matter <= Matter'
    <2>1. \A c \in G : (\A m \in W : at[m] # c) => c \in H
      BY <1>11, GroundStep
    <2> HIDE DEF f, g, W, at, G, H
    <2>2. Cardinality(Gathered(G, f, Machines)) <= Cardinality(Gathered(H, g, Machines))
      BY <1>1, <1>2, <1>3, <1>5, <1>8, <1>9, <2>1, Balanced
    <2> QED BY <1>6, <1>7, <2>2
  <1>12. Matter \in Nat /\ Matter' \in Nat
    <2> HIDE DEF f, g, G, H
    <2> QED BY <1>1, <1>3, <1>5, <1>6, <1>7, Countable
  <1> QED BY <1>10, <1>11, <1>12
------------------------------------------------------------------------------
(* What holds in every reachable world.                                    *)

(* Machine::notify may assert that it occupies the cells it stands in: no  *)
(* two machines are ever in one, and the location map mirrors the map of   *)
(* occupants, whatever is claimed, released and spawned in the same tick.  *)
THEOREM MachinesKeepFooting == Spec => [](Footing /\ LocatedMirrorsOccupancy)
  <1>1. IInv => Footing /\ LocatedMirrorsOccupancy
    BY DEF IInv
  <1> QED BY <1>1, Invariant, PTL

(* An EntityID that a spawner holds in reserve is nobody's and no other    *)
(* spawner's, and the source of World::step is beyond all of them.         *)
THEOREM TicketsStayFresh == Spec => []TicketsAreFresh
  <1>1. IInv => TicketsAreFresh
    BY DEF IInv
  <1> QED BY <1>1, Invariant, PTL

(* What an entity announces fits in its Transaction and can be rebuilt: it *)
(* writes no key twice, and has no more nodes than it asked room for.      *)
THEOREM AnnouncementsFit == Spec => []WellFormed
  <1>1. IInv => WellFormed
    BY NeverTwice, EnoughCapacity DEF IInv, WellFormed
  <1> QED BY <1>1, Invariant, PTL

(* If the player puts down no glyph that steers, a machine holds no cell   *)
(* but the ends of its hop and the exit of the junction it is entering: a  *)
(* claim is used or let go of.  A glyph put down under a machine that has  *)
(* claimed the cell ahead turns it away from its claim.                    *)
THEOREM ClaimsAreLetGo ==
  ASSUME NoSteeringInput
  PROVE  Spec => []PlacesAgree
  <1> DEFINE J == IInv /\ ClaimsKept
  <1>1. ASSUME NEW w \in Worlds, InitFrom(w) PROVE J
    <2>1. IInv
      BY <1>1, Starting
    <2>2. ASSUME NEW c \in Coordinate, occupant[c] # NoID
          PROVE  c \in {entity[occupant[c]].old_location, entity[occupant[c]].new_location}
      <3> DEFINE m == occupant[c]
      <3>1. m \in Machines /\ m \in Live /\ m \in located[c]
        BY <2>1, <2>2 DEF IInv, Occupied, LocatedMirrorsOccupancy, Machines, Of
      <3>2. located[c] = {id \in DOMAIN w.entities : c \in Cells(w.entities[id])}
        BY <1>1 DEF InitFrom
      <3>3. m \in ID /\ entity[m] = w.entities[m] /\ c \in Cells(w.entities[m])
        BY <1>1, <3>1, <3>2 DEF InitFrom, Live
      <3> QED BY <3>1, <3>3 DEF Cells, Machines
    <2> QED BY <2>1, <2>2 DEF ClaimsKept
  <1>2. J /\ [Next]_vars => J'
    <2>1. ASSUME J, Step PROVE J'
      <3>1. PICK committed : Steps(committed)
        BY <2>1, StepSteps
      <3>2. ClaimsKept'
        BY <2>1, <3>1, ClaimsStep
      <3> QED BY <2>1, <3>1, <3>2, StepKeeps
    <2>2. ASSUME J, UNCHANGED <<entity, occupant, value>> PROVE ClaimsKept'
      BY <2>2 DEF ClaimsKept
    <2>3. ASSUME J, NEW input \in Inputs, Submit(input) PROVE J'
      BY <2>2, <2>3, SubmitStep DEF Submit
    <2>4. ASSUME J, UNCHANGED vars PROVE J'
      BY <2>2, <2>4, Stutter DEF vars
    <2> QED BY <2>1, <2>3, <2>4 DEF Next
  <1>3. J => PlacesAgree
    BY DEF ClaimsKept, IInv, PlacesAgree, ClaimsAreReleased
  <1>4. Init => J
    BY <1>1 DEF Init
  <1> QED BY <1>2, <1>3, <1>4, PTL DEF Spec

(* "Machines cannot write under an occupant": whoever changes a term under *)
(* a machine is that machine, arrived there, or what is fixed to the cell. *)
(* (A player may write where it likes.)                                    *)
THEOREM TermsUnderMachines == Spec => OnlyTheOccupantWrites
  <1> DEFINE A == \A c \in Coordinate :
       value'[c] # value[c] /\ occupant[c] # NoID /\ Of("Player") = {}
         => \/ occupant[c] \in ready /\ entity[occupant[c]].new_location = c
            \/ \E id \in located[c] \cap ready : id \notin Machines
  <1>1. IInv /\ [Next]_vars => [A]_vars
    <2>1. ASSUME IInv, Step PROVE A
      <3>1. PICK committed : Steps(committed)
        BY <2>1, StepSteps
      <3> QED BY <2>1, <3>1, OccupantWrites
    <2>2. ASSUME NEW input \in Inputs, Submit(input) PROVE A
      BY <2>2 DEF Submit
    <2> QED BY <2>1, <2>2 DEF Next
  <1> QED BY <1>1, Invariant, PTL DEF Spec, OnlyTheOccupantWrites

(* Matter is conserved in every world, however machines race, abort and    *)
(* retry: only a source makes it, only a sink takes it away, and a player  *)
(* does both.                                                              *)
THEOREM MatterIsConserved == Spec => MatterConserved
  <1> DEFINE A == /\ Matter' > Matter => (ready \cap (Of("Source") \cup Of("Player"))) # {}
                  /\ Matter' < Matter => (ready \cap (Of("Sink") \cup Of("Player"))) # {}
  <1>1. IInv /\ [Next]_vars => [A]_vars
    <2>1. ASSUME IInv, Step PROVE A
      <3>1. PICK committed : Steps(committed)
        BY <2>1, StepSteps
      <3> QED BY <2>1, <3>1, MatterStep
    <2>2. ASSUME NEW input \in Inputs, IInv, Submit(input) PROVE A
      <3>1. Pieces' = Pieces
        BY <2>2 DEF Submit, Pieces, Hand, Machines, Live
      <3>2. Matter' = Matter
        BY <3>1 DEF Matter
      <3> QED BY <2>2, <3>2, MatterNumber
    <2> QED BY <2>1, <2>2 DEF Next
  <1> QED BY <1>1, Invariant, PTL DEF Spec, MatterConserved

(* An entity that acts on the world is never forgotten: at any time it is  *)
(* ready, or has an appointment, or waits in a map, whatever committed,    *)
(* aborted, was woken and was written over in the same tick.               *)
THEOREM NobodyForgotten == Spec => []NobodyIsForgotten
  <1> DEFINE J == IInv /\ OnTheRoad /\ NobodyIsForgotten
  <1>1. ASSUME NEW w \in Worlds, InitFrom(w) PROVE J
    <2> DEFINE D == DOMAIN w.entities
               Road == {id \in {k \in D : w.entities[k].kind = "Machine"} :
                          w.entities[id].phase = "TRAVELLING" /\ w.entities[id].eta > 0}
    <2>1. IInv
      BY <1>1, Starting
    <2>2. /\ ready = D \ Road /\ waiting_on_time = {<<w.entities[id].eta, id>> : id \in Road}
          /\ \A id \in Live : id \in D /\ entity[id] = w.entities[id]
      BY <1>1 DEF InitFrom, Live
    <2>3. OnTheRoad
      BY <2>2 DEF OnTheRoad, Machines, Waits
    <2>4. ASSUME NEW id \in Road PROVE \E a \in waiting_on_time : a[2] = id
      <3>1. <<w.entities[id].eta, id>> \in waiting_on_time
        BY <2>2
      <3> QED BY <3>1
    <2>5. \A id \in Live : id \in ready \/ \E a \in waiting_on_time : a[2] = id
      BY <2>2, <2>4
    <2>6. Live \subseteq Expected
      BY <2>5 DEF Expected
    <2> QED BY <2>1, <2>3, <2>6 DEF NobodyIsForgotten
  <1>2. J /\ [Next]_vars => J'
    <2>1. ASSUME J, Step PROVE J'
      <3>1. PICK committed : Steps(committed)
        BY <2>1, StepSteps
      <3>2. OnTheRoad' /\ NobodyIsForgotten'
        BY <2>1, <3>1, OnTheRoadStep, ForgottenStep
      <3> QED BY <2>1, <3>1, <3>2, StepKeeps
    <2>2. ASSUME J, UNCHANGED <<ready, waiting_on_time, entity, waiter_on_value, waiter_on_occupant>>
          PROVE  OnTheRoad' /\ NobodyIsForgotten'
      <3>1. Live' = Live /\ Machines' = Machines /\ (\A k : Of(k)' = Of(k)) /\ Expected' = Expected
        BY <2>2 DEF Live, Machines, Of, Expected
      <3> QED BY <2>2, <3>1 DEF OnTheRoad, Waits, NobodyIsForgotten
    <2>3. ASSUME J, NEW input \in Inputs, Submit(input) PROVE J'
      BY <2>2, <2>3, SubmitStep DEF Submit
    <2>4. ASSUME J, UNCHANGED vars PROVE J'
      BY <2>2, <2>4, Stutter DEF vars
    <2> QED BY <2>1, <2>3, <2>4 DEF Next
  <1>3. Init => J
    BY <1>1 DEF Init
  <1> QED BY <1>2, <1>3, PTL DEF Spec

(* The park sites wait on every key that can make them park, but one: of   *)
(* a machine parked before a junction, the junction's own cell.  So a      *)
(* machine that sleeps although it could go on waits for the exit of what  *)
(* was a junction when it parked and has been written over since.          *)
THEOREM OnlyJunctionsAreMissed == Spec => []OverslepsJunctionsOnly
  <1> DEFINE J == IInv /\ Sleeps
  <1>1. Init => J
    BY Starting, StartsAwake DEF Init, Sleeps
  <1>2. J /\ [Next]_vars => J'
    <2>1. ASSUME J, Step PROVE J'
      <3>1. PICK committed : Steps(committed)
        BY <2>1, StepSteps
      <3>2. Sleeps'
        BY <2>1, <3>1, SleepStep
      <3> QED BY <2>1, <3>1, <3>2, StepKeeps
    <2>2. ASSUME J, UNCHANGED <<ready, waiting_on_time, entity, value, occupant,
                                waiter_on_value, waiter_on_occupant>>
          PROVE  Sleeps'
      BY <2>2, SleepsUndisturbed DEF Sleeps
    <2>3. ASSUME J, NEW input \in Inputs, Submit(input) PROVE J'
      BY <2>2, <2>3, SubmitStep DEF Submit
    <2>4. ASSUME J, UNCHANGED vars PROVE J'
      BY <2>2, <2>4, Stutter DEF vars
    <2> QED BY <2>1, <2>3, <2>4 DEF Next
  <1>3. J => OverslepsJunctionsOnly
    BY HeldBack DEF Sleeps, OverslepsJunctionsOnly
  <1> QED BY <1>1, <1>2, <1>3, PTL DEF Spec

(* Where no junction is written over, nobody sleeps through what it waits  *)
(* for: between the read that made it park and its wait, and between any   *)
(* two writes of the cells it waits on, nothing can free its way that does *)
(* not wake it.  And nobody is forgotten.                                  *)
THEOREM NobodyOversleeps == Spec /\ [][JunctionsStay]_vars => []WaitersHear
  <1> DEFINE J == IInv /\ SleepsSoundly
  <1>1. Init => J
    BY Starting, StartsAwake DEF Init, SleepsSoundly
  <1>2. J /\ [Next]_vars /\ [JunctionsStay]_vars => J'
    <2>1. ASSUME J, UNCHANGED <<ready, waiting_on_time, entity, value, occupant,
                                waiter_on_value, waiter_on_occupant>>
          PROVE  SleepsSoundly'
      BY <2>1, SleepsUndisturbed DEF SleepsSoundly
    <2>2. ASSUME J, UNCHANGED vars PROVE J'
      BY <2>1, <2>2, Stutter DEF vars
    <2>3. ASSUME J, Step, JunctionsStay PROVE J'
      <3>1. PICK committed : Steps(committed)
        BY <2>3, StepSteps
      <3>2. SleepsSoundly'
        BY <2>3, <3>1, SleepStep
      <3> QED BY <2>3, <3>1, <3>2, StepKeeps
    <2>4. ASSUME J, NEW input \in Inputs, Submit(input) PROVE J'
      BY <2>1, <2>4, SubmitStep DEF Submit
    <2> QED BY <2>2, <2>3, <2>4 DEF Next
  <1>3. J => NoOversleeping
    BY HeldBack DEF SleepsSoundly, NoOversleeping, Sleeping
  <1>4. Spec /\ [][JunctionsStay]_vars => []NoOversleeping
    BY <1>1, <1>2, <1>3, PTL DEF Spec
  <1>5. NoOversleeping /\ NobodyIsForgotten => WaitersHear
    BY DEF WaitersHear
  <1> QED BY <1>4, <1>5, NobodyForgotten, PTL

------------------------------------------------------------------------------
(* The files that worlds are saved in: Saves.  A crash may bring back any  *)
(* directory since the last one, so that all of them must be orderly.      *)

CONSTANTS Saver, Nobody, CHUNKS, CRASHES
VARIABLES pc, good, written, durable, temps, names, past, holder, next_id, listed, erased, earlier, crashes

Disk == INSTANCE Saves

(* What the code says of the constants: a world has at least its header to *)
(* write, and nobody is no saver.  There may be any number of savers.      *)
SaversAssumed == CHUNKS \in Nat \ {0} /\ Nobody \notin Saver

(* The operators of the community modules, as Saves sees them. *)
LEMMA DiskOperators ==
  /\ \A T : Disk!Max(T) = Max(T)
  /\ \A f : Disk!Range(f) = {f[x] : x \in DOMAIN f}
  /\ \A f, T : Disk!Restrict(f, T) = [x \in T |-> f[x]]
  /\ \A T : Disk!Cardinality(T) = Cardinality(T)
  BY DEF Disk!Max, Max, Disk!Range, Disk!Restrict, Disk!Cardinality, Cardinality

(* A directory: finitely many numbers, each with the saver of its file.    *)
IsDirectory(d) ==
  /\ d = [id \in DOMAIN d |-> d[id]]
  /\ \E n \in Nat : DOMAIN d \subseteq 1 .. n
  /\ \A id \in DOMAIN d : d[id] \in Saver

(* The variables of Saves. *)
STypes ==
  /\ pc \in [Saver -> {"idle", "temp", "write", "flush", "close", "scan", "rename", "discard", "done", "lost"}]
  /\ good \in [Saver -> BOOLEAN]
  /\ written \in [Saver -> 0 .. CHUNKS] /\ durable \in [Saver -> 0 .. CHUNKS]
  /\ temps \subseteq Saver /\ names \in past /\ next_id \in [Saver -> Int] /\ erased \subseteq Saver
  /\ earlier \in [Saver -> SUBSET Saver]

(* What a saver has written where it is, and what it says of itself.       *)
SProgress ==
  \A s \in Saver :
    /\ pc[s] \in {"idle", "temp"} => written[s] = 0
    /\ pc[s] = "write" => written[s] < CHUNKS
    /\ pc[s] = "flush" => written[s] = CHUNKS
    /\ pc[s] = "close" /\ good[s] => written[s] = CHUNKS /\ durable[s] = CHUNKS
    /\ pc[s] \in {"scan", "rename"} => good[s] /\ written[s] = CHUNKS /\ durable[s] = CHUNKS
    /\ pc[s] = "discard" => ~good[s]
    /\ s \in temps => pc[s] \notin {"idle", "temp", "done"}

(* The saver of a file in a directory, and the saves that were there when  *)
(* one began, are done or were lost in a crash.                            *)
Ended(s) == pc[s] = "lost" \/ (pc[s] = "done" /\ good[s])
SEarlier == \A s \in Saver : s \notin earlier[s] /\ \A x \in earlier[s] : Ended(x)

(* The directory, and each that a crash may bring back: its files are      *)
(* whole and on stable storage, each has one name, and later saves have    *)
(* higher numbers.                                                         *)
Orderly(d) ==
  /\ IsDirectory(d)
  /\ \A i, j \in DOMAIN d : d[i] = d[j] => i = j
  /\ \A i \in DOMAIN d : written[d[i]] = CHUNKS /\ durable[d[i]] = CHUNKS /\ Ended(d[i])
  /\ \A i, j \in DOMAIN d : d[i] \in earlier[d[j]] => i < j
SPast == \A d \in past : Orderly(d)

(* Who is about to rename has the mutex and a number beyond all others.    *)
SRenames ==
  \A s \in Saver : pc[s] = "rename" => holder = s /\ next_id[s] > 0 /\ \A id \in DOMAIN names : id < next_id[s]

(* Who is done and pleased has its file, unless the player erased it; and  *)
(* the rows of the list are files.                                         *)
SKept ==
  /\ \A s \in Saver : pc[s] = "done" /\ good[s] => s \in erased \/ \E id \in DOMAIN names : names[id] = s
  /\ \A id \in DOMAIN listed : id \in DOMAIN names /\ listed[id] = names[id]

SInv == STypes /\ SProgress /\ SEarlier /\ SPast /\ SRenames /\ SKept

(* What a step leaves alone when one saver goes on and the directories do  *)
(* not change.                                                             *)
LEMMA SFrame ==
  ASSUME SInv, STypes', NEW s \in Saver, ~Ended(s),
         pc' = [pc EXCEPT ![s] = pc'[s]], good' = [good EXCEPT ![s] = good'[s]],
         written' = [written EXCEPT ![s] = written'[s]], durable' = [durable EXCEPT ![s] = durable'[s]],
         \A x \in Saver \ {s} : x \in temps' => x \in temps,
         names' = names, past' = past, listed' = listed, erased' = erased, earlier' = earlier
  PROVE  /\ SEarlier' /\ SPast'
         /\ ~(pc'[s] = "done" /\ good'[s]) => SKept'
         /\ \A x \in Saver \ {s} : pc'[x] = pc[x] /\ good'[x] = good[x] /\ written'[x] = written[x]
                                    /\ durable'[x] = durable[x]
  <1>1. \A x \in Saver \ {s} : pc'[x] = pc[x] /\ good'[x] = good[x] /\ written'[x] = written[x]
                                /\ durable'[x] = durable[x]
    BY DEF SInv, STypes
  <1>2. \A x \in Saver : Ended(x) => x # s /\ Ended(x)'
    BY <1>1 DEF Ended
  <1>3. SEarlier'
    BY <1>2 DEF SInv, SEarlier, STypes
  <1>4. SPast'
    <2> SUFFICES ASSUME NEW d \in past PROVE Orderly(d)'
      BY DEF SPast
    <2>1. Orderly(d)
      BY DEF SInv, SPast
    <2>2. \A i \in DOMAIN d : d[i] \in Saver /\ d[i] # s
      BY <2>1, <1>2 DEF Orderly, IsDirectory
    <2>3. \A i \in DOMAIN d : written'[d[i]] = CHUNKS /\ durable'[d[i]] = CHUNKS /\ Ended(d[i])'
      BY <2>1, <2>2, <1>1, <1>2 DEF Orderly
    <2> QED BY <2>1, <2>3 DEF Orderly, IsDirectory
  <1>5. ~(pc'[s] = "done" /\ good'[s]) => SKept'
    BY <1>1 DEF SInv, SKept
  <1> QED BY <1>1, <1>3, <1>4, <1>5

(* The steps of a saver up to the scan, and the discarding. *)
LEMMA SWrites ==
  ASSUME SaversAssumed, SInv, NEW s \in Saver,
         Disk!MakeTemp(s) \/ Disk!WriteChunk(s) \/ Disk!Flush(s) \/ Disk!Close(s) \/ Disk!Discard(s)
  PROVE  SInv'
  <1> USE DEF Disk!To
  <1>1. STypes'
    <2>1. CASE Disk!MakeTemp(s)
      BY <2>1 DEF SInv, STypes, Disk!MakeTemp
    <2>2. CASE Disk!WriteChunk(s)
      <3>1. written[s] + 1 \in 0 .. CHUNKS
        BY <2>2 DEF SaversAssumed, SInv, STypes, SProgress, Disk!WriteChunk
      <3> QED BY <2>2, <3>1 DEF SInv, STypes, Disk!WriteChunk
    <2>3. CASE Disk!Flush(s)
      BY <2>3 DEF SInv, STypes, Disk!Flush
    <2>4. CASE Disk!Close(s)
      BY <2>4 DEF SInv, STypes, Disk!Close, Disk!files
    <2>5. CASE Disk!Discard(s)
      BY <2>5 DEF SInv, STypes, Disk!Discard
    <2> QED BY <2>1, <2>2, <2>3, <2>4, <2>5
  <1>2. /\ ~Ended(s) /\ pc[s] # "rename"
        /\ pc' = [pc EXCEPT ![s] = pc'[s]] /\ good' = [good EXCEPT ![s] = good'[s]]
        /\ written' = [written EXCEPT ![s] = written'[s]] /\ durable' = [durable EXCEPT ![s] = durable'[s]]
        /\ \A x \in Saver \ {s} : x \in temps' => x \in temps
        /\ names' = names /\ past' = past /\ listed' = listed /\ erased' = erased /\ earlier' = earlier
        /\ holder' = holder /\ next_id' = next_id
    BY DEF SInv, STypes, Ended, Disk!MakeTemp, Disk!WriteChunk, Disk!Flush, Disk!Close, Disk!Discard, Disk!files
  <1>3. /\ SEarlier' /\ SPast'
        /\ ~(pc'[s] = "done" /\ good'[s]) => SKept'
        /\ \A x \in Saver \ {s} : pc'[x] = pc[x] /\ good'[x] = good[x] /\ written'[x] = written[x]
                                   /\ durable'[x] = durable[x]
    BY <1>1, <1>2, SFrame
  <1>4. /\ pc'[s] = "write" => written'[s] < CHUNKS
        /\ pc'[s] = "flush" => written'[s] = CHUNKS
        /\ pc'[s] = "close" /\ good'[s] => written'[s] = CHUNKS /\ durable'[s] = CHUNKS
        /\ pc'[s] = "scan" => good'[s] /\ written'[s] = CHUNKS /\ durable'[s] = CHUNKS
        /\ pc'[s] = "discard" => ~good'[s]
        /\ s \in temps' => pc'[s] # "done"
        /\ pc'[s] \notin {"idle", "temp", "rename"}
        /\ ~(pc'[s] = "done" /\ good'[s])
    <2>1. CASE Disk!MakeTemp(s)
      BY <2>1 DEF SaversAssumed, SInv, STypes, SProgress, Disk!MakeTemp
    <2>2. CASE Disk!WriteChunk(s)
      BY <2>2 DEF SaversAssumed, SInv, STypes, SProgress, Disk!WriteChunk
    <2>3. CASE Disk!Flush(s)
      BY <2>3 DEF SaversAssumed, SInv, STypes, SProgress, Disk!Flush
    <2>4. CASE Disk!Close(s)
      BY <2>4 DEF SaversAssumed, SInv, STypes, SProgress, Disk!Close, Disk!files
    <2>5. CASE Disk!Discard(s)
      BY <2>5 DEF SaversAssumed, SInv, STypes, SProgress, Disk!Discard
    <2> QED BY <2>1, <2>2, <2>3, <2>4, <2>5
  <1>5. SProgress'
    BY <1>2, <1>3, <1>4 DEF SInv, SProgress
  <1>6. SRenames'
    BY <1>2, <1>3, <1>4 DEF SInv, SRenames
  <1> QED BY <1>1, <1>3, <1>4, <1>5, <1>6 DEF SInv

(* A saver begins: the saves there are have ended, and it is not in one.   *)
LEMMA SBegins ==
  ASSUME SInv, NEW s \in Saver, Disk!Begin(s)
  PROVE  SInv'
  <1> USE DEF Disk!To, Disk!files
  <1>1. Orderly(names) /\ pc[s] = "idle"
    BY DEF SInv, SPast, STypes, Disk!Begin
  <1>2. Disk!Range(names) \subseteq {x \in Saver : x # s /\ Ended(x)}
    BY <1>1, DiskOperators DEF Orderly, IsDirectory, Ended
  <1>3. STypes'
    BY <1>2 DEF SInv, STypes, Disk!Begin
  <1>4. \A x \in Saver : Ended(x) => x # s /\ Ended(x)'
    BY <1>1 DEF SInv, STypes, Ended, Disk!Begin
  <1>5. SEarlier'
    BY <1>2, <1>4 DEF SInv, STypes, SEarlier, Disk!Begin
  <1>6. SPast'
    <2> SUFFICES ASSUME NEW d \in past PROVE Orderly(d)'
      BY DEF SPast, Disk!Begin
    <2>1. Orderly(d)
      BY DEF SInv, SPast
    <2>2. \A i \in DOMAIN d : d[i] \in Saver /\ d[i] # s /\ earlier'[d[i]] = earlier[d[i]] /\ Ended(d[i])'
      BY <2>1, <1>4 DEF Orderly, IsDirectory, SInv, STypes, Disk!Begin
    <2> QED BY <2>1, <2>2 DEF Orderly, IsDirectory, Disk!Begin
  <1>7. SProgress' /\ SRenames' /\ SKept'
    BY DEF SInv, STypes, SProgress, SRenames, SKept, Disk!Begin
  <1> QED BY <1>3, <1>5, <1>6, <1>7 DEF SInv

(* The scan: the greatest number and one. *)
LEMMA SScans ==
  ASSUME SaversAssumed, SInv, NEW s \in Saver, Disk!Scan(s)
  PROVE  SInv'
  <1> USE DEF Disk!To, Disk!files
  <1>1. PICK n \in Nat : DOMAIN names \subseteq 1 .. n
    BY DEF SInv, STypes, SPast, Orderly, IsDirectory
  <1>2. DOMAIN names \cup {0} \in SUBSET (0 .. n) /\ DOMAIN names \cup {0} # {}
    BY <1>1
  <1> DEFINE max == Max(DOMAIN names \cup {0})
  <1>3. max \in 0 .. n /\ \A id \in DOMAIN names : id <= max
    BY <1>2, Greatest
  <1>4. next_id' = [next_id EXCEPT ![s] = max + 1]
    BY DiskOperators DEF Disk!Scan
  <1> HIDE DEF max
  <1>5. STypes'
    BY <1>3, <1>4 DEF SInv, STypes, Disk!Scan
  <1>6. ~Ended(s) /\ pc[s] = "scan" /\ pc'[s] = "rename"
    BY DEF SInv, STypes, Ended, Disk!Scan
  <1>7. SEarlier' /\ SPast' /\ SKept'
    <2>1. /\ pc' = [pc EXCEPT ![s] = pc'[s]] /\ good' = [good EXCEPT ![s] = good'[s]]
          /\ written' = [written EXCEPT ![s] = written'[s]] /\ durable' = [durable EXCEPT ![s] = durable'[s]]
          /\ \A x \in Saver \ {s} : x \in temps' => x \in temps
          /\ names' = names /\ past' = past /\ listed' = listed /\ erased' = erased /\ earlier' = earlier
      BY DEF SInv, STypes, Disk!Scan
    <2> QED BY <1>5, <1>6, <2>1, SFrame
  <1>8. SProgress'
    BY <1>6 DEF SInv, STypes, SProgress, Disk!Scan
  <1>9. SRenames'
    <2>1. holder = Nobody /\ holder' = s /\ names' = names
      BY DEF Disk!Scan
    <2>2. next_id'[s] = max + 1 /\ \A x \in Saver \ {s} : pc'[x] = pc[x]
      BY <1>4 DEF SInv, STypes, Disk!Scan
    <2>3. \A x \in Saver \ {s} : pc'[x] # "rename"
      BY <2>1, <2>2 DEF SaversAssumed, SInv, SRenames
    <2>4. max + 1 > 0 /\ \A id \in DOMAIN names : id < max + 1
      <3>1. \A id \in DOMAIN names : id \in Int /\ id <= max
        BY <1>1, <1>3
      <3> QED BY <1>3, <3>1
    <2> QED BY <2>1, <2>2, <2>3, <2>4 DEF SRenames
  <1> QED BY <1>5, <1>7, <1>8, <1>9 DEF SInv

(* The rename takes no other save's place, and its number is beyond all.   *)
LEMMA SPublishes ==
  ASSUME SaversAssumed, SInv, NEW s \in Saver, Disk!Rename(s)
  PROVE  SInv'
  <1> USE DEF Disk!To
  <1> DEFINE id == next_id[s]
             Published == [k \in DOMAIN names \cup {id} |-> IF k = id THEN s ELSE names[k]]
  <1>1. /\ pc[s] = "rename" /\ ~Ended(s) /\ id \in Nat \ {0} /\ \A k \in DOMAIN names : k < id
        /\ good[s] /\ written[s] = CHUNKS /\ durable[s] = CHUNKS /\ Orderly(names)
        /\ \A x \in Saver : pc[x] = "rename" => x = s
    BY DEF SInv, STypes, SProgress, SRenames, SPast, Ended, Disk!Rename
  <1>2. CASE pc'[s] = "discard"
    <2>1. /\ pc' = [pc EXCEPT ![s] = "discard"] /\ good' = [good EXCEPT ![s] = FALSE]
          /\ UNCHANGED <<names, past, temps, written, durable, next_id, listed, erased, earlier>>
      BY <1>2 DEF SInv, STypes, Disk!Rename
    <2>2. STypes'
      BY <2>1 DEF SInv, STypes
    <2>3. /\ SEarlier' /\ SPast' /\ SKept'
          /\ \A x \in Saver \ {s} : pc'[x] = pc[x] /\ good'[x] = good[x]
      <3>1. /\ pc' = [pc EXCEPT ![s] = pc'[s]] /\ good' = [good EXCEPT ![s] = good'[s]]
            /\ written' = [written EXCEPT ![s] = written'[s]] /\ durable' = [durable EXCEPT ![s] = durable'[s]]
            /\ \A x \in Saver \ {s} : x \in temps' => x \in temps
        BY <2>1 DEF SInv, STypes
      <3> QED BY <1>1, <1>2, <2>1, <2>2, <3>1, SFrame
    <2>4. SProgress' /\ SRenames'
      BY <1>1, <2>1, <2>3 DEF SInv, STypes, SProgress, SRenames
    <2> QED BY <2>2, <2>3, <2>4 DEF SInv
  <1>3. CASE pc'[s] # "discard"
    <2>1. /\ pc' = [pc EXCEPT ![s] = "done"] /\ names' = Published /\ past' = past \cup {Published}
          /\ temps' = temps \ {s}
          /\ UNCHANGED <<good, written, durable, next_id, listed, erased, earlier>>
      BY <1>3 DEF SInv, STypes, Disk!Rename
    <2>2. STypes'
      BY <2>1 DEF SInv, STypes
    <2>3. \A x \in Saver : (Ended(x) \/ x = s) => Ended(x)'
      BY <1>1, <2>1 DEF SInv, STypes, Ended
    <2>4. \A d : Orderly(d) => Orderly(d)'
      BY <2>1, <2>3 DEF Orderly, IsDirectory
    <2>5. ASSUME NEW d, d = Published PROVE Orderly(d)'
      <3>0. d = Published
        BY <2>5
      <3>1. IsDirectory(d)
        <4>1. PICK n \in Nat : DOMAIN names \subseteq 1 .. n
          BY <1>1 DEF Orderly, IsDirectory
        <4>2. PICK m \in Nat : n <= m /\ id <= m
          <5>1. CASE n <= id
            BY <5>1, <1>1
          <5>2. CASE ~(n <= id)
            BY <5>2, <1>1
          <5> QED BY <5>1, <5>2
        <4>3. DOMAIN d \subseteq 1 .. m
          BY <1>1, <3>0, <4>1, <4>2
        <4>4. \A k \in DOMAIN d : d[k] \in Saver
          BY <1>1, <3>0 DEF Orderly, IsDirectory
        <4>5. d = [k \in DOMAIN d |-> d[k]]
          BY <3>0
        <4> QED BY <4>2, <4>3, <4>4, <4>5 DEF IsDirectory
      <3>2. \A k \in DOMAIN names : names[k] # s /\ k # id /\ d[k] = names[k]
        BY <1>1, <3>0 DEF Orderly
      <3>3. d[id] = s /\ DOMAIN d = DOMAIN names \cup {id}
        BY <3>0
      <3>4. \A k \in DOMAIN names : s \notin earlier[names[k]] /\ s \notin earlier[s]
        BY <1>1 DEF SInv, SEarlier, Orderly, IsDirectory
      <3>5. \A i, j \in DOMAIN d : d[i] = d[j] => i = j
        BY <1>1, <3>2, <3>3 DEF Orderly
      <3>6. \A i \in DOMAIN d : /\ written[d[i]] = CHUNKS /\ durable[d[i]] = CHUNKS
                              /\ Ended(d[i])'
        <4> SUFFICES ASSUME NEW i \in DOMAIN d
                     PROVE  /\ written[d[i]] = CHUNKS /\ durable[d[i]] = CHUNKS
                            /\ Ended(d[i])'
          OBVIOUS
        <4>1. CASE i = id
          BY <4>1, <1>1, <2>1, <2>3, <3>3
        <4>2. CASE i \in DOMAIN names
          <5>1. d[i] \in Saver /\ Ended(d[i]) /\ written[d[i]] = CHUNKS /\ durable[d[i]] = CHUNKS
            BY <4>2, <3>2, <1>1 DEF Orderly, IsDirectory
          <5> QED BY <5>1, <2>3
        <4> QED BY <4>1, <4>2, <3>3
      <3>7. \A i, j \in DOMAIN d : d[i] \in earlier[d[j]] => i < j
        <4> SUFFICES ASSUME NEW i \in DOMAIN d, NEW j \in DOMAIN d,
                            d[i] \in earlier[d[j]]
                     PROVE  i < j
          OBVIOUS
        <4>1. CASE i = id /\ j = id
          BY <4>1, <3>3, <1>1 DEF SInv, SEarlier
        <4>2. CASE i = id /\ j \in DOMAIN names
          BY <4>2, <3>2, <3>3, <3>4
        <4>3. CASE i \in DOMAIN names /\ j = id
          BY <4>3, <1>1
        <4>4. CASE i \in DOMAIN names /\ j \in DOMAIN names
          BY <4>4, <3>2, <1>1 DEF Orderly
        <4> QED BY <4>1, <4>2, <4>3, <4>4, <3>3
      <3> QED BY <2>1, <3>1, <3>5, <3>6, <3>7 DEF Orderly, IsDirectory
    <2>6. SPast'
      <3> SUFFICES ASSUME NEW d \in past' PROVE Orderly(d)'
        BY DEF SPast
      <3>1. CASE d \in past
        BY <3>1, <2>4 DEF SInv, SPast
      <3>2. CASE d = Published
        BY <3>2, <2>5
      <3> QED BY <2>1, <3>1, <3>2
    <2>7. SEarlier'
      BY <2>1, <2>3 DEF SInv, STypes, SEarlier
    <2>8. SProgress' /\ SRenames'
      BY <1>1, <2>1 DEF SInv, STypes, SProgress, SRenames
    <2>9. SKept'
      <3>1. \A k \in DOMAIN names : k # id /\ Published[k] = names[k]
        BY <1>1
      <3>2. Published[id] = s /\ DOMAIN Published = DOMAIN names \cup {id}
        OBVIOUS
      <3> HIDE DEF Published
      <3> QED BY <2>1, <3>1, <3>2 DEF SInv, STypes, SKept
    <2> QED BY <2>2, <2>6, <2>7, <2>8, <2>9 DEF SInv
  <1> QED BY <1>2, <1>3

(* A smaller directory is as orderly. *)
LEMMA SRestricted ==
  ASSUME NEW d, Orderly(d), NEW K \in SUBSET DOMAIN d
  PROVE  Orderly([k \in K |-> d[k]])
  BY DEF Orderly, IsDirectory

(* The list is opened, or a save deleted. *)
LEMMA SLists ==
  ASSUME SInv, Disk!Open \/ \E id \in DOMAIN listed : Disk!Delete(id)
  PROVE  SInv'
  <1> USE DEF Disk!files
  <1>1. CASE Disk!Open
    <2>1. UNCHANGED <<pc, good, written, durable, temps, names, past, holder, next_id, erased, earlier>> /\ listed' = names
      BY <1>1 DEF Disk!Open
    <2>2. STypes' /\ SProgress' /\ SEarlier' /\ SRenames' /\ SKept'
      BY <2>1 DEF SInv, STypes, SProgress, SEarlier, SRenames, SKept, Ended
    <2>3. SPast'
      BY <2>1 DEF SInv, SPast, Orderly, IsDirectory, Ended
    <2> QED BY <2>2, <2>3 DEF SInv
  <1>2. CASE \E id \in DOMAIN listed : Disk!Delete(id)
    <2>1. PICK id \in DOMAIN listed : Disk!Delete(id)
      BY <1>2
    <2> DEFINE K == DOMAIN names \ {id}
               Remaining == [k \in K |-> names[k]]
    <2>2. /\ UNCHANGED <<pc, good, written, durable, temps, holder, next_id, earlier>>
          /\ names' = Remaining /\ past' = past \cup {Remaining} /\ listed' = Remaining
          /\ erased' = erased \cup (IF id \in DOMAIN names THEN {names[id]} ELSE {})
      BY <2>1, DiskOperators DEF Disk!Delete
    <2>3. Orderly(names)
      BY DEF SInv, STypes, SPast
    <2>4. Orderly(Remaining)
      BY <2>3, SRestricted
    <2>5. \A d : Orderly(d) => Orderly(d)'
      BY <2>2 DEF Orderly, IsDirectory, Ended
    <2>6. SPast'
      BY <2>2, <2>4, <2>5 DEF SInv, SPast
    <2>7. STypes' /\ SProgress' /\ SEarlier'
      BY <2>2, <2>3 DEF SInv, STypes, SProgress, SEarlier, Ended, Orderly, IsDirectory
    <2>8. DOMAIN Remaining = K /\ \A k \in K : Remaining[k] = names[k]
      OBVIOUS
    <2> HIDE DEF Remaining
    <2>9. SRenames'
      BY <2>2, <2>8 DEF SInv, SRenames
    <2>10. SKept'
      BY <2>2, <2>8 DEF SInv, SKept
    <2> QED BY <2>6, <2>7, <2>9, <2>10 DEF SInv
  <1> QED BY <1>1, <1>2

(* A crash takes back as much as it may. *)
LEMMA SCrashes ==
  ASSUME SaversAssumed, SInv, Disk!Crash
  PROVE  SInv'
  <1>1. /\ pc' = [s \in Saver |-> IF pc[s] = "idle" THEN "idle" ELSE "lost"]
        /\ names' \in past /\ past' = {names'} /\ listed' = << >>
        /\ written' \in [Saver -> 0 .. CHUNKS] /\ durable' = written'
        /\ \A s \in Saver : written'[s] \in durable[s] .. written[s]
        /\ UNCHANGED <<good, temps, next_id, erased, earlier>>
    BY DEF Disk!Crash
  <1>2. STypes'
    BY <1>1 DEF SInv, STypes
  <1>3. \A s \in Saver : Ended(s) => Ended(s)'
    BY <1>1 DEF Ended
  <1>4. SProgress'
    BY <1>1 DEF SaversAssumed, SInv, STypes, SProgress
  <1>5. SEarlier'
    BY <1>1, <1>3 DEF SInv, STypes, SEarlier
  <1>6. SPast'
    <2> SUFFICES ASSUME NEW d \in past, d = names' PROVE Orderly(d)'
      BY <1>1 DEF SPast
    <2>1. Orderly(d)
      BY DEF SInv, SPast
    <2>2. \A i \in DOMAIN d : d[i] \in Saver
      BY <2>1 DEF Orderly, IsDirectory
    <2>3. \A i \in DOMAIN d : written'[d[i]] = CHUNKS /\ durable'[d[i]] = CHUNKS /\ Ended(d[i])'
      BY <2>1, <2>2, <1>1, <1>3 DEF Orderly, SaversAssumed
    <2> QED BY <2>1, <2>3, <1>1 DEF Orderly, IsDirectory
  <1>7. SRenames' /\ SKept'
    BY <1>1 DEF SInv, STypes, SRenames, SKept
  <1> QED BY <1>2, <1>4, <1>5, <1>6, <1>7 DEF SInv

LEMMA SStarts == ASSUME SaversAssumed, Disk!Init PROVE SInv
  <1>1. DOMAIN << >> = {}
    OBVIOUS
  <1>2. IsDirectory(<< >>)
    <2>1. << >> = [id \in DOMAIN << >> |-> << >>[id]]
      OBVIOUS
    <2> QED BY <1>1, <2>1 DEF IsDirectory
  <1>3. Orderly(<< >>)
    BY <1>1, <1>2 DEF Orderly
  <1>4. STypes /\ SProgress /\ SEarlier /\ SRenames /\ SKept
    BY <1>1 DEF SaversAssumed, Disk!Init, STypes, SProgress, SEarlier, SRenames, SKept
  <1>5. SPast
    BY <1>3 DEF SPast, Disk!Init
  <1> QED BY <1>4, <1>5 DEF SInv

LEMMA SSteps == ASSUME SaversAssumed, SInv, [Disk!Next]_(Disk!vars) PROVE SInv'
  <1>1. CASE UNCHANGED Disk!vars
    <2>1. UNCHANGED <<pc, good, written, durable, temps, names, past, holder, next_id, listed, erased, earlier>>
      BY <1>1 DEF Disk!vars, Disk!files
    <2>2. \A d : Orderly(d)' <=> Orderly(d)
      BY <2>1 DEF Orderly, IsDirectory, Ended
    <2> QED BY <2>1, <2>2 DEF SInv, STypes, SProgress, SEarlier, SPast, SRenames, SKept, Ended
  <1>2. CASE Disk!Next
    BY <1>2, SBegins, SWrites, SScans, SPublishes, SLists, SCrashes DEF Disk!Next
  <1> QED BY <1>1, <1>2

(* What the invariant says of the saves. *)
LEMMA SSound == ASSUME SInv PROVE Disk!SavesSound
  <1>1. Orderly(names)
    BY DEF SInv, STypes, SPast
  <1>2. Disk!OnlyWholeSaves
    BY <1>1 DEF Orderly, Disk!OnlyWholeSaves
  <1>3. Disk!NumbersAscend
    BY <1>1 DEF SInv, SKept, Orderly, Disk!NumbersAscend
  <1>4. Disk!ReportsAreTrue
    <2> SUFFICES ASSUME NEW s \in Saver, pc[s] = "done"
                 PROVE  /\ good[s] => s \in erased \/ Disk!Cardinality({id \in DOMAIN names : names[id] = s}) = 1
                        /\ ~good[s] => s \notin Disk!Range(names)
                        /\ s \notin temps
      BY DEF Disk!ReportsAreTrue
    <2>1. ASSUME good[s], s \notin erased
          PROVE  Disk!Cardinality({id \in DOMAIN names : names[id] = s}) = 1
      <3>1. PICK id \in DOMAIN names : names[id] = s
        BY <2>1 DEF SInv, SKept
      <3>2. {k \in DOMAIN names : names[k] = s} = {id}
        BY <1>1, <3>1 DEF Orderly
      <3>3. Cardinality({id}) = 1
        BY FS_Singleton
      <3> QED BY <3>2, <3>3, DiskOperators
    <2>2. ASSUME ~good[s] PROVE s \notin Disk!Range(names)
      BY <1>1, <2>2, DiskOperators DEF Orderly, Ended
    <2>3. s \notin temps
      BY DEF SInv, SProgress
    <2> QED BY <2>1, <2>2, <2>3
  <1> QED BY <1>2, <1>3, <1>4 DEF Disk!SavesSound

(* For any number of savers and of crashes: a file in the directory is     *)
(* whole, no save takes another's place, what is reported is true, and     *)
(* later saves have higher numbers, even if a crash takes back any of the  *)
(* changes to the directory.                                               *)
THEOREM SavesAreKept == ASSUME SaversAssumed PROVE Disk!Spec => []Disk!SavesSound
  <1>1. Disk!Init => SInv
    BY SStarts
  <1>2. SInv /\ [Disk!Next]_(Disk!vars) => SInv'
    BY SSteps
  <1>3. SInv => Disk!SavesSound
    BY SSound
  <1> QED BY <1>1, <1>2, <1>3, PTL DEF Disk!Spec
=============================================================================
