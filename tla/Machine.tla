-------------------------------- MODULE Machine --------------------------------
(***************************************************************************)
(* The immutable world of game/world.hpp and the transaction an entity     *)
(* proposes against it: the state that entities read when they are         *)
(* notified, and the vocabulary they write their wishes in.  Then the      *)
(* machine of game/machine.cpp: an interpreter that drives from cell to    *)
(* cell and executes the glyph it arrives at.  World says what the other   *)
(* entities propose, and what a step does.                                 *)
(*                                                                         *)
(* A time is stored as its distance from now, so that the run of the clock *)
(* is not part of the state: 1 is next_now().                              *)
(***************************************************************************)
EXTENDS Integers, SequencesExt, FiniteSetsExt

CONSTANTS
  ID,        (* the EntityIDs, 1 to the greatest one the model can issue *)
  WIDTH, HEIGHT,  (* coordinates wrap around, as the program's do at 2^32 *)
  TRAVEL,    (* the ticks a machine takes for one hop (64 in machine.cpp) *)
  NoEntity

VARIABLES
  ready,            (* World::_ready: the entities to notify now         *)
  waiting_on_time,  (* World::_waiting_on_time, as <<distance, id>>      *)
  entity,           (* World::_entity_for_entity_id                      *)
  value,            (* World::_term_for_coordinate                       *)
  occupant,         (* World::_entity_id_for_coordinate                  *)
  located,          (* World::_located_for_coordinate                    *)
  waiter_on_value,     (* the ki of _term_for_coordinate                 *)
  waiter_on_occupant,  (* the ki of _entity_id_for_coordinate            *)
  entity_id_source, (* World::_entity_id_source                          *)
  queue             (* Player::_queue                                    *)

NoID == 0
Coordinate == (0 .. WIDTH - 1) \X (0 .. HEIGHT - 1)

(* Terms.  ABSENT is the lack of an entry in the map, EMPTY an entry that  *)
(* holds the null Term.  Integers are taken modulo 4, which is all that    *)
(* parity and headings tell apart.                                         *)
ABSENT == "ABSENT"
EMPTY == "EMPTY"
MATTER == "MATTER"
ERROR == "ERROR"
Integer == <<"0", "1", "2", "3">>
Boolean == <<"FALSE", "TRUE">>
Opcode == {"SKIP", "HALT", "TURN_NORTH", "TURN_EAST", "TURN_SOUTH", "TURN_WEST",
           "TURN_RIGHT", "TURN_LEFT", "TURN_BACK", "BRANCH_RIGHT", "BRANCH_LEFT",
           "LOAD", "STORE", "EXCHANGE", "HEADING_LOAD", "HEADING_STORE", "DROP",
           "DUPLICATE", "SWAP", "NEGATE", "ADD", "IS_MATTER", "FLIP_FLOP", "FLOP_FLIP",
           "VALVE_NORTH_SOUTH", "VALVE_EAST_WEST", "DO_NOT_QUEUE"}
Term == {EMPTY, MATTER, ERROR} \cup Range(Integer) \cup Range(Boolean) \cup Opcode

Int4(n) == Integer[1 + (n % 4)]
Bool(b) == IF b THEN "TRUE" ELSE "FALSE"
IsInty(v) == v \in Range(Integer) \cup Range(Boolean)
AsInt(v) == IF v \in Range(Integer) THEN CHOOSE n \in 0 .. 3 : Integer[n + 1] = v
                                    ELSE CHOOSE n \in 0 .. 1 : Boolean[n + 1] = v

(* A read that finds no entry leaves the reader's default, EntityID 0, the *)
(* empty set or the null Term: only Source and Sink tell ABSENT from EMPTY. *)
Read(c) == IF value[c] = ABSENT THEN EMPTY ELSE value[c]

------------------------------------------------------------------------------
(* Transactions. *)

COMMITTED == "COMMITTED"
ABORTED == "ABORTED"
WRITE_ON_COMMIT == "WRITE"
WAIT_ALWAYS == {COMMITTED, ABORTED}

Node(k, desired, op) == [key |-> k, desired |-> desired, op |-> op]
Write(k, desired) == Node(k, desired, {WRITE_ON_COMMIT})

(* A transaction: its nodes in each of the five maps of the context, and   *)
(* the number of EntityIDs that notify() asks for.                         *)
Nothing == [value |-> {}, occupant |-> {}, located |-> {}, entity |-> {}, time |-> {},
            requested |-> 0]

WaitOnTime(d, id, op) == Node(d, id, op)
OnCommitSleepFor(d, id) == WaitOnTime(d, id, {COMMITTED})
OnAbortRetry(id) == WaitOnTime(1, id, {ABORTED})
WaitOnValue(c, op) == Node(c, EMPTY, op)
WaitOnOccupant(c) == Node(c, NoID, {COMMITTED})

------------------------------------------------------------------------------
(* The machine.  Plan reads the world and decides how an arrival goes on,  *)
(* MachineTx writes the transaction.                                       *)
(*                                                                         *)
(* A stack is a sequence with its top first.  Opcodes that only permute or *)
(* rewrite numbers on the stack are represented by NEGATE (one operand),   *)
(* ADD (two), DUPLICATE and SWAP; the rest of the switch has their shape.  *)

(* step_from: headings are north, east, south, west. *)
StepFrom(c, heading) ==
  CASE heading % 4 = 0 -> <<c[1], (c[2] + 1) % HEIGHT>>
    [] heading % 4 = 1 -> <<(c[1] + 1) % WIDTH, c[2]>>
    [] heading % 4 = 2 -> <<c[1], (c[2] + HEIGHT - 1) % HEIGHT>>
    [] heading % 4 = 3 -> <<(c[1] + WIDTH - 1) % WIDTH, c[2]>>

Peek(s) == IF s = << >> THEN EMPTY ELSE Head(s)
Pop(s) == IF s = << >> THEN s ELSE Tail(s)

(* Operators whose name begins with Wrong are mistakes the code could have  *)
(* made.  Nothing uses them: each stands before the definition it would    *)
(* replace, and shows that a property notices.                             *)
WrongPush(s, v) == <<v>> \o s

Push(s, v) == IF v = EMPTY THEN s ELSE <<v>> \o s

(* steering_of, and what the planner makes of it: the heading after the    *)
(* action, and whether the top of the stack was its operand.               *)
Steer(action, heading, top) ==
  LET to(h) == [heading |-> h % 4, pop |-> FALSE]
      by(h) == IF IsInty(top) THEN [heading |-> h % 4, pop |-> TRUE] ELSE to(heading) IN
  CASE action = "TURN_NORTH" -> to(0)
    [] action = "TURN_EAST" -> to(1)
    [] action = "TURN_SOUTH" -> to(2)
    [] action = "TURN_WEST" -> to(3)
    [] action \in {"TURN_RIGHT", "FLIP_FLOP"} -> to(heading + 1)
    [] action \in {"TURN_LEFT", "FLOP_FLIP"} -> to(heading + 3)
    [] action = "TURN_BACK" -> to(heading + 2)
    [] action = "BRANCH_RIGHT" -> by(heading + AsInt(top))
    [] action = "BRANCH_LEFT" -> by(heading + 4 - AsInt(top))
    [] action = "HEADING_STORE" -> by(AsInt(top))
    [] OTHER -> to(heading)

(* pending_treats_cell_as_data *)
TreatsCellAsData(pending) == pending \in {"SKIP", "LOAD", "STORE", "EXCHANGE"}

ValveBlocks(v, heading) ==
  \/ v = "VALVE_NORTH_SOUTH" /\ heading % 2 = 1
  \/ v = "VALVE_EAST_WEST" /\ heading % 2 = 0

(* The cell a machine is about to let go of counts as claimed. *)
WrongOurs(id, c) == occupant[c] = id

(* A cell that was claimed together with the junction before it. *)
Ours(id, c) == occupant[c] = id /\ c # entity[id].old_location

(* plan_arrival: every way an arrival can park, in the order of the tests. *)
Plan(id) ==
  LET me == entity[id]
      cell == Read(me.new_location)
      top == Peek(me.stack)
      action == IF cell \in Opcode /\ ~TreatsCellAsData(me.on_arrival) THEN cell ELSE "NOOP"
      steer == Steer(action, me.new_heading, top)
      next == StepFrom(me.new_location, steer.heading)
      beyond == StepFrom(next, steer.heading)
      junction == Read(next) = "DO_NOT_QUEUE"
      disposition ==
        IF action = "HALT" THEN "PARK_HALT"
        ELSE IF /\ me.on_arrival = "STORE"
                /\ cell = MATTER \/ (top = MATTER /\ cell # EMPTY) THEN "PARK_STORE_GUARD"
        ELSE IF ValveBlocks(Read(next), steer.heading) THEN "PARK_VALVE"
        ELSE IF occupant[next] # NoID /\ ~Ours(id, next) THEN "PARK_OCCUPIED"
        ELSE IF /\ junction
                /\ occupant[beyond] # NoID \/ ValveBlocks(Read(beyond), steer.heading)
             THEN "PARK_JUNCTION"
        ELSE "PROCEED"
  IN [disposition |-> disposition, cell |-> cell, action |-> action, pop |-> steer.pop,
      heading |-> steer.heading, next |-> next, beyond |-> beyond, claim_beyond |-> junction]

(* Matter is copied. *)
WrongTaken(cell) == {}

(* Matter is taken, not copied. *)
Taken(cell) == IF cell = MATTER THEN {EMPTY} ELSE {}

(* apply_pending: the stack after the latched memory operation, and the    *)
(* terms it writes to the cell (none or one).                              *)
ApplyPending(pending, s, cell) ==
  CASE pending = "SKIP" -> [stack |-> s, writes |-> {}]
    [] pending = "LOAD" -> [stack |-> Push(s, cell),
                            writes |-> Taken(cell)]
    [] pending = "STORE" -> [stack |-> Pop(s), writes |-> {Peek(s)}]
    [] pending = "EXCHANGE" -> [stack |-> Push(Pop(s), cell), writes |-> {Peek(s)}]
    [] OTHER -> [stack |-> IF IsInty(cell) THEN Push(s, cell) ELSE s, writes |-> {}]

(* The action's own effect: the stack, the opcode that is latched, and the *)
(* glyph that replaces the executed one (none or one).                     *)
ApplyAction(action, s, heading) ==
  LET top == Peek(s)
      under == Peek(Pop(s))
      to(t) == [stack |-> t, latched |-> action, writes |-> {}]
      glyph(g) == [stack |-> s, latched |-> action, writes |-> {g}] IN
  CASE action = "HEADING_LOAD" -> to(Push(s, Int4(heading)))
    [] action = "DROP" -> IF top = MATTER THEN [to(s) EXCEPT !.latched = "STORE"] ELSE to(Pop(s))
    [] action = "DUPLICATE" -> to(IF top = MATTER THEN s ELSE Push(s, top))
    [] action = "SWAP" -> to(Push(Push(Pop(Pop(s)), top), under))
    [] action = "NEGATE" /\ IsInty(top) -> to(Push(Pop(s), Int4(4 - AsInt(top))))
    [] action = "ADD" /\ IsInty(top) /\ IsInty(under) ->
         to(Push(Pop(Pop(s)), Int4(AsInt(under) + AsInt(top))))
    [] action = "IS_MATTER" /\ top # EMPTY -> to(Push(s, Bool(top = MATTER)))
    [] action = "FLIP_FLOP" -> glyph("FLOP_FLIP")
    [] action = "FLOP_FLIP" -> glyph("FLIP_FLOP")
    [] action = "VALVE_NORTH_SOUTH" -> glyph("VALVE_EAST_WEST")
    [] action = "VALVE_EAST_WEST" -> glyph("VALVE_NORTH_SOUTH")
    [] OTHER -> to(s)
------------------------------------------------------------------------------
(* Machine::notify. *)

(* The machine lets go of the wrong end, or of one of the two maps only. *)
WrongReleaseNew(id) ==
  LET c == entity[id].new_location IN
  IF entity[id].phase = "WAITING_FOR_NEW" THEN Nothing
  ELSE [Nothing EXCEPT !.occupant = {Write(c, NoID)},
                       !.located = {Write(c, located[c] \ {id})}]

WrongReleaseOld(id) ==
  LET old == entity[id].old_location IN
  IF entity[id].phase = "WAITING_FOR_NEW" THEN Nothing
  ELSE [Nothing EXCEPT !.located = {Write(old, located[old] \ {id})}]

(* A machine that has arrived lets go of the cell it came from. *)
ReleaseOld(id) ==
  LET old == entity[id].old_location IN
  IF entity[id].phase = "WAITING_FOR_NEW" THEN Nothing
  ELSE [Nothing EXCEPT !.occupant = {Write(old, NoID)},
                       !.located = {Write(old, located[old] \ {id})}]

(* The residents of the cell are swept out. *)
WrongClaim(tx, id, c) ==
  [tx EXCEPT !.occupant = @ \cup {Write(c, id)},
             !.located = @ \cup {Write(c, {id})}]

Claim(tx, id, c) ==
  [tx EXCEPT !.occupant = @ \cup {Write(c, id)},
             !.located = @ \cup {Write(c, located[c] \cup {id})}]

(* The cells whose value and whose occupant a parked machine waits for. *)
WaitsForValue(p, here) ==
  CASE p.disposition = "PARK_VALVE" -> {here, p.next}
    [] p.disposition = "PARK_JUNCTION" -> {here, p.beyond}
    [] OTHER -> {here}
WaitsForOccupant(p) ==
  CASE p.disposition = "PARK_OCCUPIED" -> {p.next}
    [] p.disposition = "PARK_JUNCTION" -> {p.beyond}
    [] OTHER -> {}

Park(id, p, me) ==
  LET tx == ReleaseOld(id) IN
  [tx EXCEPT
     !.entity = {Write(id, IF p.disposition = "PARK_HALT"
                             THEN [me EXCEPT !.on_arrival = "NOOP"] ELSE me)},
     !.value = {WaitOnValue(c, {COMMITTED}) : c \in WaitsForValue(p, me.new_location)},
     !.occupant = @ \cup {WaitOnOccupant(c) : c \in WaitsForOccupant(p)},
     !.time = IF p.disposition = "PARK_HALT" THEN {} ELSE {OnAbortRetry(id)}]

Proceed(id, p, me) ==
  LET claimed == Claim(ReleaseOld(id), id, p.next)
      tx == IF p.claim_beyond THEN Claim(claimed, id, p.beyond) ELSE claimed
      memory == ApplyPending(me.on_arrival, me.stack, p.cell)
      done == ApplyAction(p.action, IF p.pop THEN Pop(memory.stack) ELSE memory.stack,
                          me.new_heading) IN
  [tx EXCEPT
     !.entity = {Write(id, [me EXCEPT !.phase = "TRAVELLING", !.on_arrival = done.latched,
                                      !.stack = done.stack, !.new_heading = p.heading,
                                      !.new_location = p.next, !.eta = TRAVEL])},
     !.value = {Write(me.new_location, v) : v \in memory.writes \cup done.writes},
     !.time = {OnCommitSleepFor(TRAVEL, id), OnAbortRetry(id)}]

MachineTx(id) ==
  LET p == Plan(id)
      me == [entity[id] EXCEPT !.phase = "WAITING_FOR_NEW",
                               !.old_location = entity[id].new_location] IN
  IF entity[id].phase = "TRAVELLING" /\ entity[id].eta > 0 THEN Nothing
  ELSE IF p.disposition = "PROCEED" THEN Proceed(id, p, me)
  ELSE Park(id, p, me)
==============================================================================
