---------------------------- MODULE Reorientation ----------------------------
(***************************************************************************)
(* Rotating and mirroring the opcode in hand (game/opcode.hpp): the table  *)
(* of what each opcode becomes, and what the table is for, that a program  *)
(* block whose cells are moved and whose opcodes are replaced drives a     *)
(* machine along the moved path.                                           *)
(*                                                                         *)
(* The state is one machine in the middle of nine cells, which are turned  *)
(* or mirrored together once.  Opcodes are those of Machine: the table     *)
(* fixes every other one.                                                  *)
(***************************************************************************)
EXTENDS Integers, Sequences, TLC

CONSTANTS Latched,     (* <<opcode that is latched, top of the stack>>       *)
          Around       (* <<what is beside, what is across, beside taken?>>  *)

VARIABLES entity, value, occupant,
          moved      (* how, and what the machine did before; at first << >>    *)
vars == <<entity, value, occupant, moved>>

(* The machine, of which only the planner is used here.                    *)
World == INSTANCE Machine WITH
  ID <- {1}, WIDTH <- 3, HEIGHT <- 3, TRAVEL <- 1, NoEntity <- "none", ready <- {},
  waiting_on_time <- {}, located <- << >>, waiter_on_value <- << >>,
  waiter_on_occupant <- << >>, entity_id_source <- 1, queue <- << >>

Opcode == World!Opcode \cup {"NOOP"}
Clockwise == [TURN_NORTH |-> "TURN_EAST", TURN_EAST |-> "TURN_SOUTH", TURN_SOUTH |-> "TURN_WEST",
              TURN_WEST |-> "TURN_NORTH", VALVE_NORTH_SOUTH |-> "VALVE_EAST_WEST",
              VALVE_EAST_WEST |-> "VALVE_NORTH_SOUTH"]

(* A valve is left alone by a reflection, but it is tempting to turn it.   *)
WrongHorizontal ==
  [TURN_EAST |-> "TURN_WEST", TURN_WEST |-> "TURN_EAST", TURN_LEFT |-> "TURN_RIGHT", TURN_RIGHT |-> "TURN_LEFT",
   BRANCH_LEFT |-> "BRANCH_RIGHT", BRANCH_RIGHT |-> "BRANCH_LEFT", FLIP_FLOP |-> "FLOP_FLIP",
   FLOP_FLIP |-> "FLIP_FLOP", VALVE_NORTH_SOUTH |-> "VALVE_EAST_WEST", VALVE_EAST_WEST |-> "VALVE_NORTH_SOUTH"]

Horizontal == [TURN_EAST |-> "TURN_WEST", TURN_WEST |-> "TURN_EAST",
               TURN_LEFT |-> "TURN_RIGHT", TURN_RIGHT |-> "TURN_LEFT",
               BRANCH_LEFT |-> "BRANCH_RIGHT", BRANCH_RIGHT |-> "BRANCH_LEFT",
               FLIP_FLOP |-> "FLOP_FLIP", FLOP_FLIP |-> "FLIP_FLOP"]

Look(table, x) == IF x \in DOMAIN table THEN table[x] ELSE x
RotatedClockwise(x) == Look(Clockwise, x)
RotatedCounterclockwise(x) ==
  IF \E from \in DOMAIN Clockwise : Clockwise[from] = x
    THEN CHOOSE from \in DOMAIN Clockwise : Clockwise[from] = x ELSE x
MirroredHorizontal(x) == Look(Horizontal, x)
MirroredVertical(x) == RotatedClockwise(RotatedClockwise(MirroredHorizontal(x)))

(* The order of the enumeration, as far as it tells an orbit's least.      *)
Rank == [TURN_NORTH |-> 1, TURN_EAST |-> 2, TURN_SOUTH |-> 3, TURN_WEST |-> 4, TURN_RIGHT |-> 5,
         TURN_LEFT |-> 6, BRANCH_RIGHT |-> 7, BRANCH_LEFT |-> 8, FLIP_FLOP |-> 9, FLOP_FLIP |-> 10,
         VALVE_NORTH_SOUTH |-> 11, VALVE_EAST_WEST |-> 12]
Least(S) == IF \E x \in S : x \notin DOMAIN Rank THEN CHOOSE x \in S : TRUE
            ELSE CHOOSE x \in S : \A y \in S : Rank[x] <= Rank[y]

(* The glyph of x in the palette.                                          *)
OrbitRepresentative(x) ==
  LET turns[i \in 0 .. 4] == IF i = 0 THEN x ELSE RotatedClockwise(turns[i - 1])
      r == {turns[i] : i \in 1 .. 4} IN
  Least({x} \cup r \cup {MirroredHorizontal(y) : y \in r})
-----------------------------------------------------------------------------
(* The cell under the machine holds anything, one beside it and the one    *)
(* across from that hold a gate, and one of the two may be occupied.       *)
Here == <<1, 1>>
Beside(d) == World!StepFrom(Here, d)

Init ==
  /\ \E glyph \in Opcode \cup {"EMPTY", "2", "MATTER"}, h \in 0 .. 3, l \in Latched, d \in 0 .. 3, a \in Around :
       /\ value = [c \in World!Coordinate |->
                     CASE c = Here -> glyph
                       [] c = Beside(d) -> a[1]
                       [] c = Beside(d + 2) -> a[2]
                       [] OTHER -> "EMPTY"]
       /\ occupant = [c \in World!Coordinate |->
                        CASE c = Here -> 1 [] c = Beside(d) /\ a[3] -> 2 [] OTHER -> 0]
       /\ entity = [i \in {1} |->
                      [new_location |-> Here, old_location |-> Here, new_heading |-> h, on_arrival |-> l[1],
                       stack |-> IF l[2] = "EMPTY" THEN << >> ELSE <<l[2]>>]]
  /\ moved = << >>

(* A rotation or reflection: where the content of a cell comes from, where *)
(* a heading goes, and what a term becomes.                                *)
Rotation == [from |-> [c \in World!Coordinate |-> <<2 - c[2], c[1]>>],
             at |-> [c \in World!Coordinate |-> <<c[2], 2 - c[1]>>],
             to |-> [h \in 0 .. 3 |-> (h + 1) % 4],
             op |-> [v \in World!Term \cup {"NOOP"} |-> RotatedClockwise(v)]]
Mirror == [from |-> [c \in World!Coordinate |-> <<2 - c[1], c[2]>>],
           at |-> [c \in World!Coordinate |-> <<2 - c[1], c[2]>>],
           to |-> [h \in 0 .. 3 |-> (4 - h) % 4],
           op |-> [v \in World!Term \cup {"NOOP"} |-> MirroredHorizontal(v)]]
Flip == [from |-> [c \in World!Coordinate |-> <<c[1], 2 - c[2]>>],
         at |-> [c \in World!Coordinate |-> <<c[1], 2 - c[2]>>],
         to |-> [h \in 0 .. 3 |-> (6 - h) % 4],
         op |-> [v \in World!Term \cup {"NOOP"} |-> MirroredVertical(v)]]

(* What the planner decides, and the glyph the action leaves behind.       *)
Outcome ==
  LET plan == World!Plan(1) IN
  [action |-> plan.action, disposition |-> plan.disposition, pop |-> plan.pop,
   claim_beyond |-> plan.claim_beyond, heading |-> plan.heading, next |-> plan.next, beyond |-> plan.beyond,
   left |-> World!ApplyAction(plan.action, entity[1].stack, entity[1].new_heading).writes]

(* The player turns or mirrors the block, with all that stands on it.      *)
Reorient(m) ==
  /\ moved = << >> /\ moved' = <<m, Outcome>>
  /\ value' = [c \in World!Coordinate |-> m.op[value[m.from[c]]]]
  /\ occupant' = [c \in World!Coordinate |-> occupant[m.from[c]]]
  /\ entity' = [entity EXCEPT ![1].new_heading = m.to[@]]

Next == (\E m \in {Rotation, Mirror, Flip} : Reorient(m)) \/ UNCHANGED vars
Spec == Init /\ [][Next]_vars

Image(m, o) == [o EXCEPT !.action = m.op[@], !.heading = m.to[@], !.next = m.at[@], !.beyond = m.at[@],
                         !.left = {m.op[g] : g \in @}]

(* A moved machine in a moved block decides what the machine decided,      *)
(* moved: it parks for the same reason, claims the moved cells, and leaves *)
(* the moved glyph.  The two opcodes that read or set an absolute heading  *)
(* are exempt, as the comment over the table says they must be.            *)
BlocksReorient ==
  moved # << >> /\ moved[2].action \notin {"HEADING_LOAD", "HEADING_STORE"} =>
    Outcome = Image(moved[1], moved[2])

(* The palette shows one glyph of each orbit: whatever is rotated and      *)
(* mirrored into x is reached from the glyph of x, and no other glyph.     *)
OneGlyphPerOrbit ==
  \A x \in Opcode :
    /\ OrbitRepresentative(RotatedClockwise(x)) = OrbitRepresentative(x)
    /\ OrbitRepresentative(MirroredHorizontal(x)) = OrbitRepresentative(x)
    /\ RotatedCounterclockwise(RotatedClockwise(x)) = x

ReorientationSound == BlocksReorient /\ OneGlyphPerOrbit
=============================================================================
