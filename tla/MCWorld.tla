-------------------------------- MODULE MCWorld --------------------------------
(* Small worlds, of the kind the tests of machine.cpp build.  Every track  *)
(* is a loop, by its glyphs or by the edge of the world, and traffic never  *)
(* ends.                                                                    *)
EXTENDS World, TLC

(* A machine at rest. *)
M(at, heading) == [NewMachine(at) EXCEPT !.new_heading = heading]

Fixed(kind, at) == [kind |-> kind, location |-> at]
SpawnerAt(at, ticket) == [kind |-> "Spawner", location |-> at, free_entity_id |-> ticket]
SourceAt(at, of) == [kind |-> "Source", location |-> at, of |-> of]

Terms(t) == [c \in Coordinate |-> IF c \in DOMAIN t THEN t[c] ELSE ABSENT]

(* A loop, two cells by four, driven clockwise: machines load what is at   *)
(* (0,2) and put it down at (1,1).                                         *)
Loop ==
  <<0, 0>> :> "TURN_RIGHT" @@ <<0, 1>> :> "LOAD" @@ <<0, 3>> :> "TURN_RIGHT"
  @@ <<1, 3>> :> "TURN_RIGHT" @@ <<1, 2>> :> "DROP" @@ <<1, 0>> :> "TURN_RIGHT"
OnLoop(y) == M(<<0, y>>, 0)
BackOnLoop(y) == M(<<1, y>>, 2)

LoopWorlds ==
  {[entities |-> 1 :> OnLoop(a) @@ 2 :> BackOnLoop(b) @@ 3 :> BackOnLoop(c),
    terms |-> Terms(Loop @@ <<0, 2>> :> MATTER)] :
     a \in 1 .. 2, b \in 2 .. 3, c \in 0 .. 1}

(* Two lanes that cross at (1,1), northbound and eastbound, with a glyph   *)
(* at the crossing, and on the way to it an exchange of matter.            *)
Crossing(glyph) ==
  Terms((IF glyph = ABSENT THEN << >> ELSE <<1, 1>> :> glyph)
        @@ <<1, 3>> :> "EXCHANGE" @@ <<1, 0>> :> MATTER @@ <<3, 1>> :> "FLIP_FLOP"
        @@ <<3, 2>> :> "TURN_EAST" @@ <<0, 2>> :> "FLOP_FLIP")
Travel(at, heading, eta) ==
  [M(at, heading) EXCEPT !.phase = "TRAVELLING", !.new_location = StepFrom(at, heading), !.eta = eta]
North(y, eta) == Travel(<<1, y>>, 0, eta)
East(x, eta) == Travel(<<x, 1>>, 1, eta)

CrossingWorlds ==
  {[entities |-> 1 :> North(a, i) @@ 2 :> East(b, j) @@ 3 :> M(<<3, 3>>, 3),
    terms |-> Crossing(g)] :
     a \in {2, 3}, b \in {1, 3}, i \in 1 .. 2, j \in 1 .. 2,
     g \in {ABSENT, "DO_NOT_QUEUE", "VALVE_NORTH_SOUTH", "VALVE_EAST_WEST"}}

(* The loop with a source of matter at the pile and a sink where machines  *)
(* put it down, and beside it a counter and an evenator in one cell.       *)
FactoryWorlds ==
  {[entities |-> 1 :> OnLoop(a) @@ 2 :> BackOnLoop(b)
                 @@ 3 :> SourceAt(<<0, 2>>, MATTER) @@ 4 :> Fixed("Sink", <<1, 1>>)
                 @@ 5 :> Fixed("Counter", <<2, 0>>) @@ 6 :> Fixed("Evenator", <<2, 0>>),
    terms |-> Terms(Loop)] : a \in 1 .. 2, b \in 2 .. 3}

(* Two spawners, in one cell or in two, that fill the loop, of which the   *)
(* second may hold a ticket, and a machine that is already on it.          *)
SpawnerWorlds ==
  {[entities |-> 1 :> SpawnerAt(<<0, p>>, 4) @@ 2 :> SpawnerAt(<<0, q>>, t) @@ 3 :> BackOnLoop(0),
    terms |-> Terms(Loop)] :
     p \in 0 .. 3, q \in 0 .. 3, t \in {NoID, 5}}

(* A player who lets a machine on the loop in and out of a halt, and sets  *)
(* a number on the ground.                                                 *)
PlayerWorlds ==
  {[entities |-> 1 :> [kind |-> "Player"] @@ 2 :> OnLoop(1) @@ 3 :> BackOnLoop(2)
                 @@ 4 :> Fixed("Evenator", <<2, 0>>),
    terms |-> Terms(Loop)]}
PlayerInputs == {[coordinate |-> <<1, 1>>, value |-> "HALT"],
                 [coordinate |-> <<1, 1>>, value |-> EMPTY],
                 [coordinate |-> <<2, 0>>, value |-> "1"]}

(* A shuttle that turns back at both ends, and one that crosses its way.   *)
ShuttleWorlds ==
  {[entities |-> 1 :> M(<<3, y>>, 0) @@ 2 :> M(<<x, 2>>, 1),
    terms |-> Terms(<<3, 3>> :> "TURN_BACK" @@ <<3, 1>> :> "TURN_BACK" @@ <<3, 2>> :> g)] :
     y \in 1 .. 3, x \in 0 .. 2, g \in {ABSENT, "VALVE_NORTH_SOUTH", "FLIP_FLOP"}}

AllWorlds == LoopWorlds \cup CrossingWorlds \cup FactoryWorlds \cup SpawnerWorlds
             \cup ShuttleWorlds \cup PlayerWorlds

(* The starting world: the player, a spawner, a source and a sink.         *)
StartingWorlds ==
  {[entities |-> 1 :> [kind |-> "Player"] @@ 2 :> SpawnerAt(<<0, 0>>, 3)
                 @@ 4 :> SourceAt(<<2, 2>>, "1") @@ 5 :> Fixed("Sink", <<2, 0>>),
    terms |-> Terms(<<0, 1>> :> "FLIP_FLOP")]}
StartingInputs == {[coordinate |-> <<2, 0>>, value |-> "1"]}
==============================================================================
