-------------------------------- MODULE Session --------------------------------
(***************************************************************************)
(* A session of the game: the main thread's frames (render/WryDelegate.mm, *)
(* the scenes, game/world_state.cpp), the map builds and the saves that    *)
(* they leave to the pool (game/world_map.cpp, io/save.cpp), and the       *)
(* shutdown that waits for these (core/main.mm).                           *)
(*                                                                         *)
(* World is what the displayed world is to this: whether it has a player.  *)
(* Inputs to the world are numbered, map builds and saves are counted.  A  *)
(* frame's input is any number of events.  What a frame draws is left out. *)
(***************************************************************************)
EXTENDS Integers, SequencesExt

CONSTANTS INPUTS, BUILDS, SAVES     (* bounds *)

VARIABLES scene, next,              (* the scene, and the one it asks for    *)
          at,                       (* how far the frame is                  *)
          player,                   (* _local_player is not null             *)
          click, keys,              (* _outstanding_click, 0 for none, and   *)
                                    (* _outstanding_keysdown                 *)
          pending,                  (* the LocalServer's commands            *)
          applied, inputs,          (* ghosts: commands applied, inputs made *)
          keyed, replaced,          (* ghosts: those that are keys, and the  *)
                                    (* clicks that a later one overwrote     *)
          builder,                  (* where each map build is               *)
          in_flight, finished,      (* WorldMapHandoff                       *)
          front,                    (* the map shown, 0 for none             *)
          saving, notes, shown,     (* running saves, notifications, the log *)
          saved                     (* ghost: saves asked for                *)
made == <<inputs, keyed, replaced>>
game == <<player, click, keys, pending, applied, made>>
map == <<builder, in_flight, finished, front>>
files == <<saving, notes, shown, saved>>
vars == <<scene, next, at, game, map, files>>

Init ==
  /\ scene = "splash" /\ next = "none" /\ at = "begin"
  /\ player = FALSE /\ click = 0 /\ keys = << >> /\ pending = << >> /\ applied = << >>
  /\ inputs = 0 /\ keyed = {} /\ replaced = {}
  /\ builder = << >> /\ in_flight = FALSE /\ finished = 0 /\ front = 0
  /\ saving = 0 /\ notes = 0 /\ shown = 0 /\ saved = 0
-----------------------------------------------------------------------------
(* render begins: what background work posted goes to the log.             *)
Begin ==
  /\ at = "begin" /\ at' = "events"
  /\ shown' = shown + notes /\ notes' = 0
  /\ UNCHANGED <<scene, next, game, map, saving, saved>>

(* The menu's buttons.  A saved game that is gone or of another version    *)
(* loads as a world without entities.  A later button of the same frame    *)
(* replaces what an earlier one asked for.                                 *)
MenuEvent ==
  /\ at = "events" /\ scene = "menu" /\ next' = "world"
  /\ \E loads \in {"new", "load", "rejected"} : player' = (loads # "rejected")
  /\ UNCHANGED <<scene, at, click, keys, pending, applied, made, map, files>>

(* A click on the ground is a flag: a second one in a frame overwrites it. *)
ClickEvent ==
  /\ at = "events" /\ scene = "world" /\ inputs < INPUTS
  /\ inputs' = inputs + 1 /\ click' = inputs + 1
  /\ replaced' = replaced \cup ({click} \ {0})
  /\ UNCHANGED <<scene, next, at, player, keys, pending, applied, keyed, map, files>>

(* A hex digit, to be written under the cursor: they queue up. *)
KeyEvent ==
  /\ at = "events" /\ scene = "world" /\ inputs < INPUTS
  /\ inputs' = inputs + 1 /\ keys' = Append(keys, inputs + 1)
  /\ keyed' = keyed \cup {inputs + 1}
  /\ UNCHANGED <<scene, next, at, player, click, pending, applied, replaced, map, files>>

(* install_displayed_world: NEW and LOAD of the game's own menu.           *)
ReplaceWorld ==
  /\ at = "events" /\ scene = "world"
  /\ \E loads \in {"new", "load", "rejected"} : player' = (loads # "rejected")
  /\ UNCHANGED <<scene, next, at, click, keys, pending, applied, made, map, files>>

(* save_current: the snapshot goes to a background save.                   *)
SaveEvent ==
  /\ at = "events" /\ scene = "world" /\ saved < SAVES
  /\ saved' = saved + 1 /\ saving' = saving + 1
  /\ UNCHANGED <<scene, next, at, game, map, notes, shown>>

(* The button or the window's close box ends the loop.                     *)
Quit ==
  /\ at \in {"begin", "events"} /\ scene \in {"menu", "world"}
  /\ at' = "drain"
  /\ UNCHANGED <<scene, next, game, map, files>>

EventsEnd ==
  /\ at = "events" /\ at' = "update"
  /\ UNCHANGED <<scene, next, game, map, files>>
-----------------------------------------------------------------------------
(* submit_local_commands: the click if there is one, then the keys.        *)
LocalCommands == (IF click = 0 THEN << >> ELSE <<click>>) \o keys

(* Commands of the last frame go to the player, the world makes a step, a  *)
(* map build may begin, and this frame's input becomes commands.           *)
(* "undefined": a command, and no player to give it to.                    *)
Update ==
  /\ at = "update" /\ scene = "world"
  /\ IF pending # << >> /\ ~player
       THEN at' = "undefined" /\ UNCHANGED <<game, map>>
       ELSE /\ at' = "encode"
            /\ applied' = applied \o pending
            /\ pending' = LocalCommands /\ click' = 0 /\ keys' = << >>
            /\ \/ /\ ~in_flight /\ Len(builder) < BUILDS
                  /\ in_flight' = TRUE /\ builder' = Append(builder, "walk")
               \/ UNCHANGED <<in_flight, builder>>
            /\ UNCHANGED <<player, made, finished, front>>
  /\ UNCHANGED <<scene, next, files>>
Idle ==
  /\ at = "update" /\ scene # "world" /\ at' = "encode"
  /\ UNCHANGED <<scene, next, game, map, files>>

(* A finished map is adopted, and the scene may hand over.                 *)
Encode ==
  /\ at = "encode" /\ at' = "begin"
  /\ IF scene = "world" /\ finished # 0 THEN front' = finished /\ finished' = 0
     ELSE UNCHANGED <<front, finished>>
  /\ \/ scene = "splash" /\ scene' \in {"splash", "menu"}
     \/ scene # "splash" /\ scene' = IF next = "none" THEN scene ELSE next
  /\ next' = "none"
  /\ UNCHANGED <<game, builder, in_flight, files>>
-----------------------------------------------------------------------------
(* The next build is let in before this one is published.                  *)
WrongFollowing == [walk |-> "clear", clear |-> "publish", publish |-> "done"]

(* world_map_build: walk the snapshot, publish the map, let the next in.   *)
Following == [walk |-> "publish", publish |-> "clear", clear |-> "done"]

Build(b) ==
  /\ builder[b] # "done"
  /\ builder' = [builder EXCEPT ![b] = Following[@]]
  /\ finished' = IF builder[b] = "publish" THEN b ELSE finished
  /\ in_flight' = IF builder[b] = "clear" THEN FALSE ELSE in_flight
  /\ UNCHANGED <<scene, next, at, game, front, files>>

(* background_save_coroutine ends and says how. *)
SaveEnds ==
  /\ saving > 0 /\ saving' = saving - 1 /\ notes' = notes + 1
  /\ UNCHANGED <<scene, next, at, game, map, shown, saved>>

(* Background work is taken for granted. *)
WrongDrained == TRUE

(* wait_group_set_callback: all that was spawned has ended. *)
Drained == saving = 0 /\ \A b \in 1 .. Len(builder) : builder[b] = "done"

Exit ==
  /\ at = "drain" /\ Drained /\ at' = "end"
  /\ UNCHANGED <<scene, next, game, map, files>>

Stopped == at \in {"end", "undefined"} /\ UNCHANGED vars

Next == \/ Begin \/ MenuEvent \/ ClickEvent \/ KeyEvent \/ ReplaceWorld \/ SaveEvent \/ Quit \/ EventsEnd
        \/ Update \/ Idle \/ Encode \/ SaveEnds \/ Exit \/ Stopped
        \/ \E b \in 1 .. Len(builder) : Build(b)
Spec == Init /\ [][Next]_vars
-----------------------------------------------------------------------------
(* The map shown never goes back to an older one: what is finished is      *)
(* newer than what is shown, and what is being built is newer than both.   *)
MapsInOrder ==
  /\ finished # 0 => front < finished
  /\ \A b \in 1 .. Len(builder) : builder[b] \in {"walk", "publish"} => b > front /\ b > finished

(* Every input becomes one command, but for the clicks that a later one of *)
(* their frame has overwritten; keys keep their order, and so do clicks,   *)
(* through frames and changes of world.                                    *)
CommandsInOrder ==
  LET commands == applied \o pending \o LocalCommands IN
  /\ ToSet(commands) = 1 .. inputs \ replaced /\ IsInjective(commands)
  /\ \A i, j \in DOMAIN commands :
       i < j /\ (commands[i] \in keyed <=> commands[j] \in keyed) => commands[i] < commands[j]
  /\ \A n \in replaced : \E m \in ToSet(commands) \ keyed : n < m

(* Every save that was asked for is reported once, and the process does    *)
(* not end under one, nor under a map build.                               *)
WorkIsFinished ==
  /\ shown + notes + saving = saved
  /\ at = "end" =>
       saving = 0 /\ ~in_flight /\ \A b \in 1 .. Len(builder) : builder[b] = "done"

SessionSound == MapsInOrder /\ CommandsInOrder /\ WorkIsFinished
=============================================================================
