----------------------------- MODULE MCInterface ------------------------------
(***************************************************************************)
(* The files, the opcodes and the interface, each for itself: a behaviour  *)
(* is that of one of them, and the variables of the others stay as they    *)
(* are.                                                                    *)
(***************************************************************************)
EXTENDS Integers, Sequences, TLC

CONSTANTS Unused                                               (* model value *)

VARIABLES
  which,                                                      (* component   *)
  saverPc, good, written, durable, temps, names, past, holder, next_id, listed, erased,
  earlier, crashes,                                           (* "saves"     *)
  heap, maps, time, ready, waiting_on_time, stream, loaded,   (* "format"    *)
  stack, taken, executed,                                     (* "opcodes"   *)
  entity, value, occupant, moved,                             (* "reorient"  *)
  settings, defaults, backups, keymap, program, chosen, owed, events,
                                                              (* "settings"  *)
  ui, rebinds,                                                (* "overlays"  *)
  scene, next, frame, player, click, keys, pending, applied, inputs, keyed, replaced, builder,
  in_flight, finished, front, saving, notes, shown, saved,    (* "session"   *)
  objects, held,                                              (* "terms"     *)
  document, start, length,                                    (* "json"      *)
  printed, pieces,                                            (* "combos"    *)
  chars, points, raw, text,                                   (* "text"      *)
  mesh, surface, file, said                                   (* "mesh"      *)

(* Three saves that overlap or follow each other, and one crash.           *)
Files == INSTANCE Saves WITH
  Saver <- {"s1", "s2", "s3"}, Nobody <- Unused, CHUNKS <- 2, CRASHES <- 1, pc <- saverPc

Format == INSTANCE SaveFormat WITH Entity <- {"e1", "e2"}, None <- Unused, OBJECTS <- 3, TIMES <- 2

(* Numbers of four bits in words of six, for 60 in 64.                     *)
Codes == INSTANCE Opcodes WITH
  Nothing <- Unused, INLINE <- 4, WORD <- 6, TAKEN <- 2,
  Bottom <- {<< >>, <<[kind |-> "matter", n |-> 0]>>, <<[kind |-> "int", n |-> 1]>>}

(* What is latched and on the stack, and what is beside the machine and    *)
(* across from it.                                                         *)
Reorient == INSTANCE Reorientation WITH
  Latched <- {<<"NOOP", "EMPTY">>, <<"NOOP", "1">>, <<"STORE", "MATTER">>},
  Around <- {<<"EMPTY", "EMPTY", FALSE>>, <<"EMPTY", "EMPTY", TRUE>>, <<"VALVE_NORTH_SOUTH", "EMPTY", FALSE>>,
             <<"DO_NOT_QUEUE", "VALVE_NORTH_SOUTH", FALSE>>}

(* Two actions, each with a key.  By hand, the file is ruined, or one key  *)
(* is taken from an action that is not mentioned, or claimed twice.        *)
Config == INSTANCE Settings WITH
  Declared <- <<"rotate", "toggle-map">>,
  DefaultCombo <- [a \in {"rotate", "toggle-map"} |-> IF a = "rotate" THEN "R" ELSE "Tab"],
  Combo <- {"R", "Tab"}, EVENTS <- 2, at <- program,
  Edited <- LET Rows(rows) == [is |-> "rows", rows |-> rows] IN
    {[is |-> "garbage", rows |-> << >>],
     Rows([a \in {"toggle-map"} |-> {"R"}]),
     Rows([a \in {"rotate", "toggle-map"} |-> IF a = "rotate" THEN {"Tab", "Escape"} ELSE {"Tab"}])}

(* Three actions, two saved games or one rebinding, one button down.       *)
Interface == INSTANCE Overlays WITH
  Declared <- <<"rotate", "toggle-map", "toggle-console">>,
  DefaultCombo <- [a \in {"rotate", "toggle-map", "toggle-console"} |->
                     CASE a = "rotate" -> "R" [] a = "toggle-map" -> "Tab" [] OTHER -> "Grave"],
  Key <- {"R", "Grave", "F", "Tab", "Escape", "Enter", "Up", "Down", "Unknown"},
  Repeating <- {"rotate"}, HexDigit <- {"F"}, Row <- <<"row1", "row2">>, PRESSES <- 1,
  Place <- {{"palette"}, {"LOAD", "row1", "rotate", "palette"}, {"SETTINGS", "KEYS", "Load", "clear"},
            {"NEW", "Delete", "toggle-map"}, {"CONTINUE", "Cancel", "BACK", "DONE"}, {"row2", "RESET"}, {"SAVE"}}

Play == INSTANCE Session WITH INPUTS <- 3, BUILDS <- 3, SAVES <- 2, at <- frame

(* Payloads of five bits in words of eight: integers at the edges of both  *)
(* are made by hand or by arithmetic, and strings longer than one byte are *)
(* on the heap.                                                            *)
Tagged == INSTANCE Terms WITH
  TAG <- 3, META <- 3, CODE <- 2, SHORT <- 3, LETTERS <- 2, HELD <- 3, heap <- objects,
  Value <- [is : {"integer"}, of : {-17, -16, -1, 0, 1, 3, 15, 16}]
    \cup [is : {"string"}, of : {<< >>, <<1>>, <<1, 2>>, <<1, 2, 1>>, <<1, 2, 2>>, <<1, 2, 1, 1>>}]
    \cup [is : {"boolean", "opcode", "entity"}, of : {0, 1}] \cup [is : {"sentinel", "matter", "null"}, of : {0}]
    \cup [is : {"character"}, of : {1}]

(* Documents of four tokens, or three more after a beginning; and strings. *)
Reading == INSTANCE Json WITH
  text <- document, typed <- length,
  Start <-
    LET Structure == {"{", "}", "[", "]", ",", ":", "\"", "x", "7", "-", "true", " "}
        Within == {"\"", "\\", "x", "n", "u", "code", "0001", "high", "low", "newline", "control", "delete"} IN
    [text : {<< >>}, tokens : {Structure}, length : {4}]
      \cup [text : {<<"{", "\"", "x", "\"", ":">>, <<"{", "\"", "x", "\"", ":", "7", ",">>,
                    <<"{", "\"", "x", "\"", ":", "7", ",", "\"", "x", "\"">>, <<"[", "[", "7", ",">>,
                    <<"[", "[", "\"", "x", "\"", ",">>, <<"[", "\"", "x", "\"">>},
            tokens : {Structure}, length : {3}]
      \cup [text : {<<"\"">>, <<"\"", "\\", "u", "high", "\\">>}, tokens : {Within}, length : {3}]

(* Every combination, and three pieces typed, or one more after a beginning. *)
Names == INSTANCE Combos WITH
  typed <- pieces, PIECES <- 3, Printable <- {"a", "f", "s", "z", "0", "9", "+", "-"},
  Piece <- {"Ctrl", "control", "Opt", "OPTION", "Shift", "Cmd", "+", "a", "Q", "5", "F1", "f12", "F13", "F00",
            "enter", "Space", " ", "Escape"},
  Start <- {<< >>, <<"Shift", "+", "control", "+">>, <<"Ctrl", "+", "opt", "+", "Cmd", "+">>}

(* Code points and bytes at the edges of every width, and four characters. *)
Text == INSTANCE Text WITH
  Scalar <- {65, 127, 128, 2047, 2048, 55295, 57344, 65535, 65536, 1114111}, LENGTH <- 2, BYTES <- 4,
  Lead <- {65, 128, 193, 194, 223, 224, 237, 239, 240, 244, 245},
  Byte <- {65, 128, 143, 144, 159, 160, 191, 194},
  CHARACTERS <- 4, Character <- {"7", "0", "-", ".", "e", "a", "\"", "\\", "/", "\r", "\n"}
(* Shapes of three and four sides, and files of four lines.                *)
Model == INSTANCE Mesh WITH
  Sides <- {3, 4}, LAYERS <- 2, Face <- {<<1, 2, 3>>, <<2, 4, 3>>},
  Name <- [n \in {"", "a", "b"} |-> CASE n = "" -> 0 [] n = "a" -> 1 [] n = "b" -> 2], STATEMENTS <- 4
-----------------------------------------------------------------------------
savesVars == <<saverPc, good, written, durable, temps, names, past, holder, next_id, listed, erased,
               earlier, crashes>>
formatVars == <<heap, maps, time, ready, waiting_on_time, stream, loaded>>
opcodeVars == <<stack, taken, executed>>
reorientVars == <<entity, value, occupant, moved>>
settingsVars == <<settings, defaults, backups, keymap, program, chosen, owed, events>>
overlayVars == <<ui, rebinds>>
sessionVars == <<scene, next, frame, player, click, keys, pending, applied, inputs, keyed, replaced,
                 builder, in_flight, finished, front, saving, notes, shown, saved>>
termVars == <<objects, held>>
stringVars == <<chars, points, raw, text>>
meshVars == <<mesh, surface, file, said>>
textVars == <<document, start, length, printed, pieces, stringVars, meshVars>>
vars == <<which, savesVars, formatVars, opcodeVars, reorientVars, settingsVars, overlayVars, sessionVars,
          termVars, textVars>>

(* What is not under examination has no state.                             *)
Init ==
  /\ which \in {"saves", "format", "opcodes", "reorient", "settings", "overlays", "session", "terms",
                "json", "combos", "text", "mesh"}
  /\ IF which = "saves" THEN Files!Init ELSE
       /\ saverPc = Unused /\ good = Unused /\ written = Unused /\ durable = Unused
       /\ temps = Unused /\ names = Unused /\ past = Unused /\ holder = Unused
       /\ next_id = Unused /\ listed = Unused /\ erased = Unused /\ earlier = Unused
       /\ crashes = Unused
  /\ IF which = "format" THEN Format!Init ELSE
       /\ heap = Unused /\ maps = Unused /\ time = Unused /\ ready = Unused
       /\ waiting_on_time = Unused /\ stream = Unused /\ loaded = Unused
  /\ IF which = "opcodes" THEN Codes!Init ELSE
       /\ stack = Unused /\ taken = Unused /\ executed = Unused
  /\ IF which = "reorient" THEN Reorient!Init ELSE
       /\ entity = Unused /\ value = Unused /\ occupant = Unused /\ moved = Unused
  /\ IF which = "settings" THEN Config!Init ELSE
       /\ settings = Unused /\ defaults = Unused /\ backups = Unused /\ keymap = Unused
       /\ program = Unused /\ chosen = Unused /\ owed = Unused /\ events = Unused
  /\ IF which = "overlays" THEN Interface!Init ELSE
       /\ ui = Unused /\ rebinds = Unused
  /\ IF which = "session" THEN Play!Init ELSE
       /\ scene = Unused /\ next = Unused /\ frame = Unused /\ player = Unused
       /\ click = Unused /\ keys = Unused /\ pending = Unused /\ applied = Unused
       /\ inputs = Unused /\ keyed = Unused /\ replaced = Unused
       /\ builder = Unused /\ in_flight = Unused /\ finished = Unused /\ front = Unused
       /\ saving = Unused /\ notes = Unused /\ shown = Unused /\ saved = Unused
  /\ IF which = "terms" THEN Tagged!Init ELSE objects = Unused /\ held = Unused
  /\ IF which = "json" THEN Reading!Init ELSE document = Unused /\ start = Unused /\ length = Unused
  /\ IF which = "combos" THEN Names!Init ELSE printed = Unused /\ pieces = Unused
  /\ IF which = "text" THEN Text!Init ELSE chars = Unused /\ points = Unused /\ raw = Unused /\ text = Unused
  /\ IF which = "mesh" THEN Model!Init ELSE mesh = Unused /\ surface = Unused /\ file = Unused /\ said = Unused

Next ==
  \/ /\ which = "saves" /\ Files!Next
     /\ UNCHANGED <<which, formatVars, opcodeVars, reorientVars, settingsVars, overlayVars, sessionVars, termVars,
                    textVars>>
  \/ /\ which = "format" /\ Format!Next
     /\ UNCHANGED <<which, savesVars, opcodeVars, reorientVars, settingsVars, overlayVars, sessionVars, termVars,
                    textVars>>
  \/ /\ which = "opcodes" /\ Codes!Next
     /\ UNCHANGED <<which, savesVars, formatVars, reorientVars, settingsVars, overlayVars, sessionVars, termVars,
                    textVars>>
  \/ /\ which = "reorient" /\ Reorient!Next
     /\ UNCHANGED <<which, savesVars, formatVars, opcodeVars, settingsVars, overlayVars, sessionVars, termVars,
                    textVars>>
  \/ /\ which = "settings" /\ Config!Next
     /\ UNCHANGED <<which, savesVars, formatVars, opcodeVars, reorientVars, overlayVars, sessionVars, termVars,
                    textVars>>
  \/ /\ which = "overlays" /\ Interface!Next
     /\ UNCHANGED <<which, savesVars, formatVars, opcodeVars, reorientVars, settingsVars, sessionVars, termVars,
                    textVars>>
  \/ /\ which = "session" /\ Play!Next
     /\ UNCHANGED <<which, savesVars, formatVars, opcodeVars, reorientVars, settingsVars, overlayVars, termVars,
                    textVars>>
  \/ /\ which = "terms" /\ Tagged!Next
     /\ UNCHANGED <<which, savesVars, formatVars, opcodeVars, reorientVars, settingsVars, overlayVars,
                    sessionVars, textVars>>
  \/ /\ \/ which = "json" /\ Reading!Next /\ UNCHANGED <<printed, pieces, stringVars, meshVars>>
        \/ which = "combos" /\ Names!Next /\ UNCHANGED <<document, start, length, stringVars, meshVars>>
        \/ which = "text" /\ Text!Next /\ UNCHANGED <<document, start, length, printed, pieces, meshVars>>
        \/ which = "mesh" /\ Model!Next /\ UNCHANGED <<document, start, length, printed, pieces, stringVars>>
     /\ UNCHANGED <<which, savesVars, formatVars, opcodeVars, reorientVars, settingsVars, overlayVars,
                    sessionVars, termVars>>

Spec == Init /\ [][Next]_vars
-----------------------------------------------------------------------------
(* A save is whole, under one number, and stays there: Saves.  Settings    *)
(* survive what happens to their file: Settings; and what a file says is   *)
(* what is read, a document, the name of a key, anything matched, and the  *)
(* characters themselves: Json, Combos, Text.                              *)
FilesSound ==
  /\ which = "saves" => Files!SavesSound
  /\ which = "settings" => Config!SettingsSound
  /\ which = "json" => Reading!JsonSound
  /\ which = "combos" => Names!CombosSound
  /\ which = "text" => Text!TextSound

(* What is loaded is what was saved: SaveFormat.                           *)
WorldSurvives == which = "format" => Format!WorldSurvives

(* The opcodes keep the stack, and agree with each other: Opcodes.  A      *)
(* block of them can be turned and mirrored: Reorientation.  Terms are     *)
(* equal when they stand for the same: Terms.                              *)
OpcodesAgree ==
  /\ which = "opcodes" => Codes!OpcodesAgree
  /\ which = "reorient" => Reorient!ReorientationSound
  /\ which = "terms" => Tagged!TermsSound

(* Events find their handler and nothing else: Overlays.  Commands, maps   *)
(* and saves arrive once and in order: Session.  A surface is drawn as it  *)
(* was made or read: Mesh.                                                 *)
InterfaceSound ==
  /\ which = "overlays" => Interface!OverlaysSound
  /\ which = "session" => Play!SessionSound
  /\ which = "mesh" => Model!MeshSound
=============================================================================
