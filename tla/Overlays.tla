------------------------------- MODULE Overlays -------------------------------
(***************************************************************************)
(* How an event finds its handler (render/gui.mm, game/world_state.cpp):   *)
(* through the app's overlays, the game's overlays, and what is left to    *)
(* the world.  Painting, hovering, scrolling inside a list and the log,    *)
(* which takes no events, are left out.                                    *)
(*                                                                         *)
(* ui is all of the interface's state.  app holds what lies over the       *)
(* console, scene what lies over the palette; a place on the screen is the *)
(* set of the buttons there, whichever overlay they belong to, with        *)
(* "palette" when a cell of the palette is there.  Offer and the handlers  *)
(* return the new state with did, the effects on the game, and took,       *)
(* whether the event was consumed.                                         *)
(***************************************************************************)
EXTENDS Keymap, Integers, TLC

CONSTANTS Key,            (* the combinations pressed                        *)
          Repeating,      (* the actions that fire on key repeat             *)
          HexDigit,       (* the combinations that are plain hex digits      *)
          Place,          (* the places that are clicked                     *)
          Row,            (* bound: the rows a list of games can have        *)
          PRESSES         (* bound: buttons that are down at once            *)

VARIABLES ui, rebinds     (* rebinds: how many more changes of the keymap    *)
vars == <<ui, rebinds>>

SAVES == Len(Row)

Top(stack) == stack[Len(stack)]
Took(u) == [ui |-> u, did |-> {}, took |-> TRUE]
Passed(u) == [ui |-> u, did |-> {}, took |-> FALSE]
Close(u, o) == [u EXCEPT !.closing = @ \cup {o}]

(* The buttons of each overlay, in the order they are asked; those of      *)
(* Scrolled lie in a scroll view.  Those of the bindings are the actions,  *)
(* and "clear" for the first.                                              *)
Buttons == [menu |-> <<"CONTINUE", "LOAD", "NEW", "SAVE", "SETTINGS">>,
            saves |-> Row \o <<"Load", "Delete", "Cancel">>,
            settings |-> <<"KEYS", "RESET", "BACK">>,
            bindings |-> Declared \o <<"clear", "DONE">>]
Scrolled == Action \cup {"clear"} \cup Range(Row)
-----------------------------------------------------------------------------
(* SaveListOverlay *)

(* The selection is left where it was. *)
WrongRebuildRows(u) ==
  [u EXCEPT !.list = Reverse(SetToSortSeq(u.disk, <)), !.pressed = @ \ Range(Row)]

(* One new button per file, the newest first. *)
RebuildRows(u) ==
  [u EXCEPT !.list = Reverse(SetToSortSeq(u.disk, <)),
            !.selected = Max({1, Min({@, Cardinality(u.disk)})}),
            !.pressed = @ \ Range(Row)]

LoadSelected(u) ==
  IF u.selected > Len(u.list) THEN Took(u)
  ELSE [ui |-> Close(u, "saves"), did |-> {"load"}, took |-> TRUE]
DeleteSelected(u) ==
  IF u.selected > Len(u.list) THEN u
  ELSE RebuildRows([u EXCEPT !.disk = @ \ {u.list[u.selected]}])
MoveSelection(u, by) ==
  IF u.list = << >> THEN u ELSE [u EXCEPT !.selected = Max({1, Min({@ + by, Len(u.list)})})]

Refresh(u) == [u EXCEPT !.capturing = "none", !.rows = IF @ = "none" THEN @ ELSE "stale"]

Click(u, b) ==
  CASE b = "CONTINUE" -> Took(Close(u, "menu"))
    [] b = "LOAD" -> Took([RebuildRows(u) EXCEPT !.scene = Append(@, "saves")])
    [] b = "NEW" -> [ui |-> Close(u, "menu"), did |-> {"new"}, took |-> TRUE]
    [] b = "SAVE" -> [ui |-> u, did |-> {"save"}, took |-> TRUE]
    [] b = "SETTINGS" -> Took(IF Contains(u.app, "settings") THEN u
                              ELSE [u EXCEPT !.app = Append(@, "settings")])
    [] b = "Load" -> LoadSelected(u)
    [] b = "Delete" -> Took(DeleteSelected(u))
    [] b = "Cancel" -> Took(Close(u, "saves"))
    [] b = "KEYS" -> Took(IF Contains(u.app, "bindings") THEN Refresh(u)
                          ELSE [Refresh(u) EXCEPT !.app = Append(@, "bindings")])
    [] b = "RESET" -> Took([u EXCEPT !.keymap = DefaultKeymap])
    [] b = "BACK" -> Took(Close(u, "settings"))
    [] b = "DONE" -> Took(Close(u, "bindings"))
    [] b = "clear" -> Took([u EXCEPT !.keymap = ClearAction(@, Declared[1]), !.rows = "stale"])
    [] b \in Action -> Took([u EXCEPT !.capturing = b, !.rows = "stale"])
    [] OTHER -> Took([u EXCEPT !.selected = CHOOSE i \in 1 .. SAVES : Row[i] = b])

(* Button, Column, Row and ScrollView: the first button that takes the     *)
(* event ends the search.  A button that sees the release somewhere else   *)
(* is let go of, but one that does not see it stays down.                  *)
Widgets(o, u, e) ==
  LET sees == {b \in Range(Buttons[o]) :
                 /\ b \in Scrolled => e.at \cap Scrolled \cap Range(Buttons[o]) # {}
                 /\ b \in Range(Row) => b \in {Row[i] : i \in 1 .. Len(u.list)}}
      asked == SelectSeq(Buttons[o], LAMBDA b : b \in sees)
      fires == {i \in 1 .. Len(asked) : asked[i] \in e.at /\ (e.kind = "up" => asked[i] \in u.pressed)}
      first == Min(fires)
      released == {asked[i] : i \in 1 .. (IF fires = {} THEN Len(asked) ELSE first)} IN
  CASE e.kind = "down" /\ fires # {} -> Took([u EXCEPT !.pressed = @ \cup {asked[first]}])
    [] e.kind = "up" /\ fires # {} -> Click([u EXCEPT !.pressed = @ \ released], asked[first])
    [] e.kind = "up" /\ fires = {} -> Passed([u EXCEPT !.pressed = @ \ released])
    [] OTHER -> Passed(u)

(* KeyBindingsOverlay while it waits for a key. *)

(* A held key counts. *)
WrongCapture(u, e) ==
  LET done == [u EXCEPT !.capturing = "none", !.rows = "stale"] IN
  CASE e.kind = "key" /\ e.combo = "Escape" -> done
    [] e.kind = "key" /\ e.combo \notin {"Escape", "Unknown"} ->
         [done EXCEPT !.keymap = IF ActionFromCombo(@, e.combo) = u.capturing THEN @
                                 ELSE Bind(@, e.combo, u.capturing)]
    [] e.kind = "down" -> done
    [] OTHER -> u

Capture(u, e) ==
  LET done == [u EXCEPT !.capturing = "none", !.rows = "stale"] IN
  CASE e.kind = "key" /\ e.combo = "Escape" -> done
    [] e.kind = "key" /\ ~e.repeat /\ e.combo \notin {"Escape", "Unknown"} ->
         [done EXCEPT !.keymap = IF ActionFromCombo(@, e.combo) = u.capturing THEN @
                                 ELSE Bind(@, e.combo, u.capturing)]
    [] e.kind = "down" -> done
    [] OTHER -> u

(* ConsoleOverlay: the toggle is not a repeated key, but a repeated key is *)
(* still typed.                                                            *)
Console(u, e) ==
  LET toggles == ~e.repeat /\ ActionFromCombo(u.keymap, e.combo) = "toggle-console" IN
  CASE e.kind # "key" -> Passed(u)
    [] toggles -> Took([u EXCEPT !.console = ~@])
    [] ~u.console -> Passed(u)
    [] e.combo = "Escape" -> Took([u EXCEPT !.console = FALSE])
    [] OTHER -> [ui |-> u, did |-> {"type"}, took |-> TRUE]

(* on_event of overlay o. *)
OnEvent(o, u, e) ==
  LET key == IF e.kind = "key" THEN e.combo ELSE "none" IN
  CASE o = "console" -> Console(u, e)
    [] o = "palette" -> IF e.kind = "up" /\ "palette" \in e.at
                          THEN [ui |-> u, did |-> {"select"}, took |-> TRUE] ELSE Passed(u)
    [] o = "bindings" /\ u.capturing # "none" -> Took(Capture(u, e))
    [] o \in {"menu", "saves", "settings", "bindings"} /\ key = "Escape" -> Took(Close(u, o))
    [] o = "saves" /\ key = "Enter" -> LoadSelected(u)
    [] o = "saves" /\ key = "Up" -> Took(MoveSelection(u, -1))
    [] o = "saves" /\ key = "Down" -> Took(MoveSelection(u, 1))
    [] o = "bindings" /\ u.rows = "none" -> Passed(u)
    [] e.kind \in {"down", "up"} -> Widgets(o, u, e)
    [] OTHER -> Passed(u)

(* The menu lets keys through. *)
WrongModal(o, u, e) ==
  CASE o = "palette" -> FALSE
    [] o = "console" -> u.console /\ e.kind = "key"
    [] o = "menu" -> e.kind # "key"
    [] OTHER -> TRUE

(* modal_mouse and modal_keyboard. *)
Modal(o, u, e) ==
  CASE o = "palette" -> FALSE
    [] o = "console" -> u.console /\ e.kind = "key"
    [] OTHER -> TRUE

(* The overlays that asked to be closed, from the top down to the first    *)
(* that did not.                                                           *)
Closed(u, stack) == {stack[i] : i \in {j \in 1 .. Len(stack) : \A k \in j .. Len(stack) : stack[k] \in u.closing}}

(* OverlayStack::dispatch.  strayed: an overlay changed the stack, and the *)
(* iteration over it went on.                                              *)
Answered(r, x, o, tier, e) ==
  LET modal == Modal(o, x.ui, e) IN
  [x EXCEPT !.took = @ \/ modal]
    @@ [strayed |-> r.strayed \/ (x.ui[tier] # r.ui[tier] /\ ~x.took /\ ~modal)]
Swept(r, tier) ==
  LET gone == Closed(r.ui, r.ui[tier]) IN
  [r EXCEPT !.ui[tier] = SelectSeq(@, LAMBDA o : o \notin gone), !.ui.closing = @ \ gone]
Dispatch(u, tier, base, e) ==
  Swept(FoldLeft(LAMBDA r, o : IF r.took THEN r ELSE Answered(r, OnEvent(o, r.ui, e), o, tier, e),
                 Passed(u) @@ [strayed |-> FALSE], Reverse(<<base>> \o u[tier])),
        tier)

(* pump_legacy_event and perform_action. *)
PumpLegacyEvent(u, e) ==
  LET action == IF e.kind = "key" THEN ActionFromCombo(u.keymap, e.combo) ELSE "none"
      fires == action # "none" /\ (e.repeat => action \in Repeating)
      doing(effects) == [ui |-> u, did |-> effects, took |-> TRUE] IN
  CASE e.kind = "up" -> doing(IF u.show_map THEN {} ELSE {"click"})
    [] e.kind = "scroll" -> doing({"pan"})
    [] e.kind = "key" /\ e.combo = "Escape" -> Took([u EXCEPT !.scene = Append(@, "menu")])
    [] fires /\ action = "toggle-map" -> Took([u EXCEPT !.show_map = ~@])
    [] fires /\ action # "toggle-map" -> doing({action} \ {"toggle-console"})
    [] action = "none" /\ e.kind = "key" /\ e.combo \in HexDigit /\ ~u.show_map -> doing({"digit"})
    [] OTHER -> Took(u)

(* handle_events.  While the map is shown the palette alone is passed by.  *)
Strayed(s, before) == [s EXCEPT !.strayed = @ \/ before]
AfterScene(s, e) == IF s.took THEN s ELSE PumpLegacyEvent(s.ui, e) @@ [strayed |-> s.strayed]
AfterApp(a, e) ==
  IF a.took THEN a
  ELSE AfterScene(IF a.ui.show_map /\ a.ui.scene = << >> THEN a
                  ELSE Strayed(Dispatch(a.ui, "scene", "palette", e), a.strayed), e)
Handle(u, e) == AfterApp(Dispatch(u, "app", "console", e), e)
-----------------------------------------------------------------------------
Event == {[kind |-> "key", combo |-> c, repeat |-> r, at |-> {}] : c \in Key, r \in BOOLEAN}
           \cup {[kind |-> k, combo |-> "none", repeat |-> FALSE, at |-> p] : k \in {"down", "up"}, p \in Place}
           \cup {[kind |-> "scroll", combo |-> "none", repeat |-> FALSE, at |-> {}]}

(* Either some games are saved already, or the keymap will be changed.     *)
Init ==
  \E some \in BOOLEAN :
    /\ ui = [app |-> << >>, scene |-> << >>, closing |-> {}, console |-> FALSE, capturing |-> "none",
             rows |-> "none", show_map |-> FALSE, keymap |-> DefaultKeymap, pressed |-> {},
             disk |-> IF some THEN 1 .. SAVES ELSE {}, list |-> << >>, selected |-> 1]
    /\ rebinds = IF some THEN 0 ELSE 1

Input ==
  \E e \in Event :
    /\ ui' = Handle(ui, e).ui /\ Cardinality(ui'.pressed) <= PRESSES
    /\ rebinds' = rebinds - (IF ui'.keymap = ui.keymap THEN 0 ELSE 1) /\ rebinds' >= 0

(* A background save finishes, under a number that is one more than all.   *)
SaveFinishes ==
  \E id \in 1 .. SAVES :
    /\ ui.disk # {} /\ id = Max(ui.disk) + 1
    /\ ui' = [ui EXCEPT !.disk = @ \cup {id}]
    /\ UNCHANGED rebinds

(* The deferred rebuild of the rows makes new buttons. *)
Paint ==
  /\ Contains(ui.app, "bindings") /\ ui.rows # "fresh"
  /\ ui' = [ui EXCEPT !.rows = "fresh", !.pressed = @ \ Range(Buttons["bindings"])]
  /\ UNCHANGED rebinds

Next == Input \/ SaveFinishes \/ Paint
Spec == Init /\ [][Next]_vars
-----------------------------------------------------------------------------
(* The stacks hold what they should, once, and no request to close is      *)
(* left to close an overlay that will be opened later.                     *)
StacksOrdered ==
  /\ ui.app \in {<< >>, <<"settings">>, <<"settings", "bindings">>}
  /\ ui.scene \in {<< >>, <<"menu">>, <<"menu", "saves">>}
  /\ ui.closing = {}
  /\ ui.capturing # "none" => Contains(ui.app, "bindings")

(* While an overlay is open the game gets no event; while the console is   *)
(* open it gets no key; while the map is shown nothing is edited.  An      *)
(* overlay that opens another one consumes the event, because the stack it *)
(* pushes to is the one being walked.                                      *)
World == {"click", "digit", "select", "rotate", "pan"}
Shielded ==
  \A e \in Event :
    LET r == Handle(ui, e) IN
    /\ ui.app # << >> \/ ui.scene # << >> \/ (ui.console /\ e.kind = "key") =>
         r.did \cap World = {} /\ r.ui.show_map = ui.show_map
    /\ ui.show_map => r.did \cap {"click", "digit", "select"} = {}
    /\ ~r.strayed

(* A bindable key that is pressed, not held, is bound, by stealing, to the *)
(* action that waits for it; nothing else happens on any other event.      *)
CaptureBinds ==
  ui.capturing # "none" =>
    \A e \in Event :
      LET r == Handle(ui, e)
          bound == {[combo |-> e.combo, action |-> ui.capturing]} IN
      /\ r.did = {} /\ r.ui.app = ui.app /\ r.ui.scene = ui.scene /\ r.ui.pressed = ui.pressed
      /\ IF e.kind = "key" /\ ~e.repeat /\ e.combo \notin {"Escape", "Unknown"}
           THEN r.ui.capturing = "none" /\ r.ui.keymap = {b \in ui.keymap : b.combo # e.combo} \cup bound
           ELSE r.ui.keymap = ui.keymap

(* Escape closes the topmost thing that is open and nothing else; when     *)
(* nothing is, it opens the menu.                                          *)
Layers(u) == Len(u.app) + Len(u.scene) + (IF u.console THEN 1 ELSE 0)
               + (IF u.capturing = "none" THEN 0 ELSE 1)
EscapeLeadsHome ==
  LET u == Handle(ui, [kind |-> "key", combo |-> "Escape", repeat |-> FALSE, at |-> {}]).ui IN
  IF Layers(ui) = 0 THEN u = [ui EXCEPT !.scene = <<"menu">>]
  ELSE Layers(u) = Layers(ui) - 1 /\ u.show_map = ui.show_map /\ u.keymap = ui.keymap

(* The list offers games that exist, and the selection is one of them,     *)
(* whatever was deleted or saved since.                                    *)
ListIsCurrent ==
  Contains(ui.scene, "saves") =>
    /\ Range(ui.list) \subseteq ui.disk
    /\ ui.list = << >> \/ ui.selected \in 1 .. Len(ui.list)

OverlaysSound == StacksOrdered /\ Shielded /\ CaptureBinds /\ EscapeLeadsHome /\ ListIsCurrent
=============================================================================
