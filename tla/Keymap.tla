-------------------------------- MODULE Keymap --------------------------------
(***************************************************************************)
(* The key bindings of render/gui_keymap.cpp: a set of pairs of a key      *)
(* combination and an action.  A combination stands for its serialized     *)
(* name; "Escape" stands for all those that cannot be bound, the reserved  *)
(* key and the names that do not parse.                                    *)
(***************************************************************************)
EXTENDS Sequences, FiniteSetsExt, SequencesExt

CONSTANTS Declared,       (* the actions, in the order of WRY_ACTION_LIST    *)
          DefaultCombo    (* each action's combination, "Escape" for none    *)

Action == Range(Declared)

ActionFromCombo(map, c) ==
  IF \E b \in map : b.combo = c THEN (CHOOSE b \in map : b.combo = c).action ELSE "none"
CombosFromAction(map, a) == {b.combo : b \in {x \in map : x.action = a}}

ComboIsBindable(c) == c # "Escape"

Unbind(map, c) == {b \in map : b.combo # c}
ClearAction(map, a) == {b \in map : b.action # a}

(* Operators whose name begins with Wrong are mistakes the code could have *)
(* made, each before the definition it stands for.                         *)
WrongBind(map, c, a) == IF ComboIsBindable(c) THEN map \cup {[combo |-> c, action |-> a]} ELSE map

(* A combination is taken from whichever action had it. *)
Bind(map, c, a) ==
  IF ComboIsBindable(c) THEN Unbind(map, c) \cup {[combo |-> c, action |-> a]} ELSE map

DefaultKeymap == FoldLeft(LAMBDA map, a : Bind(map, DefaultCombo[a], a), {}, Declared)
=============================================================================
