-------------------------------- MODULE Combos --------------------------------
(***************************************************************************)
(* The names of key combinations, as they are written to settings.json and *)
(* typed there by hand (render/gui_keymap.cpp).                            *)
(*                                                                         *)
(* A key is its name, a printable one its character in lower case.         *)
(***************************************************************************)
EXTENDS Integers, Sequences, FiniteSetsExt, SequencesExt

CONSTANTS Printable,             (* characters that have a key, but the space *)
          Piece, Start, PIECES   (* what is typed, after what, how often     *)

VARIABLES printed, typed         (* a combination, or none; the pieces       *)
vars == <<printed, typed>>

Capital == "ABCDEFGHIJKLMNOPQRSTUVWXYZ"
Small == "abcdefghijklmnopqrstuvwxyz"
At(s, i) == SubSeq(s, i, i)
Turned(c, from, to) ==
  IF \E i \in 1 .. 26 : At(from, i) = c THEN At(to, CHOOSE i \in 1 .. 26 : At(from, i) = c) ELSE c
Lower(c) == Turned(c, Capital, Small)
EqualsCI(v, w) == Len(v) = Len(w) /\ \A i \in 1 .. Len(v) : Lower(At(v, i)) = Lower(At(w, i))

Named == {"Backspace", "Tab", "Enter", "Escape", "Delete", "Up", "Down", "Left", "Right", "Home", "End",
          "PageUp", "PageDown"}
Function == <<"F1", "F2", "F3", "F4", "F5", "F6", "F7", "F8", "F9", "F10", "F11", "F12">>
Key == Printable \cup {" "} \cup Named \cup Range(Function)

NameFromKey(k) ==
  CASE k = " " -> "Space"
    [] k = "Unknown" -> ""
    [] k \in Printable -> Turned(k, Small, Capital)
    [] OTHER -> k

Digit == [d \in {"0", "1", "2", "3", "4", "5", "6", "7", "8", "9"} |-> CHOOSE n \in 0 .. 9 : ToString(n) = d]
(* What a sequence of at most two digits says, 0 if it is not one. *)
Number(v) ==
  IF Len(v) \in {1, 2} /\ \A i \in 1 .. Len(v) : At(v, i) \in DOMAIN Digit
  THEN FoldLeft(LAMBDA n, i : n * 10 + Digit[At(v, i)], 0, [i \in 1 .. Len(v) |-> i])
  ELSE 0

(* Operators whose name begins with Wrong are mistakes the code could have *)
(* made, each before the definition it stands for.                         *)
WrongKeyFromName(v) ==                   (* a letter is what it looks like *)
  CASE Len(v) = 1 -> IF v = " " THEN "Unknown" ELSE v
    [] EqualsCI(v, "Space") -> " "
    [] \E k \in Named : EqualsCI(v, k) -> CHOOSE k \in Named : EqualsCI(v, k)
    [] Len(v) > 1 /\ Lower(At(v, 1)) = "f" /\ Number(Tail(v)) \in 1 .. 12 -> Function[Number(Tail(v))]
    [] OTHER -> "Unknown"

(* "Unknown" for what names no key.                                        *)
KeyFromName(v) ==
  CASE Len(v) = 1 -> IF v = " " THEN "Unknown" ELSE Lower(v)
    [] EqualsCI(v, "Space") -> " "
    [] \E k \in Named : EqualsCI(v, k) -> CHOOSE k \in Named : EqualsCI(v, k)
    [] Len(v) > 1 /\ Lower(At(v, 1)) = "f" /\ Number(Tail(v)) \in 1 .. 12 -> Function[Number(Tail(v))]
    [] OTHER -> "Unknown"

(* combo_is_bindable.                                                      *)
ComboIsBindable(c) == c.key \notin {"Unknown", "Escape"}

(* _modifier_names: the first four are those that are written.             *)
ModifierNames ==
  <<<<"Ctrl", "Ctrl">>, <<"Alt", "Alt">>, <<"Shift", "Shift">>, <<"Cmd", "Cmd">>, <<"Control", "Ctrl">>,
    <<"Ctl", "Ctrl">>, <<"Option", "Alt">>, <<"Opt", "Alt">>, <<"Command", "Cmd">>, <<"Super", "Cmd">>,
    <<"Meta", "Cmd">>, <<"Win", "Cmd">>>>

(* _consume_modifier_prefix: the last segment is kept for the key.         *)
Consumes(v, name) ==
  Len(v) > Len(name) + 1 /\ EqualsCI(SubSeq(v, 1, Len(name)), name) /\ At(v, Len(name) + 1) = "+"

StringFromCombo(c) ==
  IF NameFromKey(c.key) = "" THEN ""
  ELSE FoldLeft(LAMBDA s, i : IF ModifierNames[i][2] \in c.mods THEN s \o ModifierNames[i][1] \o "+" ELSE s,
                "", <<1, 2, 3, 4>>) \o NameFromKey(c.key)

RECURSIVE Parse(_, _)
Parse(v, mods) ==
  IF \E i \in DOMAIN ModifierNames : Consumes(v, ModifierNames[i][1])
  THEN LET i == CHOOSE i \in DOMAIN ModifierNames : Consumes(v, ModifierNames[i][1])
       IN Parse(SubSeq(v, Len(ModifierNames[i][1]) + 2, Len(v)), mods \cup {ModifierNames[i][2]})
  ELSE [key |-> KeyFromName(v), mods |-> mods]

None == [key |-> "Unknown", mods |-> {}]
ComboFromString(v) == LET c == Parse(v, {}) IN IF ComboIsBindable(c) THEN c ELSE None

(* A combination is written, or something is typed. *)
Combo == [key : Key, mods : SUBSET {"Ctrl", "Alt", "Shift", "Cmd"}]
Init ==
  \/ printed \in Combo /\ typed = <<StringFromCombo(printed)>>
  \/ printed = None /\ typed \in Start
Next ==
  IF (Len(typed) < PIECES \/ typed \in Start) /\ printed = None THEN \E p \in Piece : typed' = Append(typed, p) /\ UNCHANGED printed
  ELSE UNCHANGED vars
Spec == Init /\ [][Next]_vars
-----------------------------------------------------------------------------
Text == FoldLeft(LAMBDA s, p : s \o p, "", typed)

(* What is written is read as the same combination.                        *)
WrittenIsRead == ComboIsBindable(printed) => ComboFromString(Text) = printed

(* What is typed is read just when it is modifiers, each with a plus, and  *)
(* a key, in whatever case and of whatever name, the key being perhaps a   *)
(* plus itself; and it is read as those modifiers and that key.            *)
ModifierOf(p) == {ModifierNames[i][2] : i \in {i \in DOMAIN ModifierNames : EqualsCI(p, ModifierNames[i][1])}}
Proper ==
  LET n == Len(typed) IN
  /\ n % 2 = 1
  /\ \A i \in 1 .. n - 1 : IF i % 2 = 0 THEN typed[i] = "+" ELSE ModifierOf(typed[i]) # {}
  /\ KeyFromName(typed[n]) \notin {"Unknown", "Escape"}
TypedIsRead ==
  printed = None => ComboFromString(Text) =
    IF Proper
    THEN [key |-> KeyFromName(Last(typed)), mods |-> UNION {ModifierOf(typed[i]) : i \in 1 .. Len(typed) - 1}]
    ELSE None

CombosSound == WrittenIsRead /\ TypedIsRead
=============================================================================
