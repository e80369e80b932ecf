------------------------------- MODULE Settings -------------------------------
(***************************************************************************)
(* The life of settings.json (render/settings.cpp): installed from the     *)
(* defaults, read at start, rewritten by every rebinding, set aside by a   *)
(* reset, edited by hand between runs, with crashes and failing writes in  *)
(* between.                                                                *)
(*                                                                         *)
(* A file is the rows of its key bindings, or a word for a file that is    *)
(* not there, does not parse, or was cut short.  A row that is no array    *)
(* counts as absent, and so does one of an unknown action: the loader      *)
(* keeps the default for it.                                               *)
(***************************************************************************)
EXTENDS Keymap, Integers, TLC

CONSTANTS Combo,          (* the combinations a user presses                 *)
          Edited,         (* what a user may make of settings.json by hand   *)
          EVENTS          (* bound: resets, edits and crashes                *)

VARIABLES settings, defaults,   (* the two files                             *)
          backups,              (* settings-backup-N.json, by N              *)
          keymap,               (* the live bindings                         *)
          at,                   (* where the program is; "off" between runs  *)
          chosen,               (* ghost: the keymap last saved, if that     *)
          owed,                 (* ghost: what resets have set aside         *)
          events
vars == <<settings, defaults, backups, keymap, at, chosen, owed, events>>

(* A file: its rows, or why it has none. *)
NoRows(why) == [is |-> why, rows |-> << >>]
Rows(rows) == [is |-> "rows", rows |-> rows]
Missing == NoRows("missing")
-----------------------------------------------------------------------------
(* An action that is bound to nothing is left out. *)
WrongJsonFromSettings(map) ==
  Rows([a \in {b.action : b \in map} |-> CombosFromAction(map, a)])

(* Every action is listed, those that nothing is bound to as []. *)
JsonFromSettings(map) == Rows([a \in Action |-> CombosFromAction(map, a)])

(* A row replaces the default of its action.  Rows are applied in the      *)
(* order of declaration, whatever their order in the file.                 *)
SettingsFromJson(rows) ==
  LET Row(map, a) == FoldSet(LAMBDA c, m : Bind(m, c, a), ClearAction(map, a), rows[a]) IN
  FoldLeft(LAMBDA map, a : IF a \in DOMAIN rows THEN Row(map, a) ELSE map, DefaultKeymap, Declared)
-----------------------------------------------------------------------------
Init ==
  /\ settings = Missing /\ defaults = Missing /\ backups = << >>
  /\ keymap = {} /\ at = "off" /\ chosen = {} /\ owed = {} /\ events = 0

(* The program starts, as WryDelegate's init does. *)
Start == /\ at = "off" /\ at' = "load"
         /\ UNCHANGED <<settings, defaults, backups, keymap, chosen, owed, events>>

(* load_settings: the image of the defaults is refreshed by a rename, or   *)
(* the write fails and the old one stays.                                  *)
RefreshDefaults ==
  /\ at = "load" /\ at' = "install"
  /\ defaults' \in {defaults, JsonFromSettings(DefaultKeymap)}
  /\ UNCHANGED <<settings, backups, keymap, chosen, owed, events>>

(* The program runs on the defaults, whatever the file says.               *)
FallBack == keymap' = DefaultKeymap /\ at' = "running"

(* A missing settings.json is copied from the defaults.  copy_file writes  *)
(* into the file itself, so a crash or a full disk can cut it short.       *)
Install ==
  /\ at = "install"
  /\ \/ /\ settings # Missing /\ at' = "read" /\ UNCHANGED <<settings, keymap>>
     \/ /\ settings = Missing /\ defaults # Missing
        /\ settings' = NoRows("torn") /\ at' = "copy" /\ UNCHANGED keymap
     \/ /\ settings = Missing /\ FallBack /\ UNCHANGED settings
  /\ UNCHANGED <<defaults, backups, chosen, owed, events>>
Copy ==
  /\ at = "copy"
  /\ \/ settings' = defaults /\ at' = "read" /\ UNCHANGED keymap
     \/ FallBack /\ UNCHANGED settings
  /\ UNCHANGED <<defaults, backups, chosen, owed, events>>

(* A file that does not parse, or that cannot be read this time, is left    *)
(* in place.                                                               *)
Read ==
  /\ at = "read"
  /\ \/ settings.is = "rows" /\ keymap' = SettingsFromJson(settings.rows) /\ at' = "loaded"
     \/ FallBack
  /\ UNCHANGED <<settings, defaults, backups, chosen, owed, events>>
-----------------------------------------------------------------------------
Running == at \in {"loaded", "running"}

(* save_settings renames a finished file over settings.json, or fails.     *)
Save(map) ==
  \/ /\ settings' = JsonFromSettings(map) /\ chosen' = {map}
     /\ owed' = owed \cap Range(backups)
  \/ UNCHANGED <<settings, chosen, owed>>

(* apply_captured_combo, and the CLEAR button. *)
Rebind ==
  /\ Running /\ at' = "running"
  /\ \E c \in Combo, a \in Action :
       /\ ActionFromCombo(keymap, c) # a
       /\ keymap' = Bind(keymap, c, a) /\ Save(Bind(keymap, c, a))
  /\ UNCHANGED <<defaults, backups, events>>
Clear ==
  /\ Running /\ at' = "running"
  /\ \E a \in Action : keymap' = ClearAction(keymap, a) /\ Save(ClearAction(keymap, a))
  /\ UNCHANGED <<defaults, backups, events>>

(* The number of the newest backup is used again. *)
WrongBackup(saved) == IF backups = << >> THEN <<saved>> ELSE [backups EXCEPT ![Len(backups)] = saved]

(* One more than the newest. *)
Backup(saved) == Append(backups, saved)

(* reset_settings: what is there becomes a backup, unless that fails, and  *)
(* the rest is loading.                                                    *)
Reset ==
  /\ Running /\ events < EVENTS /\ events' = events + 1
  /\ at' = "load"
  /\ IF settings = Missing THEN UNCHANGED <<settings, backups, chosen, owed>> ELSE
       /\ owed' = owed \cup {settings}
       /\ \/ settings' = Missing /\ backups' = Backup(settings) /\ chosen' = {}
          \/ UNCHANGED <<settings, backups, chosen>>
  /\ UNCHANGED <<defaults, keymap>>
-----------------------------------------------------------------------------
(* The program ends or is killed; between runs the user edits.             *)
Stop ==
  /\ at # "off" /\ events < EVENTS /\ events' = events + 1
  /\ at' = "off" /\ keymap' = {}
  /\ UNCHANGED <<settings, defaults, backups, chosen, owed>>
Edit ==
  /\ at = "off" /\ events < EVENTS /\ events' = events + 1
  /\ settings' \in Edited /\ chosen' = {} /\ owed' = owed \cap Range(backups)
  /\ UNCHANGED <<defaults, backups, keymap, at>>

Next == \/ Start \/ RefreshDefaults \/ Install \/ Copy \/ Read
        \/ Rebind \/ Clear \/ Reset \/ Stop \/ Edit
Spec == Init /\ [][Next]_vars
-----------------------------------------------------------------------------
(* A combination activates at most one action, and Escape none, however    *)
(* rows, defaults, rebinding and reset have followed each other: bind      *)
(* steals, and clear_action precedes a row.                                *)
OneActionPerCombo ==
  \A b \in keymap : b.combo # "Escape" /\ \A other \in keymap : other.combo = b.combo => other = b

(* What was last saved is what the file says, through crashes, failed      *)
(* writes and failed resets, until it is reset or edited.                  *)
SavedIsKept ==
  \A map \in chosen : settings.is = "rows" /\ SettingsFromJson(settings.rows) = map

(* A row of the file wins over the default of an action the file does not  *)
(* mention, and among two rows the one declared later.                     *)
FileWins ==
  at = "loaded" /\ settings.is = "rows" =>
    \A i \in 1 .. Len(Declared) :
      Declared[i] \in DOMAIN settings.rows =>
        CombosFromAction(keymap, Declared[i])
          = {c \in settings.rows[Declared[i]] \ {"Escape"} :
               \A j \in i + 1 .. Len(Declared) :
                 Declared[j] \in DOMAIN settings.rows => c \notin settings.rows[Declared[j]]}

(* "so the pre-reset state is always recoverable": what a reset found is   *)
(* in a backup, or in settings.json still, until the user replaces it.     *)
ResetLosesNothing == owed \subseteq Range(backups) \cup {settings}

SettingsSound == OneActionPerCombo /\ SavedIsKept /\ FileWins /\ ResetLosesNothing
=============================================================================
