-------------------------------- MODULE Grace --------------------------------
(***************************************************************************)
(* What the epoch service promises, without words, counts or cyclic        *)
(* epochs: a pin is of the current epoch or of the one before, and the     *)
(* epoch moves on when a release finds nothing pinned at the one before.   *)
(* Epoch implements it, and the collector (Collector) rests on it.         *)
(***************************************************************************)
EXTENDS Naturals

CONSTANT Holder   (* whoever can have a pin *)

VARIABLE pin      (* of each holder: Free, Current or Prior *)

Free == "free"
Current == "current"
Prior == "prior"

Advances(p) == \A h \in Holder : p[h] # Prior

(* Every pin ages when the epoch moves on. *)
Advanced(p) ==
  IF Advances(p) THEN [h \in Holder |-> IF p[h] = Current THEN Prior ELSE p[h]] ELSE p

Released(h) == [pin EXCEPT ![h] = Free]

PInit == pin = [h \in Holder |-> Free]

(* A pin is taken at the current epoch. *)
Take(h) == pin[h] = Free /\ pin' = [pin EXCEPT ![h] = Current]

Drop(h) == pin[h] # Free /\ pin' = Advanced(Released(h))

(* Release and pin again in one step: at the epoch the release leads to. *)
Renew(h) == pin[h] # Free /\ pin' = [Advanced(Released(h)) EXCEPT ![h] = Current]

(* g gets a pin of the epoch that h has pinned. *)
Copy(g, h) == pin[g] = Free /\ pin[h] # Free /\ pin' = [pin EXCEPT ![g] = pin[h]]

(* The epochs h moves forward by when it renews its pin. *)
Advance(h) ==
  (IF pin[h] = Prior THEN 1 ELSE 0) + (IF Advances(Released(h)) THEN 1 ELSE 0)

PNext == \E h \in Holder : Take(h) \/ Drop(h) \/ Renew(h) \/ \E g \in Holder : Copy(g, h)

PSpec == PInit /\ [][PNext]_pin
==============================================================================
