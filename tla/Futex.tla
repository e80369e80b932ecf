------------------------------- MODULE Futex -------------------------------
(***************************************************************************)
(* The portable mutex and condition variable (ext/mutex.hpp), built on the *)
(* platform's wait and wake by address, and used as such things are:       *)
(* producers put an item in and notify, consumers wait for one.            *)
(***************************************************************************)
EXTENDS Integers, FiniteSets

CONSTANTS Consumer, Producer

Client == Consumer \cup Producer

VARIABLES
  state,     (* Mutex::_state                                                *)
  version,   (* ConditionVariable::_state                                    *)
  at,        (* where each client is                                         *)
  goal,      (* where it goes when it has unlocked                           *)
  known,     (* old_state of ConditionVariable::wait                         *)
  items      (* what the mutex protects                                      *)

vars == <<state, version, at, goal, known, items>>

Init ==
  /\ state = "UNLOCKED" /\ version = 0 /\ items = 0
  /\ at = [c \in Client |-> "lock"] /\ goal = [c \in Client |-> "end"]
  /\ known = [c \in Client |-> 0]

To(c, place) == at' = [at EXCEPT ![c] = place]

(* Mutex::lock: the first exchange, then the loop.                         *)
Lock(c) ==
  /\ at[c] = "lock"
  /\ state' = "LOCKED"
  /\ To(c, IF state = "UNLOCKED" THEN "inside" ELSE "contend")
  /\ UNCHANGED <<version, goal, known, items>>

(* Operators whose name begins with Wrong are mistakes the code could have  *)
(* made; nothing uses them.  Here a thread that has waited takes the mutex *)
(* as if nobody else were waiting.                                         *)
WrongContend(c) ==
  /\ at[c] = "contend"
  /\ state' = IF state = "UNLOCKED" THEN "LOCKED" ELSE "AWAITED"
  /\ To(c, IF state = "UNLOCKED" THEN "inside" ELSE "wait")
  /\ UNCHANGED <<version, goal, known, items>>

Contend(c) ==
  /\ at[c] = "contend"
  /\ state' = "AWAITED"
  /\ To(c, IF state = "UNLOCKED" THEN "inside" ELSE "wait")
  /\ UNCHANGED <<version, goal, known, items>>

WaitOnState(c) ==
  /\ at[c] = "wait"
  /\ To(c, IF state = "AWAITED" THEN "asleep" ELSE "contend")
  /\ UNCHANGED <<state, version, goal, known, items>>

Inside(c) ==
  /\ at[c] = "inside"
  /\ IF c \in Producer
       THEN items' = items + 1 /\ goal' = [goal EXCEPT ![c] = "notify"] /\ UNCHANGED known
       ELSE IF items > 0
       THEN items' = items - 1 /\ goal' = [goal EXCEPT ![c] = "end"] /\ UNCHANGED known
       ELSE (* ConditionVariable::wait *)
            known' = [known EXCEPT ![c] = version] /\ goal' = [goal EXCEPT ![c] = "await"] /\ UNCHANGED items
  /\ To(c, "unlock")
  /\ UNCHANGED <<state, version>>

Unlock(c) ==
  /\ at[c] = "unlock"
  /\ state' = "UNLOCKED"
  /\ To(c, IF state = "AWAITED" THEN "wake" ELSE goal[c])
  /\ UNCHANGED <<version, goal, known, items>>

(* platform_wake_by_address_any: some sleeper, if there is one.            *)
WakeAny(c, sleeping, awake) ==
  LET sleepers == {d \in Client : at[d] = sleeping} IN
  IF sleepers = {} THEN To(c, goal[c])
  ELSE \E d \in sleepers : at' = [at EXCEPT ![c] = goal[c], ![d] = awake]

Wake(c) ==
  /\ at[c] = "wake" /\ WakeAny(c, "asleep", "contend")
  /\ UNCHANGED <<state, version, goal, known, items>>

Await(c) ==
  /\ at[c] = "await"
  /\ To(c, IF version = known[c] THEN "dormant" ELSE "lock")
  /\ UNCHANGED <<state, version, goal, known, items>>

NotifyOne(c) ==
  /\ at[c] = "notify"
  /\ version' = version + 1
  /\ goal' = [goal EXCEPT ![c] = "end"] /\ To(c, "rouse")
  /\ UNCHANGED <<state, known, items>>

Rouse(c) ==
  /\ at[c] = "rouse" /\ WakeAny(c, "dormant", "lock")
  /\ UNCHANGED <<state, version, goal, known, items>>

(* A wait may return for no reason.                                        *)
Spurious(c) ==
  /\ \/ at[c] = "asleep" /\ To(c, "contend")
     \/ at[c] = "dormant" /\ To(c, "lock")
  /\ UNCHANGED <<state, version, goal, known, items>>

Finished == (\A c \in Client : at[c] = "end") /\ UNCHANGED vars

Next ==
  \/ \E c \in Client :
       \/ Lock(c) \/ Contend(c) \/ WaitOnState(c) \/ Inside(c) \/ Unlock(c) \/ Wake(c)
       \/ Await(c) \/ NotifyOne(c) \/ Rouse(c) \/ Spurious(c)
  \/ Finished

Spec == Init /\ [][Next]_vars
-----------------------------------------------------------------------------
In(places) == {c \in Client : at[c] \in places}

(* The dangers that the comment above Mutex weighs.  One client is inside  *)
(* at a time.  Whoever sleeps on the mutex is waited on by somebody: one   *)
(* that owes a wake-up or goes round the loop, or the holder, who will see *)
(* AWAITED.  And no item waits for a consumer whom nobody will rouse.      *)
NoLostWakeUp ==
  /\ Cardinality(In({"inside", "unlock"})) = IF state = "UNLOCKED" THEN 0 ELSE 1
  /\ In({"asleep"}) # {} => state = "AWAITED" \/ In({"contend", "wait", "wake"}) # {}
  /\ items > 0 /\ In({"dormant"}) # {} =>
       items <= Cardinality(Consumer \ In({"dormant", "end"}))
                + Cardinality({p \in Producer : goal[p] = "notify" \/ at[p] = "rouse"})
=============================================================================
