-------------------------------- MODULE Epoch --------------------------------
(***************************************************************************)
(* The cooperative epoch service of core/epoch.hpp, and the thread-local   *)
(* pin of core/epoch_allocator.hpp that the mutators and the collector     *)
(* drive it with.                                                          *)
(*                                                                         *)
(* The service is one 64-bit word.  Every operation is a compare-exchange  *)
(* loop that computes the desired word from the expected one, so each      *)
(* successful exchange is one atomic step here and a failed exchange is a  *)
(* stuttering step.  What is NOT atomic with the exchange is the futex     *)
(* wake-up: a caller that clears the waiting bit calls notify_all after    *)
(* its exchange, and other callers run in between (`notifying').           *)
(***************************************************************************)
EXTENDS Naturals, FiniteSets

CONSTANTS
  Thread,     (* OS threads, each with a thread_local LocalState           *)
  Guard,      (* portable pins that live in a coroutine frame              *)
  Waiter,     (* the threads that call wait: the garbage collector         *)
  CYCLE,      (* number of epochs of the cyclic group (2^32 in the code)   *)
  COUNT_MAX   (* largest pin count (0x7FFF in the code)                    *)

Holder == Thread \cup Guard

(* At most COUNT_MAX participants exist: there are far fewer threads and   *)
(* coroutine roots than 32767.                                             *)
ASSUME EpochAssumption ==
  /\ Waiter \subseteq Thread
  /\ CYCLE \in Nat /\ CYCLE > 3
  /\ IsFiniteSet(Holder)
  /\ COUNT_MAX \in Nat /\ Cardinality(Holder) <= COUNT_MAX

VARIABLES
  state,      (* the atomic word: current, pins_current, waiting, pins_prior *)
  is_pinned,  (* the holders that have a pin                                *)
  known,      (* the epoch a holder last observed; the one it pins          *)
  pc,         (* a waiter is running, in wait's loop, or asleep in the futex *)
  expected,   (* the argument of a waiter's call of wait                    *)
  notifying   (* holders between a successful exchange and its notify_all   *)

vars == <<state, is_pinned, known, pc, expected, notifying>>

Epochs == 0 .. CYCLE - 1

(* Operators whose name begins with Wrong are mistakes the code could have  *)
(* made.  Nothing uses them: each stands before the definition it would    *)
(* replace, and shows that a property notices.                             *)
WrongSucc(e) == e + 1

(* The cyclic successor of an epoch: operator+(1) of cyc32_t. *)
Succ(e) == IF e = CYCLE - 1 THEN 0 ELSE e + 1

Word == [current : Epochs, pins_current : Nat, waiting : BOOLEAN, pins_prior : Nat]

------------------------------------------------------------------------------
(* Service::State: pure functions from word to word. *)

Validate(s, occupied) ==
  \/ occupied = s.current /\ s.pins_current > 0
  \/ Succ(occupied) = s.current /\ s.pins_prior > 0

(* The prior pins are not looked at. *)
WrongTryAdvance(s) ==
  [current |-> Succ(s.current), pins_current |-> 0,
   waiting |-> FALSE, pins_prior |-> s.pins_current]

TryAdvance(s) ==
  IF s.pins_prior > 0
    THEN s
    ELSE [current |-> Succ(s.current), pins_current |-> 0,
          waiting |-> FALSE, pins_prior |-> s.pins_current]

PinWord(s) == [s EXCEPT !.pins_current = @ + 1]

(* Whatever epoch was pinned, the current count goes down. *)
WrongUnpinWord(s, occupied) == [s EXCEPT !.pins_current = @ - 1]

UnpinWord(s, occupied) ==
  [s EXCEPT !.pins_current = IF occupied = s.current THEN @ - 1 ELSE @,
            !.pins_prior = IF Succ(occupied) = s.current THEN @ - 1 ELSE @]

WaitWord(s, e) == [s EXCEPT !.waiting = (s.current = e)]

(* The copy of a prior pin is counted as a current one. *)
WrongPinExplicitWord(s, requested) ==
  [s EXCEPT !.pins_current = @ + 1, !.waiting = FALSE]

(* The initialiser of pin_explicit names no .waiting: the bit is cleared.  *)
PinExplicitWord(s, requested) ==
  LET bump(n, yes) == IF yes THEN n + 1 ELSE n IN
  [current |-> s.current,
   pins_current |-> bump(s.pins_current, requested = s.current),
   waiting |-> FALSE,
   pins_prior |-> bump(s.pins_prior, Succ(requested) = s.current)]

------------------------------------------------------------------------------
Init ==
  /\ state = [current |-> 0, pins_current |-> 0, waiting |-> FALSE, pins_prior |-> 0]
  /\ is_pinned = {}
  /\ known = [h \in Holder |-> 0]
  /\ pc = [w \in Waiter |-> "run"]
  /\ expected = [w \in Waiter |-> 0]
  /\ notifying = {}

(* A holder is free to start an operation when it has finished the last. *)
Idle(h) == h \notin notifying /\ (h \in Waiter => pc[h] = "run")

(* The wake-up is tied to the epoch instead of to the waiting bit. *)
WrongExchange(h, desired) ==
  /\ state' = desired
  /\ notifying' = IF state.waiting /\ state.current # desired.current
                    THEN notifying \cup {h} ELSE notifying

(* The exchange of `desired' by h succeeds; h owes a notify_all when it    *)
(* took the waiting bit away.                                              *)
Exchange(h, desired) ==
  /\ state' = desired
  /\ notifying' = IF state.waiting /\ ~desired.waiting
                    THEN notifying \cup {h} ELSE notifying

(* Service::pin under LocalState::pin, or pin_global_epoch. *)
Pin(h) ==
  /\ Idle(h) /\ h \notin is_pinned
  /\ Exchange(h, PinWord(state))
  /\ known' = [known EXCEPT ![h] = state.current]
  /\ is_pinned' = is_pinned \cup {h}
  /\ UNCHANGED <<pc, expected>>

(* Service::unpin.  A thread remembers the epoch the call returned. *)
Unpin(h) ==
  LET desired == TryAdvance(UnpinWord(state, known[h])) IN
  /\ Idle(h) /\ h \in is_pinned
  /\ Exchange(h, desired)
  /\ known' = IF h \in Thread THEN [known EXCEPT ![h] = desired.current] ELSE known
  /\ is_pinned' = is_pinned \ {h}
  /\ UNCHANGED <<pc, expected>>

(* Service::repin: one exchange for unpin, try_advance and pin. *)
RepinStep(t) ==
  LET desired == PinWord(TryAdvance(UnpinWord(state, known[t]))) IN
  /\ Idle(t) /\ t \in is_pinned
  /\ Exchange(t, desired)
  /\ known' = [known EXCEPT ![t] = desired.current]
  /\ UNCHANGED is_pinned

(* A mutator repins, or the collector in the middle of a long walk; the     *)
(* wait of a pass with such a repin returns at once and is no step here.   *)
Repin(t) == RepinStep(t) /\ UNCHANGED <<pc, expected>>

(* Service::pin_explicit: a fork hands its pin h on to a portable pin g. *)
PinExplicit(g, h) ==
  /\ Idle(g) /\ g \notin is_pinned /\ h \in is_pinned
  /\ Exchange(g, PinExplicitWord(state, known[h]))
  /\ known' = [known EXCEPT ![g] = known[h]]
  /\ is_pinned' = is_pinned \cup {g}
  /\ UNCHANGED <<pc, expected>>

(* The wake-up that follows an exchange; every sleeper re-examines the word. *)
NotifyAll(h) ==
  /\ h \in notifying
  /\ notifying' = notifying \ {h}
  /\ pc' = [w \in Waiter |-> IF pc[w] = "asleep" THEN "loop" ELSE pc[w]]
  /\ UNCHANGED <<state, is_pinned, known, expected>>

------------------------------------------------------------------------------
(* The collector waits for the next epoch without letting go of its own. *)
WrongRepinAndWait(w) ==
  /\ Idle(w) /\ w \in is_pinned
  /\ pc' = [pc EXCEPT ![w] = "loop"]
  /\ expected' = [expected EXCEPT ![w] = state.current]
  /\ UNCHANGED <<state, is_pinned, known, notifying>>

(* The collector: A is the epoch it has just worked in; it repins and waits *)
(* for the epoch to leave A.                                                *)
RepinAndWait(w) ==
  /\ RepinStep(w)
  /\ pc' = [pc EXCEPT ![w] = "loop"]
  /\ expected' = [expected EXCEPT ![w] = known[w]]

InLoop(w) == pc[w] = "loop" /\ w \notin notifying

WaitReturn(w) ==
  /\ InLoop(w) /\ state.current # expected[w]
  /\ pc' = [pc EXCEPT ![w] = "run"]
  /\ UNCHANGED <<state, is_pinned, known, expected, notifying>>

(* The bit is not set: set it. *)
WaitMark(w) ==
  /\ InLoop(w) /\ state.current = expected[w] /\ ~state.waiting
  /\ state' = WaitWord(state, expected[w])
  /\ UNCHANGED <<is_pinned, known, pc, expected, notifying>>

(* The bit is set: the futex compares the word with the observed one and   *)
(* sleeps, atomically.                                                     *)
WaitSleep(w) ==
  /\ InLoop(w) /\ state.current = expected[w] /\ state.waiting
  /\ pc' = [pc EXCEPT ![w] = "asleep"]
  /\ UNCHANGED <<state, is_pinned, known, expected, notifying>>

Next ==
  \/ \E h \in Holder : Pin(h) \/ Unpin(h) \/ NotifyAll(h)
  \/ \E t \in Thread : Repin(t)
  \/ \E g \in Guard, h \in Holder : PinExplicit(g, h)
  \/ \E w \in Waiter : RepinAndWait(w) \/ WaitReturn(w) \/ WaitMark(w) \/ WaitSleep(w)

Spec == Init /\ [][Next]_vars

(* Workers unpin after at most ten tasks, a coroutine's portable pin is    *)
(* released when its fork-join ends, a call in progress completes; nobody  *)
(* has to take a new pin.                                                  *)
Fairness ==
  /\ \A h \in Holder : WF_vars(NotifyAll(h))
  /\ \A t \in Thread \ Waiter : WF_vars(Unpin(t) \/ Repin(t))
  /\ \A g \in Guard : WF_vars(Unpin(g))
  /\ \A w \in Waiter : WF_vars(WaitReturn(w) \/ WaitMark(w) \/ WaitSleep(w))

FairSpec == Spec /\ Fairness
------------------------------------------------------------------------------
(* Every variable has its type. *)
TypeOK ==
  /\ state \in Word
  /\ is_pinned \subseteq Holder
  /\ known \in [Holder -> Epochs]
  /\ pc \in [Waiter -> {"run", "loop", "asleep"}]
  /\ expected \in [Waiter -> Epochs]
  /\ notifying \subseteq Holder

PinnedAt(e) == {h \in is_pinned : known[h] = e}

Prior == {h \in is_pinned : Succ(known[h]) = state.current}

(* A pin holds the epoch back: as long as a holder keeps its pin, the      *)
(* current epoch is the pinned one or the one after it.  This is the fact  *)
(* "E happens-before E + 2" of the collector rests on.                     *)
PinHoldsEpoch ==
  \A h \in is_pinned : state.current \in {known[h], Succ(known[h])}

(* The packed counts are the pins: nothing is counted twice, nothing is    *)
(* counted for the wrong epoch when advances, explicit pins and unpins mix. *)
PinAccounting ==
  /\ state.pins_current = Cardinality(PinnedAt(state.current))
  /\ state.pins_prior = Cardinality(Prior)

(* No caller can trip an abort of the service: an unpin or an explicit pin *)
(* always names an epoch that validates (predecessor never sees zero and   *)
(* successor_of_nonzero sees neither zero nor the maximum), and a new pin  *)
(* always fits its 15-bit field.                                           *)
NoTrap ==
  /\ \A h \in is_pinned : Validate(state, known[h])
  /\ is_pinned # Holder =>
       state.pins_current < COUNT_MAX /\ state.pins_prior < COUNT_MAX

(* No lost wake-up: a sleeper whose epoch has passed, or whose waiting bit *)
(* was taken away (pin_explicit drops it), has a notify_all on its way.    *)
NoLostWakeup ==
  \A w \in Waiter :
    pc[w] = "asleep" =>
      \/ state.waiting /\ state.current = expected[w]
      \/ notifying # {}

(* A waiter never awaits the epoch after the one it pins: the deadlock the *)
(* assertion of epoch::wait looks for.                                     *)
NoSelfDeadlock ==
  \A w \in Waiter : pc[w] # "run" => expected[w] # Succ(known[w])

(* The epoch moves forward one at a time, and never while a pin of the     *)
(* prior epoch is held through the step.                                   *)
EpochAdvances ==
  [][state'.current # state.current =>
       /\ state'.current = Succ(state.current)
       /\ \A h \in is_pinned \cap is_pinned' :
            known'[h] = known[h] => known[h] = state.current]_vars

(* The service keeps the promise the collector rests on: whatever the word *)
(* goes through, pins age, move and end as in Grace.                       *)
G == INSTANCE Grace WITH pin <- [h \in Holder |->
       IF h \notin is_pinned THEN "free"
       ELSE IF known[h] = state.current THEN "current" ELSE "prior"]

GraceSpec == G!PSpec

(* The collector's wait returns. *)
WaitReturns == \A w \in Waiter : pc[w] = "loop" ~> pc[w] = "run"
==============================================================================
