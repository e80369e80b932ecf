-------------------------------- MODULE Cycles --------------------------------
(***************************************************************************)
(* Waiting for collections (WaitForCollectionCycles of ext/coroutine.hpp,  *)
(* the waiters of the collector in core/garbage_collected.cpp).  Cycles    *)
(* overlap: each has a bit, they begin and end in the order of the bits,   *)
(* and a waiter counts those that it has seen whole, one after the other.  *)
(***************************************************************************)
EXTENDS Integers, SequencesExt, FiniteSetsExt

CONSTANTS BITS, Waiter, MOST, CYCLES       (* 16; waiters; bounds            *)

VARIABLES
  next_start, live_count,                  (* the window of the live bits    *)
  waiters,                                 (* _cycle_waiters                 *)
  asks,                                    (* what each waiter asked for     *)
  scheduled,                               (* the callbacks, in their order  *)
  cycles,                                  (* [from, to] of each, so far     *)
  clock, since                             (* when things happened           *)
vars == <<next_start, live_count, waiters, asks, scheduled, cycles, clock, since>>

Window == {(next_start - i) % BITS : i \in 1 .. live_count}
Oldest == (next_start - live_count) % BITS
Tick == clock' = clock + 1

(* collector_register_cycle_callback; none to wait for is ready at once.   *)
Register(w) == asks[w] = -1 /\ Tick /\ \E k \in 0 .. MOST :
  /\ asks' = [asks EXCEPT ![w] = k] /\ since' = [since EXCEPT ![w] = clock]
  /\ IF k = 0 THEN scheduled' = Append(scheduled, w) /\ UNCHANGED waiters
     ELSE waiters' = Append(waiters, [target |-> k, callback |-> w, tag |-> {}]) /\ UNCHANGED scheduled
  /\ UNCHANGED <<next_start, live_count, cycles>>

(* UNUSED to GRAY_PUBLISHED, and _on_cycle_started.  One bit is kept free, *)
(* the one of the future slot.                                             *)
Start ==
  /\ live_count < BITS - 1 /\ Len(cycles) < CYCLES /\ Tick
  /\ next_start' = (next_start + 1) % BITS /\ live_count' = live_count + 1
  /\ cycles' = Append(cycles, [from |-> clock, to |-> -1])
  /\ waiters' = [i \in DOMAIN waiters |-> [waiters[i] EXCEPT !.tag = @ \cup {next_start}]]
  /\ UNCHANGED <<asks, scheduled, since>>

WrongCounted(x, k) == IF k \in x.tag THEN [x EXCEPT !.target = @ - 1, !.tag = @ \ {k}] ELSE x
(* What is counted forgets the cycles that are already under way.          *)
Counted(x, k) == IF k \in x.tag THEN [x EXCEPT !.target = @ - 1, !.tag = {}] ELSE x

(* CLEARING to UNUSED, and _on_cycle_completed.                            *)
Complete ==
  /\ live_count > 0 /\ Tick
  /\ live_count' = live_count - 1
  /\ LET counted == [i \in DOMAIN waiters |-> Counted(waiters[i], Oldest)] IN
     /\ waiters' = SelectSeq(counted, LAMBDA x : x.target # 0)
     /\ scheduled' = scheduled \o LET due == SelectSeq(counted, LAMBDA x : x.target = 0)
                                  IN [i \in DOMAIN due |-> due[i].callback]
  /\ cycles' = [cycles EXCEPT ![Len(cycles) - live_count + 1].to = clock]
  /\ UNCHANGED <<next_start, asks, since>>

Init ==
  /\ next_start = 0 /\ live_count = 0 /\ waiters = << >> /\ asks = [w \in Waiter |-> -1]
  /\ scheduled = << >> /\ cycles = << >> /\ clock = 0 /\ since = [w \in Waiter |-> -1]
Over == live_count = 0 /\ Len(cycles) = CYCLES /\ (\A w \in Waiter : asks[w] # -1) /\ UNCHANGED vars
Next == Start \/ Complete \/ (\E w \in Waiter : Register(w)) \/ Over
Spec == Init /\ [][Next]_vars
-----------------------------------------------------------------------------
(* The most cycles, each begun after the one before had ended, that fit in *)
(* what has passed since w asked.                                          *)
Whole(w) == {i \in DOMAIN cycles : cycles[i].from > since[w] /\ cycles[i].to # -1}
Apart(S) == \A i, j \in S : i < j => cycles[i].to < cycles[j].from
Seen(w) == Max({Cardinality(S) : S \in {S \in SUBSET Whole(w) : Apart(S)}})

(* A waiter resumes once, at the end of the last of the full cycles that   *)
(* it asked for: none is counted that had begun before, or before the one  *)
(* that was counted last was over, and none that counts is missed.         *)
WaitersSeeWholeCycles ==
  /\ IsInjective(scheduled)
  /\ \A w \in Waiter : asks[w] # -1 =>
       /\ (w \in ToSet(scheduled)) = (Seen(w) >= asks[w])
       /\ \A i \in DOMAIN waiters : waiters[i].callback = w => waiters[i].target = asks[w] - Seen(w)
=============================================================================
