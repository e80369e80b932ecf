---------------------------- MODULE MCScheduler ----------------------------
(* A small instance of Coroutines: a root that forks a waiter and its      *)
(* signaler, joins, and uses its nursery again, for one that awaits        *)
(* another; and a task of main's own.                                      *)
EXTENDS Coroutines

CONSTANTS root, waiter, signaler, yielder, awaited, single, w1, w2

I(op, arg) == [op |-> op, arg |-> arg]

Programs ==
  [c \in Context |->
    CASE c = Main -> <<I("spawn", root), I("soon", single), I("join", NoJob)>>
      [] c = root -> <<I("fork", waiter), I("soon", signaler), I("join", NoJob),
                        I("soon", yielder), I("join", NoJob)>>
      [] c = waiter -> <<I("wait", NoJob)>>
      [] c = signaler -> <<I("signal", NoJob)>>
      [] c = yielder -> <<I("await", awaited)>>
      [] c = awaited -> <<I("yield", NoJob)>>
      [] c = single -> << >>]

Outside == {Main, Timer}

(* Bound: the spurious wake-ups happen where main polls, to halve the runs. *)
MCInit == Init /\ spurious = IF blocking THEN SPURIOUS ELSE 0
MCSpec == MCInit /\ [][Next]_vars /\ Fairness
=============================================================================
