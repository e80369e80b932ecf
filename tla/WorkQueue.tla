------------------------------ MODULE WorkQueue ------------------------------
(***************************************************************************)
(* The global work queue (container/concurrent_queue.hpp BlockingDeque and *)
(* core/global_work_queue.cpp): a locked deque of resumable pointers that  *)
(* any thread pushes to and a pool of workers drains from the back, with a *)
(* count of sleepers, a condition variable and a cancel flag.  What a lock *)
(* is held for is one step; the notification that follows it is another.   *)
(* The pins the workers take are in Epoch.                                 *)
(***************************************************************************)
EXTENDS Integers, Sequences, FiniteSets

CONSTANTS Worker, Outsider,   (* the pool, and the other threads that push   *)
          NoJob,
          CADENCE,            (* tasks between two pins of a worker: 10      *)
          SPURIOUS            (* bound: wake-ups out of nothing              *)

Thread == Worker \cup Outsider

ASSUME WorkQueueAssumption ==
  /\ Worker \cap Outsider = {} /\ IsFiniteSet(Thread) /\ Worker # {}
  /\ CADENCE \in Nat \ {0} /\ SPURIOUS \in Nat

VARIABLES
  deque,      (* the work, its back last                                     *)
  waiting,    (* _waiting: sleepers that nobody has undertaken to wake       *)
  canceled,   (* _is_canceled                                                *)
  owes,       (* what each thread has yet to notify: "", "one" or "all"      *)
  pc,         (* of each worker: where it is in global_work_queue_service    *)
  job,        (* what each worker is running                                 *)
  left,       (* tasks each worker may still take before it lets go its pin  *)
  spurious

queueVars == <<deque, waiting, canceled, owes, pc, job, left, spurious>>

Asleep == {w \in Worker : pc[w] = "asleep"}

(* push_back and push_front lock alike: by a thread t that owes nothing. *)
PushBack(t, item) ==
  /\ owes[t] = ""
  /\ deque' = Append(deque, item)
  /\ waiting' = IF waiting > 0 THEN waiting - 1 ELSE 0
  /\ owes' = [owes EXCEPT ![t] = IF waiting > 0 THEN "one" ELSE ""]

Woken(S) == [w \in Worker |-> IF w \in S THEN "check" ELSE pc[w]]

(* notify_one wakes any sleeper, notify_all every one; nobody, if none     *)
(* sleeps yet.                                                             *)
Notify(t) ==
  /\ owes[t] # ""
  /\ \/ owes[t] = "all" /\ pc' = Woken(Asleep)
     \/ owes[t] = "one" /\ Asleep = {} /\ pc' = pc
     \/ owes[t] = "one" /\ \E w \in Asleep : pc' = Woken({w})
  /\ owes' = [owes EXCEPT ![t] = ""]
  /\ UNCHANGED <<deque, waiting, canceled, job, left, spurious>>

SpuriousWake(w) ==
  /\ pc[w] = "asleep" /\ spurious < SPURIOUS
  /\ pc' = Woken({w}) /\ spurious' = spurious + 1
  /\ UNCHANGED <<deque, waiting, canceled, owes, job, left>>

(* The check and the sleep are one: the condition variable lets go of the  *)
(* lock as it falls asleep.                                                *)
WrongWaitNotEmpty(w) ==          (* asleep before it counts itself *)
  /\ pc[w] = "wait"
  /\ pc' = [pc EXCEPT ![w] = IF deque = <<>> /\ ~canceled THEN "asleep" ELSE "check"]
  /\ UNCHANGED <<deque, waiting, canceled, owes, job, left, spurious>>

WaitNotEmpty(w) ==
  /\ pc[w] = "wait"
  /\ IF deque = <<>> /\ ~canceled
     THEN pc' = [pc EXCEPT ![w] = "asleep"] /\ waiting' = waiting + 1
     ELSE pc' = [pc EXCEPT ![w] = "check"] /\ waiting' = waiting
  /\ UNCHANGED <<deque, canceled, owes, job, left, spurious>>

IsCanceled(w) ==
  /\ pc[w] = "check"
  /\ pc' = [pc EXCEPT ![w] = IF canceled THEN "exit" ELSE "pop"]
  /\ left' = [left EXCEPT ![w] = CADENCE]
  /\ UNCHANGED <<deque, waiting, canceled, owes, job, spurious>>

TryPopBack(w) ==
  /\ pc[w] = "pop"
  /\ IF left[w] = 0 \/ deque = <<>>
     THEN pc' = [pc EXCEPT ![w] = "wait"] /\ UNCHANGED <<deque, job, left>>
     ELSE /\ pc' = [pc EXCEPT ![w] = "run"]
          /\ job' = [job EXCEPT ![w] = deque[Len(deque)]]
          /\ deque' = SubSeq(deque, 1, Len(deque) - 1)
          /\ left' = [left EXCEPT ![w] = @ - 1]
  /\ UNCHANGED <<waiting, canceled, owes, spurious>>

(* What ran came to its end. *)
Return(w) ==
  /\ pc[w] = "run" /\ job[w] = NoJob /\ owes[w] = ""
  /\ pc' = [pc EXCEPT ![w] = "pop"]
  /\ UNCHANGED <<deque, waiting, canceled, owes, job, left, spurious>>

Cancel(t) ==
  /\ owes[t] = ""
  /\ canceled' = TRUE /\ waiting' = 0
  /\ owes' = [owes EXCEPT ![t] = "all"]
  /\ UNCHANGED <<deque, pc, job, left, spurious>>

QueueInit ==
  /\ deque = <<>> /\ waiting = 0 /\ canceled = FALSE /\ spurious \in 0 .. SPURIOUS
  /\ owes = [t \in Thread |-> ""]
  /\ pc = [w \in Worker |-> "wait"]
  /\ job = [w \in Worker |-> NoJob]
  /\ left = [w \in Worker |-> 0]

Serve(w) == WaitNotEmpty(w) \/ IsCanceled(w) \/ TryPopBack(w) \/ Return(w) \/ Notify(w)

(* Work that waits has somebody to take it: a worker that is awake, or a   *)
(* wake-up on its way.  And nobody sleeps through a cancel.                *)
NoWorkIsSleptOn ==
  /\ deque # <<>> /\ Asleep = Worker => \E t \in Thread : owes[t] # ""
  /\ canceled /\ Asleep # {} => \E t \in Thread : owes[t] = "all"
=============================================================================
