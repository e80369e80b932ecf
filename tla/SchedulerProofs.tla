--------------------------- MODULE SchedulerProofs ---------------------------
(***************************************************************************)
(* Proofs about the work queue and the coroutines it resumes, for any      *)
(* number of workers, any coroutines and any programs that a tree of them  *)
(* may run.                                                                *)
(*                                                                         *)
(* The queue.  A worker that sleeps is counted by `waiting' until a push   *)
(* takes it off the count and owes it a notification, so the sleepers are  *)
(* never more than the two together (Paid).  That is what makes a push     *)
(* that finds nobody to count harmless.                                    *)
(***************************************************************************)
EXTENDS Coroutines, FiniteSetTheorems, TLAPS

(* The threads that have a notification of the kind x to make. *)
Owing(x) == {t \in Thread : owes[t] = x}

(* The types of the queue that its proofs need. *)
QueueTypes ==
  /\ waiting \in Nat
  /\ owes \in [Thread -> {"", "one", "all"}]
  /\ pc \in [Worker -> {"wait", "asleep", "check", "pop", "run", "exit"}]

(* Until the queue is shut, the sleepers are no more than the waiters      *)
(* counted and the single notifications still owed.                        *)
Paid == canceled \/ Cardinality(Asleep) <= waiting + Cardinality(Owing("one"))

(* The inductive invariant of the queue. *)
QInv == QueueTypes /\ Paid /\ NoWorkIsSleptOn

(* The sets of threads are finite. *)
LEMMA FiniteAsleep == IsFiniteSet(Asleep) /\ Cardinality(Asleep) \in Nat
  <1>1. Asleep \in SUBSET Thread
    BY DEF Asleep, Thread
  <1> QED BY <1>1, WorkQueueAssumption, FS_Subset, FS_CardinalityType

(* The debtors are finitely many. *)
LEMMA FiniteOwing ==
  ASSUME NEW x
  PROVE  IsFiniteSet(Owing(x)) /\ Cardinality(Owing(x)) \in Nat
  <1>1. Owing(x) \in SUBSET Thread
    BY DEF Owing
  <1> QED BY <1>1, WorkQueueAssumption, FS_Subset, FS_CardinalityType

(* A push: it takes a sleeper off the count and owes it a notification.    *)
LEMMA PushQInv ==
  ASSUME QInv, NEW t \in Thread, NEW x, PushBack(t, x),
         t \in Worker => pc[t] # "asleep", canceled' = canceled, pc' = pc
  PROVE  QInv'
  <1> USE DEF QInv
  <1>n. waiting \in Nat
    BY DEF QueueTypes
  <1>o. owes' \in [Thread -> {"", "one", "all"}]
    BY DEF PushBack, QueueTypes
  <1>p. waiting' = IF waiting > 0 THEN waiting - 1 ELSE 0
    BY DEF PushBack
  <1>m. waiting' \in Nat
    BY <1>n, <1>p
  <1>0. QueueTypes' /\ Asleep' = Asleep
    BY <1>o, <1>m DEF Asleep, QueueTypes
  <1>1. CASE waiting > 0
    <2>1. Owing("one")' = Owing("one") \cup {t} /\ t \notin Owing("one")
      BY <1>1 DEF PushBack, Owing, QueueTypes
    <2>2. Cardinality(Owing("one")') = Cardinality(Owing("one")) + 1
      BY <2>1, FiniteAsleep, FiniteOwing, FS_AddElement
    <2>3. waiting' = waiting - 1
      BY <1>1 DEF PushBack
    <2>4. Paid'
      BY <1>n, <1>0, <2>2, <2>3, FiniteAsleep, FiniteOwing DEF Paid
    <2>5. owes'[t] = "one"
      BY <1>1 DEF PushBack, QueueTypes
    <2>a. \A s \in Thread : owes[s] = "all" => owes'[s] = "all"
      BY DEF PushBack, QueueTypes
    <2>6. NoWorkIsSleptOn'
      BY <1>0, <2>5, <2>a DEF NoWorkIsSleptOn
    <2> QED BY <1>0, <2>4, <2>6
  <1>2. CASE ~(waiting > 0)
    <2>0. waiting = 0 /\ waiting' = 0
      BY <1>n, <1>p, <1>2
    <2>b. owes' = owes
      BY <1>2 DEF PushBack, QueueTypes
    <2>1. owes' = owes /\ waiting = 0 /\ waiting' = 0
      BY <2>0, <2>b
    <2>2. Owing("one")' = Owing("one")
      BY <2>1 DEF Owing
    <2>3. Paid'
      BY <1>0, <2>1, <2>2 DEF Paid
    <2>4. canceled \/ Asleep # Worker \/ \E s \in Thread : owes[s] # ""
      <3>1. CASE ~canceled /\ Asleep = Worker
        <4>1. Cardinality(Asleep) # 0
          BY <3>1, WorkQueueAssumption, FiniteAsleep, FiniteOwing, FS_EmptySet
        <4>2. Cardinality(Owing("one")) # 0
          BY <3>1, <2>1, <4>1, FiniteAsleep, FiniteOwing DEF Paid
        <4>3. Owing("one") # {}
          BY <4>2, FS_EmptySet
        <4> QED BY <4>3 DEF Owing
      <3> QED BY <3>1
    <2>5. canceled /\ Asleep = Worker => \E s \in Thread : owes[s] = "all"
      BY WorkQueueAssumption DEF NoWorkIsSleptOn
    <2>6. NoWorkIsSleptOn'
      BY <1>0, <2>1, <2>4, <2>5 DEF NoWorkIsSleptOn
    <2> QED BY <1>0, <2>3, <2>6
  <1> QED BY <1>1, <1>2

(* A notification takes a debt off, and a sleeper, if there is one. *)
LEMMA NotifyQInv ==
  ASSUME QInv, NEW t \in Thread, Notify(t)
  PROVE  QInv'
  <1> USE DEF QInv
  <1>n. waiting \in Nat
    BY DEF QueueTypes
  <1>0. owes[t] # "" /\ owes' = [owes EXCEPT ![t] = ""]
        /\ UNCHANGED <<deque, waiting, canceled>>
    BY DEF Notify
  <1>1. QueueTypes'
    BY <1>0 DEF Notify, Woken, QueueTypes
  <1>m. waiting' \in Nat
    BY <1>1 DEF QueueTypes
  <1>2. CASE Asleep' = {}
    <2>1. Cardinality(Asleep') = 0 /\ Cardinality(Owing("one"))' \in Nat
      <3>1. Owing("one")' \in SUBSET Thread
        BY DEF Owing
      <3> QED BY <1>2, <3>1, FS_EmptySet, FS_Subset, FS_CardinalityType, WorkQueueAssumption
    <2>2. Paid'
      BY <1>m, <2>1 DEF Paid
    <2>3. Asleep' # Worker
      BY <1>2, WorkQueueAssumption
    <2>4. NoWorkIsSleptOn'
      BY <1>2, <2>3 DEF NoWorkIsSleptOn
    <2> QED BY <1>1, <2>2, <2>4
  <1>3. CASE owes[t] = "one" /\ \E w \in Asleep : pc' = Woken({w})
    <2> PICK w \in Asleep : pc' = Woken({w})
      BY <1>3
    <2>1. Asleep' = Asleep \ {w} /\ w \in Worker
      BY DEF Asleep, Woken, QueueTypes
    <2>2. Cardinality(Asleep') = Cardinality(Asleep) - 1
      BY <2>1, FiniteAsleep, FiniteOwing, FS_RemoveElement
    <2>3. Owing("one")' = Owing("one") \ {t} /\ t \in Owing("one")
      BY <1>0, <1>3 DEF Owing, QueueTypes
    <2>4. Cardinality(Owing("one")') = Cardinality(Owing("one")) - 1
      BY <2>3, FiniteAsleep, FiniteOwing, FS_RemoveElement
    <2>5. Paid'
      <3>1. waiting' = waiting /\ canceled' = canceled
        BY <1>0
      <3> HIDE <1>0, <1>1
      <3> QED BY <1>n, <2>2, <2>4, <3>1, FiniteAsleep, FiniteOwing DEF Paid
    <2>6. Asleep' # Worker
      BY <2>1
    <2>7. \A s \in Thread : owes[s] = "all" => owes'[s] = "all"
      BY <1>0, <1>3 DEF QueueTypes
    <2>8. NoWorkIsSleptOn'
      BY <1>0, <2>1, <2>6, <2>7 DEF NoWorkIsSleptOn
    <2> QED BY <1>1, <2>5, <2>8
  <1>4. owes[t] = "all" /\ pc' = Woken(Asleep) => Asleep' = {}
    BY DEF Asleep, Woken
  <1>5. owes[t] = "one" /\ Asleep = {} /\ pc' = pc => Asleep' = {}
    BY DEF Asleep
  <1> QED BY <1>2, <1>3, <1>4, <1>5 DEF Notify

(* A worker goes to sleep, with itself in the count. *)
LEMMA WaitQInv ==
  ASSUME QInv, NEW w \in Worker, WaitNotEmpty(w)
  PROVE  QInv'
  <1> USE DEF QInv
  <1>n. waiting \in Nat
    BY DEF QueueTypes
  <1>0. Owing("one")' = Owing("one") /\ UNCHANGED <<deque, canceled, owes>>
    BY DEF WaitNotEmpty, Owing
  <1>1. pc' \in [Worker -> {"wait", "asleep", "check", "pop", "run", "exit"}]
    BY DEF WaitNotEmpty, QueueTypes
  <1>2. waiting' \in Nat
    BY <1>n DEF WaitNotEmpty
  <1>3. QueueTypes'
    BY <1>0, <1>1, <1>2 DEF QueueTypes
  <1>4. CASE deque = <<>> /\ ~canceled
    <2>1. Asleep' = Asleep \cup {w} /\ w \notin Asleep
      BY <1>4 DEF WaitNotEmpty, Asleep, QueueTypes
    <2>2. Cardinality(Asleep') = Cardinality(Asleep) + 1
      BY <2>1, FiniteAsleep, FS_AddElement
    <2>3. waiting' = waiting + 1
      BY <1>4 DEF WaitNotEmpty
    <2>4. Paid'
      BY <1>n, <1>0, <1>4, <2>2, <2>3, FiniteAsleep, FiniteOwing DEF Paid
    <2> QED BY <1>0, <1>3, <1>4, <2>4 DEF NoWorkIsSleptOn
  <1>5. CASE ~(deque = <<>> /\ ~canceled)
    <2>1. Asleep' = Asleep
      BY <1>5 DEF WaitNotEmpty, Asleep, QueueTypes
    <2>2. waiting' = waiting
      BY <1>5 DEF WaitNotEmpty
    <2> QED BY <1>0, <1>3, <2>1, <2>2 DEF Paid, NoWorkIsSleptOn
  <1> QED BY <1>4, <1>5

(* The sleepers do not grow, and the queue neither. *)
LEMMA OtherQInv ==
  ASSUME QInv, QueueTypes', Asleep' \subseteq Asleep, UNCHANGED <<waiting, canceled, owes>>,
         deque' # <<>> /\ Asleep' = Worker => deque # <<>>
  PROVE  QInv'
  <1> USE DEF QInv
  <1>n. waiting \in Nat
    BY DEF QueueTypes
  <1>1. Owing("one")' = Owing("one")
    BY DEF Owing
  <1>2. IsFiniteSet(Asleep) /\ Cardinality(Asleep) \in Nat
    BY FiniteAsleep, FiniteOwing
  <1>3. Cardinality(Asleep') <= Cardinality(Asleep) /\ Cardinality(Asleep') \in Nat
    BY <1>2, FS_Subset, FS_CardinalityType
  <1>4. Paid'
    BY <1>n, <1>1, <1>2, <1>3, FiniteAsleep, FiniteOwing DEF Paid
  <1>5. Asleep' = Worker => Asleep = Worker
    BY DEF Asleep
  <1> QED BY <1>4, <1>5 DEF NoWorkIsSleptOn

(* Whoever shuts the queue owes every sleeper a notification. *)
LEMMA CancelQInv ==
  ASSUME QInv, NEW t \in Thread, Cancel(t)
  PROVE  QInv'
  <1> USE DEF QInv
  <1>n. waiting \in Nat
    BY DEF QueueTypes
  <1>1. owes'[t] = "all" /\ canceled' /\ QueueTypes'
    BY DEF Cancel, QueueTypes
  <1> QED BY <1>1 DEF Paid, NoWorkIsSleptOn

(* Each step of the coroutines is one of these for the queue. *)
LEMMA QueueStep ==
  ASSUME QInv, [Next]_vars
  PROVE  QInv'
  <1> USE DEF QInv
  <1>n. waiting \in Nat
    BY DEF QueueTypes
  <1>0. Main \in Thread /\ Timer \in Thread /\ Main \notin Worker /\ Timer \notin Worker
        /\ Worker \subseteq Thread
    BY WorkQueueAssumption, CoroutinesAssumption DEF Thread
  <1>1. ASSUME QueueQuiet PROVE QInv'
    BY <1>1, OtherQInv DEF QueueQuiet, Asleep, QueueTypes
  <1>2. ASSUME NEW t \in Thread, NEW x, Pushes(t, x), t \in Worker => pc[t] = "run" PROVE QInv'
    BY <1>2, PushQInv DEF Pushes
  <1>3. ASSUME NEW w \in Worker, Runner(w) PROVE QInv'
    <2>1. Runs(w) => pc[w] = "run"
      BY <1>0 DEF Runs
    <2>2. ASSUME NEW op, NEW ph, At(w, op, ph) PROVE pc[w] = "run"
      BY <2>1, <2>2 DEF At
    <2>3. CASE Fork(w) \/ Soon(w) \/ Yield(w) \/ Signal(w)
      BY <1>0, <1>1, <1>2, <2>2, <2>3 DEF Fork, Soon, Yield, Signal, Decide
    <2>4. CASE JoinReady(w) \/ Await(w) \/ AwaitResume(w) \/ NurseryResume(w) \/ GroupResume(w)
               \/ FrameResume(w) \/ RunCallback(w) \/ EventReady(w) \/ EventSuspend(w) \/ ArmTimer(w)
      BY <1>1, <2>4 DEF JoinReady, Await, AwaitResume, NurseryResume, GroupResume,
                        FrameResume, RunCallback, EventReady, EventSuspend, ArmTimer
    <2>5. CASE JoinSuspend(w)
      BY <1>0, <1>1, <2>5 DEF JoinSuspend
    <2> QED BY <1>3, <2>3, <2>4, <2>5 DEF Runner
  <1>4. ASSUME NEW w \in Worker, Serve(w) PROVE QInv'
    <2>1. CASE WaitNotEmpty(w)
      BY <2>1, WaitQInv
    <2>2. CASE Notify(w)
      BY <1>0, <2>2, NotifyQInv
    <2>3. CASE IsCanceled(w)
      BY <2>3, OtherQInv DEF IsCanceled, Asleep, QueueTypes
    <2>4. CASE Return(w)
      BY <2>4, OtherQInv DEF Return, Asleep, QueueTypes
    <2>5. CASE TryPopBack(w)
      <3>1. QueueTypes' /\ UNCHANGED <<waiting, canceled, owes>> /\ Asleep' = Asleep /\ w \notin Asleep
        BY <2>5 DEF TryPopBack, Asleep, QueueTypes
      <3> QED BY <3>1, OtherQInv
    <2> QED BY <1>4, <2>1, <2>2, <2>3, <2>4, <2>5 DEF Serve
  <1>5. ASSUME MainStep PROVE QInv'
    <2>1. CASE Soon(Main) \/ Spawn
      BY <1>0, <1>2, <2>1 DEF Soon, Spawn
    <2>2. CASE JoinReady(Main) \/ GiveUpSentinel \/ WaitGroup
      BY <1>1, <2>2 DEF JoinReady, GiveUpSentinel, WaitGroup
    <2>3. CASE JoinSuspend(Main)
      BY <1>0, <1>2, <2>3 DEF JoinSuspend
    <2>4. CASE CancelAndJoin
      BY <1>0, <2>4, CancelQInv DEF CancelAndJoin
    <2>5. CASE Notify(Main)
      BY <1>0, <2>5, NotifyQInv
    <2> QED BY <1>5, <2>1, <2>2, <2>3, <2>4, <2>5 DEF MainStep
  <1>6. ASSUME TimerStep PROVE QInv'
    <2>1. CASE Fire
      BY <1>0, <1>1, <1>2, <2>1 DEF Fire, Decide
    <2>2. CASE Notify(Timer)
      BY <1>0, <2>2, NotifyQInv
    <2> QED BY <1>6, <2>1, <2>2 DEF TimerStep
  <1>7. ASSUME NEW w \in Worker, SpuriousWake(w) PROVE QInv'
    BY <1>7, OtherQInv DEF SpuriousWake, Woken, Asleep, QueueTypes
  <1>8. CASE UNCHANGED vars
    BY <1>1, <1>8 DEF vars, queueVars, QueueQuiet
  <1> QED
    BY <1>3, <1>4, <1>5, <1>6, <1>7, <1>8 DEF Next, WorkerStep

(* The queue's invariant holds throughout. *)
LEMMA QueueInductive == Spec => []QInv
  <1>1. Init => QInv
    <2> SUFFICES ASSUME Init PROVE QInv
      OBVIOUS
    <2>1. QueueTypes /\ Asleep = {}
      BY DEF Init, QueueInit, QueueTypes, Asleep
    <2>2. Cardinality(Asleep) = 0
      BY <2>1, FS_EmptySet
    <2>3. Paid
      <3>1. waiting = 0
        BY DEF Init, QueueInit
      <3> QED BY <2>2, <3>1, FiniteOwing DEF Paid
    <2> QED BY <2>1, <2>3 DEF QInv, NoWorkIsSleptOn, Init, QueueInit
  <1>2. QInv /\ [Next]_vars => QInv'
    BY QueueStep
  <1> QED BY <1>1, <1>2, PTL DEF Spec

(* Work is never left in the queue while every worker sleeps and nobody is *)
(* about to wake one, and nobody sleeps through the cancel.                *)
THEOREM NoWorkSleptOn == Spec => []NoWorkIsSleptOn
  <1>1. QInv => NoWorkIsSleptOn
    BY DEF QInv
  <1> QED BY <1>1, QueueInductive, PTL
------------------------------------------------------------------------------
(* Handles.  A coroutine is resumed by whoever has its handle; the handles *)
(* are what the workers run and what the deque holds.                      *)
Jobs(x) == {w \in Worker : job[w] = x}

Queued(x) == {i \in DOMAIN deque : deque[i] = x}

Handles(x) == Cardinality(Jobs(x)) + Cardinality(Queued(x))

Is(x, y) == IF x = y THEN 1 ELSE 0

Pushed(z) == deque' = Append(deque, z)

Item == Coroutine \cup {Frame, Noop}

HandleTypes ==
  /\ deque \in Seq(Item)
  /\ job \in [Worker -> Item \cup {NoJob, Arm, Callback}]

(* Finitely many threads run a job. *)
LEMMA JobsFinite ==
  ASSUME NEW x
  PROVE  IsFiniteSet(Jobs(x)) /\ Cardinality(Jobs(x)) \in Nat
  <1>1. Jobs(x) \in SUBSET Thread
    BY DEF Jobs, Thread
  <1> QED BY <1>1, WorkQueueAssumption, FS_Subset, FS_CardinalityType

(* Finitely many places of the deque hold one. *)
LEMMA QueuedFinite ==
  ASSUME HandleTypes, NEW x
  PROVE  IsFiniteSet(Queued(x)) /\ Cardinality(Queued(x)) \in Nat
  <1>1. Len(deque) \in Nat /\ DOMAIN deque = 1 .. Len(deque)
    BY DEF HandleTypes
  <1>2. IsFiniteSet(1 .. Len(deque))
    BY <1>1, FS_Interval
  <1>3. Queued(x) \in SUBSET (1 .. Len(deque))
    BY <1>1 DEF Queued
  <1> QED BY <1>2, <1>3, FS_Subset, FS_CardinalityType

(* So handles are counted by a natural number. *)
LEMMA HandlesNat ==
  ASSUME HandleTypes, NEW x
  PROVE  /\ Handles(x) \in Nat
         /\ (\E w \in Worker : job[w] = x) => Handles(x) >= 1
         /\ Handles(x) = 0 => \A i \in DOMAIN deque : deque[i] # x
  <1>1. Cardinality(Jobs(x)) \in Nat /\ Cardinality(Queued(x)) \in Nat
    BY JobsFinite, QueuedFinite
  <1>2. Jobs(x) # {} => Cardinality(Jobs(x)) # 0
    BY JobsFinite, FS_EmptySet
  <1>3. Queued(x) # {} => Cardinality(Queued(x)) # 0
    BY QueuedFinite, FS_EmptySet
  <1>4. Handles(x) \in Nat /\ Cardinality(Jobs(x)) <= Handles(x)
        /\ Cardinality(Queued(x)) <= Handles(x)
    BY <1>1 DEF Handles
  <1>5. (\E w \in Worker : job[w] = x) => Jobs(x) # {}
    BY DEF Jobs
  <1>6. (\E i \in DOMAIN deque : deque[i] = x) => Queued(x) # {}
    BY DEF Queued
  <1>7. (\E w \in Worker : job[w] = x) => Handles(x) >= 1
    BY <1>1, <1>2, <1>4, <1>5
  <1>8. Handles(x) = 0 => \A i \in DOMAIN deque : deque[i] # x
    BY <1>1, <1>3, <1>4, <1>6
  <1> QED BY <1>4, <1>7, <1>8

(* A worker drops what it runs and runs y. *)
LEMMA JobsStep ==
  ASSUME HandleTypes, NEW w \in Worker, NEW y, job' = [job EXCEPT ![w] = y], NEW x
  PROVE  Cardinality(Jobs(x))' = Cardinality(Jobs(x)) - Is(job[w], x) + Is(y, x)
  <1> DEFINE rest == Jobs(x) \ {w}
  <1>1. job \in [Worker -> Item \cup {NoJob, Arm, Callback}]
    BY DEF HandleTypes
  <1>2. Cardinality(Jobs(x)) \in Nat /\ IsFiniteSet(Jobs(x)) /\ IsFiniteSet(rest)
    BY JobsFinite, FS_Subset
  <1>3. Cardinality(rest) = Cardinality(Jobs(x)) - Is(job[w], x)
    <2>1. CASE job[w] = x
      <3>1. w \in Jobs(x)
        BY <2>1 DEF Jobs
      <3> QED BY <1>2, <2>1, <3>1, FS_RemoveElement DEF Is
    <2>2. CASE job[w] # x
      <3>1. rest = Jobs(x)
        BY <2>2 DEF Jobs
      <3> QED BY <1>2, <2>2, <3>1 DEF Is
    <2> QED BY <2>1, <2>2
  <1>4. Cardinality(Jobs(x)') = Cardinality(rest) + Is(y, x)
    <2>0. Cardinality(rest) \in Nat
      BY <1>2, FS_CardinalityType
    <2>1. CASE y = x
      <3>1. Jobs(x)' = rest \cup {w}
        BY <1>1, <2>1 DEF Jobs
      <3>2. Cardinality(rest \cup {w}) = Cardinality(rest) + 1
        BY <1>2, FS_AddElement
      <3> QED BY <2>1, <3>1, <3>2 DEF Is
    <2>2. CASE y # x
      <3>1. Jobs(x)' = rest
        BY <1>1, <2>2 DEF Jobs
      <3> QED BY <2>0, <2>2, <3>1 DEF Is
    <2> QED BY <2>1, <2>2
  <1> HIDE DEF rest
  <1> QED BY <1>3, <1>4

(* y is put at the back of the deque. *)
LEMMA QueuedPush ==
  ASSUME HandleTypes, NEW y, deque' = Append(deque, y), NEW x
  PROVE  Cardinality(Queued(x))' = Cardinality(Queued(x)) + Is(y, x)
  <1> DEFINE n == Len(deque)
  <1>1. deque \in Seq(Item) /\ n \in Nat /\ DOMAIN deque = 1 .. n
    BY DEF HandleTypes
  <1>2. DOMAIN (deque') = 1 .. n + 1 /\ deque'[n + 1] = y
        /\ \A i \in 1 .. n : deque'[i] = deque[i]
    BY <1>1
  <1>3. Cardinality(Queued(x)) \in Nat /\ IsFiniteSet(Queued(x))
    BY QueuedFinite
  <1>4. n + 1 \notin Queued(x)
    BY <1>1 DEF Queued
  <1>5. CASE y = x
    <2>1. Queued(x)' = Queued(x) \cup {n + 1}
      BY <1>1, <1>2, <1>5 DEF Queued
    <2>2. Cardinality(Queued(x) \cup {n + 1}) = Cardinality(Queued(x)) + 1
      BY <1>3, <1>4, FS_AddElement
    <2> QED BY <1>5, <2>1, <2>2 DEF Is
  <1>6. CASE y # x
    <2>1. Queued(x)' = Queued(x)
      BY <1>1, <1>2, <1>6 DEF Queued
    <2> QED BY <1>3, <1>6, <2>1 DEF Is
  <1> QED BY <1>5, <1>6

(* The back of the deque is taken off. *)
LEMMA QueuedPop ==
  ASSUME HandleTypes, deque # <<>>, deque' = SubSeq(deque, 1, Len(deque) - 1), NEW x
  PROVE  Cardinality(Queued(x))' = Cardinality(Queued(x)) - Is(deque[Len(deque)], x)
  <1> DEFINE n == Len(deque)
  <1>1. deque \in Seq(Item) /\ n \in Nat /\ DOMAIN deque = 1 .. n /\ n # 0
    BY DEF HandleTypes
  <1>2. DOMAIN (deque') = 1 .. n - 1 /\ \A i \in 1 .. n - 1 : deque'[i] = deque[i]
    BY <1>1
  <1>3. Cardinality(Queued(x)) \in Nat /\ IsFiniteSet(Queued(x))
    BY QueuedFinite
  <1>4. Queued(x)' = Queued(x) \ {n}
    BY <1>1, <1>2 DEF Queued
  <1>5. CASE deque[n] = x
    <2>1. n \in Queued(x)
      BY <1>1, <1>5 DEF Queued
    <2>2. Cardinality(Queued(x) \ {n}) = Cardinality(Queued(x)) - 1
      BY <1>3, <2>1, FS_RemoveElement
    <2> QED BY <1>4, <1>5, <2>2 DEF Is
  <1>6. CASE deque[n] # x
    <2>1. Queued(x) \ {n} = Queued(x)
      BY <1>6 DEF Queued
    <2>2. Is(deque[n], x) = 0
      BY <1>6 DEF Is
    <2>3. Cardinality(Queued(x)') = Cardinality(Queued(x))
      BY <1>4, <2>1
    <2> HIDE DEF n
    <2> QED BY <1>3, <2>2, <2>3 DEF n
  <1> QED BY <1>5, <1>6

(* What the steps do to the handles of x. *)
LEMMA HandlesQuiet ==
  ASSUME UNCHANGED <<job, deque>>, NEW x
  PROVE  Handles(x)' = Handles(x)
  BY DEF Handles, Jobs, Queued

LEMMA HandlesJob ==
  ASSUME HandleTypes, NEW w \in Worker, NEW y, Becomes(w, y), deque' = deque, NEW x
  PROVE  Handles(x)' = Handles(x) - Is(job[w], x) + Is(y, x)
  <1>1. Cardinality(Jobs(x))' = Cardinality(Jobs(x)) - Is(job[w], x) + Is(y, x)
    BY JobsStep DEF Becomes
  <1>2. Cardinality(Queued(x))' = Cardinality(Queued(x))
    BY DEF Queued
  <1>3. Cardinality(Jobs(x)) \in Nat /\ Cardinality(Queued(x)) \in Nat
    BY JobsFinite, QueuedFinite
  <1> QED BY <1>1, <1>2, <1>3 DEF Handles, Is

LEMMA HandlesPush ==
  ASSUME HandleTypes, NEW y, Pushed(y), job' = job, NEW x
  PROVE  Handles(x)' = Handles(x) + Is(y, x)
  <1>1. Cardinality(Queued(x))' = Cardinality(Queued(x)) + Is(y, x)
    BY QueuedPush DEF Pushed
  <1>2. Cardinality(Jobs(x))' = Cardinality(Jobs(x))
    BY DEF Jobs
  <1>3. Cardinality(Jobs(x)) \in Nat /\ Cardinality(Queued(x)) \in Nat
    BY JobsFinite, QueuedFinite
  <1> QED BY <1>1, <1>2, <1>3 DEF Handles, Is

LEMMA HandlesBoth ==
  ASSUME HandleTypes, NEW w \in Worker, NEW y, Becomes(w, y),
         NEW z, Pushed(z), NEW x
  PROVE  Handles(x)' = Handles(x) - Is(job[w], x) + Is(y, x) + Is(z, x)
  <1>1. Cardinality(Jobs(x))' = Cardinality(Jobs(x)) - Is(job[w], x) + Is(y, x)
    BY JobsStep DEF Becomes
  <1>2. Cardinality(Queued(x))' = Cardinality(Queued(x)) + Is(z, x)
    BY QueuedPush DEF Pushed
  <1>3. Cardinality(Jobs(x)) \in Nat /\ Cardinality(Queued(x)) \in Nat
    BY JobsFinite, QueuedFinite
  <1> QED BY <1>1, <1>2, <1>3 DEF Handles, Is

LEMMA HandlesPop ==
  ASSUME HandleTypes, NEW w \in Worker, job[w] = NoJob, deque # <<>>,
         job' = [job EXCEPT ![w] = deque[Len(deque)]],
         deque' = SubSeq(deque, 1, Len(deque) - 1), NEW x, x # NoJob
  PROVE  Handles(x)' = Handles(x)
  <1> DEFINE y == deque[Len(deque)]
  <1>1. Cardinality(Jobs(x))' = Cardinality(Jobs(x)) - Is(job[w], x) + Is(y, x)
    BY JobsStep
  <1>2. Cardinality(Queued(x))' = Cardinality(Queued(x)) - Is(y, x)
    BY QueuedPop
  <1>3. Cardinality(Jobs(x)) \in Nat /\ Cardinality(Queued(x)) \in Nat
    BY JobsFinite, QueuedFinite
  <1>4. Is(job[w], x) = 0
    BY DEF Is
  <1> HIDE DEF y
  <1> QED BY <1>1, <1>2, <1>3, <1>4 DEF Handles, Is
------------------------------------------------------------------------------
(* The inductive invariant of the coroutines.                              *)
One(b) == IF b THEN 1 ELSE 0

Done(c) == parent[c] # NoJob /\ Ended(c) /\ Handles(c) = 0

Op(c) == Program[c][step[c]].op

Doing(c, op, ph) == phase[c] = ph /\ ~Ended(c) /\ Op(c) = op

Creating == {"fork", "soon", "await", "spawn"}

(* Main's phases after its program. *)
Closing == {"drain", "asleep", "join"}

(* The children of a nursery, and the tasks of the wait group, not yet over. *)
Kids(c) == {d \in Coroutine : parent[d] = c /\ ~Done(d) /\ ~Awaits(c, d)}

Tasks == {d \in Coroutine : parent[d] = Group /\ ~Done(d)}

Types ==
  /\ HandleTypes
  /\ pc \in [Worker -> {"wait", "asleep", "check", "pop", "run", "exit"}]
  /\ step \in [Context -> Nat \ {0}]
  /\ phase \in [Context -> {"run", "suspending", "suspended"} \cup Closing]
  /\ parent \in [Coroutine -> Context \cup {NoJob, Group}]
  /\ children \in [Context -> Nat] /\ counter \in [Context -> Int]
  /\ event \in Coroutine \cup {EMPTY, SIGNALED, TIMED_OUT}
  /\ group \in Int

Phases ==
  \A c \in Context :
    /\ step[c] <= Len(Program[c]) + 1
    /\ phase[c] \in Closing => c = Main /\ Ended(c)
    /\ phase[c] = "suspending" => Doing(c, "wait", "suspending") \/ Doing(c, "join", "suspending")
    /\ phase[c] = "suspended" =>
         Doing(c, "wait", "suspended") \/ Doing(c, "join", "suspended") \/ Doing(c, "await", "suspended")

(* Who can go on has one handle, who is suspended has none but the place   *)
(* it waits at.                                                            *)
OwnedBy(c) ==
  /\ parent[c] = NoJob => Handles(c) = 0 /\ step[c] = 1 /\ phase[c] = "run"
  /\ parent[c] # NoJob /\ phase[c] # "suspended" /\ ~Ended(c) => Handles(c) = 1
  /\ phase[c] = "suspended" => Handles(c) = 0
  /\ Handles(c) <= 1
  /\ event = c <=> Doing(c, "wait", "suspended")

Owned == \A c \in Coroutine : OwnedBy(c)

(* Between a join's addition and the last child's subtraction the counter  *)
(* is the number of children left; before it, children and counter add up  *)
(* to it.                                                                  *)
Counted(c) ==
  /\ counter[c] + children[c] = Cardinality(Kids(c))
  /\ Doing(c, "join", "suspended") => children[c] = 0 /\ (c # Main => counter[c] > 0)
  /\ ~Doing(c, "join", "suspended") => counter[c] <= 0

Nurseries == \A c \in Context : Counted(c)

(* Main's frame is in the queue when its join found nobody to wait for. *)
MainFrame ==
  /\ Handles(Frame) = One(phase[Main] = "suspended" /\ counter[Main] = 0)
  /\ phase[Main] \in {"suspending", "suspended"} => Op(Main) = "join"

(* The wait group counts the tasks, and main until it gives up. *)
Groups ==
  /\ group = Cardinality(Tasks) + One(phase[Main] \notin Closing)
  /\ phase[Main] \in Closing /\ seen = 0 => group = 0
  /\ called \/ Jobs(Callback) # {} => group = 0

(* Instruction i of c has made its coroutine. *)
Made(c, i) == i < step[c] \/ (i = step[c] /\ Doing(c, "await", "suspended"))

Maker(c, i) == IF Program[c][i].op = "spawn" THEN Group ELSE c

Born ==
  \A c \in Context, d \in Coroutine : \A i \in DOMAIN Program[c] :
    Makes(c, i, d) => parent[d] = IF Made(c, i) THEN Maker(c, i) ELSE NoJob

(* Instruction j of c has seen to it that what i made is over. *)
SeenTo(c, i, j) ==
  \/ i < j /\ Program[c][i].op \in {"fork", "soon"} /\ Program[c][j].op = "join"
  \/ i = j /\ Program[c][i].op = "await"

Joins ==
  \A c \in Context : \A i, j \in 1 .. step[c] - 1 :
    SeenTo(c, i, j) => Done(Program[c][i].arg)

Shut == canceled => \A c \in Coroutine : Done(c)

Busy == \A w \in Worker : job[w] # NoJob => pc[w] = "run"

CInv == /\ Types /\ Phases /\ Owned /\ Nurseries /\ MainFrame /\ Groups
        /\ Born /\ Joins /\ Shut /\ Busy

------------------------------------------------------------------------------
(* What a step may do to a context: leave it, let it go on to its next     *)
(* instruction, or change its phase at the instruction it is at.           *)
Stays(x) == step'[x] = step[x] /\ phase'[x] = phase[x]

Moves(x) == ~Ended(x) /\ step'[x] = step[x] + 1 /\ phase'[x] = "run"

Turns(x, ph) == ~Ended(x) /\ step'[x] = step[x] /\ phase'[x] = ph

(* What the assumption on programs says of the step a coroutine is at. *)
LEMMA Programs ==
  ASSUME Types, NEW x \in Context
  PROVE  /\ step[x] \in Nat \ {0} /\ DOMAIN Program[x] = 1 .. Len(Program[x]) /\ Len(Program[x]) \in Nat
         /\ Ended(x) <=> step[x] \notin DOMAIN Program[x]
         /\ ~Ended(x) => /\ Op(x) \in {"fork", "soon", "join", "yield", "wait", "signal", "spawn", "await"}
                         /\ Op(x) \in Creating => Argument(x) \in Coroutine
  <1>1. step[x] \in Nat \ {0}
    BY DEF Types
  <1>2. /\ Program[x] \in Seq([op : {"fork", "soon", "join", "yield", "wait", "signal", "spawn", "await"},
                               arg : Coroutine \cup {NoJob}])
        /\ \A i \in DOMAIN Program[x] :
             Program[x][i].op \in Creating => Program[x][i].arg \in Coroutine
    BY CoroutinesAssumption, ProgramAssumption DEF Creating
  <1>3. Len(Program[x]) \in Nat /\ DOMAIN Program[x] = 1 .. Len(Program[x])
    BY <1>2
  <1>4. Ended(x) <=> step[x] \notin DOMAIN Program[x]
    BY <1>1, <1>3 DEF Ended
  <1>5. ASSUME ~Ended(x)
        PROVE  Op(x) \in {"fork", "soon", "join", "yield", "wait", "signal", "spawn", "await"}
    <2>1. Program[x][step[x]] \in
             [op : {"fork", "soon", "join", "yield", "wait", "signal", "spawn", "await"},
              arg : Coroutine \cup {NoJob}]
      <3>1. \A S : \A s \in Seq(S) : \A i \in DOMAIN s : s[i] \in S
        OBVIOUS
      <3>2. step[x] \in DOMAIN Program[x]
        BY <1>4, <1>5
      <3> QED BY <1>2, <3>1, <3>2
    <2> QED BY <2>1 DEF Op
  <1>6. ASSUME ~Ended(x), Op(x) \in Creating PROVE Argument(x) \in Coroutine
    BY <1>2, <1>4, <1>6 DEF Op, Argument
  <1> QED BY <1>1, <1>3, <1>4, <1>5, <1>6

(* What a coroutine that does not move keeps. *)
LEMMA StaysFacts ==
  ASSUME NEW x, Stays(x)
  PROVE  /\ Ended(x)' <=> Ended(x)
         /\ Op(x)' = Op(x)
         /\ \A op, ph : Doing(x, op, ph)' <=> Doing(x, op, ph)
         /\ \A i : Made(x, i)' <=> Made(x, i)
         /\ \A d : Awaits(x, d)' <=> Awaits(x, d)
  BY DEF Stays, Ended, Op, Doing, Made, Awaits, Argument

(* What a step that neither makes nor ends a coroutine may do to one.      *)
Fate(c) ==
  \/ Stays(c) /\ Handles(c)' = Handles(c) /\ (event' = c <=> event = c)
  \/ /\ parent[c] # NoJob /\ Moves(c) /\ Op(c) \notin Creating
     /\ Op(c) = "join" => Kids(c) = {}
     /\ Handles(c)' = 1 /\ event' # c
  \/ /\ parent[c] # NoJob /\ phase[c] = "run" /\ Turns(c, "suspending") /\ Op(c) \in {"join", "wait"}
     /\ Handles(c)' = Handles(c) /\ event' # c
  \/ /\ parent[c] # NoJob /\ phase[c] = "suspending" /\ Turns(c, "suspended") /\ Op(c) \in {"join", "wait"}
     /\ Handles(c)' = 0 /\ (event' = c <=> Op(c) = "wait")

FateOfMain ==
  \/ Stays(Main)
  \/ Moves(Main) /\ Op(Main) \notin Creating /\ (Op(Main) = "join" => Kids(Main) = {})
  \/ phase[Main] = "run" /\ Turns(Main, "suspending") /\ Op(Main) = "join"
  \/ phase[Main] = "suspending" /\ Turns(Main, "suspended") /\ Op(Main) = "join"
  \/ Ended(Main) /\ step'[Main] = step[Main] /\ phase'[Main] \in Closing

(* What a coroutine that goes on to its next step changes. *)
LEMMA MovesFacts ==
  ASSUME Types, NEW x \in Context, Moves(x), Op(x) # "await"
  PROVE  /\ \A op, ph : ph # "run" => ~Doing(x, op, ph)'
         /\ \A i \in Nat : Made(x, i)' <=> (Made(x, i) \/ i = step[x])
         /\ \A d : ~Awaits(x, d)'
         /\ \A d : ~Awaits(x, d)
  <1>1. step[x] \in Nat
    BY DEF Types
  <1>2. \A op, ph : ph # "run" => ~Doing(x, op, ph)'
    BY DEF Moves, Doing
  <1>3. \A d : ~Awaits(x, d)'
    BY DEF Moves, Awaits
  <1>4. \A d : ~Awaits(x, d)
    BY DEF Awaits, Op
  <1>5. ~Doing(x, "await", "suspended")' /\ ~Doing(x, "await", "suspended")
    BY <1>2 DEF Doing
  <1>6. step'[x] = step[x] + 1
    BY DEF Moves
  <1>7. \A i \in Nat : Made(x, i)' <=> (Made(x, i) \/ i = step[x])
    BY <1>1, <1>5, <1>6 DEF Made
  <1> QED BY <1>2, <1>3, <1>4, <1>7

(* What a coroutine that changes phase within its step keeps. *)
LEMMA TurnsFacts ==
  ASSUME Types, NEW x \in Context, NEW ph, Turns(x, ph), Op(x) # "await"
  PROVE  /\ Ended(x)' <=> Ended(x)
         /\ Op(x)' = Op(x)
         /\ \A op : Doing(x, op, ph)' <=> op = Op(x)
         /\ \A op, q : q # ph => ~Doing(x, op, q)'
         /\ \A i : Made(x, i)' <=> Made(x, i)
         /\ \A d : ~Awaits(x, d)'
         /\ \A d : ~Awaits(x, d)
  <1>1. (Ended(x)' <=> Ended(x)) /\ Op(x)' = Op(x) /\ ~Ended(x)
    BY DEF Turns, Ended, Op
  <1>2. \A op : Doing(x, op, ph)' <=> op = Op(x)
    BY <1>1 DEF Turns, Doing
  <1>3. \A op, q : q # ph => ~Doing(x, op, q)'
    BY DEF Turns, Doing
  <1>4. \A i : Made(x, i)' <=> Made(x, i)
    BY <1>1 DEF Turns, Made, Doing
  <1>5. \A d : ~Awaits(x, d)' /\ ~Awaits(x, d)
    BY <1>1 DEF Awaits, Op
  <1> QED BY <1>1, <1>2, <1>3, <1>4, <1>5

(* A context that goes past a join has seen its children end. *)
LEMMA JoinsStep ==
  ASSUME Types, Phases, Born, Joins,
         \A d \in Coroutine : Done(d) => Done(d)',
         \A x \in Context :
           \/ step'[x] = step[x]
           \/ /\ ~Ended(x) /\ step'[x] = step[x] + 1
              /\ Op(x) = "join" => \A d \in Kids(x) : Done(d)'
              /\ Op(x) = "await" => \A d \in Coroutine : d = Argument(x) => Done(d)'
  PROVE  Joins'
  <1> SUFFICES ASSUME NEW x \in Context, NEW i \in 1 .. step'[x] - 1, NEW j \in 1 .. step'[x] - 1,
                      SeenTo(x, i, j)
               PROVE  Done(Program[x][i].arg)'
    BY DEF Joins, SeenTo
  <1>0. step[x] \in Nat \ {0} /\ i \in Nat /\ j \in Nat /\ Len(Program[x]) \in Nat
        /\ DOMAIN Program[x] = 1 .. Len(Program[x])
    BY Programs
  <1>a. step'[x] \in {step[x], step[x] + 1}
    OBVIOUS
  <1>1. ASSUME NEW k \in 1 .. step[x] - 1, Program[x][k].op \in {"fork", "soon", "await"}
        PROVE  Program[x][k].arg \in Coroutine /\ parent[Program[x][k].arg] = x
    <2> DEFINE d == Program[x][k].arg
    <2>1. k \in DOMAIN Program[x] /\ k < step[x]
      BY <1>0 DEF Phases
    <2>2. d \in Coroutine /\ Makes(x, k, d)
      BY <1>1, <2>1, ProgramAssumption DEF Makes
    <2>3. Made(x, k) /\ Maker(x, k) = x
      BY <1>1, <2>1 DEF Made, Maker
    <2> QED BY <2>1, <2>2, <2>3 DEF Born
  <1>2. Program[x][i].op \in {"fork", "soon", "await"}
    BY DEF SeenTo
  <1>3. i <= j
    BY <1>0 DEF SeenTo
  <1>4. CASE j < step[x]
    <2>1. i \in 1 .. step[x] - 1 /\ j \in 1 .. step[x] - 1
      BY <1>0, <1>3, <1>4
    <2>2. Done(Program[x][i].arg) /\ Program[x][i].arg \in Coroutine
      BY <1>1, <1>2, <2>1 DEF Joins
    <2> QED BY <2>2
  <1>5. CASE ~(j < step[x])
    <2>1. step'[x] = step[x] + 1 /\ j = step[x]
      BY <1>0, <1>a, <1>5
    <2>2. step[x] # step'[x]
      BY <1>0, <2>1
    <2>3. CASE i = j
      <3>1. Op(x) = "await" /\ Program[x][i].arg = Argument(x)
        BY <1>0, <2>1, <2>3 DEF SeenTo, Op, Argument
      <3>2. Program[x][i].arg \in Coroutine
        BY <1>0, <1>2, <2>1, <2>2, <2>3, ProgramAssumption DEF Phases, Ended
      <3> QED BY <2>2, <3>1, <3>2
    <2>4. CASE i # j
      <3> DEFINE d == Program[x][i].arg
      <3>1. i \in 1 .. step[x] - 1 /\ Op(x) = "join"
        BY <1>0, <1>3, <2>1, <2>4 DEF SeenTo, Op
      <3>2. d \in Coroutine /\ parent[d] = x
        BY <1>1, <1>2, <3>1
      <3>3. ~Awaits(x, d)
        BY <3>1 DEF Awaits, Op
      <3>4. d \in Kids(x) \/ Done(d)
        BY <3>2, <3>3 DEF Kids
      <3>5. Done(d)'
        BY <2>2, <3>1, <3>2, <3>4
      <3> QED BY <3>5
    <2> QED BY <2>3, <2>4
  <1> QED BY <1>4, <1>5

(* A step that makes and ends nobody. *)
LEMMA PlainStep ==
  ASSUME Types, Types', Phases, Owned, Born, Joins, Shut,
         parent' = parent, canceled' => canceled \/ \A c \in Coroutine : Done(c),
         \A c \in Coroutine : Fate(c), FateOfMain
  PROVE  /\ Phases' /\ Owned' /\ Born' /\ Joins' /\ Shut'
         /\ \A c \in Context : Kids(c)' = Kids(c)
         /\ Tasks' = Tasks
  <1>0. /\ Main \notin Coroutine /\ Context = Coroutine \cup {Main}
        /\ \A x \in Context : /\ step[x] \in Nat \ {0} /\ Len(Program[x]) \in Nat
                              /\ DOMAIN Program[x] = 1 .. Len(Program[x])
                              /\ Ended(x) <=> step[x] \notin DOMAIN Program[x]
    BY HandlesAssumption, Programs DEF Context
  <1>1. ASSUME NEW x \in Context
        PROVE  \/ Stays(x)
               \/ Moves(x) /\ Op(x) \notin Creating /\ (Op(x) = "join" => Kids(x) = {})
               \/ phase[x] = "run" /\ Turns(x, "suspending") /\ Op(x) \in {"join", "wait"}
               \/ phase[x] = "suspending" /\ Turns(x, "suspended") /\ Op(x) \in {"join", "wait"}
               \/ x = Main /\ Ended(x) /\ step'[x] = step[x] /\ phase'[x] \in Closing
    BY <1>0 DEF Fate, FateOfMain
  <1>2. ASSUME NEW x \in Context
        PROVE  /\ \A d : Awaits(x, d)' <=> Awaits(x, d)
               /\ \A i \in DOMAIN Program[x] :
                    Program[x][i].op \in Creating => (Made(x, i)' <=> Made(x, i))
    <2>1. CASE Stays(x)
      BY <2>1, StaysFacts
    <2>2. CASE Moves(x) /\ Op(x) \notin Creating
      <3>1. Op(x) # "await"
        BY <2>2 DEF Creating
      <3>2. \A i \in DOMAIN Program[x] : i \in Nat
        BY <1>0
      <3>3. \A i \in DOMAIN Program[x] : Program[x][i].op \in Creating => i # step[x]
        BY <2>2 DEF Op
      <3> QED BY <2>2, <3>1, <3>2, <3>3, MovesFacts
    <2>3. ASSUME NEW ph, Turns(x, ph), Op(x) \in {"join", "wait"}
          PROVE  /\ \A d : Awaits(x, d)' <=> Awaits(x, d)
                 /\ \A i : Made(x, i)' <=> Made(x, i)
      <3>1. Op(x) # "await"
        BY <2>3
      <3> QED BY <2>3, <3>1, TurnsFacts
    <2>4. CASE x = Main /\ Ended(x) /\ step'[x] = step[x] /\ phase'[x] \in Closing
      BY <1>0, <2>4 DEF Awaits, Made, Doing, Ended
    <2> QED BY <1>1, <2>1, <2>2, <2>3, <2>4
  <1>3. ASSUME NEW d \in Coroutine PROVE Done(d)' <=> Done(d)
    <2>1. CASE Stays(d) /\ Handles(d)' = Handles(d)
      BY <2>1, StaysFacts DEF Done
    <2>2. CASE Moves(d) /\ Handles(d)' = 1
      BY <2>2 DEF Done, Moves
    <2>3. CASE \E ph : Turns(d, ph)
      BY <2>3 DEF Done, Turns, Ended
    <2> QED BY <2>1, <2>2, <2>3 DEF Fate
  <1>4. \A c \in Context : Kids(c)' = Kids(c)
    BY <1>2, <1>3 DEF Kids
  <1>5. Tasks' = Tasks
    BY <1>3 DEF Tasks
  <1>6. Shut'
    BY <1>3 DEF Shut
  <1>7. Born'
    <2>1. ASSUME NEW x \in Context, NEW d \in Coroutine, NEW i \in DOMAIN Program[x], Makes(x, i, d)
          PROVE  parent'[d] = IF Made(x, i)' THEN Maker(x, i) ELSE NoJob
      <3>1. Program[x][i].op \in Creating
        BY <2>1 DEF Makes, Creating
      <3> QED BY <1>2, <2>1, <3>1 DEF Born
    <2> QED BY <2>1 DEF Born, Makes, Maker
  <1>8. Joins'
    <2>1. \A x \in Context :
           \/ step'[x] = step[x]
           \/ /\ ~Ended(x) /\ step'[x] = step[x] + 1
              /\ Op(x) = "join" => \A d \in Kids(x) : Done(d)'
              /\ Op(x) = "await" => \A d \in Coroutine : d = Argument(x) => Done(d)'
      BY <1>1 DEF Stays, Moves, Turns, Creating
    <2> QED BY <1>3, <2>1, JoinsStep
  <1>9. Phases'
    <2>1. ASSUME NEW x \in Context
          PROVE  /\ step'[x] <= Len(Program[x]) + 1
                 /\ phase'[x] \in Closing => x = Main /\ Ended(x)'
                 /\ phase'[x] = "suspending" => Doing(x, "wait", "suspending")' \/ Doing(x, "join", "suspending")'
                 /\ phase'[x] = "suspended" =>
                     Doing(x, "wait", "suspended")' \/ Doing(x, "join", "suspended")' \/ Doing(x, "await", "suspended")'
      <3>1. CASE Stays(x)
        BY <3>1, StaysFacts DEF Phases, Stays
      <3>2. CASE Moves(x)
        BY <1>0, <3>2 DEF Moves, Closing
      <3>3. ASSUME NEW ph \in {"suspending", "suspended"}, Turns(x, ph), Op(x) \in {"join", "wait"}
            PROVE  /\ step'[x] = step[x] /\ phase'[x] = ph
                   /\ Doing(x, "wait", ph)' \/ Doing(x, "join", ph)'
        <4>1. Op(x) # "await"
          BY <3>3
        <4>2. \A op : Doing(x, op, ph)' <=> op = Op(x)
          BY <3>3, <4>1, TurnsFacts
        <4> QED BY <3>3, <4>2 DEF Turns
      <3>4. CASE x = Main /\ Ended(x) /\ step'[x] = step[x] /\ phase'[x] \in Closing
        BY <3>4 DEF Phases, Ended, Closing
      <3> QED BY <1>1, <3>1, <3>2, <3>3, <3>4 DEF Phases, Closing
    <2> QED BY <2>1 DEF Phases
  <1>10. Owned'
    <2>1. ASSUME NEW c \in Coroutine PROVE OwnedBy(c)'
      <3>0. OwnedBy(c) /\ c \in Context
        BY <1>0 DEF Owned
      <3>1. CASE Stays(c) /\ Handles(c)' = Handles(c) /\ (event' = c <=> event = c)
        BY <3>0, <3>1, StaysFacts DEF OwnedBy, Stays
      <3>2. CASE parent[c] # NoJob /\ Moves(c) /\ Op(c) \notin Creating /\ Handles(c)' = 1 /\ event' # c
        <4>1. ~Doing(c, "wait", "suspended")'
          BY <3>2 DEF Moves, Doing
        <4> QED BY <3>2, <4>1 DEF OwnedBy, Moves
      <3>3. CASE /\ parent[c] # NoJob /\ phase[c] = "run" /\ Turns(c, "suspending")
                 /\ Op(c) \in {"join", "wait"} /\ Handles(c)' = Handles(c) /\ event' # c
        <4>1. ~Doing(c, "wait", "suspended")' /\ (Ended(c)' <=> Ended(c))
          BY <3>3 DEF Turns, Doing, Ended
        <4>2. Handles(c) = 1 /\ phase'[c] = "suspending"
          BY <3>0, <3>3 DEF OwnedBy, Turns
        <4> QED BY <3>3, <4>1, <4>2 DEF OwnedBy
      <3>4. CASE /\ parent[c] # NoJob /\ phase[c] = "suspending" /\ Turns(c, "suspended")
                 /\ Op(c) \in {"join", "wait"} /\ Handles(c)' = 0 /\ (event' = c <=> Op(c) = "wait")
        <4>1. Op(c) # "await"
          BY <3>4
        <4>2. Doing(c, "wait", "suspended")' <=> "wait" = Op(c)
          BY <3>0, <3>4, <4>1, TurnsFacts
        <4> QED BY <3>4, <4>2 DEF OwnedBy, Turns
      <3> QED BY <3>1, <3>2, <3>3, <3>4 DEF Fate
    <2> QED BY <2>1 DEF Owned
  <1> QED BY <1>4, <1>5, <1>6, <1>7, <1>8, <1>9, <1>10

(* What an instruction is about to make is not made yet. *)
LEMMA Unborn ==
  ASSUME Types, Owned, Born, NEW c \in Context, NEW d \in Coroutine,
         ~Ended(c), phase[c] = "run", Op(c) \in Creating, Argument(c) = d
  PROVE  /\ parent[d] = NoJob /\ Handles(d) = 0 /\ step[d] = 1 /\ phase[d] = "run"
         /\ Makes(c, step[c], d) /\ ~Done(d)
         /\ ~canceled \/ ~Shut
  <1>1. step[c] \in DOMAIN Program[c] /\ step[c] \in Nat
    BY Programs
  <1>2. Makes(c, step[c], d)
    BY <1>1 DEF Makes, Op, Argument, Creating
  <1>3. ~Made(c, step[c])
    BY <1>1 DEF Made, Doing
  <1>4. parent[d] = NoJob
    BY <1>1, <1>2, <1>3 DEF Born
  <1> QED BY <1>2, <1>4 DEF Owned, OwnedBy, Done, Shut

(* A step of c that makes d. *)
LEMMA CreateStep ==
  ASSUME Types, Types', Phases, Owned, Born, Joins, Shut,
         NEW c \in Context, NEW d \in Coroutine, ~Ended(c), phase[c] = "run",
         Op(c) \in Creating, Argument(c) = d,
         NEW v \in Context \cup {Group}, v = IF Op(c) = "spawn" THEN Group ELSE c,
         parent' = [parent EXCEPT ![d] = v], canceled' = canceled, event' = event,
         c \in Coroutine => parent[c] # NoJob,
         Op(c) = "await" => c \in Coroutine /\ Turns(c, "suspended") /\ Handles(c)' = 0,
         Op(c) # "await" => Moves(c) /\ (c \in Coroutine => Handles(c)' = 1),
         \A x \in Context \ {c} : Stays(x),
         Handles(d)' = 1,
         \A x \in Coroutine \ {c, d} : Handles(x)' = Handles(x)
  PROVE  /\ Phases' /\ Owned' /\ Born' /\ Joins' /\ Shut'
         /\ \A x \in Context : /\ d \notin Kids(x)
                               /\ Kids(x)' = IF x = v /\ Op(c) # "await" THEN Kids(x) \cup {d} ELSE Kids(x)
         /\ d \notin Tasks /\ Tasks' = IF v = Group THEN Tasks \cup {d} ELSE Tasks
  <1>0. /\ Main \notin Coroutine /\ Context = Coroutine \cup {Main} /\ Group \notin Context
        /\ \A x \in Context : /\ step[x] \in Nat \ {0} /\ Len(Program[x]) \in Nat
                              /\ DOMAIN Program[x] = 1 .. Len(Program[x])
                              /\ Ended(x) <=> step[x] \notin DOMAIN Program[x]
    BY HandlesAssumption, Programs DEF Context
  <1>1. /\ parent[d] = NoJob /\ Handles(d) = 0 /\ step[d] = 1 /\ phase[d] = "run"
        /\ Makes(c, step[c], d) /\ ~Done(d) /\ ~canceled
    BY Unborn
  <1>2. d # c /\ Stays(d)
    <2>1. d # c
      BY <1>0, <1>1
    <2> QED BY <1>0, <2>1
  <1>3. parent'[d] = v /\ v # NoJob /\ \A x \in Coroutine \ {d} : parent'[x] = parent[x]
    BY HandlesAssumption DEF Types, Context
  <1>4. ASSUME NEW x \in Coroutine \ {d} PROVE Done(x)' <=> Done(x)
    <2>1. CASE x = c
      <3>1. CASE Op(c) = "await"
        BY <2>1, <3>1 DEF Done, Turns, Ended
      <3>2. CASE Op(c) # "await"
        BY <2>1, <3>2 DEF Done
      <3> QED BY <3>1, <3>2
    <2>2. CASE x # c
      BY <1>0, <1>3, <2>2, StaysFacts DEF Done
    <2> QED BY <2>1, <2>2
  <1>5. ~Done(d)'
    BY DEF Done
  <1>6. /\ \A e : ~Awaits(c, e)
        /\ \A e \in Coroutine : Awaits(c, e)' <=> Op(c) = "await" /\ e = d
    <2>1. \A e : ~Awaits(c, e)
      BY DEF Awaits
    <2>2. CASE Op(c) = "await"
      BY <2>2 DEF Turns, Awaits, Ended, Argument, Op
    <2>3. CASE Op(c) # "await"
      BY <2>1, <2>3, MovesFacts
    <2> QED BY <2>1, <2>2, <2>3
  <1>7. ASSUME NEW x \in Context \ {c} PROVE \A e : Awaits(x, e)' <=> Awaits(x, e)
    BY <1>7, StaysFacts
  <1>8. ASSUME NEW x \in Context
        PROVE  /\ d \notin Kids(x)
               /\ Kids(x)' = IF x = v /\ Op(c) # "await" THEN Kids(x) \cup {d} ELSE Kids(x)
    <2>1. d \notin Kids(x)
      BY <1>1, HandlesAssumption DEF Kids, Context
    <2>2. \A e \in Coroutine \ {d} : Awaits(x, e)' <=> Awaits(x, e)
      BY <1>6, <1>7
    <2>3. \A e \in Coroutine \ {d} : e \in Kids(x)' <=> e \in Kids(x)
      BY <1>3, <1>4, <2>2 DEF Kids
    <2>4. d \in Kids(x)' <=> (x = v /\ Op(c) # "await")
      <3>1. d \in Kids(x)' <=> (v = x /\ ~Awaits(x, d)')
        BY <1>3, <1>5 DEF Kids
      <3>2. CASE x = c
        BY <1>6, <3>1, <3>2
      <3>3. CASE x # c
        BY <1>0, <3>1, <3>3
      <3> QED BY <3>2, <3>3
    <2>5. Kids(x)' \subseteq Coroutine /\ Kids(x) \subseteq Coroutine
      BY DEF Kids
    <2> QED BY <2>1, <2>3, <2>4, <2>5
  <1>9. d \notin Tasks /\ Tasks' = IF v = Group THEN Tasks \cup {d} ELSE Tasks
    <2>1. d \notin Tasks
      BY <1>1, HandlesAssumption DEF Tasks
    <2>2. \A e \in Coroutine \ {d} : e \in Tasks' <=> e \in Tasks
      BY <1>3, <1>4 DEF Tasks
    <2>3. d \in Tasks' <=> v = Group
      BY <1>3, <1>5 DEF Tasks
    <2>4. Tasks' \subseteq Coroutine /\ Tasks \subseteq Coroutine
      BY DEF Tasks
    <2> QED BY <2>1, <2>2, <2>3, <2>4
  <1>10. Shut'
    BY <1>1 DEF Shut
  <1>11. ASSUME NEW x \in Context, NEW i \in DOMAIN Program[x]
         PROVE  Made(x, i)' <=> (Made(x, i) \/ (x = c /\ i = step[c]))
    <2>1. CASE x # c
      BY <2>1, StaysFacts
    <2>2. CASE x = c /\ Op(c) # "await"
      <3>1. i \in Nat
        BY <1>0
      <3> QED BY <2>2, <3>1, MovesFacts
    <2>3. CASE x = c /\ Op(c) = "await"
      BY <2>3 DEF Made, Doing, Turns, Ended, Op
    <2> QED BY <2>1, <2>2, <2>3
  <1>12. Born'
    <2>1. ASSUME NEW x \in Context, NEW e \in Coroutine, NEW i \in DOMAIN Program[x], Makes(x, i, e)
          PROVE  parent'[e] = IF Made(x, i)' THEN Maker(x, i) ELSE NoJob
      <3>1. CASE e = d
        <4>1. x = c /\ i = step[c]
          <5>1. Makes(x, i, d) /\ Makes(c, step[c], d) /\ step[c] \in DOMAIN Program[c]
            BY <1>0, <1>1, <2>1, <3>1
          <5>2. \A y, z \in Context : \A j \in DOMAIN Program[y], k \in DOMAIN Program[z] :
                  Makes(y, j, d) /\ Makes(z, k, d) => y = z /\ j = k
            BY ProgramAssumption
          <5> QED BY <5>1, <5>2
        <4>2. Maker(x, i) = v
          BY <4>1 DEF Maker, Op
        <4> QED BY <1>3, <1>11, <3>1, <4>1, <4>2
      <3>2. CASE e # d
        <4>1. ~(x = c /\ i = step[c])
          BY <2>1, <3>2 DEF Makes, Argument
        <4> QED BY <1>3, <1>11, <2>1, <3>2, <4>1 DEF Born
      <3> QED BY <3>1, <3>2
    <2> QED BY <2>1 DEF Born, Makes, Maker
  <1>13. Joins'
    <2>1. \A x \in Context :
           \/ step'[x] = step[x]
           \/ /\ ~Ended(x) /\ step'[x] = step[x] + 1
              /\ Op(x) = "join" => \A e \in Kids(x) : Done(e)'
              /\ Op(x) = "await" => \A e \in Coroutine : e = Argument(x) => Done(e)'
      <3>1. \A x \in Context \ {c} : step'[x] = step[x]
        BY DEF Stays
      <3>2. CASE Op(c) = "await"
        BY <3>1, <3>2 DEF Turns
      <3>3. CASE Op(c) # "await"
        BY <3>1, <3>3 DEF Moves, Creating
      <3> QED BY <3>2, <3>3
    <2>2. \A e \in Coroutine : Done(e) => Done(e)'
      BY <1>1, <1>4
    <2> QED BY <2>1, <2>2, JoinsStep
  <1>14. Phases'
    <2>1. ASSUME NEW x \in Context
          PROVE  /\ step'[x] <= Len(Program[x]) + 1
                 /\ phase'[x] \in Closing => x = Main /\ Ended(x)'
                 /\ phase'[x] = "suspending" => Doing(x, "wait", "suspending")' \/ Doing(x, "join", "suspending")'
                 /\ phase'[x] = "suspended" =>
                     Doing(x, "wait", "suspended")' \/ Doing(x, "join", "suspended")' \/ Doing(x, "await", "suspended")'
      <3>1. CASE x # c
        <4>1. Stays(x)
          BY <3>1
        <4> QED BY <4>1, StaysFacts DEF Phases, Stays
      <3>2. CASE x = c /\ Op(c) # "await"
        BY <1>0, <3>2 DEF Moves, Closing
      <3>3. CASE x = c /\ Op(c) = "await"
        BY <3>3 DEF Turns, Closing, Doing, Ended, Op, Phases
      <3> QED BY <3>1, <3>2, <3>3
    <2> QED BY <2>1 DEF Phases
  <1>15. Owned'
    <2>1. ASSUME NEW x \in Coroutine PROVE OwnedBy(x)'
      <3>0. OwnedBy(x) /\ x \in Context
        BY <1>0 DEF Owned
      <3>1. CASE x \notin {c, d}
        BY <1>3, <3>0, <3>1, StaysFacts DEF OwnedBy, Stays
      <3>2. CASE x = d
        <4>1. ~Doing(d, "wait", "suspended")' /\ ~Doing(d, "wait", "suspended") /\ phase'[d] = "run"
          BY <1>1, <1>2 DEF Doing, Stays
        <4> QED BY <1>3, <3>0, <3>2, <4>1 DEF OwnedBy
      <3>3. CASE x = c
        <4>1. event' # c /\ parent'[c] # NoJob
          BY <1>2, <1>3, <3>0, <3>3 DEF OwnedBy, Doing
        <4>2. CASE Op(c) = "await"
          <5>1. ~Doing(c, "wait", "suspended")'
            BY <4>2 DEF Turns, Doing, Op
          <5> QED BY <3>3, <4>1, <4>2, <5>1 DEF OwnedBy, Turns
        <4>3. CASE Op(c) # "await"
          <5>1. ~Doing(c, "wait", "suspended")'
            BY <4>3 DEF Moves, Doing
          <5> QED BY <3>3, <4>1, <4>3, <5>1 DEF OwnedBy, Moves
        <4> QED BY <4>2, <4>3
      <3> QED BY <3>1, <3>2, <3>3
    <2> QED BY <2>1 DEF Owned
  <1> QED BY <1>8, <1>9, <1>10, <1>12, <1>13, <1>14, <1>15

(* A step that resumes what d, which is over, returns to: p goes past the  *)
(* await or the join it is suspended at, or nobody goes on.                *)
LEMMA EndStep ==
  ASSUME Types, Types', Phases, Owned, Born, Joins, Shut,
         NEW d \in Coroutine, NEW p \in Context,
         Ended(d), parent[d] # NoJob, Handles(d) = 1, Handles(d)' = 0, p # d,
         parent' = parent, canceled' = canceled, event' = event,
         \A x \in Context \ {p} : Stays(x),
         \A x \in Coroutine \ {d, p} : Handles(x)' = Handles(x),
         \/ Stays(p) /\ (p \in Coroutine => Handles(p)' = Handles(p))
         \/ /\ phase[p] = "suspended" /\ Moves(p) /\ (p \in Coroutine => parent[p] # NoJob /\ Handles(p)' = 1)
            /\ \/ Op(p) = "join" /\ Kids(p) = {d}
               \/ Op(p) = "await" /\ Argument(p) = d
  PROVE  /\ Phases' /\ Owned' /\ Born' /\ Joins' /\ Shut'
         /\ \A x \in Context : Kids(x)' = Kids(x) \ {d}
         /\ Tasks' = Tasks \ {d}
  <1>0. /\ Main \notin Coroutine /\ Context = Coroutine \cup {Main} /\ Group \notin Context
        /\ \A x \in Context : /\ step[x] \in Nat \ {0} /\ Len(Program[x]) \in Nat
                              /\ DOMAIN Program[x] = 1 .. Len(Program[x])
                              /\ Ended(x) <=> step[x] \notin DOMAIN Program[x]
    BY HandlesAssumption, Programs DEF Context
  <1>1. ~Done(d) /\ Done(d)' /\ Stays(d)
    <2>1. Stays(d)
      BY <1>0
    <2> QED BY <2>1, StaysFacts DEF Done
  <1>2. Stays(p) \/ (phase[p] = "suspended" /\ Moves(p) /\ Op(p) \in {"join", "await"})
    OBVIOUS
  <1>3. ASSUME NEW x \in Coroutine \ {d} PROVE Done(x)' <=> Done(x)
    <2>1. CASE Stays(x) /\ Handles(x)' = Handles(x)
      BY <2>1, StaysFacts DEF Done
    <2>2. CASE Moves(x) /\ Handles(x)' = 1
      BY <2>2 DEF Done, Moves
    <2> QED BY <1>0, <2>1, <2>2
  <1>4. ASSUME NEW x \in Context, NEW e \in Coroutine \ {d} PROVE Awaits(x, e)' <=> Awaits(x, e)
    <2>1. CASE Stays(x)
      BY <2>1, StaysFacts
    <2>2. CASE x = p /\ Moves(p) /\ (Op(p) = "join" \/ (Op(p) = "await" /\ Argument(p) = d))
      BY <2>2 DEF Moves, Awaits, Op
    <2> QED BY <2>1, <2>2
  <1>5. ASSUME NEW x \in Context PROVE Kids(x)' = Kids(x) \ {d}
    <2>1. \A e \in Coroutine \ {d} : e \in Kids(x)' <=> e \in Kids(x)
      BY <1>3, <1>4 DEF Kids
    <2>2. d \notin Kids(x)'
      BY <1>1 DEF Kids
    <2>3. Kids(x)' \subseteq Coroutine /\ Kids(x) \subseteq Coroutine
      BY DEF Kids
    <2> QED BY <2>1, <2>2, <2>3
  <1>6. Tasks' = Tasks \ {d}
    BY <1>1, <1>3 DEF Tasks
  <1>7. Shut'
    BY <1>1, <1>3 DEF Shut
  <1>8. ASSUME NEW x \in Context, NEW i \in DOMAIN Program[x], Program[x][i].op \in Creating
        PROVE  Made(x, i)' <=> Made(x, i)
    <2>1. CASE Stays(x)
      BY <2>1, StaysFacts
    <2>2. CASE x = p /\ Moves(p) /\ Op(p) = "join"
      <3>1. i \in Nat /\ i # step[p]
        BY <1>0, <1>8, <2>2 DEF Op, Creating
      <3>2. Op(p) # "await"
        BY <2>2
      <3> QED BY <2>2, <3>1, <3>2, MovesFacts
    <2>3. CASE x = p /\ Moves(p) /\ Op(p) = "await" /\ phase[p] = "suspended"
      <3>1. i \in Nat /\ step[p] \in Nat /\ step'[p] = step[p] + 1 /\ phase'[p] = "run"
        BY <1>0, <2>3 DEF Moves
      <3>2. Doing(p, "await", "suspended") /\ ~Doing(p, "await", "suspended")'
        BY <2>3, <3>1 DEF Doing, Moves
      <3> QED BY <2>3, <3>1, <3>2 DEF Made
    <2> QED BY <1>2, <2>1, <2>2, <2>3
  <1>9. Born'
    <2>1. ASSUME NEW x \in Context, NEW e \in Coroutine, NEW i \in DOMAIN Program[x], Makes(x, i, e)
          PROVE  parent'[e] = IF Made(x, i)' THEN Maker(x, i) ELSE NoJob
      <3>1. Program[x][i].op \in Creating
        BY <2>1 DEF Makes, Creating
      <3> QED BY <1>8, <2>1, <3>1 DEF Born
    <2> QED BY <2>1 DEF Born, Makes, Maker
  <1>10. Joins'
    <2>1. \A x \in Context :
           \/ step'[x] = step[x]
           \/ /\ ~Ended(x) /\ step'[x] = step[x] + 1
              /\ Op(x) = "join" => \A e \in Kids(x) : Done(e)'
              /\ Op(x) = "await" => \A e \in Coroutine : e = Argument(x) => Done(e)'
      BY <1>1 DEF Stays, Moves
    <2>2. \A e \in Coroutine : Done(e) => Done(e)'
      BY <1>1, <1>3
    <2> QED BY <2>1, <2>2, JoinsStep
  <1>11. Phases'
    <2>1. ASSUME NEW x \in Context
          PROVE  /\ step'[x] <= Len(Program[x]) + 1
                 /\ phase'[x] \in Closing => x = Main /\ Ended(x)'
                 /\ phase'[x] = "suspending" => Doing(x, "wait", "suspending")' \/ Doing(x, "join", "suspending")'
                 /\ phase'[x] = "suspended" =>
                     Doing(x, "wait", "suspended")' \/ Doing(x, "join", "suspended")' \/ Doing(x, "await", "suspended")'
      <3>1. CASE Stays(x)
        BY <3>1, StaysFacts DEF Phases, Stays
      <3>2. CASE Moves(x)
        BY <1>0, <3>2 DEF Moves, Closing
      <3> QED BY <1>2, <3>1, <3>2
    <2> QED BY <2>1 DEF Phases
  <1>12. Owned'
    <2>1. ASSUME NEW x \in Coroutine PROVE OwnedBy(x)'
      <3>0. OwnedBy(x) /\ x \in Context
        BY <1>0 DEF Owned
      <3>1. CASE Stays(x) /\ x # d /\ Handles(x)' = Handles(x)
        BY <3>0, <3>1, StaysFacts DEF OwnedBy, Stays
      <3>2. CASE x = d
        <4>1. ~Doing(d, "wait", "suspended") /\ ~Doing(d, "wait", "suspended")' /\ Ended(d)'
          BY <1>1, StaysFacts DEF Doing
        <4> QED BY <1>1, <3>0, <3>2, <4>1 DEF OwnedBy, Stays
      <3>3. CASE x = p /\ Moves(p) /\ phase[p] = "suspended" /\ Op(p) \in {"join", "await"}
                 /\ parent[p] # NoJob /\ Handles(p)' = 1
        <4>1. ~Doing(p, "wait", "suspended") /\ ~Doing(p, "wait", "suspended")' /\ phase'[p] = "run"
          BY <3>3 DEF Doing, Moves
        <4> QED BY <3>0, <3>3, <4>1 DEF OwnedBy
      <3> QED BY <1>0, <1>2, <3>1, <3>2, <3>3
    <2> QED BY <2>1 DEF Owned
  <1> QED BY <1>5, <1>6, <1>7, <1>9, <1>10, <1>11, <1>12

------------------------------------------------------------------------------
(* The steps.  A plain step that touches no nursery, no group and not main *)
(* keeps the whole invariant.                                              *)
LEMMA PlainCInv ==
  ASSUME CInv, Types', Busy', parent' = parent, canceled' = canceled,
         \A c \in Coroutine : Fate(c) /\ (~Stays(c) => Op(c) # "join"),
         Stays(Main), Handles(Frame)' = Handles(Frame),
         UNCHANGED <<counter, children, group, seen, called>>,
         Jobs(Callback)' \subseteq Jobs(Callback)
  PROVE  CInv'
  <1> USE DEF CInv
  <1>0. Main \notin Coroutine /\ Context = Coroutine \cup {Main}
    BY HandlesAssumption DEF Context
  <1>1. /\ Phases' /\ Owned' /\ Born' /\ Joins' /\ Shut'
        /\ \A c \in Context : Kids(c)' = Kids(c)
        /\ Tasks' = Tasks
    BY PlainStep DEF FateOfMain
  <1>2. ASSUME NEW x \in Context PROVE Doing(x, "join", "suspended")' <=> Doing(x, "join", "suspended")
    <2>1. CASE Stays(x)
      BY <2>1, StaysFacts
    <2>2. CASE ~Stays(x)
      <3>1. x \in Coroutine /\ Op(x) # "join"
        BY <1>0, <2>2
      <3>2. step'[x] = step[x] \/ phase'[x] = "run"
        BY <3>1 DEF Fate, Stays, Moves, Turns
      <3> QED BY <3>1, <3>2 DEF Doing, Op
    <2> QED BY <2>1, <2>2
  <1>3. Nurseries'
    BY <1>1, <1>2 DEF Nurseries, Counted
  <1>4. phase'[Main] = phase[Main] /\ Op(Main)' = Op(Main)
    BY StaysFacts DEF Stays
  <1>5. MainFrame'
    BY <1>4 DEF MainFrame
  <1>6. Groups'
    BY <1>1, <1>4 DEF Groups
  <1> QED BY <1>1, <1>3, <1>5, <1>6

(* The coroutine that worker w is running is at an instruction. *)
LEMMA Running ==
  ASSUME CInv, NEW w \in Worker, NEW op, NEW ph, ph # "suspended", At(w, op, ph)
  PROVE  /\ ContextOf(w) = job[w] /\ w # Main /\ pc[w] = "run"
         /\ job[w] \in Coroutine /\ job[w] \in Context
         /\ ~Ended(job[w]) /\ Op(job[w]) = op /\ phase[job[w]] = ph
         /\ Handles(job[w]) = 1 /\ parent[job[w]] # NoJob
         /\ event # job[w]
  <1>1. w # Main /\ Main \notin Coroutine /\ Context = Coroutine \cup {Main}
    BY WorkQueueAssumption, CoroutinesAssumption, HandlesAssumption DEF Context
  <1>2. ContextOf(w) = job[w] /\ pc[w] = "run" /\ job[w] \in Context
        /\ ~Ended(job[w]) /\ Op(job[w]) = op /\ phase[job[w]] = ph
    BY <1>1 DEF At, Runs, ContextOf, Op
  <1>3. job[w] \in Coroutine
    BY <1>1, <1>2, HandlesAssumption DEF CInv, Types, HandleTypes, Item
  <1>4. HandleTypes /\ OwnedBy(job[w])
    BY <1>3 DEF CInv, Types, Owned
  <1>5. Handles(job[w]) >= 1 /\ Handles(job[w]) \in Nat
    BY <1>4, HandlesNat
  <1>6. event # job[w]
    BY <1>2, <1>4 DEF OwnedBy, Doing
  <1> QED BY <1>1, <1>2, <1>3, <1>4, <1>5, <1>6 DEF OwnedBy

(* The worker that runs drops what it runs for y, and may push z. *)
LEMMA JobTypes ==
  ASSUME CInv, NEW w \in Worker, pc[w] = "run", pc' = pc,
         NEW y \in Item \cup {NoJob, Arm, Callback}, Becomes(w, y),
         NEW z \in Item, deque' = deque \/ Pushed(z)
  PROVE  /\ HandleTypes' /\ Busy'
         /\ y # Callback => Jobs(Callback)' \subseteq Jobs(Callback)
  <1>0. deque \in Seq(Item) /\ job \in [Worker -> Item \cup {NoJob, Arm, Callback}]
    BY DEF CInv, Types, HandleTypes
  <1>1. HandleTypes'
    BY <1>0 DEF HandleTypes, Becomes, Pushed
  <1>2. Busy'
    BY <1>0 DEF CInv, Busy, Becomes
  <1>3. y # Callback => Jobs(Callback)' \subseteq Jobs(Callback)
    BY <1>0 DEF Jobs, Becomes
  <1> QED BY <1>1, <1>2, <1>3

(* No job changes, and z may be pushed. *)
LEMMA PushTypes ==
  ASSUME CInv, pc' = pc, job' = job, NEW z \in Item, deque' = deque \/ Pushed(z)
  PROVE  /\ HandleTypes' /\ Busy'
         /\ Jobs(Callback)' \subseteq Jobs(Callback)
  <1>0. deque \in Seq(Item) /\ job \in [Worker -> Item \cup {NoJob, Arm, Callback}]
    BY DEF CInv, Types, HandleTypes
  <1>1. HandleTypes'
    BY <1>0 DEF HandleTypes, Pushed
  <1> QED BY <1>1 DEF CInv, Busy, Jobs

LEMMA YieldCInv == ASSUME CInv, NEW w \in Worker, Yield(w) PROVE CInv'
  <1> DEFINE c == job[w]
  <1>1. /\ c \in Coroutine /\ c \in Context /\ pc[w] = "run" /\ ~Ended(c) /\ Op(c) = "yield"
        /\ Handles(c) = 1 /\ parent[c] # NoJob /\ event # c
    <2>1. At(w, "yield", "run")
      BY DEF Yield
    <2> QED BY <2>1, Running
  <1>2. /\ Becomes(w, NoJob) /\ Pushed(c)
        /\ step' = [step EXCEPT ![c] = @ + 1] /\ phase' = [phase EXCEPT ![c] = "run"]
        /\ UNCHANGED <<parent, children, counter, event, group, seen, called, canceled, pc>>
    BY DEF Yield, Pushes, PushBack, Pushed, Past, eventVars, groupVars
  <1>3. NoJob \notin Item /\ c \in Item /\ Frame \in Item /\ NoJob # Callback
    BY <1>1, HandlesAssumption DEF Item
  <1>4. \A x \in Item : Handles(x)' = Handles(x)
    <2>1. HandleTypes
      BY DEF CInv, Types
    <2>2. ASSUME NEW x \in Item PROVE Handles(x)' = Handles(x)
      <3>1. Handles(x)' = Handles(x) - Is(job[w], x) + Is(NoJob, x) + Is(c, x)
        BY <1>2, <2>1, HandlesBoth
      <3>2. Handles(x) \in Nat
        BY <2>1, HandlesNat
      <3> QED BY <1>3, <3>1, <3>2 DEF Is
    <2> QED BY <2>2
  <1> HIDE DEF c
  <1>5. step \in [Context -> Nat \ {0}]
        /\ phase \in [Context -> {"run", "suspending", "suspended"} \cup Closing]
    BY DEF CInv, Types
  <1>6. Moves(c) /\ \A x \in Context \ {c} : Stays(x)
    BY <1>1, <1>2, <1>5 DEF Moves, Stays
  <1>7. HandleTypes' /\ Busy' /\ Jobs(Callback)' \subseteq Jobs(Callback)
    BY <1>1, <1>2, <1>3, JobTypes
  <1>8. Types'
    <2>1. step' \in [Context -> Nat \ {0}]
      BY <1>1, <1>2, <1>5
    <2>2. phase' \in [Context -> {"run", "suspending", "suspended"} \cup Closing]
      BY <1>1, <1>2, <1>5
    <2> QED BY <1>2, <1>7, <2>1, <2>2 DEF CInv, Types
  <1>9. ASSUME NEW x \in Coroutine PROVE Fate(x) /\ (~Stays(x) => Op(x) # "join")
    <2>1. CASE x = c
      BY <1>1, <1>2, <1>3, <1>4, <1>6, <2>1 DEF Fate, Creating
    <2>2. CASE x # c
      BY <1>2, <1>4, <1>6, <2>2 DEF Fate, Context, Item
    <2> QED BY <2>1, <2>2
  <1>10. Stays(Main)
    BY <1>1, <1>6, HandlesAssumption DEF Context
  <1> QED BY <1>2, <1>3, <1>4, <1>7, <1>8, <1>9, <1>10, PlainCInv

(* A context goes past its instruction, or changes its phase at it. *)
LEMMA PastFacts ==
  ASSUME Types, NEW c \in Context, ~Ended(c), Past(c)
  PROVE  /\ step' \in [Context -> Nat \ {0}]
         /\ phase' \in [Context -> {"run", "suspending", "suspended"} \cup Closing]
         /\ Moves(c) /\ \A x \in Context \ {c} : Stays(x)
  <1>1. step \in [Context -> Nat \ {0}]
        /\ phase \in [Context -> {"run", "suspending", "suspended"} \cup Closing]
    BY DEF Types
  <1>2. step' = [step EXCEPT ![c] = @ + 1] /\ phase' = [phase EXCEPT ![c] = "run"]
    BY DEF Past
  <1>3. step' \in [Context -> Nat \ {0}]
    BY <1>1, <1>2
  <1>4. phase' \in [Context -> {"run", "suspending", "suspended"} \cup Closing]
    BY <1>1, <1>2
  <1>5. Moves(c) /\ \A x \in Context \ {c} : Stays(x)
    BY <1>1, <1>2 DEF Moves, Stays
  <1> QED BY <1>3, <1>4, <1>5

(* Only one coroutine changes its phase. *)
LEMMA TurnFacts ==
  ASSUME Types, NEW c \in Context, NEW ph \in {"suspending", "suspended"} \cup Closing,
         step' = step, phase' = [phase EXCEPT ![c] = ph]
  PROVE  /\ step' \in [Context -> Nat \ {0}]
         /\ phase' \in [Context -> {"run", "suspending", "suspended"} \cup Closing]
         /\ phase'[c] = ph /\ (~Ended(c) => Turns(c, ph))
         /\ \A x \in Context \ {c} : Stays(x)
  <1>1. step \in [Context -> Nat \ {0}]
        /\ phase \in [Context -> {"run", "suspending", "suspended"} \cup Closing]
    BY DEF Types
  <1>2. phase' \in [Context -> {"run", "suspending", "suspended"} \cup Closing]
    BY <1>1
  <1>3. phase'[c] = ph /\ (~Ended(c) => Turns(c, ph)) /\ \A x \in Context \ {c} : Stays(x)
    BY <1>1 DEF Turns, Stays
  <1> QED BY <1>1, <1>2, <1>3

(* A step that touches no coroutine keeps what all of them have. *)
LEMMA StillFacts ==
  ASSUME Types, step' = step, phase' = phase
  PROVE  /\ step' \in [Context -> Nat \ {0}]
         /\ phase' \in [Context -> {"run", "suspending", "suspended"} \cup Closing]
         /\ \A x \in Context : Stays(x)
  BY DEF Types, Stays

LEMMA EventReadyCInv == ASSUME CInv, NEW w \in Worker, EventReady(w) PROVE CInv'
  <1> DEFINE c == job[w]
  <1>1. /\ c \in Coroutine /\ c \in Context /\ pc[w] = "run" /\ ~Ended(c) /\ Op(c) = "wait"
        /\ phase[c] = "run" /\ Handles(c) = 1 /\ parent[c] # NoJob /\ event # c
    <2>1. At(w, "wait", "run")
      BY DEF EventReady
    <2> QED BY <2>1, Running
  <1>2. /\ UNCHANGED <<parent, children, counter, event, group, seen, called, canceled, pc, job, deque>>
        /\ Past(c) \/ (step' = step /\ phase' = [phase EXCEPT ![c] = "suspending"])
    BY DEF EventReady, QueueQuiet, eventVars, groupVars
  <1> HIDE DEF c
  <1>3. Types
    BY DEF CInv
  <1>4. /\ step' \in [Context -> Nat \ {0}]
        /\ phase' \in [Context -> {"run", "suspending", "suspended"} \cup Closing]
        /\ Moves(c) \/ Turns(c, "suspending")
        /\ \A x \in Context \ {c} : Stays(x)
    BY <1>1, <1>2, <1>3, PastFacts, TurnFacts
  <1>5. \A x : Handles(x)' = Handles(x)
    BY <1>2, HandlesQuiet
  <1>6. Types' /\ Busy' /\ Jobs(Callback)' = Jobs(Callback)
    BY <1>2, <1>3, <1>4 DEF CInv, Types, HandleTypes, Busy, Jobs
  <1>7. ASSUME NEW x \in Coroutine PROVE Fate(x) /\ (~Stays(x) => Op(x) # "join")
    <2>1. CASE x = c
      BY <1>1, <1>2, <1>4, <1>5, <2>1 DEF Fate, Creating
    <2>2. CASE x # c
      BY <1>2, <1>4, <1>5, <2>2 DEF Fate, Context
    <2> QED BY <2>1, <2>2
  <1>8. Stays(Main)
    BY <1>1, <1>4, HandlesAssumption DEF Context
  <1> QED BY <1>2, <1>5, <1>6, <1>7, <1>8, PlainCInv

LEMMA EventSuspendCInv == ASSUME CInv, NEW w \in Worker, EventSuspend(w) PROVE CInv'
  <1> DEFINE c == job[w]
  <1>1. /\ c \in Coroutine /\ c \in Context /\ pc[w] = "run" /\ ~Ended(c) /\ Op(c) = "wait"
        /\ phase[c] = "suspending" /\ Handles(c) = 1 /\ parent[c] # NoJob /\ event # c
    <2>1. At(w, "wait", "suspending")
      BY DEF EventSuspend
    <2> QED BY <2>1, Running
  <1>2. /\ UNCHANGED <<parent, children, counter, group, seen, called, canceled, pc, deque>>
        /\ \/ /\ event = EMPTY /\ event' = c /\ Becomes(w, Arm)
              /\ step' = step /\ phase' = [phase EXCEPT ![c] = "suspended"]
           \/ event # EMPTY /\ event' = event /\ job' = job /\ Past(c)
    BY DEF EventSuspend, QueueQuiet, groupVars
  <1>3. Types /\ HandleTypes
    BY DEF CInv, Types
  <1>4. Handles(c) = 1 /\ Frame \in Item /\ c \in Item /\ Coroutine \subseteq Item
    BY <1>1 DEF Item
  <1>5. CASE job' = job /\ event' = event /\ Past(c)
    <2> HIDE DEF c
    <2>1. /\ step' \in [Context -> Nat \ {0}]
          /\ phase' \in [Context -> {"run", "suspending", "suspended"} \cup Closing]
          /\ Moves(c) /\ \A x \in Context \ {c} : Stays(x)
      BY <1>1, <1>3, <1>5, PastFacts
    <2>2. \A x : Handles(x)' = Handles(x)
      BY <1>2, <1>5, HandlesQuiet
    <2>3. Types' /\ Busy' /\ Jobs(Callback)' = Jobs(Callback)
      BY <1>2, <1>3, <1>5, <2>1 DEF CInv, Types, HandleTypes, Busy, Jobs
    <2>4. ASSUME NEW x \in Coroutine PROVE Fate(x) /\ (~Stays(x) => Op(x) # "join")
      <3>1. CASE x = c
        BY <1>1, <1>5, <2>1, <2>2, <3>1 DEF Fate, Creating
      <3>2. CASE x # c
        BY <1>5, <2>1, <2>2, <3>2 DEF Fate, Context
      <3> QED BY <3>1, <3>2
    <2>5. Stays(Main)
      BY <1>1, <2>1, HandlesAssumption DEF Context
    <2> QED BY <1>2, <2>2, <2>3, <2>4, <2>5, PlainCInv
  <1>6. CASE /\ event = EMPTY /\ event' = c /\ Becomes(w, Arm)
             /\ step' = step /\ phase' = [phase EXCEPT ![c] = "suspended"]
    <2>1. \A x \in Item : Handles(x)' = Handles(x) - Is(c, x)
      <3>1. ASSUME NEW x \in Item PROVE Handles(x)' = Handles(x) - Is(c, x)
        <4>1. Handles(x)' = Handles(x) - Is(c, x) + Is(Arm, x)
          BY <1>2, <1>3, <1>6, HandlesJob
        <4>2. Arm # x
          BY HandlesAssumption DEF Item
        <4>3. Handles(x) \in Nat
          BY <1>3, HandlesNat
        <4> QED BY <4>1, <4>2, <4>3 DEF Is
      <3> QED BY <3>1
    <2>2. HandleTypes' /\ Busy' /\ Jobs(Callback)' \subseteq Jobs(Callback)
      <3>1. Arm \in Item \cup {NoJob, Arm, Callback} /\ Arm # Callback
        BY HandlesAssumption
      <3> QED BY <1>1, <1>2, <1>4, <1>6, <3>1, JobTypes
    <2> HIDE DEF c
    <2>3. /\ step' \in [Context -> Nat \ {0}]
          /\ phase' \in [Context -> {"run", "suspending", "suspended"} \cup Closing]
          /\ Turns(c, "suspended") /\ \A x \in Context \ {c} : Stays(x)
      BY <1>1, <1>3, <1>6, TurnFacts
    <2>4. Types'
      BY <1>1, <1>2, <1>3, <1>6, <2>2, <2>3 DEF Types
    <2>5. ASSUME NEW x \in Coroutine PROVE Fate(x) /\ (~Stays(x) => Op(x) # "join")
      <3>0. x \in Item /\ Handles(x) \in Nat
        BY <1>3, <1>4, HandlesNat
      <3>1. CASE x = c
        BY <1>1, <1>6, <2>1, <2>3, <3>0, <3>1 DEF Fate, Is
      <3>2. CASE x # c
        <4>1. Handles(x)' = Handles(x)
          BY <2>1, <3>0, <3>2 DEF Is
        <4>2. event' # x /\ event # x
          BY <1>6, <3>2, HandlesAssumption
        <4> QED BY <2>3, <3>2, <4>1, <4>2 DEF Fate, Context
      <3> QED BY <3>1, <3>2
    <2>6. Stays(Main) /\ Handles(Frame)' = Handles(Frame)
      <3>1. Frame # c /\ Main # c /\ Main \in Context
        BY <1>1, HandlesAssumption DEF Context
      <3>2. Handles(Frame) \in Nat
        BY <1>3, HandlesNat
      <3> QED BY <1>4, <2>1, <2>3, <3>1, <3>2 DEF Is
    <2> QED BY <1>2, <2>2, <2>4, <2>5, <2>6, PlainCInv
  <1> QED BY <1>2, <1>5, <1>6

LEMMA ArmTimerCInv == ASSUME CInv, NEW w \in Worker, ArmTimer(w) PROVE CInv'
  <1>1. /\ pc[w] = "run" /\ job[w] = Arm /\ Becomes(w, NoJob)
        /\ UNCHANGED <<step, phase, parent, children, counter, event, group, seen, called, canceled, pc, deque>>
    <2>1. w # Main
      BY WorkQueueAssumption, CoroutinesAssumption
    <2> QED BY <2>1 DEF ArmTimer, Runs, QueueQuiet, contextVars, groupVars
  <1>2. Types /\ HandleTypes
    BY DEF CInv, Types
  <1>3. \A x \in Item : Handles(x)' = Handles(x)
    <2>1. ASSUME NEW x \in Item PROVE Handles(x)' = Handles(x)
      <3>1. Handles(x)' = Handles(x) - Is(Arm, x) + Is(NoJob, x)
        BY <1>1, <1>2, HandlesJob
      <3>2. Arm # x /\ NoJob # x
        BY HandlesAssumption DEF Item
      <3>3. Handles(x) \in Nat
        BY <1>2, HandlesNat
      <3> QED BY <3>1, <3>2, <3>3 DEF Is
    <2> QED BY <2>1
  <1>4. HandleTypes' /\ Busy' /\ Jobs(Callback)' \subseteq Jobs(Callback)
    <2>1. NoJob # Callback /\ Frame \in Item
      BY HandlesAssumption DEF Item
    <2> QED BY <1>1, <2>1, JobTypes
  <1>5. Types' /\ \A x \in Context : Stays(x)
    BY <1>1, <1>2, <1>4, StillFacts DEF Types
  <1>6. \A x \in Coroutine : Fate(x)
    BY <1>1, <1>3, <1>5 DEF Fate, Item, Context
  <1>7. Main \in Context /\ Frame \in Item /\ Coroutine \subseteq Context
    BY DEF Context, Item
  <1> QED BY <1>1, <1>3, <1>4, <1>5, <1>6, <1>7, PlainCInv

(* The event's outcome schedules the handle it has, if it has one. *)
LEMMA DecideFacts ==
  ASSUME CInv, NEW t \in Thread, NEW terminal \in {SIGNALED, TIMED_OUT},
         Decide(t, terminal), job' = job
  PROVE  /\ pc' = pc /\ canceled' = canceled /\ HandleTypes' /\ Busy'
         /\ Jobs(Callback)' \subseteq Jobs(Callback)
         /\ event' \in {SIGNALED, TIMED_OUT}
         /\ Handles(Frame)' = Handles(Frame)
         /\ \A x \in Coroutine : Handles(x)' = IF x = event THEN 1 ELSE Handles(x)
  <1>1. HandleTypes /\ event \in Coroutine \cup {EMPTY, SIGNALED, TIMED_OUT}
    BY DEF CInv, Types
  <1>2. Frame \in Item /\ Coroutine \subseteq Item
    BY DEF Item
  <1>3. CASE event \in {SIGNALED, TIMED_OUT, EMPTY}
    <2>1. /\ deque' = deque /\ pc' = pc /\ canceled' = canceled
          /\ event' \in {SIGNALED, TIMED_OUT}
      BY <1>3, HandlesAssumption DEF Decide, QueueQuiet
    <2>2. HandleTypes' /\ Busy' /\ Jobs(Callback)' \subseteq Jobs(Callback)
      BY <1>2, <2>1, PushTypes
    <2>3. \A x : Handles(x)' = Handles(x)
      BY <2>1, HandlesQuiet
    <2>4. event \notin Coroutine
      BY <1>3, HandlesAssumption
    <2> QED BY <2>1, <2>2, <2>3, <2>4
  <1>4. CASE event \in Coroutine
    <2>1. Pushed(event) /\ pc' = pc /\ canceled' = canceled /\ event' = terminal
      <3>1. event \notin {SIGNALED, TIMED_OUT, EMPTY}
        BY <1>4, HandlesAssumption
      <3>2. Pushes(t, event) /\ event' = terminal
        BY <3>1 DEF Decide
      <3> QED BY <3>2 DEF Pushes, PushBack, Pushed
    <2>2. HandleTypes' /\ Busy' /\ Jobs(Callback)' \subseteq Jobs(Callback)
      BY <1>2, <1>4, <2>1, PushTypes
    <2>3. \A x : Handles(x) \in Nat /\ Handles(x)' = Handles(x) + Is(event, x)
      BY <1>1, <2>1, HandlesNat, HandlesPush
    <2>4. Handles(event) = 0
      BY <1>1, <1>4 DEF CInv, Owned, OwnedBy, Doing
    <2>5. Frame # event
      BY <1>4, HandlesAssumption
    <2> QED BY <2>1, <2>2, <2>3, <2>4, <2>5 DEF Is
  <1> QED BY <1>1, <1>3, <1>4

(* Whoever decides, being one of S, goes on, and so does the waiter. *)
LEMMA DecideCInv ==
  ASSUME CInv, NEW t \in Thread, NEW terminal \in {SIGNALED, TIMED_OUT},
         Decide(t, terminal), NEW S \in SUBSET Coroutine, Move(Resumed(S)),
         \A c \in S : ~Ended(c) /\ Op(c) = "signal" /\ Handles(c) = 1 /\ parent[c] # NoJob /\ event # c,
         UNCHANGED <<job, parent, children, counter, groupVars>>
  PROVE  CInv'
  <1>1. /\ pc' = pc /\ canceled' = canceled /\ HandleTypes' /\ Busy'
        /\ Jobs(Callback)' \subseteq Jobs(Callback)
        /\ event' \in {SIGNALED, TIMED_OUT}
        /\ Handles(Frame)' = Handles(Frame)
        /\ \A x \in Coroutine : Handles(x)' = IF x = event THEN 1 ELSE Handles(x)
    BY DecideFacts
  <1>2. Types /\ Main \notin Coroutine /\ Context = Coroutine \cup {Main}
        /\ \A x \in Coroutine : event' # x
    BY <1>1, HandlesAssumption DEF CInv, Context
  <1>3. ASSUME NEW x \in Context
        PROVE  /\ step'[x] = IF x \in Resumed(S) THEN step[x] + 1 ELSE step[x]
               /\ phase'[x] = IF x \in Resumed(S) THEN "run" ELSE phase[x]
    BY DEF Move
  <1>4. Types'
    <2>1. step \in [Context -> Nat \ {0}] /\ step' \in [Context -> Nat \ {0}]
      BY <1>2 DEF Types, Move
    <2>2. phase' \in [Context -> {"run", "suspending", "suspended"} \cup Closing]
      BY <1>2 DEF Types, Move
    <2> QED BY <1>1, <1>2, <2>1, <2>2 DEF Types, groupVars
  <1>5. Resumed(S) \subseteq Coroutine
    BY DEF Resumed
  <1>6. ASSUME NEW x \in Coroutine PROVE Fate(x) /\ (~Stays(x) => Op(x) # "join")
    <2>1. CASE x = event
      <3>1. Doing(x, "wait", "suspended") /\ parent[x] # NoJob
        BY <2>1 DEF CInv, Owned, OwnedBy, Doing
      <3>2. Moves(x)
        BY <1>2, <1>3, <2>1, <3>1 DEF Resumed, Moves, Doing
      <3> QED BY <1>1, <1>2, <2>1, <3>1, <3>2 DEF Fate, Doing, Creating
    <2>2. CASE x \in S
      <3>1. Moves(x)
        BY <1>2, <1>3, <2>2 DEF Resumed, Moves
      <3> QED BY <1>1, <1>2, <2>2, <3>1 DEF Fate, Creating
    <2>3. CASE x # event /\ x \notin S
      <3>1. Stays(x)
        BY <1>2, <1>3, <2>3 DEF Resumed, Stays
      <3> QED BY <1>1, <1>2, <2>3, <3>1 DEF Fate
    <2> QED BY <2>1, <2>2, <2>3
  <1>7. Stays(Main)
    BY <1>2, <1>3, <1>5 DEF Stays
  <1> QED BY <1>1, <1>4, <1>6, <1>7, PlainCInv DEF groupVars

LEMMA SignalCInv == ASSUME CInv, NEW w \in Worker, Signal(w) PROVE CInv'
  <1>1. /\ job[w] \in Coroutine /\ ~Ended(job[w]) /\ Op(job[w]) = "signal"
        /\ Handles(job[w]) = 1 /\ parent[job[w]] # NoJob /\ event # job[w]
    <2>1. At(w, "signal", "run")
      BY DEF Signal
    <2> QED BY <2>1, Running
  <1>2. Decide(w, SIGNALED) /\ Move(Resumed({job[w]})) /\ w \in Thread
        /\ UNCHANGED <<job, parent, children, counter, groupVars>>
    BY DEF Signal, Thread
  <1> QED BY <1>1, <1>2, DecideCInv

LEMMA FireCInv == ASSUME CInv, Fire PROVE CInv'
  <1>1. Decide(Timer, TIMED_OUT) /\ Move(Resumed({})) /\ Timer \in Thread
        /\ UNCHANGED <<job, parent, children, counter, groupVars>>
    BY CoroutinesAssumption DEF Fire, Thread
  <1> QED BY <1>1, DecideCInv

(* What the pool does between two resumptions moves no coroutine. *)
LEMMA QuietCInv ==
  ASSUME CInv, Others, canceled' = canceled, HandleTypes', Busy',
         pc' \in [Worker -> {"wait", "asleep", "check", "pop", "run", "exit"}],
         \A x \in Item : Handles(x)' = Handles(x),
         Jobs(Callback)' \subseteq Jobs(Callback)
  PROVE  CInv'
  <1>1. UNCHANGED <<step, phase, parent, children, counter, event, group, seen, called>>
    BY DEF Others, contextVars, eventVars, groupVars
  <1>2. Types
    BY DEF CInv
  <1>3. Types' /\ \A x \in Context : Stays(x)
    BY <1>1, <1>2, StillFacts DEF Types
  <1>4. Main \in Context /\ Frame \in Item /\ Coroutine \subseteq Context /\ Coroutine \subseteq Item
    BY DEF Context, Item
  <1>5. \A x \in Coroutine : Fate(x)
    BY <1>1, <1>3, <1>4 DEF Fate
  <1> QED BY <1>1, <1>3, <1>4, <1>5, PlainCInv

LEMMA ServeCInv == ASSUME CInv, NEW w \in Worker, Serve(w), Others PROVE CInv'
  <1>1. /\ HandleTypes /\ Busy
        /\ pc \in [Worker -> {"wait", "asleep", "check", "pop", "run", "exit"}]
    BY DEF CInv, Types
  <1>2. ASSUME job' = job, deque' = deque, canceled' = canceled,
               pc' \in [Worker -> {"wait", "asleep", "check", "pop", "run", "exit"}],
               \A v \in Worker : pc[v] = "run" /\ job[v] # NoJob => pc'[v] = "run"
        PROVE  CInv'
    <2>1. \A x : Handles(x)' = Handles(x)
      BY <1>2, HandlesQuiet
    <2>2. HandleTypes' /\ Jobs(Callback)' = Jobs(Callback)
      BY <1>1, <1>2 DEF HandleTypes, Jobs
    <2>3. Busy'
      BY <1>1, <1>2 DEF Busy
    <2> QED BY <1>2, <2>1, <2>2, <2>3, QuietCInv
  <1>3. CASE WaitNotEmpty(w)
    BY <1>1, <1>2, <1>3 DEF WaitNotEmpty
  <1>4. CASE IsCanceled(w)
    BY <1>1, <1>2, <1>4 DEF IsCanceled
  <1>5. CASE Return(w)
    BY <1>1, <1>2, <1>5 DEF Return
  <1>6. CASE Notify(w)
    <2>1. \E S \in SUBSET Asleep : pc' = Woken(S)
      <3>1. Asleep = {} => Woken({}) = pc
        BY <1>1 DEF Woken
      <3> QED BY <1>6, <3>1 DEF Notify
    <2>2. job' = job /\ deque' = deque /\ canceled' = canceled
      BY <1>6 DEF Notify
    <2>3. /\ pc' \in [Worker -> {"wait", "asleep", "check", "pop", "run", "exit"}]
          /\ \A v \in Worker : pc[v] = "run" => pc'[v] = "run"
      BY <1>1, <2>1 DEF Woken, Asleep
    <2> QED BY <1>2, <2>2, <2>3
  <1>7. CASE TryPopBack(w)
    <2>1. CASE left[w] = 0 \/ deque = <<>>
      BY <1>1, <1>2, <1>7, <2>1 DEF TryPopBack
    <2>2. CASE ~(left[w] = 0 \/ deque = <<>>)
      <3> DEFINE y == deque[Len(deque)]
      <3>1. /\ pc[w] = "pop" /\ pc' = [pc EXCEPT ![w] = "run"]
            /\ job' = [job EXCEPT ![w] = y] /\ deque # <<>>
            /\ deque' = SubSeq(deque, 1, Len(deque) - 1) /\ canceled' = canceled
        BY <1>7, <2>2 DEF TryPopBack
      <3>2. job[w] = NoJob
        BY <1>1, <3>1 DEF Busy
      <3>3. \A x \in Item : Handles(x)' = Handles(x)
        <4>1. NoJob \notin Item
          BY HandlesAssumption DEF Item
        <4> QED BY <1>1, <3>1, <3>2, <4>1, HandlesPop
      <3>4. deque \in Seq(Item) /\ y \in Item /\ deque' \in Seq(Item)
        BY <1>1, <3>1 DEF HandleTypes
      <3> HIDE DEF y
      <3>5. HandleTypes'
        BY <1>1, <3>1, <3>4 DEF HandleTypes
      <3>6. pc' \in [Worker -> {"wait", "asleep", "check", "pop", "run", "exit"}]
        BY <1>1, <3>1
      <3>7. Busy'
        BY <1>1, <3>1 DEF Busy, HandleTypes
      <3>8. Jobs(Callback)' \subseteq Jobs(Callback)
        <4>1. Callback \notin Item
          BY HandlesAssumption DEF Item
        <4> QED BY <1>1, <3>1, <3>4, <4>1 DEF Jobs, HandleTypes
      <3> QED BY <3>1, <3>3, <3>5, <3>6, <3>7, <3>8, QuietCInv
    <2> QED BY <2>1, <2>2
  <1> QED BY <1>3, <1>4, <1>5, <1>6, <1>7 DEF Serve

(* Waking a parked worker changes no job. *)
LEMMA WakeCInv ==
  ASSUME CInv, Others, UNCHANGED <<job, deque, canceled>>,
         NEW S \in SUBSET Asleep, pc' = Woken(S) \/ pc' = pc
  PROVE  CInv'
  <1>1. /\ HandleTypes /\ Busy
        /\ pc \in [Worker -> {"wait", "asleep", "check", "pop", "run", "exit"}]
    BY DEF CInv, Types
  <1>2. \A x : Handles(x)' = Handles(x)
    BY HandlesQuiet
  <1>3. HandleTypes' /\ Jobs(Callback)' = Jobs(Callback)
    BY <1>1 DEF HandleTypes, Jobs
  <1>4. pc' \in [Worker -> {"wait", "asleep", "check", "pop", "run", "exit"}] /\ Busy'
    BY <1>1 DEF Busy, Woken, Asleep
  <1> QED BY <1>2, <1>3, <1>4, QuietCInv

(* Finitely many children. *)
LEMMA KidsFinite ==
  ASSUME NEW c
  PROVE  /\ Cardinality(Kids(c)) \in Nat /\ IsFiniteSet(Kids(c))
         /\ Cardinality(Kids(c)) = 0 <=> Kids(c) = {}
  <1>1. Kids(c) \in SUBSET Coroutine
    BY DEF Kids
  <1>2. IsFiniteSet(Kids(c))
    BY <1>1, CoroutinesAssumption, FS_Subset
  <1> QED BY <1>2, FS_CardinalityType, FS_EmptySet

(* Finitely many tasks of the group. *)
LEMMA TasksFinite ==
  /\ Cardinality(Tasks) \in Nat /\ IsFiniteSet(Tasks)
  /\ Cardinality(Tasks) = 0 <=> Tasks = {}
  <1>1. Tasks \in SUBSET Coroutine
    BY DEF Tasks
  <1>2. IsFiniteSet(Tasks)
    BY <1>1, CoroutinesAssumption, FS_Subset
  <1> QED BY <1>2, FS_CardinalityType, FS_EmptySet

(* The three ways of a context at a join: past it, as all its children are *)
(* over; about to suspend; suspended, with its children counted.           *)
LEMMA JoinCInv ==
  ASSUME CInv, Types', Busy', NEW c \in Context,
         parent' = parent, canceled' = canceled, event' = event,
         UNCHANGED <<group, seen, called>>, Jobs(Callback)' \subseteq Jobs(Callback),
         ~Ended(c), Op(c) = "join", c \in Coroutine => parent[c] # NoJob,
         \A x \in Context \ {c} : Stays(x) /\ counter'[x] = counter[x] /\ children'[x] = children[x],
         \A x \in Coroutine \ {c} : Handles(x)' = Handles(x),
         \/ /\ phase[c] \in {"run", "suspending"} /\ Moves(c) /\ Kids(c) = {}
            /\ counter'[c] = 0 /\ children'[c] = 0
            /\ Handles(Frame)' = Handles(Frame) /\ (c \in Coroutine => Handles(c)' = 1)
         \/ /\ phase[c] = "run" /\ Turns(c, "suspending")
            /\ counter'[c] = counter[c] /\ children'[c] = children[c]
            /\ Handles(Frame)' = Handles(Frame) /\ (c \in Coroutine => Handles(c)' = Handles(c))
         \/ /\ phase[c] = "suspending" /\ Turns(c, "suspended")
            /\ counter'[c] = Joined(c) /\ children'[c] = 0
            /\ c \in Coroutine => Handles(c)' = 0 /\ Handles(Frame)' = Handles(Frame) /\ Joined(c) # 0
            /\ c = Main => Handles(Frame)' = Handles(Frame) + One(Joined(c) = 0)
  PROVE  CInv'
  <1> USE DEF CInv
  <1>0. /\ Main \notin Coroutine /\ Context = Coroutine \cup {Main}
        /\ phase[c] \in {"run", "suspending"} /\ phase[c] \notin Closing
    BY HandlesAssumption DEF Context, Closing
  <1>1. ASSUME NEW x \in Coroutine PROVE Fate(x)
    <2>1. CASE x = c
      <3>1. event' # x
        BY <1>0, <2>1 DEF Owned, OwnedBy, Doing
      <3> QED BY <2>1, <3>1 DEF Fate, Creating
    <2>2. CASE x # c
      BY <1>0, <2>2 DEF Fate
    <2> QED BY <2>1, <2>2
  <1>2. FateOfMain
    <2>1. CASE c = Main
      BY <2>1 DEF FateOfMain, Creating
    <2>2. CASE c # Main
      BY <1>0, <2>2 DEF FateOfMain
    <2> QED BY <2>1, <2>2
  <1>3. /\ Phases' /\ Owned' /\ Born' /\ Joins' /\ Shut'
        /\ \A x \in Context : Kids(x)' = Kids(x)
        /\ Tasks' = Tasks
    BY <1>1, <1>2, PlainStep
  <1>4. phase'[Main] \in Closing <=> phase[Main] \in Closing
    <2>1. CASE c = Main
      BY <1>0, <2>1 DEF Moves, Turns, Closing
    <2>2. CASE c # Main
      BY <1>0, <2>2 DEF Stays
    <2> QED BY <2>1, <2>2
  <1>5. Groups'
    BY <1>3, <1>4 DEF Groups
  <1>6. /\ counter[c] + children[c] = Cardinality(Kids(c)) /\ counter[c] <= 0
        /\ counter[c] \in Int /\ children[c] \in Nat
        /\ Cardinality(Kids(c)) \in Nat /\ (Kids(c) = {} => Cardinality(Kids(c)) = 0)
    <2>1. Counted(c) /\ ~Doing(c, "join", "suspended")
      BY <1>0 DEF Nurseries, Doing
    <2> QED BY <2>1, KidsFinite DEF Counted, Types
  <1>7. Nurseries'
    <2>1. ASSUME NEW x \in Context, x # c PROVE Counted(x)'
      <3>1. \A op, ph : Doing(x, op, ph)' <=> Doing(x, op, ph)
        BY <2>1, StaysFacts
      <3> QED BY <1>3, <2>1, <3>1 DEF Nurseries, Counted
    <2>2. Counted(c)'
      <3>1. CASE Moves(c) /\ Kids(c) = {} /\ counter'[c] = 0 /\ children'[c] = 0
        <4>1. ~Doing(c, "join", "suspended")'
          BY <3>1 DEF Moves, Doing
        <4>2. Cardinality(Kids(c))' = 0
          BY <1>3, <1>6, <3>1
        <4> QED BY <3>1, <4>1, <4>2 DEF Counted
      <3>2. CASE Turns(c, "suspending") /\ counter'[c] = counter[c] /\ children'[c] = children[c]
        <4>1. ~Doing(c, "join", "suspended")'
          BY <3>2 DEF Turns, Doing
        <4> QED BY <1>3, <1>6, <3>2, <4>1 DEF Counted
      <3>3. CASE /\ Turns(c, "suspended") /\ counter'[c] = Joined(c) /\ children'[c] = 0
                 /\ c \in Coroutine => Joined(c) # 0
        <4>1. Doing(c, "join", "suspended")'
          BY <3>3 DEF Turns, Doing, Ended, Op
        <4>2. c # Main => counter'[c] > 0
          BY <1>0, <1>6, <3>3 DEF Joined
        <4> QED BY <1>3, <1>6, <3>3, <4>1, <4>2 DEF Counted, Joined
      <3> QED BY <1>0, <3>1, <3>2, <3>3
    <2> QED BY <2>1, <2>2 DEF Nurseries
  <1>8. MainFrame'
    <2>1. CASE c # Main
      <3>1. Stays(Main) /\ counter'[Main] = counter[Main] /\ Handles(Frame)' = Handles(Frame)
        BY <1>0, <2>1
      <3> QED BY <3>1, StaysFacts DEF MainFrame, Stays
    <2>2. CASE c = Main
      <3>0. Handles(Frame) = 0
        BY <1>0, <2>2 DEF MainFrame, One
      <3>1. CASE Moves(c) /\ Handles(Frame)' = Handles(Frame)
        BY <2>2, <3>0, <3>1 DEF MainFrame, Moves, One
      <3>2. CASE Turns(c, "suspending") /\ Handles(Frame)' = Handles(Frame)
        BY <2>2, <3>0, <3>2 DEF MainFrame, Turns, One, Op
      <3>3. CASE /\ Turns(c, "suspended") /\ counter'[c] = Joined(c)
                 /\ Handles(Frame)' = Handles(Frame) + One(Joined(c) = 0)
        BY <2>2, <3>0, <3>3 DEF MainFrame, Turns, One, Op
      <3> QED BY <1>0, <2>2, <3>1, <3>2, <3>3
    <2> QED BY <2>1, <2>2
  <1> QED BY <1>3, <1>5, <1>7, <1>8

(* Main is at an instruction. *)
LEMMA RunningMain ==
  ASSUME NEW op, NEW ph, At(Main, op, ph)
  PROVE  /\ ContextOf(Main) = Main /\ Main \in Context /\ Main \notin Coroutine
         /\ ~Ended(Main) /\ Op(Main) = op /\ phase[Main] = ph
  BY HandlesAssumption DEF At, ContextOf, Op, Context

LEMMA JoinReadyCInv == ASSUME CInv, NEW t \in Worker \cup {Main}, JoinReady(t) PROVE CInv'
  <1> DEFINE c == ContextOf(t)
  <1>1. /\ c \in Context /\ ~Ended(c) /\ Op(c) = "join" /\ phase[c] = "run"
        /\ c \in Coroutine => parent[c] # NoJob /\ Handles(c) = 1
    <2>1. At(t, "join", "run")
      BY DEF JoinReady
    <2>2. CASE t \in Worker
      BY <2>1, <2>2, Running
    <2>3. CASE t = Main
      BY <2>1, <2>3, RunningMain
    <2> QED BY <2>2, <2>3
  <1>2. /\ UNCHANGED <<parent, event, group, seen, called, canceled, pc, job, deque>>
        /\ \/ /\ -children[c] \in counter[c] .. 0
              /\ counter' = [counter EXCEPT ![c] = 0]
              /\ children' = [children EXCEPT ![c] = 0] /\ Past(c)
           \/ /\ phase' = [phase EXCEPT ![c] = "suspending"]
              /\ UNCHANGED <<step, counter, children>>
    BY DEF JoinReady, QueueQuiet, eventVars, groupVars
  <1> HIDE DEF c
  <1>3. Types
    BY DEF CInv
  <1>4. counter \in [Context -> Int] /\ children \in [Context -> Nat]
    BY <1>3 DEF Types
  <1>5. \A x : Handles(x)' = Handles(x)
    BY <1>2, HandlesQuiet
  <1>6. /\ step' \in [Context -> Nat \ {0}]
        /\ phase' \in [Context -> {"run", "suspending", "suspended"} \cup Closing]
        /\ \A x \in Context \ {c} : Stays(x)
    BY <1>1, <1>2, <1>3, PastFacts, TurnFacts
  <1>7. counter' \in [Context -> Int] /\ children' \in [Context -> Nat]
    BY <1>1, <1>2, <1>4
  <1>8. Types' /\ Busy' /\ Jobs(Callback)' = Jobs(Callback)
    BY <1>2, <1>3, <1>6, <1>7 DEF CInv, Types, HandleTypes, Busy, Jobs
  <1>9. \A x \in Context \ {c} : counter'[x] = counter[x] /\ children'[x] = children[x]
    BY <1>2, <1>4
  <1>10. CASE /\ -children[c] \in counter[c] .. 0
              /\ counter' = [counter EXCEPT ![c] = 0]
              /\ children' = [children EXCEPT ![c] = 0] /\ Past(c)
    <2>1. Moves(c)
      BY <1>1, <1>3, <1>10, PastFacts
    <2>2. counter'[c] = 0 /\ children'[c] = 0
      BY <1>1, <1>4, <1>10
    <2>3. Kids(c) = {}
      <3>1. counter[c] + children[c] = Cardinality(Kids(c))
        BY <1>1 DEF CInv, Nurseries, Counted
      <3>2. Cardinality(Kids(c)) <= 0
        BY <1>1, <1>4, <1>10, <3>1
      <3> QED BY <3>2, KidsFinite
    <2> QED BY <1>1, <1>2, <1>5, <1>6, <1>8, <1>9, <2>1, <2>2, <2>3, JoinCInv
  <1>11. CASE /\ phase' = [phase EXCEPT ![c] = "suspending"]
              /\ UNCHANGED <<step, counter, children>>
    <2>1. Turns(c, "suspending")
      BY <1>1, <1>3, <1>11, TurnFacts
    <2> QED BY <1>1, <1>2, <1>5, <1>6, <1>8, <1>9, <1>11, <2>1, JoinCInv
  <1> QED BY <1>2, <1>10, <1>11

LEMMA JoinSuspendCInv == ASSUME CInv, NEW t \in Worker \cup {Main}, JoinSuspend(t) PROVE CInv'
  <1>0. PICK c : c = ContextOf(t)
    OBVIOUS
  <1>1. /\ c \in Context /\ ~Ended(c) /\ Op(c) = "join" /\ phase[c] = "suspending"
        /\ c \in Coroutine => parent[c] # NoJob /\ Handles(c) = 1
        /\ t \in Worker => c = job[t] /\ c \in Coroutine /\ t # Main /\ pc[t] = "run"
        /\ t = Main => c = Main
    <2>1. At(t, "join", "suspending")
      BY DEF JoinSuspend
    <2>2. CASE t \in Worker
      BY <1>0, <2>1, <2>2, Running
    <2>3. CASE t = Main
      BY <1>0, <2>1, <2>3, RunningMain, WorkQueueAssumption, CoroutinesAssumption
    <2> QED BY <2>2, <2>3
  <1>2. /\ UNCHANGED <<parent, event, group, seen, called>>
        /\ counter' = [counter EXCEPT ![c] = Joined(c)]
        /\ children' = [children EXCEPT ![c] = 0]
        /\ IF t = Main
           THEN /\ Pushes(t, IF Joined(c) = 0 THEN Frame ELSE Noop)
                /\ phase' = [phase EXCEPT ![c] = "suspended"] /\ UNCHANGED <<job, step>>
           ELSE /\ QueueQuiet
                /\ IF Joined(c) = 0
                   THEN Past(c) /\ UNCHANGED job
                   ELSE Becomes(t, NoJob) /\ phase' = [phase EXCEPT ![c] = "suspended"] /\ UNCHANGED step
    BY <1>0 DEF JoinSuspend, eventVars, groupVars
  <1>3. Types /\ HandleTypes /\ Frame \in Item /\ Noop \in Item /\ Coroutine \subseteq Item
    BY DEF CInv, Types, Item
  <1>4. counter \in [Context -> Int] /\ children \in [Context -> Nat]
    BY <1>3 DEF Types
  <1>5. counter' \in [Context -> Int] /\ children' \in [Context -> Nat]
        /\ counter'[c] = Joined(c) /\ children'[c] = 0
        /\ \A x \in Context \ {c} : counter'[x] = counter[x] /\ children'[x] = children[x]
    <2>1. Joined(c) \in Int
      BY <1>1, <1>4 DEF Joined
    <2> QED BY <1>1, <1>2, <1>4, <2>1
  <1>6. Joined(c) = 0 => Kids(c) = {}
    <2>1. counter[c] + children[c] = Cardinality(Kids(c))
      BY <1>1 DEF CInv, Nurseries, Counted
    <2> QED BY <2>1, KidsFinite DEF Joined
  <1>7. CASE t = Main
    <2> DEFINE z == IF Joined(c) = 0 THEN Frame ELSE Noop
    <2>1. /\ Pushed(z) /\ pc' = pc /\ canceled' = canceled /\ job' = job
          /\ step' = step /\ phase' = [phase EXCEPT ![c] = "suspended"] /\ z \in Item
      BY <1>2, <1>3, <1>7 DEF Pushes, PushBack, Pushed
    <2>2. \A x : Handles(x) \in Nat /\ Handles(x)' = Handles(x) + Is(z, x)
      BY <1>3, <2>1, HandlesNat, HandlesPush
    <2>3. HandleTypes' /\ Busy' /\ Jobs(Callback)' \subseteq Jobs(Callback)
      BY <2>1, PushTypes
    <2>4. /\ step' \in [Context -> Nat \ {0}]
          /\ phase' \in [Context -> {"run", "suspending", "suspended"} \cup Closing]
          /\ Turns(c, "suspended") /\ \A x \in Context \ {c} : Stays(x)
      BY <1>1, <1>3, <2>1, TurnFacts
    <2>5. Types'
      BY <1>2, <1>3, <1>5, <2>1, <2>3, <2>4 DEF Types
    <2>6. /\ \A x \in Coroutine : Handles(x)' = Handles(x)
          /\ Handles(Frame)' = Handles(Frame) + One(Joined(c) = 0)
      <3>1. \A x \in Coroutine : Is(z, x) = 0
        BY HandlesAssumption DEF Is
      <3>2. Is(z, Frame) = One(Joined(c) = 0)
        BY HandlesAssumption DEF Is, One
      <3> QED BY <2>2, <3>1, <3>2
    <2>7. c = Main /\ c \notin Coroutine
      BY <1>1, <1>7, HandlesAssumption
    <2> HIDE DEF z
    <2> QED BY <1>1, <1>2, <1>5, <2>1, <2>3, <2>4, <2>5, <2>6, <2>7, JoinCInv
  <1>8. CASE t # Main
    <2>1. t \in Worker /\ c = job[t] /\ c \in Coroutine /\ pc[t] = "run" /\ c # Main
          /\ UNCHANGED <<deque, canceled, pc>>
      BY <1>1, <1>2, <1>8, HandlesAssumption DEF QueueQuiet
    <2>2. CASE Joined(c) = 0
      <3>1. Past(c) /\ job' = job
        BY <1>2, <1>8, <2>2
      <3>2. \A x : Handles(x)' = Handles(x)
        BY <2>1, <3>1, HandlesQuiet
      <3>3. /\ step' \in [Context -> Nat \ {0}]
            /\ phase' \in [Context -> {"run", "suspending", "suspended"} \cup Closing]
            /\ Moves(c) /\ \A x \in Context \ {c} : Stays(x)
        BY <1>1, <1>3, <3>1, PastFacts
      <3>4. Types' /\ Busy' /\ Jobs(Callback)' = Jobs(Callback)
        BY <1>2, <1>3, <1>5, <2>1, <3>1, <3>3 DEF CInv, Types, HandleTypes, Busy, Jobs
      <3> QED BY <1>1, <1>2, <1>5, <1>6, <2>1, <2>2, <3>2, <3>3, <3>4, JoinCInv
    <2>3. CASE Joined(c) # 0
      <3>1. Becomes(t, NoJob) /\ phase' = [phase EXCEPT ![c] = "suspended"] /\ step' = step
        BY <1>2, <1>8, <2>3
      <3>2. \A x \in Item : Handles(x)' = Handles(x) - Is(c, x)
        <4>1. ASSUME NEW x \in Item PROVE Handles(x)' = Handles(x) - Is(c, x)
          <5>1. Handles(x)' = Handles(x) - Is(c, x) + Is(NoJob, x)
            BY <1>3, <2>1, <3>1, HandlesJob
          <5>2. NoJob # x
            BY HandlesAssumption DEF Item
          <5>3. Handles(x) \in Nat
            BY <1>3, HandlesNat
          <5> QED BY <5>1, <5>2, <5>3 DEF Is
        <4> QED BY <4>1
      <3>3. HandleTypes' /\ Busy' /\ Jobs(Callback)' \subseteq Jobs(Callback)
        <4>1. NoJob # Callback
          BY HandlesAssumption
        <4> QED BY <1>3, <2>1, <3>1, <4>1, JobTypes
      <3>4. /\ step' \in [Context -> Nat \ {0}]
            /\ phase' \in [Context -> {"run", "suspending", "suspended"} \cup Closing]
            /\ Turns(c, "suspended") /\ \A x \in Context \ {c} : Stays(x)
        BY <1>1, <1>3, <3>1, TurnFacts
      <3>5. Types'
        BY <1>2, <1>3, <1>5, <2>1, <3>3, <3>4 DEF Types
      <3>6. /\ \A x \in Coroutine \ {c} : Handles(x)' = Handles(x)
            /\ Handles(c)' = 0 /\ Handles(Frame)' = Handles(Frame)
        <4>1. \A x \in Item : Handles(x) \in Nat
          BY <1>3, HandlesNat
        <4>2. Frame # c
          BY <2>1, HandlesAssumption
        <4>3. ASSUME NEW x \in Item, x # c PROVE Handles(x)' = Handles(x)
          <5>1. Is(c, x) = 0
            BY <4>3 DEF Is
          <5> QED BY <3>2, <4>1, <5>1
        <4>4. Handles(c)' = 0
          <5>1. c \in Item /\ Handles(c) = 1 /\ Is(c, c) = 1
            BY <1>1, <1>3, <2>1 DEF Is
          <5> QED BY <3>2, <5>1
        <4> QED BY <1>3, <4>2, <4>3, <4>4
      <3>7. phase[c] = "suspending" /\ Turns(c, "suspended") /\ counter'[c] = Joined(c) /\ children'[c] = 0
        BY <1>1, <1>5, <3>4
      <3>8. UNCHANGED <<parent, event, group, seen, called>> /\ canceled' = canceled
        BY <1>2, <2>1
      <3>9. \A x \in Context \ {c} : Stays(x) /\ counter'[x] = counter[x] /\ children'[x] = children[x]
        BY <1>5, <3>4
      <3>10. c \in Context /\ ~Ended(c) /\ Op(c) = "join" /\ parent[c] # NoJob
        BY <1>1, <2>1
      <3> QED BY <2>1, <2>3, <3>3, <3>5, <3>6, <3>7, <3>8, <3>9, <3>10, JoinCInv
    <2> QED BY <2>2, <2>3
  <1> QED BY <1>7, <1>8

(* Main, at the end of its program, goes through its last phases. *)
LEMMA MainCInv ==
  ASSUME CInv, HandleTypes', Busy', pc' = pc, group' \in Int, NEW ph \in Closing,
         step' = step, phase' = [phase EXCEPT ![Main] = ph],
         Ended(Main), phase[Main] \in Closing \cup {"run"},
         UNCHANGED <<parent, counter, children, event>>,
         canceled' => canceled \/ \A c \in Coroutine : Done(c),
         \A x \in Item : Handles(x)' = Handles(x),
         group' = group - One(phase[Main] = "run"),
         seen' = 0 => group' = 0,
         called' \/ Jobs(Callback)' # {} => group' = 0
  PROVE  CInv'
  <1> USE DEF CInv
  <1>0. /\ Main \notin Coroutine /\ Context = Coroutine \cup {Main}
        /\ Frame \in Item /\ Coroutine \subseteq Item
        /\ phase[Main] \notin {"suspending", "suspended"}
    BY HandlesAssumption DEF Context, Closing, Item
  <1>1. /\ step' \in [Context -> Nat \ {0}]
        /\ phase' \in [Context -> {"run", "suspending", "suspended"} \cup Closing]
        /\ phase'[Main] = ph /\ \A x \in Context \ {Main} : Stays(x)
    BY <1>0, TurnFacts
  <1>2. Types'
    BY <1>1 DEF Types
  <1>3. \A x \in Coroutine : Fate(x)
    BY <1>0, <1>1 DEF Fate
  <1>4. FateOfMain
    BY <1>1 DEF FateOfMain
  <1>5. /\ Phases' /\ Owned' /\ Born' /\ Joins' /\ Shut'
        /\ \A x \in Context : Kids(x)' = Kids(x)
        /\ Tasks' = Tasks
    BY <1>2, <1>3, <1>4, PlainStep
  <1>6. Nurseries'
    <2>1. ASSUME NEW x \in Context PROVE Doing(x, "join", "suspended")' <=> Doing(x, "join", "suspended")
      <3>1. CASE x = Main
        BY <1>0, <1>1, <3>1 DEF Doing, Closing
      <3>2. CASE x # Main
        <4>1. Stays(x)
          BY <1>1, <3>2
        <4> QED BY <4>1, StaysFacts
      <3> QED BY <3>1, <3>2
    <2> QED BY <1>5, <2>1 DEF Nurseries, Counted
  <1>7. MainFrame'
    <2>1. phase'[Main] \notin {"suspending", "suspended"}
      BY <1>1 DEF Closing
    <2> QED BY <1>0, <2>1 DEF MainFrame, One
  <1>8. Groups'
    <2>1. group = Cardinality(Tasks) + One(phase[Main] \notin Closing) /\ Cardinality(Tasks) \in Nat
      BY TasksFinite DEF Groups
    <2>2. One(phase[Main] \notin Closing) = One(phase[Main] = "run")
      BY DEF One, Closing
    <2>3. One(phase[Main] = "run") \in Nat
      BY DEF One
    <2>4. group' = Cardinality(Tasks)
      BY <2>1, <2>2, <2>3
    <2>5. One(phase'[Main] \notin Closing) = 0
      BY <1>1 DEF One
    <2>6. Cardinality(Tasks)' = Cardinality(Tasks)
      BY <1>5
    <2>7. group' = Cardinality(Tasks)' + One(phase'[Main] \notin Closing)
      BY <2>1, <2>4, <2>5, <2>6
    <2> QED BY <2>7 DEF Groups
  <1> QED BY <1>2, <1>5, <1>6, <1>7, <1>8

LEMMA GiveUpCInv == ASSUME CInv, GiveUpSentinel PROVE CInv'
  <1>1. /\ Ended(Main) /\ phase[Main] = "run"
        /\ group' = group - 1 /\ seen' = group - 1
        /\ called' = (called \/ (~blocking /\ group = 1))
        /\ step' = step /\ phase' = [phase EXCEPT ![Main] = "drain"]
        /\ UNCHANGED <<deque, canceled, pc, job, parent, children, counter, event>>
    BY DEF GiveUpSentinel, QueueQuiet, eventVars
  <1>2. group = Cardinality(Tasks) + 1 /\ Cardinality(Tasks) \in Nat /\ group' \in Int
    <2>1. One(phase[Main] \notin Closing) = 1
      BY <1>1 DEF One, Closing
    <2> QED BY <1>1, <2>1, TasksFinite DEF CInv, Groups
  <1>3. \A x : Handles(x)' = Handles(x)
    BY <1>1, HandlesQuiet
  <1>4. ~called /\ Jobs(Callback) = {} /\ Jobs(Callback)' = Jobs(Callback)
    BY <1>1, <1>2 DEF CInv, Groups, Jobs
  <1>5. HandleTypes' /\ Busy'
    BY <1>1 DEF CInv, Types, HandleTypes, Busy
  <1>6. /\ group' = group - One(phase[Main] = "run") /\ (seen' = 0 => group' = 0)
        /\ called' \/ Jobs(Callback)' # {} => group' = 0
    <2>1. One(phase[Main] = "run") = 1
      BY <1>1 DEF One
    <2>2. group = 1 => group' = 0
      BY <1>1
    <2>3. called' => group = 1
      BY <1>1, <1>4
    <2> QED BY <1>1, <1>4, <2>1, <2>2, <2>3
  <1> QED BY <1>1, <1>2, <1>3, <1>5, <1>6, MainCInv DEF Closing

LEMMA WaitGroupCInv == ASSUME CInv, WaitGroup PROVE CInv'
  <1>1. /\ phase[Main] = "drain" /\ step' = step
        /\ phase' = [phase EXCEPT ![Main] = "asleep"] \/ phase' = phase
        /\ seen' = seen \/ seen' = group
        /\ UNCHANGED <<deque, canceled, pc, job, parent, children, counter, event, group, called>>
    BY DEF WaitGroup, QueueQuiet, eventVars
  <1>2. Main \in Context /\ Ended(Main) /\ group \in Int
        /\ phase \in [Context -> {"run", "suspending", "suspended"} \cup Closing]
    BY <1>1 DEF CInv, Phases, Types, Context, Closing
  <1>3. \E ph \in Closing : phase' = [phase EXCEPT ![Main] = ph]
    <2>1. phase = [phase EXCEPT ![Main] = "drain"]
      BY <1>1, <1>2
    <2> QED BY <1>1, <2>1 DEF Closing
  <1>4. \A x : Handles(x)' = Handles(x)
    BY <1>1, HandlesQuiet
  <1>5. HandleTypes' /\ Busy' /\ Jobs(Callback)' = Jobs(Callback)
    BY <1>1 DEF CInv, Types, HandleTypes, Busy, Jobs
  <1>6. /\ seen' = 0 => group' = 0
        /\ called' \/ Jobs(Callback)' # {} => group' = 0
    BY <1>1, <1>5 DEF CInv, Groups, Closing
  <1>7. group' = group - One(phase[Main] = "run")
    BY <1>1, <1>2 DEF One
  <1> QED BY <1>1, <1>2, <1>3, <1>4, <1>5, <1>6, <1>7, MainCInv DEF Closing

LEMMA RunCallbackCInv == ASSUME CInv, NEW w \in Worker, RunCallback(w) PROVE CInv'
  <1>1. /\ pc[w] = "run" /\ job[w] = Callback /\ Becomes(w, NoJob) /\ called' = TRUE
        /\ phase' = IF blocking /\ phase[Main] = "asleep" THEN [phase EXCEPT ![Main] = "drain"] ELSE phase
        /\ UNCHANGED <<step, parent, children, counter, event, group, seen, canceled, pc, deque>>
    <2>1. w # Main
      BY WorkQueueAssumption, CoroutinesAssumption
    <2> QED BY <2>1 DEF RunCallback, Runs, QueueQuiet, eventVars
  <1>2. Types /\ HandleTypes /\ group = 0 /\ Main \in Context
    BY <1>1 DEF CInv, Types, Groups, Jobs, Context
  <1>3. \A x \in Item : Handles(x)' = Handles(x)
    <2>1. ASSUME NEW x \in Item PROVE Handles(x)' = Handles(x)
      <3>1. Handles(x)' = Handles(x) - Is(Callback, x) + Is(NoJob, x)
        BY <1>1, <1>2, HandlesJob
      <3>2. Callback # x /\ NoJob # x
        BY HandlesAssumption DEF Item
      <3>3. Handles(x) \in Nat
        BY <1>2, HandlesNat
      <3> QED BY <3>1, <3>2, <3>3 DEF Is
    <2> QED BY <2>1
  <1>4. HandleTypes' /\ Busy'
    <2>1. NoJob # Callback /\ Frame \in Item
      BY HandlesAssumption DEF Item
    <2> QED BY <1>1, <2>1, JobTypes
  <1>5. phase[Main] \in Closing
    <2>1. Cardinality(Tasks) \in Nat /\ group = Cardinality(Tasks) + One(phase[Main] \notin Closing)
      BY TasksFinite DEF CInv, Groups
    <2> QED BY <1>2, <2>1 DEF One
  <1>6. \E ph \in Closing : phase' = [phase EXCEPT ![Main] = ph]
    <2>1. phase = [phase EXCEPT ![Main] = phase[Main]]
      BY <1>2 DEF Types
    <2>2. "drain" \in Closing
      BY DEF Closing
    <2> QED BY <1>1, <1>5, <2>1, <2>2
  <1>7. group' = group - One(phase[Main] = "run")
    <2>1. phase[Main] # "run"
      BY <1>5 DEF Closing
    <2>2. One(phase[Main] = "run") = 0
      BY <2>1 DEF One
    <2> QED BY <1>1, <1>2, <2>2
  <1>8. Ended(Main)
    BY <1>2, <1>5 DEF CInv, Phases
  <1>9. group' = 0 /\ group' \in Int /\ (canceled' => canceled)
    BY <1>1, <1>2
  <1> QED BY <1>1, <1>3, <1>4, <1>5, <1>6, <1>7, <1>8, <1>9, MainCInv

(* When the group is empty and main has ended, everything is over: of what *)
(* is not, some coroutine would have been made by a context that has ended,*)
(* and joined, awaited or counted what it made.                            *)
LEMMA AllDone ==
  ASSUME CInv, Ended(Main), Tasks = {}
  PROVE  \A c \in Coroutine : Done(c)
  <1> DEFINE S == {c \in Coroutine : ~Done(c)}
  <1> SUFFICES ASSUME S # {} PROVE FALSE
    OBVIOUS
  <1>0. PICK c \in Context \ S, d \in S : \E i \in DOMAIN Program[c] : Makes(c, i, d)
    <2>1. \A T \in SUBSET Coroutine : T # {} =>
            \E c \in Context \ T, d \in T : \E i \in DOMAIN Program[c] : Makes(c, i, d)
      BY ProgramAssumption
    <2>2. S \in SUBSET Coroutine
      OBVIOUS
    <2> HIDE DEF S
    <2> QED BY <2>1, <2>2
  <1>1. PICK i \in DOMAIN Program[c] : Makes(c, i, d)
    BY <1>0
  <1>2. Ended(c) /\ c \in Context
    BY DEF Done, Context
  <1>3. /\ step[c] \in Nat /\ Len(Program[c]) \in Nat /\ DOMAIN Program[c] = 1 .. Len(Program[c])
        /\ step[c] > Len(Program[c]) /\ step[c] <= Len(Program[c]) + 1
    BY <1>2, Programs DEF CInv, Ended, Phases
  <1>4. i \in 1 .. step[c] - 1 /\ Made(c, i)
    BY <1>3 DEF Made
  <1>5. d \in Coroutine /\ ~Done(d) /\ parent[d] = Maker(c, i)
    BY <1>1, <1>4 DEF CInv, Born
  <1>6. Program[c][i].arg = d /\ Program[c][i].op \in Creating
    BY <1>1 DEF Makes, Creating
  <1>7. CASE Program[c][i].op = "spawn"
    BY <1>5, <1>7 DEF Maker, Tasks
  <1>8. CASE Program[c][i].op = "await"
    BY <1>4, <1>5, <1>6, <1>8 DEF CInv, Joins, SeenTo
  <1>9. CASE Program[c][i].op \in {"fork", "soon"}
    <2>1. PICK j \in DOMAIN Program[c] : i < j /\ Program[c][j].op = "join"
      BY <1>2, <1>9, ProgramAssumption
    <2>2. j \in 1 .. step[c] - 1
      BY <1>3
    <2> QED BY <1>4, <1>5, <1>6, <1>9, <2>1, <2>2 DEF CInv, Joins, SeenTo
  <1> QED BY <1>6, <1>7, <1>8, <1>9 DEF Creating

LEMMA CancelCInv == ASSUME CInv, CancelAndJoin PROVE CInv'
  <1>1. /\ phase[Main] = "drain" /\ Drained
        /\ step' = step /\ phase' = [phase EXCEPT ![Main] = "join"]
        /\ UNCHANGED <<deque, pc, job, parent, children, counter, event, group, seen, called>>
    BY DEF CancelAndJoin, Cancel, eventVars, groupVars
  <1>2. Main \in Context /\ Ended(Main) /\ group \in Int
    BY <1>1 DEF CInv, Phases, Types, Context, Closing
  <1>3. group = 0
    BY <1>1 DEF Drained, CInv, Groups, Closing
  <1>4. Tasks = {}
    <2>1. One(phase[Main] \notin Closing) = 0
      BY <1>1 DEF One, Closing
    <2> QED BY <1>3, <2>1, TasksFinite DEF CInv, Groups
  <1>5. \A c \in Coroutine : Done(c)
    BY <1>2, <1>4, AllDone
  <1>6. \A x : Handles(x)' = Handles(x)
    BY <1>1, HandlesQuiet
  <1>7. HandleTypes' /\ Busy' /\ Jobs(Callback)' = Jobs(Callback)
    BY <1>1 DEF CInv, Types, HandleTypes, Busy, Jobs
  <1>8. group' = group - One(phase[Main] = "run")
    BY <1>1, <1>2 DEF One
  <1> QED BY <1>1, <1>2, <1>3, <1>5, <1>6, <1>7, <1>8, MainCInv DEF Closing

LEMMA FrameResumeCInv == ASSUME CInv, NEW w \in Worker, FrameResume(w) PROVE CInv'
  <1> USE DEF CInv
  <1>1. /\ pc[w] = "run" /\ job[w] \in {Frame, Noop} /\ Becomes(w, NoJob)
        /\ IF job[w] = Frame THEN Past(Main) ELSE step' = step /\ phase' = phase
        /\ UNCHANGED <<parent, children, counter, event, group, seen, called, canceled, pc, deque>>
    <2>1. w # Main
      BY WorkQueueAssumption, CoroutinesAssumption
    <2> QED BY <2>1 DEF FrameResume, Runs, QueueQuiet, eventVars, groupVars
  <1>2. /\ Types /\ HandleTypes /\ Frame \in Item /\ Coroutine \subseteq Item
        /\ Main \in Context /\ Main \notin Coroutine /\ Context = Coroutine \cup {Main}
    BY HandlesAssumption DEF Types, Item, Context
  <1>3. \A x \in Item : Handles(x) \in Nat /\ Handles(x)' = Handles(x) - Is(job[w], x)
    <2>1. ASSUME NEW x \in Item PROVE Handles(x) \in Nat /\ Handles(x)' = Handles(x) - Is(job[w], x)
      <3>1. Handles(x)' = Handles(x) - Is(job[w], x) + Is(NoJob, x)
        BY <1>1, <1>2, HandlesJob
      <3>2. NoJob # x
        BY HandlesAssumption DEF Item
      <3>3. Handles(x) \in Nat
        BY <1>2, HandlesNat
      <3> QED BY <3>1, <3>2, <3>3 DEF Is
    <2> QED BY <2>1
  <1>4. HandleTypes' /\ Busy' /\ Jobs(Callback)' \subseteq Jobs(Callback)
    <2>1. NoJob # Callback
      BY HandlesAssumption
    <2> QED BY <1>1, <1>2, <2>1, JobTypes
  <1>5. \A x \in Coroutine : Handles(x)' = Handles(x)
    <2>1. \A x \in Coroutine : Is(job[w], x) = 0
      BY <1>1, HandlesAssumption DEF Is
    <2> QED BY <1>2, <1>3, <2>1
  <1>6. CASE job[w] = Noop
    <2>1. step' = step /\ phase' = phase /\ Is(job[w], Frame) = 0
      BY <1>1, <1>6, HandlesAssumption DEF Is
    <2>2. Types' /\ \A x \in Context : Stays(x)
      BY <1>1, <1>2, <1>4, <2>1, StillFacts DEF Types
    <2>3. \A x \in Coroutine : Fate(x)
      BY <1>1, <1>2, <1>5, <2>2 DEF Fate
    <2>4. Handles(Frame)' = Handles(Frame)
      BY <1>2, <1>3, <2>1
    <2> QED BY <1>1, <1>2, <1>4, <2>2, <2>3, <2>4, PlainCInv
  <1>7. CASE job[w] = Frame
    <2>1. Past(Main) /\ Is(job[w], Frame) = 1
      BY <1>1, <1>7 DEF Is
    <2>2. Handles(Frame) >= 1
      BY <1>2, <1>7, HandlesNat
    <2>3. phase[Main] = "suspended" /\ counter[Main] = 0 /\ Handles(Frame) = 1 /\ Op(Main) = "join"
      <3>1. Handles(Frame) = One(phase[Main] = "suspended" /\ counter[Main] = 0)
        BY DEF MainFrame
      <3>2. phase[Main] = "suspended" /\ counter[Main] = 0
        BY <2>2, <3>1 DEF One
      <3> QED BY <3>1, <3>2 DEF MainFrame, One
    <2>4. Doing(Main, "join", "suspended") /\ ~Ended(Main)
      BY <1>2, <2>3 DEF Phases, Doing
    <2>5. Kids(Main) = {}
      <3>1. counter[Main] + children[Main] = Cardinality(Kids(Main)) /\ children[Main] = 0
        BY <1>2, <2>4 DEF Nurseries, Counted
      <3> QED BY <2>3, <3>1, KidsFinite
    <2>6. /\ step' \in [Context -> Nat \ {0}]
          /\ phase' \in [Context -> {"run", "suspending", "suspended"} \cup Closing]
          /\ Moves(Main) /\ \A x \in Context \ {Main} : Stays(x)
      BY <1>2, <2>1, <2>4, PastFacts
    <2>7. Types'
      BY <1>1, <1>2, <1>4, <2>6 DEF Types
    <2>8. \A x \in Coroutine : Fate(x)
      BY <1>1, <1>2, <1>5, <2>6 DEF Fate
    <2>9. FateOfMain
      BY <2>3, <2>5, <2>6 DEF FateOfMain, Creating
    <2>10. /\ Phases' /\ Owned' /\ Born' /\ Joins' /\ Shut'
           /\ \A x \in Context : Kids(x)' = Kids(x)
           /\ Tasks' = Tasks
      BY <1>1, <2>7, <2>8, <2>9, PlainStep
    <2>11. phase'[Main] = "run"
      BY <2>6 DEF Moves
    <2>12. Nurseries'
      <3>1. ASSUME NEW x \in Context, x # Main PROVE Counted(x)'
        <4>1. \A op, ph : Doing(x, op, ph)' <=> Doing(x, op, ph)
          BY <2>6, <3>1, StaysFacts
        <4> QED BY <1>1, <2>10, <3>1, <4>1 DEF Nurseries, Counted
      <3>2. Counted(Main)'
        <4>1. ~Doing(Main, "join", "suspended")'
          BY <2>11 DEF Doing
        <4>2. counter[Main] + children[Main] = Cardinality(Kids(Main))
          BY <1>2 DEF Nurseries, Counted
        <4>3. Cardinality(Kids(Main))' = Cardinality(Kids(Main))
          BY <1>2, <2>10
        <4>4. counter'[Main] + children'[Main] = Cardinality(Kids(Main))'
          BY <1>1, <4>2, <4>3
        <4> QED BY <1>1, <2>3, <4>1, <4>4 DEF Counted
      <3> QED BY <3>1, <3>2 DEF Nurseries
    <2>13. MainFrame'
      <3>1. Handles(Frame)' = 0
        BY <1>2, <1>3, <2>1, <2>3
      <3> QED BY <2>11, <3>1 DEF MainFrame, One
    <2>14. Groups'
      <3>1. phase[Main] \notin Closing /\ phase'[Main] \notin Closing
        BY <2>3, <2>11 DEF Closing
      <3>2. One(phase'[Main] \notin Closing) = One(phase[Main] \notin Closing)
        BY <3>1 DEF One
      <3>3. Cardinality(Tasks)' = Cardinality(Tasks)
        BY <2>10
      <3> QED BY <1>1, <1>4, <3>1, <3>2, <3>3 DEF Groups
    <2> QED BY <1>4, <2>7, <2>10, <2>12, <2>13, <2>14
  <1> QED BY <1>1, <1>6, <1>7

(* A step of c that makes d, with the counters it adds d to. *)
LEMMA CreateCInv ==
  ASSUME CInv, Types', Busy', NEW c \in Context, NEW d \in Coroutine, ~Ended(c), phase[c] = "run",
         Op(c) \in Creating, Argument(c) = d,
         NEW v \in Context \cup {Group}, v = IF Op(c) = "spawn" THEN Group ELSE c,
         parent' = [parent EXCEPT ![d] = v],
         UNCHANGED <<canceled, event, counter, seen, called>>,
         c \in Coroutine => parent[c] # NoJob,
         Op(c) = "await" => c \in Coroutine /\ Turns(c, "suspended") /\ Handles(c)' = 0,
         Op(c) # "await" => Moves(c) /\ (c \in Coroutine => Handles(c)' = 1),
         \A x \in Context \ {c} : Stays(x) /\ children'[x] = children[x],
         children'[c] = children[c] + One(Op(c) \in {"fork", "soon"}),
         Op(c) = "spawn" => c = Main,
         group' = group + One(Op(c) = "spawn"),
         Handles(d)' = 1, Handles(Frame)' = Handles(Frame),
         \A x \in Coroutine \ {c, d} : Handles(x)' = Handles(x),
         Jobs(Callback)' \subseteq Jobs(Callback)
  PROVE  CInv'
  <1> USE DEF CInv
  <1>0. /\ Main \notin Coroutine /\ Context = Coroutine \cup {Main} /\ Main \in Context
        /\ Group \notin Context
    BY HandlesAssumption DEF Context
  <1>1. /\ Phases' /\ Owned' /\ Born' /\ Joins' /\ Shut'
        /\ \A x \in Context : /\ d \notin Kids(x)
                              /\ Kids(x)' = IF x = v /\ Op(c) # "await" THEN Kids(x) \cup {d} ELSE Kids(x)
        /\ d \notin Tasks /\ Tasks' = IF v = Group THEN Tasks \cup {d} ELSE Tasks
    <2>1. canceled' = canceled /\ event' = event /\ \A x \in Context \ {c} : Stays(x)
      OBVIOUS
    <2>2. Types /\ Phases /\ Owned /\ Born /\ Joins /\ Shut
      OBVIOUS
    <2>3. /\ Op(c) = "await" => c \in Coroutine /\ Turns(c, "suspended") /\ Handles(c)' = 0
          /\ Op(c) # "await" => Moves(c) /\ (c \in Coroutine => Handles(c)' = 1)
      OBVIOUS
    <2>4. c \in Context /\ d \in Coroutine /\ v \in Context \cup {Group}
      OBVIOUS
    <2>5. /\ Types' /\ ~Ended(c) /\ phase[c] = "run" /\ Op(c) \in Creating /\ Argument(c) = d
          /\ v = IF Op(c) = "spawn" THEN Group ELSE c
          /\ parent' = [parent EXCEPT ![d] = v] /\ (c \in Coroutine => parent[c] # NoJob)
      OBVIOUS
    <2>6. Handles(d)' = 1 /\ \A x \in Coroutine \ {c, d} : Handles(x)' = Handles(x)
      OBVIOUS
    <2> QED BY ONLY <2>1, <2>2, <2>3, <2>4, <2>5, <2>6, CreateStep
  <1>2. ASSUME NEW x \in Context, x # c PROVE Counted(x)'
    <2>1. \A op, ph : Doing(x, op, ph)' <=> Doing(x, op, ph)
      BY <1>2, StaysFacts
    <2>2. Kids(x)' = Kids(x)
      BY <1>0, <1>1, <1>2
    <2> QED BY <1>2, <2>1, <2>2 DEF Nurseries, Counted
  <1>3. Counted(c)'
    <2>1. ~Doing(c, "join", "suspended")'
      <3>1. CASE Op(c) = "await"
        BY <3>1 DEF Turns, Doing, Op
      <3>2. CASE Op(c) # "await"
        BY <3>2 DEF Moves, Doing
      <3> QED BY <3>1, <3>2
    <2>2. /\ counter[c] + children[c] = Cardinality(Kids(c)) /\ counter[c] <= 0
          /\ counter[c] \in Int /\ children[c] \in Nat /\ Cardinality(Kids(c)) \in Nat
      <3>1. ~Doing(c, "join", "suspended")
        BY DEF Doing
      <3> QED BY <3>1, KidsFinite DEF Nurseries, Counted, Types
    <2>3. Cardinality(Kids(c)') = Cardinality(Kids(c)) + One(Op(c) \in {"fork", "soon"})
      <3>1. CASE Op(c) \in {"fork", "soon"}
        <4>1. Kids(c)' = Kids(c) \cup {d} /\ d \notin Kids(c)
          BY <1>1, <3>1
        <4>2. Cardinality(Kids(c) \cup {d}) = Cardinality(Kids(c)) + 1
          BY <4>1, KidsFinite, FS_AddElement
        <4>3. One(Op(c) \in {"fork", "soon"}) = 1
          BY <3>1 DEF One
        <4> QED BY <4>1, <4>2, <4>3
      <3>2. CASE Op(c) \notin {"fork", "soon"}
        <4>1. Op(c) \in {"await", "spawn"}
          BY <3>2 DEF Creating
        <4>2. Kids(c)' = Kids(c)
          BY <1>0, <1>1, <4>1
        <4>3. One(Op(c) \in {"fork", "soon"}) = 0
          BY <3>2 DEF One
        <4> QED BY <2>2, <4>2, <4>3
      <3> QED BY <3>1, <3>2
    <2>4. One(Op(c) \in {"fork", "soon"}) \in Nat
      BY DEF One
    <2>5. counter'[c] + children'[c] = Cardinality(Kids(c))' /\ counter'[c] <= 0
      BY <2>2, <2>3, <2>4
    <2> QED BY <2>1, <2>5 DEF Counted
  <1>4. Nurseries'
    BY <1>2, <1>3 DEF Nurseries
  <1>5. c = Main => phase[Main] = "run" /\ phase'[Main] = "run"
    BY <1>0 DEF Moves
  <1>6. MainFrame'
    <2>1. CASE c = Main
      BY <1>5, <2>1 DEF MainFrame, One
    <2>2. CASE c # Main
      <3>1. Stays(Main)
        BY <1>0, <2>2
      <3> QED BY <3>1, StaysFacts DEF MainFrame, Stays
    <2> QED BY <2>1, <2>2
  <1>7. phase'[Main] \in Closing <=> phase[Main] \in Closing
    <2>1. CASE c = Main
      BY <1>5, <2>1 DEF Closing
    <2>2. CASE c # Main
      BY <1>0, <2>2 DEF Stays
    <2> QED BY <2>1, <2>2
  <1>8. Groups'
    <2>1. /\ group = Cardinality(Tasks) + One(phase[Main] \notin Closing)
          /\ Cardinality(Tasks) \in Nat /\ One(phase[Main] \notin Closing) \in Nat
      BY TasksFinite DEF Groups, One
    <2>2. One(phase'[Main] \notin Closing) = One(phase[Main] \notin Closing)
      BY <1>7
    <2>3. CASE Op(c) # "spawn"
      <3>1. One(Op(c) = "spawn") = 0
        BY <2>3 DEF One
      <3>2. group' = group
        BY <2>1, <3>1
      <3>3. v # Group
        BY <1>0, <2>3
      <3>4. Cardinality(Tasks)' = Cardinality(Tasks)
        BY <1>1, <3>3
      <3> QED BY <1>7, <2>2, <3>2, <3>4 DEF Groups
    <2>4. CASE Op(c) = "spawn"
      <3>1. One(Op(c) = "spawn") = 1 /\ v = Group
        BY <2>4 DEF One
      <3>2. Cardinality(Tasks)' = Cardinality(Tasks) + 1
        <4>1. Tasks' = Tasks \cup {d} /\ d \notin Tasks
          BY <1>1, <3>1
        <4>2. Cardinality(Tasks \cup {d}) = Cardinality(Tasks) + 1
          BY <4>1, TasksFinite, FS_AddElement
        <4> QED BY <4>1, <4>2
      <3>3. phase[Main] \notin Closing /\ One(phase[Main] \notin Closing) = 1
        BY <1>5, <2>4 DEF Closing, One
      <3>4. group # 0
        BY <2>1, <3>3
      <3>5. ~called /\ Jobs(Callback)' = {}
        BY <3>4 DEF Groups
      <3>6. group' = Cardinality(Tasks)' + One(phase'[Main] \notin Closing)
        BY <2>1, <2>2, <3>1, <3>2
      <3>7. ~called'
        BY <3>5
      <3> QED BY <1>7, <3>3, <3>5, <3>6, <3>7 DEF Groups
    <2> QED BY <2>3, <2>4
  <1> QED BY <1>1, <1>4, <1>6, <1>8

LEMMA ForkCInv == ASSUME CInv, NEW w \in Worker, Fork(w) PROVE CInv'
  <1>0. PICK c, d : c = job[w] /\ d = Argument(c)
    OBVIOUS
  <1>1. /\ c \in Coroutine /\ c \in Context /\ pc[w] = "run" /\ ~Ended(c) /\ Op(c) = "fork"
        /\ phase[c] = "run" /\ Handles(c) = 1 /\ parent[c] # NoJob
    <2>1. At(w, "fork", "run")
      BY DEF Fork
    <2> QED BY <1>0, <2>1, Running
  <1>2. /\ children' = [children EXCEPT ![c] = @ + 1] /\ parent' = [parent EXCEPT ![d] = c]
        /\ Past(c) /\ Pushed(c) /\ Becomes(w, d)
        /\ UNCHANGED <<counter, event, group, seen, called, canceled, pc>>
    BY <1>0 DEF Fork, Adopt, Pushes, PushBack, Pushed, eventVars, groupVars
  <1>3. Types /\ HandleTypes /\ Op(c) \in Creating /\ Frame \in Item /\ Coroutine \subseteq Item
    BY <1>1 DEF CInv, Types, Creating, Item
  <1>4. d \in Coroutine /\ Handles(d) = 0 /\ parent[d] = NoJob /\ d # c
    <2>1. d \in Coroutine
      BY <1>0, <1>1, <1>3, Programs
    <2> QED BY <1>0, <1>1, <1>3, <2>1, Unborn DEF CInv
  <1>5. \A x \in Item : Handles(x) \in Nat /\ Handles(x)' = Handles(x) + Is(d, x)
    <2>1. ASSUME NEW x \in Item PROVE Handles(x) \in Nat /\ Handles(x)' = Handles(x) + Is(d, x)
      <3>1. Handles(x)' = Handles(x) - Is(c, x) + Is(d, x) + Is(c, x)
        BY <1>0, <1>2, <1>3, HandlesBoth
      <3>2. Handles(x) \in Nat
        BY <1>3, HandlesNat
      <3> QED BY <3>1, <3>2 DEF Is
    <2> QED BY <2>1
  <1>6. /\ Handles(d)' = 1 /\ Handles(c)' = 1 /\ Handles(Frame)' = Handles(Frame)
        /\ \A x \in Coroutine \ {c, d} : Handles(x)' = Handles(x)
    <2>1. Is(d, d) = 1 /\ Is(d, c) = 0 /\ Is(d, Frame) = 0
      BY <1>4, HandlesAssumption DEF Is
    <2>2. \A x \in Coroutine \ {c, d} : Is(d, x) = 0
      BY DEF Is
    <2> QED BY <1>1, <1>3, <1>4, <1>5, <2>1, <2>2
  <1>7. HandleTypes' /\ Busy' /\ Jobs(Callback)' \subseteq Jobs(Callback)
    <2>1. d # Callback
      BY <1>4, HandlesAssumption
    <2> QED BY <1>1, <1>2, <1>3, <1>4, <2>1, JobTypes
  <1>8. /\ step' \in [Context -> Nat \ {0}]
        /\ phase' \in [Context -> {"run", "suspending", "suspended"} \cup Closing]
        /\ Moves(c) /\ \A x \in Context \ {c} : Stays(x)
    BY <1>1, <1>2, <1>3, PastFacts
  <1>9. children' \in [Context -> Nat] /\ children'[c] = children[c] + 1
        /\ \A x \in Context \ {c} : children'[x] = children[x]
    BY <1>1, <1>2, <1>3 DEF Types
  <1>10. Types'
    <2>1. parent' \in [Coroutine -> Context \cup {NoJob, Group}]
      BY <1>1, <1>2, <1>3 DEF Types
    <2> QED BY <1>2, <1>3, <1>7, <1>8, <1>9, <2>1 DEF Types
  <1>11. One(Op(c) \in {"fork", "soon"}) = 1 /\ One(Op(c) = "spawn") = 0 /\ group' = group + 0
    BY <1>1, <1>2, <1>3 DEF One, Types
  <1>12. UNCHANGED <<canceled, event, counter, seen, called>>
    BY <1>2
  <1>13. Op(c) # "await" /\ Op(c) # "spawn" /\ \A x \in Context \ {c} : Stays(x) /\ children'[x] = children[x]
    BY <1>1, <1>8, <1>9
  <1>14. c \in Context \cup {Group} /\ c = IF Op(c) = "spawn" THEN Group ELSE c
    BY <1>1
  <1>15. /\ group' = group + One(Op(c) = "spawn")
         /\ children'[c] = children[c] + One(Op(c) \in {"fork", "soon"})
         /\ parent' = [parent EXCEPT ![d] = c] /\ d = Argument(c)
    BY <1>0, <1>2, <1>9, <1>11
  <1> QED BY ONLY CInv, <1>1, <1>3, <1>4, <1>6, <1>7, <1>8, <1>10, <1>12, <1>13, <1>14, <1>15, CreateCInv

LEMMA SoonCInv == ASSUME CInv, NEW t \in Worker \cup {Main}, Soon(t) PROVE CInv'
  <1>0. PICK c, d : c = ContextOf(t) /\ d = Argument(c)
    OBVIOUS
  <1>1. /\ c \in Context /\ ~Ended(c) /\ Op(c) = "soon" /\ phase[c] = "run"
        /\ c \in Coroutine => parent[c] # NoJob /\ Handles(c) = 1
    <2>1. At(t, "soon", "run")
      BY DEF Soon
    <2>2. CASE t \in Worker
      BY <1>0, <2>1, <2>2, Running
    <2>3. CASE t = Main
      BY <1>0, <2>1, <2>3, RunningMain
    <2> QED BY <2>2, <2>3
  <1>2. /\ children' = [children EXCEPT ![c] = @ + 1] /\ parent' = [parent EXCEPT ![d] = c]
        /\ Past(c) /\ Pushed(d) /\ job' = job
        /\ UNCHANGED <<counter, event, group, seen, called, canceled, pc>>
    BY <1>0 DEF Soon, Adopt, Pushes, PushBack, Pushed, eventVars, groupVars
  <1>3. Types /\ HandleTypes /\ Op(c) \in Creating /\ Frame \in Item /\ Coroutine \subseteq Item
    BY <1>1 DEF CInv, Types, Creating, Item
  <1>4. d \in Coroutine /\ Handles(d) = 0 /\ parent[d] = NoJob /\ d # c
    <2>1. d \in Coroutine
      BY <1>0, <1>1, <1>3, Programs
    <2> QED BY <1>0, <1>1, <1>3, <2>1, Unborn DEF CInv
  <1>5. \A x \in Item : Handles(x) \in Nat /\ Handles(x)' = Handles(x) + Is(d, x)
    BY <1>2, <1>3, HandlesNat, HandlesPush
  <1>6. /\ Handles(d)' = 1 /\ Handles(Frame)' = Handles(Frame)
        /\ \A x \in Coroutine \ {d} : Handles(x)' = Handles(x)
    <2>1. Is(d, d) = 1 /\ Is(d, Frame) = 0
      BY <1>4, HandlesAssumption DEF Is
    <2>2. \A x \in Coroutine \ {d} : Is(d, x) = 0
      BY DEF Is
    <2> QED BY <1>1, <1>3, <1>4, <1>5, <2>1, <2>2
  <1>7. HandleTypes' /\ Busy' /\ Jobs(Callback)' \subseteq Jobs(Callback)
    BY <1>2, <1>3, <1>4, PushTypes
  <1>8. /\ step' \in [Context -> Nat \ {0}]
        /\ phase' \in [Context -> {"run", "suspending", "suspended"} \cup Closing]
        /\ Moves(c) /\ \A x \in Context \ {c} : Stays(x)
    BY <1>1, <1>2, <1>3, PastFacts
  <1>9. children' \in [Context -> Nat] /\ children'[c] = children[c] + 1
        /\ \A x \in Context \ {c} : children'[x] = children[x]
    BY <1>1, <1>2, <1>3 DEF Types
  <1>10. Types'
    <2>1. parent' \in [Coroutine -> Context \cup {NoJob, Group}]
      BY <1>1, <1>2, <1>3 DEF Types
    <2> QED BY <1>2, <1>3, <1>7, <1>8, <1>9, <2>1 DEF Types
  <1>11. One(Op(c) \in {"fork", "soon"}) = 1 /\ One(Op(c) = "spawn") = 0 /\ group' = group + 0
    BY <1>1, <1>2, <1>3 DEF One, Types
  <1>12. UNCHANGED <<canceled, event, counter, seen, called>>
    BY <1>2
  <1>13. Op(c) # "await" /\ Op(c) # "spawn" /\ \A x \in Context \ {c} : Stays(x) /\ children'[x] = children[x]
    BY <1>1, <1>8, <1>9
  <1>14. c \in Context \cup {Group} /\ c = IF Op(c) = "spawn" THEN Group ELSE c
    BY <1>1
  <1>15. /\ group' = group + One(Op(c) = "spawn")
         /\ children'[c] = children[c] + One(Op(c) \in {"fork", "soon"})
         /\ parent' = [parent EXCEPT ![d] = c] /\ d = Argument(c)
    BY <1>0, <1>2, <1>9, <1>11
  <1>16. /\ c \in Coroutine => parent[c] # NoJob /\ Handles(c)' = 1
         /\ \A x \in Coroutine \ {c, d} : Handles(x)' = Handles(x)
    BY <1>1, <1>4, <1>6
  <1> QED BY ONLY CInv, <1>1, <1>3, <1>4, <1>6, <1>7, <1>8, <1>10, <1>12, <1>13, <1>14, <1>15, <1>16,
             CreateCInv

LEMMA AwaitCInv == ASSUME CInv, NEW w \in Worker, Await(w) PROVE CInv'
  <1>0. PICK c, d : c = job[w] /\ d = Argument(c)
    OBVIOUS
  <1>1. /\ c \in Coroutine /\ c \in Context /\ pc[w] = "run" /\ ~Ended(c) /\ Op(c) = "await"
        /\ phase[c] = "run" /\ Handles(c) = 1 /\ parent[c] # NoJob
    <2>1. At(w, "await", "run")
      BY DEF Await
    <2> QED BY <1>0, <2>1, Running
  <1>2. /\ parent' = [parent EXCEPT ![d] = c] /\ Becomes(w, d)
        /\ step' = step /\ phase' = [phase EXCEPT ![c] = "suspended"]
        /\ UNCHANGED <<children, counter, event, group, seen, called, canceled, pc, deque>>
    BY <1>0 DEF Await, QueueQuiet, eventVars, groupVars
  <1>3. Types /\ HandleTypes /\ Op(c) \in Creating /\ Frame \in Item /\ Coroutine \subseteq Item
    BY <1>1 DEF CInv, Types, Creating, Item
  <1>4. d \in Coroutine /\ Handles(d) = 0 /\ parent[d] = NoJob /\ d # c
    <2>1. d \in Coroutine
      BY <1>0, <1>1, <1>3, Programs
    <2> QED BY <1>0, <1>1, <1>3, <2>1, Unborn DEF CInv
  <1>5. \A x \in Item : Handles(x) \in Nat /\ Handles(x)' = Handles(x) - Is(c, x) + Is(d, x)
    BY <1>0, <1>2, <1>3, HandlesNat, HandlesJob
  <1>6. /\ Handles(d)' = 1 /\ Handles(c)' = 0 /\ Handles(Frame)' = Handles(Frame)
        /\ \A x \in Coroutine \ {c, d} : Handles(x)' = Handles(x)
    <2>1. /\ Is(d, d) = 1 /\ Is(d, c) = 0 /\ Is(d, Frame) = 0
          /\ Is(c, c) = 1 /\ Is(c, d) = 0 /\ Is(c, Frame) = 0
      BY <1>1, <1>4, HandlesAssumption DEF Is
    <2>2. \A x \in Coroutine \ {c, d} : Is(d, x) = 0 /\ Is(c, x) = 0
      BY DEF Is
    <2>3. d \in Item /\ c \in Item
      BY <1>1, <1>3, <1>4
    <2>4. Handles(d)' = 1
      BY <1>4, <1>5, <2>1, <2>3
    <2>5. Handles(c)' = 0
      BY <1>1, <1>5, <2>1, <2>3
    <2>6. Handles(Frame)' = Handles(Frame)
      BY <1>3, <1>5, <2>1
    <2>7. \A x \in Coroutine \ {c, d} : Handles(x)' = Handles(x)
      BY <1>3, <1>5, <2>2
    <2> QED BY <2>4, <2>5, <2>6, <2>7
  <1>7. HandleTypes' /\ Busy' /\ Jobs(Callback)' \subseteq Jobs(Callback)
    <2>1. d # Callback
      BY <1>4, HandlesAssumption
    <2> QED BY <1>1, <1>2, <1>3, <1>4, <2>1, JobTypes
  <1>8. /\ step' \in [Context -> Nat \ {0}]
        /\ phase' \in [Context -> {"run", "suspending", "suspended"} \cup Closing]
        /\ Turns(c, "suspended") /\ \A x \in Context \ {c} : Stays(x)
    BY <1>1, <1>2, <1>3, TurnFacts
  <1>9. Types'
    <2>1. parent' \in [Coroutine -> Context \cup {NoJob, Group}]
      BY <1>1, <1>2, <1>3 DEF Types
    <2> QED BY <1>2, <1>3, <1>7, <1>8, <2>1 DEF Types
  <1>10. One(Op(c) \in {"fork", "soon"}) = 0 /\ One(Op(c) = "spawn") = 0
         /\ group' = group + 0 /\ children'[c] = children[c] + 0
    BY <1>1, <1>2, <1>3 DEF One, Types
  <1>11. UNCHANGED <<canceled, event, counter, seen, called>>
    BY <1>2
  <1>12. Op(c) # "spawn" /\ \A x \in Context \ {c} : Stays(x) /\ children'[x] = children[x]
    BY <1>1, <1>2, <1>8
  <1>13. c \in Context \cup {Group} /\ c = IF Op(c) = "spawn" THEN Group ELSE c
    BY <1>1
  <1>14. /\ group' = group + One(Op(c) = "spawn")
         /\ children'[c] = children[c] + One(Op(c) \in {"fork", "soon"})
         /\ parent' = [parent EXCEPT ![d] = c] /\ d = Argument(c)
    BY <1>0, <1>2, <1>10
  <1> QED BY ONLY CInv, <1>1, <1>3, <1>4, <1>6, <1>7, <1>8, <1>9, <1>11, <1>12, <1>13, <1>14, CreateCInv

LEMMA SpawnCInv == ASSUME CInv, Spawn PROVE CInv'
  <1>0. PICK d : d = Argument(Main)
    OBVIOUS
  <1>1. /\ Main \in Context /\ Main \notin Coroutine /\ ~Ended(Main) /\ Op(Main) = "spawn"
        /\ phase[Main] = "run"
    <2>1. At(Main, "spawn", "run")
      BY DEF Spawn
    <2> QED BY <2>1, RunningMain
  <1>2. /\ group' = group + 1 /\ parent' = [parent EXCEPT ![d] = Group]
        /\ Past(Main) /\ Pushed(d)
        /\ UNCHANGED <<job, children, counter, event, seen, called, canceled, pc>>
    BY <1>0 DEF Spawn, Pushes, PushBack, Pushed, eventVars
  <1>3. Types /\ HandleTypes /\ Op(Main) \in Creating /\ Frame \in Item /\ Coroutine \subseteq Item
    BY <1>1 DEF CInv, Types, Creating, Item
  <1>4. d \in Coroutine /\ Handles(d) = 0 /\ parent[d] = NoJob /\ d # Main
    <2>1. d \in Coroutine
      BY <1>0, <1>1, <1>3, Programs
    <2> QED BY <1>0, <1>1, <1>3, <2>1, Unborn DEF CInv
  <1>5. \A x \in Item : Handles(x) \in Nat /\ Handles(x)' = Handles(x) + Is(d, x)
    BY <1>2, <1>3, HandlesNat, HandlesPush
  <1>6. /\ Handles(d)' = 1 /\ Handles(Frame)' = Handles(Frame)
        /\ \A x \in Coroutine \ {Main, d} : Handles(x)' = Handles(x)
    <2>1. Is(d, d) = 1 /\ Is(d, Frame) = 0
      BY <1>4, HandlesAssumption DEF Is
    <2>2. \A x \in Coroutine \ {d} : Is(d, x) = 0
      BY DEF Is
    <2> QED BY <1>1, <1>3, <1>4, <1>5, <2>1, <2>2
  <1>7. HandleTypes' /\ Busy' /\ Jobs(Callback)' \subseteq Jobs(Callback)
    BY <1>2, <1>3, <1>4, PushTypes
  <1>8. /\ step' \in [Context -> Nat \ {0}]
        /\ phase' \in [Context -> {"run", "suspending", "suspended"} \cup Closing]
        /\ Moves(Main) /\ \A x \in Context \ {Main} : Stays(x)
    BY <1>1, <1>2, <1>3, PastFacts
  <1>9. Types'
    <2>1. parent' \in [Coroutine -> Context \cup {NoJob, Group}]
      BY <1>1, <1>2, <1>3 DEF Types
    <2>2. group' \in Int
      BY <1>2, <1>3 DEF Types
    <2> QED BY <1>2, <1>3, <1>7, <1>8, <2>1, <2>2 DEF Types
  <1>10. One(Op(Main) \in {"fork", "soon"}) = 0 /\ One(Op(Main) = "spawn") = 1
         /\ children'[Main] = children[Main] + 0
    BY <1>1, <1>2, <1>3 DEF One, Types
  <1>11. UNCHANGED <<canceled, event, counter, seen, called>>
    BY <1>2
  <1>12. Op(Main) # "await" /\ \A x \in Context \ {Main} : Stays(x) /\ children'[x] = children[x]
    BY <1>1, <1>2, <1>8
  <1>13. Group \in Context \cup {Group} /\ Group = IF Op(Main) = "spawn" THEN Group ELSE Main
    BY <1>1
  <1>14. /\ group' = group + One(Op(Main) = "spawn")
         /\ children'[Main] = children[Main] + One(Op(Main) \in {"fork", "soon"})
         /\ parent' = [parent EXCEPT ![d] = Group] /\ d = Argument(Main)
    BY <1>0, <1>2, <1>10
  <1> QED BY ONLY CInv, <1>1, <1>3, <1>4, <1>6, <1>7, <1>8, <1>9, <1>11, <1>12, <1>13, <1>14, CreateCInv

(* The coroutine that worker w is running has come to its end. *)
LEMMA Ending ==
  ASSUME CInv, NEW w \in Worker, Runs(w), NEW d \in Coroutine, job[w] = d, Ended(d)
  PROVE  /\ pc[w] = "run" /\ Handles(d) = 1 /\ ~Done(d)
         /\ parent[d] \in Context \cup {Group} /\ parent[d] # NoJob /\ parent[d] # d
  <1>1. pc[w] = "run"
    BY WorkQueueAssumption, CoroutinesAssumption DEF Runs
  <1>2. Handles(d) = 1 /\ parent[d] # NoJob
    <2>1. HandleTypes /\ OwnedBy(d)
      BY DEF CInv, Types, Owned
    <2>2. Handles(d) >= 1 /\ Handles(d) \in Nat
      BY <2>1, HandlesNat
    <2> QED BY <2>1, <2>2 DEF OwnedBy
  <1>3. parent[d] \in Context \cup {Group}
    BY <1>2 DEF CInv, Types
  <1>4. parent[d] # d
    <2>1. PICK c \in Context : c # d /\ \E i \in DOMAIN Program[c] : Makes(c, i, d)
      <3>1. \A T \in SUBSET Coroutine : T # {} =>
              \E c \in Context \ T, e \in T : \E i \in DOMAIN Program[c] : Makes(c, i, e)
        BY ProgramAssumption
      <3>2. {d} \in SUBSET Coroutine /\ {d} # {}
        OBVIOUS
      <3>3. PICK c \in Context \ {d}, e \in {d} : \E i \in DOMAIN Program[c] : Makes(c, i, e)
        BY <3>1, <3>2
      <3>4. e = d /\ c # d
        OBVIOUS
      <3>5. \E i \in DOMAIN Program[c] : Makes(c, i, d)
        BY <3>3, <3>4
      <3> QED BY <3>4, <3>5
    <2>2. PICK i \in DOMAIN Program[c] : Makes(c, i, d)
      BY <2>1
    <2>3. parent[d] \in {c, Group, NoJob}
      BY <2>2 DEF CInv, Born, Maker
    <2> QED BY <2>1, <2>3, HandlesAssumption
  <1> QED BY <1>1, <1>2, <1>3, <1>4 DEF Done

LEMMA AwaitResumeCInv == ASSUME CInv, NEW w \in Worker, AwaitResume(w) PROVE CInv'
  <1>0. PICK d, p : d = job[w] /\ p = parent[d]
    OBVIOUS
  <1>1. /\ d \in Coroutine /\ Ended(d) /\ pc[w] = "run" /\ Handles(d) = 1 /\ parent[d] # NoJob /\ p # d
    BY <1>0, Ending DEF AwaitResume
  <1>2. /\ p \in Coroutine /\ ~Ended(p) /\ phase[p] = "suspended" /\ Op(p) = "await" /\ Argument(p) = d
        /\ Awaits(p, d)
    BY <1>0 DEF AwaitResume, Awaits, Op
  <1>3. /\ Past(p) /\ Becomes(w, p)
        /\ UNCHANGED <<parent, children, counter, event, group, seen, called, canceled, pc, deque>>
    BY <1>0 DEF AwaitResume, QueueQuiet, eventVars, groupVars
  <1>4. Types /\ HandleTypes /\ Frame \in Item /\ Coroutine \subseteq Item
        /\ Main \notin Coroutine /\ Context = Coroutine \cup {Main} /\ Main \in Context
        /\ Group \notin Context
    BY HandlesAssumption DEF CInv, Types, Item, Context
  <1>5. Handles(p) = 0 /\ parent[p] # NoJob
    BY <1>2 DEF CInv, Owned, OwnedBy
  <1>6. \A x \in Item : Handles(x) \in Nat /\ Handles(x)' = Handles(x) - Is(d, x) + Is(p, x)
    BY <1>0, <1>3, <1>2, <1>4, HandlesNat, HandlesJob
  <1>7. /\ Handles(d)' = 0 /\ Handles(p)' = 1 /\ Handles(Frame)' = Handles(Frame)
        /\ \A x \in Coroutine \ {d, p} : Handles(x)' = Handles(x)
    <2>1. /\ Is(d, d) = 1 /\ Is(d, p) = 0 /\ Is(d, Frame) = 0
          /\ Is(p, p) = 1 /\ Is(p, d) = 0 /\ Is(p, Frame) = 0
      BY <1>1, <1>2, HandlesAssumption DEF Is
    <2>2. \A x \in Coroutine \ {d, p} : Is(d, x) = 0 /\ Is(p, x) = 0
      BY DEF Is
    <2>3. d \in Item /\ p \in Item
      BY <1>1, <1>2, <1>4
    <2>4. Handles(d)' = 0
      BY <1>1, <1>6, <2>1, <2>3
    <2>5. Handles(p)' = 1
      BY <1>5, <1>6, <2>1, <2>3
    <2>6. Handles(Frame)' = Handles(Frame)
      BY <1>4, <1>6, <2>1
    <2>7. \A x \in Coroutine \ {d, p} : Handles(x)' = Handles(x)
      BY <1>4, <1>6, <2>2
    <2> QED BY <2>4, <2>5, <2>6, <2>7
  <1>8. HandleTypes' /\ Busy' /\ Jobs(Callback)' \subseteq Jobs(Callback)
    <2>1. p # Callback
      BY <1>2, HandlesAssumption
    <2> QED BY <1>1, <1>2, <1>3, <1>4, <2>1, JobTypes
  <1>9. /\ step' \in [Context -> Nat \ {0}]
        /\ phase' \in [Context -> {"run", "suspending", "suspended"} \cup Closing]
        /\ Moves(p) /\ \A x \in Context \ {p} : Stays(x)
    BY <1>2, <1>3, <1>4, PastFacts
  <1>10. Types'
    BY <1>3, <1>4, <1>8, <1>9 DEF Types
  <1>11. parent' = parent /\ canceled' = canceled /\ event' = event /\ p \in Context
    BY <1>2, <1>3, <1>4
  <1>12. Phases /\ Owned /\ Born /\ Joins /\ Shut
    BY DEF CInv
  <1>13. /\ Phases' /\ Owned' /\ Born' /\ Joins' /\ Shut'
         /\ \A x \in Context : Kids(x)' = Kids(x) \ {d}
         /\ Tasks' = Tasks \ {d}
    BY ONLY <1>1, <1>2, <1>4, <1>5, <1>7, <1>9, <1>10, <1>11, <1>12, EndStep
  <1>14. Tasks' = Tasks /\ \A x \in Context : Kids(x)' = Kids(x)
    <2>1. d \notin Tasks
      BY <1>0, <1>4, <1>11 DEF Tasks
    <2>2. \A x \in Context : d \notin Kids(x)
      BY <1>0, <1>2 DEF Kids
    <2> QED BY <1>13, <2>1, <2>2
  <1>15. Nurseries'
    <2>1. ASSUME NEW x \in Context PROVE Doing(x, "join", "suspended")' <=> Doing(x, "join", "suspended")
      <3>1. CASE x = p
        BY <1>2, <1>9, <3>1 DEF Moves, Doing
      <3>2. CASE x # p
        <4>1. Stays(x)
          BY <1>9, <3>2
        <4> QED BY <4>1, StaysFacts
      <3> QED BY <3>1, <3>2
    <2> QED BY <1>3, <1>14, <2>1 DEF CInv, Nurseries, Counted
  <1>16. Stays(Main)
    BY <1>2, <1>4, <1>9
  <1>17. phase'[Main] = phase[Main] /\ Op(Main)' = Op(Main)
    BY <1>16, StaysFacts DEF Stays
  <1>18. MainFrame' /\ Groups'
    BY <1>3, <1>7, <1>8, <1>14, <1>17 DEF CInv, MainFrame, Groups
  <1> QED BY <1>8, <1>10, <1>13, <1>15, <1>18 DEF CInv

LEMMA GroupResumeCInv == ASSUME CInv, NEW w \in Worker, GroupResume(w) PROVE CInv'
  <1>0. PICK d : d = job[w]
    OBVIOUS
  <1>1. /\ d \in Coroutine /\ Ended(d) /\ pc[w] = "run" /\ Handles(d) = 1 /\ parent[d] # NoJob
        /\ ~Done(d) /\ parent[d] = Group
    BY <1>0, Ending DEF GroupResume
  <1>2. PICK y : y = IF group = 1 THEN Callback ELSE NoJob
    OBVIOUS
  <1>3. /\ Becomes(w, y) /\ group' = group - 1
        /\ UNCHANGED <<step, phase, parent, children, counter, event, seen, called, canceled, pc, deque>>
    BY <1>2 DEF GroupResume, QueueQuiet, contextVars, eventVars
  <1>4. Types /\ HandleTypes /\ Frame \in Item /\ Coroutine \subseteq Item
        /\ Main \notin Coroutine /\ Context = Coroutine \cup {Main} /\ Main \in Context
        /\ Group \notin Context
    BY HandlesAssumption DEF CInv, Types, Item, Context
  <1>5. \A x \in Item : Handles(x) \in Nat /\ Handles(x)' = Handles(x) - Is(d, x)
    <2>1. ASSUME NEW x \in Item PROVE Handles(x) \in Nat /\ Handles(x)' = Handles(x) - Is(d, x)
      <3>1. Handles(x) \in Nat /\ Handles(x)' = Handles(x) - Is(d, x) + Is(y, x)
        BY <1>0, <1>3, <1>4, HandlesNat, HandlesJob
      <3>2. Is(y, x) = 0
        BY <1>2, HandlesAssumption DEF Is, Item
      <3> QED BY <3>1, <3>2 DEF Is
    <2> QED BY <2>1
  <1>6. Handles(d)' = 0 /\ \A x \in Item \ {d} : Handles(x)' = Handles(x)
    <2>1. Is(d, d) = 1 /\ \A x \in Item \ {d} : Is(d, x) = 0
      BY DEF Is
    <2>2. d \in Item
      BY <1>1, <1>4
    <2> QED BY <1>1, <1>5, <2>1, <2>2
  <1>7. HandleTypes' /\ Busy' /\ (y # Callback => Jobs(Callback)' \subseteq Jobs(Callback))
    <2>1. y \in Item \cup {NoJob, Arm, Callback}
      BY <1>2
    <2> QED BY <1>1, <1>3, <1>4, <2>1, JobTypes
  <1>8. /\ step' \in [Context -> Nat \ {0}]
        /\ phase' \in [Context -> {"run", "suspending", "suspended"} \cup Closing]
        /\ \A x \in Context : Stays(x)
    BY <1>3, <1>4, StillFacts
  <1>9. Types'
    <2>1. group' \in Int
      BY <1>3, <1>4 DEF Types
    <2> QED BY <1>3, <1>4, <1>7, <1>8, <2>1 DEF Types
  <1>10. /\ parent' = parent /\ canceled' = canceled /\ event' = event
         /\ Stays(Main) /\ Main # d /\ \A x \in Context \ {Main} : Stays(x)
         /\ \A x \in Coroutine \ {d, Main} : Handles(x)' = Handles(x)
    BY <1>1, <1>3, <1>4, <1>6, <1>8
  <1>11. Phases /\ Owned /\ Born /\ Joins /\ Shut
    BY DEF CInv
  <1>12. /\ Phases' /\ Owned' /\ Born' /\ Joins' /\ Shut'
         /\ \A x \in Context : Kids(x)' = Kids(x) \ {d}
         /\ Tasks' = Tasks \ {d}
    BY ONLY <1>1, <1>4, <1>6, <1>9, <1>10, <1>11, EndStep
  <1>13. d \in Tasks /\ \A x \in Context : Kids(x)' = Kids(x)
    <2>1. \A x \in Context : d \notin Kids(x)
      BY <1>1, <1>4 DEF Kids
    <2> QED BY <1>1, <1>12, <2>1 DEF Tasks
  <1>14. Nurseries'
    <2>1. \A x \in Context : Doing(x, "join", "suspended")' <=> Doing(x, "join", "suspended")
      BY <1>8, StaysFacts
    <2> QED BY <1>3, <1>13, <2>1 DEF CInv, Nurseries, Counted
  <1>15. MainFrame'
    <2>1. phase'[Main] = phase[Main] /\ Op(Main)' = Op(Main)
      BY <1>10, StaysFacts DEF Stays
    <2>2. Frame \in Item \ {d}
      BY <1>1, <1>4, HandlesAssumption
    <2>3. Handles(Frame)' = Handles(Frame)
      BY <1>6, <2>2
    <2> QED BY <1>3, <2>1, <2>3 DEF CInv, MainFrame
  <1>16. Groups'
    <2>1. /\ group = Cardinality(Tasks) + One(phase[Main] \notin Closing)
          /\ Cardinality(Tasks) \in Nat /\ One(phase[Main] \notin Closing) \in Nat
          /\ IsFiniteSet(Tasks) /\ Cardinality(Tasks) # 0
      BY <1>13, TasksFinite DEF CInv, Groups, One
    <2>2. Cardinality(Tasks)' = Cardinality(Tasks) - 1
      BY <1>12, <1>13, <2>1, FS_RemoveElement
    <2>3. phase'[Main] = phase[Main]
      BY <1>3
    <2>4. group' = Cardinality(Tasks)' + One(phase'[Main] \notin Closing)
      BY <1>3, <2>1, <2>2, <2>3
    <2>5. group # 0
      BY <2>1
    <2>6. ~called /\ Jobs(Callback) = {} /\ ~(phase[Main] \in Closing /\ seen = 0)
      BY <2>5 DEF CInv, Groups
    <2>7. Jobs(Callback)' # {} => group' = 0
      <3>1. group # 1 => y # Callback
        BY <1>2, HandlesAssumption
      <3>2. group # 1 => Jobs(Callback)' = {}
        BY <1>7, <2>6, <3>1
      <3> QED BY <1>3, <3>2
    <2>8. ~called' /\ ~(phase'[Main] \in Closing /\ seen' = 0)
      BY <1>3, <2>6
    <2> QED BY <2>4, <2>7, <2>8 DEF Groups
  <1> QED BY <1>7, <1>9, <1>12, <1>14, <1>15, <1>16 DEF CInv

LEMMA NurseryResumeCInv == ASSUME CInv, NEW w \in Worker, NurseryResume(w) PROVE CInv'
  <1>0. PICK d, p : d = job[w] /\ p = parent[d]
    OBVIOUS
  <1>1. /\ d \in Coroutine /\ Ended(d) /\ pc[w] = "run" /\ Handles(d) = 1 /\ parent[d] # NoJob
        /\ p # d /\ p \in Context /\ ~Awaits(p, d) /\ ~Done(d)
    BY <1>0, Ending DEF NurseryResume
  <1>2. PICK y : y = IF counter[p] = 1 /\ p # Main THEN p ELSE NoJob
    OBVIOUS
  <1>3. /\ counter' = [counter EXCEPT ![p] = @ - 1]
        /\ IF counter[p] = 1 THEN Past(p) ELSE step' = step /\ phase' = phase
        /\ Becomes(w, y)
        /\ UNCHANGED <<parent, children, event, group, seen, called, canceled, pc, deque>>
    BY <1>0, <1>2 DEF NurseryResume, QueueQuiet, eventVars, groupVars
  <1>4. Types /\ HandleTypes /\ Frame \in Item /\ Coroutine \subseteq Item
        /\ Main \notin Coroutine /\ Context = Coroutine \cup {Main} /\ Main \in Context
        /\ Group \notin Context
    BY HandlesAssumption DEF CInv, Types, Item, Context
  <1>5. /\ counter[p] + children[p] = Cardinality(Kids(p)) /\ counter[p] \in Int /\ children[p] \in Nat
        /\ Cardinality(Kids(p)) \in Nat /\ IsFiniteSet(Kids(p)) /\ d \in Kids(p)
        /\ Cardinality(Kids(p)) # 0
    <2>1. d \in Kids(p)
      BY <1>0, <1>1 DEF Kids
    <2> QED BY <1>1, <1>4, <2>1, KidsFinite DEF CInv, Nurseries, Counted, Types
  <1>6. Doing(p, "join", "suspended") => children[p] = 0 /\ counter[p] > 0
    BY <1>1, <1>5 DEF CInv, Nurseries, Counted
  <1>7. ~Doing(p, "join", "suspended") => counter[p] <= 0
    BY <1>1 DEF CInv, Nurseries, Counted
  <1>8. counter[p] = 1 => /\ phase[p] = "suspended" /\ ~Ended(p) /\ Op(p) = "join" /\ Kids(p) = {d}
                          /\ p \in Coroutine => Handles(p) = 0 /\ parent[p] # NoJob
    <2> SUFFICES ASSUME counter[p] = 1
                 PROVE  /\ phase[p] = "suspended" /\ ~Ended(p) /\ Op(p) = "join" /\ Kids(p) = {d}
                        /\ p \in Coroutine => Handles(p) = 0 /\ parent[p] # NoJob
      OBVIOUS
    <2>1. Doing(p, "join", "suspended")
      BY <1>7
    <2>2. Cardinality(Kids(p)) = 1
      BY <1>5, <1>6, <2>1
    <2>3. Cardinality(Kids(p) \ {d}) = 0 /\ IsFiniteSet(Kids(p) \ {d})
      BY <1>5, <2>2, FS_RemoveElement
    <2>4. Kids(p) \ {d} = {}
      BY <2>3, FS_EmptySet
    <2>5. p \in Coroutine => Handles(p) = 0 /\ parent[p] # NoJob
      BY <2>1 DEF CInv, Owned, OwnedBy, Doing
    <2> QED BY <1>5, <2>1, <2>4, <2>5 DEF Doing
  <1>9. \A x \in Item : Handles(x) \in Nat /\ Handles(x)' = Handles(x) - Is(d, x) + Is(y, x)
    BY <1>0, <1>3, <1>4, HandlesNat, HandlesJob
  <1>10. Handles(Frame)' = Handles(Frame)
    <2>1. Is(d, Frame) = 0 /\ Is(y, Frame) = 0
      BY <1>1, <1>2, <1>4, HandlesAssumption DEF Is
    <2> QED BY <1>4, <1>9, <2>1
  <1>11. Handles(d)' = 0
    <2>1. Is(d, d) = 1 /\ Is(y, d) = 0 /\ d \in Item
      BY <1>1, <1>2, <1>4, HandlesAssumption DEF Is
    <2> QED BY <1>1, <1>9, <2>1
  <1>12. \A x \in Coroutine \ {d, p} : Handles(x)' = Handles(x)
    <2>1. ASSUME NEW x \in Coroutine \ {d, p} PROVE Handles(x)' = Handles(x)
      <3>1. Is(d, x) = 0 /\ Is(y, x) = 0 /\ x \in Item
        BY <1>2, <1>4, HandlesAssumption DEF Is
      <3> QED BY <1>9, <3>1
    <2> QED BY <2>1
  <1>13. p \in Coroutine => Handles(p)' = IF counter[p] = 1 THEN 1 ELSE Handles(p)
    <2> SUFFICES ASSUME p \in Coroutine PROVE Handles(p)' = IF counter[p] = 1 THEN 1 ELSE Handles(p)
      OBVIOUS
    <2>1. p \in Item /\ p # Main /\ Is(d, p) = 0
      BY <1>1, <1>4 DEF Is
    <2>2. CASE counter[p] = 1
      <3>1. Is(y, p) = 1 /\ Handles(p) = 0
        BY <1>2, <1>8, <2>1, <2>2 DEF Is
      <3> QED BY <1>9, <2>1, <2>2, <3>1
    <2>3. CASE counter[p] # 1
      <3>1. Is(y, p) = 0
        BY <1>2, <2>3, HandlesAssumption DEF Is
      <3> QED BY <1>9, <2>1, <2>3, <3>1
    <2> QED BY <2>2, <2>3
  <1>14. HandleTypes' /\ Busy' /\ Jobs(Callback)' \subseteq Jobs(Callback)
    <2>1. y # Callback /\ y \in Item \cup {NoJob, Arm, Callback}
      BY <1>1, <1>2, <1>4, HandlesAssumption
    <2> QED BY <1>1, <1>3, <1>4, <2>1, JobTypes
  <1>15. /\ step' \in [Context -> Nat \ {0}]
         /\ phase' \in [Context -> {"run", "suspending", "suspended"} \cup Closing]
         /\ IF counter[p] = 1 THEN Moves(p) ELSE Stays(p)
         /\ \A x \in Context \ {p} : Stays(x)
    <2>1. CASE counter[p] = 1
      BY <1>1, <1>3, <1>4, <1>8, <2>1, PastFacts
    <2>2. CASE counter[p] # 1
      BY <1>1, <1>3, <1>4, <2>2, StillFacts
    <2> QED BY <2>1, <2>2
  <1>16. /\ counter' \in [Context -> Int] /\ counter'[p] = counter[p] - 1
         /\ \A x \in Context \ {p} : counter'[x] = counter[x]
    <2>1. counter \in [Context -> Int]
      BY <1>4 DEF Types
    <2> QED BY <1>1, <1>3, <1>5, <2>1
  <1>17. Types'
    BY <1>3, <1>4, <1>14, <1>15, <1>16 DEF Types
  <1>18. /\ parent' = parent /\ canceled' = canceled /\ event' = event
         /\ \/ Stays(p) /\ (p \in Coroutine => Handles(p)' = Handles(p))
            \/ /\ phase[p] = "suspended" /\ Moves(p) /\ (p \in Coroutine => parent[p] # NoJob /\ Handles(p)' = 1)
               /\ Op(p) = "join" /\ Kids(p) = {d}
    BY <1>3, <1>8, <1>13, <1>15
  <1>19. Phases /\ Owned /\ Born /\ Joins /\ Shut
    BY DEF CInv
  <1>20. /\ Phases' /\ Owned' /\ Born' /\ Joins' /\ Shut'
         /\ \A x \in Context : Kids(x)' = Kids(x) \ {d}
         /\ Tasks' = Tasks \ {d}
    BY ONLY <1>1, <1>4, <1>11, <1>12, <1>15, <1>17, <1>18, <1>19, EndStep
  <1>21. Tasks' = Tasks
    <2>1. d \notin Tasks
      BY <1>0, <1>1, <1>4 DEF Tasks
    <2> QED BY <1>20, <2>1
  <1>22. ASSUME NEW x \in Context, x # p PROVE Counted(x)'
    <2>1. \A op, ph : Doing(x, op, ph)' <=> Doing(x, op, ph)
      BY <1>15, <1>22, StaysFacts
    <2>2. Kids(x)' = Kids(x)
      <3>1. d \notin Kids(x)
        BY <1>0, <1>22 DEF Kids
      <3> QED BY <1>20, <3>1
    <2> QED BY <1>3, <1>16, <1>22, <2>1, <2>2 DEF CInv, Nurseries, Counted
  <1>23. Counted(p)'
    <2>1. Cardinality(Kids(p))' = Cardinality(Kids(p)) - 1
      <3>1. Kids(p)' = Kids(p) \ {d}
        BY <1>1, <1>20
      <3> QED BY <1>5, <3>1, FS_RemoveElement
    <2>2. counter'[p] + children'[p] = Cardinality(Kids(p))' /\ children'[p] = children[p]
      BY <1>3, <1>5, <1>16, <2>1
    <2>3. CASE counter[p] = 1
      <3>1. ~Doing(p, "join", "suspended")'
        BY <1>15, <2>3 DEF Moves, Doing
      <3>2. counter'[p] <= 0
        BY <1>16, <2>3
      <3> QED BY <2>2, <3>1, <3>2 DEF Counted
    <2>4. CASE counter[p] # 1
      <3>1. Doing(p, "join", "suspended")' <=> Doing(p, "join", "suspended")
        BY <1>15, <2>4, StaysFacts
      <3>2. Doing(p, "join", "suspended") => children[p] = 0 /\ counter'[p] > 0
        BY <1>5, <1>6, <1>16, <2>4
      <3>3. ~Doing(p, "join", "suspended") => counter'[p] <= 0
        BY <1>5, <1>7, <1>16
      <3> QED BY <2>2, <3>1, <3>2, <3>3 DEF Counted
    <2> QED BY <2>3, <2>4
  <1>24. Nurseries'
    BY <1>22, <1>23 DEF Nurseries
  <1>25. phase'[Main] \in Closing <=> phase[Main] \in Closing
    <2>1. CASE Stays(Main)
      BY <2>1 DEF Stays
    <2>2. CASE p = Main /\ Moves(p) /\ phase[p] = "suspended"
      BY <2>2 DEF Moves, Closing
    <2> QED BY <1>4, <1>8, <1>15, <2>1, <2>2
  <1>26. Groups'
    BY <1>3, <1>14, <1>21, <1>25 DEF CInv, Groups
  <1>27. MainFrame'
    <2>1. CASE p # Main
      <3>1. Stays(Main) /\ counter'[Main] = counter[Main]
        BY <1>4, <1>15, <1>16, <2>1
      <3> QED BY <1>10, <3>1, StaysFacts DEF CInv, MainFrame, Stays
    <2>2. CASE p = Main /\ counter[p] = 1
      <3>1. phase'[Main] = "run"
        BY <1>15, <2>2 DEF Moves
      <3>2. Handles(Frame) = 0
        BY <2>2 DEF CInv, MainFrame, One
      <3> QED BY <1>10, <3>1, <3>2 DEF MainFrame, One
    <2>3. CASE p = Main /\ counter[p] # 1
      <3>1. Stays(Main)
        BY <1>15, <2>3
      <3>2. phase'[Main] = phase[Main] /\ Op(Main)' = Op(Main)
        BY <3>1, StaysFacts DEF Stays
      <3>3. phase[Main] = "suspended" => counter[Main] # 0 /\ counter'[Main] # 0
        <4>1. phase[Main] = "suspended" => Doing(Main, "join", "suspended")
          BY <1>4 DEF CInv, MainFrame, Phases, Doing
        <4> QED BY <1>5, <1>6, <1>16, <2>3, <4>1
      <3>4. One(phase'[Main] = "suspended" /\ counter'[Main] = 0) = 0
            /\ One(phase[Main] = "suspended" /\ counter[Main] = 0) = 0
        BY <3>2, <3>3 DEF One
      <3> QED BY <1>10, <3>2, <3>4 DEF CInv, MainFrame
    <2> QED BY <2>1, <2>2, <2>3
  <1> QED BY <1>14, <1>17, <1>20, <1>24, <1>26, <1>27 DEF CInv

------------------------------------------------------------------------------
LEMMA CInvInit == Init => CInv
  <1> SUFFICES ASSUME Init PROVE CInv
    OBVIOUS
  <1>1. /\ deque = <<>> /\ canceled = FALSE /\ job = [w \in Worker |-> NoJob]
        /\ pc = [w \in Worker |-> "wait"]
        /\ step = [c \in Context |-> 1] /\ phase = [c \in Context |-> "run"]
        /\ parent = [c \in Coroutine |-> NoJob]
        /\ children = [c \in Context |-> 0] /\ counter = [c \in Context |-> 0]
        /\ event = EMPTY /\ group = 1 /\ seen = 1 /\ called = FALSE
    BY DEF Init, QueueInit
  <1>2. HandleTypes
    BY <1>1 DEF HandleTypes
  <1>3. Types
    <2>1. /\ step \in [Context -> Nat \ {0}] /\ children \in [Context -> Nat]
          /\ counter \in [Context -> Int] /\ group \in Int
      BY <1>1
    <2>2. /\ pc \in [Worker -> {"wait", "asleep", "check", "pop", "run", "exit"}]
          /\ phase \in [Context -> {"run", "suspending", "suspended"} \cup Closing]
          /\ parent \in [Coroutine -> Context \cup {NoJob, Group}]
      BY <1>1
    <2> QED BY <1>1, <1>2, <2>1, <2>2 DEF Types
  <1>4. \A x : x # NoJob => Jobs(x) = {} /\ Queued(x) = {}
    BY <1>1 DEF Jobs, Queued
  <1>5. \A x : x # NoJob => Handles(x) = 0
    <2>1. Cardinality({}) = 0
      BY FS_EmptySet
    <2> QED BY <1>4, <2>1 DEF Handles
  <1>6. /\ Main \in Context /\ Context = Coroutine \cup {Main} /\ Main \notin Coroutine
        /\ Frame # NoJob /\ Callback # NoJob /\ EMPTY \notin Coroutine
        /\ \A c \in Coroutine : c # NoJob
    BY HandlesAssumption DEF Context
  <1>7. Phases
    <2>1. ASSUME NEW c \in Context PROVE step[c] <= Len(Program[c]) + 1
      BY <1>1, <1>3, Programs
    <2> QED BY <1>1, <2>1 DEF Phases, Closing
  <1>8. Owned
    BY <1>1, <1>5, <1>6 DEF Owned, OwnedBy, Doing
  <1>9. Nurseries
    <2>1. ASSUME NEW c \in Context PROVE Counted(c)
      <3>1. Kids(c) = {}
        BY <1>1, <1>6, HandlesAssumption DEF Kids
      <3>2. Cardinality(Kids(c)) = 0
        BY <3>1, KidsFinite
      <3>3. ~Doing(c, "join", "suspended")
        BY <1>1 DEF Doing
      <3> QED BY <1>1, <3>2, <3>3 DEF Counted
    <2> QED BY <2>1 DEF Nurseries
  <1>10. MainFrame
    BY <1>1, <1>5, <1>6 DEF MainFrame, One
  <1>11. Groups
    <2>1. Tasks = {}
      BY <1>1, HandlesAssumption DEF Tasks
    <2>2. Cardinality(Tasks) = 0
      BY <2>1, TasksFinite
    <2>3. phase[Main] \notin Closing
      BY <1>1, <1>6 DEF Closing
    <2> QED BY <1>1, <1>4, <1>6, <2>2, <2>3 DEF Groups, One
  <1>12. Born
    <2>1. ASSUME NEW c \in Context, NEW i \in DOMAIN Program[c] PROVE ~Made(c, i)
      <3>1. i >= 1 /\ step[c] = 1 /\ i \in Nat
        BY <1>1, <1>3, Programs
      <3> QED BY <1>1, <3>1 DEF Made, Doing
    <2> QED BY <1>1, <2>1 DEF Born
  <1>13. Joins
    BY <1>1 DEF Joins
  <1>14. Shut /\ Busy
    BY <1>1 DEF Shut, Busy
  <1> QED BY <1>3, <1>7, <1>8, <1>9, <1>10, <1>11, <1>12, <1>13, <1>14 DEF CInv

(* Every action keeps the invariant. *)
LEMMA CInvStep == CInv /\ [Next]_vars => CInv'
  <1> SUFFICES ASSUME CInv, [Next]_vars PROVE CInv'
    OBVIOUS
  <1>1. ASSUME Others, UNCHANGED <<job, deque, canceled>>, pc' = pc PROVE CInv'
    <2>1. {} \in SUBSET Asleep
      OBVIOUS
    <2> QED BY <1>1, <2>1, WakeCInv
  <1>2. ASSUME NEW t \in Thread, Notify(t), Others PROVE CInv'
    <2>1. UNCHANGED <<job, deque, canceled>>
      BY <1>2 DEF Notify
    <2>2. \E S \in SUBSET Asleep : pc' = Woken(S) \/ pc' = pc
      BY <1>2 DEF Notify
    <2> QED BY <1>2, <2>1, <2>2, WakeCInv
  <1>3. ASSUME NEW w \in Worker, SpuriousWake(w), Others PROVE CInv'
    <2>1. UNCHANGED <<job, deque, canceled>> /\ pc' = Woken({w}) /\ {w} \in SUBSET Asleep
      BY <1>3 DEF SpuriousWake, Asleep
    <2> QED BY <1>3, <2>1, WakeCInv
  <1>4. ASSUME NEW w \in Worker, WorkerStep(w) PROVE CInv'
    <2>1. CASE Runner(w)
      <3>1. ASSUME Fork(w) \/ Soon(w) \/ Yield(w) \/ JoinReady(w) \/ JoinSuspend(w) PROVE CInv'
        BY <3>1, ForkCInv, SoonCInv, YieldCInv, JoinReadyCInv, JoinSuspendCInv
      <3>2. ASSUME Await(w) \/ AwaitResume(w) \/ NurseryResume(w) \/ GroupResume(w) PROVE CInv'
        BY <3>2, AwaitCInv, AwaitResumeCInv, NurseryResumeCInv, GroupResumeCInv
      <3>3. ASSUME FrameResume(w) \/ RunCallback(w) \/ EventReady(w) \/ EventSuspend(w) PROVE CInv'
        BY <3>3, FrameResumeCInv, RunCallbackCInv, EventReadyCInv, EventSuspendCInv
      <3>4. ASSUME ArmTimer(w) \/ Signal(w) PROVE CInv'
        BY <3>4, ArmTimerCInv, SignalCInv
      <3> QED BY <2>1, <3>1, <3>2, <3>3, <3>4 DEF Runner
    <2>2. CASE Serve(w) /\ Others
      BY <2>2, ServeCInv
    <2> QED BY <1>4, <2>1, <2>2 DEF WorkerStep
  <1>5. CASE MainStep
    <2>1. Main \in Thread /\ Main \in Worker \cup {Main}
      BY CoroutinesAssumption DEF Thread
    <2>2. ASSUME Soon(Main) \/ JoinReady(Main) \/ JoinSuspend(Main) PROVE CInv'
      BY <2>1, <2>2, SoonCInv, JoinReadyCInv, JoinSuspendCInv
    <2>3. ASSUME Spawn \/ GiveUpSentinel \/ WaitGroup \/ CancelAndJoin PROVE CInv'
      BY <2>3, SpawnCInv, GiveUpCInv, WaitGroupCInv, CancelCInv
    <2> QED BY <1>2, <1>5, <2>1, <2>2, <2>3 DEF MainStep
  <1>6. CASE TimerStep
    <2>1. Timer \in Thread
      BY CoroutinesAssumption DEF Thread
    <2> QED BY <1>2, <1>6, <2>1, FireCInv DEF TimerStep
  <1>7. CASE vars' = vars
    <2>1. Others /\ UNCHANGED <<job, deque, canceled>> /\ pc' = pc
      BY <1>7 DEF vars, queueVars, Others
    <2> QED BY <1>1, <2>1
  <1> QED BY <1>3, <1>4, <1>5, <1>6, <1>7 DEF Next

(* The invariant of coroutines and nurseries holds throughout. *)
LEMMA CInductive == Spec => []CInv
  BY CInvInit, CInvStep, PTL DEF Spec

------------------------------------------------------------------------------
(* The places that have the handle of c, as the runs count them. *)
LEMMA CountIs ==
  ASSUME CInv, NEW c \in Coroutine
  PROVE  /\ Count(c) = Handles(c) + One(phase[c] = "suspended")
         /\ Handles(c) \in Nat /\ (Ended(c) => phase[c] # "suspended")
  <1> DEFINE awaited == \E d \in Coroutine : Awaits(c, d) /\ parent[d] = c
             counting == counter[c] > 0 /\ phase[c] = "suspended"
  <1>1. /\ c \in Context /\ c # Main /\ Cardinality(Jobs(c)) \in Nat /\ Cardinality(Queued(c)) \in Nat
        /\ Handles(c) \in Nat
    BY HandlesAssumption, JobsFinite, QueuedFinite, HandlesNat DEF Context, CInv, Types
  <1>2. Count(c) = Handles(c) + (IF event = c THEN 1 ELSE 0) + (IF counting THEN 1 ELSE 0)
                   + (IF awaited THEN 1 ELSE 0)
    BY <1>1 DEF Count, Handles, Jobs, Queued
  <1>3. event = c <=> Doing(c, "wait", "suspended")
    BY DEF CInv, Owned, OwnedBy
  <1>4. counting <=> Doing(c, "join", "suspended")
    <2>1. Counted(c)
      BY <1>1 DEF CInv, Nurseries
    <2>2. ~Doing(c, "join", "suspended") => ~(counter[c] > 0)
      <3>1. counter[c] \in Int
        BY <1>1 DEF CInv, Types
      <3> QED BY <2>1, <3>1 DEF Counted
    <2>3. Doing(c, "join", "suspended") => counter[c] > 0
      BY <1>1, <2>1 DEF Counted
    <2> QED BY <2>2, <2>3 DEF Doing
  <1>5. awaited <=> Doing(c, "await", "suspended")
    <2>1. awaited => Doing(c, "await", "suspended")
      BY DEF Awaits, Doing, Op
    <2>2. ASSUME Doing(c, "await", "suspended") PROVE awaited
      <3>1. step[c] \in DOMAIN Program[c] /\ Argument(c) \in Coroutine
        BY <1>1, <2>2, Programs DEF CInv, Doing, Creating
      <3>2. Makes(c, step[c], Argument(c))
        BY <2>2, <3>1 DEF Makes, Argument, Doing, Op
      <3>3. Made(c, step[c]) /\ Maker(c, step[c]) = c
        BY <2>2 DEF Made, Maker, Doing, Op
      <3>4. parent[Argument(c)] = c
        BY <1>1, <3>1, <3>2, <3>3 DEF CInv, Born
      <3>5. Awaits(c, Argument(c))
        BY <2>2 DEF Awaits, Doing, Op
      <3> QED BY <3>1, <3>4, <3>5
    <2> QED BY <2>1, <2>2
  <1>6. Ended(c) => phase[c] # "suspended"
    BY <1>1 DEF CInv, Phases, Doing
  <1> HIDE DEF awaited, counting
  <1>7. CASE phase[c] = "suspended"
    <2>1. One(phase[c] = "suspended") = 1
      BY <1>7 DEF One
    <2>2. \/ Doing(c, "wait", "suspended") \/ Doing(c, "join", "suspended")
          \/ Doing(c, "await", "suspended")
      BY <1>1, <1>7 DEF CInv, Phases
    <2>3. /\ ~(Doing(c, "wait", "suspended") /\ Doing(c, "join", "suspended"))
          /\ ~(Doing(c, "wait", "suspended") /\ Doing(c, "await", "suspended"))
          /\ ~(Doing(c, "join", "suspended") /\ Doing(c, "await", "suspended"))
      BY DEF Doing
    <2> QED BY <1>1, <1>2, <1>3, <1>4, <1>5, <1>6, <2>1, <2>2, <2>3
  <1>8. CASE phase[c] # "suspended"
    <2>1. One(phase[c] = "suspended") = 0
      BY <1>8 DEF One
    <2>2. /\ ~Doing(c, "wait", "suspended") /\ ~Doing(c, "join", "suspended")
          /\ ~Doing(c, "await", "suspended")
      BY <1>8 DEF Doing
    <2> QED BY <1>1, <1>2, <1>3, <1>4, <1>5, <1>6, <2>1, <2>2
  <1> QED BY <1>7, <1>8

(* A coroutine is over when it was made, has ended and nobody holds it. *)
LEMMA OverIsDone ==
  ASSUME CInv, NEW c \in Coroutine
  PROVE  Over(c) <=> Done(c)
  <1>1. Ended(c) => Count(c) = Handles(c)
    <2>1. phase[c] # "suspended" => One(phase[c] = "suspended") = 0
      BY DEF One
    <2> QED BY <2>1, CountIs
  <1> QED BY <1>1 DEF Over, Done

(* The invariant says that every coroutine has one owner. *)
LEMMA CInvOneOwner == CInv => OneOwner
  <1> SUFFICES ASSUME CInv, NEW c \in Coroutine
               PROVE  /\ Count(c) <= 1
                      /\ parent[c] # NoJob /\ ~Ended(c) => Count(c) = 1
                      /\ parent[c] = NoJob => Count(c) = 0
    BY DEF OneOwner
  <1>1. OwnedBy(c) /\ Count(c) = Handles(c) + One(phase[c] = "suspended") /\ Handles(c) \in Nat
    BY CountIs DEF CInv, Owned
  <1>2. CASE phase[c] = "suspended"
    <2>1. One(phase[c] = "suspended") = 1
      BY <1>2 DEF One
    <2>2. Handles(c) = 0 /\ parent[c] # NoJob
      BY <1>1, <1>2 DEF OwnedBy
    <2> QED BY <1>1, <2>1, <2>2
  <1>3. CASE phase[c] # "suspended"
    <2>1. One(phase[c] = "suspended") = 0
      BY <1>3 DEF One
    <2>2. Count(c) = Handles(c)
      BY <1>1, <2>1
    <2> QED BY <1>1, <1>3, <2>2 DEF OwnedBy
  <1> QED BY <1>2, <1>3

(* Work is kept: exactly one place has the handle of each coroutine that   *)
(* has begun and is not over, so that it is neither resumed twice nor      *)
(* forgotten, and work in the queue has a worker awake or being woken.     *)
THEOREM SchedulerKeepsWork == Spec => []WorkKept
  <1>1. CInv /\ NoWorkIsSleptOn => WorkKept
    BY CInvOneOwner DEF WorkKept
  <1> QED BY <1>1, CInductive, NoWorkSleptOn, PTL

(* A context that is past a join, or an await, has seen to it that what it *)
(* forked before, or awaited, is over.                                     *)
THEOREM SchedulerJoins == Spec => []JoinMeansDone
  <1>1. CInv => JoinMeansDone
    <2> SUFFICES ASSUME CInv, NEW c \in Context, NEW i \in 1 .. step[c] - 1, NEW j \in 1 .. step[c] - 1,
                        \/ i < j /\ Program[c][i].op \in {"fork", "soon"} /\ Program[c][j].op = "join"
                        \/ i = j /\ Program[c][i].op = "await"
                 PROVE  Over(Program[c][i].arg)
      BY DEF JoinMeansDone
    <2>1. SeenTo(c, i, j) /\ Program[c][i].op \in Creating
      BY DEF SeenTo, Creating
    <2>2. Done(Program[c][i].arg)
      BY <2>1 DEF CInv, Joins
    <2>3. i \in DOMAIN Program[c]
      BY Programs DEF CInv, Phases
    <2>4. Program[c][i].arg \in Coroutine
      BY <2>1, <2>3, ProgramAssumption DEF Creating
    <2> QED BY <2>2, <2>4, OverIsDone
  <1> QED BY <1>1, CInductive, PTL

(* When main cancels the queue, every coroutine has been made, has run to  *)
(* its end and has no handle left anywhere.                                *)
THEOREM SchedulerAbandonsNothing == Spec => []NothingAbandoned
  <1>1. CInv => NothingAbandoned
    BY OverIsDone DEF CInv, Shut, NothingAbandoned
  <1> QED BY <1>1, CInductive, PTL

(* The wait group never lets main go on while a task is running, and its   *)
(* count never goes below what is left of it.                              *)
THEOREM GroupCounts == Spec => [](group = Cardinality(Tasks) + One(phase[Main] \notin Closing))
  <1>1. CInv => group = Cardinality(Tasks) + One(phase[Main] \notin Closing)
    BY DEF CInv, Groups
  <1> QED BY <1>1, CInductive, PTL

------------------------------------------------------------------------------
(* The mutex and the condition variable under the queue (Futex), for any   *)
(* number of producers and consumers.  Sleepers on the mutex are owed a    *)
(* wake-up by somebody; and as long as a consumer sleeps, the items are no *)
(* more than the consumers that may yet take one and the notifications     *)
(* still to come.                                                          *)
CONSTANTS Consumer, Producer
VARIABLES state, version, at, goal, known, items

F == INSTANCE Futex

------------------------------------------------------------------------------
(* What the code says of the constants: finitely many threads, each either *)
(* adding or taking.                                                       *)
Clients == IsFiniteSet(Consumer) /\ IsFiniteSet(Producer) /\ Consumer \cap Producer = {}

(* Cardinality as the model of the mutex defines it. *)
LEMMA CardinalityOf == ASSUME NEW S PROVE F!Cardinality(S) = Cardinality(S)
  BY DEF F!Cardinality, Cardinality

(* The variables of the mutex and of its clients. *)
FTypes ==
  /\ state \in {"UNLOCKED", "LOCKED", "AWAITED"} /\ version \in Nat /\ items \in Nat
  /\ at \in [F!Client -> {"lock", "contend", "wait", "asleep", "inside", "unlock", "wake",
                          "await", "dormant", "notify", "rouse", "end"}]
  /\ goal \in [F!Client -> {"end", "notify", "await"}]
  /\ known \in [F!Client -> Nat]

(* Consumers never notify and producers never wait for the condition.      *)
FRoles ==
  /\ \A x \in Consumer : goal[x] # "notify" /\ at[x] \notin {"notify", "rouse"}
  /\ \A x \in Producer : goal[x] # "await" /\ at[x] \notin {"await", "dormant"}
  /\ \A x \in Producer : at[x] \in {"lock", "contend", "wait", "asleep", "inside", "rouse", "end"}
                           => goal[x] = "end"
  /\ \A x \in F!Client : at[x] = "notify" => goal[x] = "notify"
  /\ \A x \in F!Client : at[x] = "await" => goal[x] = "await"
  /\ \A x \in F!Client : known[x] <= version

(* One client is inside.                                                   *)
FHolder ==
  IF state = "UNLOCKED" THEN F!In({"inside", "unlock"}) = {}
  ELSE \E x \in F!Client : F!In({"inside", "unlock"}) = {x}

(* Sleepers are owed a wake-up by somebody. *)
FSleepers ==
  F!In({"asleep"}) # {} => state = "AWAITED" \/ F!In({"contend", "wait", "wake"}) # {}

(* Consumers that may yet take an item, and producers that have a wake-up  *)
(* to give.                                                                *)
Takers == {x \in Consumer : at[x] \in {"lock", "contend", "wait", "asleep", "inside"}
                            \/ (at[x] \in {"unlock", "wake", "await"} /\ goal[x] = "await")}
Notifying == {x \in Producer : goal[x] = "notify"}
Debts == {x \in Producer : goal[x] = "notify" \/ at[x] = "rouse"}

(* Whoever is about to sleep on the version it knows has seen no item, and *)
(* those added since have their notification before them.                  *)
FNewItems ==
  \A x \in Consumer : at[x] \in {"unlock", "wake", "await"} /\ goal[x] = "await" /\ known[x] = version
                        => items <= Cardinality(Notifying)
FServed == F!In({"dormant"}) # {} => items <= Cardinality(Takers) + Cardinality(Debts)

(* The inductive invariant of the mutex and the condition variable. *)
FInv == FTypes /\ FRoles /\ FHolder /\ FSleepers /\ FNewItems /\ FServed

(* Nobody has begun, and there is no item. *)
LEMMA FInit == ASSUME Clients, F!Init PROVE FInv
  <1> USE DEF F!Init
  <1>1. FTypes /\ FRoles
    BY DEF FTypes, FRoles, F!Client, Clients
  <1>2. FHolder /\ FSleepers /\ FNewItems /\ FServed
    BY DEF FHolder, FSleepers, FNewItems, FServed, F!In, F!Client
  <1> QED BY <1>1, <1>2 DEF FInv

(* The invariant says that no wake-up is lost. *)
LEMMA FInvSound == ASSUME Clients, FInv PROVE F!NoLostWakeUp
  <1>1. Cardinality(F!In({"inside", "unlock"})) = IF state = "UNLOCKED" THEN 0 ELSE 1
    BY FS_EmptySet, FS_Singleton DEF FInv, FHolder
  <1>2. ASSUME items > 0, F!In({"dormant"}) # {}
        PROVE  items <= Cardinality(Consumer \ F!In({"dormant", "end"})) + Cardinality(Debts)
    <2>1. Takers \subseteq Consumer \ F!In({"dormant", "end"})
      BY DEF Takers, F!In
    <2>2. IsFiniteSet(Consumer \ F!In({"dormant", "end"})) /\ IsFiniteSet(Takers) /\ IsFiniteSet(Debts)
      BY <2>1, FS_Subset DEF Clients, Debts, Takers
    <2>3. Cardinality(Takers) <= Cardinality(Consumer \ F!In({"dormant", "end"}))
      BY <2>1, <2>2, FS_Subset
    <2>4. /\ Cardinality(Takers) \in Nat /\ Cardinality(Debts) \in Nat
          /\ Cardinality(Consumer \ F!In({"dormant", "end"})) \in Nat
      BY <2>2, FS_CardinalityType
    <2>5. items \in Nat /\ items <= Cardinality(Takers) + Cardinality(Debts)
      BY <1>2 DEF FInv, FServed, FTypes
    <2> QED BY <2>3, <2>4, <2>5
  <1> QED BY <1>1, <1>2, CardinalityOf DEF F!NoLostWakeUp, FInv, FSleepers, Debts

(* Types, roles and the mutex need no counting.                            *)
LEMMA FPlain ==
  ASSUME Clients, FInv, NEW c \in F!Client,
         \/ F!Lock(c) \/ F!Contend(c) \/ F!WaitOnState(c) \/ F!Inside(c) \/ F!Unlock(c) \/ F!Wake(c)
         \/ F!Await(c) \/ F!NotifyOne(c) \/ F!Rouse(c) \/ F!Spurious(c)
  PROVE  FTypes' /\ FRoles' /\ FHolder' /\ FSleepers'
  <1> USE DEF FInv, F!To
  <1>1. FTypes'
    <2>1. CASE F!Lock(c) \/ F!Contend(c) \/ F!WaitOnState(c) \/ F!Unlock(c) \/ F!Spurious(c)
      BY <2>1 DEF FTypes, F!Lock, F!Contend, F!WaitOnState, F!Unlock, F!Spurious
    <2>2. CASE F!Inside(c)
      BY <2>2 DEF FTypes, F!Inside
    <2>3. CASE F!Wake(c) \/ F!Rouse(c)
      BY <2>3 DEF FTypes, F!Wake, F!Rouse, F!WakeAny
    <2>4. CASE F!Await(c) \/ F!NotifyOne(c)
      BY <2>4 DEF FTypes, F!Await, F!NotifyOne
    <2> QED BY <2>1, <2>2, <2>3, <2>4
  <1>2. FRoles'
    <2>1. CASE F!Lock(c) \/ F!Contend(c) \/ F!WaitOnState(c) \/ F!Unlock(c) \/ F!Spurious(c)
      BY <2>1 DEF FTypes, FRoles, F!Client, F!Lock, F!Contend, F!WaitOnState, F!Unlock, F!Spurious
    <2>2. CASE F!Inside(c)
      BY <2>2 DEF FTypes, FRoles, F!Client, Clients, F!Inside
    <2>3. CASE F!Wake(c) \/ F!Rouse(c)
      BY <2>3 DEF FTypes, FRoles, F!Client, F!Wake, F!Rouse, F!WakeAny
    <2>4. CASE F!Await(c) \/ F!NotifyOne(c)
      BY <2>4 DEF FTypes, FRoles, F!Client, F!Await, F!NotifyOne
    <2> QED BY <2>1, <2>2, <2>3, <2>4
  <1>3. FHolder'
    <2>1. CASE F!Lock(c) \/ F!Contend(c)
      <3>1. CASE state = "UNLOCKED"
        <4>1. F!In({"inside", "unlock"})' = {c}
          BY <2>1, <3>1 DEF FTypes, FHolder, F!In, F!Lock, F!Contend
        <4> QED BY <2>1, <4>1 DEF FHolder, F!Lock, F!Contend
      <3>2. CASE state # "UNLOCKED"
        <4>1. F!In({"inside", "unlock"})' = F!In({"inside", "unlock"})
          BY <2>1, <3>2 DEF FTypes, F!In, F!Lock, F!Contend
        <4> QED BY <2>1, <3>2, <4>1 DEF FHolder, F!Lock, F!Contend
      <3> QED BY <3>1, <3>2
    <2>2. CASE F!Unlock(c)
      <3>1. F!In({"inside", "unlock"})' = F!In({"inside", "unlock"}) \ {c}
        BY <2>2 DEF FTypes, F!In, F!Unlock
      <3>2. c \in F!In({"inside", "unlock"}) /\ state' = "UNLOCKED"
        BY <2>2 DEF F!In, F!Unlock
      <3> QED BY <3>1, <3>2 DEF FHolder
    <2>3. CASE F!WaitOnState(c) \/ F!Inside(c) \/ F!Spurious(c) \/ F!Await(c) \/ F!NotifyOne(c)
      <3>1. F!In({"inside", "unlock"})' = F!In({"inside", "unlock"}) /\ state' = state
        BY <2>3 DEF FTypes, F!In, F!WaitOnState, F!Inside, F!Spurious, F!Await, F!NotifyOne
      <3> QED BY <3>1 DEF FHolder
    <2>4. CASE F!Wake(c) \/ F!Rouse(c)
      <3>1. F!In({"inside", "unlock"})' = F!In({"inside", "unlock"}) /\ state' = state
        BY <2>4 DEF FTypes, F!In, F!Wake, F!Rouse, F!WakeAny
      <3> QED BY <3>1 DEF FHolder
    <2> QED BY <2>1, <2>2, <2>3, <2>4
  <1>4. FSleepers'
    <2>1. CASE F!Lock(c) \/ F!Contend(c) \/ F!WaitOnState(c) \/ F!Unlock(c) \/ F!Spurious(c)
      BY <2>1 DEF FTypes, FSleepers, F!In, F!Lock, F!Contend, F!WaitOnState, F!Unlock, F!Spurious
    <2>2. CASE F!Inside(c) \/ F!Await(c) \/ F!NotifyOne(c)
      BY <2>2 DEF FTypes, FSleepers, F!In, F!Inside, F!Await, F!NotifyOne
    <2>3. CASE F!Wake(c)
      BY <2>3 DEF FTypes, FSleepers, F!In, F!Wake, F!WakeAny
    <2>4. CASE F!Rouse(c)
      BY <2>4 DEF FTypes, FSleepers, F!In, F!Rouse, F!WakeAny
    <2> QED BY <2>1, <2>2, <2>3, <2>4
  <1> QED BY <1>1, <1>2, <1>3, <1>4

(* What is counted is finite. *)
LEMMA FFinite ==
  ASSUME Clients
  PROVE  /\ IsFiniteSet(Takers) /\ IsFiniteSet(Debts) /\ IsFiniteSet(Notifying)
         /\ Cardinality(Takers) \in Nat /\ Cardinality(Debts) \in Nat /\ Cardinality(Notifying) \in Nat
         /\ Cardinality(Notifying) <= Cardinality(Debts)
  <1>1. Takers \subseteq Consumer /\ Notifying \subseteq Debts /\ Debts \subseteq Producer
    BY DEF Takers, Debts, Notifying
  <1>2. IsFiniteSet(Takers) /\ IsFiniteSet(Debts) /\ IsFiniteSet(Notifying)
    BY <1>1, FS_Subset DEF Clients
  <1> QED BY <1>1, <1>2, FS_CardinalityType, FS_Subset

(* A step that counts nothing.                                             *)
LEMMA FQuiet ==
  ASSUME Clients, FInv, items' = items, version' = version,
         Takers \subseteq Takers', IsFiniteSet(Takers'), Debts' = Debts, Notifying' = Notifying,
         F!In({"dormant"})' \subseteq F!In({"dormant"}),
         \A x \in Consumer : at'[x] \in {"unlock", "wake", "await"} /\ goal'[x] = "await" /\ known'[x] = version
           => at[x] \in {"unlock", "wake", "await"} /\ goal[x] = "await" /\ known[x] = version
  PROVE  FNewItems' /\ FServed'
  <1>1. Cardinality(Takers) <= Cardinality(Takers') /\ Cardinality(Takers') \in Nat
    BY FS_Subset, FS_CardinalityType
  <1>2. FNewItems'
    BY DEF FInv, FNewItems
  <1>3. items \in Nat
    BY DEF FInv, FTypes
  <1>4. F!In({"dormant"})' # {} => items <= Cardinality(Takers) + Cardinality(Debts)
    BY DEF FInv, FServed
  <1>5. F!In({"dormant"})' # {} => items <= Cardinality(Takers') + Cardinality(Debts)
    BY <1>1, <1>3, <1>4, FFinite
  <1> QED BY <1>2, <1>5 DEF FServed

(* The steps of the mutex neither add an item nor discharge a              *)
(* notification.                                                           *)
LEMMA FMoves ==
  ASSUME Clients, FInv, NEW c \in F!Client,
         F!Lock(c) \/ F!Contend(c) \/ F!WaitOnState(c) \/ F!Unlock(c) \/ F!Wake(c) \/ F!Spurious(c)
  PROVE  FNewItems' /\ FServed'
  <1>1. items' = items /\ version' = version /\ goal' = goal /\ known' = known
    BY DEF F!Lock, F!Contend, F!WaitOnState, F!Unlock, F!Wake, F!Spurious
  <1>2. CASE F!Lock(c) \/ F!Contend(c) \/ F!WaitOnState(c) \/ F!Spurious(c)
    <2>1. /\ \A x \in F!Client : x # c => at'[x] = at[x]
          /\ at[c] \in {"lock", "contend", "wait", "asleep", "dormant"}
          /\ at'[c] \in {"lock", "contend", "wait", "asleep", "inside"}
      BY <1>2 DEF F!Lock, F!Contend, F!WaitOnState, F!Spurious, F!To, FInv, FTypes
    <2>2. Takers \subseteq Takers' /\ Takers' \subseteq Consumer
      BY <1>1, <2>1 DEF Takers, F!Client
    <2>3. Debts' = Debts /\ Notifying' = Notifying
      BY <1>1, <2>1 DEF Debts, Notifying, F!Client
    <2>4. F!In({"dormant"})' \subseteq F!In({"dormant"})
      BY <2>1 DEF F!In
    <2>5. IsFiniteSet(Takers')
      BY <2>2, FS_Subset DEF Clients
    <2>6. \A x \in Consumer : at'[x] \in {"unlock", "wake", "await"} => at[x] = at'[x]
      BY <2>1 DEF F!Client
    <2> QED BY <1>1, <2>2, <2>3, <2>4, <2>5, <2>6, FQuiet
  <1>3. CASE F!Unlock(c)
    <2>1. /\ \A x \in F!Client : x # c => at'[x] = at[x]
          /\ at[c] = "unlock" /\ at'[c] \in {"wake", goal[c]}
      BY <1>3 DEF F!Unlock, F!To, FInv, FTypes
    <2>2. Takers' = Takers
      BY <1>1, <2>1 DEF Takers, F!Client, FInv, FTypes
    <2>3. Debts' = Debts /\ Notifying' = Notifying
      BY <1>1, <2>1 DEF Debts, Notifying, F!Client, FInv, FTypes
    <2>4. F!In({"dormant"})' \subseteq F!In({"dormant"})
      BY <2>1 DEF F!In, FInv, FTypes
    <2>5. \A x \in Consumer : at'[x] \in {"unlock", "wake", "await"} => at[x] \in {"unlock", "wake", "await"}
      BY <2>1 DEF F!Client
    <2> QED BY <1>1, <2>2, <2>3, <2>4, <2>5, FQuiet, FFinite
  <1>4. CASE F!Wake(c)
    <2>1. /\ at[c] = "wake" /\ at'[c] = goal[c]
          /\ \A x \in F!Client : x # c => at'[x] = at[x] \/ (at[x] = "asleep" /\ at'[x] = "contend")
      <3>1. at[c] = "wake" /\ at \in [F!Client -> {"lock", "contend", "wait", "asleep", "inside", "unlock", "wake",
                          "await", "dormant", "notify", "rouse", "end"}]
        BY <1>4 DEF F!Wake, FInv, FTypes
      <3>2. \/ at' = [at EXCEPT ![c] = goal[c]]
            \/ \E d \in F!Client : at[d] = "asleep" /\ at' = [at EXCEPT ![c] = goal[c], ![d] = "contend"]
        BY <1>4 DEF F!Wake, F!WakeAny, F!To
      <3>3. CASE at' = [at EXCEPT ![c] = goal[c]]
        BY <3>1, <3>3
      <3>4. ASSUME NEW d \in F!Client, at[d] = "asleep", at' = [at EXCEPT ![c] = goal[c], ![d] = "contend"]
            PROVE  /\ at'[c] = goal[c]
                   /\ \A x \in F!Client : x # c => at'[x] = at[x] \/ (at[x] = "asleep" /\ at'[x] = "contend")
        <4>1. d # c
          BY <3>1, <3>4
        <4> QED BY <3>1, <3>4, <4>1
      <3> QED BY <3>1, <3>2, <3>3, <3>4
    <2>2. Takers' = Takers
      BY <1>1, <2>1 DEF Takers, F!Client, FInv, FTypes
    <2>3. Debts' = Debts /\ Notifying' = Notifying
      BY <1>1, <2>1 DEF Debts, Notifying, F!Client, FInv, FTypes
    <2>4. F!In({"dormant"})' \subseteq F!In({"dormant"})
      BY <2>1 DEF F!In, FInv, FTypes
    <2>5. \A x \in Consumer : at'[x] \in {"unlock", "wake", "await"} => at[x] \in {"unlock", "wake", "await"}
      BY <2>1 DEF F!Client
    <2> QED BY <1>1, <2>2, <2>3, <2>4, <2>5, FQuiet, FFinite
  <1> QED BY <1>2, <1>3, <1>4

(* An item is put in, and a notification owed for it; or one is taken out. *)
LEMMA FInside ==
  ASSUME Clients, FInv, NEW c \in F!Client, F!Inside(c)
  PROVE  FNewItems' /\ FServed'
  <1>1. /\ at[c] = "inside" /\ at'[c] = "unlock" /\ version' = version
        /\ \A x \in F!Client : x # c => at'[x] = at[x] /\ goal'[x] = goal[x] /\ known'[x] = known[x]
    BY DEF F!Inside, F!To, FInv, FTypes
  <1>2. items \in Nat /\ F!In({"dormant"})' = F!In({"dormant"})
    BY <1>1 DEF F!In, FInv, FTypes
  <1>3. CASE c \in Producer
    <2>1. items' = items + 1 /\ goal[c] = "end" /\ goal'[c] = "notify" /\ c \notin Consumer
      BY <1>1, <1>3 DEF F!Inside, FInv, FTypes, FRoles, Clients
    <2>2. Notifying' = Notifying \cup {c} /\ c \notin Notifying
      BY <1>1, <1>3, <2>1 DEF Notifying, F!Client
    <2>3. Debts' = Debts \cup {c} /\ c \notin Debts
      BY <1>1, <1>3, <2>1 DEF Debts, F!Client
    <2>4. Takers' = Takers
      <3>1. \A x \in Consumer : at'[x] = at[x] /\ goal'[x] = goal[x]
        BY <1>1, <2>1 DEF F!Client
      <3> QED BY <3>1 DEF Takers
    <2>5. Cardinality(Notifying') = Cardinality(Notifying) + 1 /\ Cardinality(Debts') = Cardinality(Debts) + 1
      BY <2>2, <2>3, FFinite, FS_AddElement
    <2>6. FNewItems'
      <3>1. ASSUME NEW x \in Consumer, at'[x] \in {"unlock", "wake", "await"} /\ goal'[x] = "await" /\ known'[x] = version'
            PROVE  items' <= Cardinality(Notifying')
        <4>1. x # c /\ x \in F!Client
          BY <2>1 DEF F!Client
        <4>2. items <= Cardinality(Notifying)
          BY <1>1, <3>1, <4>1 DEF FInv, FNewItems
        <4> QED BY <1>2, <2>1, <2>5, <4>2, FFinite
      <3> QED BY <3>1 DEF FNewItems
    <2>7. F!In({"dormant"})' # {} => items' <= Cardinality(Takers') + Cardinality(Debts')
      <3>1. F!In({"dormant"}) # {} => items <= Cardinality(Takers) + Cardinality(Debts)
        BY DEF FInv, FServed
      <3> QED BY <1>2, <2>1, <2>4, <2>5, <3>1, FFinite
    <2> QED BY <2>6, <2>7 DEF FServed
  <1>4. CASE c \notin Producer /\ items > 0
    <2>1. items' = items - 1 /\ goal'[c] = "end" /\ c \in Consumer
      BY <1>1, <1>4 DEF F!Inside, FInv, FTypes, F!Client
    <2>2. Notifying' = Notifying /\ Debts' = Debts
      BY <1>1, <1>4 DEF Notifying, Debts, F!Client
    <2>3. Takers' = Takers \ {c} /\ c \in Takers
      <3>1. \A x \in Consumer : x # c => at'[x] = at[x] /\ goal'[x] = goal[x]
        BY <1>1 DEF F!Client
      <3>2. c \notin Takers' /\ c \in Takers
        BY <1>1, <2>1 DEF Takers
      <3>3. \A x \in Consumer : x # c => (x \in Takers' <=> x \in Takers)
        BY <3>1 DEF Takers
      <3>4. Takers \subseteq Consumer /\ Takers' \subseteq Consumer
        BY DEF Takers
      <3> QED BY <3>2, <3>3, <3>4
    <2>4. Cardinality(Takers') = Cardinality(Takers) - 1
      BY <2>3, FFinite, FS_RemoveElement
    <2>5. FNewItems'
      <3>1. ASSUME NEW x \in Consumer, at'[x] \in {"unlock", "wake", "await"} /\ goal'[x] = "await" /\ known'[x] = version'
            PROVE  items' <= Cardinality(Notifying')
        <4>1. x # c /\ x \in F!Client
          BY <2>1, <3>1 DEF F!Client
        <4>2. items <= Cardinality(Notifying)
          BY <1>1, <3>1, <4>1 DEF FInv, FNewItems
        <4> QED BY <1>2, <2>1, <2>2, <4>2, FFinite
      <3> QED BY <3>1 DEF FNewItems
    <2>6. F!In({"dormant"})' # {} => items' <= Cardinality(Takers') + Cardinality(Debts')
      <3>1. F!In({"dormant"}) # {} => items <= Cardinality(Takers) + Cardinality(Debts)
        BY DEF FInv, FServed
      <3> QED BY <1>2, <2>1, <2>2, <2>4, <3>1, FFinite
    <2> QED BY <2>5, <2>6 DEF FServed
  <1>5. CASE c \notin Producer /\ ~(items > 0)
    <2>1. items' = 0 /\ c \in Consumer /\ goal'[c] = "await"
      BY <1>1, <1>2, <1>5 DEF F!Inside, FInv, FTypes, F!Client
    <2>2. Notifying' = Notifying /\ Debts' = Debts
      BY <1>1, <1>5 DEF Notifying, Debts, F!Client
    <2>3. Takers' = Takers
      BY <1>1, <2>1 DEF Takers, F!Client
    <2> QED BY <2>1, <2>2, <2>3, FFinite DEF FNewItems, FServed
  <1> QED BY <1>3, <1>4, <1>5

(* Whoever goes to sleep knows the version of now: the items that are      *)
(* there are to be notified of.                                            *)
LEMMA FAwait ==
  ASSUME Clients, FInv, NEW c \in F!Client, F!Await(c)
  PROVE  FNewItems' /\ FServed'
  <1>1. /\ at[c] = "await" /\ goal[c] = "await" /\ c \in Consumer
        /\ items' = items /\ version' = version /\ goal' = goal /\ known' = known
        /\ \A x \in F!Client : x # c => at'[x] = at[x]
    BY DEF F!Await, F!To, FInv, FTypes, FRoles, F!Client
  <1>2. Debts' = Debts /\ Notifying' = Notifying
    BY <1>1 DEF Debts, Notifying, F!Client, Clients
  <1>3. CASE version = known[c]
    <2>1. at'[c] = "dormant"
      BY <1>1, <1>3 DEF F!Await, F!To, FInv, FTypes
    <2>2. items <= Cardinality(Notifying) /\ items \in Nat
      BY <1>1, <1>3 DEF FInv, FNewItems, FTypes
    <2>3. Takers' \subseteq Consumer
      BY DEF Takers
    <2>4. Cardinality(Takers') \in Nat
      BY <2>3, FS_Subset, FS_CardinalityType DEF Clients
    <2>5. items' <= Cardinality(Takers') + Cardinality(Debts')
      BY <1>1, <1>2, <2>2, <2>4, FFinite
    <2>6. FNewItems'
      BY <1>1, <1>2, <2>1 DEF FInv, FNewItems, F!Client
    <2> QED BY <2>5, <2>6 DEF FServed
  <1>4. CASE version # known[c]
    <2>1. at'[c] = "lock"
      BY <1>1, <1>4 DEF F!Await, F!To, FInv, FTypes
    <2>2. Takers' = Takers
      BY <1>1, <2>1 DEF Takers, F!Client
    <2>3. F!In({"dormant"})' \subseteq F!In({"dormant"})
      BY <1>1, <2>1 DEF F!In
    <2>4. \A x \in Consumer : at'[x] \in {"unlock", "wake", "await"} => at[x] = at'[x]
      BY <1>1, <2>1 DEF F!Client
    <2> QED BY <1>1, <1>2, <2>2, <2>3, <2>4, FQuiet, FFinite
  <1> QED BY <1>3, <1>4

(* A notification gives up its place in the count to the wake-up it is     *)
(* about to send, and no consumer sleeps on the version it has passed.     *)
LEMMA FNotify ==
  ASSUME Clients, FInv, NEW c \in F!Client, F!NotifyOne(c)
  PROVE  FNewItems' /\ FServed'
  <1>1. /\ at[c] = "notify" /\ goal[c] = "notify" /\ c \in Producer /\ c \notin Consumer
        /\ at'[c] = "rouse" /\ items' = items /\ version' = version + 1 /\ known' = known
        /\ \A x \in F!Client : x # c => at'[x] = at[x] /\ goal'[x] = goal[x]
    BY DEF F!NotifyOne, F!To, FInv, FTypes, FRoles, F!Client, Clients
  <1>2. Debts' = Debts /\ Takers' = Takers
    BY <1>1 DEF Debts, Takers, F!Client
  <1>3. F!In({"dormant"})' = F!In({"dormant"})
    BY <1>1 DEF F!In
  <1>4. \A x \in Consumer : known'[x] # version'
    BY <1>1 DEF FInv, FTypes, FRoles, F!Client
  <1>5. FNewItems'
    BY <1>4 DEF FNewItems
  <1> QED BY <1>1, <1>2, <1>3, <1>5 DEF FInv, FServed

(* The debt is paid to a sleeper, or there is none.                        *)
LEMMA FRouse ==
  ASSUME Clients, FInv, NEW c \in F!Client, F!Rouse(c)
  PROVE  FNewItems' /\ FServed'
  <1>1. /\ at[c] = "rouse" /\ goal[c] = "end" /\ c \in Producer /\ c \notin Consumer
        /\ items' = items /\ version' = version /\ known' = known /\ goal' = goal
    BY DEF F!Rouse, FInv, FTypes, FRoles, F!Client, Clients
  <1>2. CASE F!In({"dormant"}) = {}
    <2>1. at'[c] = "end" /\ \A x \in F!Client : x # c => at'[x] = at[x]
      BY <1>1, <1>2 DEF F!Rouse, F!WakeAny, F!To, F!In, FInv, FTypes
    <2>2. F!In({"dormant"})' = {}
      BY <1>2, <2>1 DEF F!In
    <2>3. FNewItems'
      BY <1>1, <2>1 DEF FInv, FNewItems, Notifying, F!Client
    <2> QED BY <2>2, <2>3 DEF FServed
  <1>3. CASE F!In({"dormant"}) # {}
    <2>1. PICK d \in F!Client : at[d] = "dormant" /\ at' = [at EXCEPT ![c] = "end", ![d] = "lock"]
      BY <1>1, <1>3 DEF F!Rouse, F!WakeAny, F!In
    <2>2. d \in Consumer /\ d # c /\ d \notin Producer
      BY <1>1, <2>1 DEF FInv, FRoles, F!Client, Clients
    <2>3. at'[c] = "end" /\ at'[d] = "lock" /\ \A x \in F!Client : x # c /\ x # d => at'[x] = at[x]
      BY <2>1, <2>2 DEF FInv, FTypes
    <2>4. Takers' = Takers \cup {d} /\ d \notin Takers
      <3>1. \A x \in Consumer : x # d => at'[x] = at[x] /\ goal'[x] = goal[x]
        BY <1>1, <2>3 DEF F!Client
      <3>2. d \notin Takers /\ d \in Takers'
        BY <2>1, <2>2, <2>3 DEF Takers
      <3>3. \A x \in Consumer : x # d => (x \in Takers' <=> x \in Takers)
        BY <3>1 DEF Takers
      <3>4. Takers \subseteq Consumer /\ Takers' \subseteq Consumer
        BY DEF Takers
      <3> QED BY <2>2, <3>2, <3>3, <3>4
    <2>5. Debts' = Debts \ {c} /\ c \in Debts
      BY <1>1, <2>1, <2>2, <2>3 DEF Debts, F!Client
    <2>6. Cardinality(Takers') = Cardinality(Takers) + 1 /\ Cardinality(Debts') = Cardinality(Debts) - 1
      BY <2>4, <2>5, FFinite, FS_AddElement, FS_RemoveElement
    <2>7. items <= Cardinality(Takers) + Cardinality(Debts) /\ items \in Nat
      BY <1>3 DEF FInv, FServed, FTypes
    <2>8. items' <= Cardinality(Takers') + Cardinality(Debts')
      BY <1>1, <2>6, <2>7, FFinite
    <2>9. FNewItems'
      BY <1>1, <2>3 DEF FInv, FNewItems, Notifying, F!Client
    <2> QED BY <2>8, <2>9 DEF FServed
  <1> QED BY <1>2, <1>3

(* Every action keeps the invariant. *)
LEMMA FStep == ASSUME Clients, FInv, F!Next \/ UNCHANGED F!vars PROVE FInv'
  <1>1. ASSUME NEW c \in F!Client,
               \/ F!Lock(c) \/ F!Contend(c) \/ F!WaitOnState(c) \/ F!Inside(c) \/ F!Unlock(c) \/ F!Wake(c)
               \/ F!Await(c) \/ F!NotifyOne(c) \/ F!Rouse(c) \/ F!Spurious(c)
        PROVE  FInv'
    <2>1. FTypes' /\ FRoles' /\ FHolder' /\ FSleepers'
      BY <1>1, FPlain
    <2>2. FNewItems' /\ FServed'
      BY <1>1, FMoves, FInside, FAwait, FNotify, FRouse
    <2> QED BY <2>1, <2>2 DEF FInv
  <1>2. ASSUME UNCHANGED F!vars PROVE FInv'
    BY <1>2 DEF F!vars, FInv, FTypes, FRoles, FHolder, FSleepers, FNewItems, FServed, F!In,
       Takers, Debts, Notifying
  <1> QED BY <1>1, <1>2 DEF F!Next, F!Finished

(* Of any number of threads one is inside the Mutex at a time, whoever     *)
(* sleeps on it is owed a wake-up, and no item waits for a consumer whom   *)
(* no notification will rouse: the exchange of lock() that may forget      *)
(* AWAITED costs nobody the wake-up.                                       *)
THEOREM NobodySleepsOnMutex == ASSUME Clients PROVE F!Spec => []F!NoLostWakeUp
  <1>1. F!Init => FInv
    BY FInit
  <1>2. FInv /\ [F!Next]_(F!vars) => FInv'
    BY FStep
  <1>3. FInv => F!NoLostWakeUp
    BY FInvSound
  <1> QED BY <1>1, <1>2, <1>3, PTL DEF F!Spec
=============================================================================
