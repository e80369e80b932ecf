----------------------------- MODULE Coroutines -----------------------------
(***************************************************************************)
(* The coroutines that the work queue resumes (ext/coroutine.hpp and .cpp):*)
(* nurseries that fork and join, the wait group that keeps the process     *)
(* alive, the one-shot event with its deadline, and main, which waits for  *)
(* all of it before it cancels the queue (core/main.mm).                   *)
(*                                                                         *)
(* A coroutine is a program of instructions; each of them is cut where     *)
(* another thread can come between.  A coroutine that is suspended is a    *)
(* handle that one place must hold: the deque, its own nursery, the event. *)
(***************************************************************************)
EXTENDS WorkQueue

CONSTANTS Coroutine,
          Program,            (* of each coroutine and of Main: Seq([op, arg]) *)
          Main, Timer,        (* the outsiders                               *)
          Group,              (* the wait group as a continuation            *)
          Frame, Noop,        (* what sync_wait may push: its frame, nothing *)
          Arm, Callback,      (* what a worker still does after a resumption *)
          EMPTY, SIGNALED, TIMED_OUT

Context == Coroutine \cup {Main}

ASSUME CoroutinesAssumption ==
  /\ Outsider = {Main, Timer} /\ Main # Timer /\ DOMAIN Program = Context
  /\ IsFiniteSet(Coroutine)
  /\ \A c \in Context : Program[c] \in Seq([op : {"fork", "soon", "join", "yield", "wait", "signal", "spawn", "await"},
                                            arg : Coroutine \cup {NoJob}])

(* What is not a coroutine's handle can be told from one. *)
ASSUME HandlesAssumption ==
  /\ Coroutine \cap {NoJob, Group, Main, Frame, Noop, Arm, Callback, EMPTY, SIGNALED, TIMED_OUT} = {}
  /\ NoJob \notin {Main, Group, Frame, Noop, Arm, Callback}
  /\ Main \notin {Group, Frame, Noop, Arm, Callback}
  /\ Frame \notin {Noop, Arm, Callback} /\ Noop \notin {Arm, Callback} /\ Arm # Callback
  /\ EMPTY \notin {SIGNALED, TIMED_OUT} /\ SIGNALED # TIMED_OUT

(* Instruction i of c makes the coroutine d. *)
Makes(c, i, d) ==
  /\ i \in DOMAIN Program[c] /\ Program[c][i].arg = d
  /\ Program[c][i].op \in {"fork", "soon", "await", "spawn"}

(* Each call of a coroutine makes a new frame, for one continuation.  The  *)
(* frames are a tree that main is the root of: of any set of them, some    *)
(* member was made from outside of it.  And no nursery is left before a    *)
(* join: whoever forks joins.                                              *)
ASSUME ProgramAssumption ==
  /\ \A c, e \in Context : \A i \in DOMAIN Program[c], j \in DOMAIN Program[e] : \A d \in Coroutine :
       Makes(c, i, d) /\ Makes(e, j, d) => c = e /\ i = j
  /\ \A c \in Context : \A i \in DOMAIN Program[c] :
       /\ Program[c][i].op \in {"fork", "soon", "await", "spawn"} => Program[c][i].arg \in Coroutine
       /\ Program[c][i].op \in {"fork", "soon"} =>
            \E j \in DOMAIN Program[c] : i < j /\ Program[c][j].op = "join"
  /\ \A S \in SUBSET Coroutine : S # {} =>
       \E c \in Context \ S, d \in S : \E i \in DOMAIN Program[c] : Makes(c, i, d)

VARIABLES
  step,      (* the instruction each context is at                           *)
  phase,     (* "run", "suspending" or "suspended" at it; main also drains   *)
  parent,    (* _continuation of each promise: the coroutine that awaits it,
                a nursery, or the wait group                                 *)
  children,  (* Nursery::_children of each context                           *)
  counter,   (* Nursery::_counter                                            *)
  event,     (* OneShotEvent::_state                                         *)
  timer,     (* its deadline: "off", "armed" or "fired"                      *)
  group,     (* g_wait_group_count                                           *)
  seen,      (* main's "expected" in wait_group_wait                         *)
  called,    (* whether the last task has called g_wait_group_callback       *)
  blocking   (* main waits in wait_group_wait, or polls for the callback     *)

contextVars == <<step, phase, parent, children, counter>>
eventVars == <<event, timer>>
groupVars == <<group, seen, called, blocking>>
vars == <<queueVars, contextVars, eventVars, groupVars>>

Ended(c) == step[c] > Len(Program[c])
ContextOf(t) == IF t = Main THEN Main ELSE job[t]
Runs(t) == owes[t] = "" /\ (t = Main \/ (t \in Worker /\ pc[t] = "run"))

(* Thread t is at an instruction of the kind op. *)
At(t, op, ph) ==
  LET c == ContextOf(t) IN
  /\ Runs(t) /\ c \in Context /\ ~Ended(c)
  /\ Program[c][step[c]].op = op /\ phase[c] = ph

Argument(c) == Program[c][step[c]].arg
Past(c) == step' = [step EXCEPT ![c] = @ + 1] /\ phase' = [phase EXCEPT ![c] = "run"]
Becomes(w, x) == job' = [job EXCEPT ![w] = x]
QueueQuiet == UNCHANGED <<deque, waiting, canceled, owes, pc, left, spurious>>
Pushes(t, x) == PushBack(t, x) /\ UNCHANGED <<canceled, pc, left, spurious>>
-----------------------------------------------------------------------------
Adopt(d, c) == children' = [children EXCEPT ![c] = @ + 1] /\ parent' = [parent EXCEPT ![d] = c]

(* The child starts on this thread, and whoever takes the caller from the  *)
(* deque goes on with it.                                                  *)
Fork(w) == At(w, "fork", "run") /\ LET c == job[w] IN
  /\ Adopt(Argument(c), c) /\ Past(c)
  /\ Pushes(w, c) /\ Becomes(w, Argument(c))
  /\ UNCHANGED <<counter, eventVars, groupVars>>

Soon(t) == At(t, "soon", "run") /\ LET c == ContextOf(t) IN
  /\ Adopt(Argument(c), c) /\ Past(c)
  /\ Pushes(t, Argument(c))
  /\ UNCHANGED <<job, counter, eventVars, groupVars>>

(* SuspendAndSchedule. *)
Yield(w) == At(w, "yield", "run") /\ LET c == job[w] IN
  /\ Past(c) /\ Pushes(w, c) /\ Becomes(w, NoJob)
  /\ UNCHANGED <<parent, children, counter, eventVars, groupVars>>

(* co_await of a Future: its coroutine goes on, on this thread.            *)
Await(w) == At(w, "await", "run") /\ LET c == job[w] IN
  /\ parent' = [parent EXCEPT ![Argument(c)] = c]
  /\ phase' = [phase EXCEPT ![c] = "suspended"] /\ Becomes(w, Argument(c))
  /\ QueueQuiet /\ UNCHANGED <<step, children, counter, eventVars, groupVars>>

(* The counter is left as it is. *)
WrongJoinReady(t) == At(t, "join", "run") /\ LET c == ContextOf(t) IN
  /\ \E count \in counter[c] .. 0 :
       IF count = -children[c]
       THEN children' = [children EXCEPT ![c] = 0] /\ Past(c)
       ELSE phase' = [phase EXCEPT ![c] = "suspending"] /\ UNCHANGED <<step, children>>
  /\ QueueQuiet /\ UNCHANGED <<job, counter, parent, eventVars, groupVars>>

(* The load is relaxed, so it may return a count that is out of date.      *)
JoinReady(t) == At(t, "join", "run") /\ LET c == ContextOf(t) IN
  /\ \E count \in counter[c] .. 0 :
       IF count = -children[c]
       THEN /\ counter' = [counter EXCEPT ![c] = 0]
            /\ children' = [children EXCEPT ![c] = 0] /\ Past(c)
       ELSE phase' = [phase EXCEPT ![c] = "suspending"] /\ UNCHANGED <<step, counter, children>>
  /\ QueueQuiet /\ UNCHANGED <<job, parent, eventVars, groupVars>>

Joined(c) == counter[c] + children[c]

(* From the addition on, the last child may resume the continuation, which *)
(* was written before.  sync_wait schedules what await_suspend returns:    *)
(* its frame, or a coroutine that does nothing.                            *)
JoinSuspend(t) == At(t, "join", "suspending") /\ LET c == ContextOf(t) IN
  /\ counter' = [counter EXCEPT ![c] = Joined(c)]
  /\ children' = [children EXCEPT ![c] = 0]
  /\ IF t = Main
     THEN /\ Pushes(t, IF Joined(c) = 0 THEN Frame ELSE Noop)
          /\ phase' = [phase EXCEPT ![c] = "suspended"] /\ UNCHANGED <<job, step>>
     ELSE /\ QueueQuiet
          /\ IF Joined(c) = 0
             THEN Past(c) /\ UNCHANGED job
             ELSE Becomes(t, NoJob) /\ phase' = [phase EXCEPT ![c] = "suspended"] /\ UNCHANGED step
  /\ UNCHANGED <<parent, eventVars, groupVars>>

(* c awaits d.                                                             *)
Awaits(c, d) ==
  /\ c \in Coroutine /\ ~Ended(c) /\ phase[c] = "suspended"
  /\ Program[c][step[c]].op = "await" /\ Argument(c) = d

(* final_suspend resumes the continuation: the coroutine itself, ...       *)
AwaitResume(w) == Runs(w) /\ job[w] \in Coroutine /\ Ended(job[w]) /\ Awaits(parent[job[w]], job[w]) /\
  LET p == parent[job[w]] IN
  /\ Past(p) /\ Becomes(w, p)
  /\ QueueQuiet /\ UNCHANGED <<parent, children, counter, eventVars, groupVars>>

(* ... Nursery::static_resume ...                                          *)
NurseryResume(w) ==
  Runs(w) /\ job[w] \in Coroutine /\ Ended(job[w]) /\ parent[job[w]] # Group /\ ~Awaits(parent[job[w]], job[w]) /\
  LET p == parent[job[w]] IN
  /\ counter' = [counter EXCEPT ![p] = @ - 1]
  /\ IF counter[p] = 1
     THEN Past(p) /\ Becomes(w, IF p = Main THEN NoJob ELSE p)
     ELSE Becomes(w, NoJob) /\ UNCHANGED <<step, phase>>
  /\ QueueQuiet /\ UNCHANGED <<parent, children, eventVars, groupVars>>

(* ... or g_wait_group_continuation.                                       *)
GroupResume(w) ==
  /\ Runs(w) /\ job[w] \in Coroutine /\ Ended(job[w]) /\ parent[job[w]] = Group
  /\ group' = group - 1
  /\ Becomes(w, IF group = 1 THEN Callback ELSE NoJob)
  /\ QueueQuiet /\ UNCHANGED <<contextVars, eventVars, seen, called, blocking>>

FrameResume(w) ==
  /\ Runs(w) /\ job[w] \in {Frame, Noop}
  /\ IF job[w] = Frame THEN Past(Main) ELSE UNCHANGED <<step, phase>>
  /\ Becomes(w, NoJob)
  /\ QueueQuiet /\ UNCHANGED <<parent, children, counter, eventVars, groupVars>>

(* notify_all of the count, or the post that ends main's poll. *)
RunCallback(w) ==
  /\ Runs(w) /\ job[w] = Callback
  /\ called' = TRUE /\ Becomes(w, NoJob)
  /\ phase' = IF blocking /\ phase[Main] = "asleep" THEN [phase EXCEPT ![Main] = "drain"] ELSE phase
  /\ QueueQuiet /\ UNCHANGED <<step, parent, children, counter, eventVars, group, seen, blocking>>
-----------------------------------------------------------------------------
(* WaitUntil::await_ready. *)
EventReady(w) ==
  /\ At(w, "wait", "run")
  /\ \E state \in {EMPTY, event} :
       IF state = SIGNALED THEN Past(job[w])
       ELSE phase' = [phase EXCEPT ![job[w]] = "suspending"] /\ UNCHANGED step
  /\ QueueQuiet /\ UNCHANGED <<job, parent, children, counter, eventVars, groupVars>>

(* WaitUntil::await_suspend: the install, and the deadline, which is armed *)
(* when the waiter may be running again elsewhere already.                 *)
EventSuspend(w) ==
  /\ At(w, "wait", "suspending")
  /\ IF event = EMPTY
     THEN /\ event' = job[w] /\ Becomes(w, Arm)
          /\ phase' = [phase EXCEPT ![job[w]] = "suspended"] /\ UNCHANGED step
     ELSE Past(job[w]) /\ UNCHANGED <<job, event>>
  /\ QueueQuiet /\ UNCHANGED <<parent, children, counter, timer, groupVars>>

ArmTimer(w) ==
  /\ Runs(w) /\ job[w] = Arm
  /\ timer' = "armed" /\ Becomes(w, NoJob)
  /\ QueueQuiet /\ UNCHANGED <<contextVars, event, groupVars>>

WrongDecide(t, terminal) ==      (* the waiter is scheduled, and its handle left *)
  IF event \in {SIGNALED, TIMED_OUT, EMPTY}
  THEN QueueQuiet /\ UNCHANGED event
  ELSE Pushes(t, event) /\ UNCHANGED event

(* OneShotEvent::_decide: the first to replace the handle schedules it.    *)
Decide(t, terminal) ==
  CASE event \in {SIGNALED, TIMED_OUT} -> QueueQuiet /\ UNCHANGED event
    [] event = EMPTY -> QueueQuiet /\ event' = terminal
    [] OTHER -> Pushes(t, event) /\ event' = terminal

(* The instruction the waiter is past, if this decides. *)
Resumed(S) == S \cup ({event} \cap Coroutine)
Move(S) ==
  /\ step' = [c \in Context |-> IF c \in S THEN step[c] + 1 ELSE step[c]]
  /\ phase' = [c \in Context |-> IF c \in S THEN "run" ELSE phase[c]]

Signal(w) ==
  /\ At(w, "signal", "run")
  /\ Decide(w, SIGNALED) /\ Move(Resumed({job[w]}))
  /\ UNCHANGED <<job, parent, children, counter, timer, groupVars>>

Fire ==
  /\ timer = "armed" /\ timer' = "fired"
  /\ Decide(Timer, TIMED_OUT) /\ Move(Resumed({}))
  /\ UNCHANGED <<job, parent, children, counter, groupVars>>
-----------------------------------------------------------------------------
Spawn ==
  /\ At(Main, "spawn", "run")
  /\ group' = group + 1 /\ parent' = [parent EXCEPT ![Argument(Main)] = Group]
  /\ Pushes(Main, Argument(Main)) /\ Past(Main)
  /\ UNCHANGED <<job, children, counter, eventVars, seen, called, blocking>>

(* wait_group_wait or wait_group_set_callback: the sentinel is given up.   *)
GiveUpSentinel ==
  /\ Runs(Main) /\ Ended(Main) /\ phase[Main] = "run"
  /\ group' = group - 1 /\ seen' = group - 1
  /\ called' = (called \/ (~blocking /\ group = 1))
  /\ phase' = [phase EXCEPT ![Main] = "drain"]
  /\ QueueQuiet /\ UNCHANGED <<job, step, parent, children, counter, eventVars, blocking>>

WrongDrained == TRUE          (* main does not wait *)
Drained == IF blocking THEN seen = 0 ELSE called

(* The futex puts main to sleep only at the value it has seen. *)
WaitGroup ==
  /\ Runs(Main) /\ phase[Main] = "drain" /\ blocking /\ seen # 0
  /\ IF group = seen THEN phase' = [phase EXCEPT ![Main] = "asleep"] /\ UNCHANGED seen
     ELSE seen' = group /\ UNCHANGED phase
  /\ QueueQuiet /\ UNCHANGED <<job, step, parent, children, counter, eventVars, group, called, blocking>>

CancelAndJoin ==
  /\ Runs(Main) /\ phase[Main] = "drain" /\ Drained
  /\ Cancel(Main) /\ phase' = [phase EXCEPT ![Main] = "join"]
  /\ UNCHANGED <<step, parent, children, counter, eventVars, groupVars>>
-----------------------------------------------------------------------------
Init ==
  /\ QueueInit
  /\ step = [c \in Context |-> 1] /\ phase = [c \in Context |-> "run"]
  /\ parent = [c \in Coroutine |-> NoJob]
  /\ children = [c \in Context |-> 0] /\ counter = [c \in Context |-> 0]
  /\ event = EMPTY /\ timer = "off"
  /\ group = 1 /\ seen = 1 /\ called = FALSE /\ blocking \in BOOLEAN

Runner(w) ==
  \/ Fork(w) \/ Soon(w) \/ Yield(w) \/ JoinReady(w) \/ JoinSuspend(w)
  \/ Await(w) \/ AwaitResume(w)
  \/ NurseryResume(w) \/ GroupResume(w) \/ FrameResume(w) \/ RunCallback(w)
  \/ EventReady(w) \/ EventSuspend(w) \/ ArmTimer(w) \/ Signal(w)

Others == UNCHANGED <<contextVars, eventVars, groupVars>>

WorkerStep(w) == Runner(w) \/ (Serve(w) /\ Others)
MainStep ==
  \/ Soon(Main) \/ JoinReady(Main) \/ JoinSuspend(Main) \/ Spawn
  \/ GiveUpSentinel \/ WaitGroup \/ CancelAndJoin
  \/ Notify(Main) /\ Others
TimerStep == Fire \/ (Notify(Timer) /\ Others)

AllOver == \A w \in Worker : pc[w] = "exit"

Next ==
  \/ MainStep \/ TimerStep
  \/ \E w \in Worker : WorkerStep(w) \/ (SpuriousWake(w) /\ Others)
  \/ AllOver /\ UNCHANGED vars

Spec == Init /\ [][Next]_vars

(* Every thread runs, and a deadline comes. *)
Fairness ==
  /\ WF_vars(MainStep) /\ WF_vars(TimerStep)
  /\ \A w \in Worker : WF_vars(WorkerStep(w))

FairSpec == Spec /\ Fairness
-----------------------------------------------------------------------------
Count(c) ==
  Cardinality({w \in Worker : job[w] = c}) + Cardinality({i \in DOMAIN deque : deque[i] = c})
  + (IF event = c THEN 1 ELSE 0) + (IF counter[c] > 0 /\ phase[c] = "suspended" THEN 1 ELSE 0)
  + (IF \E d \in Coroutine : Awaits(c, d) /\ parent[d] = c THEN 1 ELSE 0)

(* One place, and only one, has the handle of a coroutine that has begun   *)
(* and is not over: it is never resumed twice, and never forgotten.        *)
OneOwner ==
  \A c \in Coroutine :
    /\ Count(c) <= 1
    /\ parent[c] # NoJob /\ ~Ended(c) => Count(c) = 1
    /\ parent[c] = NoJob => Count(c) = 0

Over(c) == parent[c] # NoJob /\ Ended(c) /\ Count(c) = 0

(* Work is where somebody will find it. *)
WorkKept == OneOwner /\ NoWorkIsSleptOn

(* A join returns only when whatever was forked before it is over, in each *)
(* round of a nursery that is used again; and an await, when what it       *)
(* awaited is over.                                                        *)
JoinMeansDone ==
  \A c \in Context : \A i, j \in 1 .. step[c] - 1 :
    (\/ i < j /\ Program[c][i].op \in {"fork", "soon"} /\ Program[c][j].op = "join"
     \/ i = j /\ Program[c][i].op = "await")
    => Over(Program[c][i].arg)

(* The queue is cancelled only when no task is left that it would abandon: *)
(* "a task that has yielded mid-flight would be abandoned at shutdown".    *)
NothingAbandoned ==
  canceled => \A c \in Coroutine : Over(c)

(* The process ends: no join, no wait and no sleep is for ever. *)
Ends == <>AllOver
=============================================================================
