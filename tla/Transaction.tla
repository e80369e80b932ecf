----------------------------- MODULE Transaction -----------------------------
(***************************************************************************)
(* One tick of the transaction system: core/transaction.cpp driven by      *)
(* World::step of game/world.cpp.                                          *)
(*                                                                         *)
(* Until the completion barrier, notified entities link their nodes into   *)
(* the lists of the keys they act on (TransactionList models a list at the *)
(* level of its pointers; here linking is one step and a list is a set).   *)
(* After it, workers run one rebuild action per key.  An action walks its  *)
(* key's list and resolves the transaction of each node, which recursively *)
(* resolves the higher-priority writers in the way.  Workers meet only in  *)
(* the memoised _state of the transactions, which they read and exchange   *)
(* with relaxed atomics and no lock; one read or one exchange is a step.   *)
(*                                                                         *)
(* A walk visits the nodes of a list in any order here: the order in the   *)
(* program is the order in which the compare-exchanges happened to win.    *)
(***************************************************************************)
EXTENDS Naturals, FiniteSets, Sequences

CONSTANTS Txn, Key, Priority, Proposals,
  Worker,      (* the threads that run rebuild actions *)
  NoKey, NoNode

VARIABLES
  ops,         (* the operations each transaction proposes              *)
  listed,      (* the nodes linked into each key's list                 *)
  barrier,     (* the notify nursery has been joined                    *)
  state,       (* Transaction::_state                                   *)
  job,         (* the key whose action a worker runs                    *)
  left,        (* the nodes of that key the action has still to visit   *)
  at,          (* the node whose resolve() the action is waiting for    *)
  stack,       (* the worker's activation records of resolve()          *)
  started,     (* the keys whose action a worker has taken              *)
  finished,    (* the keys whose action has returned                    *)
  writer,      (* the committed writes found at a key                   *)
  waiters      (* the transactions found waiting at a key               *)

vars == <<ops, listed, barrier, state, job, left, at, stack, started, finished,
          writer, waiters>>

R == INSTANCE Resolution WITH outcome <- state
INITIAL == "INITIAL"
COMMITTED == "COMMITTED"
ABORTED == "ABORTED"
WAIT_ON_COMMIT == COMMITTED
WAIT_ON_ABORT == ABORTED
WRITE_ON_COMMIT == "WRITE"
Operation == R!Operation

(* Priorities are distinct: entity_get_priority hashes the EntityID        *)
(* bijectively and an entity makes one transaction in a tick.              *)
ASSUME TransactionAssumption ==
  /\ Priority \in [Txn -> Nat]
  /\ \A t, u \in Txn : Priority[t] = Priority[u] => t = u
  /\ Proposals \subseteq SUBSET (Key \X Operation)
  /\ NoKey \notin Key /\ NoNode \notin [txn : Txn, key : Key, op : Operation]

Node == [txn : Txn, key : Key, op : Operation]

NodesOf(t) == {[txn |-> t, key |-> o[1], op |-> o[2]] : o \in ops[t]}

IsWrite(n) == WRITE_ON_COMMIT \in n.op

(* Operators whose name begins with Wrong are mistakes the code could have  *)
(* made.  Nothing uses them: each stands before the definition it would    *)
(* replace, and shows that a property notices.                             *)

(* The priorities are not compared. *)
WrongRivals(t) ==
  {n \in UNION {listed[m.key] : m \in {m \in NodesOf(t) : IsWrite(m)}} :
     IsWrite(n) /\ n.txn # t}

(* The nodes resolve() has to look into: in the lists of the keys t writes, *)
(* the writes of higher priority.                                           *)
Rivals(t) ==
  {n \in UNION {listed[m.key] : m \in {m \in NodesOf(t) : IsWrite(m)}} :
     IsWrite(n) /\ Priority[n.txn] < Priority[t]}

(* An activation of resolve(): the rivals it has still to look into, the   *)
(* rival whose resolve() it has called, and whether it is going to abort.  *)
Frame == [txn : Txn, todo : SUBSET Node, call : Node \cup {NoNode}, doomed : BOOLEAN]

Call(t) == [txn |-> t, todo |-> Rivals(t), call |-> NoNode, doomed |-> FALSE]

Init ==
  /\ ops \in [Txn -> Proposals]
  /\ listed = [k \in Key |-> {}]
  /\ barrier = FALSE
  /\ state = [t \in Txn |-> INITIAL]
  /\ job = [w \in Worker |-> NoKey]
  /\ left = [w \in Worker |-> {}]
  /\ at = [w \in Worker |-> NoNode]
  /\ stack = [w \in Worker |-> << >>]
  /\ started = {}
  /\ finished = {}
  /\ writer = [k \in Key |-> {}]
  /\ waiters = [k \in Key |-> {}]

------------------------------------------------------------------------------
(* Before the barrier. *)

(* transaction_verb_generic: t's node is in the list. *)
Propose(t, n) ==
  /\ ~barrier
  /\ n \in NodesOf(t) /\ n \notin listed[n.key]
  /\ listed' = [listed EXCEPT ![n.key] = @ \cup {n}]
  /\ UNCHANGED <<ops, barrier, state, job, left, at, stack, started, finished,
                 writer, waiters>>

(* Resolution begins while somebody is still being notified. *)
WrongBarrier ==
  /\ ~barrier
  /\ barrier' = TRUE
  /\ UNCHANGED <<ops, listed, state, job, left, at, stack, started, finished,
                 writer, waiters>>

(* Every notify has returned. *)
Barrier ==
  /\ ~barrier
  /\ \A t \in Txn : \A n \in NodesOf(t) : n \in listed[n.key]
  /\ barrier' = TRUE
  /\ UNCHANGED <<ops, listed, state, job, left, at, stack, started, finished,
                 writer, waiters>>

------------------------------------------------------------------------------
(* After the barrier: the action of a key. *)

StartAction(w, k) ==
  /\ barrier /\ job[w] = NoKey
  /\ k \notin started /\ listed[k] # {}
  /\ job' = [job EXCEPT ![w] = k]
  /\ left' = [left EXCEPT ![w] = listed[k]]
  /\ started' = started \cup {k}
  /\ UNCHANGED <<ops, listed, barrier, state, at, stack, finished, writer, waiters>>

(* The action stops at the writer. *)
WrongAccept(w, n, r) ==
  /\ left' = [left EXCEPT ![w] = IF r = COMMITTED /\ IsWrite(n) THEN {} ELSE @ \ {n}]
  /\ at' = [at EXCEPT ![w] = NoNode]
  /\ IF r = COMMITTED /\ IsWrite(n)
       THEN /\ writer' = [writer EXCEPT ![n.key] = @ \cup {n}]
            /\ UNCHANGED waiters
       ELSE /\ waiters' = [waiters EXCEPT ![n.key] =
                             IF r \in n.op THEN @ \cup {n.txn} ELSE @]
            /\ UNCHANGED writer

(* The action has the resolution r of node n: it is the writer, or it      *)
(* waits on r, or it is dropped.                                           *)
Accept(w, n, r) ==
  /\ left' = [left EXCEPT ![w] = @ \ {n}]
  /\ at' = [at EXCEPT ![w] = NoNode]
  /\ IF r = COMMITTED /\ IsWrite(n)
       THEN /\ writer' = [writer EXCEPT ![n.key] = @ \cup {n}]
            /\ UNCHANGED waiters
       ELSE /\ waiters' = [waiters EXCEPT ![n.key] =
                             IF r \in n.op THEN @ \cup {n.txn} ELSE @]
            /\ UNCHANGED writer

(* A transaction somebody else is resolving is taken for an aborted one. *)
WrongVisit(w, n) ==
  /\ job[w] # NoKey /\ at[w] = NoNode /\ n \in left[w]
  /\ IF state[n.txn] # INITIAL THEN Accept(w, n, state[n.txn]) /\ UNCHANGED stack
     ELSE IF \E v \in Worker : \E i \in 1 .. Len(stack[v]) : stack[v][i].txn = n.txn
       THEN Accept(w, n, ABORTED) /\ UNCHANGED stack
       ELSE /\ at' = [at EXCEPT ![w] = n]
            /\ stack' = [stack EXCEPT ![w] = <<Call(n.txn)>>]
            /\ UNCHANGED <<left, writer, waiters>>
  /\ UNCHANGED <<ops, listed, barrier, state, job, started, finished>>

(* The action calls resolve() on a node: its first read of _state either   *)
(* answers at once or begins an activation.                                *)
Visit(w, n) ==
  /\ job[w] # NoKey /\ at[w] = NoNode /\ n \in left[w]
  /\ IF state[n.txn] # INITIAL
       THEN Accept(w, n, state[n.txn]) /\ UNCHANGED stack
       ELSE /\ at' = [at EXCEPT ![w] = n]
            /\ stack' = [stack EXCEPT ![w] = <<Call(n.txn)>>]
            /\ UNCHANGED <<left, writer, waiters>>
  /\ UNCHANGED <<ops, listed, barrier, state, job, started, finished>>

(* The worker forgets its key before it reports it. *)
WrongFinishAction(w) ==
  /\ job[w] # NoKey /\ left[w] = {}
  /\ job' = [job EXCEPT ![w] = NoKey]
  /\ finished' = finished \cup {job'[w]}
  /\ UNCHANGED <<ops, listed, barrier, state, left, at, stack, started, writer, waiters>>

FinishAction(w) ==
  /\ job[w] # NoKey /\ left[w] = {}
  /\ finished' = finished \cup {job[w]}
  /\ job' = [job EXCEPT ![w] = NoKey]
  /\ UNCHANGED <<ops, listed, barrier, state, left, at, stack, started, writer, waiters>>

------------------------------------------------------------------------------
(* After the barrier: Transaction::resolve. *)

Running(w) == stack[w] # << >>

Top(w) == stack[w][Len(stack[w])]

SetTop(w, f) == [stack EXCEPT ![w] = [stack[w] EXCEPT ![Len(stack[w])] = f]]

(* Any rival will do as a reason to abort. *)
WrongAnswered(f, r) == [f EXCEPT !.doomed = TRUE, !.call = NoNode]

(* What the caller's activation does with the answer r of its call. *)
Answered(f, r) ==
  IF r = COMMITTED THEN [f EXCEPT !.doomed = TRUE, !.call = NoNode]
                   ELSE [f EXCEPT !.todo = f.todo \ {f.call}, !.call = NoNode]

(* A worker waits for its rival to be resolved by somebody else. *)
WrongConsult(w, n) ==
  LET f == Top(w) IN
  /\ Running(w) /\ ~f.doomed /\ n \in f.todo
  /\ state[n.txn] # INITIAL
  /\ stack' = SetTop(w, Answered([f EXCEPT !.call = n], state[n.txn]))
  /\ UNCHANGED <<ops, listed, barrier, state, job, left, at, started, finished,
                 writer, waiters>>

(* Call resolve() on a rival: read its _state, answer or recurse. *)
Consult(w, n) ==
  LET f == Top(w) IN
  /\ Running(w) /\ ~f.doomed /\ n \in f.todo
  /\ stack' = IF state[n.txn] # INITIAL
                THEN SetTop(w, Answered([f EXCEPT !.call = n], state[n.txn]))
                ELSE [stack EXCEPT ![w] =
                        Append([stack[w] EXCEPT ![Len(stack[w])] = [f EXCEPT !.call = n]],
                               Call(n.txn))]
  /\ UNCHANGED <<ops, listed, barrier, state, job, left, at, started, finished,
                 writer, waiters>>

(* The exchange of commit() or abort(), and the return to the caller: an   *)
(* activation below, or the action.                                        *)
Settle(w, r) ==
  LET d == Len(stack[w]) IN
  /\ state' = [state EXCEPT ![Top(w).txn] = r]
  /\ IF d > 1
       THEN /\ stack' = [stack EXCEPT ![w] =
                           [i \in 1 .. d - 1 |-> IF i = d - 1
                              THEN Answered(stack[w][i], r) ELSE stack[w][i]]]
            /\ UNCHANGED <<left, at, writer, waiters>>
       ELSE /\ stack' = [stack EXCEPT ![w] = << >>]
            /\ Accept(w, at[w], r)
  /\ UNCHANGED <<ops, listed, barrier, job, started, finished>>

(* Whoever has met no reason to abort yet commits. *)
WrongCommit(w) == Running(w) /\ ~Top(w).doomed /\ Settle(w, COMMITTED)

Commit(w) == Running(w) /\ ~Top(w).doomed /\ Top(w).todo = {} /\ Settle(w, COMMITTED)

Abort(w) == Running(w) /\ Top(w).doomed /\ Settle(w, ABORTED)

------------------------------------------------------------------------------
Work(w) ==
  \/ \E k \in Key : StartAction(w, k)
  \/ \E n \in left[w] : Visit(w, n)
  \/ Running(w) /\ \E n \in Top(w).todo : Consult(w, n)
  \/ Commit(w) \/ Abort(w) \/ FinishAction(w)

(* Every key that was acted on has been rebuilt: World::step returns. *)
Done == barrier /\ \A k \in Key : listed[k] # {} => k \in finished

Next ==
  \/ \E t \in Txn : \E n \in NodesOf(t) : Propose(t, n)
  \/ Barrier
  \/ \E w \in Worker : Work(w)
  \/ Done /\ UNCHANGED vars

Spec == Init /\ [][Next]_vars

(* The scheduler runs every worker that has something to do. *)
FairSpec == Spec /\ WF_vars(\E t \in Txn : \E n \in NodesOf(t) : Propose(t, n))
                 /\ WF_vars(Barrier) /\ \A w \in Worker : WF_vars(Work(w))
------------------------------------------------------------------------------
TypeOK ==
  /\ ops \in [Txn -> Proposals]
  /\ listed \in [Key -> SUBSET Node]
  /\ barrier \in BOOLEAN
  /\ state \in [Txn -> {INITIAL, COMMITTED, ABORTED}]
  /\ job \in [Worker -> Key \cup {NoKey}]
  /\ left \in [Worker -> SUBSET Node]
  /\ at \in [Worker -> Node \cup {NoNode}]
  /\ stack \in [Worker -> Seq(Frame)]
  /\ started \subseteq Key /\ finished \subseteq started
  /\ writer \in [Key -> SUBSET Node]
  /\ waiters \in [Key -> SUBSET Txn]

(* Two transactions that commit write no common key. *)
Exclusive == R!Exclusive

(* All or nothing: when the tick is rebuilt, a transaction's writes are in *)
(* the new world at every key it wrote, or at none.                        *)
AllOrNothing ==
  Done =>
    \A t \in Txn : \A n \in NodesOf(t) : IsWrite(n) =>
      (n \in writer[n.key] <=> state[t] = COMMITTED)

(* Nobody who asked to be woken is forgotten, and nobody else is recorded: *)
(* a transaction waits at a key exactly if it has a node there, other than *)
(* a committed write, whose operation names its outcome.                   *)
WaitersExact ==
  \A k \in finished :
    waiters[k] = {t \in Txn : \E n \in NodesOf(t) :
                    n.key = k /\ state[t] \in n.op
                    /\ ~(state[t] = COMMITTED /\ IsWrite(n))}

(* The transactions that commit when the priorities are taken in order:    *)
(* those that find none of them before it that wants one of its keys.      *)
IsGreedy(S) == \A t \in Txn : t \in S <=> S \cap R!Above(t) = {}
Greedy == CHOOSE S \in SUBSET Txn : IsGreedy(S)

(* The outcome is a function of the proposals and the priorities alone: no *)
(* schedule of the workers, however they race on a transaction, changes it. *)
Deterministic ==
  \A t \in Txn : state[t] # INITIAL => (state[t] = COMMITTED <=> t \in Greedy)

(* resolve() recurses only towards higher priority, so no transaction is   *)
(* on a stack twice and the recursion is no deeper than the number of      *)
(* transactions.                                                           *)
RecursionAscends ==
  \A w \in Worker : \A i, j \in 1 .. Len(stack[w]) :
    i < j => Priority[stack[w][j].txn] < Priority[stack[w][i].txn]

(* The resolvers work on what the tick announced, and never in a circle. *)
Sound == TypeOK /\ RecursionAscends

(* The abstract specification is implemented. *)
ResolutionSpec == R!Spec

(* Every tick ends: the resolvers cannot wait for each other in a circle.  *)
TickEnds == <>Done
==============================================================================
