--------------------------- MODULE TransactionProofs ---------------------------
(***************************************************************************)
(* Proofs about the resolution of a tick, for any number of transactions,  *)
(* keys and workers and any proposals.                                     *)
(*                                                                         *)
(* The heart of the invariant is Activations: what an activation of        *)
(* resolve() has crossed off its list has aborted, and one that is going   *)
(* to abort has a rival that committed.  With it a verdict is justified by *)
(* those of higher priority, so a worker that settles a transaction which  *)
(* another has settled meanwhile can only repeat its verdict.              *)
(***************************************************************************)
EXTENDS Transaction, WellFoundedInduction, FiniteSetTheorems, TLAPS

(* What is in a list was proposed; after the barrier all of it is there.   *)
Announced ==
  /\ \A k \in Key : \A n \in listed[k] : n.key = k /\ n \in NodesOf(n.txn)
  /\ barrier => \A t \in Txn : \A n \in NodesOf(t) : n \in listed[n.key]

(* Before the barrier nothing is resolved. *)
NotBefore ==
  ~barrier => /\ started = {}
              /\ \A t \in Txn : state[t] = INITIAL
              /\ \A w \in Worker : stack[w] = << >>

(* A key is rebuilt by one worker, who has some of its list before it.     *)
Jobs ==
  /\ \A w \in Worker : job[w] # NoKey => job[w] \in started \ finished
  /\ \A w, v \in Worker : job[w] # NoKey /\ job[w] = job[v] => w = v
  /\ \A w \in Worker : left[w] \subseteq IF job[w] = NoKey THEN {} ELSE listed[job[w]]

(* A worker resolves the transaction of the node it has come to. *)
Calls ==
  \A w \in Worker :
    IF stack[w] = << >> THEN at[w] = NoNode
    ELSE at[w] \in left[w] /\ stack[w][1].txn = at[w].txn

Crossed(f) ==
  /\ f.todo \subseteq Rivals(f.txn)
  /\ \A n \in Rivals(f.txn) \ f.todo : state[n.txn] = ABORTED
  /\ f.doomed => \E n \in Rivals(f.txn) : state[n.txn] = COMMITTED

(* An activation below the top of a stack has called the one above it.     *)
Called(s, i) ==
  i < Len(s) =>
    ~s[i].doomed /\ s[i].call \in s[i].todo /\ s[i + 1].txn = s[i].call.txn

(* What the activations of resolve() know. *)
Activations ==
  \A w \in Worker : \A i \in 1 .. Len(stack[w]) : Crossed(stack[w][i]) /\ Called(stack[w], i)

(* The nodes of a key that its action is done with. *)
Visited(k) ==
  {n \in listed[k] : k \in started /\ \A w \in Worker : job[w] = k => n \notin left[w]}

(* Whom the verdict leaves waiting on the key: the node asked for it, and  *)
(* has not just written.                                                   *)
IsWaiter(n) == state[n.txn] \in n.op /\ ~(state[n.txn] = COMMITTED /\ IsWrite(n))

(* What has been rebuilt of a key is what the verdicts say. *)
RebuiltAt(k) ==
  /\ \A n \in Visited(k) : state[n.txn] # INITIAL
  /\ writer[k] = {n \in Visited(k) : IsWrite(n) /\ state[n.txn] = COMMITTED}
  /\ waiters[k] = {n.txn : n \in {m \in Visited(k) : IsWaiter(m)}}

(* Every key, visited in full, in part or not at all. *)
Rebuilt == \A k \in Key : RebuiltAt(k)

(* The inductive invariant of the protocol. *)
IInv ==
  /\ TypeOK /\ Announced /\ NotBefore /\ Jobs /\ Calls /\ Activations
  /\ R!Justified /\ RecursionAscends /\ Rebuilt
--------------------------------------------------------------------------------
(* The nodes of a transaction are its proposed operations. *)
LEMMA NodeFacts ==
  ASSUME TypeOK, NEW t \in Txn
  PROVE  /\ \A n \in NodesOf(t) :
              /\ n \in Node /\ n.txn = t /\ n.key \in Key /\ n.op \in Operation
              /\ <<n.key, n.op>> \in ops[t]
         /\ \A k \in Key : R!WritesKey(t, k) <=> \E n \in NodesOf(t) : n.key = k /\ IsWrite(n)
  <1>1. ops[t] \subseteq Key \X Operation
    BY TransactionAssumption DEF TypeOK
  <1>2. \A o \in ops[t] : o[1] \in Key /\ o[2] \in Operation /\ o = <<o[1], o[2]>>
    BY <1>1
  <1>3. \A n \in NodesOf(t) :
          /\ n \in Node /\ n.txn = t /\ n.key \in Key /\ n.op \in Operation
          /\ <<n.key, n.op>> \in ops[t]
    BY <1>2 DEF NodesOf, Node
  <1>4. ASSUME NEW k \in Key
        PROVE  R!WritesKey(t, k) <=> \E n \in NodesOf(t) : n.key = k /\ IsWrite(n)
    <2>1. ASSUME R!WritesKey(t, k)
          PROVE  \E n \in NodesOf(t) : n.key = k /\ IsWrite(n)
      <3>1. PICK o \in ops[t] : o[1] = k /\ WRITE_ON_COMMIT \in o[2]
        BY <2>1 DEF R!WritesKey, R!WRITE_ON_COMMIT, WRITE_ON_COMMIT
      <3>2. [txn |-> t, key |-> o[1], op |-> o[2]] \in NodesOf(t)
        BY DEF NodesOf
      <3> QED BY <3>1, <3>2 DEF IsWrite
    <2>2. ASSUME NEW n \in NodesOf(t), n.key = k, IsWrite(n)
          PROVE  R!WritesKey(t, k)
      <3>1. <<n.key, n.op>> \in ops[t] /\ <<n.key, n.op>>[1] = k /\ WRITE_ON_COMMIT \in <<n.key, n.op>>[2]
        BY <1>3, <2>2 DEF IsWrite
      <3> QED BY <3>1 DEF R!WritesKey, R!WRITE_ON_COMMIT, WRITE_ON_COMMIT
    <2> QED BY <2>1, <2>2
  <1> QED BY <1>3, <1>4

(* What is in a list is somebody's node. *)
LEMMA ListFacts ==
  ASSUME TypeOK, Announced, NEW k \in Key, NEW n \in listed[k]
  PROVE  n \in Node /\ n.txn \in Txn /\ n.key = k /\ n \in NodesOf(n.txn)
  <1>1. n \in Node
    BY DEF TypeOK
  <1> QED BY <1>1 DEF Announced, Node

(* The rivals resolve() looks for in the lists are the transactions that    *)
(* go before in the specification.                                          *)
LEMMA RivalsAreAbove ==
  ASSUME TypeOK, Announced, barrier, NEW t \in Txn
  PROVE  /\ \A n \in Rivals(t) : n \in Node /\ n.txn \in R!Above(t)
         /\ \A u \in R!Above(t) : \E n \in Rivals(t) : n.txn = u
  <1>1. ASSUME NEW n \in Rivals(t)
        PROVE  n \in Node /\ n.txn \in R!Above(t)
    <2>1. PICK m \in NodesOf(t) : IsWrite(m) /\ n \in listed[m.key]
      BY DEF Rivals
    <2>2. IsWrite(n) /\ Priority[n.txn] < Priority[t]
      BY DEF Rivals
    <2>3. m.key \in Key
      BY NodeFacts
    <2>4. n \in Node /\ n.txn \in Txn /\ n.key = m.key /\ n \in NodesOf(n.txn)
      BY <2>1, <2>3, ListFacts
    <2>5. R!WritesKey(t, m.key) /\ R!WritesKey(n.txn, m.key)
      BY <2>1, <2>2, <2>3, <2>4, NodeFacts
    <2> QED BY <2>2, <2>3, <2>4, <2>5 DEF R!Above, R!Conflict
  <1>2. ASSUME NEW u \in R!Above(t)
        PROVE  \E n \in Rivals(t) : n.txn = u
    <2>1. u \in Txn /\ Priority[u] < Priority[t] /\ R!Conflict(t, u)
      BY DEF R!Above
    <2>2. PICK k \in Key : R!WritesKey(t, k) /\ R!WritesKey(u, k)
      BY <2>1 DEF R!Conflict
    <2>3. PICK m \in NodesOf(t) : m.key = k /\ IsWrite(m)
      BY <2>2, NodeFacts
    <2>4. PICK n \in NodesOf(u) : n.key = k /\ IsWrite(n)
      BY <2>1, <2>2, NodeFacts
    <2>5. n.txn = u /\ n \in listed[k]
      BY <2>1, <2>4, NodeFacts DEF Announced
    <2> QED BY <2>1, <2>3, <2>4, <2>5 DEF Rivals
  <1> QED BY <1>1, <1>2
--------------------------------------------------------------------------------
(* An activation that settles knows why. *)
LEMMA VerdictFacts ==
  ASSUME IInv, NEW w \in Worker, Running(w)
  PROVE  /\ barrier /\ Len(stack[w]) \in Nat \ {0} /\ Top(w) \in Frame /\ Top(w).txn \in Txn
         /\ ~Top(w).doomed /\ Top(w).todo = {} => \A u \in R!Above(Top(w).txn) : state[u] = ABORTED
         /\ Top(w).doomed => \E u \in R!Above(Top(w).txn) : state[u] = COMMITTED
  <1> DEFINE f == Top(w)
  <1>1. barrier
    BY DEF IInv, NotBefore, Running
  <1>2. stack[w] \in Seq(Frame) /\ stack[w] # << >>
    BY DEF IInv, TypeOK, Running
  <1>3. Len(stack[w]) \in Nat \ {0} /\ Top(w) \in Frame
    BY <1>2 DEF Top
  <1>4. f.txn \in Txn
    BY <1>3 DEF Frame
  <1>5. Crossed(f)
    BY <1>3 DEF IInv, Activations, Top
  <1>6. /\ \A n \in Rivals(f.txn) : n \in Node /\ n.txn \in R!Above(f.txn)
        /\ \A u \in R!Above(f.txn) : \E n \in Rivals(f.txn) : n.txn = u
    BY <1>1, <1>4, RivalsAreAbove DEF IInv
  <1>7. ~f.doomed /\ f.todo = {} => \A u \in R!Above(f.txn) : state[u] = ABORTED
    BY <1>5, <1>6 DEF Crossed
  <1>8. f.doomed => \E u \in R!Above(f.txn) : state[u] = COMMITTED
    BY <1>5, <1>6 DEF Crossed
  <1> QED BY <1>1, <1>3, <1>4, <1>7, <1>8

(* A worker that settles a transaction takes a step of the specification,  *)
(* or repeats what another has exchanged already.                          *)
LEMMA SettleFacts ==
  ASSUME IInv, NEW w \in Worker, Commit(w) \/ Abort(w)
  PROVE  \E t \in Txn, r \in {COMMITTED, ABORTED} :
           /\ t = Top(w).txn /\ Settle(w, r) /\ state' = [state EXCEPT ![t] = r]
           /\ \/ state[t] = INITIAL /\ r = COMMITTED /\ R!Commit(t)
              \/ state[t] = INITIAL /\ r = ABORTED /\ R!Abort(t)
              \/ state[t] = r /\ state' = state
  <1> DEFINE t == Top(w).txn
  <1>1. Running(w)
    BY DEF Commit, Abort
  <1>2. /\ t \in Txn
        /\ ~Top(w).doomed /\ Top(w).todo = {} => \A u \in R!Above(t) : state[u] = ABORTED
        /\ Top(w).doomed => \E u \in R!Above(t) : state[u] = COMMITTED
    BY <1>1, VerdictFacts
  <1>3. /\ state[t] = COMMITTED => \A u \in R!Above(t) : state[u] = ABORTED
        /\ state[t] = ABORTED => \E u \in R!Above(t) : state[u] = COMMITTED
    BY <1>2 DEF IInv, R!Justified, R!COMMITTED, R!ABORTED, COMMITTED, ABORTED
  <1>4. state \in [Txn -> {INITIAL, COMMITTED, ABORTED}]
    BY DEF IInv, TypeOK
  <1>5. INITIAL # COMMITTED /\ INITIAL # ABORTED /\ COMMITTED # ABORTED
    BY DEF INITIAL, COMMITTED, ABORTED
  <1>6. CASE Commit(w)
    <2>1. Settle(w, COMMITTED) /\ \A u \in R!Above(t) : state[u] = ABORTED
      BY <1>2, <1>6 DEF Commit
    <2>2. state' = [state EXCEPT ![t] = COMMITTED] /\ ops' = ops
      BY <2>1 DEF Settle
    <2>3. state[t] = INITIAL \/ state[t] = COMMITTED
      BY <1>2, <1>3, <1>4, <1>5, <2>1
    <2>4. state[t] = INITIAL => R!Commit(t)
      BY <2>1, <2>2 DEF R!Commit, R!INITIAL, R!COMMITTED, R!ABORTED, INITIAL, COMMITTED, ABORTED
    <2>5. state[t] = COMMITTED => state' = state
      BY <1>2, <1>4, <2>2
    <2> QED BY <1>2, <2>1, <2>2, <2>3, <2>4, <2>5
  <1>7. CASE Abort(w)
    <2>1. Settle(w, ABORTED) /\ \E u \in R!Above(t) : state[u] = COMMITTED
      BY <1>2, <1>7 DEF Abort
    <2>2. state' = [state EXCEPT ![t] = ABORTED] /\ ops' = ops
      BY <2>1 DEF Settle
    <2>3. state[t] = INITIAL \/ state[t] = ABORTED
      BY <1>2, <1>3, <1>4, <1>5, <2>1
    <2>4. state[t] = INITIAL => R!Abort(t)
      BY <2>1, <2>2 DEF R!Abort, R!INITIAL, R!COMMITTED, R!ABORTED, INITIAL, COMMITTED, ABORTED
    <2>5. state[t] = ABORTED => state' = state
      BY <1>2, <1>4, <2>2
    <2> QED BY <1>2, <2>1, <2>2, <2>3, <2>4, <2>5
  <1> QED BY <1>6, <1>7

(* Every step of a tick is a step of the specification or none.            *)
LEMMA Simulates ==
  ASSUME IInv, [Next]_vars
  PROVE  R!Next \/ UNCHANGED <<ops, state>>
  <1>1. ASSUME NEW t \in Txn, NEW n \in NodesOf(t), Propose(t, n)
        PROVE  UNCHANGED <<ops, state>>
    BY <1>1 DEF Propose
  <1>2. CASE Barrier
    BY <1>2 DEF Barrier
  <1>3. ASSUME NEW w \in Worker, Work(w)
        PROVE  R!Next \/ UNCHANGED <<ops, state>>
    <2>1. ASSUME NEW k \in Key, StartAction(w, k) PROVE UNCHANGED <<ops, state>>
      BY <2>1 DEF StartAction
    <2>2. ASSUME NEW n \in left[w], Visit(w, n) PROVE UNCHANGED <<ops, state>>
      BY <2>2 DEF Visit
    <2>3. ASSUME NEW n \in Top(w).todo, Consult(w, n) PROVE UNCHANGED <<ops, state>>
      BY <2>3 DEF Consult
    <2>4. CASE FinishAction(w)
      BY <2>4 DEF FinishAction
    <2>5. CASE Commit(w) \/ Abort(w)
      <3>1. ops' = ops
        BY <2>5 DEF Commit, Abort, Settle
      <3> QED BY <2>5, <3>1, SettleFacts DEF R!Next
    <2> QED BY <1>3, <2>1, <2>2, <2>3, <2>4, <2>5 DEF Work
  <1>4. CASE UNCHANGED vars
    BY <1>4 DEF vars
  <1> QED BY <1>1, <1>2, <1>3, <1>4 DEF Next

(* A step of the specification leaves verdicts alone, and gives only those *)
(* that are justified.                                                     *)
LEMMA VerdictsStay ==
  ASSUME state \in [Txn -> {INITIAL, COMMITTED, ABORTED}], R!Justified,
         R!Next \/ UNCHANGED <<ops, state>>
  PROVE  /\ R!Justified' /\ ops' = ops /\ state' \in [Txn -> {INITIAL, COMMITTED, ABORTED}]
         /\ \A t \in Txn : state[t] # INITIAL => state'[t] = state[t]
  <1> USE DEF R!Justified, R!INITIAL, R!COMMITTED, R!ABORTED, INITIAL, COMMITTED, ABORTED
  <1>1. CASE UNCHANGED <<ops, state>>
    BY <1>1 DEF R!Above, R!Conflict, R!WritesKey
  <1>2. CASE R!Next
    <2>1. PICK t \in Txn : R!Commit(t) \/ R!Abort(t)
      BY <1>2 DEF R!Next
    <2>2. ops' = ops /\ state[t] = "INITIAL"
      BY <2>1 DEF R!Commit, R!Abort
    <2>3. \A u \in Txn : R!Above(u)' = R!Above(u) /\ R!Above(u) \subseteq Txn
      BY <2>2 DEF R!Above, R!Conflict, R!WritesKey
    <2>4. \A u \in Txn : u \notin R!Above(u)
      BY TransactionAssumption DEF R!Above
    <2>5. CASE R!Commit(t)
      <3>1. state' = [state EXCEPT ![t] = "COMMITTED"] /\ \A u \in R!Above(t) : state[u] = "ABORTED"
        BY <2>5 DEF R!Commit
      <3> QED BY <2>2, <2>3, <2>4, <3>1
    <2>6. CASE R!Abort(t)
      <3>1. state' = [state EXCEPT ![t] = "ABORTED"] /\ \E u \in R!Above(t) : state[u] = "COMMITTED"
        BY <2>6 DEF R!Abort
      <3> QED BY <2>2, <2>3, <2>4, <3>1
    <2> QED BY <2>1, <2>5, <2>6
  <1> QED BY <1>1, <1>2
--------------------------------------------------------------------------------
LEMMA CallFacts ==
  ASSUME TypeOK, NEW t \in Txn
  PROVE  Rivals(t) \subseteq Node /\ Call(t) \in Frame /\ Call(t).txn = t /\ Crossed(Call(t))
  <1>1. \A m \in NodesOf(t) : listed[m.key] \subseteq Node
    BY NodeFacts DEF TypeOK
  <1>2. Rivals(t) \subseteq Node
    BY <1>1 DEF Rivals
  <1>3. Call(t) \in Frame
    BY <1>2 DEF Call, Frame
  <1> QED BY <1>2, <1>3 DEF Call, Crossed

(* The answer to a call of resolve() is taken for what it is. *)
LEMMA AnswerFacts ==
  ASSUME TypeOK, NEW f \in Frame, NEW n \in f.todo, Crossed(f), ~f.doomed,
         f.call = n, state[n.txn] # INITIAL
  PROVE  LET g == Answered(f, state[n.txn]) IN g \in Frame /\ g.txn = f.txn /\ Crossed(g)
  <1> DEFINE g == Answered(f, state[n.txn])
  <1>1. n \in Node /\ n \in Rivals(f.txn)
    BY DEF Crossed, Frame
  <1>2. state[n.txn] \in {COMMITTED, ABORTED}
    BY <1>1 DEF TypeOK, Node
  <1>3. CASE state[n.txn] = COMMITTED
    <2>1. g = [f EXCEPT !.doomed = TRUE, !.call = NoNode]
      BY <1>3 DEF Answered
    <2> QED BY <1>1, <1>3, <2>1 DEF Crossed, Frame
  <1>4. CASE state[n.txn] = ABORTED
    <2>1. g = [f EXCEPT !.todo = f.todo \ {n}, !.call = NoNode]
      BY <1>4 DEF Answered, ABORTED, COMMITTED
    <2>2. g \in Frame /\ g.txn = f.txn /\ g.todo = f.todo \ {n} /\ g.doomed = f.doomed
      BY <2>1 DEF Frame
    <2> QED BY <1>1, <1>4, <2>2 DEF Crossed
  <1> QED BY <1>2, <1>3, <1>4

(* Knowledge does not age: lists are complete and verdicts final. *)
LEMMA CrossedStays ==
  ASSUME TypeOK, NEW f \in Frame, Crossed(f), ops' = ops, listed' = listed,
         \A t \in Txn : state[t] # INITIAL => state'[t] = state[t]
  PROVE  Crossed(f)'
  <1>1. f.txn \in Txn
    BY DEF Frame
  <1>2. Rivals(f.txn)' = Rivals(f.txn)
    BY DEF Rivals, NodesOf
  <1>3. \A n \in Rivals(f.txn) : n.txn \in Txn
    BY <1>1, CallFacts DEF Node
  <1> QED BY <1>2, <1>3 DEF Crossed, INITIAL, ABORTED, COMMITTED

(* Consult changes the activation at the top, and may begin another. *)
LEMMA ConsultFacts ==
  ASSUME IInv, NEW w \in Worker, Running(w), NEW n \in Top(w).todo, Consult(w, n)
  PROVE  LET d == Len(stack[w]) IN
         /\ d \in Nat \ {0} /\ barrier /\ n \in Node
         /\ stack' \in [Worker -> Seq(Frame)]
         /\ \A v \in Worker : v # w => stack'[v] = stack[v]
         /\ \A i \in 1 .. d - 1 : stack'[w][i] = stack[w][i]
         /\ stack'[w][d].txn = Top(w).txn /\ Crossed(stack'[w][d])
         /\ \/ Len(stack'[w]) = d
            \/ /\ Len(stack'[w]) = d + 1 /\ stack'[w][d + 1] = Call(n.txn)
               /\ ~stack'[w][d].doomed /\ stack'[w][d].call = n
               /\ n \in stack'[w][d].todo
  <1> DEFINE d == Len(stack[w])
             f == Top(w)
             c == [f EXCEPT !.call = n]
  <1>1. TypeOK /\ d \in Nat \ {0} /\ f \in Frame /\ f.txn \in Txn /\ barrier
    BY VerdictFacts DEF IInv
  <1>2. stack \in [Worker -> Seq(Frame)] /\ f = stack[w][d] /\ d \in 1 .. d
    BY <1>1 DEF TypeOK, Top
  <1>3. Crossed(f) /\ ~f.doomed
    BY <1>2 DEF IInv, Activations, Consult
  <1>4. n \in Node /\ n.txn \in Txn
    BY <1>1 DEF Frame, Node
  <1>5. c \in Frame /\ c.txn = f.txn /\ c.todo = f.todo /\ c.doomed = f.doomed /\ c.call = n
    BY <1>1, <1>4 DEF Frame
  <1>6. Crossed(c)
    BY <1>3, <1>5 DEF Crossed
  <1>7. CASE state[n.txn] # INITIAL
    <2> DEFINE g == Answered(c, state[n.txn])
    <2>1. g \in Frame /\ g.txn = f.txn /\ Crossed(g)
      BY <1>1, <1>3, <1>5, <1>6, <1>7, AnswerFacts
    <2>2. stack' = [stack EXCEPT ![w] = [stack[w] EXCEPT ![d] = g]]
      BY <1>7 DEF Consult, SetTop
    <2> HIDE DEF g
    <2>3. /\ [stack[w] EXCEPT ![d] = g] \in Seq(Frame) /\ Len([stack[w] EXCEPT ![d] = g]) = d
          /\ [stack[w] EXCEPT ![d] = g][d] = g
          /\ \A i \in 1 .. d - 1 : [stack[w] EXCEPT ![d] = g][i] = stack[w][i]
      BY <1>1, <1>2, <2>1
    <2> QED BY <1>1, <1>2, <1>4, <2>1, <2>2, <2>3
  <1>8. CASE state[n.txn] = INITIAL
    <2> DEFINE s == [stack[w] EXCEPT ![d] = c]
    <2>1. stack' = [stack EXCEPT ![w] = Append(s, Call(n.txn))]
      BY <1>8 DEF Consult
    <2>2. Call(n.txn) \in Frame
      BY <1>1, <1>4, CallFacts
    <2> HIDE DEF c
    <2>3. s \in Seq(Frame) /\ Len(s) = d /\ s[d] = c /\ \A i \in 1 .. d - 1 : s[i] = stack[w][i]
      BY <1>1, <1>2, <1>5
    <2> HIDE DEF s
    <2>4. /\ Append(s, Call(n.txn)) \in Seq(Frame) /\ Len(Append(s, Call(n.txn))) = d + 1
          /\ Append(s, Call(n.txn))[d + 1] = Call(n.txn)
          /\ \A i \in 1 .. d : Append(s, Call(n.txn))[i] = s[i]
      BY <2>2, <2>3
    <2> QED BY <1>1, <1>2, <1>3, <1>4, <1>5, <1>6, <2>1, <2>3, <2>4
  <1> QED BY <1>7, <1>8

(* The exchange of a verdict, and the return to whoever called. *)
LEMMA SettleFrame ==
  ASSUME IInv, NEW w \in Worker, Commit(w) \/ Abort(w)
  PROVE  /\ Len(stack[w]) \in Nat \ {0} /\ Top(w) \in Frame /\ Top(w).txn \in Txn
         /\ Top(w) = stack[w][Len(stack[w])]
         /\ barrier /\ barrier'
         /\ UNCHANGED <<ops, listed, job, started, finished>>
         /\ \E r \in {COMMITTED, ABORTED} : Settle(w, r) /\ state'[Top(w).txn] = r
  <1> DEFINE f == Top(w)
  <1>1. Running(w)
    BY DEF Commit, Abort
  <1>2. Len(stack[w]) \in Nat \ {0} /\ f \in Frame /\ f.txn \in Txn /\ barrier
    BY <1>1, VerdictFacts
  <1>3. PICK r \in {COMMITTED, ABORTED} : Settle(w, r) /\ state' = [state EXCEPT ![f.txn] = r]
    BY SettleFacts
  <1>4. state'[f.txn] = r
    BY <1>2, <1>3 DEF IInv, TypeOK
  <1>5. UNCHANGED <<ops, listed, job, started, finished>> /\ barrier'
    BY <1>2, <1>3 DEF Settle
  <1> QED BY <1>2, <1>3, <1>4, <1>5 DEF Top

(* An activation below takes the answer for what it is. *)
LEMMA ReturnToCaller ==
  ASSUME IInv, NEW w \in Worker, Commit(w) \/ Abort(w), Len(stack[w]) > 1,
         \A t \in Txn : state[t] # INITIAL => state'[t] = state[t]
  PROVE  LET d == Len(stack[w]) IN
         /\ UNCHANGED <<left, at, writer, waiters>>
         /\ \E g \in Frame, s \in Seq(Frame) :
              /\ stack' = [stack EXCEPT ![w] = s]
              /\ Len(s) = d - 1 /\ \A i \in 1 .. d - 2 : s[i] = stack[w][i]
              /\ s[d - 1] = g /\ Crossed(g)' /\ g.txn = stack[w][d - 1].txn
  <1> DEFINE d == Len(stack[w])
             f == Top(w)
  <1>1. /\ TypeOK /\ d \in Nat \ {0} /\ f.txn \in Txn /\ f = stack[w][d]
        /\ stack \in [Worker -> Seq(Frame)] /\ ops' = ops /\ listed' = listed
    BY SettleFrame DEF IInv, TypeOK
  <1>2. PICK r \in {COMMITTED, ABORTED} : Settle(w, r) /\ state'[f.txn] = r
    BY SettleFrame
  <1>3. PICK e \in Frame : e = stack[w][d - 1]
    <2>1. d - 1 \in 1 .. Len(stack[w])
      BY <1>1
    <2> QED BY <1>1, <2>1
  <1>4. Crossed(e) /\ ~e.doomed /\ e.call \in e.todo /\ f.txn = e.call.txn
    <2>1. d - 1 \in 1 .. d /\ d - 1 < d /\ d - 1 + 1 = d
      BY <1>1
    <2> QED BY <1>1, <1>3, <2>1 DEF IInv, Activations, Called
  <1>5. Crossed(e)'
    BY <1>1, <1>4, CrossedStays
  <1>6. PICK n \in e.todo : n = e.call /\ n \in Node /\ state'[n.txn] = r
    BY <1>2, <1>4 DEF Frame
  <1>7. PICK g \in Frame : g = Answered(e, r) /\ g.txn = e.txn /\ Crossed(g)'
    <2>1. CASE r = COMMITTED
      <3> DEFINE g == [e EXCEPT !.doomed = TRUE, !.call = NoNode]
      <3>1. g \in Frame /\ g.txn = e.txn /\ g.todo = e.todo
        BY DEF Frame
      <3>2. n \in Rivals(e.txn)'
        BY <1>5 DEF Crossed
      <3>3. Crossed(g)'
        BY <1>5, <1>6, <2>1, <3>1, <3>2 DEF Crossed
      <3>4. Answered(e, r) = g
        BY <2>1 DEF Answered
      <3> QED BY <3>1, <3>3, <3>4
    <2>2. CASE r = ABORTED
      <3> DEFINE g == [e EXCEPT !.todo = e.todo \ {e.call}, !.call = NoNode]
      <3>1. g \in Frame /\ g.txn = e.txn /\ g.todo = e.todo \ {n} /\ g.doomed = e.doomed
        BY <1>6 DEF Frame
      <3>2. Crossed(g)'
        BY <1>5, <1>6, <2>2, <3>1 DEF Crossed
      <3>3. Answered(e, r) = g
        BY <2>2 DEF Answered, ABORTED, COMMITTED
      <3> QED BY <3>1, <3>2, <3>3
    <2> QED BY <2>1, <2>2
  <1> DEFINE s == [i \in 1 .. d - 1 |-> IF i = d - 1 THEN g ELSE stack[w][i]]
  <1>8. stack' = [stack EXCEPT ![w] = s] /\ UNCHANGED <<left, at, writer, waiters>>
    BY <1>2, <1>3, <1>7 DEF Settle
  <1>9. s \in Seq(Frame) /\ Len(s) = d - 1 /\ s[d - 1] = g
        /\ \A i \in 1 .. d - 2 : s[i] = stack[w][i]
    <2>1. stack[w] \in Seq(Frame) /\ d - 1 \in Nat
      BY <1>1
    <2>2. \A i \in 1 .. d - 1 : s[i] \in Frame
      BY <1>1, <2>1
    <2>3. s \in [1 .. d - 1 -> Frame]
      BY <2>2
    <2> QED BY <1>1, <2>1, <2>3
  <1> HIDE DEF s
  <1> QED BY <1>3, <1>7, <1>8, <1>9

(* The action below takes it for the node it has come to. *)
LEMMA ReturnToAction ==
  ASSUME IInv, NEW w \in Worker, Commit(w) \/ Abort(w), ~(Len(stack[w]) > 1)
  PROVE  /\ stack' = [stack EXCEPT ![w] = << >>] /\ Len(stack[w]) = 1
         /\ at[w] \in left[w] /\ at[w].txn = Top(w).txn
         /\ Accept(w, at[w], state'[Top(w).txn])
  <1>1. PICK r \in {COMMITTED, ABORTED} : Settle(w, r) /\ state'[Top(w).txn] = r
    BY SettleFrame
  <1>2. Len(stack[w]) = 1 /\ Top(w) = stack[w][1]
    <2>1. Len(stack[w]) \in Nat \ {0} /\ Top(w) = stack[w][Len(stack[w])]
      BY SettleFrame
    <2>2. \A d \in Nat \ {0} : ~(d > 1) => d = 1
      OBVIOUS
    <2>3. Len(stack[w]) = 1
      BY <2>1, <2>2
    <2> QED BY <2>1, <2>3
  <1>3. stack' = [stack EXCEPT ![w] = << >>] /\ Accept(w, at[w], r)
    BY <1>1, <1>2 DEF Settle
  <1>4. stack[w] # << >>
    BY <1>2
  <1>5. at[w] \in left[w] /\ at[w].txn = Top(w).txn
    BY <1>2, <1>4 DEF IInv, Calls
  <1> QED BY <1>1, <1>2, <1>3, <1>5
--------------------------------------------------------------------------------
(* A node the action is done with is one of its writers or waiters.        *)
LEMMA AcceptFacts ==
  ASSUME TypeOK, NEW w \in Worker, NEW n \in left[w], NEW r, Accept(w, n, r)
  PROVE  /\ left' \in [Worker -> SUBSET Node] /\ at' \in [Worker -> Node \cup {NoNode}]
         /\ writer' \in [Key -> SUBSET Node] /\ waiters' \in [Key -> SUBSET Txn]
         /\ n \in Node /\ n.txn \in Txn /\ n.key \in Key
         /\ left' = [left EXCEPT ![w] = @ \ {n}] /\ at' = [at EXCEPT ![w] = NoNode]
         /\ writer' = [writer EXCEPT ![n.key] =
              IF r = COMMITTED /\ IsWrite(n) THEN @ \cup {n} ELSE @]
         /\ waiters' = [waiters EXCEPT ![n.key] =
              IF r \in n.op /\ ~(r = COMMITTED /\ IsWrite(n)) THEN @ \cup {n.txn} ELSE @]
  <1>1. n \in Node /\ n.txn \in Txn /\ n.key \in Key
    BY DEF TypeOK, Node
  <1>2. left' = [left EXCEPT ![w] = @ \ {n}] /\ at' = [at EXCEPT ![w] = NoNode]
    BY DEF Accept
  <1>3. left' \in [Worker -> SUBSET Node] /\ at' \in [Worker -> Node \cup {NoNode}]
    BY <1>2 DEF TypeOK
  <1>4. CASE r = COMMITTED /\ IsWrite(n)
    <2>1. writer' = [writer EXCEPT ![n.key] = @ \cup {n}] /\ waiters' = waiters
      BY <1>4 DEF Accept
    <2> QED BY <1>1, <1>2, <1>3, <1>4, <2>1 DEF TypeOK
  <1>5. CASE ~(r = COMMITTED /\ IsWrite(n))
    <2>1. /\ waiters' = [waiters EXCEPT ![n.key] = IF r \in n.op THEN @ \cup {n.txn} ELSE @]
          /\ writer' = writer
      BY <1>5 DEF Accept
    <2> QED BY <1>1, <1>2, <1>3, <1>5, <2>1 DEF TypeOK
  <1> QED BY <1>4, <1>5

(* What the exchanges leave of the verdicts, for the invariants below.     *)
LEMMA VerdictStep ==
  ASSUME IInv, [Next]_vars
  PROVE  /\ R!Justified' /\ ops' = ops /\ state' \in [Txn -> {INITIAL, COMMITTED, ABORTED}]
         /\ \A t \in Txn : state[t] # INITIAL => state'[t] = state[t]
  BY Simulates, VerdictsStay DEF IInv, TypeOK

(* Types: a verdict is given once, everything else moves between listed    *)
(* nodes.                                                                  *)
LEMMA TypeStep ==
  ASSUME IInv, Next
  PROVE  TypeOK'
  <1> USE DEF TypeOK
  <1>1. TypeOK /\ ops' = ops /\ state' \in [Txn -> {INITIAL, COMMITTED, ABORTED}]
    BY VerdictStep DEF IInv
  <1>2. ASSUME NEW t \in Txn, NEW n \in NodesOf(t), Propose(t, n)
        PROVE  TypeOK'
    <2>1. n \in Node /\ n.key \in Key
      BY <1>1, NodeFacts
    <2> QED BY <1>1, <1>2, <2>1 DEF Propose
  <1>3. CASE Barrier
    BY <1>1, <1>3 DEF Barrier
  <1>4. ASSUME NEW w \in Worker, Work(w)
        PROVE  TypeOK'
    <2>1. ASSUME NEW k \in Key, StartAction(w, k) PROVE TypeOK'
      BY <1>1, <2>1 DEF StartAction
    <2>2. ASSUME NEW n \in left[w], Visit(w, n) PROVE TypeOK'
      <3>1. n \in Node /\ n.txn \in Txn
        BY <1>1 DEF Node
      <3>2. CASE state[n.txn] # INITIAL
        <4>1. Accept(w, n, state[n.txn])
          BY <2>2, <3>2 DEF Visit
        <4>2. /\ left' \in [Worker -> SUBSET Node] /\ at' \in [Worker -> Node \cup {NoNode}]
              /\ writer' \in [Key -> SUBSET Node] /\ waiters' \in [Key -> SUBSET Txn]
          BY <1>1, <4>1, AcceptFacts
        <4> QED BY <1>1, <2>2, <3>2, <4>2 DEF Visit
      <3>3. CASE state[n.txn] = INITIAL
        <4>1. Call(n.txn) \in Frame
          BY <1>1, <3>1, CallFacts
        <4>2. <<Call(n.txn)>> \in Seq(Frame)
          BY <4>1
        <4> QED BY <1>1, <2>2, <3>1, <3>3, <4>2 DEF Visit
      <3> QED BY <3>2, <3>3
    <2>3. ASSUME Running(w), NEW n \in Top(w).todo, Consult(w, n) PROVE TypeOK'
      <3>1. stack' \in [Worker -> Seq(Frame)]
        BY <2>3, ConsultFacts
      <3> QED BY <1>1, <2>3, <3>1 DEF Consult
    <2>4. CASE FinishAction(w)
      BY <1>1, <2>4 DEF FinishAction, IInv, Jobs
    <2>5. CASE Commit(w) \/ Abort(w)
      <3>1. UNCHANGED <<listed, job, started, finished>> /\ barrier'
        BY <2>5, SettleFrame
      <3>2. CASE Len(stack[w]) > 1
        <4>1. PICK s \in Seq(Frame) : stack' = [stack EXCEPT ![w] = s]
          BY <2>5, <3>2, VerdictStep, ReturnToCaller
        <4>2. UNCHANGED <<left, at, writer, waiters>>
          BY <2>5, <3>2, VerdictStep, ReturnToCaller
        <4> QED BY <1>1, <3>1, <4>1, <4>2
      <3>3. CASE ~(Len(stack[w]) > 1)
        <4>1. /\ stack' = [stack EXCEPT ![w] = << >>] /\ at[w] \in left[w]
              /\ Accept(w, at[w], state'[Top(w).txn])
          BY <2>5, <3>3, ReturnToAction
        <4>2. /\ left' \in [Worker -> SUBSET Node] /\ at' \in [Worker -> Node \cup {NoNode}]
              /\ writer' \in [Key -> SUBSET Node] /\ waiters' \in [Key -> SUBSET Txn]
          BY <1>1, <4>1, AcceptFacts
        <4>3. << >> \in Seq(Frame)
          OBVIOUS
        <4> QED BY <1>1, <3>1, <4>1, <4>2, <4>3
      <3> QED BY <3>2, <3>3
    <2> QED BY <1>4, <2>1, <2>2, <2>3, <2>4, <2>5 DEF Work
  <1>5. CASE UNCHANGED vars
    BY <1>1, <1>5 DEF vars
  <1> QED BY <1>2, <1>3, <1>4, <1>5 DEF Next

(* Workers work only after the barrier. *)
LEMMA WorkFacts ==
  ASSUME IInv, NEW w \in Worker, Work(w)
  PROVE  barrier /\ barrier' /\ UNCHANGED <<ops, listed>>
  <1> USE DEF IInv, NotBefore, Jobs
  <1>1. ASSUME NEW k \in Key, StartAction(w, k) PROVE barrier /\ barrier' /\ UNCHANGED <<ops, listed>>
    BY <1>1 DEF StartAction
  <1>2. ASSUME NEW n \in left[w], Visit(w, n) PROVE barrier /\ barrier' /\ UNCHANGED <<ops, listed>>
    BY <1>2 DEF Visit
  <1>3. ASSUME Running(w), NEW n \in Top(w).todo, Consult(w, n)
        PROVE  barrier /\ barrier' /\ UNCHANGED <<ops, listed>>
    BY <1>3 DEF Consult, Running
  <1>4. CASE Commit(w) \/ Abort(w)
    BY <1>4, SettleFrame
  <1>5. CASE FinishAction(w)
    BY <1>5 DEF FinishAction
  <1> QED BY <1>1, <1>2, <1>3, <1>4, <1>5 DEF Work

(* Only Propose lists nodes, and lists them at their own key. *)
LEMMA AnnouncedStep ==
  ASSUME IInv, Next
  PROVE  Announced'
  <1> USE DEF Announced
  <1>1. ops' = ops /\ \A t \in Txn : NodesOf(t)' = NodesOf(t)
    BY VerdictStep DEF NodesOf
  <1>2. ASSUME NEW t \in Txn, NEW n \in NodesOf(t), Propose(t, n)
        PROVE  Announced'
    <2>1. n.txn = t /\ n.key \in Key /\ listed \in [Key -> SUBSET Node]
      BY NodeFacts DEF IInv, TypeOK
    <2>2. ~barrier' /\ listed' = [listed EXCEPT ![n.key] = @ \cup {n}]
      BY <1>2 DEF Propose
    <2>3. ASSUME NEW k \in Key, NEW m \in listed'[k]
          PROVE  m.key = k /\ m \in NodesOf(m.txn)
      <3>1. m \in listed[k] \/ (m = n /\ k = n.key)
        BY <2>1, <2>2
      <3> QED BY <2>1, <3>1 DEF IInv
    <2> QED BY <1>1, <2>2, <2>3 DEF NodesOf
  <1>3. CASE Barrier
    BY <1>1, <1>3 DEF Barrier, IInv, NodesOf
  <1>4. ASSUME NEW w \in Worker, Work(w)
        PROVE  Announced'
    BY <1>1, <1>4, WorkFacts DEF IInv, NodesOf
  <1>5. CASE UNCHANGED vars
    BY <1>5 DEF vars, IInv, NodesOf
  <1> QED BY <1>2, <1>3, <1>4, <1>5 DEF Next

(* Nothing of the second phase begins before the barrier. *)
LEMMA NotBeforeStep ==
  ASSUME IInv, Next
  PROVE  NotBefore'
  <1> USE DEF NotBefore
  <1>1. ASSUME NEW t \in Txn, NEW n \in NodesOf(t), Propose(t, n) PROVE NotBefore'
    BY <1>1 DEF Propose, IInv
  <1>2. CASE Barrier
    BY <1>2 DEF Barrier
  <1>3. ASSUME NEW w \in Worker, Work(w) PROVE NotBefore'
    BY <1>3, WorkFacts
  <1>4. CASE UNCHANGED vars
    BY <1>4 DEF vars, IInv
  <1> QED BY <1>1, <1>2, <1>3, <1>4 DEF Next

(* A worker is given the key of a listed node, and loses it with its       *)
(* nodes.                                                                  *)
LEMMA JobsStep ==
  ASSUME IInv, Next
  PROVE  Jobs'
  <1> USE DEF Jobs
  <1>1. TypeOK /\ Jobs
    BY DEF IInv
  <1>2. ASSUME NEW t \in Txn, NEW n \in NodesOf(t), Propose(t, n) PROVE Jobs'
    <2>1. n.key \in Key /\ listed' = [listed EXCEPT ![n.key] = @ \cup {n}]
      BY <1>1, <1>2, NodeFacts DEF Propose
    <2>2. UNCHANGED <<job, left, started, finished>>
      BY <1>2 DEF Propose
    <2>3. \A k \in Key : listed[k] \subseteq listed'[k]
      BY <1>1, <2>1 DEF TypeOK
    <2> QED BY <1>1, <2>2, <2>3 DEF TypeOK
  <1>3. CASE Barrier
    BY <1>1, <1>3 DEF Barrier
  <1>4. ASSUME NEW w \in Worker, NEW k \in Key, StartAction(w, k) PROVE Jobs'
    BY <1>1, <1>4, TransactionAssumption DEF StartAction, TypeOK
  <1>5. ASSUME NEW w \in Worker, FinishAction(w) PROVE Jobs'
    BY <1>1, <1>5, TransactionAssumption DEF FinishAction, TypeOK
  <1>6. ASSUME NEW w \in Worker, UNCHANGED <<job, started, finished, listed>>,
               left' = left \/ \E n : left' = [left EXCEPT ![w] = @ \ {n}]
        PROVE Jobs'
    <2>1. \A v \in Worker : left'[v] \subseteq left[v]
      <3>1. left \in [Worker -> SUBSET Node]
        BY <1>1 DEF TypeOK
      <3>2. ASSUME NEW n, left' = [left EXCEPT ![w] = @ \ {n}] PROVE \A v \in Worker : left'[v] \subseteq left[v]
        BY <3>1, <3>2
      <3> QED BY <1>6, <3>2
    <2>2. \A v \in Worker : left[v] \subseteq IF job[v] = NoKey THEN {} ELSE listed[job[v]]
      BY <1>1
    <2>3. \A v \in Worker : left'[v] \subseteq IF job'[v] = NoKey THEN {} ELSE listed'[job'[v]]
      BY <1>6, <2>1, <2>2
    <2> QED BY <1>1, <1>6, <2>3
  <1>7. ASSUME NEW w \in Worker, Work(w) PROVE Jobs'
    <2>1. ASSUME NEW n \in left[w], Visit(w, n) PROVE Jobs'
      BY <1>6, <2>1 DEF Visit, Accept
    <2>2. ASSUME NEW n \in Top(w).todo, Consult(w, n) PROVE Jobs'
      BY <1>6, <2>2 DEF Consult
    <2>3. CASE Commit(w) \/ Abort(w)
      <3>1. UNCHANGED <<job, started, finished, listed>>
        BY <2>3, SettleFrame
      <3>2. CASE Len(stack[w]) > 1
        BY <1>6, <2>3, <3>1, <3>2, VerdictStep, ReturnToCaller
      <3>3. CASE ~(Len(stack[w]) > 1)
        <4>1. left' = [left EXCEPT ![w] = @ \ {at[w]}]
          BY <2>3, <3>3, ReturnToAction DEF Accept
        <4> QED BY <1>6, <3>1, <4>1
      <3> QED BY <3>2, <3>3
    <2> QED BY <1>4, <1>5, <1>7, <2>1, <2>2, <2>3 DEF Work
  <1>8. CASE UNCHANGED vars
    BY <1>1, <1>8 DEF vars
  <1> QED BY <1>2, <1>3, <1>7, <1>8 DEF Next

(* The bottom activation of a worker stays that of the node it has come    *)
(* to.                                                                     *)
LEMMA CallsStep ==
  ASSUME IInv, Next
  PROVE  Calls'
  <1> USE DEF Calls
  <1>1. TypeOK /\ Calls /\ Jobs
    BY DEF IInv
  <1>2. \A w \in Worker : left[w] \subseteq Node /\ NoNode \notin left[w]
    BY <1>1, TransactionAssumption DEF TypeOK, Node
  <1>3. ASSUME UNCHANGED <<at, stack, left>> PROVE Calls'
    BY <1>1, <1>3
  <1>4. ASSUME NEW w \in Worker, Work(w) PROVE Calls'
    <2>1. ASSUME NEW k \in Key, StartAction(w, k) PROVE Calls'
      <3>1. left[w] = {} /\ stack[w] = << >>
        BY <1>1, <2>1 DEF StartAction, Jobs
      <3>2. \A v \in Worker : v # w => left'[v] = left[v]
        BY <1>1, <2>1 DEF StartAction, TypeOK
      <3> QED BY <1>1, <2>1, <3>1, <3>2 DEF StartAction
    <2>2. ASSUME NEW n \in left[w], Visit(w, n) PROVE Calls'
      <3>1. stack[w] = << >> /\ n \in Node
        BY <1>1, <1>2, <2>2 DEF Visit
      <3>2. CASE state[n.txn] # INITIAL
        <4>1. Accept(w, n, state[n.txn]) /\ stack' = stack
          BY <2>2, <3>2 DEF Visit
        <4>2. left' = [left EXCEPT ![w] = @ \ {n}] /\ at' = [at EXCEPT ![w] = NoNode]
          BY <4>1 DEF Accept
        <4> QED BY <1>1, <3>1, <4>1, <4>2 DEF TypeOK
      <3>3. CASE state[n.txn] = INITIAL
        <4>1. /\ at' = [at EXCEPT ![w] = n] /\ left' = left
              /\ stack' = [stack EXCEPT ![w] = <<Call(n.txn)>>]
          BY <2>2, <3>3 DEF Visit
        <4>2. <<Call(n.txn)>> # << >> /\ <<Call(n.txn)>>[1].txn = n.txn
          BY DEF Call
        <4> QED BY <1>1, <4>1, <4>2 DEF TypeOK
      <3> QED BY <3>2, <3>3
    <2>3. ASSUME Running(w), NEW n \in Top(w).todo, Consult(w, n) PROVE Calls'
      <3> DEFINE d == Len(stack[w])
      <3>1. UNCHANGED <<at, left>>
        BY <2>3 DEF Consult
      <3>2. \A v \in Worker : v # w => stack'[v] = stack[v]
        BY <2>3, ConsultFacts
      <3>3. /\ stack'[w] \in Seq(Frame) /\ Len(stack'[w]) \in {d, d + 1} /\ d \in Nat \ {0}
            /\ stack'[w][d].txn = Top(w).txn /\ \A i \in 1 .. d - 1 : stack'[w][i] = stack[w][i]
        BY <2>3, ConsultFacts
      <3>4. stack'[w] # << >>
        BY <3>3
      <3>5. stack'[w][1].txn = stack[w][1].txn
        <4>1. CASE d = 1
          BY <3>3, <4>1 DEF Top
        <4>2. CASE d # 1
          <5>1. \A e \in Nat \ {0} : e # 1 => 1 \in 1 .. e - 1
            OBVIOUS
          <5>2. 1 \in 1 .. d - 1
            BY <3>3, <4>2, <5>1
          <5> QED BY <3>3, <5>2
        <4> QED BY <4>1, <4>2
      <3>6. stack[w] # << >>
        BY <2>3 DEF Running
      <3> QED BY <1>1, <3>1, <3>2, <3>4, <3>5, <3>6
    <2>4. CASE Commit(w) \/ Abort(w)
      <3>1. CASE Len(stack[w]) > 1
        <4> DEFINE d == Len(stack[w])
        <4>1. PICK g \in Frame, s \in Seq(Frame) :
                /\ stack' = [stack EXCEPT ![w] = s]
                /\ Len(s) = d - 1 /\ \A i \in 1 .. d - 2 : s[i] = stack[w][i]
                /\ s[d - 1] = g /\ g.txn = stack[w][d - 1].txn
          BY <2>4, <3>1, VerdictStep, ReturnToCaller
        <4>2. UNCHANGED <<left, at>> /\ d \in Nat \ {0} /\ d > 1
          BY <2>4, <3>1, VerdictStep, ReturnToCaller, SettleFrame
        <4>3. s # << >>
          BY <4>1, <4>2
        <4>4. s[1].txn = stack[w][1].txn
          <5>1. CASE d = 2
            BY <4>1, <5>1
          <5>2. CASE d # 2
            <6>1. \A e \in Nat \ {0} : e > 1 /\ e # 2 => 1 \in 1 .. e - 2
              OBVIOUS
            <6>2. 1 \in 1 .. d - 2
              BY <4>2, <5>2, <6>1
            <6> QED BY <4>1, <6>2
          <5> QED BY <5>1, <5>2
        <4>5. stack[w] # << >>
          BY <2>4 DEF Commit, Abort, Running
        <4>6. stack'[w] = s /\ \A v \in Worker : v # w => stack'[v] = stack[v]
          BY <1>1, <4>1 DEF TypeOK
        <4> QED BY <1>1, <4>2, <4>3, <4>4, <4>5, <4>6
      <3>2. CASE ~(Len(stack[w]) > 1)
        <4>1. stack' = [stack EXCEPT ![w] = << >>] /\ Accept(w, at[w], state'[Top(w).txn])
          BY <2>4, <3>2, ReturnToAction
        <4>2. left' = [left EXCEPT ![w] = @ \ {at[w]}] /\ at' = [at EXCEPT ![w] = NoNode]
          BY <4>1 DEF Accept
        <4> QED BY <1>1, <4>1, <4>2 DEF TypeOK
      <3> QED BY <3>1, <3>2
    <2>5. CASE FinishAction(w)
      BY <1>3, <2>5 DEF FinishAction
    <2> QED BY <1>4, <2>1, <2>2, <2>3, <2>4, <2>5 DEF Work
  <1> QED BY <1>3, <1>4 DEF Next, Propose, Barrier, vars

(* An activation that knows what it knows after a step.                    *)
LEMMA CrossedBy ==
  ASSUME NEW w \in Worker, NEW i, NEW e, Crossed(e)', stack'[w][i] = e
  PROVE  Crossed(stack[w][i])'
  BY DEF Crossed, Rivals, NodesOf

(* A worker's stack that a step leaves alone keeps its knowledge.          *)
LEMMA OtherStacks ==
  ASSUME IInv, NEW v \in Worker, stack'[v] = stack[v],
         \A e \in Frame : Crossed(e) => Crossed(e)'
  PROVE  \A i \in 1 .. Len(stack'[v]) : Crossed(stack[v][i])' /\ Called(stack'[v], i)
  <1> SUFFICES ASSUME NEW i \in 1 .. Len(stack'[v])
               PROVE  Crossed(stack[v][i])' /\ Called(stack'[v], i)
    OBVIOUS
  <1>1. i \in 1 .. Len(stack[v]) /\ stack[v] \in Seq(Frame)
    BY DEF IInv, TypeOK
  <1>2. PICK e \in Frame : e = stack[v][i]
    BY <1>1
  <1>3. Crossed(e) /\ Called(stack[v], i)
    BY <1>1, <1>2 DEF IInv, Activations
  <1>4. stack'[v][i] = e /\ Crossed(e)'
    BY <1>2, <1>3
  <1>5. Crossed(stack[v][i])'
    BY <1>4, CrossedBy
  <1>6. Called(stack'[v], i)
    BY <1>3 DEF Called
  <1> QED BY <1>5, <1>6

(* A rival crossed out has been found aborted and stays so, for a verdict  *)
(* is final.                                                               *)
LEMMA ActivationsStep ==
  ASSUME IInv, Next
  PROVE  Activations'
  <1>1. TypeOK /\ stack \in [Worker -> Seq(Frame)] /\ \A t \in Txn : state[t] # INITIAL => state'[t] = state[t]
    BY VerdictStep DEF IInv, TypeOK
  <1>2. ASSUME ~barrier, stack' = stack PROVE Activations'
    <2>1. \A w \in Worker : stack'[w] = << >>
      BY <1>2 DEF IInv, NotBefore
    <2>2. \A w \in Worker : Len(stack'[w]) = 0
      BY <2>1
    <2>3. \A w \in Worker : 1 .. Len(stack'[w]) = {}
      BY <2>2
    <2> QED BY <2>3 DEF Activations
  <1>3. ASSUME UNCHANGED <<ops, listed>> PROVE \A e \in Frame : Crossed(e) => Crossed(e)'
    BY <1>1, <1>3, CrossedStays
  <1>4. ASSUME UNCHANGED <<ops, listed, stack>> PROVE Activations'
    <2>1. \A v \in Worker : \A i \in 1 .. Len(stack'[v]) : Crossed(stack[v][i])' /\ Called(stack'[v], i)
      BY <1>3, <1>4, OtherStacks
    <2> QED BY <2>1 DEF Activations
  <1>5. ASSUME NEW w \in Worker, Work(w) PROVE Activations'
    <2>1. \A e \in Frame : Crossed(e) => Crossed(e)'
      BY <1>3, <1>5, WorkFacts
    <2>2. ASSUME NEW s \in Seq(Frame), stack' = [stack EXCEPT ![w] = s],
                 \A i \in 1 .. Len(s) : Crossed(s[i])' /\ Called(s, i)
          PROVE  Activations'
      <3>1. \A v \in Worker : v # w => stack'[v] = stack[v]
        BY <2>2
      <3>2. ASSUME NEW v \in Worker, NEW i \in 1 .. Len(stack'[v])
            PROVE  Crossed(stack[v][i])' /\ Called(stack'[v], i)
        <4>1. CASE v # w
          BY <2>1, <3>1, <3>2, <4>1, OtherStacks
        <4>2. CASE v = w
          <5>1. stack'[v] = s
            BY <1>1, <2>2, <4>2
          <5>2. PICK e : e = s[i]
            OBVIOUS
          <5>3. i \in 1 .. Len(s) /\ stack'[v][i] = e
            BY <3>2, <5>1, <5>2
          <5>4. Crossed(s[i])' /\ Called(s, i)
            BY <2>2, <5>3
          <5>5. Crossed(e)'
            BY <5>2, <5>4
          <5> QED BY <5>1, <5>3, <5>4, <5>5, CrossedBy
        <4> QED BY <4>1, <4>2
      <3> QED BY <3>2 DEF Activations
    <2>3. ASSUME NEW k \in Key, StartAction(w, k) PROVE Activations'
      BY <1>4, <2>3 DEF StartAction
    <2>4. ASSUME NEW n \in left[w], Visit(w, n) PROVE Activations'
      <3>1. UNCHANGED <<ops, listed>> /\ n.txn \in Txn
        BY <1>1, <2>4 DEF Visit, TypeOK, Node
      <3>2. CASE state[n.txn] # INITIAL
        BY <1>4, <2>4, <3>1, <3>2 DEF Visit
      <3>3. CASE state[n.txn] = INITIAL
        <4>1. PICK c \in Frame : c = Call(n.txn) /\ Crossed(c)
          BY <1>1, <3>1, CallFacts
        <4>2. stack' = [stack EXCEPT ![w] = <<c>>] /\ Crossed(c)'
          BY <2>1, <2>4, <3>3, <4>1 DEF Visit
        <4>3. <<c>> \in Seq(Frame) /\ Len(<<c>>) = 1 /\ <<c>>[1] = c
          OBVIOUS
        <4>4. \A i \in 1 .. Len(<<c>>) : Crossed(<<c>>[i])' /\ Called(<<c>>, i)
          BY <4>2, <4>3 DEF Called
        <4> QED BY <2>2, <4>2, <4>3, <4>4
      <3> QED BY <3>2, <3>3
    <2>5. ASSUME Running(w), NEW n \in Top(w).todo, Consult(w, n) PROVE Activations'
      <3> DEFINE d == Len(stack[w])
      <3>1. PICK s \in Seq(Frame) : stack' = [stack EXCEPT ![w] = s] /\ s = stack'[w]
        <4>1. /\ stack' \in [Worker -> Seq(Frame)]
              /\ \A v \in Worker : v # w => stack'[v] = stack[v]
          BY <2>5, ConsultFacts
        <4> QED BY <1>1, <4>1
      <3>2. /\ d \in Nat \ {0} /\ n \in Node /\ \A i \in 1 .. d - 1 : s[i] = stack[w][i]
            /\ s[d].txn = Top(w).txn /\ Crossed(s[d])
            /\ \/ Len(s) = d
               \/ /\ Len(s) = d + 1 /\ s[d + 1] = Call(n.txn)
                  /\ ~s[d].doomed /\ s[d].call = n /\ n \in s[d].todo
        BY <2>5, <3>1, ConsultFacts
      <3>3. \A i \in 1 .. Len(s) : s[i] \in Frame
        OBVIOUS
      <3>4. Crossed(Call(n.txn)) /\ Call(n.txn).txn = n.txn
        BY <1>1, <3>2, CallFacts DEF Node
      <3>5. Len(s) \in Nat /\ stack[w][d].txn = Top(w).txn
        BY DEF Top
      <3> HIDE DEF d
      <3>6. ASSUME NEW i \in 1 .. Len(s) PROVE Crossed(s[i])' /\ Called(s, i)
        <4>1. CASE i < d
          <5>1. i \in 1 .. d - 1 /\ i \in 1 .. d
            BY <3>2, <4>1
          <5>2. s[i] = stack[w][i] /\ Crossed(stack[w][i]) /\ Called(stack[w], i)
            BY <3>2, <5>1 DEF IInv, Activations, d
          <5>3. s[i + 1].txn = stack[w][i + 1].txn
            <6>1. CASE i + 1 < d
              BY <3>2, <5>1, <6>1
            <6>2. CASE i + 1 = d
              BY <3>2, <3>5, <6>2
            <6> QED BY <3>2, <4>1, <5>1, <6>1, <6>2
          <5>4. Called(s, i)
            BY <4>1, <5>2, <5>3 DEF Called, d
          <5>5. PICK e \in Frame : e = s[i] /\ Crossed(e)
            BY <3>3, <5>2
          <5> QED BY <2>1, <5>4, <5>5
        <4>2. CASE i = d
          <5>1. PICK e \in Frame : e = s[i] /\ Crossed(e)
            BY <3>2, <3>3, <4>2
          <5>2. Called(s, i)
            BY <3>2, <3>4, <4>2 DEF Called
          <5> QED BY <2>1, <5>1, <5>2
        <4>3. CASE i = d + 1
          <5>1. Len(s) = d + 1 /\ s[i] = Call(n.txn)
            BY <3>2, <4>3
          <5>2. PICK e \in Frame : e = s[i] /\ Crossed(e)
            BY <3>3, <3>4, <5>1
          <5>3. Called(s, i)
            BY <3>2, <4>3, <5>1 DEF Called
          <5> QED BY <2>1, <5>2, <5>3
        <4> QED BY <3>2, <3>5, <4>1, <4>2, <4>3
      <3> QED BY <2>2, <3>1, <3>6
    <2>6. CASE Commit(w) \/ Abort(w)
      <3>1. CASE Len(stack[w]) > 1
        <4> DEFINE d == Len(stack[w])
        <4>1. PICK g \in Frame, s \in Seq(Frame) :
                /\ stack' = [stack EXCEPT ![w] = s]
                /\ Len(s) = d - 1 /\ \A i \in 1 .. d - 2 : s[i] = stack[w][i]
                /\ s[d - 1] = g /\ Crossed(g)' /\ g.txn = stack[w][d - 1].txn
          BY <1>1, <2>6, <3>1, ReturnToCaller
        <4>2. d \in Nat \ {0} /\ d > 1
          BY <2>6, <3>1, SettleFrame
        <4>3. \A i \in 1 .. Len(s) : s[i] \in Frame
          OBVIOUS
        <4>4. \A i \in 1 .. d : Crossed(stack[w][i]) /\ Called(stack[w], i)
          BY DEF IInv, Activations
        <4>5. \A i \in 1 .. d : i < d => 
                ~stack[w][i].doomed /\ stack[w][i].call \in stack[w][i].todo
                /\ stack[w][i + 1].txn = stack[w][i].call.txn
          BY <4>4 DEF Called
        <4> HIDE DEF d
        <4>6. ASSUME NEW i \in 1 .. Len(s) PROVE Crossed(s[i])' /\ Called(s, i)
          <5>1. i \in 1 .. d - 1
            BY <4>1, <4>2
          <5>2. CASE i = d - 1
            <6>1. Called(s, i)
              BY <4>1, <4>2, <5>2 DEF Called
            <6>2. s[i] = g
              BY <4>1, <5>2
            <6> QED BY <4>1, <6>1, <6>2
          <5>3. CASE i # d - 1
            <6>1. i \in 1 .. d - 2 /\ i \in 1 .. d /\ i < d /\ (i + 1 \in 1 .. d - 2 \/ i + 1 = d - 1)
              BY <4>2, <5>1, <5>3
            <6>2. s[i] = stack[w][i] /\ s[i + 1].txn = stack[w][i + 1].txn
              BY <4>1, <6>1
            <6>3. Called(s, i)
              BY <4>5, <6>1, <6>2 DEF Called
            <6>4. PICK e \in Frame : e = s[i] /\ Crossed(e)
              BY <4>3, <4>4, <6>1, <6>2
            <6> QED BY <2>1, <6>3, <6>4
          <5> QED BY <5>2, <5>3
        <4> QED BY <2>2, <4>1, <4>6
      <3>2. CASE ~(Len(stack[w]) > 1)
        <4>1. stack' = [stack EXCEPT ![w] = << >>] /\ << >> \in Seq(Frame)
          BY <2>6, <3>2, ReturnToAction
        <4>2. \A i \in 1 .. Len(<< >>) : FALSE
          OBVIOUS
        <4> QED BY <2>2, <4>1, <4>2
      <3> QED BY <3>1, <3>2
    <2>7. CASE FinishAction(w)
      BY <1>4, <2>7 DEF FinishAction
    <2> QED BY <1>5, <2>3, <2>4, <2>5, <2>6, <2>7 DEF Work
  <1> QED BY <1>2, <1>4, <1>5 DEF Next, Propose, Barrier, vars

(* The activation at the top is for a transaction that goes before those of *)
(* all below it, so the one it calls goes before them all.                 *)
LEMMA AscendsStep ==
  ASSUME IInv, Next
  PROVE  RecursionAscends'
  <1> DEFINE Ascends(s) == \A i, j \in 1 .. Len(s) : i < j => Priority[s[j].txn] < Priority[s[i].txn]
  <1>1. TypeOK /\ stack \in [Worker -> Seq(Frame)] /\ \A w \in Worker : Ascends(stack[w])
    BY DEF IInv, TypeOK, RecursionAscends
  <1>2. ASSUME stack' = stack PROVE RecursionAscends'
    BY <1>2 DEF IInv, RecursionAscends
  <1>3. ASSUME NEW w \in Worker, Work(w) PROVE RecursionAscends'
    <2>1. ASSUME NEW s, stack' = [stack EXCEPT ![w] = s], Ascends(s)
          PROVE  RecursionAscends'
      <3>1. \A v \in Worker : stack'[v] = IF v = w THEN s ELSE stack[v]
        BY <1>1, <2>1
      <3>2. \A v \in Worker : Ascends(stack'[v])
        BY <1>1, <2>1, <3>1
      <3> QED BY <3>2 DEF RecursionAscends
    <2>2. ASSUME NEW k \in Key, StartAction(w, k) PROVE RecursionAscends'
      BY <1>2, <2>2 DEF StartAction
    <2>3. ASSUME NEW n \in left[w], Visit(w, n) PROVE RecursionAscends'
      <3>1. CASE stack' = stack
        BY <1>2, <3>1
      <3>2. CASE stack' = [stack EXCEPT ![w] = <<Call(n.txn)>>]
        <4>1. Ascends(<<Call(n.txn)>>)
          OBVIOUS
        <4> QED BY <2>1, <3>2, <4>1
      <3> QED BY <2>3, <3>1, <3>2 DEF Visit
    <2>4. ASSUME Running(w), NEW n \in Top(w).todo, Consult(w, n) PROVE RecursionAscends'
      <3> DEFINE d == Len(stack[w])
      <3>1. PICK s \in Seq(Frame) : stack' = [stack EXCEPT ![w] = s] /\ s = stack'[w]
        <4>1. /\ stack' \in [Worker -> Seq(Frame)]
              /\ \A v \in Worker : v # w => stack'[v] = stack[v]
          BY <2>4, ConsultFacts
        <4> QED BY <1>1, <4>1
      <3>2. /\ d \in Nat \ {0} /\ n \in Node /\ \A i \in 1 .. d - 1 : s[i] = stack[w][i]
            /\ s[d].txn = Top(w).txn
            /\ \/ Len(s) = d
               \/ Len(s) = d + 1 /\ s[d + 1] = Call(n.txn)
        BY <2>4, <3>1, ConsultFacts
      <3>3. Len(s) \in Nat /\ stack[w][d].txn = Top(w).txn /\ Call(n.txn).txn = n.txn
        BY DEF Top, Call
      <3>4. \A i, j \in 1 .. d : i < j => Priority[stack[w][j].txn] < Priority[stack[w][i].txn]
        BY <1>1
      <3>5. Priority[n.txn] < Priority[Top(w).txn]
        <4>1. Crossed(Top(w))
          BY <3>2 DEF IInv, Activations, Top
        <4> QED BY <2>4, <4>1 DEF Crossed, Rivals
      <3>6. \A i \in 1 .. d : Priority[stack[w][i].txn] \in Nat
        <4>1. \A i \in 1 .. d : stack[w][i] \in Frame
          BY <1>1
        <4>2. \A i \in 1 .. d : stack[w][i].txn \in Txn
          BY <4>1 DEF Frame
        <4> QED BY <4>2, TransactionAssumption
      <3>7. Priority[n.txn] \in Nat /\ Priority[Top(w).txn] \in Nat
        BY <3>2, <3>3, <3>6, TransactionAssumption DEF Node
      <3> HIDE DEF d
      <3>8. \A i \in 1 .. d : s[i].txn = stack[w][i].txn
        <4>1. \A i \in 1 .. d : i \in 1 .. d - 1 \/ i = d
          BY <3>2
        <4> QED BY <3>2, <3>3, <4>1
      <3>9. ASSUME NEW i \in 1 .. Len(s), NEW j \in 1 .. Len(s), i < j
            PROVE  Priority[s[j].txn] < Priority[s[i].txn]
        <4>1. CASE j \in 1 .. d
          <5>1. i \in 1 .. d
            BY <3>2, <3>9, <4>1
          <5> QED BY <3>4, <3>8, <3>9, <4>1, <5>1
        <4>2. CASE j = d + 1
          <5>1. i \in 1 .. d /\ s[j].txn = n.txn
            BY <3>2, <3>3, <3>9, <4>2
          <5>2. Priority[Top(w).txn] <= Priority[stack[w][i].txn]
            <6>1. CASE i = d
              BY <3>3, <3>7, <6>1
            <6>2. CASE i # d
              <7>1. d \in 1 .. d /\ i < d
                BY <3>2, <5>1, <6>2
              <7>2. Priority[Top(w).txn] < Priority[stack[w][i].txn]
                BY <3>3, <3>4, <5>1, <7>1
              <7> QED BY <3>6, <3>7, <5>1, <7>2
            <6> QED BY <6>1, <6>2
          <5>3. s[i].txn = stack[w][i].txn /\ Priority[stack[w][i].txn] \in Nat
            BY <3>6, <3>8, <5>1
          <5> QED BY <3>5, <3>7, <5>1, <5>2, <5>3
        <4> QED BY <3>2, <3>3, <4>1, <4>2
      <3>10. Ascends(s)
        BY <3>9
      <3> QED BY <2>1, <3>1, <3>10
    <2>5. CASE Commit(w) \/ Abort(w)
      <3>1. CASE Len(stack[w]) > 1
        <4> DEFINE d == Len(stack[w])
        <4>1. PICK g \in Frame, s \in Seq(Frame) :
                /\ stack' = [stack EXCEPT ![w] = s]
                /\ Len(s) = d - 1 /\ \A i \in 1 .. d - 2 : s[i] = stack[w][i]
                /\ s[d - 1] = g /\ g.txn = stack[w][d - 1].txn
          BY <2>5, <3>1, VerdictStep, ReturnToCaller
        <4>2. d \in Nat \ {0} /\ d > 1
          BY <2>5, <3>1, SettleFrame
        <4>3. \A i, j \in 1 .. d : i < j => Priority[stack[w][j].txn] < Priority[stack[w][i].txn]
          BY <1>1
        <4> HIDE DEF d
        <4>4. \A i \in 1 .. Len(s) : i \in 1 .. d /\ (i \in 1 .. d - 2 \/ i = d - 1)
          BY <4>1, <4>2
        <4>5. \A i \in 1 .. Len(s) : s[i].txn = stack[w][i].txn
          BY <4>1, <4>4
        <4>6. Ascends(s)
          BY <4>3, <4>4, <4>5
        <4> QED BY <2>1, <4>1, <4>6
      <3>2. CASE ~(Len(stack[w]) > 1)
        <4>1. stack' = [stack EXCEPT ![w] = << >>]
          BY <2>5, <3>2, ReturnToAction
        <4>2. Ascends(<< >>)
          OBVIOUS
        <4> QED BY <2>1, <4>1, <4>2
      <3> QED BY <3>1, <3>2
    <2>6. CASE FinishAction(w)
      BY <1>2, <2>6 DEF FinishAction
    <2> QED BY <1>3, <2>2, <2>3, <2>4, <2>5, <2>6 DEF Work
  <1> QED BY <1>2, <1>3 DEF Next, Propose, Barrier, vars

(* A key whose action has not moved is rebuilt as far as it was. *)
LEMMA RebuiltStays ==
  ASSUME IInv, NEW k \in Key, Visited(k)' = Visited(k), UNCHANGED <<writer, waiters>>,
         \A t \in Txn : state[t] # INITIAL => state'[t] = state[t]
  PROVE  RebuiltAt(k)'
  <1>1. RebuiltAt(k) /\ \A n \in Visited(k) : n.txn \in Txn
    BY ListFacts DEF IInv, Rebuilt, Visited
  <1>2. \A n \in Visited(k) : state[n.txn] # INITIAL /\ state'[n.txn] = state[n.txn]
    BY <1>1 DEF RebuiltAt
  <1>3. /\ \A n \in Visited(k)' : state'[n.txn] # INITIAL
        /\ \A n \in Visited(k)' : IsWaiter(n)' <=> IsWaiter(n)
    BY <1>2 DEF IsWaiter
  <1>4. writer'[k] = {n \in Visited(k)' : IsWrite(n) /\ state'[n.txn] = COMMITTED}
    BY <1>1, <1>2 DEF RebuiltAt
  <1>5. {m \in Visited(k)' : IsWaiter(m)'} = {m \in Visited(k) : IsWaiter(m)}
    BY <1>3
  <1>6. waiters'[k] = {n.txn : n \in {m \in Visited(k)' : IsWaiter(m)'}}
    BY <1>1, <1>5 DEF RebuiltAt
  <1> QED BY <1>3, <1>4, <1>6 DEF RebuiltAt

(* One whose action accepts a node is rebuilt so much further.             *)
LEMMA RebuiltGrows ==
  ASSUME IInv, NEW w \in Worker, job[w] # NoKey, NEW n \in left[w],
         Accept(w, n, state'[n.txn]), state'[n.txn] # INITIAL,
         UNCHANGED <<listed, job, started>>,
         \A t \in Txn : state[t] # INITIAL => state'[t] = state[t]
  PROVE  Rebuilt'
  <1> DEFINE r == state'[n.txn]
  <1>1. TypeOK /\ Jobs /\ job[w] \in Key /\ n \in listed[job[w]]
    BY DEF IInv, TypeOK, Jobs
  <1>2. n.key = job[w] /\ n.txn \in Txn
    BY <1>1, ListFacts DEF IInv
  <1>3. /\ left' = [left EXCEPT ![w] = @ \ {n}]
        /\ writer' = [writer EXCEPT ![n.key] =
             IF r = COMMITTED /\ IsWrite(n) THEN @ \cup {n} ELSE @]
        /\ waiters' = [waiters EXCEPT ![n.key] =
             IF r \in n.op /\ ~(r = COMMITTED /\ IsWrite(n)) THEN @ \cup {n.txn} ELSE @]
    <2>1. TypeOK /\ Accept(w, n, r)
      BY <1>1
    <2> HIDE DEF r
    <2> QED BY ONLY <2>1, AcceptFacts
  <1>4. left'[w] = left[w] \ {n} /\ \A v \in Worker : v # w => left'[v] = left[v]
    <2>1. left' = [left EXCEPT ![w] = @ \ {n}] /\ DOMAIN left = Worker
      BY <1>1, <1>3 DEF TypeOK
    <2> QED BY ONLY <2>1
  <1>5. ASSUME NEW k \in Key PROVE RebuiltAt(k)'
    <2>1. RebuiltAt(k) /\ \A m \in Visited(k) : m.txn \in Txn
      BY ListFacts DEF IInv, Rebuilt, Visited
    <2>2. \A m \in Visited(k) : state[m.txn] # INITIAL /\ state'[m.txn] = state[m.txn]
      BY <2>1 DEF RebuiltAt
    <2>3. CASE k # job[w]
      <3>1. Visited(k)' = Visited(k)
        BY <1>4, <2>3 DEF Visited
      <3>2. writer'[k] = writer[k] /\ waiters'[k] = waiters[k]
        BY <1>1, <1>2, <1>3, <2>3 DEF TypeOK
      <3>3. {m \in Visited(k)' : IsWaiter(m)'} = {m \in Visited(k) : IsWaiter(m)}
        BY <2>2, <3>1 DEF IsWaiter
      <3>4. waiters'[k] = {m.txn : m \in {m \in Visited(k)' : IsWaiter(m)'}}
        BY <2>1, <3>2, <3>3 DEF RebuiltAt
      <3> QED BY <2>1, <2>2, <3>1, <3>2, <3>4 DEF RebuiltAt
    <2>4. CASE k = job[w]
      <3>1. Visited(k)' = Visited(k) \cup {n}
        <4>1. \A v \in Worker : job[v] = k => v = w
          BY <1>1, <2>4 DEF Jobs
        <4>2. k \in started
          BY <1>1, <2>4 DEF Jobs
        <4> QED BY <1>1, <1>4, <2>4, <4>1, <4>2 DEF Visited
      <3>2. writer'[k] = {m \in Visited(k)' : IsWrite(m) /\ state'[m.txn] = COMMITTED}
        <4>1. writer'[k] = IF r = COMMITTED /\ IsWrite(n) THEN writer[k] \cup {n} ELSE writer[k]
          BY <1>1, <1>2, <1>3, <2>4 DEF TypeOK
        <4>2. writer[k] = {m \in Visited(k) : IsWrite(m) /\ state'[m.txn] = COMMITTED}
          BY <2>1, <2>2 DEF RebuiltAt
        <4> QED BY <3>1, <4>1, <4>2
      <3>3. waiters'[k] = {m.txn : m \in {m \in Visited(k)' : IsWaiter(m)'}}
        <4>1. waiters'[k] = IF IsWaiter(n)' THEN waiters[k] \cup {n.txn} ELSE waiters[k]
          BY <1>1, <1>2, <1>3, <2>4 DEF TypeOK, IsWaiter
        <4>2. {m \in Visited(k) : IsWaiter(m)'} = {m \in Visited(k) : IsWaiter(m)}
          BY <2>2 DEF IsWaiter
        <4>3. waiters[k] = {m.txn : m \in {m \in Visited(k) : IsWaiter(m)'}}
          BY <2>1, <4>2 DEF RebuiltAt
        <4>4. {m \in Visited(k)' : IsWaiter(m)'} =
                {m \in Visited(k) : IsWaiter(m)'} \cup (IF IsWaiter(n)' THEN {n} ELSE {})
          BY <3>1
        <4> QED BY <4>1, <4>3, <4>4
      <3>4. \A m \in Visited(k)' : state'[m.txn] # INITIAL
        BY <2>2, <3>1
      <3> QED BY <3>2, <3>3, <3>4 DEF RebuiltAt
    <2> QED BY <2>3, <2>4
  <1> QED BY <1>5 DEF Rebuilt

(* A node is visited in the step that records it, and its verdict never    *)
(* changes after.                                                          *)
LEMMA RebuiltStep ==
  ASSUME IInv, Next
  PROVE  Rebuilt'
  <1>1. TypeOK /\ Jobs /\ \A t \in Txn : state[t] # INITIAL => state'[t] = state[t]
    BY VerdictStep DEF IInv
  <1>2. ASSUME UNCHANGED <<writer, waiters>>, \A k \in Key : Visited(k)' = Visited(k)
        PROVE  Rebuilt'
    BY <1>1, <1>2, RebuiltStays DEF Rebuilt
  <1>3. ASSUME UNCHANGED <<listed, job, left, started, writer, waiters>>
        PROVE  Rebuilt'
    BY <1>2, <1>3 DEF Visited
  <1>4. ASSUME NEW t \in Txn, NEW n \in NodesOf(t), Propose(t, n)
        PROVE  Rebuilt'
    <2>1. started = {} /\ started' = {} /\ UNCHANGED <<writer, waiters>>
      BY <1>4 DEF Propose, IInv, NotBefore
    <2>2. \A k \in Key : Visited(k)' = Visited(k)
      BY <2>1 DEF Visited
    <2> QED BY <1>2, <2>1, <2>2
  <1>5. ASSUME NEW w \in Worker, Work(w)
        PROVE  Rebuilt'
    <2>1. ASSUME NEW k \in Key, StartAction(w, k) PROVE Rebuilt'
      <3>1. /\ job[w] = NoKey /\ k \notin started /\ started' = started \cup {k}
            /\ UNCHANGED <<listed, writer, waiters>>
        BY <2>1 DEF StartAction
      <3>2. /\ job'[w] = k /\ left'[w] = listed[k]
            /\ \A v \in Worker : v # w => job'[v] = job[v] /\ left'[v] = left[v]
        BY <1>1, <2>1 DEF StartAction, TypeOK
      <3>3. ASSUME NEW j \in Key PROVE Visited(j)' = Visited(j)
        <4>1. CASE j = k
          BY <3>1, <3>2, <4>1 DEF Visited
        <4>2. CASE j # k
          BY <3>1, <3>2, <4>2, TransactionAssumption DEF Visited
        <4> QED BY <4>1, <4>2
      <3> QED BY <1>2, <3>1, <3>3
    <2>2. ASSUME NEW n \in left[w], Visit(w, n) PROVE Rebuilt'
      <3>1. UNCHANGED <<listed, job, started, state>> /\ job[w] # NoKey
        BY <2>2 DEF Visit
      <3>2. CASE state[n.txn] # INITIAL
        <4>1. Accept(w, n, state'[n.txn])
          BY <2>2, <3>1, <3>2 DEF Visit
        <4> QED BY <1>1, <3>1, <3>2, <4>1, RebuiltGrows
      <3>3. CASE state[n.txn] = INITIAL
        BY <1>3, <2>2, <3>1, <3>3 DEF Visit
      <3> QED BY <3>2, <3>3
    <2>3. ASSUME NEW n \in Top(w).todo, Consult(w, n) PROVE Rebuilt'
      BY <1>3, <2>3 DEF Consult
    <2>4. CASE Commit(w) \/ Abort(w)
      <3>1. UNCHANGED <<listed, job, started>>
        BY <2>4, SettleFrame
      <3>2. CASE Len(stack[w]) > 1
        <4>1. UNCHANGED <<left, writer, waiters>>
          BY <1>1, <2>4, <3>2, ReturnToCaller
        <4> QED BY <1>3, <3>1, <4>1
      <3>3. CASE ~(Len(stack[w]) > 1)
        <4>1. /\ at[w] \in left[w] /\ at[w].txn = Top(w).txn
              /\ Accept(w, at[w], state'[Top(w).txn])
          BY <2>4, <3>3, ReturnToAction
        <4>2. state'[Top(w).txn] # INITIAL
          BY <2>4, SettleFrame DEF INITIAL, COMMITTED, ABORTED
        <4>3. job[w] # NoKey
          BY <1>1, <4>1 DEF Jobs
        <4> QED BY <1>1, <3>1, <4>1, <4>2, <4>3, RebuiltGrows
      <3> QED BY <3>2, <3>3
    <2>5. CASE FinishAction(w)
      <3>1. job' = [job EXCEPT ![w] = NoKey] /\ left[w] = {} /\ UNCHANGED <<listed, left, started, writer, waiters>>
        BY <2>5 DEF FinishAction
      <3>2. job'[w] = NoKey /\ \A v \in Worker : v # w => job'[v] = job[v]
        BY <1>1, <3>1 DEF TypeOK
      <3>3. \A k \in Key : Visited(k)' = Visited(k)
        BY <3>1, <3>2, TransactionAssumption DEF Visited
      <3> QED BY <1>2, <3>1, <3>3
    <2> QED BY <1>5, <2>1, <2>2, <2>3, <2>4, <2>5 DEF Work
  <1> QED BY <1>3, <1>4, <1>5 DEF Next, Barrier, vars
--------------------------------------------------------------------------------
LEMMA InitFacts ==
  ASSUME Init
  PROVE  IInv
  <1> USE DEF Init
  <1>1. TypeOK
    <2>1. << >> \in Seq(Frame)
      OBVIOUS
    <2>2. [w \in Worker |-> << >>] \in [Worker -> Seq(Frame)]
      BY <2>1
    <2> QED BY <2>2 DEF TypeOK
  <1>2. Announced /\ NotBefore /\ Jobs /\ Calls
    BY DEF Announced, NotBefore, Jobs, Calls
  <1>3. Activations /\ RecursionAscends
    <2>1. \A w \in Worker : stack[w] = << >>
      OBVIOUS
    <2>2. \A w \in Worker : Len(stack[w]) = 0
      BY <2>1
    <2>3. \A w \in Worker : 1 .. Len(stack[w]) = {}
      BY <2>2
    <2> QED BY <2>3 DEF Activations, RecursionAscends
  <1>4. R!Justified
    BY DEF R!Justified, R!COMMITTED, R!ABORTED, INITIAL
  <1>5. ASSUME NEW k \in Key PROVE RebuiltAt(k)
    <2>1. Visited(k) = {}
      BY DEF Visited
    <2> QED BY <2>1 DEF RebuiltAt
  <1> QED BY <1>1, <1>2, <1>3, <1>4, <1>5 DEF IInv, Rebuilt

(* What the workers rely on in every state of a tick. *)
THEOREM Inductive == Spec => []IInv
  <1>1. IInv /\ [Next]_vars => IInv'
    <2>1. ASSUME IInv, Next PROVE IInv'
      BY <2>1, TypeStep, AnnouncedStep, NotBeforeStep, JobsStep, CallsStep, ActivationsStep,
         VerdictStep, AscendsStep, RebuiltStep DEF IInv
    <2>2. ASSUME IInv, UNCHANGED vars PROVE IInv'
      BY <2>2 DEF IInv, vars, TypeOK, Announced, NodesOf, NotBefore, Jobs, Calls, Activations,
         Crossed, Rivals, R!Justified, R!Above, R!Conflict, R!WritesKey, RecursionAscends,
         Rebuilt, RebuiltAt, Visited, IsWaiter
    <2> QED BY <2>1, <2>2
  <1> QED BY InitFacts, <1>1, PTL DEF Spec

(* Every step of a tick, whatever its workers do, is a commit or an abort  *)
(* that the specification allows, or invisible to it: resolve() implements *)
(* the resolution of transaction.hpp.                                      *)
THEOREM ResolutionImplemented == Spec => ResolutionSpec
  <1>1. Init => R!Init
    BY DEF Init, R!Init, INITIAL, R!INITIAL
  <1>2. IInv /\ [Next]_vars => [R!Next]_(R!vars)
    BY Simulates DEF R!vars
  <1> QED BY <1>1, <1>2, Inductive, PTL DEF Spec, ResolutionSpec, R!Spec

(* The resolvers keep to the transactions of the tick, and each calls only  *)
(* towards higher priority, so that none meets itself on its own stack.    *)
THEOREM ResolversSound == Spec => []Sound
  <1>1. IInv => Sound
    BY DEF IInv, Sound
  <1> QED BY <1>1, Inductive, PTL

(* Two transactions that want a key differ in priority, and the later one  *)
(* can have committed only if the earlier one aborted.                     *)
THEOREM WritersExclude == Spec => []Exclusive
  <1>1. ASSUME IInv PROVE Exclusive
    <2>1. SUFFICES ASSUME NEW t \in Txn, NEW u \in Txn, t # u, state[t] = COMMITTED,
                          state[u] = COMMITTED, R!Conflict(t, u)
                   PROVE  FALSE
      BY DEF Exclusive, R!Exclusive, R!COMMITTED, COMMITTED
    <2>2. u \in R!Above(t) \/ t \in R!Above(u)
      <3>1. Priority[t] < Priority[u] \/ Priority[u] < Priority[t]
        BY <2>1, TransactionAssumption
      <3> QED BY <2>1, <3>1 DEF R!Above, R!Conflict
    <2>3. state[u] = ABORTED \/ state[t] = ABORTED
      BY <1>1, <2>1, <2>2 DEF IInv, R!Justified, R!COMMITTED, R!ABORTED, COMMITTED, ABORTED
    <2> QED BY <2>1, <2>3 DEF COMMITTED, ABORTED
  <1> QED BY <1>1, Inductive, PTL

(* The action of a finished key has been at every node proposed for it.    *)
LEMMA FinishedFacts ==
  ASSUME IInv, NEW k \in finished
  PROVE  k \in Key /\ barrier /\ Visited(k) = UNION {{n \in NodesOf(t) : n.key = k} : t \in Txn}
  <1>1. k \in started /\ k \in Key /\ barrier
    BY DEF IInv, TypeOK, NotBefore
  <1>2. \A w \in Worker : job[w] # k
    BY <1>1, TransactionAssumption DEF IInv, Jobs
  <1>3. Visited(k) = listed[k]
    BY <1>1, <1>2 DEF Visited
  <1>4. \A n \in listed[k] : n.txn \in Txn /\ n.key = k /\ n \in NodesOf(n.txn)
    BY <1>1, ListFacts DEF IInv
  <1>5. \A t \in Txn : \A n \in NodesOf(t) : n.key = k => n \in listed[k]
    BY <1>1 DEF IInv, Announced
  <1> QED BY <1>1, <1>3, <1>4, <1>5

(* A transaction that commits is written at every key it writes, one that  *)
(* aborts at none, though each key is rebuilt by a worker of its own.      *)
THEOREM AllOrNothingHolds == Spec => []AllOrNothing
  <1>1. ASSUME IInv PROVE AllOrNothing
    <2> USE <1>1
    <2>1. SUFFICES ASSUME Done, NEW t \in Txn, NEW n \in NodesOf(t), IsWrite(n)
                   PROVE  n \in writer[n.key] <=> state[t] = COMMITTED
      BY DEF AllOrNothing
    <2>2. n.txn = t /\ n.key \in Key /\ n \in listed[n.key]
      BY <2>1, NodeFacts DEF IInv, Announced, Done
    <2>3. n.key \in finished
      BY <2>1, <2>2 DEF Done
    <2>4. n \in Visited(n.key)
      BY <2>2, <2>3, FinishedFacts
    <2> QED BY <2>1, <2>2, <2>4 DEF IInv, Rebuilt, RebuiltAt
  <1> QED BY <1>1, Inductive, PTL

(* A finished key knows those who wait at it, all of them and nobody else. *)
THEOREM WaitersKnown == Spec => []WaitersExact
  <1>1. ASSUME IInv PROVE WaitersExact
    <2> USE <1>1
    <2>1. SUFFICES ASSUME NEW k \in finished
                   PROVE  waiters[k] = {t \in Txn : \E n \in NodesOf(t) :
                            n.key = k /\ state[t] \in n.op
                            /\ ~(state[t] = COMMITTED /\ IsWrite(n))}
      BY DEF WaitersExact
    <2>2. k \in Key /\ Visited(k) = UNION {{n \in NodesOf(t) : n.key = k} : t \in Txn}
      BY FinishedFacts
    <2>3. waiters[k] = {n.txn : n \in {m \in Visited(k) : IsWaiter(m)}}
      BY <2>2 DEF IInv, Rebuilt, RebuiltAt
    <2>4. \A t \in Txn : \A n \in NodesOf(t) : n.txn = t
      BY DEF NodesOf
    <2> QED BY <2>2, <2>3, <2>4 DEF IsWaiter
  <1> QED BY <1>1, Inductive, PTL
--------------------------------------------------------------------------------
(* A set of numbers has a least one: what the library proves of < is all   *)
(* the induction that determinism needs.                                   *)
LEMMA LeastNatural ==
  ASSUME NEW T, T \subseteq Nat, T # {}
  PROVE  \E m \in T : \A n \in T : m <= n
  <1> DEFINE Less == {p \in Nat \X Nat : p[1] < p[2]}
  <1>1. IsWellFoundedOn(Less, Nat)
    BY NatLessThanWellFounded DEF OpToRel
  <1> HIDE DEF Less
  <1>2. PICK m \in T : \A n \in T : ~(<<n, m>> \in Less)
    BY <1>1, WFMin
  <1>3. \A n \in T : ~(n < m)
    BY <1>2 DEF Less
  <1> QED BY <1>3

(* The first transaction, if any, of which something is true.              *)
LEMMA First ==
  ASSUME NEW T, T \subseteq Txn, T # {}
  PROVE  \E t \in T : \A u \in Txn : Priority[u] < Priority[t] => u \notin T
  <1>1. {Priority[t] : t \in T} \subseteq Nat /\ {Priority[t] : t \in T} # {}
    BY TransactionAssumption
  <1>2. PICK m \in {Priority[t] : t \in T} : \A n \in {Priority[t] : t \in T} : m <= n
    BY <1>1, LeastNatural
  <1>3. PICK t \in T : Priority[t] = m
    BY <1>2
  <1>4. \A u \in T : Priority[t] <= Priority[u]
    BY <1>2, <1>3
  <1> QED BY <1>3, <1>4, TransactionAssumption

(* S is the greedy choice among the transactions that go before n.         *)
Before(n) == {t \in Txn : Priority[t] < n}
GreedyBefore(n, S) ==
  S \subseteq Before(n) /\ \A t \in Before(n) : t \in S <=> S \cap R!Above(t) = {}

(* Two greedy choices agree where both are defined: the first transaction  *)
(* on which they do not has the same winners above it in both.             *)
LEMMA GreedyUnique ==
  ASSUME NEW n \in Nat, NEW m \in Nat, NEW S, NEW T, GreedyBefore(n, S), GreedyBefore(m, T)
  PROVE  \A t \in Before(n) \cap Before(m) : t \in S <=> t \in T
  <1> DEFINE D == {t \in Before(n) \cap Before(m) : ~(t \in S <=> t \in T)}
  <1>1. SUFFICES ASSUME D # {} PROVE FALSE
    OBVIOUS
  <1>2. D \subseteq Txn
    BY DEF Before
  <1> HIDE DEF D
  <1>3. PICK t \in D : \A u \in Txn : Priority[u] < Priority[t] => u \notin D
    BY <1>1, <1>2, First
  <1>4. \A u \in R!Above(t) : u \in Before(n) \cap Before(m) /\ u \notin D
    <2>1. t \in Txn /\ Priority[t] < n /\ Priority[t] < m
      BY DEF D, Before
    <2>2. \A u \in R!Above(t) : u \in Txn /\ Priority[u] < Priority[t]
      BY DEF R!Above
    <2> QED BY <1>3, <2>1, <2>2, TransactionAssumption DEF Before
  <1>5. S \cap R!Above(t) = T \cap R!Above(t)
    BY <1>4 DEF D
  <1> QED BY <1>5 DEF D, GreedyBefore

(* A greedy choice extends by one priority. *)
LEMMA GreedyStep ==
  ASSUME NEW n \in Nat, NEW S, GreedyBefore(n, S)
  PROVE  \E T : GreedyBefore(n + 1, T)
  <1> DEFINE T == S \cup {t \in Txn : Priority[t] = n /\ S \cap R!Above(t) = {}}
  <1>1. S \subseteq Before(n)
    BY DEF GreedyBefore
  <1>2. \A t \in Before(n + 1) : t \in Before(n) \/ Priority[t] = n
    BY TransactionAssumption DEF Before
  <1>3. \A t \in Before(n + 1) : T \cap R!Above(t) = S \cap R!Above(t)
    <2>1. ASSUME NEW t \in Before(n + 1), NEW u \in R!Above(t) PROVE Priority[u] # n
      BY TransactionAssumption DEF Before, R!Above
    <2> QED BY <2>1
  <1>4. T \subseteq Before(n + 1)
    BY <1>1, TransactionAssumption DEF Before
  <1>5. ASSUME NEW t \in Before(n + 1) PROVE t \in T <=> T \cap R!Above(t) = {}
    <2>1. CASE t \in Before(n)
      <3>1. Priority[t] # n
        BY <2>1, TransactionAssumption DEF Before
      <3> QED BY <1>3, <1>5, <2>1, <3>1 DEF GreedyBefore
    <2>2. CASE Priority[t] = n
      <3>1. t \notin S /\ t \in Txn
        BY <1>1, <1>5, <2>2, TransactionAssumption DEF Before
      <3> QED BY <1>3, <1>5, <2>2, <3>1
    <2> QED BY <1>2, <1>5, <2>1, <2>2
  <1>6. GreedyBefore(n + 1, T)
    BY <1>4, <1>5 DEF GreedyBefore
  <1> QED BY <1>6

(* There is a greedy choice among the transactions below any priority. *)
LEMMA GreedyBounded ==
  ASSUME NEW n \in Nat
  PROVE  \E S : GreedyBefore(n, S)
  <1> DEFINE D == {m \in Nat : ~\E S : GreedyBefore(m, S)}
  <1>1. SUFFICES ASSUME D # {} PROVE FALSE
    OBVIOUS
  <1>2. D \subseteq Nat
    OBVIOUS
  <1> HIDE DEF D
  <1>3. PICK m \in D : \A k \in D : m <= k
    BY <1>1, <1>2, LeastNatural
  <1>4. CASE m = 0
    <2>1. Before(0) = {}
      BY TransactionAssumption DEF Before
    <2>2. GreedyBefore(0, {})
      BY <2>1 DEF GreedyBefore
    <2> QED BY <1>4, <2>2 DEF D
  <1>5. CASE m # 0
    <2>1. m - 1 \in Nat /\ m - 1 + 1 = m /\ ~(m <= m - 1)
      BY <1>2, <1>5
    <2>2. m - 1 \notin D
      BY <1>3, <2>1
    <2>3. PICK S : GreedyBefore(m - 1, S)
      BY <2>1, <2>2 DEF D
    <2>4. \E T : GreedyBefore(m - 1 + 1, T)
      BY <2>1, <2>3, GreedyStep
    <2> QED BY <2>1, <2>4 DEF D
  <1> QED BY <1>4, <1>5

(* There is a greedy choice, however many transactions there are.          *)
LEMMA GreedyExists == IsGreedy(Greedy)
  <1> DEFINE G == {t \in Txn : \E S : GreedyBefore(Priority[t] + 1, S) /\ t \in S}
  <1>1. ASSUME NEW t \in Txn PROVE t \in G <=> G \cap R!Above(t) = {}
    <2>1. Priority[t] \in Nat /\ Priority[t] + 1 \in Nat
      BY TransactionAssumption
    <2>2. PICK S : GreedyBefore(Priority[t] + 1, S)
      BY <2>1, GreedyBounded
    <2>3. ASSUME NEW u \in Txn, Priority[u] <= Priority[t] PROVE u \in G <=> u \in S
      <3>1. Priority[u] + 1 \in Nat /\ u \in Before(Priority[u] + 1) /\ u \in Before(Priority[t] + 1)
        BY <2>1, <2>3, TransactionAssumption DEF Before
      <3>2. ASSUME NEW T, GreedyBefore(Priority[u] + 1, T) PROVE u \in T <=> u \in S
        BY <2>1, <2>2, <3>1, <3>2, GreedyUnique
      <3>3. \E T : GreedyBefore(Priority[u] + 1, T)
        BY <3>1, GreedyBounded
      <3> QED BY <3>2, <3>3
    <2>4. \A u \in R!Above(t) : u \in Txn /\ Priority[u] <= Priority[t]
      BY TransactionAssumption DEF R!Above
    <2>5. G \cap R!Above(t) = S \cap R!Above(t)
      BY <2>3, <2>4
    <2>6. t \in G <=> t \in S
      BY <2>1, <2>3
    <2>7. t \in Before(Priority[t] + 1)
      BY <2>1 DEF Before
    <2> QED BY <2>2, <2>5, <2>6, <2>7 DEF GreedyBefore
  <1>2. G \in SUBSET Txn /\ IsGreedy(G)
    BY <1>1 DEF IsGreedy
  <1> QED BY <1>2 DEF Greedy

(* Whatever the schedule, the verdicts are those of taking the proposals in *)
(* the order of their priorities: the first transaction of which that were *)
(* not true would have been judged by those before it, of which it is.     *)
THEOREM OutcomeDetermined == Spec => []Deterministic
  <1>1. ASSUME IInv PROVE Deterministic
    <2> USE <1>1
    <2> DEFINE D == {t \in Txn : state[t] # INITIAL /\ ~(state[t] = COMMITTED <=> t \in Greedy)}
    <2>1. SUFFICES ASSUME D # {} PROVE FALSE
      BY DEF Deterministic
    <2>2. D \subseteq Txn
      OBVIOUS
    <2> HIDE DEF D
    <2>3. PICK t \in D : \A u \in Txn : Priority[u] < Priority[t] => u \notin D
      BY <2>1, <2>2, First
    <2>4. t \in Txn /\ state[t] \in {COMMITTED, ABORTED} /\ ~(state[t] = COMMITTED <=> t \in Greedy)
      BY <2>2 DEF D, IInv, TypeOK
    <2>5. \A u \in R!Above(t) : u \in Txn /\ u \notin D
      BY <2>3 DEF R!Above
    <2>6. /\ state[t] = COMMITTED => \A u \in R!Above(t) : state[u] = ABORTED
          /\ state[t] = ABORTED => \E u \in R!Above(t) : state[u] = COMMITTED
      BY <2>4 DEF IInv, R!Justified, R!COMMITTED, R!ABORTED, COMMITTED, ABORTED
    <2>7. t \in Greedy <=> Greedy \cap R!Above(t) = {}
      BY <2>4, GreedyExists DEF IsGreedy
    <2>8. CASE state[t] = COMMITTED
      <3>1. \A u \in R!Above(t) : u \notin Greedy
        BY <2>5, <2>6, <2>8 DEF D, INITIAL, COMMITTED, ABORTED
      <3> QED BY <2>4, <2>7, <2>8, <3>1
    <2>9. CASE state[t] = ABORTED
      <3>1. \E u \in R!Above(t) : u \in Greedy
        BY <2>5, <2>6, <2>9 DEF D, INITIAL, COMMITTED, ABORTED
      <3> QED BY <2>4, <2>7, <2>9, <3>1 DEF COMMITTED, ABORTED
    <2> QED BY <2>4, <2>8, <2>9
  <1> QED BY <1>1, Inductive, PTL

--------------------------------------------------------------------------------
(* The list of one key at the level of its pointers, for any number of     *)
(* announcements at once.  The invariant is that the pointers are a chain  *)
(* of the announced nodes, and that whoever is about to exchange the head  *)
(* has seen one.                                                           *)
CONSTANTS Announcer, Absent, Null
VARIABLES head, next, pc

L == INSTANCE TransactionList WITH Node <- Announcer

------------------------------------------------------------------------------
(* The list of a key, from the head to the end.                            *)
Chain(s) ==
  /\ s \in Seq(Announcer)
  /\ \A i, j \in 1 .. Len(s) : s[i] = s[j] => i = j
  /\ \A n \in Announcer : pc[n] = "linked" <=> \E i \in 1 .. Len(s) : s[i] = n
  /\ head = IF s = << >> THEN Absent ELSE s[1]
  /\ \A i \in 1 .. Len(s) : next[s[i]] = IF i = Len(s) THEN Null ELSE s[i + 1]

(* The inductive invariant of the list. *)
LInv ==
  /\ L!TypeOK
  /\ \A n \in Announcer : pc[n] = "new" => next[n] = Null
  /\ \A n \in Announcer : pc[n] \in {"found", "exchange"} => head # Absent
  /\ \E s : Chain(s)

(* What the code says of the constants: an address is neither null nor a   *)
(* missing entry, and finitely many transactions are announced in one step *)
(* of the world.                                                           *)
Nodes == Absent \notin Announcer /\ Null \notin Announcer /\ IsFiniteSet(Announcer)

(* An empty map is an empty chain. *)
LEMMA LInvInit == ASSUME Nodes, L!Init PROVE LInv
  <1>1. Chain(<< >>)
    BY DEF Chain, L!Init
  <1> QED BY <1>1 DEF LInv, L!Init, L!TypeOK

(* A node is put before the others.                                        *)
LEMMA Prepend ==
  ASSUME Nodes, L!TypeOK, NEW s, Chain(s), NEW n \in Announcer, pc[n] # "linked",
         next[n] = IF s = << >> THEN Null ELSE s[1],
         head' = n, pc' = [pc EXCEPT ![n] = "linked"], next' = next
  PROVE  Chain(<<n>> \o s)'
  <1> DEFINE t == <<n>> \o s
  <1>1. s \in Seq(Announcer)
    BY DEF Chain
  <1>2. t \in Seq(Announcer) /\ Len(t) = Len(s) + 1 /\ t # << >> /\ t[1] = n
        /\ \A i \in 1 .. Len(s) : t[i + 1] = s[i]
    BY <1>1
  <1>3. \A i \in 1 .. Len(t) : i = 1 \/ (i - 1 \in 1 .. Len(s) /\ t[i] = s[i - 1])
    BY <1>1, <1>2
  <1>4. \A i \in 1 .. Len(s) : s[i] \in Announcer /\ s[i] # n
    BY <1>1 DEF Chain
  <1> HIDE DEF t
  <1>5. \A i, j \in 1 .. Len(t) : t[i] = t[j] => i = j
    <2> TAKE i, j \in 1 .. Len(t)
    <2> HAVE t[i] = t[j]
    <2>1. CASE i = 1 \/ j = 1
      BY <1>2, <1>3, <1>4, <2>1
    <2>2. CASE i # 1 /\ j # 1
      <3>1. s[i - 1] = s[j - 1] /\ i - 1 \in 1 .. Len(s) /\ j - 1 \in 1 .. Len(s)
        BY <1>3, <2>2
      <3>2. i - 1 = j - 1
        BY <3>1 DEF Chain
      <3> QED BY <3>2
    <2> QED BY <2>1, <2>2
  <1>6. ASSUME NEW m \in Announcer PROVE pc'[m] = "linked" <=> \E i \in 1 .. Len(t) : t[i] = m
    <2>1. (\E i \in 1 .. Len(t) : t[i] = m) <=> m = n \/ \E i \in 1 .. Len(s) : s[i] = m
      <3>1. 1 \in 1 .. Len(t) /\ \A i \in 1 .. Len(s) : i + 1 \in 1 .. Len(t)
        BY <1>1, <1>2
      <3> QED BY <1>2, <1>3, <3>1
    <2>2. pc'[m] = "linked" <=> m = n \/ pc[m] = "linked"
      BY DEF L!TypeOK
    <2> QED BY <2>1, <2>2 DEF Chain
  <1>7. ASSUME NEW i \in 1 .. Len(t) PROVE next[t[i]] = IF i = Len(t) THEN Null ELSE t[i + 1]
    <2>1. CASE i = 1
      <3>1. CASE s = << >>
        BY <1>2, <2>1, <3>1
      <3>2. CASE s # << >>
        <4>1. Len(s) \in Nat /\ Len(s) # 0 /\ 1 \in 1 .. Len(s)
          BY <1>1, <3>2
        <4>2. i # Len(t) /\ t[i + 1] = s[1]
          BY <1>2, <2>1, <4>1
        <4> QED BY <1>2, <2>1, <3>2, <4>2
      <3> QED BY <3>1, <3>2
    <2>2. CASE i # 1
      <3>1. i - 1 \in 1 .. Len(s) /\ t[i] = s[i - 1]
        BY <1>3, <2>2
      <3>2. next[s[i - 1]] = IF i - 1 = Len(s) THEN Null ELSE s[(i - 1) + 1]
        BY <3>1 DEF Chain
      <3>3. i = Len(t) <=> i - 1 = Len(s)
        BY <1>1, <1>2
      <3>4. i # Len(t) => i \in 1 .. Len(s) /\ t[i + 1] = s[i]
        BY <1>1, <1>2, <3>1
      <3>5. (i - 1) + 1 = i
        OBVIOUS
      <3> QED BY <3>1, <3>2, <3>3, <3>4, <3>5
    <2> QED BY <2>1, <2>2
  <1> QED BY <1>2, <1>5, <1>6, <1>7 DEF Chain, t

(* A node is linked only in front of the head it has seen, or as the head  *)
(* itself where there was none; every other step leaves the chain as it    *)
(* is.                                                                     *)
LEMMA LInvStep == ASSUME Nodes, LInv, L!Next \/ UNCHANGED L!vars PROVE LInv'
  <1> USE DEF Nodes
  <1>1. PICK s : Chain(s)
    BY DEF LInv
  <1>2. s \in Seq(Announcer) /\ (s # << >> => 1 \in 1 .. Len(s) /\ s[1] \in Announcer)
    BY <1>1 DEF Chain
  <1>3. \A n \in Announcer : pc[n] \in {"found", "exchange"} => head \in Announcer /\ s # << >>
    BY <1>1, <1>2 DEF LInv, Chain
  <1>4. ASSUME NEW n \in Announcer, L!Emplace(n) PROVE LInv'
    <2>1. CASE head = Absent
      <3>1. s = << >> /\ next[n] = Null
        BY <1>1, <1>2, <1>4, <2>1 DEF Chain, L!Emplace, LInv
      <3>2. Chain(<<n>> \o s)'
        BY <1>1, <1>4, <2>1, <3>1, Prepend DEF LInv, L!Emplace
      <3> QED BY <1>4, <2>1, <3>2 DEF LInv, L!Emplace, L!TypeOK
    <2>2. CASE head # Absent
      <3>1. Chain(s)'
        BY <1>1, <1>4, <2>2 DEF LInv, Chain, L!Emplace, L!TypeOK
      <3> QED BY <1>4, <2>2, <3>1 DEF LInv, L!Emplace, L!TypeOK
    <2> QED BY <2>1, <2>2
  <1>5. ASSUME NEW n \in Announcer, L!Load(n) \/ L!Retry(n) PROVE LInv'
    <2>1. pc[n] # "linked" /\ head' = head /\ next' = [next EXCEPT ![n] = head] /\ head \in Announcer
      BY <1>3, <1>5 DEF L!Load, L!Retry
    <2>2. \A m \in Announcer : (pc'[m] = "linked" <=> pc[m] = "linked") /\ (pc'[m] = "new" => pc[m] = "new" /\ m # n)
      BY <1>5 DEF L!Load, L!Retry, LInv, L!TypeOK
    <2>3. \A i \in 1 .. Len(s) : s[i] \in Announcer /\ s[i] # n
      BY <1>1, <1>2, <2>1 DEF Chain
    <2>4. \A i \in 1 .. Len(s) : next'[s[i]] = next[s[i]]
      BY <2>1, <2>3 DEF LInv, L!TypeOK
    <2>5. Chain(s)'
      BY <1>1, <2>1, <2>2, <2>4 DEF Chain
    <2>6. L!TypeOK'
      BY <1>5, <2>1 DEF L!Load, L!Retry, LInv, L!TypeOK
    <2>7. \A m \in Announcer : pc'[m] = "new" => next'[m] = Null
      BY <2>1, <2>2 DEF LInv, L!TypeOK
    <2> QED BY <2>1, <2>5, <2>6, <2>7 DEF LInv
  <1>6. ASSUME NEW n \in Announcer, L!Link(n) PROVE LInv'
    <2>1. pc[n] = "exchange" /\ head = next[n] /\ head' = n /\ next' = next
          /\ pc' = [pc EXCEPT ![n] = "linked"]
      BY <1>6 DEF L!Link
    <2>2. s # << >> /\ next[n] = s[1]
      BY <1>1, <1>3, <2>1 DEF Chain
    <2>3. Chain(<<n>> \o s)'
      BY <1>1, <2>1, <2>2, Prepend DEF LInv
    <2> QED BY <2>1, <2>3 DEF LInv, L!TypeOK
  <1>7. ASSUME UNCHANGED L!vars PROVE LInv'
    <2>1. head' = head /\ next' = next /\ pc' = pc
      BY <1>7 DEF L!vars
    <2>2. Chain(s)' /\ L!TypeOK'
      BY <1>1, <2>1 DEF LInv, Chain, L!TypeOK
    <2> QED BY <2>1, <2>2 DEF LInv
  <1> QED BY <1>4, <1>5, <1>6, <1>7 DEF L!Next, L!Done

(* A walk of i steps, from every node: there is such a function, and met   *)
(* is it.                                                                  *)
Places == Announcer \cup {Absent, Null}
OneStep(i, before) ==
  [y \in Places |-> IF i = 0 \/ y \in {Absent, Null} THEN << >> ELSE <<y>> \o before[next[y]]]
Walks(f, k) == \A i \in 0 .. k : f[i] = OneStep(i, f[i - 1])

(* A walk of any number of steps is defined, by the least length that is   *)
(* not.                                                                    *)
LEMMA WalksExist == \A k \in Nat : \E f : Walks(f, k)
  <1> DEFINE T == {k \in Nat : ~ \E f : Walks(f, k)}
  <1>1. SUFFICES ASSUME T # {} PROVE FALSE
    OBVIOUS
  <1>2. PICK k \in T : \A m \in T : k <= m
    BY <1>1, LeastNatural
  <1>3. k \in Nat /\ ~ \E f : Walks(f, k)
    BY <1>2
  <1>4. \A b, c : OneStep(0, b) = OneStep(0, c)
    BY DEF OneStep
  <1>5. k # 0
    <2>1. SUFFICES ASSUME k = 0 PROVE \E f : Walks(f, k)
      BY <1>3
    <2> DEFINE f == [i \in {0} |-> OneStep(0, << >>)]
    <2>2. f[0] = OneStep(0, << >>)
      OBVIOUS
    <2> HIDE DEF f
    <2>3. Walks(f, 0)
      BY <1>4, <2>2 DEF Walks
    <2> QED BY <2>1, <2>3
  <1>6. k - 1 \in Nat /\ k - 1 \notin T
    BY <1>2, <1>3, <1>5
  <1>7. PICK f : Walks(f, k - 1)
    BY <1>6
  <1> DEFINE g == [i \in 0 .. k |-> IF i = k THEN OneStep(k, f[k - 1]) ELSE f[i]]
  <1>8. g[k] = OneStep(k, f[k - 1]) /\ \A i \in 0 .. k - 1 : g[i] = f[i]
    BY <1>3
  <1> HIDE DEF g, T
  <1>9. ASSUME NEW i \in 0 .. k PROVE g[i] = OneStep(i, g[i - 1])
    <2>1. CASE i = k
      <3>1. k - 1 \in 0 .. k - 1
        BY <1>6
      <3> QED BY <1>8, <2>1, <3>1
    <2>2. CASE i = 0
      BY <1>3, <1>4, <1>5, <1>7, <1>8, <2>2 DEF Walks
    <2>3. CASE i # k /\ i # 0
      <3>1. i \in 0 .. k - 1 /\ i - 1 \in 0 .. k - 1
        BY <1>3, <2>3
      <3>2. f[i] = OneStep(i, f[i - 1])
        BY <1>7, <3>1 DEF Walks
      <3> QED BY <1>8, <3>1, <3>2
    <2> QED BY <2>1, <2>2, <2>3
  <1> QED BY <1>3, <1>9 DEF Walks

(* The instance has its own name for the library's operator.               *)
LEMMA SameCardinality == ASSUME NEW S PROVE L!Cardinality(S) = Cardinality(S)
  BY DEF L!Cardinality, Cardinality

(* So the model's function of bounded walks satisfies its equation. *)
LEMMA MetWalks == ASSUME Nodes PROVE Walks(L!met, Cardinality(Announcer))
  <1> DEFINE N == Cardinality(Announcer)
  <1>1. N \in Nat
    BY FS_CardinalityType DEF Nodes
  <1> HIDE DEF N
  <1>2. PICK f : Walks(f, N)
    BY <1>1, WalksExist
  <1> DEFINE Body(g) == [i \in 0 .. N |-> [y \in Announcer \cup {Absent, Null} |->
     IF i = 0 \/ y \in {Absent, Null} THEN << >> ELSE <<y>> \o g[i - 1][next[y]]]]
             h == [i \in 0 .. N |-> f[i]]
  <1>3. \A g, i : i \in 0 .. N => Body(g)[i] = OneStep(i, g[i - 1])
    BY DEF OneStep, Places
  <1>4. \A i \in 0 .. N : h[i] = Body(h)[i]
    <2> TAKE i \in 0 .. N
    <2>1. h[i] = OneStep(i, f[i - 1])
      BY <1>2 DEF Walks
    <2>2. OneStep(i, f[i - 1]) = OneStep(i, h[i - 1])
      <3>1. CASE i = 0
        BY <3>1 DEF OneStep
      <3>2. CASE i # 0
        <4>1. i - 1 \in 0 .. N
          BY <1>1, <3>2
        <4> QED BY <4>1
      <3> QED BY <3>1, <3>2
    <2> QED BY <1>3, <2>1, <2>2
  <1>5. h = Body(h)
    BY <1>4
  <1>6. L!met = CHOOSE g : g = Body(g)
    <2>1. L!Cardinality(Announcer) = N
      BY SameCardinality DEF N
    <2> QED BY <2>1 DEF L!met
  <1>7. L!met = Body(L!met)
    BY <1>5, <1>6
  <1>8. \A i \in 0 .. N : L!met[i] = OneStep(i, L!met[i - 1])
    BY <1>3, <1>7
  <1> QED BY <1>8 DEF Walks, N

(* The last piece of a sequence. *)
LEMMA LastOnly ==
  ASSUME NEW S, NEW s \in Seq(S), Len(s) \in 1 .. Len(s)
  PROVE  SubSeq(s, Len(s), Len(s)) = <<s[Len(s)]>>
  <1> DEFINE t == SubSeq(s, Len(s), Len(s))
             u == <<s[Len(s)]>>
  <1>1. t \in Seq(S) /\ Len(t) = 1 /\ t[1] = s[Len(s)]
    OBVIOUS
  <1>2. u \in Seq(S) /\ Len(u) = 1 /\ u[1] = s[Len(s)]
    OBVIOUS
  <1> HIDE DEF t, u
  <1>3. t = u
    BY <1>1, <1>2
  <1> QED BY <1>3 DEF t, u

(* A walk from a node of the chain goes through the rest of it.            *)
LEMMA WalkRest ==
  ASSUME Nodes, L!TypeOK, NEW s, Chain(s), NEW N \in Nat, NEW f, Walks(f, N)
  PROVE  \A k \in Nat : k < Len(s) /\ k < N
           => \A i \in k + 1 .. N : f[i][s[Len(s) - k]] = SubSeq(s, Len(s) - k, Len(s))
  <1> DEFINE T == {k \in Nat : k < Len(s) /\ k < N /\ ~ \A i \in k + 1 .. N :
                     f[i][s[Len(s) - k]] = SubSeq(s, Len(s) - k, Len(s))}
  <1>1. SUFFICES ASSUME T # {} PROVE FALSE
    OBVIOUS
  <1>2. PICK k \in T : \A m \in T : k <= m
    BY <1>1, LeastNatural
  <1>3. s \in Seq(Announcer) /\ Len(s) \in Nat
    BY DEF Chain
  <1>4. PICK i \in k + 1 .. N : f[i][s[Len(s) - k]] # SubSeq(s, Len(s) - k, Len(s))
    BY <1>2
  <1> DEFINE j == Len(s) - k
             y == s[j]
  <1>5. k \in Nat /\ k < Len(s) /\ k < N /\ j \in 1 .. Len(s) /\ i \in 1 .. N /\ y \in Announcer
    BY <1>2, <1>3, <1>4
  <1>6. y \in Places /\ y \notin {Absent, Null} /\ next[y] \in Places
    BY <1>5 DEF Nodes, Places, L!TypeOK
  <1>7. f[i][y] = <<y>> \o f[i - 1][next[y]]
    <2>1. f[i] = OneStep(i, f[i - 1])
      BY <1>5 DEF Walks
    <2>2. i # 0 /\ i \in Nat
      BY <1>5
    <2>3. OneStep(i, f[i - 1])[y] = <<y>> \o f[i - 1][next[y]]
      <3> DEFINE b == f[i - 1]
      <3>1. y \in Places /\ y \notin {Absent, Null}
        BY <1>6
      <3> HIDE DEF b, y
      <3>2. OneStep(i, b)[y] = <<y>> \o b[next[y]]
        BY ONLY <3>1, <2>2 DEF OneStep
      <3> QED BY <3>2 DEF b
    <2> QED BY <2>1, <2>3
  <1>8. next[y] = IF j = Len(s) THEN Null ELSE s[j + 1]
    BY <1>5 DEF Chain
  <1>9. CASE k = 0
    <2>1. f[i - 1] = OneStep(i - 1, f[(i - 1) - 1])
      BY <1>5 DEF Walks
    <2>2. next[y] = Null
      BY <1>3, <1>8, <1>9
    <2>3. f[i - 1][Null] = << >>
      BY <2>1 DEF OneStep, Places
    <2>4. SubSeq(s, j, Len(s)) = <<y>> \o << >>
      <3>1. j = Len(s) /\ j \in 1 .. Len(s)
        BY <1>3, <1>5, <1>9
      <3>2. SubSeq(s, Len(s), Len(s)) = <<s[Len(s)]>>
        BY <1>3, <3>1, LastOnly
      <3>3. <<y>> \o << >> = <<y>>
        BY <1>5
      <3> QED BY <3>1, <3>2, <3>3
    <2> QED BY <1>4, <1>7, <2>2, <2>3, <2>4
  <1>10. CASE k # 0
    <2>1. k - 1 \in Nat /\ k - 1 < Len(s) /\ k - 1 < N /\ k - 1 \notin T
      <3> DEFINE m == Len(s)
      <3>1. k \in Nat /\ k # 0 /\ m \in Nat /\ N \in Nat /\ k < m /\ k < N
        BY <1>3, <1>5, <1>10
      <3>2. \A l \in T : k <= l
        BY <1>2
      <3> HIDE DEF m, T
      <3>3. k - 1 \in Nat /\ k - 1 < m /\ k - 1 < N
        BY ONLY <3>1
      <3>4. k - 1 \notin T
        BY ONLY <3>1, <3>2
      <3> QED BY <3>3, <3>4 DEF m
    <2>2. i - 1 \in (k - 1) + 1 .. N /\ Len(s) - (k - 1) = j + 1 /\ j # Len(s)
      <3> DEFINE m == Len(s)
      <3>1. k \in Nat /\ k # 0 /\ m \in Nat /\ N \in Nat /\ i \in k + 1 .. N /\ j = m - k
        BY <1>2, <1>3, <1>4, <1>5, <1>10
      <3> HIDE DEF m, j
      <3>2. i - 1 \in (k - 1) + 1 .. N /\ m - (k - 1) = j + 1 /\ j # m
        BY ONLY <3>1
      <3> QED BY <3>2 DEF m
    <2>3. f[i - 1][s[j + 1]] = SubSeq(s, j + 1, Len(s))
      BY <2>1, <2>2
    <2>4. SubSeq(s, j, Len(s)) = <<y>> \o SubSeq(s, j + 1, Len(s))
      BY <1>3, <1>5, <2>2
    <2> QED BY <1>4, <1>7, <1>8, <2>2, <2>3, <2>4
  <1> QED BY <1>9, <1>10

(* The chain is no longer than there are nodes, so the walk from the head  *)
(* is the chain.                                                           *)
LEMMA WalkIsChain ==
  ASSUME Nodes, LInv, NEW s, Chain(s)
  PROVE  L!Walk(head) = s
  <1> DEFINE N == Cardinality(Announcer)
  <1>1. N \in Nat /\ L!Walk(head) = L!met[N][head]
    BY FS_CardinalityType, SameCardinality DEF Nodes, L!Walk
  <1>2. s \in Seq(Announcer) /\ Len(s) \in Nat
    BY DEF Chain
  <1>3. Len(s) <= N
    <2> DEFINE g == [i \in 1 .. Len(s) |-> s[i]]
    <2>1. g \in Injection(1 .. Len(s), Announcer)
      BY <1>2 DEF Chain, Injection, IsInjective
    <2>2. IsFiniteSet(Announcer)
      BY DEF Nodes
    <2>3. Cardinality(1 .. Len(s)) <= N
      BY <2>1, <2>2, FS_Injection
    <2>4. Cardinality(1 .. Len(s)) = Len(s)
      <3> DEFINE m == Len(s)
      <3>1. m \in Int /\ m >= 0
        BY <1>2
      <3> HIDE DEF m
      <3>2. Cardinality(1 .. m) = IF 1 > m THEN 0 ELSE m - 1 + 1
        BY ONLY <3>1, FS_Interval
      <3>3. Cardinality(1 .. m) = m
        BY ONLY <3>1, <3>2
      <3> QED BY <3>3 DEF m
    <2> QED BY <2>3, <2>4
  <1>4. Walks(L!met, N)
    BY MetWalks
  <1> HIDE DEF N
  <1>5. CASE s = << >>
    <2>1. L!met[N] = OneStep(N, L!met[N - 1])
      BY <1>1, <1>4 DEF Walks
    <2>2. head = Absent
      BY <1>5 DEF Chain
    <2> QED BY <1>1, <1>5, <2>1, <2>2 DEF OneStep, Places
  <1>6. CASE s # << >>
    <2> DEFINE k == Len(s) - 1
    <2>1. k \in Nat /\ k < Len(s) /\ k < N /\ N \in k + 1 .. N /\ Len(s) - k = 1
      BY <1>1, <1>2, <1>3, <1>6
    <2>2. L!met[N][s[1]] = SubSeq(s, 1, Len(s))
      BY <1>1, <1>4, <2>1, WalkRest DEF LInv
    <2>3. SubSeq(s, 1, Len(s)) = s
      BY <1>2
    <2>4. head = s[1]
      BY <1>6 DEF Chain
    <2> QED BY <1>1, <2>2, <2>3, <2>4
  <1> QED BY <1>5, <1>6

(* A walk meets exactly the nodes that are announced, none twice.          *)
LEMMA Exact == ASSUME Nodes, LInv PROVE L!ListSound
  <1>1. PICK s : Chain(s)
    BY DEF LInv
  <1>2. L!Walk(head) = s
    BY <1>1, WalkIsChain
  <1>3. s \in Seq(Announcer) /\ Len(s) \in Nat
    BY <1>1 DEF Chain
  <1>4. L!Reached(head) = {s[i] : i \in 1 .. Len(s)}
    BY <1>2 DEF L!Reached
  <1>5. L!Reached(head) = {n \in Announcer : pc[n] = "linked"}
    <2>1. \A i \in 1 .. Len(s) : s[i] \in Announcer
      BY <1>3
    <2> QED BY <1>1, <1>4, <2>1 DEF Chain
  <1>6. Cardinality({s[i] : i \in 1 .. Len(s)}) = Len(s)
    <2> DEFINE S == {s[i] : i \in 1 .. Len(s)}
               g == [i \in 1 .. Len(s) |-> s[i]]
    <2>1. g \in Bijection(1 .. Len(s), S)
      BY <1>1, <1>3 DEF Chain, Bijection, Injection, Surjection, IsInjective
    <2>2. IsFiniteSet(1 .. Len(s)) /\ Cardinality(1 .. Len(s)) = Len(s)
      BY <1>3, FS_Interval
    <2> HIDE DEF S, g
    <2>3. Cardinality(S) = Cardinality(1 .. Len(s))
      BY <2>1, <2>2, FS_Bijection DEF ExistsBijection
    <2> QED BY <2>2, <2>3 DEF S
  <1> QED BY <1>2, <1>4, <1>5, <1>6, SameCardinality DEF LInv, L!ListSound, L!ListExact

(* A step of the pointers adds one node to what a walk reaches, or         *)
(* nothing.                                                                *)
LEMMA AnnounceStep ==
  ASSUME Nodes, LInv, L!ListSound, L!ListSound', L!Next \/ UNCHANGED L!vars
  PROVE  (\E n \in Announcer : L!Announce(n)) \/ L!Reached(head)' = L!Reached(head)
  <1>1. L!Reached(head) = {n \in Announcer : pc[n] = "linked"}
    BY DEF L!ListSound, L!ListExact
  <1>2. L!Reached(head)' = {n \in Announcer : pc'[n] = "linked"}
    BY DEF L!ListSound, L!ListExact
  <1>3. ASSUME NEW n \in Announcer, pc[n] # "linked", pc' = [pc EXCEPT ![n] = "linked"]
        PROVE  L!Announce(n)
    BY <1>1, <1>2, <1>3 DEF L!Announce, LInv, L!TypeOK
  <1>4. ASSUME \A n \in Announcer : pc'[n] = "linked" <=> pc[n] = "linked"
        PROVE  L!Reached(head)' = L!Reached(head)
    BY <1>1, <1>2, <1>4
  <1>5. ASSUME NEW n \in Announcer, L!Emplace(n)
        PROVE  (\E m \in Announcer : L!Announce(m)) \/ L!Reached(head)' = L!Reached(head)
    BY <1>3, <1>4, <1>5 DEF L!Emplace, LInv, L!TypeOK
  <1>6. ASSUME NEW n \in Announcer, L!Load(n) PROVE L!Reached(head)' = L!Reached(head)
    BY <1>4, <1>6 DEF L!Load, LInv, L!TypeOK
  <1>7. ASSUME NEW n \in Announcer, L!Link(n) PROVE \E m \in Announcer : L!Announce(m)
    BY <1>3, <1>7 DEF L!Link
  <1>8. ASSUME NEW n \in Announcer, L!Retry(n) PROVE L!Reached(head)' = L!Reached(head)
    BY <1>4, <1>8 DEF L!Retry
  <1>9. ASSUME UNCHANGED L!vars PROVE L!Reached(head)' = L!Reached(head)
    BY <1>4, <1>9 DEF L!vars
  <1> QED BY <1>5, <1>6, <1>7, <1>8, <1>9 DEF L!Next, L!Done

(* From the first emplacement to the last exchange, a walk from a key's    *)
(* head meets exactly the nodes whose transaction_verb_generic has ended,  *)
(* each once, whichever threads race for the head and however often their  *)
(* exchanges fail.                                                         *)
THEOREM ListKept == ASSUME Nodes PROVE L!Spec => []L!ListSound
  <1>1. L!Init => LInv
    BY LInvInit
  <1>2. LInv /\ [L!Next]_(L!vars) => LInv'
    BY LInvStep
  <1>3. LInv => L!ListSound
    BY Exact
  <1> QED BY <1>1, <1>2, <1>3, PTL DEF L!Spec

(* The pointers implement the promise of transaction_verb_generic: each    *)
(* step announces one node or none, and what is announced stays so.        *)
THEOREM ListAnnounces == ASSUME Nodes PROVE L!Spec => L!AnnouncementSpec
  <1>1. L!Init => LInv
    BY LInvInit
  <1>2. LInv /\ [L!Next]_(L!vars) => LInv'
    BY LInvStep
  <1>3. LInv => L!ListSound
    BY Exact
  <1>4. LInv /\ L!ListSound /\ L!ListSound' /\ [L!Next]_(L!vars)
          => [\E n \in Announcer : L!Announce(n)]_(L!Reached(head))
    BY AnnounceStep
  <1>5. L!Init /\ L!ListSound => L!Reached(head) = {}
    BY DEF L!Init, L!ListSound, L!ListExact
  <1> QED BY <1>1, <1>2, <1>3, <1>4, <1>5, PTL DEF L!Spec, L!AnnouncementSpec
================================================================================
