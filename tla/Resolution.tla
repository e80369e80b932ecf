------------------------------ MODULE Resolution ------------------------------
(***************************************************************************)
(* What the transaction system of core/transaction.hpp promises, without   *)
(* threads, lists or recursion: every proposed transaction commits or      *)
(* aborts, once.  It aborts because a higher-priority transaction that     *)
(* writes one of its keys commits, and commits because all of those abort. *)
(***************************************************************************)
EXTENDS Naturals, FiniteSets

CONSTANTS
  Txn,         (* the transactions of a tick, one per notified entity      *)
  Key,         (* coordinates, entity ids and times that can be acted on   *)
  Priority,    (* the tick's priority of a transaction; smaller goes first *)
  Proposals    (* the sets of <<key, operation>> a transaction may propose *)

VARIABLES
  ops,      (* the operations each transaction proposes *)
  outcome   (* INITIAL, COMMITTED or ABORTED *)

(* Transaction::State, and the bits of Transaction::Operation: the wait    *)
(* bits are the bits of the states they wait for.                          *)
INITIAL == "INITIAL"
COMMITTED == "COMMITTED"
ABORTED == "ABORTED"
WAIT_ON_COMMIT == COMMITTED
WAIT_ON_ABORT == ABORTED
WRITE_ON_COMMIT == "WRITE"
Operation == SUBSET {WAIT_ON_COMMIT, WAIT_ON_ABORT, WRITE_ON_COMMIT}

(* t proposes an exclusive write of k. *)
WritesKey(t, k) == \E o \in ops[t] : o[1] = k /\ WRITE_ON_COMMIT \in o[2]

Conflict(t, u) == \E k \in Key : WritesKey(t, k) /\ WritesKey(u, k)

(* The transactions that go before t and want a key of t. *)
Above(t) == {u \in Txn : Priority[u] < Priority[t] /\ Conflict(t, u)}

Init ==
  /\ ops \in [Txn -> Proposals]
  /\ outcome = [t \in Txn |-> INITIAL]

Commit(t) ==
  /\ outcome[t] = INITIAL
  /\ \A u \in Above(t) : outcome[u] = ABORTED
  /\ outcome' = [outcome EXCEPT ![t] = COMMITTED]
  /\ UNCHANGED ops

Abort(t) ==
  /\ outcome[t] = INITIAL
  /\ \E u \in Above(t) : outcome[u] = COMMITTED
  /\ outcome' = [outcome EXCEPT ![t] = ABORTED]
  /\ UNCHANGED ops

Next == \E t \in Txn : Commit(t) \/ Abort(t)

vars == <<ops, outcome>>

Spec == Init /\ [][Next]_vars
------------------------------------------------------------------------------
(* The mutual exclusion of writers: two transactions that commit write no  *)
(* common key.                                                             *)
Exclusive ==
  \A t, u \in Txn :
    t # u /\ outcome[t] = COMMITTED /\ outcome[u] = COMMITTED => ~Conflict(t, u)

(* An outcome is earned: nobody aborts for a transaction that aborted, and *)
(* nobody commits over a higher-priority transaction that committed.       *)
Justified ==
  \A t \in Txn :
    /\ outcome[t] = COMMITTED => \A u \in Above(t) : outcome[u] = ABORTED
    /\ outcome[t] = ABORTED => \E u \in Above(t) : outcome[u] = COMMITTED
==============================================================================
