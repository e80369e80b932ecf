--------------------------- MODULE TransactionList ---------------------------
(***************************************************************************)
(* The list of one key at the level of its pointers: the entry of the      *)
(* ConcurrentMap whose value is the atomic head, and the _next of every    *)
(* node, as transaction_verb_generic of core/transaction.cpp links them    *)
(* from many threads at once.  No pointer is followed until the barrier,   *)
(* so the relaxed order of the atomics is not visible: only the head is    *)
(* shared, and it is one word.                                             *)
(***************************************************************************)
EXTENDS Naturals, Sequences, FiniteSets

CONSTANTS
  Node,    (* the nodes that are announced at the key, by any transaction *)
  Absent,  (* the map has no entry for the key                           *)
  Null     (* the end of the list                                        *)

VARIABLES
  head,    (* the map's entry: Absent, or the atomic it holds             *)
  next,    (* Node::_next; also the expected value of the exchange        *)
  pc       (* where the announcement of each node is                      *)

vars == <<head, next, pc>>

Init ==
  /\ head = Absent
  /\ next = [n \in Node |-> Null]
  /\ pc = [n \in Node |-> "new"]

(* Operators whose name begins with Wrong are mistakes the code could have  *)
(* made; nothing uses them.  Here the entry is inserted without its value, *)
(* or over the one that is there.                                          *)
WrongEmplace(n) ==
  /\ pc[n] = "new"
  /\ pc' = [pc EXCEPT ![n] = "found"]
  /\ UNCHANGED <<head, next>>

WrongEmplaceOver(n) ==
  /\ pc[n] = "new"
  /\ head' = n /\ pc' = [pc EXCEPT ![n] = "linked"]
  /\ UNCHANGED next

(* try_emplace: the first to come constructs the head from its own node,   *)
(* the others get the head's address.                                      *)
Emplace(n) ==
  /\ pc[n] = "new"
  /\ IF head = Absent
       THEN head' = n /\ pc' = [pc EXCEPT ![n] = "linked"]
       ELSE pc' = [pc EXCEPT ![n] = "found"] /\ UNCHANGED head
  /\ UNCHANGED next

Load(n) ==
  /\ pc[n] = "found"
  /\ next' = [next EXCEPT ![n] = head]
  /\ pc' = [pc EXCEPT ![n] = "exchange"]
  /\ UNCHANGED head

(* A store instead of a compare-exchange. *)
WrongLink(n) ==
  /\ pc[n] = "exchange"
  /\ head' = n
  /\ pc' = [pc EXCEPT ![n] = "linked"]
  /\ UNCHANGED next

(* compare_exchange_weak: it succeeds only if the head is still the one    *)
(* seen, and a failure, spurious or not, reloads it into _next.            *)
Link(n) ==
  /\ pc[n] = "exchange" /\ head = next[n]
  /\ head' = n
  /\ pc' = [pc EXCEPT ![n] = "linked"]
  /\ UNCHANGED next

Retry(n) ==
  /\ pc[n] = "exchange"
  /\ next' = [next EXCEPT ![n] = head]
  /\ UNCHANGED <<head, pc>>

Done == (\A n \in Node : pc[n] = "linked") /\ UNCHANGED vars

Next == (\E n \in Node : Emplace(n) \/ Load(n) \/ Link(n) \/ Retry(n)) \/ Done

Spec == Init /\ [][Next]_vars
------------------------------------------------------------------------------
(* The nodes met by a walk of at most Cardinality(Node) steps from x: what *)
(* resolve() and the rebuild actions do with the list.                     *)
met[i \in 0 .. Cardinality(Node)] ==
  [y \in Node \cup {Absent, Null} |->
     IF i = 0 \/ y \in {Absent, Null} THEN << >> ELSE <<y>> \o met[i - 1][next[y]]]
Walk(x) == met[Cardinality(Node)][x]

Reached(x) == {Walk(x)[i] : i \in 1 .. Len(Walk(x))}

TypeOK ==
  /\ head \in Node \cup {Absent}
  /\ next \in [Node -> Node \cup {Null}]
  /\ pc \in [Node -> {"new", "found", "exchange", "linked"}]

(* A walk meets exactly the nodes whose announcement is over, none twice:  *)
(* no race of the exchanges drops a node or closes a circle, so no write   *)
(* and no waiter is lost between two threads that notify at once.          *)
ListExact ==
  /\ Reached(head) = {n \in Node : pc[n] = "linked"}
  /\ Len(Walk(head)) = Cardinality(Reached(head))

(* The pointers are a list of exactly the announced nodes, whichever       *)
(* thread constructs the head.                                             *)
ListSound == TypeOK /\ ListExact

(* What transaction_verb_generic promises about one key: every node that   *)
(* is announced is in the key's list from then on, once, and nothing else  *)
(* is.  A step of the pointers adds one node or changes nothing.           *)
Announce(n) == n \notin Reached(head) /\ Reached(head)' = Reached(head) \cup {n}
AnnouncementSpec == Reached(head) = {} /\ [][\E n \in Node : Announce(n)]_(Reached(head))
==============================================================================
