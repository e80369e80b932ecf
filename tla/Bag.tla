--------------------------------- MODULE Bag ---------------------------------
(***************************************************************************)
(* The bag that reports are made of (container/bag.hpp): a list of nodes,  *)
(* each a stack of CAPACITY elements.  Two bags, with values pushed on one *)
(* or the other, popped, and spliced; nodes are made and freed.            *)
(***************************************************************************)
EXTENDS Integers, SequencesExt, FiniteSetsExt

CONSTANTS Owner, Element, Node, CAPACITY, LIMIT, Nil    (* LIMIT on the elements *)

VARIABLES
  head, tail, size,            (* of each bag                                *)
  next, elements,              (* of each node                               *)
  allocated,                   (* the nodes there are                        *)
  pushed, popped               (* history: what went in, and out             *)
vars == <<head, tail, size, next, elements, allocated, pushed, popped>>

(* Node::try_push and Bag::push: a full node stays as it is.               *)
Push(b, v) ==
  /\ pushed' = [pushed EXCEPT ![v] = @ + 1] /\ size' = [size EXCEPT ![b] = @ + 1]
  /\ IF head[b] # Nil /\ Len(elements[head[b]]) < CAPACITY
     THEN /\ elements' = [elements EXCEPT ![head[b]] = Append(@, v)]
          /\ UNCHANGED <<head, tail, next, allocated>>
     ELSE LET n == CHOOSE m \in Node \ allocated : TRUE IN
            /\ allocated' = allocated \cup {n}
            /\ next' = [next EXCEPT ![n] = head[b]] /\ elements' = [elements EXCEPT ![n] = <<v>>]
            /\ head' = [head EXCEPT ![b] = n]
            /\ tail' = IF tail[b] = Nil THEN [tail EXCEPT ![b] = n] ELSE tail
  /\ UNCHANGED popped

Pops(b, n) ==
  /\ popped' = [popped EXCEPT ![Last(elements[n])] = @ + 1]
  /\ elements' = [elements EXCEPT ![n] = Front(@)] /\ size' = [size EXCEPT ![b] = @ - 1]

(* The chain of a bag's nodes.                                             *)
Chain(h) ==
  FoldLeft(LAMBDA c, i : IF c = << >> \/ next[Last(c)] = Nil THEN c ELSE Append(c, next[Last(c)]),
           IF h = Nil THEN << >> ELSE <<h>>, [i \in 1 .. Cardinality(Node) |-> i])

WrongTryPop(b) ==                           (* the tail is forgotten about *)
  /\ head[b] # Nil
  /\ IF elements[head[b]] # << >> THEN Pops(b, head[b]) /\ UNCHANGED <<head, tail, next, allocated>>
     ELSE /\ allocated' = allocated \ {head[b]} /\ head' = [head EXCEPT ![b] = next[head[b]]]
          /\ UNCHANGED <<tail, next, elements, size, popped>>
  /\ UNCHANGED pushed

(* Bag::try_pop: what is exhausted before the first element is deleted.    *)
TryPop(b) ==
  /\ head[b] # Nil
  /\ LET chain == Chain(head[b])
         full == SelectSeq(chain, LAMBDA n : elements[n] # << >>)
         first == IF full = << >> THEN Nil ELSE Head(full)
         gone == {chain[i] : i \in {i \in DOMAIN chain : first \notin ToSet(SubSeq(chain, 1, i))}} IN
     /\ allocated' = allocated \ gone /\ head' = [head EXCEPT ![b] = first]
     /\ tail' = IF first = Nil THEN [tail EXCEPT ![b] = Nil] ELSE tail
     /\ IF first # Nil THEN Pops(b, first) ELSE UNCHANGED <<elements, size, popped>>
  /\ UNCHANGED <<next, pushed>>

WrongSplice(b, c) ==                        (* an empty bag is spliced as it is *)
  /\ b # c /\ size[c] # 0
  /\ next' = IF head[b] # Nil THEN [next EXCEPT ![tail[b]] = head[c]] ELSE next
  /\ head' = [head EXCEPT ![b] = IF head[b] # Nil THEN @ ELSE head[c], ![c] = Nil]
  /\ tail' = [tail EXCEPT ![c] = Nil]
  /\ size' = [size EXCEPT ![b] = @ + size[c], ![c] = 0]
  /\ UNCHANGED <<elements, allocated, pushed, popped>>

(* Bag::splice: nodes are not filled up.                                   *)
Splice(b, c) ==
  /\ b # c /\ head[c] # Nil
  /\ next' = IF head[b] # Nil THEN [next EXCEPT ![tail[b]] = head[c]] ELSE next
  /\ head' = [head EXCEPT ![b] = IF head[b] # Nil THEN @ ELSE head[c], ![c] = Nil]
  /\ tail' = [tail EXCEPT ![b] = tail[c], ![c] = Nil]
  /\ size' = [size EXCEPT ![b] = @ + size[c], ![c] = 0]
  /\ UNCHANGED <<elements, allocated, pushed, popped>>

(* Bag::swap, or a move into an empty bag. *)
Swap(b, c) ==
  LET Exchanged(f) == [f EXCEPT ![b] = f[c], ![c] = f[b]] IN
  /\ b # c /\ head' = Exchanged(head) /\ tail' = Exchanged(tail) /\ size' = Exchanged(size)
  /\ UNCHANGED <<next, elements, allocated, pushed, popped>>

Init ==
  /\ head = [b \in Owner |-> Nil] /\ tail = head /\ size = [b \in Owner |-> 0]
  /\ next = [n \in Node |-> Nil] /\ elements = [n \in Node |-> << >>] /\ allocated = {}
  /\ pushed = [v \in Element |-> 0] /\ popped = pushed

Next == \E b \in Owner :
  \/ MapThenSumSet(LAMBDA v : pushed[v], Element) < LIMIT /\ \E v \in Element : Push(b, v)
  \/ TryPop(b)
  \/ \E c \in Owner : Splice(b, c) \/ Swap(b, c)
Spec == Init /\ [][Next]_vars
-----------------------------------------------------------------------------
Held(b) == FoldLeft(LAMBDA s, n : s \o elements[n], << >>, Chain(head[b]))

(* What was pushed is in one of the bags or was popped, once; each bag     *)
(* knows how many it has, ends where its tail is, and shares no node; no   *)
(* node is used after it was freed, and none is left behind.               *)
BagSound ==
  /\ \A v \in Element :
       pushed[v] = popped[v] + MapThenSumSet(LAMBDA b : Len(SelectSeq(Held(b), LAMBDA x : x = v)), Owner)
  /\ \A b \in Owner :
       /\ size[b] = Len(Held(b))
       /\ (head[b] = Nil) = (tail[b] = Nil)
       /\ head[b] # Nil => Last(Chain(head[b])) = tail[b] /\ next[tail[b]] = Nil
       /\ IsInjective(Chain(head[b]))
       /\ \A c \in Owner \ {b} : ToSet(Chain(head[b])) \cap ToSet(Chain(head[c])) = {}
  /\ UNION {ToSet(Chain(head[b])) : b \in Owner} = allocated
=============================================================================
