------------------------------- MODULE Ctrie --------------------------------
(***************************************************************************)
(* The concurrent hash trie that interns strings (container/ctrie.hpp).    *)
(* An INode is a mutable cell; everything it leads to is immutable and is  *)
(* replaced as a whole by one compare-and-swap.  A find that meets a tomb  *)
(* (TNode) helps to remove it and starts again at the root; an alteration  *)
(* that leaves a tomb absorbs it into the parent on its way back.          *)
(*                                                                         *)
(* Each READ and each CAS of a cell is a step.  A hash is a tuple of       *)
(* LEVELS symbols; keys that agree on all of them share a collision list.  *)
(***************************************************************************)
EXTENDS Integers, FiniteSets, SequencesExt

CONSTANTS Thread, Key,
          Hash,            (* of each key, one symbol to a level             *)
          LEVELS,
          Absent,          (* the empty optional                             *)
          Default,         (* the value of an AlterChoice that has none      *)
          Initial,         (* the tries a run may begin with                 *)
          Operation        (* of each thread: what it may do, <<op, key, value>> *)

VARIABLES
  main,    (* of each INode: a MainNode [kind, id, body]; the root is first  *)
  writes,  (* successful exchanges, which date the nodes they install        *)
  call,    (* of each thread: the operation it is in                         *)
  shadow   (* the dictionary, after the exchanges so far                     *)

vars == <<main, writes, call, shadow>>

(* A node is compared by its address: two nodes that are equal here were   *)
(* made by one operation, or are one suffix of a collision list.           *)
CNode(id, slots) == [kind |-> "C", id |-> id, body |-> slots]
TNode(id, leaf) == [kind |-> "T", id |-> id, body |-> leaf]
LNode(cells) == [kind |-> "L", id |-> Head(cells).id, body |-> cells]
Cell(id, s) == [id |-> id, leaf |-> s]
INode(i) == [node |-> i]
SNode(k, v) == [key |-> k, value |-> v]
IsINode(b) == "node" \in DOMAIN b

Idle == [pc |-> "idle", op |-> "find", key |-> Absent, value |-> Absent, path |-> <<1>>,
         expected |-> Absent, desired |-> Absent, post |-> 0,
         before |-> Absent, after |-> Absent, held |-> Absent, holds |-> Absent]

Put(slots, symbol, b) == [s \in DOMAIN slots \cup {symbol} |-> IF s = symbol THEN b ELSE slots[s]]
Without(slots, symbol) == [s \in DOMAIN slots \ {symbol} |-> slots[s]]

(* to_contracted                                                           *)
Contracted(id, slots, level) ==
  IF level > 0 /\ Cardinality(DOMAIN slots) = 1 /\ \A s \in DOMAIN slots : ~IsINode(slots[s])
    THEN TNode(id, slots[CHOOSE s \in DOMAIN slots : TRUE])
  ELSE CNode(id, slots)

(* The new INodes of make_cnode_with_pair from a level down: one below the *)
(* other while the symbols agree, then the pair itself.                    *)
Chain(id, s1, s2, level, first) ==
  LET Agree(l) == l < LEVELS /\ Hash[s1.key][l + 1] = Hash[s2.key][l + 1]
      bottom == CHOOSE l \in level .. LEVELS : ~Agree(l) /\ \A m \in level .. l - 1 : Agree(m)
  IN [i \in 1 .. bottom - level + 1 |->
        LET l == level + i - 1 IN
        IF l = LEVELS THEN LNode(<<Cell(id, s2), Cell(id, s1)>>)
        ELSE IF l = bottom
          THEN CNode(id, [x \in {Hash[s1.key][l + 1], Hash[s2.key][l + 1]} |->
                            IF x = Hash[s1.key][l + 1] THEN s1 ELSE s2])
        ELSE CNode(id, [x \in {Hash[s1.key][l + 1]} |-> INode(first + i)])]

(* without: what precedes the victim is copied in reverse order.           *)
Dropped(id, cells, j) ==
  Reverse([i \in 1 .. j - 1 |-> Cell(id, cells[i].leaf)]) \o SubSeq(cells, j + 1, Len(cells))

(* find_lnode_for_key; 0 when there is none.                               *)
Position(cells, k) ==
  IF \E j \in 1 .. Len(cells) : cells[j].leaf.key = k
    THEN CHOOSE j \in 1 .. Len(cells) : cells[j].leaf.key = k ELSE 0
-----------------------------------------------------------------------------
(* The leaves below an INode.                                              *)
RECURSIVE Leaves(_)
Leaves(i) ==
  LET n == main[i] IN
  CASE n.kind = "T" -> <<n.body>>
    [] n.kind = "L" -> [j \in 1 .. Len(n.body) |-> n.body[j].leaf]
    [] n.kind = "C" ->
         LET branches == SetToSeq({<<s, n.body[s]>> : s \in DOMAIN n.body})
             Below(b) == IF IsINode(b) THEN Leaves(b.node) ELSE <<b>>
         IN FlattenSeq([j \in 1 .. Len(branches) |-> Below(branches[j][2])])

RECURSIVE Cells(_)
Cells(i) ==
  {i} \cup IF main[i].kind # "C" THEN {}
           ELSE UNION {Cells(main[i].body[s].node) :
                         s \in {x \in DOMAIN main[i].body : IsINode(main[i].body[x])}}

Init ==
  /\ main \in Initial /\ writes = 0
  /\ call = [t \in Thread |-> Idle]
  /\ shadow = [k \in Key |->
       LET found == {j \in 1 .. Len(Leaves(1)) : Leaves(1)[j].key = k} IN
       IF found = {} THEN Absent ELSE Leaves(1)[CHOOSE j \in found : TRUE].value]
-----------------------------------------------------------------------------
(* What alter's function decides, for the functions that the code passes:  *)
(* "put" sets, "offer" keeps what is there (an interning that upgrades),   *)
(* "erase" erases, "evict" erases one value only (the collector's).        *)
Choice(c, found) ==
  CASE c.op = "put" -> "REPLACE"
    [] c.op = "offer" -> IF found = Absent THEN "REPLACE" ELSE "KEEP"
    [] c.op = "erase" -> "ERASE"
    [] c.op = "evict" -> IF found = c.value THEN "ERASE" ELSE "KEEP"

Begin(t) ==
  /\ call[t].pc = "idle"
  /\ \E o \in Operation[t] :
       call' = [call EXCEPT ![t] = [Idle EXCEPT !.pc = "read", !.op = o[1], !.key = o[2], !.value = o[3]]]
  /\ UNCHANGED <<main, writes, shadow>>

Here(c) == Last(c.path)
LevelOf(c) == Len(c.path) - 1
Symbol(c) == Hash[c.key][Len(c.path)]
Restarted(c) == [c EXCEPT !.pc = "read", !.path = <<1>>]

(* What the node says of the key; only for nodes that end the descent.     *)
Found(n, c) ==
  IF n.kind = "L"
    THEN LET j == Position(n.body, c.key) IN IF j = 0 THEN Absent ELSE n.body[j].leaf.value
  ELSE IF Symbol(c) \in DOMAIN n.body /\ n.body[Symbol(c)].key = c.key
    THEN n.body[Symbol(c)].value
  ELSE Absent

Descends(n, c) == n.kind = "C" /\ Symbol(c) \in DOMAIN n.body /\ IsINode(n.body[Symbol(c)])

Read(t) ==
  LET c == call[t]
      n == main[Here(c)]
      found == Found(n, c)
      answered == [c EXCEPT !.before = found, !.after = found, !.held = shadow[c.key],
                            !.holds = shadow[c.key]]
  IN
  /\ c.pc = "read"
  /\ call' = [call EXCEPT ![t] =
       IF Descends(n, c) THEN [c EXCEPT !.path = Append(@, n.body[Symbol(c)].node)]
       ELSE IF n.kind = "T" THEN [c EXCEPT !.pc = "clean"]
       ELSE IF c.op = "find" THEN [answered EXCEPT !.pc = "done"]
       ELSE IF Choice(c, found) = "KEEP" \/ (Choice(c, found) = "ERASE" /\ found = Absent)
         THEN [answered EXCEPT !.pc = "post", !.post = Len(c.path) - 1]
       ELSE [c EXCEPT !.pc = "swap", !.expected = n]]
  /\ UNCHANGED <<main, writes, shadow>>

(* The INodes after the exchange of the node that was read for the new one. *)
Altered(c, id) ==
  LET n == c.expected
      i == Here(c)
      s == SNode(c.key, c.value)
      first == Len(main) + 1
  IN
  IF Choice(c, Found(n, c)) = "REPLACE" THEN
    IF n.kind = "L"
      THEN LET j == Position(n.body, c.key)
               rest == IF j = 0 THEN n.body ELSE Dropped(id, n.body, j)
           IN [main EXCEPT ![i] = LNode(<<Cell(id, s)>> \o rest)]
    ELSE IF Symbol(c) \in DOMAIN n.body /\ n.body[Symbol(c)].key # c.key
      THEN [main EXCEPT ![i] = CNode(id, Put(n.body, Symbol(c), INode(first)))]
             \o Chain(id, n.body[Symbol(c)], s, Len(c.path), first)
    ELSE [main EXCEPT ![i] = CNode(id, Put(n.body, Symbol(c), s))]
  ELSE IF n.kind = "L"
    THEN LET rest == Dropped(id, n.body, Position(n.body, c.key)) IN
         [main EXCEPT ![i] = IF Len(rest) = 1 THEN TNode(id, rest[1].leaf) ELSE LNode(rest)]
  ELSE [main EXCEPT ![i] = Contracted(id, Without(n.body, Symbol(c)), LevelOf(c))]

(* An erasure from a collision list answers with the value of a choice     *)
(* that has none instead of the empty optional.                            *)
Swap(t) ==
  LET c == call[t]
      erases == Choice(c, Found(c.expected, c)) = "ERASE"
      now == IF erases THEN Absent ELSE c.value
  IN
  /\ c.pc = "swap"
  /\ IF main[Here(c)] = c.expected
       THEN /\ main' = Altered(c, writes + 1)
            /\ writes' = writes + 1
            /\ shadow' = [shadow EXCEPT ![c.key] = now]
            /\ call' = [call EXCEPT ![t] =
                 [c EXCEPT !.pc = "post", !.expected = Absent,
                           !.post = IF erases THEN Len(c.path) ELSE Len(c.path) - 1,
                           !.before = Found(c.expected, c), !.held = shadow[c.key],
                           !.after = IF erases /\ c.expected.kind = "L" THEN Default ELSE now,
                           !.holds = now]]
     ELSE /\ call' = [call EXCEPT ![t] = Restarted([c EXCEPT !.expected = Absent])]
          /\ UNCHANGED <<main, writes, shadow>>
-----------------------------------------------------------------------------
(* INode::clean, of the parent of a tomb: the parent is read, then each of *)
(* its INodes, in order, then the copy without tombs is exchanged for it.  *)
Clean(t) ==
  LET c == call[t]
      n == main[c.path[Len(c.path) - 1]] IN
  /\ c.pc = "clean"
  /\ call' = [call EXCEPT ![t] =
       IF n.kind = "C" THEN [c EXCEPT !.pc = "resurrect", !.expected = n, !.desired = n.body,
                                      !.post = 0]
       ELSE Restarted(c)]
  /\ UNCHANGED <<main, writes, shadow>>

(* The next slot that resurrected has not come to yet.                     *)
Slots(c) == {s \in DOMAIN c.expected.body : IsINode(c.expected.body[s]) /\ s >= c.post}

Resurrect(t) ==
  LET c == call[t]
      s == CHOOSE x \in Slots(c) : \A y \in Slots(c) : x <= y
      n == main[c.expected.body[s].node]
  IN
  /\ c.pc = "resurrect" /\ Slots(c) # {}
  /\ call' = [call EXCEPT ![t] =
       [c EXCEPT !.desired = IF n.kind = "T" THEN [@ EXCEPT ![s] = n.body] ELSE @, !.post = s + 1]]
  /\ UNCHANGED <<main, writes, shadow>>

Compress(t) ==
  LET c == call[t]
      p == c.path[Len(c.path) - 1]
      won == main[p] = c.expected
  IN
  /\ c.pc = "resurrect" /\ Slots(c) = {}
  /\ IF won THEN /\ main' = [main EXCEPT ![p] = Contracted(writes + 1, c.desired, LevelOf(c) - 1)]
                 /\ writes' = writes + 1
     ELSE UNCHANGED <<main, writes>>
  /\ call' = [call EXCEPT ![t] = Restarted([c EXCEPT !.expected = Absent, !.desired = Absent, !.post = 0])]
  /\ UNCHANGED shadow

(* On the way back, each INode above the one that was altered, and after   *)
(* an erasure that one too, is looked at again if it has a parent.         *)
Post(t) ==
  LET c == call[t] IN
  /\ c.pc = "post"
  /\ call' = [call EXCEPT ![t] =
       IF c.post < 2 THEN [c EXCEPT !.pc = "done"]
       ELSE IF main[c.path[c.post]].kind = "T" THEN [c EXCEPT !.pc = "absorb"]
       ELSE [c EXCEPT !.post = @ - 1]]
  /\ UNCHANGED <<main, writes, shadow>>

(* A parent that is not asked whether the slot still holds this tomb.      *)
WrongAbsorb(t) ==
  LET c == call[t]
      n == main[c.path[c.post - 1]]
      holds == n.kind = "C" /\ Hash[c.key][c.post - 1] \in DOMAIN n.body
  IN
  /\ c.pc = "absorb"
  /\ call' = [call EXCEPT ![t] = IF holds THEN [c EXCEPT !.pc = "replace", !.expected = n]
                                 ELSE [c EXCEPT !.pc = "post", !.post = @ - 1]]
  /\ UNCHANGED <<main, writes, shadow>>

(* cleanParent.  It reads the tomb once more, which stays what it is, and  *)
(* the parent.                                                             *)
Absorb(t) ==
  LET c == call[t]
      n == main[c.path[c.post - 1]]
      symbol == Hash[c.key][c.post - 1]
      holds == n.kind = "C" /\ symbol \in DOMAIN n.body /\ n.body[symbol] = INode(c.path[c.post])
  IN
  /\ c.pc = "absorb"
  /\ call' = [call EXCEPT ![t] = IF holds THEN [c EXCEPT !.pc = "replace", !.expected = n]
                                 ELSE [c EXCEPT !.pc = "post", !.post = @ - 1]]
  /\ UNCHANGED <<main, writes, shadow>>

Replace(t) ==
  LET c == call[t]
      p == c.path[c.post - 1]
      slots == [c.expected.body EXCEPT ![Hash[c.key][c.post - 1]] = main[c.path[c.post]].body]
  IN
  /\ c.pc = "replace"
  /\ IF main[p] = c.expected
       THEN /\ main' = [main EXCEPT ![p] = Contracted(writes + 1, slots, c.post - 2)]
            /\ writes' = writes + 1
            /\ call' = [call EXCEPT ![t] = [c EXCEPT !.pc = "post", !.post = @ - 1, !.expected = Absent]]
     ELSE /\ call' = [call EXCEPT ![t] = [c EXCEPT !.pc = "absorb", !.expected = Absent]]
          /\ UNCHANGED <<main, writes>>
  /\ UNCHANGED shadow

Finished == (\A t \in Thread : call[t].pc = "done") /\ UNCHANGED vars

Next ==
  \/ \E t \in Thread :
       \/ Begin(t) \/ Read(t) \/ Swap(t) \/ Clean(t) \/ Resurrect(t) \/ Compress(t)
       \/ Post(t) \/ Absorb(t) \/ Replace(t)
  \/ Finished

Spec == Init /\ [][Next]_vars
-----------------------------------------------------------------------------
(* The trie is its dictionary: no exchange, least of all one that removes  *)
(* a tomb, loses a key, keeps a dead one or has one twice, and every leaf  *)
(* is where its hash leads a search.                                       *)
RECURSIVE Sought(_, _, _)
Sought(i, l, k) ==
  LET n == main[i] IN
  CASE n.kind = "T" -> IF n.body.key = k THEN n.body.value ELSE Absent
    [] n.kind = "L" -> IF Position(n.body, k) = 0 THEN Absent ELSE n.body[Position(n.body, k)].leaf.value
    [] n.kind = "C" ->
         IF Hash[k][l + 1] \notin DOMAIN n.body THEN Absent
         ELSE LET b == n.body[Hash[k][l + 1]] IN
              IF IsINode(b) THEN Sought(b.node, l + 1, k)
              ELSE IF b.key = k THEN b.value ELSE Absent

IsDictionary ==
  /\ \A k \in Key : Sought(1, 0, k) = shadow[k]
  /\ Len(Leaves(1)) = Cardinality({k \in Key : shadow[k] # Absent})

(* Operations are atomic: what one found was in the dictionary at the very *)
(* step that answered it, and what an alteration says it left was left.    *)
(* Only an erasure of a key that is there and whose hash another key has   *)
(* says otherwise, the default value where nothing is left (ctrie.hpp:354). *)
Linearizable ==
  \A t \in Thread : call[t].pc \in {"post", "absorb", "replace", "done"} =>
    LET c == call[t]
        erased == c.op \in {"erase", "evict"} /\ c.before # Absent /\ c.holds = Absent
        collides == \E k \in Key \ {c.key} : Hash[k] = Hash[c.key] IN
    /\ c.before = c.held
    /\ c.after = c.holds \/ (c.after = Default /\ erased /\ collides)

(* Nobody leaves a tomb behind: when all the operations have returned no   *)
(* tomb is in the trie, and no node below the root that a tomb could be.   *)
Compact ==
  (\A t \in Thread : call[t].pc \in {"idle", "done"}) =>
    \A i \in Cells(1) : i # 1 =>
      /\ main[i].kind # "T"
      /\ main[i].kind = "C" => Contracted(main[i].id, main[i].body, 1).kind = "C"

CtrieSound == IsDictionary /\ Linearizable /\ Compact
=============================================================================
