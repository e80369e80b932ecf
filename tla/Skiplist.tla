------------------------------ MODULE Skiplist ------------------------------
(***************************************************************************)
(* The concurrent skiplist of the ready set and of a transaction's keys    *)
(* (container/concurrent_skiplist.hpp): threads insert by one exchange per *)
(* level, bottom up, and never remove; others search meanwhile.  When all  *)
(* the insertions have returned the list is frozen, and the rebuild walks  *)
(* it in parallel and parts it into frames.                                *)
(*                                                                         *)
(* Every access to a shared link is a step.  A node is named after its     *)
(* inserter; its key and its random number of levels are drawn beforehand. *)
(***************************************************************************)
EXTENDS Integers, FiniteSets, SequencesExt

CONSTANTS Inserter, HeadNode, Null,
          SLOTS,           (* children of a frame                            *)
          LEVELS           (* bound: no node has more levels                 *)

(* The codes of a frame of frames.                                         *)
Code == 0 .. SLOTS * SLOTS - 1
Level == 0 .. LEVELS - 1
Node == Inserter \cup {HeadNode}

VARIABLES
  key, size,       (* of each node                                           *)
  next,            (* _next of the head and of each node                     *)
  top,             (* Head::_top                                             *)
  pc, level, left, expected,  (* of each inserter, as in _link_level         *)
  path,            (* its frames in the recursion of _try_emplace            *)
  start,           (* the _top it began with                                 *)
  reader           (* a search: [pc, query, left, level, answer, before]     *)

inserterVars == <<pc, level, left, expected, path, start>>
vars == <<key, size, next, top, inserterVars, reader>>

Idle == [pc |-> "idle", query |-> 0, left |-> HeadNode, level |-> 0, answer |-> Null, before |-> {}]

Init ==
  /\ key \in [Inserter -> Code] /\ size \in [Inserter -> 1 .. LEVELS]
  /\ next = [n \in Node |-> [i \in Level |-> Null]] /\ top = 1
  /\ pc = [p \in Inserter |-> "enter"] /\ level = [p \in Inserter |-> 0]
  /\ left = [p \in Inserter |-> HeadNode] /\ expected = [p \in Inserter |-> Null]
  /\ path = [p \in Inserter |-> [i \in Level |-> <<HeadNode, Null>>]]
  /\ start = [p \in Inserter |-> 1]
  /\ reader = Idle
-----------------------------------------------------------------------------
Beyond(n, k) == IF n = Null THEN TRUE ELSE k < key[n]

(* _top is read relaxed: an old value may be seen.                         *)
Enter(p) ==
  /\ pc[p] = "enter"
  /\ \E i \in 1 .. top : start' = [start EXCEPT ![p] = i] /\ level' = [level EXCEPT ![p] = i - 1]
  /\ pc' = [pc EXCEPT ![p] = "descend"]
  /\ UNCHANGED <<key, size, next, top, left, expected, path, reader>>

Descend(p) ==
  /\ pc[p] = "descend"
  /\ LET i == level[p]
         candidate == next[left[p]][i] IN
     \/ /\ Beyond(candidate, key[p]) /\ i > 0
        /\ path' = [path EXCEPT ![p][i] = <<left[p], candidate>>]
        /\ level' = [level EXCEPT ![p] = i - 1]
        /\ UNCHANGED <<pc, left, expected>>
     \/ /\ Beyond(candidate, key[p]) /\ i = 0
        /\ expected' = [expected EXCEPT ![p] = candidate]
        /\ pc' = [pc EXCEPT ![p] = "store"]
        /\ UNCHANGED <<level, left, path>>
     \/ /\ ~Beyond(candidate, key[p]) /\ key[candidate] = key[p]
        /\ pc' = [pc EXCEPT ![p] = "found"]
        /\ UNCHANGED <<level, left, expected, path>>
     \/ /\ ~Beyond(candidate, key[p]) /\ key[candidate] < key[p]
        /\ left' = [left EXCEPT ![p] = candidate]
        /\ UNCHANGED <<pc, level, expected, path>>
  /\ UNCHANGED <<key, size, next, top, start, reader>>

(* The node's own link, which nobody reads before the exchange.            *)
Store(p) ==
  /\ pc[p] = "store"
  /\ next' = [next EXCEPT ![p][level[p]] = expected[p]]
  /\ pc' = [pc EXCEPT ![p] = "exchange"]
  /\ UNCHANGED <<key, size, top, level, left, expected, path, start, reader>>

(* Where the next level up is linked: after what the descent passed there, *)
(* or, above the levels it came through, from the head.                    *)
Above(p, i) ==
  /\ level' = [level EXCEPT ![p] = i]
  /\ left' = [left EXCEPT ![p] = IF i < start[p] THEN path[p][i][1] ELSE HeadNode]
  /\ expected' = [expected EXCEPT ![p] = IF i < start[p] THEN path[p][i][2] ELSE Null]
  /\ pc' = [pc EXCEPT ![p] = IF i = start[p] THEN "raise" ELSE "store"]

Link(p) ==
  LET i == level[p] IN
  /\ pc[p] = "exchange" /\ next[left[p]][i] = expected[p]
  /\ next' = [next EXCEPT ![left[p]][i] = p]
  /\ IF i + 1 < size[p]
       THEN Above(p, i + 1)
       ELSE pc' = [pc EXCEPT ![p] = "linked"] /\ UNCHANGED <<level, left, expected>>
  /\ UNCHANGED <<key, size, top, path, start, reader>>

(* Operators whose name begins with Wrong are mistakes the code could have  *)
(* made; nothing uses them.  Here an insertion that lost the race goes on  *)
(* with the successor it found and forgets to look at its key.             *)
WrongLoseRace(p) ==
  LET found == next[left[p]][level[p]] IN
  /\ pc[p] = "exchange" /\ found # expected[p]
  /\ expected' = [expected EXCEPT ![p] = found]
  /\ pc' = [pc EXCEPT ![p] = "store"]
  /\ UNCHANGED <<key, size, next, top, level, left, path, start, reader>>

LoseRace(p) ==
  LET found == next[left[p]][level[p]] IN
  /\ pc[p] = "exchange" /\ found # expected[p]
  /\ expected' = [expected EXCEPT ![p] = found]
  /\ pc' = [pc EXCEPT ![p] = "chase"]
  /\ UNCHANGED <<key, size, next, top, level, left, path, start, reader>>

Chase(p) ==
  /\ pc[p] = "chase"
  /\ LET n == expected[p] IN
     \/ /\ Beyond(n, key[p])
        /\ pc' = [pc EXCEPT ![p] = "store"] /\ UNCHANGED <<left, expected>>
     \/ /\ ~Beyond(n, key[p]) /\ key[n] = key[p]
        /\ pc' = [pc EXCEPT ![p] = "found"] /\ UNCHANGED <<left, expected>>
     \/ /\ ~Beyond(n, key[p]) /\ key[n] < key[p]
        /\ left' = [left EXCEPT ![p] = n]
        /\ expected' = [expected EXCEPT ![p] = next[n][level[p]]]
        /\ UNCHANGED pc
  /\ UNCHANGED <<key, size, next, top, level, path, start, reader>>

(* fetch_max, once, before the levels above the start are linked.          *)
Raise(p) ==
  /\ pc[p] = "raise"
  /\ top' = IF size[p] > top THEN size[p] ELSE top
  /\ pc' = [pc EXCEPT ![p] = "store"]
  /\ UNCHANGED <<key, size, next, level, left, expected, path, start, reader>>
-----------------------------------------------------------------------------
(* The nodes that a walk along level i meets.                              *)
Along(i) ==
  LET walk[k \in 0 .. Cardinality(Inserter)] ==
        IF k = 0 THEN <<next[HeadNode][i]>>
        ELSE IF Last(walk[k - 1]) = Null THEN walk[k - 1]
             ELSE Append(walk[k - 1], next[Last(walk[k - 1])][i])
  IN walk[Cardinality(Inserter)]
Present == {key[n] : n \in ToSet(Along(0)) \ {Null}}

(* find and lower_bound descend alike; they differ at the bottom, where    *)
(* find returns end() and lower_bound the first node beyond the query.     *)
Ask ==
  /\ reader.pc = "idle"
  /\ \E q \in Code, i \in 1 .. top :
       reader' = [reader EXCEPT !.pc = "search", !.query = q, !.level = i - 1, !.before = Present]
  /\ UNCHANGED <<key, size, next, top, inserterVars>>

(* A search that stops at the first node beyond its query.                 *)
WrongSearch ==
  /\ reader.pc = "search"
  /\ LET candidate == next[reader.left][reader.level] IN
     reader' = IF Beyond(candidate, reader.query) \/ key[candidate] = reader.query
                 THEN [reader EXCEPT !.pc = "answered", !.answer = candidate]
               ELSE [reader EXCEPT !.left = candidate]
  /\ UNCHANGED <<key, size, next, top, inserterVars>>

Search ==
  /\ reader.pc = "search"
  /\ LET i == reader.level
         candidate == next[reader.left][i] IN
     reader' = IF Beyond(candidate, reader.query) /\ i > 0 THEN [reader EXCEPT !.level = i - 1]
               ELSE IF Beyond(candidate, reader.query) \/ key[candidate] = reader.query
                 THEN [reader EXCEPT !.pc = "answered", !.answer = candidate]
               ELSE [reader EXCEPT !.left = candidate]
  /\ UNCHANGED <<key, size, next, top, inserterVars>>

Frozen == \A p \in Inserter : pc[p] \in {"linked", "found"}
Finished == Frozen /\ reader.pc = "answered" /\ UNCHANGED vars

Next ==
  \/ \E p \in Inserter :
       Enter(p) \/ Descend(p) \/ Store(p) \/ Link(p) \/ LoseRace(p) \/ Chase(p) \/ Raise(p)
  \/ Ask \/ Search \/ Finished

Spec == Init /\ [][Next]_vars
-----------------------------------------------------------------------------
(* coroutine_parallel_for_each: each node forks the walks of what lies     *)
(* between the successors it has at two adjacent levels.                   *)
RECURSIVE Visits(_, _)
Visits(a, bound) ==
  LET levels == IF a = HeadNode THEN top ELSE size[a]
      Fork(i) == LET to == IF i + 1 = levels THEN bound ELSE next[a][i + 1] IN
                 IF next[a][i] # to THEN Visits(next[a][i], to) ELSE << >>
  IN FlattenSeq([j \in 1 .. levels |-> Fork(levels - j)])
       \o IF a = HeadNode THEN << >> ELSE <<key[a]>>

(* A FrozenCursor is a node and a level; its key is the successor's.       *)
CodeOf(c) == LET n == next[c.node][c.level] IN IF n = Null THEN SLOTS * SLOTS ELSE key[n]
Down(c) == [c EXCEPT !.level = @ - 1]
RECURSIVE RightTo(_, _)
RightTo(c, lo) == IF CodeOf(c) < lo THEN RightTo([c EXCEPT !.node = next[c.node][c.level]], lo) ELSE c

(* skiplist_partition_assign, as the pairs of a child slot and the cursor  *)
(* it is given; a slot that has a cursor keeps it.                         *)
RECURSIVE Assign(_, _, _, _, _, _)
Assign(cursor, lo, hi, frame, width, result) ==
  IF lo >= hi THEN result
  ELSE LET c == RightTo(cursor, lo)
           kc == (CodeOf(c) - frame) \div width
           first == frame + kc * width
           before == IF c.level > 0 /\ first > lo
                       THEN Assign(Down(c), lo, first, frame, width, result) ELSE result
           here == IF \E r \in before : r[1] = kc THEN before ELSE before \cup {<<kc, c>>}
       IN IF CodeOf(c) >= hi
            THEN IF c.level = 0 THEN result ELSE Assign(Down(c), lo, hi, frame, width, result)
            ELSE Assign(RightTo(c, first + width), first + width, hi, frame, width, here)
Partition(cursor, frame, width) == Assign(cursor, frame, frame + SLOTS * width, frame, width, {})

(* Two levels of frames, from make_cursor down to single codes.            *)
Leaves ==
  UNION {{[code |-> f[1] * SLOTS + l[1], cursor |-> l[2]] : l \in Partition(f[2], f[1] * SLOTS, 1)} :
         f \in Partition([node |-> HeadNode, level |-> top - 1], 0, SLOTS)}
-----------------------------------------------------------------------------
(* The searches, whatever is being inserted meanwhile: no search misses a  *)
(* key that was in the list when it began, and what it returns is the      *)
(* first node not below its query, itself in the list.                     *)
SearchesFind ==
  reader.pc = "answered" =>
    /\ \A k \in reader.before : k >= reader.query =>
         reader.answer # Null /\ key[reader.answer] <= k
    /\ reader.answer # Null => /\ key[reader.answer] >= reader.query
                              /\ reader.answer \in ToSet(Along(0))

(* The express lanes: each level is sorted and is a part of the level      *)
(* below, a key enters the list once, whoever draws, and an insertion that *)
(* returned is linked at all its levels, which _top counts.  The asserts   *)
(* of _link_level and try_emplace hold.                                    *)
LanesNest ==
  /\ \A i \in Level :
       LET lane == SelectSeq(Along(i), LAMBDA n : n # Null) IN
       /\ \A j \in 1 .. Len(lane) - 1 : key[lane[j]] < key[lane[j + 1]]
       /\ i > 0 => ToSet(lane) \subseteq ToSet(Along(i - 1))
  /\ \A p \in Inserter :
       /\ pc[p] = "linked" => size[p] <= top /\ \A i \in 0 .. size[p] - 1 : p \in ToSet(Along(i))
       /\ pc[p] = "found" => key[p] \in Present /\ p \notin ToSet(Along(0))
       /\ pc[p] = "store" => Beyond(expected[p], key[p])

(* The frozen walks: the parallel one calls its action once for each key,  *)
(* and the partition gives a cursor to every slot that has a key and to no *)
(* other, placed before the slot's first key.                              *)
FrozenWalksCover ==
  Frozen =>
    /\ ToSet(Visits(HeadNode, Null)) = Present /\ Len(Visits(HeadNode, Null)) = Cardinality(Present)
    /\ {l.code : l \in Leaves} = Present /\ Cardinality(Leaves) = Cardinality(Present)
    /\ \A l \in Leaves : l.cursor.node = HeadNode \/ key[l.cursor.node] < l.code

(* The lanes while they are built, and the walks once they are frozen.     *)
LanesSound == LanesNest /\ FrozenWalksCover
=============================================================================
