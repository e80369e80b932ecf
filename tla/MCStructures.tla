----------------------------- MODULE MCStructures -----------------------------
(***************************************************************************)
(* The data structures, each for itself: a behaviour is that of one of     *)
(* them, and the variables of the others stay as they are.                 *)
(***************************************************************************)
EXTENDS Integers, Sequences, TLC

CONSTANTS Nothing, Sentinel    (* model values: no node, no item; a node     *)

VARIABLES
  which,                                                      (* structure   *)
  head, listNext, listPc,                                     (* "list"      *)
  key, size, next, top, pc, level, left, expected, path, start, reader,
                                                              (* "skiplist"  *)
  link, place, seen, walk,                                    (* "ring"      *)
  state, version, at, goal, known, items,                     (* "futex"     *)
  root, shadow,                                               (* "trie"      *)
  main, writes, call, interned,                               (* "ctrie"     *)
  entries, shift, count, dictionary,                          (* "table"     *)
  memory, first, last, contents,                              (* "deque"     *)
  rootCount, roots, cell, owed, desired, does, unpinned, live, operations,
                                                              (* "roots"     *)
  next_start, live_count, waiters, asks, scheduled, cycles, clock, since,
                                                              (* "cycles"    *)
  slabNext, slabSize, slabHead, cursor, end, alternate, orphans, leaving, blocks,
                                                              (* "slabs"     *)
  bagHead, tail, bagSize, bagNext, elements, allocated, pushed, popped,
                                                              (* "bag"       *)
  arrays, bottom, pending, front, cached_top, owner, thief, taken, late
                                                              (* "stealing"  *)

(* Four nodes announced at one key. *)
List == INSTANCE TransactionList WITH
  Node <- {"n1", "n2", "n3", "n4"}, Absent <- "absent", Null <- "null", next <- listNext, pc <- listPc

(* Two insertions and a search; a third node is there already. *)
Skip == INSTANCE Skiplist WITH
  Inserter <- {"p1", "p2", "p3"}, HeadNode <- Sentinel, Null <- Nothing, SLOTS <- 2, LEVELS <- 2

Circle == INSTANCE Ring WITH Thread <- {"t1", "t2"}, Walker <- {"w1", "w2"}

Lock == INSTANCE Futex WITH Consumer <- {"c1", "c2"}, Producer <- {"p1", "p2"}

(* Four keys of three bits, two slots to a node, three levels. *)
Map == INSTANCE Trie WITH Key <- {0, 1, 3, 6}, SYMBOL_WIDTH <- 1, WORD_WIDTH <- 3, Empty <- Nothing, TOUCHED <- 3

(* Three keys of two symbols, two of which share them all; from a chain of *)
(* INodes, a pair, both, or a single key, three threads do one operation   *)
(* each.                                                                   *)
Interned == INSTANCE Ctrie WITH
  Thread <- {"t1", "t2", "t3"}, Key <- {"a", "b", "c"}, LEVELS <- 2,
  Hash <- [a |-> <<0, 0>>, b |-> <<0, 0>>, c |-> <<0, 1>>],
  Absent <- Nothing, Default <- Sentinel, shadow <- interned,
  Operation <- [t1 |-> {<<"erase", "a", 1>>, <<"erase", "b", 1>>, <<"evict", "a", 0>>, <<"evict", "c", 0>>},
                t2 |-> {<<"erase", "b", 1>>, <<"erase", "c", 1>>, <<"put", "a", 2>>, <<"put", "b", 1>>,
                        <<"offer", "a", 1>>},
                t3 |-> {<<"find", "a", 1>>, <<"offer", "b", 3>>}],
  Initial <- LET Leaf(k) == [key |-> k, value |-> 0]
                 Pair(x, y) == [s \in {0, 1} |-> IF s = 0 THEN x ELSE y]
                 Node(slots) == [kind |-> "C", id |-> 0, body |-> slots]
                 Only(b) == Node([s \in {0} |-> b])
                 Down(i) == [node |-> i]
                 List2 == [kind |-> "L", id |-> 0,
                           body |-> <<[id |-> 0, leaf |-> Leaf("b")], [id |-> 0, leaf |-> Leaf("a")]>>]
             IN {<<Only(Down(2)), Only(Down(3)), List2>>,
                 <<Only(Down(2)), Node(Pair(Leaf("a"), Leaf("c")))>>,
                 <<Only(Down(2)), Node(Pair(Down(3), Leaf("c"))), List2>>,
                 <<Only(Leaf("a"))>>}

(* Tables of four and eight entries; two keys share a hash, and several a home. *)
Hashed == INSTANCE Table WITH
  TableKey <- 1 .. 7, Hash <- <<14, 15, 12, 0, 1, 3, 8>>, HASH_WIDTH <- 4, FIRST_WIDTH <- 2,
  LAST_WIDTH <- 3, Vacant <- Nothing

Array == INSTANCE Deque WITH Item <- {1, 2}, Junk <- Nothing, LENGTH <- 4

(* Two threads with two roots each, two addresses, one shared root.        *)
Rooted == INSTANCE Roots WITH
  Thread <- {"t1", "t2"}, Object <- {"o1", "o2"}, Local <- {1, 2}, Nil <- "nil", OPERATIONS <- 3,
  count <- rootCount, root <- roots

(* Three bits, so that they go round and that all can be in use.           *)
Waiting == INSTANCE Cycles WITH BITS <- 3, Waiter <- {"w1", "w2"}, MOST <- 2, CYCLES <- 4

(* A request that three of fit in a slab, and one that needs its own.      *)
Bump == INSTANCE Slabs WITH
  Thread <- {"t1", "t2"}, SLABS <- 3, BLOCKS <- 2, Nil <- 0, HEADER <- 2, DEFAULT_SLAB_SIZE <- 8,
  Request <- {[count |-> 3, alignment |-> 2], [count |-> 8, alignment |-> 2]},
  next <- slabNext, size <- slabSize, head <- slabHead

Report == INSTANCE Bag WITH
  Owner <- {"b1", "b2"}, Element <- {"x", "y"}, Node <- 1 .. 4, CAPACITY <- 2, LIMIT <- 4, Nil <- 0,
  head <- bagHead, size <- bagSize, next <- bagNext

(* From an array of one cell to one of four.                               *)
Stealing == INSTANCE WorkStealing WITH
  Thief <- {"t1", "t2"}, CAPACITY <- 1, PUSHES <- 3, PENDING <- 2, top <- front

-----------------------------------------------------------------------------
listVars == <<head, listNext, listPc>>
skipVars == <<key, size, next, top, pc, level, left, expected, path, start, reader>>
ringVars == <<link, place, seen, walk>>
futexVars == <<state, version, at, goal, known, items>>
trieVars == <<root, shadow>>
ctrieVars == <<main, writes, call, interned>>
tableVars == <<entries, shift, count, dictionary>>
dequeVars == <<memory, first, last, contents>>
rootVars == <<rootCount, roots, cell, owed, desired, does, unpinned, live, operations>>
cycleVars == <<next_start, live_count, waiters, asks, scheduled, cycles, clock, since>>
slabVars == <<slabNext, slabSize, slabHead, cursor, end, alternate, orphans, leaving, blocks>>
bagVars == <<bagHead, tail, bagSize, bagNext, elements, allocated, pushed, popped>>
stealingVars == <<arrays, bottom, pending, front, cached_top, owner, thief, taken, late>>
linkedVars == <<listVars, skipVars, ringVars, futexVars>>
mapVars == <<trieVars, ctrieVars, tableVars, dequeVars>>
memoryVars == <<rootVars, cycleVars, slabVars, bagVars, stealingVars>>
vars == <<which, linkedVars, mapVars, memoryVars>>

(* p3 has inserted key 1; p1 inserts key 2, and p2 the same or a later one. *)
SkipInit ==
  /\ key \in {[p1 |-> 2, p2 |-> k, p3 |-> 1] : k \in {2, 3}}
  /\ size \in [{"p1", "p2", "p3"} -> {1, 2}] /\ top = size["p3"]
  /\ next = [n \in {"p1", "p2", "p3", Sentinel} |->
               [i \in {0, 1} |-> IF n = Sentinel /\ i < size["p3"] THEN "p3" ELSE Nothing]]
  /\ pc = [p1 |-> "enter", p2 |-> "enter", p3 |-> "linked"]
  /\ level = [p \in {"p1", "p2", "p3"} |-> 0] /\ start = [p \in {"p1", "p2", "p3"} |-> 1]
  /\ left = [p \in {"p1", "p2", "p3"} |-> Sentinel] /\ expected = [p \in {"p1", "p2", "p3"} |-> Nothing]
  /\ path = [p \in {"p1", "p2", "p3"} |-> [i \in {0, 1} |-> <<Sentinel, Nothing>>]]
  /\ reader = Skip!Idle

Init ==
  /\ which \in {"list", "skiplist", "ring", "futex", "trie", "ctrie", "table", "deque",
               "roots", "cycles", "slabs", "bag", "stealing"}
  /\ List!Init
  /\ IF which = "skiplist" THEN SkipInit ELSE
       /\ key = Nothing /\ size = Nothing /\ next = Nothing /\ top = Nothing /\ pc = Nothing
       /\ level = Nothing /\ left = Nothing /\ expected = Nothing /\ path = Nothing
       /\ start = Nothing /\ reader = Nothing
  /\ IF which = "ctrie" THEN Interned!Init ELSE
       main = Nothing /\ writes = Nothing /\ call = Nothing /\ interned = Nothing
  /\ IF which = "roots" THEN Rooted!Init ELSE
       /\ rootCount = Nothing /\ roots = Nothing /\ cell = Nothing /\ owed = Nothing /\ desired = Nothing
       /\ does = Nothing /\ unpinned = Nothing /\ live = Nothing /\ operations = Nothing
  /\ IF which = "cycles" THEN Waiting!Init ELSE
       /\ next_start = Nothing /\ live_count = Nothing /\ waiters = Nothing /\ asks = Nothing
       /\ scheduled = Nothing /\ cycles = Nothing /\ clock = Nothing /\ since = Nothing
  /\ IF which = "slabs" THEN Bump!Init ELSE
       /\ slabNext = Nothing /\ slabSize = Nothing /\ slabHead = Nothing /\ cursor = Nothing /\ end = Nothing
       /\ alternate = Nothing /\ orphans = Nothing /\ leaving = Nothing /\ blocks = Nothing
  /\ IF which = "bag" THEN Report!Init ELSE
       /\ bagHead = Nothing /\ tail = Nothing /\ bagSize = Nothing /\ bagNext = Nothing
       /\ elements = Nothing /\ allocated = Nothing /\ pushed = Nothing /\ popped = Nothing
  /\ IF which = "stealing" THEN Stealing!Init ELSE
       /\ arrays = Nothing /\ bottom = Nothing /\ pending = Nothing /\ front = Nothing
       /\ cached_top = Nothing /\ owner = Nothing /\ thief = Nothing /\ taken = Nothing /\ late = Nothing
  /\ IF which = "deque" THEN Array!Init ELSE
       memory = Nothing /\ first = Nothing /\ last = Nothing /\ contents = Nothing
  /\ IF which = "table" THEN Hashed!Init ELSE
       entries = Nothing /\ shift = Nothing /\ count = Nothing /\ dictionary = Nothing
  /\ Circle!Init /\ Lock!Init /\ Map!Init

Next ==
  \/ /\ which = "list" /\ List!Next
     /\ UNCHANGED <<which, skipVars, ringVars, futexVars, mapVars, memoryVars>>
  \/ /\ which = "skiplist" /\ Skip!Next
     /\ UNCHANGED <<which, listVars, ringVars, futexVars, mapVars, memoryVars>>
  \/ /\ which = "ring" /\ Circle!Next
     /\ UNCHANGED <<which, listVars, skipVars, futexVars, mapVars, memoryVars>>
  \/ /\ which = "futex" /\ Lock!Next
     /\ UNCHANGED <<which, listVars, skipVars, ringVars, mapVars, memoryVars>>
  \/ /\ which = "trie" /\ Map!Next
     /\ UNCHANGED <<which, ctrieVars, tableVars, dequeVars, linkedVars, memoryVars>>
  \/ /\ which = "ctrie" /\ Interned!Next
     /\ UNCHANGED <<which, trieVars, tableVars, dequeVars, linkedVars, memoryVars>>
  \/ /\ which = "table" /\ Hashed!Next
     /\ UNCHANGED <<which, trieVars, ctrieVars, dequeVars, linkedVars, memoryVars>>
  \/ /\ which = "deque" /\ Array!Next
     /\ UNCHANGED <<which, trieVars, ctrieVars, tableVars, linkedVars, memoryVars>>
  \/ /\ which = "roots" /\ Rooted!Next
     /\ UNCHANGED <<which, stealingVars, cycleVars, slabVars, bagVars, linkedVars, mapVars>>
  \/ /\ which = "cycles" /\ Waiting!Next
     /\ UNCHANGED <<which, stealingVars, rootVars, slabVars, bagVars, linkedVars, mapVars>>
  \/ /\ which = "slabs" /\ Bump!Next
     /\ UNCHANGED <<which, stealingVars, rootVars, cycleVars, bagVars, linkedVars, mapVars>>
  \/ /\ which = "bag" /\ Report!Next
     /\ UNCHANGED <<which, stealingVars, rootVars, cycleVars, slabVars, linkedVars, mapVars>>
  \/ /\ which = "stealing" /\ Stealing!Next
     /\ UNCHANGED <<which, rootVars, cycleVars, slabVars, bagVars, linkedVars, mapVars>>

Spec == Init /\ [][Next]_vars
-----------------------------------------------------------------------------
(* A race of two announcements loses no node: TransactionList.  A search   *)
(* during insertions finds what is there, the lanes nest, and the frozen   *)
(* walks cover the list: Skiplist.  A walk of the ring visits the          *)
(* registered threads: Ring.                                               *)
LinkedSound ==
  /\ which = "list" => List!ListSound
  /\ which = "skiplist" => Skip!SearchesFind /\ Skip!LanesSound
  /\ which = "ring" => Circle!RingSound

(* The pointers implement an announcement that is one step: TransactionList. *)
AnnouncementSpec == List!AnnouncementSpec

(* No client of the mutex sleeps that nobody will wake: Futex.  Who waits  *)
(* for collections goes on after as many, and no sooner: Cycles.           *)
WaitersWake ==
  /\ which = "futex" => Lock!NoLostWakeUp
  /\ which = "cycles" => Waiting!WaitersSeeWholeCycles

(* A look-up in the trie finds what was last put there, and the table is   *)
(* the dictionary of what was put there: Trie, Table.  Operations of the   *)
(* trie of interned strings are atomic: Ctrie.                             *)
MapsSound ==
  /\ which = "trie" => Map!TrieSound
  /\ which = "ctrie" => Interned!CtrieSound
  /\ which = "table" => Hashed!TableSound

(* The counts of roots settle, and what a thread holds is there: Roots.    *)
(* Slabs and blocks have one owner: Slabs.  The window of the deque holds  *)
(* its contents, and the bag what was pushed: Deque, Bag.  Owner and       *)
(* thieves share the items of a work queue out: WorkStealing.              *)
MemorySound ==
  /\ which = "roots" => Rooted!RootsSound
  /\ which = "slabs" => Bump!SlabsSound
  /\ which = "deque" => Array!WindowHoldsContents
  /\ which = "bag" => Report!BagSound
  /\ which = "stealing" => Stealing!WorkStealingSound
=============================================================================
