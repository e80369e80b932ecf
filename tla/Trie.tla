-------------------------------- MODULE Trie --------------------------------
(***************************************************************************)
(* The maps of the world: an immutable radix trie (array_mapped_trie.hpp)  *)
(* behind PersistentMap, and the rebuild that makes the next tick's map    *)
(* from this tick's and the frozen modifications (waitable_map.hpp).       *)
(*                                                                         *)
(* A node is its prefix, its shift and its slots; the domain of the slots  *)
(* is the bitmap.  A leaf has shift 0 and holds values, which are sets of  *)
(* entities, as in the waiter index; a plain map only writes and clears    *)
(* them.  The cursor a frame is handed is the modifications it leads to.   *)
(***************************************************************************)
EXTENDS Integers, FiniteSets, FiniteSetsExt, SequencesExt, Bitwise

CONSTANTS Key,                       (* the codes in use                     *)
          SYMBOL_WIDTH, WORD_WIDTH,
          Empty,                     (* a null root                          *)
          TOUCHED                    (* bound: the modifications of a tick   *)

VARIABLES root, shadow               (* the map, and what it should hold     *)
vars == <<root, shadow>>

Slot == 0 .. 2 ^ SYMBOL_WIDTH - 1
Value == {[ids |-> s] : s \in SUBSET {1, 2} \ {{}}}
Absent == {}                         (* nullopt, against {value}             *)

Prefix(key, shift) == key - (key % 2 ^ (shift + SYMBOL_WIDTH))
Index(key, shift) == (key \div 2 ^ shift) % 2 ^ SYMBOL_WIDTH
Make(prefix, shift, slots) == [prefix |-> prefix, shift |-> shift, slots |-> slots]
Singleton(key, v) == Make(Prefix(key, 0), 0, Index(key, 0) :> v)
Includes(n, key) == Prefix(key, n.shift) = n.prefix
Larger(x, y) == IF x > y THEN x ELSE y

PrefixesAreDisjoint(a, b) ==
  LET coarse == Larger(a.shift, b.shift) IN Prefix(a.prefix, coarse) # Prefix(b.prefix, coarse)

(* The compressed arrays of container/compressed_array.hpp.                *)
InsertOrExchange(slots, i, item) == (i :> item) @@ slots
EraseIndex(slots, i) == Restrict(slots, DOMAIN slots \ {i})
MergeArrays(a, b, resolved) == resolved @@ a @@ b        (* where both are *)

(* insert_child, clone_and_assign_child: a child goes by its prefix.       *)
InsertChild(n, child) ==
  [n EXCEPT !.slots = InsertOrExchange(@, Index(child.prefix, n.shift), child)]
AssignChild(n, child) == [n EXCEPT !.slots[Index(child.prefix, n.shift)] = child]

(* The lowest level at which two keys have one prefix.                     *)
ShiftFromKeys(x, y) ==
  Min({s \in 0 .. WORD_WIDTH : s % SYMBOL_WIDTH = 0 /\ Prefix(x, s) = Prefix(y, s)})

RECURSIVE Get(_, _), Pairs(_), Merge(_, _), InsertOrAssign(_, _, _), Erase(_, _), PartitionMask(_, _, _), VisitInRegion(_, _),
  ForEachMask(_, _, _), FrontOf(_), BackOf(_)

Get(n, key) ==
  IF n = Empty THEN Absent
  ELSE IF ~Includes(n, key) \/ Index(key, n.shift) \notin DOMAIN n.slots THEN Absent
  ELSE LET item == n.slots[Index(key, n.shift)] IN
       IF n.shift = 0 THEN {item} ELSE Get(item, key)

InOrder(n) == SetToSortSeq(DOMAIN n.slots, LAMBDA x, y : x < y)

(* front, back: the time wheel's next tick is the front's.  The index at   *)
(* the back is reckoned for a bitmap of 64 bits, whatever its width, so    *)
(* the key of the back is right in no narrower trie.                       *)
FrontOf(n) ==
  LET i == Min(DOMAIN n.slots) IN IF n.shift = 0 THEN <<n.prefix + i, n.slots[i]>> ELSE FrontOf(n.slots[i])
BackOf(n) ==
  LET i == Max(DOMAIN n.slots) IN
  IF n.shift = 0 THEN <<n.prefix | (i + 64 - 2 ^ SYMBOL_WIDTH), n.slots[i]>> ELSE BackOf(n.slots[i])

(* for_each, as the sequence of the pairs it visits.                       *)
Pairs(n) ==
  IF n = Empty THEN << >>
  ELSE FlattenSeq([j \in 1 .. Cardinality(DOMAIN n.slots) |->
         LET i == InOrder(n)[j] IN
         IF n.shift = 0 THEN << <<n.prefix + i, n.slots[i]>> >> ELSE Pairs(n.slots[i])])

(* Operators whose name begins with Wrong are mistakes the code could have  *)
(* made; nothing uses them: WrongApart forgets the wrapping, and WrongMerge *)
(* loses what the coarser node has in the slot of the finer one.           *)
WrongMerge(a, b) ==
  IF b = Empty THEN a ELSE IF a = Empty THEN b ELSE
  LET shift == IF PrefixesAreDisjoint(a, b) THEN ShiftFromKeys(a.prefix, b.prefix) ELSE Larger(a.shift, b.shift)
      items(n) == IF n.shift = shift THEN n.slots ELSE Index(n.prefix, shift) :> n
  IN Make(Prefix(a.prefix, shift), shift, items(a) @@ items(b))

(* A node that lies deeper stands as the only item of an array.  Ties go   *)
(* to the left.                                                            *)
Merge(a, b) ==
  IF b = Empty THEN a ELSE IF a = Empty THEN b ELSE
  LET shift == IF PrefixesAreDisjoint(a, b) THEN ShiftFromKeys(a.prefix, b.prefix) ELSE Larger(a.shift, b.shift)
      items(n) == IF n.shift = shift THEN n.slots ELSE Index(n.prefix, shift) :> n
      x == items(a)
      y == items(b)
      resolved == [i \in DOMAIN x \cap DOMAIN y |-> IF shift = 0 THEN x[i] ELSE Merge(x[i], y[i])]
  IN Make(Prefix(a.prefix, shift), shift, MergeArrays(x, y, resolved))
Insert(n, key, v) == Merge(Singleton(key, v), n)
Disjoint(a, b) ==
  LET shift == ShiftFromKeys(a.prefix, b.prefix) IN
  InsertChild(InsertChild(Make(Prefix(a.prefix, shift), shift, << >>), a), b)

InsertOrAssign(n, key, v) ==
  LET i == Index(key, n.shift) IN
  IF ~Includes(n, key) THEN Disjoint(n, Singleton(key, v))
  ELSE [n EXCEPT !.slots = InsertOrExchange(@, i, IF n.shift = 0 THEN v
                                                  ELSE IF i \in DOMAIN @ THEN InsertOrAssign(@[i], key, v)
                                                  ELSE Singleton(key, v))]

(* The last value of a leaf leaves the leaf behind.                        *)
Erase(n, key) ==
  LET i == Index(key, n.shift) IN
  IF ~Includes(n, key) \/ i \notin DOMAIN n.slots THEN n
  ELSE IF n.shift = 0 THEN [n EXCEPT !.slots = EraseIndex(@, i)]
  ELSE AssignChild(n, Erase(n.slots[i], key))

(* The subtrees whose keys agree with key above the bits below, and the    *)
(* rest: the time wheel takes what is due.                                 *)
PartitionMask(n, key, below) ==
  IF n = Empty THEN <<Empty, Empty>>
  ELSE LET wide == Larger(below, n.shift + SYMBOL_WIDTH) IN
       IF n.prefix \div 2 ^ wide # key \div 2 ^ wide THEN <<Empty, n>>
       ELSE IF below >= n.shift + SYMBOL_WIDTH THEN <<n, Empty>>
       ELSE LET part == [i \in DOMAIN n.slots |-> PartitionMask(n.slots[i], key, below)]
                gather(k) == FoldSeq(LAMBDA i, acc : Merge(acc, part[i][k]), Empty,
                                     InOrder(n))
            IN <<gather(1), gather(2)>>

(* for_each_mask: the pairs whose keys agree with key in the masked bits.  *)
ForEachMask(n, key, mask) ==
  IF n = Empty THEN << >>
  ELSE LET above == 2 ^ (n.shift + SYMBOL_WIDTH)
           Agree(k, bits) == ((k ^^ key) & bits & mask) = 0
           within == SelectSeq(InOrder(n), LAMBDA i : Agree(n.prefix + i * 2 ^ n.shift, (2 ^ SYMBOL_WIDTH - 1) * 2 ^ n.shift))
       IN IF ~Agree(n.prefix, 2 ^ WORD_WIDTH - above) THEN << >>
          ELSE FlattenSeq([j \in DOMAIN within |->
                 LET i == within[j] IN
                 IF n.shift = 0 THEN << <<n.prefix + i, n.slots[i]>> >> ELSE ForEachMask(n.slots[i], key, mask)])

(* A coordinate's code interleaves its axes, 1 in the odd bits and 0 in    *)
(* the even ones, each in two's complement.                                *)
Decode(code, axis) ==
  LET mine == {b \in 0 .. WORD_WIDTH - 1 : b % 2 = axis}
      bit(b) == ((code \div 2 ^ b) % 2) * 2 ^ (b \div 2) IN
  MapThenSumSet(LAMBDA b : IF b = Max(mine) THEN -bit(b) ELSE bit(b), mine)
InBox(code, box) == \A a \in 0 .. 1 : box[a][1] <= Decode(code, a) /\ Decode(code, a) <= box[a][2]

(* The block of a node whose free bits hold an axis's sign wraps around,   *)
(* and is neither pruned nor taken whole on that axis's account.           *)
WrongApart(corners, side) == corners[2] < side[1] \/ side[2] < corners[1]
Apart(corners, side) == corners[1] <= corners[2] /\ (corners[2] < side[1] \/ side[2] < corners[1])
Contained(corners, side) == corners[1] <= corners[2] /\ side[1] <= corners[1] /\ corners[2] <= side[2]

VisitInRegion(n, box) ==
  IF n = Empty THEN << >>
  ELSE LET last == Min({n.prefix + 2 ^ (n.shift + SYMBOL_WIDTH), 2 ^ WORD_WIDTH}) - 1
           corners(a) == <<Decode(n.prefix, a), Decode(last, a)>> IN
       IF \E a \in 0 .. 1 : Apart(corners(a), box[a]) THEN << >>
       ELSE IF \A a \in 0 .. 1 : Contained(corners(a), box[a]) THEN Pairs(n)
       ELSE IF n.shift > 0
         THEN FlattenSeq([j \in 1 .. Cardinality(DOMAIN n.slots) |-> VisitInRegion(n.slots[InOrder(n)[j]], box)])
       ELSE SelectSeq(Pairs(n), LAMBDA p : InBox(p[1], box))
-----------------------------------------------------------------------------
(* A modification: NONE, WRITE, CLEAR or MERGE with a value.               *)
Action == {[tag |-> "NONE", value |-> [ids |-> {}]], [tag |-> "CLEAR", value |-> [ids |-> {}]],
           [tag |-> "WRITE", value |-> [ids |-> {1}]], [tag |-> "MERGE", value |-> [ids |-> {2}]]}

Combine(old, action) ==
  CASE action.tag = "WRITE" -> {action.value}
    [] action.tag = "CLEAR" -> Absent
    [] action.tag = "MERGE" -> {[ids |-> UNION {o.ids : o \in old} \cup action.value.ids]}
    [] action.tag = "NONE" -> old

(* One modification after another.                                         *)
Serial(n, mods) ==
  LET apply(key, acc) ==
        LET old == Get(acc, key)
            new == Combine(old, mods[key]) IN
        IF mods[key].tag = "NONE" THEN acc
        ELSE IF new # Absent THEN Insert(acc, key, CHOOSE v \in new : TRUE)
        ELSE IF old # Absent THEN Erase(acc, key) ELSE acc
  IN FoldLeft(LAMBDA acc, key : apply(key, acc), n, SetToSortSeq(DOMAIN mods, LAMBDA x, y : x < y))

(* unified_assemble: the parts that are not null, or the only one.         *)
Assemble(prefix, shift, out) ==
  LET full == {i \in DOMAIN out : out[i] # Empty} IN
  IF full = {} THEN Empty
  ELSE IF Cardinality(full) = 1 THEN out[CHOOSE i \in full : TRUE]
  ELSE Make(prefix, shift, Restrict(out, full))

Extract(n, slot, shift) ==
  IF n = Empty THEN Empty
  ELSE IF n.shift = shift THEN IF slot \in DOMAIN n.slots THEN n.slots[slot] ELSE Empty
  ELSE IF Index(n.prefix, shift) = slot THEN n ELSE Empty

Within(mods, lo, hi) == Restrict(mods, {k \in DOMAIN mods : lo <= k /\ k < hi})

RECURSIVE Frame(_, _, _, _), ParallelRebuild(_, _)
(* unified_leaf: what the cursor meets in the leaf's range.                *)
Leaf(prefix, n, mods) == Serial(n, Within(mods, prefix, prefix + 2 ^ SYMBOL_WIDTH))

(* unified_frame: a child without modifications is shared.                 *)
Frame(prefix, shift, n, mods) ==
  IF shift = 0 THEN Leaf(prefix, n, mods)
  ELSE LET child(c) == Extract(n, c, shift)
           theirs(c) == Within(mods, prefix + c * 2 ^ shift, prefix + (c + 1) * 2 ^ shift)
           slots == 0 .. 2 ^ Min({SYMBOL_WIDTH, WORD_WIDTH - shift}) - 1
       IN Assemble(prefix, shift, [c \in slots |->
            IF theirs(c) = << >> THEN child(c)
            ELSE Frame(prefix + c * 2 ^ shift, shift - SYMBOL_WIDTH, child(c), theirs(c))])

TopShift == ((WORD_WIDTH - 1) \div SYMBOL_WIDTH) * SYMBOL_WIDTH

(* ArrayMappedTrie::coroutine_parallel_rebuild: by the source's nodes, and *)
(* what lies to either side of them is merged in.                          *)
ParallelRebuild(n, mods) ==
  IF mods = << >> THEN n
  ELSE IF n = Empty THEN Serial(n, mods)
  ELSE IF n.shift = 0 \/ Cardinality(DOMAIN mods) < 2 THEN Serial(n, mods)
  ELSE LET upper == n.prefix + 2 ^ (n.shift + SYMBOL_WIDTH)
           in == Within(mods, n.prefix, upper)
           runs == {Index(k, n.shift) : k \in DOMAIN in}
           mine(c) == Restrict(in, {k \in DOMAIN in : Index(k, n.shift) = c})
           inside == IF in = << >> THEN n
                     ELSE Assemble(n.prefix, n.shift, [c \in DOMAIN n.slots \cup runs |->
                            ParallelRebuild(IF c \in DOMAIN n.slots THEN n.slots[c] ELSE Empty, mine(c))])
           side(lo, hi) == Serial(Empty, Within(mods, lo, hi))
       IN Merge(Merge(side(0, n.prefix), inside), side(upper, 2 ^ WORD_WIDTH))
-----------------------------------------------------------------------------
Init == root = Empty /\ shadow = [k \in Key |-> Absent]

(* The rebuild of a tick, or the one it is tested against, which is not    *)
(* shown the modifications that do nothing.                                *)
Rebuild == \E touched \in {K \in SUBSET Key : Cardinality(K) <= TOUCHED} : \E mods \in [touched -> Action] :
  LET real == Restrict(mods, {k \in touched : mods[k].tag # "NONE"}) IN
  /\ root' \in {Frame(0, TopShift, root, mods), ParallelRebuild(root, real)}
  /\ shadow' = [k \in Key |-> IF k \in touched THEN Combine(shadow[k], mods[k]) ELSE shadow[k]]

Set == \E k \in Key, v \in Value :
  /\ root' = IF root = Empty THEN Singleton(k, v) ELSE InsertOrAssign(root, k, v)
  /\ shadow' = [shadow EXCEPT ![k] = {v}]

TryErase == \E k \in Key :
  /\ root # Empty
  /\ root' = Erase(root, k)
  /\ shadow' = [shadow EXCEPT ![k] = Absent]

(* PersistentSet, where it does not matter which value wins: its rebuild   *)
(* merges one set after another, as many as there are modifiers.           *)
SetOf(K, v) == FoldLeft(LAMBDA n, k : IF n = Empty THEN Singleton(k, v) ELSE InsertOrAssign(n, k, v),
                        Empty, SetToSeq(K))
Union(n, sets, v) == FoldLeft(LAMBDA acc, K : Merge(acc, SetOf(K, v)), n, sets)
RebuildSet == \E K \in SUBSET Key, k \in Key : LET v == [ids |-> {1}] IN
  /\ root' = Union(root, <<K, {k}>>, v)
  /\ shadow' = [x \in Key |-> IF shadow[x] = Absent /\ x \in K \cup {k} THEN {v} ELSE shadow[x]]

Next == Rebuild \/ Set \/ TryErase \/ RebuildSet
Spec == Init /\ [][Next]_vars
-----------------------------------------------------------------------------
RECURSIVE Placed(_)
Placed(n) ==
  n = Empty \/ n.shift = 0
  \/ \A i \in DOMAIN n.slots :
       LET child == n.slots[i] IN
       child.shift < n.shift /\ Includes(n, child.prefix) /\ Index(child.prefix, n.shift) = i /\ Placed(child)

RECURSIVE Populated(_)
Populated(n) ==
  /\ n # Empty /\ DOMAIN n.slots # {}
  /\ n.shift = 0 \/ \A i \in DOMAIN n.slots : Populated(n.slots[i])

Held(n) == ToSet(Pairs(n))
Expected == {p \in Key \X Value : shadow[p[1]] = {p[2]}}

(* Whatever is written, merged and cleared, by whichever rebuild: a look-  *)
(* up finds what was last put there and nothing else, a walk meets each    *)
(* pair once and in order, and every node stands where its prefix says     *)
(* (_assert_invariant_shallow).                                            *)
TrieIsMap ==
  /\ \A k \in 0 .. 2 ^ WORD_WIDTH - 1 : Get(root, k) = IF k \in Key THEN shadow[k] ELSE Absent
  /\ Held(root) = Expected
  /\ \A i \in 1 .. Len(Pairs(root)) - 1 : Pairs(root)[i][1] < Pairs(root)[i + 1][1]
  /\ Placed(root)

(* The time wheel: what partition_mask takes out and what it leaves are    *)
(* tries again, and share the pairs out by the masked bits.                *)
PartitionSplits ==
  \A k \in Key, below \in SYMBOL_WIDTH .. WORD_WIDTH :
    LET parts == PartitionMask(root, k, below) IN
    /\ Held(parts[1]) = {p \in Expected : p[1] \div 2 ^ below = k \div 2 ^ below}
    /\ Held(parts[2]) = Expected \ Held(parts[1])
    /\ Placed(parts[1]) /\ Placed(parts[2])

(* A trie that has lost no value at a leaf has the least key in front,    *)
(* and the value of the greatest at its back.                              *)
EndsFound ==
  Populated(root) => FrontOf(root) = Head(Pairs(root)) /\ BackOf(root)[2] = Last(Pairs(root))[2]

(* A masked walk meets the pairs that agree, each once and in order.       *)
MasksVisited ==
  \A k \in Key, mask \in 0 .. 2 ^ WORD_WIDTH - 1 :
    ForEachMask(root, k, mask) = SelectSeq(Pairs(root), LAMBDA p : ((p[1] ^^ k) & mask) = 0)

Side(axis) == {s \in {<<Decode(k, axis), Decode(l, axis)>> : k, l \in 0 .. 2 ^ WORD_WIDTH - 1} : s[1] <= s[2]}
Box == {(0 :> s) @@ (1 :> t) : s \in Side(0), t \in Side(1)}

(* A query of a rectangle meets the pairs in it, each once and in order,   *)
(* and no other: no block is pruned that reaches into it or taken whole    *)
(* that reaches out.                                                       *)
RegionsVisited ==
  \A box \in Box : VisitInRegion(root, box) = SelectSeq(Pairs(root), LAMBDA p : InBox(p[1], box))

(* The map, the parts the time wheel makes of it, and the views of it.     *)
TrieSound == TrieIsMap /\ PartitionSplits /\ EndsFound /\ MasksVisited /\ RegionsVisited
=============================================================================
