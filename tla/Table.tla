------------------------------- MODULE Table -------------------------------
(***************************************************************************)
(* The hash table of the JSON reader, the fonts and the mesh builder       *)
(* (container/table.hpp): linear probing from the top bits of the hash,    *)
(* where an entry gives way to one that is further from home.              *)
(***************************************************************************)
EXTENDS Integers, SequencesExt, FiniteSetsExt

CONSTANTS TableKey, Hash,            (* the keys and their hashes            *)
          HASH_WIDTH,                (* 64 in the code                       *)
          FIRST_WIDTH,               (* log2 of the first table; 4 there     *)
          LAST_WIDTH,                (* bound: log2 of the largest table     *)
          Vacant                     (* an entry whose _hash is 0            *)

VARIABLES entries, shift, count, dictionary
vars == <<entries, shift, count, dictionary>>

Size == IF DOMAIN entries = {} THEN 0 ELSE 2 ^ (HASH_WIDTH - shift)
Trigger(size) == IF size = 0 THEN 0 ELSE (size - 1) - (size - 1) \div 8

(* get_hash: odd, for 0 says that an entry is vacant.                      *)
OddHash(key) == Hash[key] + 1 - (Hash[key] % 2)
Home(key, s) == OddHash(key) \div 2 ^ s
After(i, size) == (i + 1) % size
Away(home, i, size) == (i - home) % size
EntryOf(k, v) == [key |-> k, value |-> v]

(* A table that has no entries yet, and one with room for n of them.       *)
Empty == [entries |-> << >>, shift |-> HASH_WIDTH - FIRST_WIDTH + 1, count |-> 0]
WithCapacity(n) ==
  LET least == 2 ^ FIRST_WIDTH
      width == Min({w \in FIRST_WIDTH .. HASH_WIDTH : n - (n % least) + least - 2 < 2 ^ w}) IN
  IF n = 0 THEN Empty
  ELSE [entries |-> [i \in 0 .. 2 ^ width - 1 |-> Vacant], shift |-> HASH_WIDTH - width, count |-> 0]

Init ==
  /\ entries = Empty.entries /\ shift = Empty.shift /\ count = Empty.count
  /\ dictionary = [k \in TableKey |-> 0]

(* The probe of find and of _insert_uninitialized: the slot at which it    *)
(* stops, and why.                                                         *)
RECURSIVE ProbeFrom(_, _, _, _)
ProbeFrom(e, s, key, i) ==
  LET size == Cardinality(DOMAIN e) IN
  IF e[i] = Vacant THEN [slot |-> i, why |-> "vacant"]
  ELSE IF e[i].key = key THEN [slot |-> i, why |-> "match"]
  ELSE IF Away(Home(key, s), i, size) > Away(Home(e[i].key, s), i, size) THEN [slot |-> i, why |-> "evict"]
  ELSE ProbeFrom(e, s, key, After(i, size))
Probe(e, s, key) == ProbeFrom(e, s, key, Home(key, s))
Find(key) == count > 0 /\ Probe(entries, shift, key).why = "match"
At(key) == entries[Probe(entries, shift, key).slot].value

(* An iterator passes the entries that are not vacant.                     *)
Walk(e) == SelectSeq([i \in 1 .. Cardinality(DOMAIN e) |-> e[i - 1]], LAMBDA entry : entry # Vacant)

(* The slots from i up to the next one in ends.                            *)
RECURSIVE Run(_, _, _)
Run(e, i, ends) ==
  LET j == After(i, Cardinality(DOMAIN e)) IN
  IF j \in ends THEN {i} ELSE {i} \cup Run(e, j, ends)

(* _relocate_backward_from: the run from i up to a vacancy moves on by one.*)
PushOn(e, i) ==
  LET size == Cardinality(DOMAIN e)
      run == Run(e, i, {j \in DOMAIN e : e[j] = Vacant}) IN
  [j \in DOMAIN e |-> IF j = i THEN Vacant
                      ELSE IF (j - 1) % size \in run THEN e[(j - 1) % size] ELSE e[j]]

(* Operators whose name begins with Wrong are mistakes the code could have  *)
(* made; nothing uses them.  Here the run behind an erased entry moves     *)
(* back up to the next vacancy, entries that are at home included.         *)
WrongPullBack(e, s, i) ==
  LET size == Cardinality(DOMAIN e)
      run == Run(e, i, {j \in DOMAIN e : e[j] = Vacant}) IN
  [j \in DOMAIN e |-> IF j \notin run THEN e[j]
                      ELSE IF After(j, size) \in run THEN e[After(j, size)] ELSE Vacant]

(* _relocate_forward_into: the run behind i that is not at home moves back.*)
PullBack(e, s, i) ==
  LET size == Cardinality(DOMAIN e)
      run == Run(e, i, {j \in DOMAIN e : e[j] = Vacant \/ Home(e[j].key, s) = j}) IN
  [j \in DOMAIN e |-> IF j \notin run THEN e[j]
                      ELSE IF After(j, size) \in run THEN e[After(j, size)] ELSE Vacant]

(* resize: each entry in turn, displacing what is nearer to its home.      *)
RECURSIVE Settle(_, _, _, _)
Settle(e, s, entry, j) ==
  LET size == Cardinality(DOMAIN e) IN
  IF e[j] = Vacant THEN [e EXCEPT ![j] = entry]
  ELSE IF Away(Home(entry.key, s), j, size) > Away(Home(e[j].key, s), j, size)
    THEN Settle([e EXCEPT ![j] = entry], s, e[j], After(j, size))
  ELSE Settle(e, s, entry, After(j, size))

RECURSIVE Rehash(_, _, _, _)
Rehash(old, i, e, s) ==
  IF i \notin DOMAIN old THEN e
  ELSE Rehash(old, i + 1, IF old[i] = Vacant THEN e ELSE Settle(e, s, old[i], Home(old[i].key, s)), s)

Resized(t) ==
  LET n == Cardinality(DOMAIN t.entries)
      size == IF n = 0 THEN 2 ^ FIRST_WIDTH ELSE 2 * n IN
  [t EXCEPT !.entries = Rehash(@, 0, [i \in 0 .. size - 1 |-> Vacant], t.shift - 1), !.shift = @ - 1]

(* _insert_uninitialized: the table is resized when it is full, and the    *)
(* entry that would be evicted moves on.                                   *)
Slotted(t, key) ==
  LET r == IF t.count = Trigger(Cardinality(DOMAIN t.entries)) THEN Resized(t) ELSE t
      at == Probe(r.entries, r.shift, key) IN
  [table |-> IF at.why = "match" THEN r
             ELSE [r EXCEPT !.entries = IF at.why = "evict" THEN PushOn(@, at.slot) ELSE @,
                            !.count = @ + 1],
   slot |-> at.slot, found |-> at.why = "match"]

(* What emplace, insert, insert_or_assign and operator[] do with the slot. *)
Inserted(t, entry, assign) ==
  LET to == Slotted(t, entry.key) IN
  IF to.found /\ ~assign THEN to.table ELSE [to.table EXCEPT !.entries[to.slot] = entry]

Becomes(t) ==
  /\ HASH_WIDTH - t.shift <= LAST_WIDTH
  /\ entries' = t.entries /\ shift' = t.shift /\ count' = t.count
Whole == [entries |-> entries, shift |-> shift, count |-> count]

Put(key, value, assign) ==
  /\ Becomes(Inserted(Whole, EntryOf(key, value), assign))
  /\ dictionary' = IF dictionary[key] = 0 \/ assign THEN [dictionary EXCEPT ![key] = value] ELSE dictionary

(* erase, of a key and of what an iterator is at.                          *)
EraseKey(key) ==
  /\ IF Find(key)
       THEN /\ entries' = PullBack(entries, shift, Probe(entries, shift, key).slot)
            /\ count' = count - 1
       ELSE UNCHANGED <<entries, count>>
  /\ dictionary' = [dictionary EXCEPT ![key] = 0]
  /\ UNCHANGED shift
EraseAt(i) ==
  /\ entries[i] # Vacant
  /\ entries' = PullBack(entries, shift, i) /\ count' = count - 1
  /\ dictionary' = [dictionary EXCEPT ![entries[i].key] = 0]
  /\ UNCHANGED shift

(* A copy is made one by one, in the order of the entries.                 *)
Copied(t) ==
  FoldLeft(LAMBDA r, entry : Inserted(r, entry, FALSE), WithCapacity(t.count), Walk(t.entries))
CopyFrom == Becomes(Copied(Whole)) /\ UNCHANGED dictionary

Clear ==
  /\ entries' = [i \in DOMAIN entries |-> Vacant] /\ count' = 0
  /\ dictionary' = [k \in TableKey |-> 0]
  /\ UNCHANGED shift

Next ==
  \/ \E k \in TableKey, v \in {1, 2}, assign \in BOOLEAN : Put(k, v, assign)
  \/ \E k \in TableKey : EraseKey(k)
  \/ \E i \in DOMAIN entries : EraseAt(i)
  \/ Clear
  \/ CopyFrom

Spec == Init /\ [][Next]_vars
-----------------------------------------------------------------------------
(* However keys come and go: each is found if and only if it is in, with   *)
(* the value it was last given, and a walk over the entries meets nothing  *)
(* else; a vacancy is left for the probes to stop at.                      *)
TableIsDictionary ==
  /\ \A k \in TableKey : IF dictionary[k] = 0 THEN ~Find(k)
       ELSE Find(k) /\ At(k) = dictionary[k]
  /\ count = Len(Walk(entries))
  /\ count = Cardinality({k \in TableKey : dictionary[k] # 0})
  /\ Size = 0 \/ count < Size

(* _invariant: behind a vacancy an entry is at home, and no two neighbours *)
(* would be nearer to their homes if they changed places.                  *)
NeighboursAgree ==
  \A i \in DOMAIN entries :
    LET j == After(i, Size)
        away(k, slot) == Away(Home(entries[k].key, shift), slot, Size) IN
    entries[j] # Vacant =>
      IF entries[i] = Vacant THEN away(j, j) = 0
      ELSE away(i, i) + away(j, j) <= away(j, i) + away(i, j)

(* The dictionary, and the order of the entries that the probes rely on.   *)
TableSound == TableIsDictionary /\ NeighboursAgree
=============================================================================
