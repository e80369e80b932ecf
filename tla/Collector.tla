------------------------------ MODULE Collector ------------------------------
(***************************************************************************)
(* The concurrent collector (core/garbage_collected.hpp and .cpp): every   *)
(* bit of a mark word runs a collection of its own, several at a time.     *)
(* Mutators allocate and shade in the color they loaded when they pinned   *)
(* the epoch and report what they did when they let go of it; the          *)
(* collector receives the reports, moves the bits through their phases on  *)
(* the epochs that passed, marks what the roots reach and deletes what is  *)
(* white for a bit that sweeps.  The epoch is the abstract one (Grace).    *)
(***************************************************************************)
EXTENDS Grace, Integers, FiniteSets, SequencesExt

CONSTANTS Mutator, Object,
          WeakHolder,   (* the objects that hold another one weakly *)
          NoObject,
          c,            (* the collector's thread *)
          BITS,         (* of a mark word: 16 *)
          LIVE_MAX,     (* collections under way at a time: 12 *)
          OPS           (* bound: mutations of the heap in a run *)

Bits == 0 .. BITS - 1
GATE == 2               (* the epochs a phase waits for *)

ASSUME CollectorAssumption ==
  /\ Holder = Mutator \cup {c} /\ c \notin Mutator
  /\ WeakHolder \subseteq Object /\ NoObject \notin Object
  /\ BITS \in Nat \ {0, 1} /\ LIVE_MAX \in 1 .. BITS - 1
  /\ OPS \in Nat

Unused == "UNUSED"
GrayPublished == "GRAY_PUBLISHED"
BlackPublished == "BLACK_PUBLISHED"
WeakDeciding == "WEAK_DECIDING"
Sweeping == "SWEEPING"
WhitePublished == "WHITE_PUBLISHED"
Clearing == "CLEARING"
KPhase == {Unused, GrayPublished, BlackPublished, WeakDeciding, Sweeping,
           WhitePublished, Clearing}

VARIABLES
  heap,       (* of each object: life, its slot, its words gray and black,  *)
              (* its root count, and the state of a weak holder             *)
  at,         (* what each mutator is about: out, load, run, renew, leave   *)
  held,       (* the objects each mutator may use until it repins           *)
  owes,       (* the object each mutator displaced and has yet to shade     *)
  tls,        (* of each thread: its colors and what it has yet to report   *)
  color,      (* the global color for allocation                            *)
  reports,    (* published and not yet received                             *)
  kstate,     (* of each bit: phase, epochs since, scans, epochs since the  *)
              (* last work, and whether a trace ended since                 *)
  window,     (* base, next and live: the bits whose collections run        *)
  cohort,     (* the key each received object is kept under                 *)
  needsStrip, (* of each key, the bits to strip from its objects            *)
  work,       (* the collector's bags: arrivals, deferred, graystack, roots *)
              (* and weak                                                   *)
  pc,         (* where the collector is in its loop                         *)
  todo,       (* the objects still to visit on the walk under way           *)
  changed,    (* the collector has seen a new epoch since the last change   *)
  ops,        (* mutations of the heap so far                               *)
  lapses      (* ghost: what has happened that the phases do not reckon     *)
              (* with: a color changed with a mutator "ahead" of the        *)
              (* collector; two bits were deciding "together"               *)

vars == <<pin, heap, at, held, owes, tls, color, reports, kstate, window, cohort,
          needsStrip, work, pc, todo, changed, ops, lapses>>
mutatorVars == <<at, held, owes, ops>>
collectorVars == <<color, kstate, window, cohort, needsStrip, work, pc, todo, changed, lapses>>

-----------------------------------------------------------------------------
(* The masks the collector derives from the phases. *)

In(P) == {k \in Bits : kstate[k].phase \in P}
BlackIn == {BlackPublished, WeakDeciding, Sweeping}
GrayIn == {GrayPublished} \cup BlackIn
SweepPending == In(GrayIn)
GrayForAllocation == In(GrayIn)
BlackForAllocation == In(BlackIn)

(* How long ago bit k started, in window order. *)
Seniority(k) == (k - window.base) % BITS
OlderThan(k) == {j \in Bits : Seniority(j) < Seniority(k)}

(* The oldest candidate that gray is white for; the future slot if none. *)
RouteForGray(gray, candidates) ==
  LET whites == candidates \ gray
  IN IF whites = {} THEN window.next
     ELSE CHOOSE k \in whites : OlderThan(k) \cap whites = {}

-----------------------------------------------------------------------------
(* Threads. *)

Colors == [gray : SUBSET Bits, black : SUBSET Bits]
White == [gray |-> {}, black |-> {}]

LoadedTLS(col) ==
  [color |-> col, did |-> col.gray \ col.black,
   allocations |-> {}, shaded |-> {}, rooted |-> {}, weak |-> {}]

PoisonedTLS == LoadedTLS(White)

(* Epochs from the one t has pinned to the one the collector has. *)
AgeOf(t) == (IF pin[t] = Current THEN -1 ELSE 0) - (IF pin[c] = Current THEN -1 ELSE 0)

(* The list of reports is always taken whole and every report adds to the  *)
(* same bags, so the list is what its reports hold together: each          *)
(* allocation with its period's color, and of each bit the age of the      *)
(* latest work (None if none).                                             *)
None == GATE + 1
NoReport == [allocations |-> {}, shaded |-> {}, rooted |-> {}, weak |-> {},
             did |-> [k \in Bits |-> None]]

Least(a, b) == IF a <= b THEN a ELSE b

WithReport(t) ==
  [allocations |-> reports.allocations
                     \cup {<<o, tls[t].color.gray>> : o \in tls[t].allocations},
   shaded |-> reports.shaded \cup tls[t].shaded,
   rooted |-> reports.rooted \cup tls[t].rooted,
   weak |-> reports.weak \cup tls[t].weak,
   did |-> [k \in Bits |-> IF k \in tls[t].did THEN Least(AgeOf(t), reports.did[k])
                                              ELSE reports.did[k]]]

(* Beyond the gate nobody counts. *)
Aged(age, d) == IF age = None THEN None ELSE Least(GATE, age + d)
AgedReports(r, d) == [r EXCEPT !.did = [k \in Bits |-> Aged(@[k], d)]]

(* What t's shade of o flips, and its two effects. *)
Flips(t, o) == tls[t].color.gray \ heap[o].gray
WrongShadedHeap(t, o) == heap  (* no barrier *)
ShadedHeap(t, o) == [heap EXCEPT ![o].gray = @ \cup tls[t].color.gray]
ShadedTLS(t, o) ==
  IF Flips(t, o) = {} THEN tls
  ELSE [tls EXCEPT ![t].did = @ \cup Flips(t, o), ![t].shaded = @ \cup {o}]

-----------------------------------------------------------------------------
(* Mutators. *)

Live(o) == heap[o].life = "live"

WrongPin(t) ==                 (* the color is loaded with no epoch pinned *)
  /\ at[t] = "out"
  /\ at' = [at EXCEPT ![t] = "load"]
  /\ UNCHANGED <<pin, heap, held, owes, ops, tls, reports, collectorVars>>

Pin(t) ==
  /\ at[t] = "out"
  /\ Take(t)
  /\ at' = [at EXCEPT ![t] = "load"]
  /\ UNCHANGED <<heap, held, owes, ops, tls, reports, collectorVars>>

LoadColor(t) ==
  /\ at[t] = "load"
  /\ tls' = [tls EXCEPT ![t].color = color, ![t].did = color.gray \ color.black]
  /\ at' = [at EXCEPT ![t] = "run"]
  /\ UNCHANGED <<pin, heap, held, owes, ops, reports, collectorVars>>

WrongPublishReport(t) ==       (* a bag that is copied and not moved *)
  /\ at[t] = "run" /\ owes[t] = NoObject
  /\ reports' = WithReport(t)
  /\ tls' = [tls EXCEPT ![t] = [PoisonedTLS EXCEPT !.allocations = tls[t].allocations]]
  /\ held' = [held EXCEPT ![t] = {}]
  /\ at' \in {[at EXCEPT ![t] = next] : next \in {"renew", "leave"}}
  /\ UNCHANGED <<pin, heap, owes, ops, collectorVars>>

(* The report goes out before the epoch is let go of. *)
PublishReport(t) ==
  /\ at[t] = "run" /\ owes[t] = NoObject
  /\ reports' = WithReport(t)
  /\ tls' = [tls EXCEPT ![t] = PoisonedTLS]
  /\ held' = [held EXCEPT ![t] = {}]
  /\ at' \in {[at EXCEPT ![t] = next] : next \in {"renew", "leave"}}
  /\ UNCHANGED <<pin, heap, owes, ops, collectorVars>>

Repin(t) ==
  /\ at[t] = "renew"
  /\ Renew(t)
  /\ at' = [at EXCEPT ![t] = "load"]
  /\ UNCHANGED <<heap, held, owes, ops, tls, reports, collectorVars>>

Unpin(t) ==
  /\ at[t] = "leave"
  /\ Drop(t)
  /\ at' = [at EXCEPT ![t] = "out"]
  /\ UNCHANGED <<heap, held, owes, ops, tls, reports, collectorVars>>

Ready(t) == at[t] = "run" /\ owes[t] = NoObject
Mutates == ops < OPS /\ ops' = ops + 1

(* What S reaches through slots. *)
Children(o) == IF o \in WeakHolder THEN {} ELSE {heap[o].slot} \ {NoObject}
Closure(S) ==
  LET closed(T) == \A o \in T : Children(o) \subseteq T
      candidates == {T \in SUBSET Object : S \subseteq T /\ closed(T)}
  IN {o \in Object : \A T \in candidates : o \in T}

Rooted == {o \in Object : heap[o].count > 0}

(* What t has loaded, or may load now, and may use until it repins.  A load *)
(* leaves no trace; what is displaced stays with the threads that had it.  *)
Has(t) == Closure(held[t] \cup Rooted)
HeldBeyond(o) ==
  [t \in Mutator |-> IF at[t] = "run" THEN held[t] \cup ({o} \cap Has(t)) ELSE held[t]]

(* A new object is born in t's color; its slot is what t passes it. *)
Allocate(t, o, child) ==
  /\ Ready(t) /\ Mutates /\ heap[o].life = "free"
  /\ child \in Has(t) \cup {NoObject}
  /\ o \in WeakHolder => child # NoObject
  /\ heap' = [heap EXCEPT ![o] =
       [life |-> "live", slot |-> child, gray |-> tls[t].color.gray,
        black |-> tls[t].color.black, count |-> 0,
        weak |-> IF o \in WeakHolder THEN "READY" ELSE "GONE"]]
  /\ tls' = [tls EXCEPT ![t].allocations = @ \cup {o},
                        ![t].weak = @ \cup ({o} \cap WeakHolder)]
  /\ held' = [held EXCEPT ![t] = @ \cup {o}]
  /\ UNCHANGED <<pin, at, owes, reports, collectorVars>>

(* mutator_try_upgrade: a weak holder gives up its referent unless it is   *)
(* gone.                                                                   *)
TryUpgrade(t, h) ==
  /\ Ready(t) /\ Mutates /\ h \in Has(t) \cap WeakHolder
  /\ heap[h].weak # "GONE" /\ heap[h].slot \notin Has(t)
  /\ heap' = [heap EXCEPT ![h].weak = "WAS_LOADED"]
  /\ held' = [held EXCEPT ![t] = @ \cup {heap[h].slot}]
  /\ UNCHANGED <<pin, at, owes, tls, reports, collectorVars>>

(* The first half of exchange: the slot has its new value, the old one is  *)
(* still to be shaded.                                                     *)
Exchange(t, o, v) ==
  /\ Ready(t) /\ Mutates
  /\ o \in Has(t) \ WeakHolder /\ v \in Has(t) \cup {NoObject} /\ heap[o].slot # v
  /\ heap' = [heap EXCEPT ![o].slot = v]
  /\ owes' = [owes EXCEPT ![t] = heap[o].slot]
  /\ held' = HeldBeyond(heap[o].slot)
  /\ UNCHANGED <<pin, at, tls, reports, collectorVars>>

Shade(t) ==
  /\ at[t] = "run" /\ owes[t] # NoObject
  /\ heap' = ShadedHeap(t, owes[t]) /\ tls' = ShadedTLS(t, owes[t])
  /\ owes' = [owes EXCEPT ![t] = NoObject]
  /\ UNCHANGED <<pin, at, held, ops, reports, collectorVars>>

(* A root is filed for the collector on its first count. *)
RootsAdd(t, o) ==
  /\ Ready(t) /\ Mutates /\ o \in Has(t) /\ heap[o].count = 0
  /\ heap' = [heap EXCEPT ![o].count = 1]
  /\ tls' = [tls EXCEPT ![t].rooted = @ \cup {o}]
  /\ UNCHANGED <<pin, at, held, owes, reports, collectorVars>>

(* The last count dropped leaves an object to shade. *)
RootsSubtract(t, o) ==
  /\ Ready(t) /\ Mutates /\ heap[o].count = 1
  /\ heap' = [heap EXCEPT ![o].count = 0]
  /\ owes' = [owes EXCEPT ![t] = o]
  /\ held' = HeldBeyond(o)
  /\ UNCHANGED <<pin, at, tls, reports, collectorVars>>

(* What a thread does whatever becomes of the heap, and what it does to it. *)
ThreadStep(t) ==
  \/ Pin(t) \/ LoadColor(t) \/ PublishReport(t) \/ Repin(t) \/ Unpin(t) \/ Shade(t)

Mutate(t, op, o, v) ==
  \/ op = "allocate" /\ Allocate(t, o, v)
  \/ op = "exchange" /\ Exchange(t, o, v)
  \/ op = "upgrade" /\ TryUpgrade(t, o)
  \/ op = "root" /\ RootsAdd(t, o)
  \/ op = "unroot" /\ RootsSubtract(t, o)

MutatorStep(t) ==
  \/ ThreadStep(t)
  \/ \E op \in {"allocate", "exchange", "upgrade", "root", "unroot"},
        o \in Object, v \in Object \cup {NoObject} : Mutate(t, op, o, v)

-----------------------------------------------------------------------------
(* The collector: receive. *)

(* promote: blacken objs for the bits that may blacken, trace what became  *)
(* blacker, and park what is gray for a bit still warming up.              *)
PromotedHeap(objs) ==
  [o \in Object |-> IF o \in objs
     THEN [heap[o] EXCEPT !.black = @ \cup (heap[o].gray \cap BlackForAllocation)]
     ELSE heap[o]]
Blackened(objs) == {o \in objs : PromotedHeap(objs)[o].black # heap[o].black}
Parked(objs) ==
  {o \in objs : heap[o].gray \cap (GrayForAllocation \ BlackForAllocation) # {}}
PromotedWork(w, objs) ==
  [w EXCEPT !.graystack = @ \cup Blackened(objs), !.deferred = @ \cup Parked(objs)]

WrongKeyAtReceive(gray) ==     (* a bit that warms up does not look at it *)
  RouteForGray(gray, SweepPending \ In({GrayPublished}))

KeyAtReceive(gray) == RouteForGray(gray, SweepPending)

(* Work is k-work while k can still wait for it. *)
Tracked == {GrayPublished, BlackPublished}

(* wait(A): the epoch has left the one the collector had when it began to  *)
(* trace.                                                                  *)
Waited == changed \/ pin[c] = Prior

Receive ==
  /\ pc = "receive" \/ (pc = "wait" /\ Waited)
  /\ reports' = NoReport
  /\ LET received == {a[1] : a \in reports.allocations}
     IN /\ cohort' = [o \in Object |->
               IF o \in received
               THEN {KeyAtReceive(a[2]) : a \in {b \in reports.allocations : b[1] = o}}
               ELSE cohort[o]]
        /\ needsStrip' = [k \in Bits |-> needsStrip[k] \cup
               UNION {a[2] \cap In({Clearing}) :
                      a \in {b \in reports.allocations : KeyAtReceive(b[2]) = k}}]
        /\ heap' = PromotedHeap(received)
        /\ work' = [PromotedWork(work, received) EXCEPT
               !.arrivals = @ \cup reports.shaded,
               !.roots = @ \cup reports.rooted,
               !.weak = @ \cup reports.weak]
  /\ kstate' = [k \in Bits |->
       IF kstate[k].phase \in Tracked /\ reports.did[k] # None
       THEN [kstate[k] EXCEPT !.last = Least(@, reports.did[k]), !.quiet = FALSE]
       ELSE kstate[k]]
  /\ pc' = IF changed THEN "advance" ELSE "arrivals"
  /\ UNCHANGED <<pin, mutatorVars, tls, color, window, todo, changed, lapses>>

-----------------------------------------------------------------------------
(* The collector: try_advance_collection_phases. *)

Fresh(phase) ==
  [phase |-> phase, since |-> 0, scans |-> FALSE, last |-> 0, quiet |-> FALSE]

(* What the loop over the bits threads through: s has kstate, window,      *)
(* needsStrip, first and splice.                                           *)
MayStart(s, k) ==
  /\ kstate[k].phase = Unused /\ s.first /\ k = s.window.next
  /\ kstate[(k + 1) % BITS].phase = Unused
  /\ s.window.live < LIVE_MAX

Start(s, k) ==
  [s EXCEPT !.first = FALSE, !.kstate[k] = Fresh(GrayPublished),
            !.window = [base |-> IF @.live = 0 THEN k ELSE @.base,
                        next |-> (k + 1) % BITS, live |-> @.live + 1]]

WrongMayBlacken(k) ==          (* an epoch too early *)
  kstate[k].phase = GrayPublished /\ kstate[k].since >= GATE - 1

MayBlacken(k) == kstate[k].phase = GrayPublished /\ kstate[k].since >= GATE

(* The work reported while the bit warmed up still counts. *)
Blacken(s, k) ==
  [s EXCEPT !.splice = TRUE,
            !.kstate[k] = [@ EXCEPT !.phase = BlackPublished, !.since = 0]]

MayDecide(k) ==
  /\ kstate[k].phase = BlackPublished
  /\ kstate[k].since >= GATE /\ kstate[k].last >= GATE /\ kstate[k].quiet

Decide(s, k) == [s EXCEPT !.kstate[k] = Fresh(WeakDeciding)]

MaySweep(k) == kstate[k].phase = WeakDeciding /\ kstate[k].scans
Sweep(s, k) == [s EXCEPT !.kstate[k] = Fresh(Sweeping)]

MayWhiten(k) == kstate[k].phase = Sweeping /\ kstate[k].scans
Whiten(s, k) == [s EXCEPT !.kstate[k] = Fresh(WhitePublished)]

MayClear(k) == kstate[k].phase = WhitePublished /\ kstate[k].since >= GATE

Members(key) == {o \in Object : key \in cohort[o]}


Clear(s, k) ==
  [s EXCEPT !.kstate[k] = Fresh(Clearing),
            !.needsStrip = [key \in Bits |->
               IF Members(key) = {} THEN @[key] ELSE @[key] \cup {k}]]

MayRetire(s, k) ==
  /\ kstate[k].phase = Clearing /\ k = s.window.base
  /\ \A key \in Bits : k \notin s.needsStrip[key]

Retire(s, k) ==
  [s EXCEPT !.kstate[k] = Fresh(Unused),
            !.window = [base |-> IF @.live = 1 THEN @.next ELSE (k + 1) % BITS,
                        next |-> @.next, live |-> @.live - 1]]

AdvanceBit(s, k) ==
  CASE MayStart(s, k) -> Start(s, k)
    [] MayBlacken(k) -> Blacken(s, k)
    [] MayDecide(k) -> Decide(s, k)
    [] MaySweep(k) -> Sweep(s, k)
    [] MayWhiten(k) -> Whiten(s, k)
    [] MayClear(k) -> Clear(s, k)
    [] MayRetire(s, k) -> Retire(s, k)
    [] OTHER -> s

Advanced16 ==
  FoldLeft(AdvanceBit,
           [kstate |-> kstate, window |-> window, needsStrip |-> needsStrip,
            first |-> TRUE, splice |-> FALSE],
           [i \in 1 .. BITS |-> i - 1])

(* The mutators that run in the color there is, a whole epoch ahead of the *)
(* one from which the collector counts.                                    *)
AheadOfCollector == {t \in Mutator : at[t] = "run" /\ AgeOf(t) < 0}

TryAdvance ==
  /\ pc = "advance"
  /\ LET s == Advanced16
         inPhases(P) == {k \in Bits : s.kstate[k].phase \in P}
     IN /\ kstate' = s.kstate /\ window' = s.window /\ needsStrip' = s.needsStrip
        /\ color' = [gray |-> inPhases(GrayIn), black |-> inPhases(BlackIn)]
        /\ work' = IF s.splice
                   THEN [work EXCEPT !.arrivals = @ \cup work.deferred, !.deferred = {}]
                   ELSE work
  /\ lapses' = lapses
       \cup (IF color' # color /\ AheadOfCollector # {} THEN {"ahead"} ELSE {})
       \cup (IF Cardinality({k \in Bits : kstate'[k].phase = WeakDeciding}) > 1
             THEN {"together"} ELSE {})
  /\ changed' = FALSE
  /\ pc' = "arrivals"
  /\ UNCHANGED <<pin, heap, mutatorVars, tls, reports, cohort, todo>>

-----------------------------------------------------------------------------
(* The collector: trace. *)

(* A walk over bag S at pc where: what is visited leaves todo. *)
Begin(where, S) == pc' = where /\ todo' = S
Visit(o) == o \in todo /\ todo' = todo \ {o}

TraceArrivals ==
  /\ pc = "arrivals"
  /\ heap' = PromotedHeap(work.arrivals)
  /\ work' = [PromotedWork(work, work.arrivals) EXCEPT !.arrivals = {}]
  /\ Begin("roots", work.roots)
  /\ UNCHANGED <<pin, mutatorVars, tls, reports, color, kstate, window, cohort,
                 needsStrip, changed, lapses>>

(* Gray and black o for the given bits, never for one that is cleared. *)
Marked(o, bits) ==
  LET gray == (heap[o].gray \cup bits) \ In({Clearing})
  IN [heap[o] EXCEPT !.gray = gray,
        !.black = (@ \cup (gray \cap BlackForAllocation)) \ In({Clearing})]
Pushed(o, bits) == Marked(o, bits).black \ heap[o].black # {}

TraceRoot == \E o \in todo :
  /\ pc = "roots" /\ Visit(o)
  /\ IF heap[o].count = 0
     THEN work' = [work EXCEPT !.roots = @ \ {o}] /\ heap' = heap
     ELSE /\ heap' = [heap EXCEPT ![o] = Marked(o, BlackForAllocation)]
          /\ work' = IF Pushed(o, BlackForAllocation)
                     THEN [work EXCEPT !.graystack = @ \cup {o}] ELSE work
  /\ UNCHANGED <<pin, mutatorVars, tls, reports, color, kstate, window, cohort,
                 needsStrip, pc, changed, lapses>>

(* A parent's strong children take the bits it is black for. *)
TraceChildren == \E parent \in work.graystack :
  /\ pc = "roots" /\ todo = {}
  /\ LET bits == heap[parent].black \cap BlackForAllocation
         pushed == {o \in Children(parent) : Pushed(o, bits)}
     IN /\ heap' = [o \in Object |->
              IF o \in Children(parent) THEN Marked(o, bits) ELSE heap[o]]
        /\ work' = [work EXCEPT !.graystack = (@ \ {parent}) \cup pushed]
  /\ UNCHANGED <<pin, mutatorVars, tls, reports, color, kstate, window, cohort,
                 needsStrip, pc, todo, changed, lapses>>

DrainDone ==
  /\ pc = "roots" /\ todo = {} /\ work.graystack = {}
  /\ Begin("weak", IF In({WeakDeciding, Sweeping}) = {} THEN {} ELSE work.weak)
  /\ UNCHANGED <<pin, heap, mutatorVars, tls, reports, color, kstate, window, cohort,
                 needsStrip, work, changed, lapses>>

(* decide_weak: a holder whose referent was loaded keeps it alive; one     *)
(* whose referent is not black for a deciding bit loses it.                *)
Keeps(h) == heap[heap[h].slot].black \cap In({WeakDeciding}) # {}

WrongDecideWeak(h) ==          (* a referent that was loaded is not marked *)
  CASE heap[h].weak = "READY" ->
         /\ heap' = IF Keeps(h) THEN heap ELSE [heap EXCEPT ![h].weak = "GONE"]
         /\ tls' = tls
    [] heap[h].weak = "WAS_LOADED" ->
         heap' = [heap EXCEPT ![h].weak = "READY"] /\ tls' = tls
    [] OTHER -> UNCHANGED <<heap, tls>>

DecideWeak(h) ==
  CASE heap[h].weak = "READY" ->
         /\ heap' = IF Keeps(h) THEN heap ELSE [heap EXCEPT ![h].weak = "GONE"]
         /\ tls' = tls
    [] heap[h].weak = "WAS_LOADED" ->
         /\ heap' = [ShadedHeap(c, heap[h].slot) EXCEPT
              ![h].weak = "READY", ![heap[h].slot].black = @ \cup BlackForAllocation]
         /\ tls' = ShadedTLS(c, heap[h].slot)
    [] OTHER -> UNCHANGED <<heap, tls>>


(* About to be deleted by this iteration's sweep. *)
Doomed(o) == In({Sweeping}) \ heap[o].gray # {} /\ heap[o].count = 0

TraceWeak == \E h \in todo :
  /\ pc = "weak" /\ Visit(h)
  /\ IF In({WeakDeciding}) # {} THEN DecideWeak(h) ELSE UNCHANGED <<heap, tls>>
  /\ work' = IF Doomed(h) THEN [work EXCEPT !.weak = @ \ {h}] ELSE work
  /\ UNCHANGED <<pin, mutatorVars, reports, color, kstate, window, cohort, needsStrip,
                 pc, changed, lapses>>

TraceDone ==
  /\ pc = "weak" /\ todo = {}
  /\ kstate' = [k \in Bits |-> [kstate[k] EXCEPT
       !.quiet = @ \/ kstate[k].phase \in Tracked,
       !.scans = @ \/ kstate[k].phase = WeakDeciding]]
  /\ IF In({Sweeping}) = {} THEN pc' = "repin" /\ UNCHANGED todo
     ELSE Begin("sweep", UNION {Members(k) : k \in In({Sweeping})})
  /\ UNCHANGED <<pin, heap, mutatorVars, tls, reports, color, window, cohort,
                 needsStrip, work, changed, lapses>>

-----------------------------------------------------------------------------
(* The collector: sweep.  The objects of the sweeping keys, one by one:    *)
(* white for any sweeping bit, deleted; else stripped and rerouted.        *)

SweepWhite(o) == In({Sweeping}) \ heap[o].gray # {}

KeyOf(o) == CHOOSE k \in Bits : k \in cohort[o]

SweepObject == \E o \in todo :
  /\ pc = "sweep" /\ Visit(o)
  /\ IF SweepWhite(o)
     THEN /\ heap' = [heap EXCEPT ![o] = [@ EXCEPT !.life = "deleted", !.gray = {},
                                                  !.black = {}, !.slot = NoObject]]
          /\ cohort' = [cohort EXCEPT ![o] = {}]
     ELSE LET strip == needsStrip[KeyOf(o)]
              gray == heap[o].gray \ strip
          IN /\ heap' = [heap EXCEPT ![o].gray = gray, ![o].black = @ \ strip]
             /\ cohort' = [cohort EXCEPT ![o] =
                  {RouteForGray(gray, SweepPending \ In({Sweeping}))}]
  /\ UNCHANGED <<pin, mutatorVars, tls, reports, color, kstate, window, needsStrip,
                 work, pc, changed, lapses>>

(* The flags of a swept key go with its objects, which nothing joins while *)
(* it is swept.                                                            *)
SweepDone ==
  /\ pc = "sweep" /\ todo = {}
  /\ needsStrip' = [k \in Bits |->
       IF kstate[k].phase = Sweeping THEN {} ELSE needsStrip[k]]
  /\ kstate' = [k \in Bits |-> [kstate[k] EXCEPT
       !.scans = @ \/ kstate[k].phase = Sweeping]]
  /\ pc' = "repin"
  /\ UNCHANGED <<pin, heap, mutatorVars, tls, reports, color, window, cohort, work,
                 todo, changed, lapses>>

-----------------------------------------------------------------------------
(* The collector: repin and wait. *)

(* Epochs are counted for the phases that wait for them. *)
Timed == {GrayPublished, BlackPublished, WhitePublished}
AgedState(d) == [k \in Bits |-> [kstate[k] EXCEPT
  !.since = IF kstate[k].phase \in Timed THEN Aged(@, d) ELSE @,
  !.last = IF kstate[k].phase \in Tracked THEN Aged(@, d) ELSE @]]

WrongRepinAndWait ==           (* the new epoch goes unnoticed *)
  /\ pc = "repin" /\ pc' = "wait"
  /\ Renew(c)
  /\ reports' = AgedReports(WithReport(c), Advance(c))
  /\ kstate' = AgedState(Advance(c))
  /\ tls' = [tls EXCEPT ![c] = LoadedTLS(color)]
  /\ UNCHANGED <<heap, mutatorVars, color, window, cohort, needsStrip, work, todo,
                 changed, lapses>>

RepinAndWait ==
  /\ pc = "repin" /\ pc' = "wait"
  /\ Renew(c)
  /\ reports' = AgedReports(WithReport(c), Advance(c))
  /\ kstate' = AgedState(Advance(c))
  /\ tls' = [tls EXCEPT ![c] = LoadedTLS(color)]
  /\ changed' = (changed \/ Advance(c) > 0)
  /\ UNCHANGED <<heap, mutatorVars, color, window, cohort, needsStrip, work, todo, lapses>>

CollectorStep ==
  \/ Receive \/ TryAdvance \/ TraceArrivals \/ TraceRoot
  \/ TraceChildren \/ DrainDone \/ TraceWeak \/ TraceDone
  \/ SweepObject \/ SweepDone \/ RepinAndWait

-----------------------------------------------------------------------------
Init ==
  /\ pin = [h \in Holder |-> IF h = c THEN Current ELSE Free]
  /\ heap = [o \in Object |-> [life |-> "free", slot |-> NoObject, gray |-> {},
                               black |-> {}, count |-> 0, weak |-> "GONE"]]
  /\ at = [t \in Mutator |-> "out"]
  /\ held = [t \in Mutator |-> {}]
  /\ owes = [t \in Mutator |-> NoObject]
  /\ tls = [h \in Holder |-> PoisonedTLS]
  /\ color = White
  /\ reports = NoReport
  /\ kstate = [k \in Bits |-> Fresh(Unused)]
  /\ window = [base |-> 0, next |-> 0, live |-> 0]
  /\ cohort = [o \in Object |-> {}]
  /\ needsStrip = [k \in Bits |-> {}]
  /\ work = [arrivals |-> {}, deferred |-> {}, graystack |-> {}, roots |-> {}, weak |-> {}]
  /\ pc = "receive"
  /\ todo = {}
  /\ changed = FALSE
  /\ ops = 0
  /\ lapses = {}

Next == CollectorStep \/ \E t \in Mutator : MutatorStep(t)

Spec == Init /\ [][Next]_vars

(* The collector runs, and a thread that has pinned the epoch lets go of    *)
(* it: workers repin between coroutines.                                   *)
Fairness ==
  /\ WF_vars(CollectorStep)
  /\ \A t \in Mutator :
       WF_vars(LoadColor(t) \/ Shade(t) \/ PublishReport(t) \/ Repin(t) \/ Unpin(t))

FairSpec == Spec /\ Fairness

-----------------------------------------------------------------------------
(* Properties. *)

(* Type correctness. *)
TypeOK ==
  /\ pin \in [Holder -> {Free, Current, Prior}]
  /\ at \in [Mutator -> {"out", "load", "run", "renew", "leave"}]
  /\ held \in [Mutator -> SUBSET Object]
  /\ owes \in [Mutator -> Object \cup {NoObject}]
  /\ color \in Colors
  /\ \A k \in Bits : kstate[k].phase \in KPhase
  /\ cohort \in [Object -> {{k} : k \in Bits} \cup {{}}]
  /\ needsStrip \in [Bits -> SUBSET Bits]

(* What the program can still come by. *)
Reachable == Closure(Rooted \cup UNION {held[t] : t \in Mutator})

(* Nothing the program can reach is ever deleted. *)
ReachableLive == \A o \in Reachable : Live(o)

(* No bag, registry, report or stack of the collector, nor a report under  *)
(* way, names an object that is deleted.                                   *)
NothingDangles ==
  /\ \A o \in work.arrivals \cup work.deferred \cup work.graystack \cup work.roots
              \cup work.weak \cup todo : Live(o)
  /\ \A o \in reports.shaded \cup reports.rooted \cup reports.weak : Live(o)
  /\ \A a \in reports.allocations : Live(a[1])
  /\ \A h \in Holder : \A o \in tls[h].allocations \cup tls[h].shaded \cup tls[h].rooted
              \cup tls[h].weak : Live(o)

Known == {o \in Object : cohort[o] # {}}

(* violation(): the words of an object the collector knows are never black *)
(* without gray, never marked for an unused bit, never black for a bit     *)
(* that may not blacken, and never gray without black for a sweeping one.  *)
NoViolation == \A o \in Known :
  /\ heap[o].black \subseteq heap[o].gray
  /\ heap[o].gray \cap In({Unused}) = {}
  /\ heap[o].black \cap In({GrayPublished}) = {}
  /\ (heap[o].gray \ heap[o].black) \cap In({Sweeping}) = {}

(* The key of a cohort certifies its objects: none is white for a bit that *)
(* is still to sweep and is older than the key.                            *)
KeysCertify == \A o \in Known : \A k \in SweepPending :
  k \in OlderThan(KeyOf(o)) => k \in heap[o].gray

(* A stale mark of a bit being cleared sits only in a cohort whose flag    *)
(* will strip it.                                                          *)
StaleMarksFlagged == \A o \in Known :
  heap[o].gray \cap In({Clearing}) \subseteq needsStrip[KeyOf(o)]

(* A weak holder that can be reached and would still give up its referent  *)
(* has not lost it.                                                        *)
HoldersHaveReferents == \A h \in WeakHolder \cap Reachable :
  heap[h].weak # "GONE" => Live(heap[h].slot)

(* Some collection gets to its sweep, whatever the mutators go on doing:    *)
(* they cannot keep the quiet window from closing.                         *)
CollectionsSweep == <>(In({Sweeping}) # {})

(* A newborn is never filed under a key that is being swept. *)
NewbornsAreNotSwept ==
  pc \in {"receive", "wait"} =>
    \A a \in reports.allocations : KeyAtReceive(a[2]) \notin In({Sweeping})


(* What is in use is not deleted: whatever a thread or a root reaches is    *)
(* live, across stores, newborns, shades and collections that overlap,      *)
(* unless a new color found a mutator that runs an epoch ahead of the       *)
(* collector in the old one, whose phases then end before its work is in.   *)
InUseIsKept == "ahead" \notin lapses => ReachableLive

=============================================================================
