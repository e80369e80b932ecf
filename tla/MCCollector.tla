----------------------------- MODULE MCCollector -----------------------------
(* A mutator and the collector.  A run starts in the first pass of the      *)
(* collector, once it has received the objects there are, with a plan of    *)
(* what the mutator will do to the heap, at times that are its own.         *)
EXTENDS Collector

CONSTANTS m1, o1, o2, h1
Threads == {m1, c}

Born(slot, count, weak) ==
  [life |-> "live", slot |-> slot, gray |-> {}, black |-> {}, count |-> count,
   weak |-> weak]

(* A root holds h1, which holds o2 weakly; o2 has a root of its own as      *)
(* well; nothing holds h1, and o2 is yet to be allocated.                   *)
Weak == (o1 :> Born(h1, 1, "GONE")) @@ (o2 :> Born(NoObject, 0, "GONE"))
          @@ (h1 :> Born(o2, 0, "READY"))
Kept == [Weak EXCEPT ![o2].count = 1]
Alone == (o1 :> Born(NoObject, 1, "GONE")) @@ (h1 :> Born(o1, 0, "READY"))
           @@ (o2 :> [Born(NoObject, 0, "GONE") EXCEPT !.life = "free"])

Op(op, o, v) == [op |-> op, o |-> o, v |-> v]
Plans ==
  {[heap |-> Weak, ops |-> <<Op("upgrade", h1, NoObject), Op("root", o2, NoObject)>>],
   [heap |-> Kept, ops |-> <<Op("unroot", o2, NoObject)>>],
   [heap |-> Alone, ops |-> <<Op("allocate", o2, NoObject), Op("exchange", o1, o2)>>]}

VARIABLE plan

MCInit ==
  /\ plan \in Plans
  /\ pin = [h \in Holder |-> IF h = c THEN Current ELSE Free]
  /\ heap = plan.heap
  /\ at = [t \in Mutator |-> "out"]
  /\ held = [t \in Mutator |-> {}]
  /\ owes = [t \in Mutator |-> NoObject]
  /\ tls = [h \in Holder |-> PoisonedTLS]
  /\ color = White
  /\ reports = NoReport
  /\ kstate = [k \in Bits |-> Fresh(Unused)]
  /\ window = [base |-> 0, next |-> 0, live |-> 0]
  /\ cohort = [o \in Object |-> IF Live(o) THEN {0} ELSE {}]
  /\ needsStrip = [k \in Bits |-> {}]
  /\ work = [arrivals |-> {}, deferred |-> {}, graystack |-> {}, roots |-> Rooted,
             weak |-> {o \in WeakHolder : Live(o)}]
  /\ pc = "repin"
  /\ todo = {}
  /\ changed = FALSE
  /\ ops = 0
  /\ lapses = {}

(* The next of the plan's operations is the one that follows those made. *)
MCNext ==
  /\ UNCHANGED plan
  /\ \/ CollectorStep
     \/ \E t \in Mutator :
          \/ ThreadStep(t)
          \/ /\ ops < Len(plan.ops)
             /\ LET next == plan.ops[ops + 1] IN Mutate(t, next.op, next.o, next.v)

MCSpec == MCInit /\ [][MCNext]_<<vars, plan>> /\ Fairness
=============================================================================
