---------------------------- MODULE MCTransaction ----------------------------
(* Three transactions and two workers: writes and waits over three keys.    *)
EXTENDS Transaction, TLC

CONSTANTS t1, t2, t3, k1, k2, k3, w1, w2

Ranks3 == t1 :> 0 @@ t2 :> 1 @@ t3 :> 2

Write == {WRITE_ON_COMMIT}

(* Exclusive writes of any two keys, and the operations the entities mix    *)
(* with writes: a write that is also a wait, a separate wait for both       *)
(* outcomes, a retry.                                                       *)
WritesAndWaits ==
  {{<<k, Write>> : k \in ks} : ks \in {S \in SUBSET Key : Cardinality(S) = 2}} \cup
  {{<<k1, Write>>, <<k1, {WAIT_ON_COMMIT, WAIT_ON_ABORT}>>},
   {<<k1, Write \cup {WAIT_ON_COMMIT}>>, <<k2, {WAIT_ON_ABORT}>>},
   {<<k1, {WAIT_ON_COMMIT}>>}}
==============================================================================
