----------------------------- MODULE EpochProofs ------------------------------
(***************************************************************************)
(* Proofs about the epoch service, for any number of threads and portable  *)
(* pins and any cycle of more than three epochs, and about the allocator   *)
(* that rests on it.                                                       *)
(*                                                                         *)
(* The inductive invariant is Accounts: a word s counts a set P of pins    *)
(* taken at the epochs k.  Each word function preserves it (one lemma      *)
(* each), so an operation that chains them in one exchange preserves it.   *)
(***************************************************************************)
EXTENDS EpochAllocator, FiniteSetTheorems, TLAPS

(* The members of P that pin epoch e, and those that pin the one before.   *)
At(P, k, e) == {h \in P : k[h] = e}

Before(P, k, e) == {h \in P : Succ(k[h]) = e}

(* The word s accounts for the pins P at the epochs k. *)
Accounts(s, P, k) ==
  /\ \A h \in P : s.current = k[h] \/ s.current = Succ(k[h])
  /\ s.pins_current = Cardinality(At(P, k, s.current))
  /\ s.pins_prior = Cardinality(Before(P, k, s.current))

(* The cyclic successor is injective and has no cycle of length one or two. *)
LEMMA SuccFacts ==
  ASSUME NEW d \in Epochs, NEW e \in Epochs
  PROVE  /\ Succ(d) \in Epochs /\ Succ(d) # d
         /\ Succ(Succ(d)) # d
         /\ Succ(d) = Succ(e) => d = e
  BY EpochAssumption DEF Succ, Epochs

(* Sets of pins are finite, so their cardinalities are naturals. *)
LEMMA FinitePins ==
  ASSUME NEW P \in SUBSET Holder, NEW k, NEW e
  PROVE  /\ IsFiniteSet(P)
         /\ IsFiniteSet(At(P, k, e)) /\ Cardinality(At(P, k, e)) \in Nat
         /\ IsFiniteSet(Before(P, k, e)) /\ Cardinality(Before(P, k, e)) \in Nat
  <1>1. IsFiniteSet(P)
    BY EpochAssumption, FS_Subset
  <1>2. At(P, k, e) \in SUBSET P /\ Before(P, k, e) \in SUBSET P
    BY DEF At, Before
  <1>3. IsFiniteSet(At(P, k, e)) /\ IsFiniteSet(Before(P, k, e))
    BY <1>1, <1>2, FS_Subset
  <1> QED BY <1>1, <1>3, FS_CardinalityType

(* State::unpin takes exactly the pin of h off the word. *)
LEMMA UnpinAccounts ==
  ASSUME NEW s \in Word, NEW P \in SUBSET Holder, NEW k \in [Holder -> Epochs],
         NEW h \in P, Accounts(s, P, k)
  PROVE  /\ UnpinWord(s, k[h]) \in Word
         /\ Accounts(UnpinWord(s, k[h]), P \ {h}, k)
  <1> DEFINE e == s.current
             u == UnpinWord(s, k[h])
  <1>0. e \in Epochs /\ k[h] \in Epochs /\ s.pins_current \in Nat /\ s.pins_prior \in Nat
    BY DEF Word
  <1>1. IsFiniteSet(At(P, k, e)) /\ IsFiniteSet(Before(P, k, e))
    BY FinitePins
  <1>2. CASE k[h] = e
    <2>1. h \in At(P, k, e) /\ h \notin Before(P, k, e)
      BY <1>0, <1>2, SuccFacts DEF At, Before
    <2>2. At(P \ {h}, k, e) = At(P, k, e) \ {h} /\ Before(P \ {h}, k, e) = Before(P, k, e)
      BY <2>1 DEF At, Before
    <2>a. Cardinality(At(P, k, e) \ {h}) = Cardinality(At(P, k, e)) - 1
      BY <1>1, <2>1, FS_RemoveElement
    <2>3. Cardinality(At(P \ {h}, k, e)) = s.pins_current - 1
      BY <2>2, <2>a DEF Accounts
    <2>4. Cardinality(At(P \ {h}, k, e)) \in Nat
      BY FinitePins
    <2>5. u = [s EXCEPT !.pins_current = s.pins_current - 1]
      BY <1>0, <1>2, SuccFacts DEF UnpinWord, Word
    <2> QED BY <2>2, <2>3, <2>4, <2>5 DEF Accounts, Word
  <1>3. CASE k[h] # e
    <2>1. Succ(k[h]) = e
      BY <1>3 DEF Accounts
    <2>2. h \notin At(P, k, e) /\ h \in Before(P, k, e)
      BY <1>3, <2>1 DEF At, Before
    <2>3. At(P \ {h}, k, e) = At(P, k, e) /\ Before(P \ {h}, k, e) = Before(P, k, e) \ {h}
      BY <2>2 DEF At, Before
    <2>a. Cardinality(Before(P, k, e) \ {h}) = Cardinality(Before(P, k, e)) - 1
      BY <1>1, <2>2, FS_RemoveElement
    <2>4. Cardinality(Before(P \ {h}, k, e)) = s.pins_prior - 1
      BY <2>3, <2>a DEF Accounts
    <2>5. Cardinality(Before(P \ {h}, k, e)) \in Nat
      BY FinitePins
    <2>6. u = [s EXCEPT !.pins_prior = s.pins_prior - 1]
      BY <1>3, <2>1 DEF UnpinWord, Word
    <2> QED BY <2>3, <2>4, <2>5, <2>6 DEF Accounts, Word
  <1> QED BY <1>2, <1>3

(* State::try_advance: with no prior pins every pin is current, and becomes *)
(* prior.                                                                   *)
LEMMA TryAdvanceAccounts ==
  ASSUME NEW s \in Word, NEW P \in SUBSET Holder, NEW k \in [Holder -> Epochs],
         Accounts(s, P, k)
  PROVE  TryAdvance(s) \in Word /\ Accounts(TryAdvance(s), P, k)
  <1> DEFINE e == s.current
  <1>0. e \in Epochs /\ s.pins_current \in Nat /\ s.pins_prior \in Nat
    BY DEF Word
  <1>1. CASE s.pins_prior > 0
    BY <1>1 DEF TryAdvance
  <1>2. CASE ~(s.pins_prior > 0)
    <2>1. Cardinality(Before(P, k, e)) = 0
      BY <1>0, <1>2 DEF Accounts
    <2>2. Before(P, k, e) = {}
      BY <2>1, FinitePins, FS_EmptySet
    <2>3. \A h \in P : k[h] = e
      BY <2>2 DEF Before, Accounts
    <2>4. \A h \in P : k[h] # Succ(e)
      BY <1>0, <2>3, SuccFacts
    <2>5. At(P, k, Succ(e)) = {}
      BY <2>4 DEF At
    <2>6. Before(P, k, Succ(e)) = At(P, k, e)
      BY <2>3 DEF At, Before
    <2>7. Cardinality(At(P, k, Succ(e))) = 0
      BY <2>5, FS_EmptySet
    <2>8. TryAdvance(s) = [current |-> Succ(e), pins_current |-> 0,
                           waiting |-> FALSE, pins_prior |-> s.pins_current]
      BY <1>2 DEF TryAdvance
    <2>9. Succ(e) \in Epochs
      BY <1>0, SuccFacts
    <2> QED BY <1>0, <2>3, <2>6, <2>7, <2>8, <2>9 DEF Accounts, Word
  <1> QED BY <1>1, <1>2

(* The epoch remembered by somebody without a pin is of no account. *)
LEMMA ForgottenAccounts ==
  ASSUME NEW s, NEW P \in SUBSET Holder, NEW k \in [Holder -> Epochs],
         NEW h \in Holder \ P, NEW e \in Epochs, Accounts(s, P, k)
  PROVE  Accounts(s, P, [k EXCEPT ![h] = e])
  <1> DEFINE m == [k EXCEPT ![h] = e]
  <1>1. \A x \in P : m[x] = k[x]
    OBVIOUS
  <1>2. At(P, m, s.current) = At(P, k, s.current)
        /\ Before(P, m, s.current) = Before(P, k, s.current)
    BY <1>1 DEF At, Before
  <1> QED BY <1>1, <1>2 DEF Accounts

(* State::pin counts a new pin at the current epoch. *)
LEMMA PinAccounts ==
  ASSUME NEW s \in Word, NEW P \in SUBSET Holder, NEW k \in [Holder -> Epochs],
         NEW h \in Holder \ P, Accounts(s, P, k)
  PROVE  /\ PinWord(s) \in Word
         /\ Accounts(PinWord(s), P \cup {h}, [k EXCEPT ![h] = s.current])
  <1> DEFINE e == s.current
             m == [k EXCEPT ![h] = e]
  <1>0. e \in Epochs /\ s.pins_current \in Nat /\ s.pins_prior \in Nat
    BY DEF Word
  <1>1. Accounts(s, P, m) /\ m \in [Holder -> Epochs] /\ m[h] = e
    BY <1>0, ForgottenAccounts
  <1>2. h \notin At(P, m, e) /\ Succ(m[h]) # e
    BY <1>0, <1>1, SuccFacts DEF At
  <1>3. At(P \cup {h}, m, e) = At(P, m, e) \cup {h} /\ Before(P \cup {h}, m, e) = Before(P, m, e)
    BY <1>1, <1>2 DEF At, Before
  <1>a. Cardinality(At(P, m, e) \cup {h}) = Cardinality(At(P, m, e)) + 1
    BY <1>2, FinitePins, FS_AddElement
  <1>4. Cardinality(At(P \cup {h}, m, e)) = s.pins_current + 1
    BY <1>1, <1>3, <1>a DEF Accounts
  <1>5. PinWord(s) = [s EXCEPT !.pins_current = s.pins_current + 1] /\ PinWord(s) \in Word
    BY <1>0 DEF PinWord, Word
  <1> QED BY <1>1, <1>3, <1>4, <1>5 DEF Accounts, Word

(* State::pin_explicit counts a new pin where the existing pin of h is. *)
LEMMA PinExplicitAccounts ==
  ASSUME NEW s \in Word, NEW P \in SUBSET Holder, NEW k \in [Holder -> Epochs],
         NEW h \in P, NEW g \in Holder \ P, Accounts(s, P, k)
  PROVE  /\ PinExplicitWord(s, k[h]) \in Word
         /\ Accounts(PinExplicitWord(s, k[h]), P \cup {g}, [k EXCEPT ![g] = k[h]])
  <1> DEFINE e == s.current
             m == [k EXCEPT ![g] = k[h]]
             x == PinExplicitWord(s, k[h])
  <1>0. e \in Epochs /\ k[h] \in Epochs /\ s.pins_current \in Nat /\ s.pins_prior \in Nat
    BY DEF Word
  <1>1. Accounts(s, P, m) /\ m[g] = k[h] /\ m[h] = k[h]
    BY <1>0, ForgottenAccounts
  <1>2. CASE k[h] = e
    <2>1. Succ(m[g]) # e /\ g \notin At(P, m, e)
      BY <1>0, <1>1, <1>2, SuccFacts DEF At
    <2>2. At(P \cup {g}, m, e) = At(P, m, e) \cup {g} /\ Before(P \cup {g}, m, e) = Before(P, m, e)
      BY <1>1, <1>2, <2>1 DEF At, Before
    <2>3. Cardinality(At(P, m, e) \cup {g}) = Cardinality(At(P, m, e)) + 1
      BY <2>1, FinitePins, FS_AddElement
    <2>4. Cardinality(At(P \cup {g}, m, e)) = s.pins_current + 1
      BY <1>1, <2>2, <2>3 DEF Accounts
    <2>5. x \in Word /\ x.current = e
          /\ x.pins_current = s.pins_current + 1 /\ x.pins_prior = s.pins_prior
      BY <1>0, <1>1, <1>2, <2>1 DEF PinExplicitWord, Word
    <2>6. \A y \in P \cup {g} : e = m[y] \/ e = Succ(m[y])
      BY <1>1, <1>2 DEF Accounts
    <2>7. Cardinality(Before(P \cup {g}, m, e)) = s.pins_prior
      BY <1>1, <2>2 DEF Accounts
    <2> HIDE DEF x, m
    <2>8. Accounts(x, P \cup {g}, m)
      BY <2>4, <2>5, <2>6, <2>7 DEF Accounts
    <2> QED BY <2>5, <2>8 DEF x, m
  <1>3. CASE k[h] # e
    <2>0. Succ(k[h]) = e
      BY <1>3 DEF Accounts
    <2>1. g \notin Before(P, m, e)
      BY DEF Before
    <2>2. At(P \cup {g}, m, e) = At(P, m, e) /\ Before(P \cup {g}, m, e) = Before(P, m, e) \cup {g}
      BY <1>1, <1>3, <2>0 DEF At, Before
    <2>3. Cardinality(Before(P, m, e) \cup {g}) = Cardinality(Before(P, m, e)) + 1
      BY <2>1, FinitePins, FS_AddElement
    <2>4. Cardinality(Before(P \cup {g}, m, e)) = s.pins_prior + 1
      BY <1>1, <2>2, <2>3 DEF Accounts
    <2>5. x \in Word /\ x.current = e
          /\ x.pins_current = s.pins_current /\ x.pins_prior = s.pins_prior + 1
      BY <1>0, <1>3, <2>0 DEF PinExplicitWord, Word
    <2>6. \A y \in P \cup {g} : e = m[y] \/ e = Succ(m[y])
      BY <1>1, <2>0 DEF Accounts
    <2>7. Cardinality(At(P \cup {g}, m, e)) = s.pins_current
      BY <1>1, <2>2 DEF Accounts
    <2> HIDE DEF x, m
    <2>8. Accounts(x, P \cup {g}, m)
      BY <2>4, <2>5, <2>6, <2>7 DEF Accounts
    <2> QED BY <2>5, <2>8 DEF x, m
  <1> QED BY <1>2, <1>3

------------------------------------------------------------------------------
(* The inductive invariant. *)
IInv == TypeOK /\ Accounts(state, is_pinned, known)

(* The service starts with nobody pinned. *)
LEMMA InitIInv == Init => IInv
  <1> SUFFICES ASSUME Init PROVE IInv
    OBVIOUS
  <1>1. 0 \in Epochs
    BY EpochAssumption DEF Epochs
  <1>2. TypeOK
    BY <1>1 DEF Init, TypeOK, Word
  <1>3. At(is_pinned, known, state.current) = {} /\ Before(is_pinned, known, state.current) = {}
    BY DEF Init, At, Before
  <1>4. Accounts(state, is_pinned, known)
    BY <1>3, FS_EmptySet DEF Init, Accounts
  <1> QED BY <1>2, <1>4 DEF IInv

(* What an unpin leaves behind, before and after the epoch may advance. *)
LEMMA UnpinThenAdvance ==
  ASSUME IInv, NEW h \in is_pinned
  PROVE  LET u == UnpinWord(state, known[h]) IN
         /\ u \in Word /\ Accounts(u, is_pinned \ {h}, known)
         /\ TryAdvance(u) \in Word /\ Accounts(TryAdvance(u), is_pinned \ {h}, known)
  <1> DEFINE u == UnpinWord(state, known[h])
             rest == is_pinned \ {h}
  <1>1. u \in Word /\ Accounts(u, rest, known)
    BY UnpinAccounts DEF IInv, TypeOK
  <1>2. rest \in SUBSET Holder /\ known \in [Holder -> Epochs]
    BY DEF IInv, TypeOK
  <1> HIDE DEF u, rest
  <1>3. TryAdvance(u) \in Word /\ Accounts(TryAdvance(u), rest, known)
    BY <1>1, <1>2, TryAdvanceAccounts
  <1> QED BY <1>1, <1>3 DEF u, rest

(* A repin gives one pin up and takes it again at the epoch it finds. *)
LEMMA RepinIInv ==
  ASSUME IInv, NEW t \in Thread, RepinStep(t)
  PROVE  /\ state' \in Word /\ is_pinned' \subseteq Holder
         /\ known' \in [Holder -> Epochs] /\ notifying' \subseteq Holder
         /\ Accounts(state, is_pinned, known)'
  <1> DEFINE a == TryAdvance(UnpinWord(state, known[t]))
             rest == is_pinned \ {t}
  <1>1. t \in is_pinned /\ t \in Holder
    BY DEF RepinStep, Holder
  <1>2. a \in Word /\ Accounts(a, rest, known)
    BY <1>1, UnpinThenAdvance
  <1>3. state' = PinWord(a) /\ is_pinned' = rest \cup {t}
    BY <1>1 DEF RepinStep, Exchange
  <1>4. known' = [known EXCEPT ![t] = a.current]
    BY <1>2 DEF RepinStep, PinWord, Word
  <1>5. rest \in SUBSET Holder /\ t \in Holder \ rest /\ known \in [Holder -> Epochs]
    BY <1>1 DEF IInv, TypeOK
  <1>6. notifying' \subseteq Holder
    BY <1>1 DEF RepinStep, Exchange, IInv, TypeOK
  <1> HIDE DEF a, rest
  <1>7. PinWord(a) \in Word /\ Accounts(PinWord(a), rest \cup {t}, [known EXCEPT ![t] = a.current])
    BY <1>2, <1>5, PinAccounts
  <1>8. [known EXCEPT ![t] = a.current] \in [Holder -> Epochs]
    BY <1>2, <1>5 DEF Word
  <1> QED BY <1>3, <1>4, <1>5, <1>6, <1>7, <1>8

(* Every action keeps the invariant. *)
LEMMA NextIInv == IInv /\ [Next]_vars => IInv'
  <1> SUFFICES ASSUME IInv, [Next]_vars PROVE IInv'
    OBVIOUS
  <1> USE DEF IInv
  <1>1. ASSUME NEW h \in Holder, Pin(h) PROVE IInv'
    <2>1. h \in Holder \ is_pinned
      BY <1>1 DEF Pin
    <2>2. /\ PinWord(state) \in Word
          /\ Accounts(PinWord(state), is_pinned \cup {h}, [known EXCEPT ![h] = state.current])
      BY <2>1, PinAccounts DEF TypeOK
    <2>3. TypeOK'
      BY <1>1, <2>2 DEF Pin, Exchange, TypeOK, Word
    <2> QED BY <1>1, <2>2, <2>3 DEF Pin, Exchange
  <1>2. ASSUME NEW h \in Holder, Unpin(h) PROVE IInv'
    <2> DEFINE a == TryAdvance(UnpinWord(state, known[h]))
               rest == is_pinned \ {h}
    <2>1. h \in is_pinned
      BY <1>2 DEF Unpin
    <2>2. a \in Word /\ Accounts(a, rest, known)
      BY <2>1, UnpinThenAdvance
    <2>3. /\ state' = a /\ is_pinned' = rest
          /\ known' = IF h \in Thread THEN [known EXCEPT ![h] = a.current] ELSE known
          /\ notifying' \subseteq Holder /\ pc' = pc /\ expected' = expected
      BY <1>2, <2>1 DEF Unpin, Exchange, TypeOK
    <2>4. a.current \in Epochs /\ rest \in SUBSET Holder /\ h \in Holder \ rest
          /\ known \in [Holder -> Epochs]
      BY <2>1, <2>2 DEF Word, TypeOK
    <2> HIDE DEF a, rest
    <2>5. Accounts(a, rest, [known EXCEPT ![h] = a.current])
      BY <2>2, <2>4, ForgottenAccounts
    <2>6. Accounts(state, is_pinned, known)'
      BY <2>2, <2>3, <2>5
    <2>7. TypeOK'
      BY <2>2, <2>3, <2>4 DEF TypeOK
    <2> QED BY <2>6, <2>7
  <1>3. ASSUME NEW h \in Holder, NotifyAll(h) PROVE IInv'
    BY <1>3 DEF NotifyAll, TypeOK
  <1>4. ASSUME NEW t \in Thread, Repin(t) PROVE IInv'
    <2>1. RepinStep(t) /\ UNCHANGED <<pc, expected>>
      BY <1>4 DEF Repin
    <2> QED BY <2>1, RepinIInv DEF TypeOK
  <1>5. ASSUME NEW g \in Guard, NEW h \in Holder, PinExplicit(g, h) PROVE IInv'
    <2> DEFINE x == PinExplicitWord(state, known[h])
               m == [known EXCEPT ![g] = known[h]]
    <2>1. h \in is_pinned /\ g \in Holder \ is_pinned
      BY <1>5 DEF PinExplicit, Holder
    <2>2. x \in Word /\ Accounts(x, is_pinned \cup {g}, m)
      BY <2>1, PinExplicitAccounts DEF TypeOK
    <2>3. /\ state' = x /\ is_pinned' = is_pinned \cup {g} /\ known' = m
          /\ notifying' \subseteq Holder /\ pc' = pc /\ expected' = expected
      BY <1>5, <2>1 DEF PinExplicit, Exchange, TypeOK
    <2>4. m \in [Holder -> Epochs] /\ is_pinned' \subseteq Holder
      BY <2>1, <2>3 DEF TypeOK
    <2> HIDE DEF x, m
    <2>5. TypeOK'
      BY <2>2, <2>3, <2>4 DEF TypeOK
    <2> QED BY <2>2, <2>3, <2>5
  <1>6. ASSUME NEW w \in Waiter, RepinAndWait(w) PROVE IInv'
    <2>1. w \in Thread /\ w \in Holder /\ RepinStep(w)
      BY <1>6, EpochAssumption DEF RepinAndWait, Holder
    <2>2. pc' \in [Waiter -> {"run", "loop", "asleep"}] /\ expected' \in [Waiter -> Epochs]
      BY <1>6, <2>1 DEF RepinAndWait, TypeOK
    <2> QED BY <2>1, <2>2, RepinIInv DEF TypeOK
  <1>7. ASSUME NEW w \in Waiter, WaitReturn(w) PROVE IInv'
    BY <1>7 DEF WaitReturn, TypeOK
  <1>8. ASSUME NEW w \in Waiter, WaitMark(w) PROVE IInv'
    <2>1. WaitWord(state, expected[w]) \in Word
          /\ WaitWord(state, expected[w]).current = state.current
          /\ WaitWord(state, expected[w]).pins_current = state.pins_current
          /\ WaitWord(state, expected[w]).pins_prior = state.pins_prior
      BY DEF WaitWord, Word, TypeOK
    <2> QED BY <1>8, <2>1 DEF WaitMark, TypeOK, Accounts
  <1>9. ASSUME NEW w \in Waiter, WaitSleep(w) PROVE IInv'
    BY <1>9 DEF WaitSleep, TypeOK
  <1>10. CASE UNCHANGED vars
    BY <1>10 DEF vars, TypeOK
  <1> QED
    BY <1>1, <1>2, <1>3, <1>4, <1>5, <1>6, <1>7, <1>8, <1>9, <1>10 DEF Next

(* The invariant of the epoch service holds throughout. *)
LEMMA Inductive == Spec => []IInv
  BY InitIInv, NextIInv, PTL DEF Spec

------------------------------------------------------------------------------
(* The variables keep their types. *)
THEOREM TypeCorrect == Spec => []TypeOK
  <1>1. IInv => TypeOK
    BY DEF IInv
  <1> QED BY <1>1, Inductive, PTL

(* A held pin keeps the epoch within one of it. *)
THEOREM PinsHoldEpoch == Spec => []PinHoldsEpoch
  <1>1. IInv => PinHoldsEpoch
    BY DEF IInv, Accounts, PinHoldsEpoch
  <1> QED BY <1>1, Inductive, PTL

(* The packed counts are the cardinalities of the two sets of pins. *)
THEOREM PinsAccounted == Spec => []PinAccounting
  <1>1. IInv => PinAccounting
    BY DEF IInv, Accounts, PinAccounting, PinnedAt, Prior, At, Before
  <1> QED BY <1>1, Inductive, PTL

(* No call can trip an abort of the service. *)
THEOREM NeverTraps == Spec => []NoTrap
  <1>1. ASSUME IInv PROVE NoTrap
    <2> USE <1>1 DEF IInv
    <2> DEFINE e == state.current
               current == At(is_pinned, known, e)
               prior == Before(is_pinned, known, e)
    <2>0. is_pinned \in SUBSET Holder
      BY DEF TypeOK
    <2>1. /\ IsFiniteSet(current) /\ Cardinality(current) \in Nat
          /\ IsFiniteSet(prior) /\ Cardinality(prior) \in Nat
      BY <2>0, FinitePins
    <2>2. ASSUME NEW h \in is_pinned PROVE Validate(state, known[h])
      <3>1. CASE known[h] = e
        <4>1. current # {}
          BY <3>1 DEF At
        <4>2. Cardinality(current) # 0
          BY <2>1, <4>1, FS_EmptySet
        <4>3. state.pins_current > 0
          BY <2>1, <4>2 DEF Accounts
        <4> QED BY <3>1, <4>3 DEF Validate
      <3>2. CASE Succ(known[h]) = e
        <4>1. prior # {}
          BY <3>2 DEF Before
        <4>2. Cardinality(prior) # 0
          BY <2>1, <4>1, FS_EmptySet
        <4>3. state.pins_prior > 0
          BY <2>1, <4>2 DEF Accounts
        <4> QED BY <3>2, <4>3 DEF Validate
      <3> QED BY <3>1, <3>2 DEF Accounts
    <2>3. ASSUME is_pinned # Holder, NEW S \in SUBSET is_pinned
          PROVE  Cardinality(S) \in Nat /\ Cardinality(S) < COUNT_MAX
      <3>1. S \in SUBSET Holder /\ S # Holder
        BY <2>0, <2>3
      <3>2. Cardinality(S) <= Cardinality(Holder) /\ Cardinality(S) # Cardinality(Holder)
        BY <3>1, EpochAssumption, FS_Subset
      <3>3. Cardinality(S) \in Nat /\ Cardinality(Holder) \in Nat
        BY <3>1, EpochAssumption, FS_Subset, FS_CardinalityType
      <3> QED BY <3>2, <3>3, EpochAssumption
    <2>4. current \in SUBSET is_pinned /\ prior \in SUBSET is_pinned
      BY DEF At, Before
    <2>5. is_pinned # Holder => state.pins_current < COUNT_MAX /\ state.pins_prior < COUNT_MAX
      BY <2>3, <2>4 DEF Accounts
    <2> QED BY <2>2, <2>5 DEF NoTrap
  <1> QED BY <1>1, Inductive, PTL

(* Whoever sleeps while its epoch has passed is about to be woken.  The    *)
(* step that can hurt is an exchange that clears the waiting bit, and it   *)
(* puts its caller into `notifying'.                                       *)
THEOREM WakeupsAreNotLost == Spec => []NoLostWakeup
  <1>1. Init => NoLostWakeup
    BY DEF Init, NoLostWakeup
  <1>2. ASSUME IInv, NoLostWakeup, [Next]_vars PROVE NoLostWakeup'
    <2> USE <1>2 DEF IInv
    <2>0. ASSUME NEW h, NEW d \in Word, Exchange(h, d), notifying \subseteq Holder,
                 d.waiting => d.current = state.current,
                 \A w \in Waiter : pc'[w] = "asleep" => pc[w] = "asleep" /\ expected'[w] = expected[w]
          PROVE  NoLostWakeup'
      BY <2>0 DEF Exchange, NoLostWakeup, TypeOK
    <2>1. ASSUME NEW u \in Word PROVE TryAdvance(u) \in Word =>
             /\ TryAdvance(u).waiting => u.waiting /\ TryAdvance(u).current = u.current
      BY DEF TryAdvance, Word
    <2>2. ASSUME NEW h \in is_pinned
          PROVE  LET a == TryAdvance(UnpinWord(state, known[h]))
                 IN a \in Word /\ (a.waiting => a.current = state.current)
      <3>1. UnpinWord(state, known[h]).current = state.current
        BY DEF UnpinWord, TypeOK, Word
      <3> QED BY <2>1, <3>1, UnpinThenAdvance
    <2>3. ASSUME NEW h \in Holder, Pin(h) PROVE NoLostWakeup'
      <3>1. PinWord(state) \in Word /\ PinWord(state).current = state.current
        BY DEF PinWord, TypeOK, Word
      <3> QED BY <2>0, <2>3, <3>1 DEF Pin, TypeOK
    <2>4. ASSUME NEW h \in Holder, Unpin(h) PROVE NoLostWakeup'
      BY <2>0, <2>2, <2>4 DEF Unpin, TypeOK
    <2>5. ASSUME NEW h \in Holder, NotifyAll(h) PROVE NoLostWakeup'
      BY <2>5 DEF NotifyAll, NoLostWakeup, TypeOK
    <2>6. ASSUME NEW t, RepinStep(t),
                 \A w \in Waiter : pc'[w] = "asleep" => pc[w] = "asleep" /\ expected'[w] = expected[w]
          PROVE  NoLostWakeup'
      <3> DEFINE a == TryAdvance(UnpinWord(state, known[t]))
      <3>1. a \in Word /\ (a.waiting => a.current = state.current)
        BY <2>2, <2>6 DEF RepinStep
      <3>2. PinWord(a) \in Word /\ PinWord(a).current = a.current /\ PinWord(a).waiting = a.waiting
        BY <3>1 DEF PinWord, Word
      <3> QED BY <2>0, <2>6, <3>1, <3>2 DEF RepinStep, TypeOK
    <2>7. ASSUME NEW t \in Thread, Repin(t) PROVE NoLostWakeup'
      BY <2>6, <2>7 DEF Repin
    <2>8. ASSUME NEW g \in Guard, NEW h \in Holder, PinExplicit(g, h) PROVE NoLostWakeup'
      <3>1. PinExplicitWord(state, known[h]) \in Word /\ ~PinExplicitWord(state, known[h]).waiting
        BY DEF PinExplicitWord, TypeOK, Word
      <3> QED BY <2>0, <2>8, <3>1 DEF PinExplicit, TypeOK
    <2>9. ASSUME NEW w \in Waiter, RepinAndWait(w) PROVE NoLostWakeup'
      BY <2>6, <2>9 DEF RepinAndWait, RepinStep, Idle, TypeOK
    <2>10. ASSUME NEW w \in Waiter, WaitReturn(w) PROVE NoLostWakeup'
      BY <2>10 DEF WaitReturn, NoLostWakeup, TypeOK
    <2>11. ASSUME NEW w \in Waiter, WaitMark(w) PROVE NoLostWakeup'
      BY <2>11 DEF WaitMark, InLoop, NoLostWakeup, TypeOK
    <2>12. ASSUME NEW w \in Waiter, WaitSleep(w) PROVE NoLostWakeup'
      BY <2>12 DEF WaitSleep, NoLostWakeup, TypeOK
    <2>13. CASE UNCHANGED vars
      BY <2>13 DEF vars, NoLostWakeup
    <2> QED
      BY <2>3, <2>4, <2>5, <2>7, <2>8, <2>9, <2>10, <2>11, <2>12, <2>13 DEF Next
  <1> QED BY <1>1, <1>2, Inductive, PTL DEF Spec

(* An exchange that moves the epoch moves it by one, and every pin that    *)
(* stays put is at the epoch that becomes prior.                           *)
LEMMA AdvanceStep ==
  ASSUME IInv, NEW h \in is_pinned
  PROVE  LET a == TryAdvance(UnpinWord(state, known[h])) IN
         a.current # state.current =>
           /\ a.current = Succ(state.current)
           /\ \A x \in is_pinned \ {h} : known[x] = state.current
  <1> DEFINE u == UnpinWord(state, known[h])
             rest == is_pinned \ {h}
  <1>1. u \in Word /\ Accounts(u, rest, known)
    BY UnpinThenAdvance
  <1>2. u.current = state.current
    BY DEF UnpinWord, IInv, TypeOK, Word
  <1>3. rest \in SUBSET Holder
    BY DEF IInv, TypeOK
  <1>4. CASE u.pins_prior > 0
    BY <1>2, <1>4 DEF TryAdvance
  <1>5. CASE ~(u.pins_prior > 0)
    <2>1. u.pins_prior = 0
      BY <1>1, <1>5 DEF Word
    <2>2. Cardinality(Before(rest, known, state.current)) = 0
      BY <1>1, <1>2, <2>1 DEF Accounts
    <2>3. Before(rest, known, state.current) = {}
      BY <1>3, <2>2, FinitePins, FS_EmptySet
    <2>4. \A x \in rest : known[x] = state.current
      BY <1>1, <1>2, <2>3 DEF Accounts, Before
    <2>5. TryAdvance(u).current = Succ(state.current)
      BY <1>2, <1>5 DEF TryAdvance
    <2> QED BY <2>4, <2>5
  <1> QED BY <1>4, <1>5

(* The epoch advances by one, and not past a pin that is kept. *)
THEOREM EpochAdvancesByOne == Spec => EpochAdvances
  <1> DEFINE A == state'.current # state.current =>
                    /\ state'.current = Succ(state.current)
                    /\ \A h \in is_pinned \cap is_pinned' :
                         known'[h] = known[h] => known[h] = state.current
  <1>1. ASSUME IInv, [Next]_vars PROVE [A]_vars
    <2> USE <1>1
    <2>0. state \in Word /\ state.current \in Epochs /\ known \in [Holder -> Epochs]
      BY DEF IInv, TypeOK, Word
    <2>1. ASSUME NEW h \in Holder, Pin(h) PROVE A
      <3>1. PinWord(state).current = state.current
        BY <2>0 DEF PinWord, Word
      <3> QED BY <2>1, <3>1 DEF Pin, Exchange
    <2>2. ASSUME NEW h \in Holder, Unpin(h) PROVE A
      <3>1. h \in is_pinned /\ is_pinned' = is_pinned \ {h}
            /\ state' = TryAdvance(UnpinWord(state, known[h]))
        BY <2>2 DEF Unpin, Exchange
      <3> QED BY <3>1, AdvanceStep
    <2>3. ASSUME NEW t \in Holder, RepinStep(t) PROVE A
      <3> DEFINE a == TryAdvance(UnpinWord(state, known[t]))
      <3>1. t \in is_pinned /\ is_pinned' = is_pinned /\ state' = PinWord(a)
            /\ known' = [known EXCEPT ![t] = PinWord(a).current]
        BY <2>3 DEF RepinStep, Exchange
      <3>2. a \in Word
        BY <3>1, UnpinThenAdvance
      <3>3. PinWord(a).current = a.current
        BY <3>2 DEF PinWord, Word
      <3>4. a.current # state.current =>
              /\ a.current = Succ(state.current)
              /\ \A x \in is_pinned \ {t} : known[x] = state.current
        BY <3>1, AdvanceStep
      <3>5. state.current = known[t] \/ state.current = Succ(known[t])
        BY <3>1 DEF IInv, Accounts
      <3>6. known[t] \in Epochs
        BY <2>0, <2>3
      <3>7. a.current # state.current => known'[t] # known[t]
        BY <2>0, <2>3, <3>1, <3>3, <3>4, <3>5, <3>6, SuccFacts
      <3> QED BY <3>1, <3>3, <3>4, <3>7
    <2>4. ASSUME NEW g \in Guard, NEW h \in Holder, PinExplicit(g, h) PROVE A
      BY <2>4 DEF PinExplicit, Exchange, PinExplicitWord
    <2>5. ASSUME NEW w \in Waiter, WaitMark(w) PROVE A
      <3>1. WaitWord(state, expected[w]).current = state.current
        BY <2>0 DEF WaitWord, Word
      <3> QED BY <2>5, <3>1 DEF WaitMark
    <2>6. ASSUME state' = state PROVE A
      BY <2>6
    <2> QED
      BY <2>1, <2>2, <2>3, <2>4, <2>5, <2>6, EpochAssumption
         DEF Next, Repin, RepinAndWait, NotifyAll, WaitReturn, WaitSleep, Holder
  <1>2. IInv /\ [Next]_vars => [A]_vars
    BY <1>1
  <1>3. Spec => [][A]_vars
    BY <1>2, Inductive, PTL DEF Spec
  <1> QED BY <1>3 DEF EpochAdvances

(* Between two repins of one thread the epoch moves at most two, so a      *)
(* waiter is never at the epoch just before the one it waits on.           *)
THEOREM NoWaiterBlocksItself == Spec => []NoSelfDeadlock
  <1>0. ASSUME NEW e \in Epochs
        PROVE  /\ Succ(e) # e /\ Succ(Succ(e)) # e /\ Succ(Succ(Succ(e))) # e
    BY <1>0, EpochAssumption DEF Epochs, Succ
  <1>1. Init => NoSelfDeadlock
    BY DEF Init, NoSelfDeadlock
  <1>2. ASSUME IInv, NoSelfDeadlock, [Next]_vars PROVE NoSelfDeadlock'
    <2> USE <1>2 DEF IInv
    <2>0. known \in [Holder -> Epochs] /\ Waiter \subseteq Holder
      BY EpochAssumption DEF TypeOK, Holder
    <2>1. ASSUME pc' = pc, expected' = expected, NEW h \in Holder, h \in Waiter => pc[h] = "run",
                 \A x \in Holder \ {h} : known'[x] = known[x]
          PROVE  NoSelfDeadlock'
      BY <2>0, <2>1 DEF NoSelfDeadlock
    <2>2. ASSUME NEW h \in Holder, Pin(h) \/ Unpin(h) \/ Repin(h) PROVE NoSelfDeadlock'
      BY <2>0, <2>1, <2>2 DEF Pin, Unpin, Repin, RepinStep, Idle
    <2>3. ASSUME NEW g \in Guard, NEW h \in Holder, PinExplicit(g, h) PROVE NoSelfDeadlock'
      BY <2>0, <2>1, <2>3 DEF PinExplicit, Idle, Holder
    <2>4. ASSUME NEW w \in Waiter, RepinAndWait(w) PROVE NoSelfDeadlock'
      <3> DEFINE a == TryAdvance(UnpinWord(state, known[w]))
      <3>1. w \in is_pinned /\ known' = [known EXCEPT ![w] = PinWord(a).current]
        BY <2>4 DEF RepinAndWait, RepinStep
      <3>2. a \in Word
        BY <3>1, UnpinThenAdvance
      <3>3. PinWord(a).current = a.current
        BY <3>2 DEF PinWord, Word
      <3>4. a.current = state.current \/ a.current = Succ(state.current)
        BY <3>1, AdvanceStep
      <3>5. state.current = known[w] \/ state.current = Succ(known[w])
        BY <3>1 DEF Accounts
      <3>6. known'[w] = a.current /\ known[w] \in Epochs
        BY <2>0, <2>4, <3>1, <3>3
      <3>7. Succ(known'[w]) # known[w]
        BY <1>0, <3>4, <3>5, <3>6
      <3>8. \A x \in Waiter \ {w} : known'[x] = known[x] /\ pc'[x] = pc[x] /\ expected'[x] = expected[x]
        BY <2>0, <2>4, <3>1 DEF RepinAndWait, TypeOK
      <3>9. expected'[w] = known[w]
        BY <2>4 DEF RepinAndWait, TypeOK
      <3> QED BY <3>7, <3>8, <3>9 DEF NoSelfDeadlock
    <2>5. ASSUME known' = known, expected' = expected,
                 \A w \in Waiter : pc'[w] # "run" => pc[w] # "run"
          PROVE  NoSelfDeadlock'
      BY <2>5 DEF NoSelfDeadlock
    <2>6. ASSUME NEW h \in Holder, NotifyAll(h) PROVE NoSelfDeadlock'
      BY <2>5, <2>6 DEF NotifyAll, TypeOK
    <2>7. ASSUME NEW w \in Waiter, WaitReturn(w) \/ WaitMark(w) \/ WaitSleep(w)
          PROVE  NoSelfDeadlock'
      BY <2>5, <2>7 DEF WaitReturn, WaitMark, WaitSleep, InLoop, TypeOK
    <2>8. CASE UNCHANGED vars
      BY <2>5, <2>8 DEF vars
    <2> QED
      BY <2>2, <2>3, <2>4, <2>6, <2>7, <2>8 DEF Next, Holder
  <1> QED BY <1>1, <1>2, Inductive, PTL DEF Spec
------------------------------------------------------------------------------
(* The service implements Grace.  Grades is the refinement mapping, as a   *)
(* function of the current epoch, the pins and what they pin.              *)
Grades(c, P, k) ==
  [h \in Holder |-> IF h \notin P THEN "free" ELSE IF k[h] = c THEN "current" ELSE "prior"]

(* try_advance moves on exactly when no pin is of the prior epoch, and then *)
(* every pin ages.                                                          *)
LEMMA TryAdvanceGrades ==
  ASSUME NEW s \in Word, NEW P \in SUBSET Holder, NEW k \in [Holder -> Epochs],
         Accounts(s, P, k)
  PROVE  Grades(TryAdvance(s).current, P, k) = G!Advanced(Grades(s.current, P, k))
  <1> DEFINE e == s.current
             p == Grades(e, P, k)
  <1>0. e \in Epochs /\ s.pins_prior \in Nat
    BY DEF Word
  <1>1. Before(P, k, e) = {} <=> \A h \in P : k[h] = e
    BY <1>0, SuccFacts DEF Before, Accounts
  <1>2. G!Advances(p) <=> \A h \in P : k[h] = e
    BY DEF G!Advances, G!Prior, Grades
  <1>3. Before(P, k, e) = {} <=> s.pins_prior = 0
    BY FinitePins, FS_EmptySet DEF Accounts
  <1>4. CASE s.pins_prior = 0
    <2>1. TryAdvance(s).current = Succ(e) /\ Succ(e) # e
      BY <1>0, <1>4, SuccFacts DEF TryAdvance
    <2>2. \A h \in P : k[h] = e
      BY <1>1, <1>3, <1>4
    <2>3. G!Advanced(p) = [h \in Holder |-> IF p[h] = "current" THEN "prior" ELSE p[h]]
      BY <1>2, <2>2 DEF G!Advanced, G!Current, G!Prior
    <2>4. \A h \in Holder : Grades(Succ(e), P, k)[h] = IF p[h] = "current" THEN "prior" ELSE p[h]
      BY <2>1, <2>2 DEF Grades
    <2>5. Grades(Succ(e), P, k) = [h \in Holder |-> IF p[h] = "current" THEN "prior" ELSE p[h]]
      BY <2>4 DEF Grades
    <2> QED BY <2>1, <2>3, <2>5
  <1>5. CASE s.pins_prior # 0
    <2>1. TryAdvance(s) = s
      BY <1>0, <1>5 DEF TryAdvance
    <2>2. G!Advanced(p) = p
      BY <1>1, <1>2, <1>3, <1>5 DEF G!Advanced
    <2> QED BY <2>1, <2>2
  <1> QED BY <1>4, <1>5

(* A release grades the pins that are left as Grace says. *)
LEMMA ReleaseGrades ==
  ASSUME IInv, NEW h \in is_pinned
  PROVE  LET a == TryAdvance(UnpinWord(state, known[h]))
         IN Grades(a.current, is_pinned \ {h}, known) = G!Advanced(G!Released(h))
  <1> DEFINE u == UnpinWord(state, known[h])
             rest == is_pinned \ {h}
  <1>1. u \in Word /\ Accounts(u, rest, known)
    BY UnpinThenAdvance
  <1>2. u.current = state.current
    BY DEF UnpinWord, IInv, TypeOK, Word
  <1>3. rest \in SUBSET Holder /\ known \in [Holder -> Epochs]
    BY DEF IInv, TypeOK
  <1>4. Grades(state.current, rest, known) = G!Released(h)
    BY <1>3 DEF Grades, G!Released, G!Free
  <1> HIDE DEF u, rest
  <1>5. Grades(TryAdvance(u).current, rest, known) = G!Advanced(Grades(u.current, rest, known))
    BY <1>1, <1>3, TryAdvanceGrades
  <1> QED BY <1>2, <1>4, <1>5 DEF u, rest

(* Whatever becomes of the word, of the counts and of the cyclic epochs,   *)
(* pins age, move and end as Grace says: each exchange is one step of it.  *)
THEOREM ServiceKeepsGrace == Spec => GraceSpec
  <1> DEFINE grades == Grades(state.current, is_pinned, known)
             pin == [h \in Holder |-> IF h \notin is_pinned THEN "free"
                       ELSE IF known[h] = state.current THEN "current" ELSE "prior"]
  <1>0. grades = pin
    BY DEF Grades
  <1>1. Init => G!PInit
    BY DEF Init, G!PInit, G!Free
  <1>2. ASSUME IInv, [Next]_vars PROVE [G!PNext]_pin
    <2> USE <1>2
    <2>0. state \in Word /\ state.current \in Epochs /\ known \in [Holder -> Epochs]
          /\ is_pinned \in SUBSET Holder
      BY DEF IInv, TypeOK, Word
    <2>a. \A h \in is_pinned : known[h] = state.current \/ Succ(known[h]) = state.current
      BY DEF IInv, Accounts
    <2>1. ASSUME NEW h \in Holder, Pin(h) PROVE G!Take(h)
      <3>1. state'.current = state.current
        BY <2>0, <2>1 DEF Pin, Exchange, PinWord, Word
      <3>2. h \notin is_pinned /\ is_pinned' = is_pinned \cup {h}
            /\ known' = [known EXCEPT ![h] = state.current]
        BY <2>1 DEF Pin
      <3>3. pin[h] = "free" /\ pin' = [pin EXCEPT ![h] = "current"]
        BY <2>0, <3>1, <3>2
      <3> QED BY <3>3 DEF G!Take, G!Free, G!Current
    <2>2. ASSUME NEW h \in Holder, Unpin(h) PROVE G!Drop(h)
      <3> DEFINE a == TryAdvance(UnpinWord(state, known[h]))
      <3>1. h \in is_pinned /\ is_pinned' = is_pinned \ {h} /\ state' = a
        BY <2>2 DEF Unpin, Exchange
      <3>2. \A x \in Holder \ {h} : known'[x] = known[x]
        BY <2>0, <2>2 DEF Unpin
      <3>3. Grades(a.current, is_pinned \ {h}, known) = G!Advanced(G!Released(h))
        BY <3>1, ReleaseGrades
      <3> HIDE DEF a
      <3>4. pin' = Grades(a.current, is_pinned \ {h}, known)
        BY <3>1, <3>2 DEF Grades
      <3>5. pin[h] # "free"
        BY <2>2, <3>1
      <3> QED BY <3>3, <3>4, <3>5 DEF G!Drop, G!Free
    <2>3. ASSUME NEW h \in Holder, RepinStep(h) PROVE G!Renew(h)
      <3> DEFINE a == TryAdvance(UnpinWord(state, known[h]))
      <3>1. h \in is_pinned /\ is_pinned' = is_pinned /\ state' = PinWord(a)
            /\ known' = [known EXCEPT ![h] = PinWord(a).current]
        BY <2>3 DEF RepinStep, Exchange
      <3>2. a \in Word
        BY <3>1, UnpinThenAdvance
      <3>3. PinWord(a).current = a.current
        BY <3>2 DEF PinWord, Word
      <3>4. Grades(a.current, is_pinned \ {h}, known) = G!Advanced(G!Released(h))
        BY <3>1, ReleaseGrades
      <3> HIDE DEF a
      <3>5. pin' = [Grades(a.current, is_pinned \ {h}, known) EXCEPT ![h] = "current"]
        BY <2>0, <3>1, <3>3 DEF Grades
      <3>6. pin[h] # "free"
        BY <2>3, <3>1
      <3> QED BY <3>4, <3>5, <3>6 DEF G!Renew, G!Free, G!Current
    <2>4. ASSUME NEW g \in Guard, NEW h \in Holder, PinExplicit(g, h) PROVE G!Copy(g, h)
      <3>0. g \in Holder
        BY DEF Holder
      <3>1. state'.current = state.current
        BY <2>4 DEF PinExplicit, Exchange, PinExplicitWord
      <3>2. g \notin is_pinned /\ h \in is_pinned /\ is_pinned' = is_pinned \cup {g}
            /\ known' = [known EXCEPT ![g] = known[h]]
        BY <2>4 DEF PinExplicit
      <3>3. pin[g] = "free" /\ pin[h] # "free" /\ pin' = [pin EXCEPT ![g] = pin[h]]
        BY <2>0, <3>0, <3>1, <3>2
      <3> QED BY <3>3 DEF G!Copy, G!Free
    <2>5. ASSUME NEW w \in Waiter, WaitMark(w) PROVE pin' = pin
      <3>1. state'.current = state.current
        BY <2>0, <2>5 DEF WaitMark, WaitWord, Word
      <3> QED BY <2>5, <3>1 DEF WaitMark
    <2>6. ASSUME UNCHANGED <<state, is_pinned, known>> PROVE pin' = pin
      BY <2>6
    <2> HIDE DEF pin
    <2>7. Waiter \subseteq Holder /\ Thread \subseteq Holder /\ Guard \subseteq Holder
      BY EpochAssumption DEF Holder
    <2>8. CASE \E h \in Holder : Pin(h) \/ Unpin(h) \/ RepinStep(h)
      BY <2>1, <2>2, <2>3, <2>8 DEF G!PNext
    <2>9. CASE \E g \in Guard, h \in Holder : PinExplicit(g, h)
      BY <2>4, <2>7, <2>9 DEF G!PNext
    <2> QED
      BY <2>5, <2>6, <2>7, <2>8, <2>9
         DEF Next, Repin, RepinAndWait, NotifyAll, WaitReturn, WaitSleep, vars
  <1>3. IInv /\ [Next]_vars => [G!PNext]_pin
    BY <1>2
  <1> QED BY <1>1, <1>3, Inductive, PTL DEF Spec, GraceSpec, G!PSpec
------------------------------------------------------------------------------
(* The embargo of the epoch allocator, for any number of threads,          *)
(* allocators and portable pins.  A pin taken at epoch p keeps the service *)
(* at p or p + 1, so a thread observes at most two changes of epoch while  *)
(* a pin that may reach into its head list is held.  Aged says how far     *)
(* into retirement such a list can have come by then; it is never the next *)
(* to be restarted.                                                        *)
(* h may reach into list l of thread t, and what follows for l. *)
AgedBy(t, l, h) ==
  /\ h \in is_pinned
  /\ known[t] = Succ(known[h]) => state.current = Succ(known[h])
  /\ l = head[t] => \/ known[t] \in {known[h], Succ(known[h])}
                    \/ Succ(known[t]) = known[h]
  /\ l = alternates[t][3] => known[t] \in {known[h], Succ(known[h])}
  /\ l = alternates[t][2] => known[t] = Succ(known[h])
  /\ l # alternates[t][1]

Aged == \A t \in Allocator : \A l \in Lists : \A h \in witness[t][l] : AgedBy(t, l, h)

(* What UpdateWith does to the lists of one thread. *)
LEMMA UpdateWithLists ==
  ASSUME ATypeOK, UpdateWith, NEW t \in Allocator
  PROVE  /\ known'[t] = known[t] => head'[t] = head[t] /\ alternates'[t] = alternates[t]
         /\ known'[t] # known[t] =>
              /\ head'[t] = alternates[t][1]
              /\ alternates'[t] \in [1 .. SIZE -> Lists]
              /\ alternates'[t][1] = alternates[t][2]
              /\ alternates'[t][2] = alternates[t][3]
              /\ alternates'[t][3] = head[t]
  <1>1. alternates[t] \in [1 .. SIZE -> Lists] /\ head[t] \in Lists
    BY DEF ATypeOK
  <1>2. CASE known'[t] = known[t]
    BY <1>2 DEF UpdateWith
  <1>3. CASE known'[t] # known[t]
    <2>1. head'[t] = alternates[t][1]
      BY <1>3 DEF UpdateWith
    <2>2. alternates'[t] = [i \in 1 .. 3 |-> IF i < 3 THEN alternates[t][i + 1] ELSE head[t]]
      BY <1>3 DEF UpdateWith, SIZE
    <2>3. alternates'[t] \in [1 .. 3 -> Lists]
      BY <1>1, <2>2 DEF SIZE
    <2>4. alternates'[t][1] = alternates[t][2] /\ alternates'[t][2] = alternates[t][3]
          /\ alternates'[t][3] = head[t]
      BY <2>2
    <2> QED BY <1>3, <2>1, <2>3, <2>4 DEF SIZE
  <1> QED BY <1>2, <1>3

(* The rotation keeps the types, whatever is observed. *)
LEMMA UpdateWithTypes ==
  ASSUME ATypeOK, UpdateWith, witness' \in [Allocator -> [Lists -> SUBSET Holder]]
  PROVE  ATypeOK'
  <1>1. head' \in [Allocator -> Lists]
    <2>1. ASSUME NEW t \in Allocator PROVE head'[t] \in Lists
      <3>1. alternates[t][1] \in Lists /\ head[t] \in Lists
        BY DEF ATypeOK, SIZE
      <3> QED BY <3>1, UpdateWithLists
    <2> QED BY <2>1 DEF UpdateWith
  <1>2. alternates' \in [Allocator -> [1 .. SIZE -> Lists]]
    <2>1. ASSUME NEW t \in Allocator PROVE alternates'[t] \in [1 .. SIZE -> Lists]
      BY UpdateWithLists DEF ATypeOK
    <2> QED BY <2>1 DEF UpdateWith
  <1>3. ASSUME NEW t \in Allocator, NEW i \in 1 .. SIZE
        PROVE  /\ alternates'[t][i] # head'[t]
               /\ \A j \in 1 .. SIZE : alternates'[t][i] = alternates'[t][j] => i = j
    <2> DEFINE o == alternates[t]
    <2>1. /\ o[1] # o[2] /\ o[1] # o[3] /\ o[2] # o[3]
          /\ o[1] # head[t] /\ o[2] # head[t] /\ o[3] # head[t]
      BY DEF ATypeOK, SIZE
    <2>2. CASE known'[t] = known[t]
      BY <2>2, UpdateWithLists DEF ATypeOK
    <2>3. CASE known'[t] # known[t]
      BY <2>1, <2>3, UpdateWithLists DEF SIZE
    <2> QED BY <2>2, <2>3
  <1> QED BY <1>1, <1>2, <1>3 DEF ATypeOK

(* One observation, or none, ages the lists that the pin of h may reach    *)
(* into; x is the pin that did before the step.                            *)
LEMMA Ages ==
  ASSUME IInv, IInv', ATypeOK, UpdateWith,
         NEW t \in Allocator, NEW l \in Lists, NEW x \in Holder, NEW h \in Holder,
         AgedBy(t, l, x), h \in is_pinned', known'[h] = known[x],
         known'[t] = known[t] \/ known'[t] = state'.current,
         state'.current \in {state.current, Succ(state.current)}
  PROVE  AgedBy(t, l, h)' /\ (head'[t] # head[t] => l # head'[t])
  <1> DEFINE p == known[x]
  <1>1. /\ p \in Epochs /\ known[t] \in Epochs /\ known'[t] \in Epochs
        /\ state.current \in Epochs /\ state'.current \in Epochs
    BY AllocatorAssumption DEF IInv, TypeOK, Word, Holder
  <1>2. state'.current = p \/ state'.current = Succ(p)
    BY DEF IInv, Accounts
  <1>3. Succ(p) # p /\ Succ(Succ(p)) # p /\ Succ(Succ(p)) # Succ(p) /\ Succ(p) \in Epochs
    BY <1>1, SuccFacts
  <1>4. state.current = Succ(p) => state'.current = Succ(p)
    BY <1>2, <1>3
  <1>5. known'[h] = p
    OBVIOUS
  <1> HIDE DEF p
  <1>6. CASE known'[t] = known[t]
    BY <1>4, <1>5, <1>6, UpdateWithLists DEF AgedBy, p
  <1>7. CASE known'[t] # known[t]
    <2>1. known'[t] = state'.current
      BY <1>7
    <2>2. l # head'[t]
      BY <1>7, UpdateWithLists DEF AgedBy
    <2>3. known[t] # Succ(p)
      BY <1>4, <1>7, <2>1 DEF AgedBy, p
    <2>4. l # alternates'[t][1]
      BY <1>7, <2>3, UpdateWithLists DEF AgedBy, p
    <2>5. l = alternates'[t][2] => known'[t] = Succ(p)
      BY <1>2, <1>7, <2>1, <2>3, UpdateWithLists DEF AgedBy, p
    <2>6. l = alternates'[t][3] => known'[t] \in {p, Succ(p)}
      BY <1>2, <2>1
    <2> QED BY <1>5, <2>1, <2>2, <2>4, <2>5, <2>6 DEF AgedBy
  <1> QED BY <1>6, <1>7
------------------------------------------------------------------------------
(* What an operation of the service leaves of a pin that may reach into a  *)
(* list after it: the pin x that did before, at the same epoch.            *)
Continues(x, h) == h \in is_pinned' /\ known'[h] = known[x]

(* A thread learns of an epoch only as the current one. *)
Observes == \A t \in Allocator : known'[t] = known[t] \/ known'[t] = state'.current

Forward == state'.current \in {state.current, Succ(state.current)}

AInv == ATypeOK /\ Aged

(* An operation that ends no pin but that of h, in whose course only h     *)
(* learns of an epoch.                                                     *)
LEMMA Operation ==
  ASSUME IInv, IInv', AInv, UpdateWith, Observes, Forward,
         witness' \in [Allocator -> [Lists -> SUBSET Holder]],
         \A t \in Allocator : \A l \in Lists : \A h \in witness'[t][l] :
           \E x \in witness[t][l] : Continues(x, h)
  PROVE  AInv' /\ (\A t \in Allocator : head'[t] # head[t] => witness'[t][head'[t]] = {})
  <1>1. ATypeOK'
    BY UpdateWithTypes DEF AInv
  <1>2. ASSUME NEW t \in Allocator, NEW l \in Lists, NEW h \in witness'[t][l]
        PROVE  AgedBy(t, l, h)' /\ (head'[t] # head[t] => l # head'[t])
    <2>1. PICK x \in witness[t][l] : Continues(x, h)
      BY <1>2
    <2>2. x \in Holder /\ h \in Holder /\ AgedBy(t, l, x)
      BY DEF AInv, ATypeOK, Aged
    <2>3. known'[t] = known[t] \/ known'[t] = state'.current
      BY DEF Observes
    <2> QED BY <2>1, <2>2, <2>3, Ages DEF AInv, Forward, Continues
  <1>3. Aged'
    BY <1>2 DEF Aged
  <1>4. ASSUME NEW t \in Allocator, head'[t] # head[t] PROVE witness'[t][head'[t]] = {}
    <2>1. head'[t] \in Lists
      BY <1>1 DEF ATypeOK
    <2> QED BY <1>2, <1>4, <2>1
  <1> QED BY <1>1, <1>3, <1>4 DEF AInv

(* An allocation: every pin of now is within one epoch of the allocator's. *)
LEMMA AllocateAges == ASSUME IInv, AInv, NEW t \in Allocator, Allocate(t) PROVE AInv'
  <1>1. t \in Holder /\ t \in is_pinned
    BY AllocatorAssumption DEF Allocate, Holder
  <1>2. /\ head' = head /\ alternates' = alternates /\ state' = state
        /\ is_pinned' = is_pinned /\ known' = known
    BY DEF Allocate, vars
  <1>3. witness' = [witness EXCEPT ![t][head[t]] = @ \cup is_pinned]
    BY DEF Allocate
  <1>4. is_pinned \subseteq Holder /\ head[t] \in Lists /\ witness[t] \in [Lists -> SUBSET Holder]
    BY DEF IInv, TypeOK, AInv, ATypeOK
  <1>5. ATypeOK'
    BY <1>2, <1>3, <1>4 DEF AInv, ATypeOK
  <1>6. ASSUME NEW h \in is_pinned PROVE AgedBy(t, head[t], h)
    <2>1. known[h] \in Epochs /\ known[t] \in Epochs /\ state.current \in Epochs
      BY <1>1, <1>4 DEF IInv, TypeOK, Word
    <2>2. state.current = known[t] \/ state.current = Succ(known[t])
      BY <1>1 DEF IInv, Accounts
    <2>3. state.current = known[h] \/ state.current = Succ(known[h])
      BY DEF IInv, Accounts
    <2>4. /\ Succ(known[h]) # known[h] /\ Succ(Succ(known[h])) # known[h]
          /\ Succ(known[h]) \in Epochs /\ Succ(Succ(known[h])) # Succ(known[h])
          /\ Succ(known[h]) = Succ(known[t]) => known[h] = known[t]
      BY <2>1, SuccFacts
    <2>5. known[t] = Succ(known[h]) => state.current = Succ(known[h])
      BY <2>2, <2>3, <2>4
    <2>6. known[t] \in {known[h], Succ(known[h])} \/ Succ(known[t]) = known[h]
      BY <2>2, <2>3, <2>4
    <2>7. \A i \in 1 .. 3 : head[t] # alternates[t][i]
      BY DEF AInv, ATypeOK, SIZE
    <2> QED BY <2>5, <2>6, <2>7 DEF AgedBy
  <1>7. ASSUME NEW u \in Allocator, NEW l \in Lists, NEW h \in witness'[u][l]
        PROVE  AgedBy(u, l, h)
    <2>1. CASE h \in witness[u][l]
      BY <2>1 DEF AInv, Aged
    <2>2. CASE h \notin witness[u][l]
      <3>1. u = t /\ l = head[t] /\ h \in is_pinned
        BY <1>3, <1>4, <1>7, <2>2 DEF AInv, ATypeOK
      <3> QED BY <1>6, <3>1
    <2> QED BY <2>1, <2>2
  <1>8. Aged'
    BY <1>2, <1>7 DEF Aged, AgedBy
  <1> QED BY <1>5, <1>8 DEF AInv

(* No step of the allocator takes a list that may still be reached into.   *)
LEMMA AStep ==
  ASSUME IInv, IInv', AInv, Forward, ANext
  PROVE  AInv' /\ (\A t \in Allocator : head'[t] # head[t] => witness'[t][head'[t]] = {})
  <1>0. /\ witness \in [Allocator -> [Lists -> SUBSET Holder]] /\ Allocator \subseteq Thread
        /\ known \in [Holder -> Epochs] /\ is_pinned \subseteq Holder /\ Holder = Thread \cup Guard
        /\ Waiter \subseteq Thread /\ Thread \cap Guard = {} /\ state \in Word
    BY AllocatorAssumption, EpochAssumption DEF AInv, ATypeOK, IInv, TypeOK, Holder
  <1>a. ASSUME NEW t \in Allocator, NEW l \in Lists, NEW h \in witness[t][l] PROVE h \in is_pinned
    BY <1>a DEF AInv, Aged, AgedBy
  <1> DEFINE Safe == \A t \in Allocator : head'[t] # head[t] => witness'[t][head'[t]] = {}
  <1>1. ASSUME NEW h \in Holder, APin(h) PROVE AInv' /\ Safe
    <2>1. PinWord(state).current = state.current
      BY <1>0 DEF PinWord, Word
    <2>2. /\ h \notin is_pinned /\ is_pinned' = is_pinned \cup {h}
          /\ known' = [known EXCEPT ![h] = state.current]
          /\ state'.current = state.current /\ witness' = witness /\ UpdateWith
      BY <1>1, <2>1 DEF APin, Pin, Exchange
    <2>3. Observes
      BY <1>0, <2>2 DEF Observes, Holder
    <2>4. ASSUME NEW t \in Allocator, NEW l \in Lists, NEW y \in witness'[t][l]
          PROVE  \E x \in witness[t][l] : Continues(x, y)
      <3>1. y \in witness[t][l] /\ y \in is_pinned
        BY <1>a, <2>2, <2>4
      <3> QED BY <1>0, <2>2, <3>1 DEF Continues
    <2> QED BY <1>0, <2>2, <2>3, <2>4, Operation
  <1>2. ASSUME NEW h \in Holder, Released(h) = witness', UpdateWith,
               is_pinned' \in {is_pinned, is_pinned \ {h}},
               known' \in {known, [known EXCEPT ![h] = state'.current]}
        PROVE  AInv' /\ Safe
    <2>1. witness' \in [Allocator -> [Lists -> SUBSET Holder]]
      BY <1>0, <1>2 DEF Released
    <2>2. Observes
      BY <1>0, <1>2 DEF Observes
    <2>3. ASSUME NEW t \in Allocator, NEW l \in Lists, NEW y \in witness'[t][l]
          PROVE  \E x \in witness[t][l] : Continues(x, y)
      <3>1. y \in witness[t][l] /\ y # h
        BY <1>2, <2>3 DEF Released
      <3>2. y \in is_pinned
        BY <1>a, <3>1
      <3> QED BY <1>0, <1>2, <3>1, <3>2 DEF Continues
    <2> QED BY <1>2, <2>1, <2>2, <2>3, Operation
  <1>3. ASSUME NEW h \in Holder, AUnpin(h) PROVE AInv' /\ Safe
    <2> DEFINE a == TryAdvance(UnpinWord(state, known[h]))
    <2>1. /\ state' = a /\ is_pinned' = is_pinned \ {h}
          /\ known' = IF h \in Thread THEN [known EXCEPT ![h] = a.current] ELSE known
      BY <1>3 DEF AUnpin, Unpin, Exchange
    <2>2. UpdateWith /\ witness' = Released(h)
      BY <1>3 DEF AUnpin
    <2> QED BY <1>2, <2>1, <2>2
  <1>4. ASSUME NEW t \in Thread, RepinStep(t), UpdateWith, witness' = Released(t)
        PROVE  AInv' /\ Safe
    <2> DEFINE d == PinWord(TryAdvance(UnpinWord(state, known[t])))
    <2>1. state' = d /\ is_pinned' = is_pinned /\ known' = [known EXCEPT ![t] = d.current]
      BY <1>4 DEF RepinStep, Exchange
    <2> QED BY <1>0, <1>2, <1>4, <2>1
  <1>5. ASSUME NEW g \in Guard, NEW h \in Holder, APinExplicit(g, h) PROVE AInv' /\ Safe
    <2>1. /\ g \notin is_pinned /\ h \in is_pinned /\ is_pinned' = is_pinned \cup {g}
          /\ known' = [known EXCEPT ![g] = known[h]] /\ UpdateWith
      BY <1>5 DEF APinExplicit, PinExplicit
    <2>2. witness' = [t \in Allocator |-> [l \in Lists |->
                        IF h \in witness[t][l] THEN witness[t][l] \cup {g}
                                               ELSE witness[t][l]]]
      BY <1>5 DEF APinExplicit
    <2>3. witness' \in [Allocator -> [Lists -> SUBSET Holder]]
      BY <1>0, <2>2
    <2>4. Observes
      BY <1>0, <2>1 DEF Observes
    <2>5. ASSUME NEW t \in Allocator, NEW l \in Lists, NEW y \in witness'[t][l]
          PROVE  \E x \in witness[t][l] : Continues(x, y)
      <3>1. CASE y \in witness[t][l]
        <4>1. y \in is_pinned
          BY <1>a, <3>1
        <4> QED BY <1>0, <2>1, <3>1, <4>1 DEF Continues
      <3>2. CASE y \notin witness[t][l]
        <4>1. y = g /\ h \in witness[t][l]
          BY <2>2, <2>5, <3>2
        <4>2. Continues(h, g)
          BY <1>0, <2>1 DEF Continues
        <4> QED BY <4>1, <4>2
      <3> QED BY <3>1, <3>2
    <2> QED BY <2>1, <2>3, <2>4, <2>5, Operation
  <1>6. ASSUME NEW h \in Holder, AWait(h) PROVE AInv' /\ Safe
    <2>1. h \in Waiter => WaitWord(state, expected[h]).current = state.current
      BY <1>0 DEF WaitWord, Word
    <2>2. /\ head' = head /\ alternates' = alternates /\ witness' = witness
          /\ is_pinned' = is_pinned /\ known' = known /\ state'.current = state.current
      BY <1>6, <2>1 DEF AWait, NotifyAll, WaitReturn, WaitMark, WaitSleep
    <2>3. ATypeOK'
      BY <2>2 DEF AInv, ATypeOK
    <2>4. Aged'
      BY <2>2 DEF AInv, Aged, AgedBy
    <2> QED BY <2>2, <2>3, <2>4 DEF AInv
  <1>7. ASSUME NEW t \in Allocator, Allocate(t) PROVE AInv' /\ Safe
    <2>1. head' = head
      BY <1>7 DEF Allocate
    <2> QED BY <1>7, <2>1, AllocateAges
  <1> QED
    BY <1>0, <1>1, <1>3, <1>4, <1>5, <1>6, <1>7 DEF ANext, ARepin, ARepinAndWait, Repin, RepinAndWait

------------------------------------------------------------------------------
(* An allocator drives the epoch service as the service specifies.         *)
THEOREM AllocatorUsesService == ASpec => Spec
  <1>1. AInit => Init
    BY DEF AInit
  <1>2. [ANext]_avars => [Next]_vars
    BY EpochAssumption DEF ANext, Next, APin, AUnpin, ARepin, ARepinAndWait, APinExplicit, AWait,
       Allocate, avars
  <1> QED BY <1>1, <1>2, PTL DEF ASpec, Spec

(* The allocators start with no list. *)
LEMMA AInitAInv == AInit => AInv
  <1> SUFFICES ASSUME AInit PROVE AInv
    OBVIOUS
  <1>1. ATypeOK
    BY DEF AInit, ATypeOK, SIZE, Lists
  <1>2. Aged
    BY DEF AInit, Aged
  <1> QED BY <1>1, <1>2 DEF AInv

(* A step that changes no variable of the allocator keeps the invariant. *)
LEMMA AStutter == AInv /\ UNCHANGED avars => AInv'
  BY DEF AInv, ATypeOK, Aged, AgedBy, avars, vars

(* The epoch never jumps, as the allocator sees it. *)
LEMMA EpochForward == ASpec => [][Forward]_vars
  <1> DEFINE A == state'.current # state.current =>
                    /\ state'.current = Succ(state.current)
                    /\ \A h \in is_pinned \cap is_pinned' :
                         known'[h] = known[h] => known[h] = state.current
  <1>1. [A]_vars => [Forward]_vars
    BY DEF Forward
  <1>2. Spec => [][A]_vars
    BY EpochAdvancesByOne DEF EpochAdvances
  <1> QED BY <1>1, <1>2, AllocatorUsesService, PTL

(* The invariant of the allocators holds throughout. *)
LEMMA AInductive == ASpec => []AInv
  <1>1. ASSUME IInv, IInv', AInv, [Forward]_vars, [ANext]_avars PROVE AInv'
    <2>1. CASE UNCHANGED avars
      BY <1>1, <2>1, AStutter
    <2>2. CASE ANext
      <3>1. Forward
        BY <1>1 DEF Forward, vars
      <3> QED BY <1>1, <2>2, <3>1, AStep
    <2> QED BY <1>1, <2>1, <2>2
  <1>2. IInv /\ IInv' /\ AInv /\ [Forward]_vars /\ [ANext]_avars => AInv'
    BY <1>1
  <1> QED BY <1>2, AInitAInv, EpochForward, AllocatorUsesService, Inductive, PTL DEF ASpec

(* The lists of a thread stay four different ones. *)
THEOREM AllocatorTypeCorrect == ASpec => []ATypeOK
  <1>1. AInv => ATypeOK
    BY DEF AInv
  <1> QED BY <1>1, AInductive, PTL

(* No list is restarted while a pin that may reach into it is held: the    *)
(* memory a reader sees is not reused under it.                            *)
THEOREM EmbargoHolds == ASpec => Embargo
  <1> DEFINE Safe == \A t \in Allocator : head'[t] # head[t] => witness'[t][head'[t]] = {}
  <1>1. ASSUME IInv, IInv', AInv, [Forward]_vars, [ANext]_avars PROVE [Safe]_avars
    <2>1. CASE UNCHANGED avars
      BY <2>1
    <2>2. CASE ANext
      <3>1. Forward
        BY <1>1 DEF Forward, vars
      <3> QED BY <1>1, <2>2, <3>1, AStep
    <2> QED BY <1>1, <2>1, <2>2
  <1>2. IInv /\ IInv' /\ AInv /\ [Forward]_vars /\ [ANext]_avars => [Safe]_avars
    BY <1>1
  <1>3. ASpec => [][Safe]_avars
    BY <1>2, AInductive, EpochForward, AllocatorUsesService, Inductive, PTL DEF ASpec
  <1> QED BY <1>3 DEF Embargo
==============================================================================
