------------------------------- MODULE Terms --------------------------------
(***************************************************************************)
(* Terms: a word with a tag and a payload, or a pointer to an immutable    *)
(* object (game/term.hpp and .cpp, container/HeapString.cpp).              *)
(*                                                                         *)
(* A payload has META + CODE bits (28 and 32) and a word TAG more (4); a   *)
(* string shorter than SHORT bytes (8) is inline.  A tag is named, since   *)
(* the pointer with tag 0 is the only one that is punned.                  *)
(***************************************************************************)
EXTENDS Integers, SequencesExt

CONSTANTS TAG, META, CODE, SHORT, LETTERS,
          Value,                 (* what terms are made of: [is, of]         *)
          HELD                   (* bound on the terms of a run              *)

VARIABLES heap,                  (* the objects, by address                  *)
          held                   (* the terms made, and what each stands for *)
vars == <<heap, held>>

PAYLOAD == META + CODE
WORD == PAYLOAD + TAG
Unsigned(n, bits) == n % (2 ^ bits)
Signed(n, bits) == ((n + 2 ^ (bits - 1)) % (2 ^ bits)) - 2 ^ (bits - 1)

Word(tag, payload) == [tag |-> tag, payload |-> payload]
Null == Word("OBJECT", 0)
Error == Word("ERROR", 0)
Undefined == Word("none", 0)                     (* a call through a null *)

(* The meta tag is below the code; that of a boolean is 0. *)
Meta == [boolean |-> 0, character |-> 1, opcode |-> 2, sentinel |-> 3, matter |-> 4]
Enum(meta, code) == Word("ENUMERATION", Meta[meta] + Unsigned(code, CODE) * 2 ^ META)
AsEnum(t) == [meta |-> t.payload % (2 ^ META), code |-> Signed(t.payload \div 2 ^ META, CODE)]
Truth(b) == Enum("boolean", IF b THEN 1 ELSE 0)

(* The length comes first, then the bytes. *)
ShortString(s) == Word("SHORT_STRING", Len(s) + 2 ^ TAG * FoldLeft(LAMBDA n, c : n * (LETTERS + 1) + c, 0, s))

EntityID(id) == Word("ENTITY_ID", id)

WrongInline(n) == TRUE                      (* nothing is boxed *)
(* term_make_integer_with: what is shifted up and comes back is inline.    *)
Inline(n) == Signed(n, PAYLOAD) = n
SmallInteger(n) == Word("SMALL_INTEGER", Unsigned(n, PAYLOAD))
AsSmallInteger(t) == Signed(t.payload, PAYLOAD)

Object(t) == heap[t.payload]
IsObject(t, type) == t.tag = "OBJECT" /\ t.payload # 0 /\ Object(t).type = type

(* What is falsey has a payload of zeroes. *)
Truthy(t) == t.payload # 0
IsInty(t) == t.tag = "SMALL_INTEGER" \/ (t.tag = "ENUMERATION" /\ AsEnum(t).meta = Meta.boolean)
AsInt(t) == IF t.tag = "SMALL_INTEGER" THEN AsSmallInteger(t) ELSE IF AsEnum(t).code = 0 THEN 0 ELSE 1
-----------------------------------------------------------------------------
WrongDeepEqual(a, b) == Truth(FALSE)        (* by identity *)
(* HeapInt64::_term_eq and HeapString::_term_eq.                           *)
DeepEqual(a, b) == IF Object(a).type = Object(b).type THEN Truth(Object(a).value = Object(b).value) ELSE Error

(* term_eq; the opcodes that call it keep nulls out.                       *)
Equal(a, b) ==
  CASE a = b -> Truth(TRUE)
    [] a # b /\ a.tag # b.tag -> IF "ERROR" \in {a.tag, b.tag} THEN Truth(FALSE) ELSE Error
    [] a # b /\ a.tag = b.tag /\ a.tag = "OBJECT" ->
         IF a = Null THEN Undefined ELSE IF b = Null THEN Error ELSE DeepEqual(a, b)
    [] a # b /\ a.tag = b.tag /\ a.tag = "ENUMERATION" ->
         IF AsEnum(a).meta = AsEnum(b).meta THEN Truth(FALSE) ELSE Error
    [] OTHER -> Truth(FALSE)

(* Bytes first, then lengths. *)
RECURSIVE Before(_, _)
Before(s, t) ==
  CASE s = << >> \/ t = << >> -> Len(s) < Len(t)
    [] OTHER -> Head(s) < Head(t) \/ (Head(s) = Head(t) /\ Before(Tail(s), Tail(t)))

(* HeapInt64::_term_less and HeapString::_term_less.                       *)
DeepLess(a, b) ==
  CASE b = Null \/ Object(a).type # Object(b).type -> Error
    [] Object(a).type = "HeapInt64" -> Truth(Object(a).value < Object(b).value)
    [] OTHER -> Truth(Before(Object(a).value, Object(b).value))

(* term_less; a null has no order, strings have one only on the heap.      *)
Less(a, b) ==
  CASE "ERROR" \in {a.tag, b.tag} -> Error
    [] a = b -> Truth(FALSE)
    [] a.tag # b.tag -> Error
    [] a.tag = "SMALL_INTEGER" -> Truth(AsSmallInteger(a) < AsSmallInteger(b))
    [] a.tag = "ENTITY_ID" -> Truth(a.payload < b.payload)
    [] a.tag = "OBJECT" /\ a # Null -> DeepLess(a, b)
    [] OTHER -> Error

WrongHash(t) ==                            (* by address *)
  IF t.tag = "ERROR" THEN Error ELSE t
(* term_hash, as what is mixed: the word, a boxed integer as it would be   *)
(* inline, the bytes of a string.                                          *)
Hash(t) ==
  CASE t.tag = "ERROR" -> Error
    [] IsObject(t, "HeapInt64") -> SmallInteger(Object(t).value)
    [] IsObject(t, "HeapString") -> Word("bytes", Object(t).value)
    [] OTHER -> t

(* term_size: that of a string on the heap is nobody's to answer.          *)
Size(t) == IF t.tag = "SHORT_STRING" THEN t.payload % (2 ^ TAG) ELSE 0
-----------------------------------------------------------------------------
Bit(n, i) == (n \div 2 ^ i) % 2
Bits(F(_, _), m, n) ==
  Signed(FoldLeft(LAMBDA x, i : x + F(Bit(m, i - 1), Bit(n, i - 1)) * 2 ^ (i - 1), 0, [i \in 1 .. WORD |-> i]), WORD)

(* The operators of two integers.  Division rounds to zero.                *)
Truncated(m, n) == LET q == (IF m < 0 THEN -m ELSE m) \div (IF n < 0 THEN -n ELSE n)
                   IN IF (m < 0) = (n < 0) THEN q ELSE -q
Compute(op, m, n) ==
  CASE op = "+" -> m + n
    [] op = "-" -> m - n
    [] op = "*" -> m * n
    [] op = "/" -> Truncated(m, n)
    [] op = "%" -> m - n * Truncated(m, n)
    [] op = "&" -> Bits(LAMBDA x, y : x * y, m, n)
    [] op = "|" -> Bits(LAMBDA x, y : x + y - x * y, m, n)
    [] op = "^" -> Bits(LAMBDA x, y : (x + y) % 2, m, n)
    [] op = "<<" -> m * 2 ^ n
    [] op = ">>" -> m \div 2 ^ n

(* Where C++ defines it.                                                   *)
Defined(op, m, n) ==
  CASE op \in {"/", "%"} -> n # 0
    [] op \in {"<<", ">>"} -> n \in 0 .. WORD - 1 /\ (op = ">>" \/ Signed(m * 2 ^ n, WORD) = m * 2 ^ n)
    [] OTHER -> Signed(Compute(op, m, n), WORD) = Compute(op, m, n)

(* The left operand decides, and what is on the heap refuses.              *)
Computes(a, b) == a.tag = "SMALL_INTEGER" /\ b.tag = "SMALL_INTEGER"
-----------------------------------------------------------------------------
Hold(t, value) == held' = Append(held, [term |-> t, value |-> value])
Box(type, value, stands) ==
  /\ heap' = Append(heap, [type |-> type, value |-> value])
  /\ Hold(Word("OBJECT", Len(heap) + 1), stands)

MakeInteger(n) ==
  IF Inline(n) THEN Hold(SmallInteger(n), [is |-> "integer", of |-> n]) /\ UNCHANGED heap
  ELSE Box("HeapInt64", n, [is |-> "integer", of |-> n])

MakeString(s) ==
  IF Len(s) < SHORT THEN Hold(ShortString(s), [is |-> "string", of |-> s]) /\ UNCHANGED heap
  ELSE Box("HeapString", s, [is |-> "string", of |-> s])

MakeEnum(v) == Hold(Enum(v.is, v.of), v) /\ UNCHANGED heap
MakeEntityID(v) == Hold(EntityID(v.of), v) /\ UNCHANGED heap

Make ==
  \E v \in Value :
    \/ v.is = "integer" /\ MakeInteger(v.of)
    \/ v.is = "string" /\ MakeString(v.of)
    \/ v.is \in DOMAIN Meta /\ MakeEnum(v)
    \/ v.is = "entity" /\ MakeEntityID(v)
    \/ v.is = "null" /\ Hold(Null, v) /\ UNCHANGED heap

Operate ==
  \E op \in {"+", "-", "*", "/", "%", "&", "|", "^", "<<", ">>"}, i, j \in DOMAIN held :
    LET a == held[i].term
        b == held[j].term IN
    IF Computes(a, b)
    THEN Defined(op, AsSmallInteger(a), AsSmallInteger(b))
         /\ MakeInteger(Compute(op, AsSmallInteger(a), AsSmallInteger(b)))
    ELSE Hold(Error, [is |-> "error", of |-> 0]) /\ UNCHANGED heap

Init == heap = << >> /\ held = << >>
Next ==
  \/ Len(held) < HELD - 1 /\ Make
  \/ Len(held) \in 2 .. HELD - 1 /\ Operate
  \/ Len(held) = HELD /\ UNCHANGED vars
Spec == Init /\ [][Next]_vars
-----------------------------------------------------------------------------
Term(i) == held[i].term
Stands(i) == held[i].value

Ordered(v, w) ==
  CASE v.is = "string" -> Before(v.of, w.of)
    [] OTHER -> v.of < w.of

(* What term_eq answers: true exactly when both stand for the same, inline *)
(* or on the heap; a boolean exactly when the two can be compared, which   *)
(* are an error and anything, or two of a kind that are both inline or     *)
(* both boxed; nothing at all for a null and an object; and otherwise an   *)
(* error (term.hpp:229 calls it total).  An answer to which is less is the *)
(* truth: "different bits == different value".  What is equal has one hash. *)
EqualityIsThatOfValues ==
  \A i, j \in DOMAIN held :
    LET answer == Equal(Term(i), Term(j))
        less == Less(Term(i), Term(j))
        comparable == \/ "error" \in {Stands(i).is, Stands(j).is}
                      \/ Stands(i).is = Stands(j).is /\ Term(i).tag = Term(j).tag
        calls == Stands(i).is = "null" /\ Term(j).tag = "OBJECT" /\ Stands(j).is # "null" IN
    /\ (answer = Truth(TRUE)) = (Stands(i) = Stands(j))
    /\ (answer \in {Truth(TRUE), Truth(FALSE)}) = comparable
    /\ ~comparable => answer = IF calls THEN Undefined ELSE Error
    /\ Stands(i) = Stands(j) => Hash(Term(i)) = Hash(Term(j))
    /\ less # Error => Stands(i).is = Stands(j).is /\ less = Truth(Ordered(Stands(i), Stands(j)))

(* The payload tells what is falsey, whatever the tag; an integer that     *)
(* could be inline is, even one that arithmetic has made; the length of a  *)
(* short string is its.                                                    *)
PayloadsTell ==
  \A i \in DOMAIN held :
    LET t == Term(i)
        v == Stands(i) IN
    /\ Truthy(t) = (v \notin {[is |-> "integer", of |-> 0], [is |-> "boolean", of |-> 0], [is |-> "string", of |-> << >>],
                               [is |-> "entity", of |-> 0], [is |-> "null", of |-> 0], [is |-> "error", of |-> 0]})
    /\ IsInty(t) /\ v.is \in {"integer", "boolean"} => AsInt(t) = v.of
    /\ IsObject(t, "HeapInt64") => ~Inline(Object(t).value)
    /\ t.tag = "SHORT_STRING" => Size(t) = Len(v.of)
    /\ t.tag = "ERROR" <=> v.is = "error"

TermsSound == EqualityIsThatOfValues /\ PayloadsTell
=============================================================================
