--------------------------------- MODULE Json ---------------------------------
(***************************************************************************)
(* Reading JSON (io/json.hpp and .cpp): the values that settings.json is   *)
(* read to, the rows of names that assets.json is read to, and the strings *)
(* that render/settings.cpp writes.  A text is typed, a token at a time.   *)
(*                                                                         *)
(* A token is a character or the characters that stay together: a literal, *)
(* a digit "7", the four hexadecimal digits of a character "code", of      *)
(* either surrogate, "high" and "low", or of a control character, "0001".  *)
(* A plain character is "x", or "n" or "u" that mean something when        *)
(* escaped; "control" is a character below 0x20, "newline" one that has an *)
(* escape; "delete" is 0x7F.                                               *)
(***************************************************************************)
EXTENDS Integers, SequencesExt, FiniteSetsExt

CONSTANTS Start     (* [text, tokens, length]: what is typed, after what     *)

VARIABLES text, start, typed
vars == <<text, start, typed>>

Fail == [ok |-> FALSE]
Read(v, rest) == [ok |-> TRUE, value |-> v, rest |-> rest]
Space(t) == t \in {" ", "newline"}                (* is_json_whitespace      *)

RECURSIVE Skip(_)
Skip(s) == IF s # << >> /\ Space(Head(s)) THEN Skip(Tail(s)) ELSE s
Begins(s, t) == s # << >> /\ Head(s) = t
-----------------------------------------------------------------------------
(* _json_string_codeunit_class: what ends a string, escapes, or may not be. *)
Class(t) ==
  CASE t = "\"" -> 1 [] t = "\\" -> 2 [] t \in {"newline", "control", "delete"} -> 3 [] OTHER -> 0

(* What u is followed by: one code, or a pair of surrogates. *)
Unicode(s) ==
  CASE Begins(s, "code") -> Read("code", Tail(s))
    [] Begins(s, "0001") -> Read("control", Tail(s))
    [] Len(s) >= 4 /\ SubSeq(s, 1, 4) = <<"high", "\\", "u", "low">> -> Read("pair", SubSeq(s, 5, Len(s)))
    [] OTHER -> Fail

Escape(s) ==
  CASE s = << >> -> Fail
    [] s # << >> /\ Head(s) \in {"\"", "\\"} -> Read(Head(s), Tail(s))
    [] s # << >> /\ Head(s) = "n" -> Read("newline", Tail(s))
    [] s # << >> /\ Head(s) = "u" -> Unicode(Tail(s))
    [] OTHER -> Fail

(* parse_json_string, after the quote. *)
RECURSIVE Characters(_, _)
Characters(s, read) ==
  CASE s = << >> -> Fail
    [] s # << >> /\ Class(Head(s)) = 0 -> Characters(Tail(s), Append(read, Head(s)))
    [] s # << >> /\ Class(Head(s)) = 1 -> Read([is |-> "string", of |-> read], Tail(s))
    [] s # << >> /\ Class(Head(s)) = 2 ->
         LET e == Escape(Tail(s)) IN IF e.ok THEN Characters(e.rest, Append(read, e.value)) ELSE Fail
    [] OTHER -> Fail
String(s) == IF Begins(s, "\"") THEN Characters(Tail(s), << >>) ELSE Fail

(* _number_from: an integer, here.                                         *)
Number(s) ==
  LET signed == IF Begins(s, "-") THEN Tail(s) ELSE s
      n == IF \A i \in DOMAIN signed : signed[i] = "7" THEN Len(signed)
           ELSE Min({i \in DOMAIN signed : signed[i] # "7"}) - 1 IN
  IF n = 0 THEN Fail
  ELSE Read([is |-> "number", of |-> IF Begins(s, "-") THEN -n ELSE n], SubSeq(signed, n + 1, Len(signed)))

(* The DOM.  A comma may follow the last element, or stand for itself      *)
(* nowhere; a key is not repeated.                                         *)
WrongSeparated(s, close) ==           (* the comma may be left out *)
  LET u == Skip(s) IN [ok |-> TRUE, rest |-> IF Begins(u, ",") THEN Skip(Tail(u)) ELSE u]
Separated(s, close) ==                (* after an element *)
  LET u == Skip(s) IN
  CASE Begins(u, ",") -> [ok |-> TRUE, rest |-> Skip(Tail(u))]
    [] Begins(u, close) -> [ok |-> TRUE, rest |-> u]
    [] OTHER -> Fail

(* _json_value::from and the readers of arrays and objects. *)
RECURSIVE Value(_), Elements(_, _), Members(_, _)
Value(s) ==
  LET u == Skip(s) IN
  CASE Begins(u, "{") -> Members(Skip(Tail(u)), {})
    [] Begins(u, "[") -> Elements(Skip(Tail(u)), << >>)
    [] Begins(u, "\"") -> String(u)
    [] Begins(u, "7") \/ Begins(u, "-") -> Number(u)
    [] Begins(u, "true") \/ Begins(u, "null") -> Read([is |-> "literal", of |-> Head(u)], Tail(u))
    [] OTHER -> Fail
Elements(s, read) ==
  IF Begins(s, "]") THEN Read([is |-> "array", of |-> read], Tail(s))
  ELSE LET v == Value(s)
           after == IF v.ok THEN Separated(v.rest, "]") ELSE Fail IN
       IF after.ok THEN Elements(after.rest, Append(read, v.value)) ELSE Fail
Members(s, read) ==
  IF Begins(s, "}") THEN Read([is |-> "object", of |-> read], Tail(s))
  ELSE LET k == String(s)
           colon == IF k.ok THEN Skip(k.rest) ELSE << >>
           v == IF Begins(colon, ":") /\ k.value.of \notin {m[1] : m \in read} THEN Value(Tail(colon)) ELSE Fail
           after == IF v.ok THEN Separated(v.rest, "}") ELSE Fail IN
       IF after.ok THEN Members(after.rest, read \cup {<<k.value.of, v.value>>}) ELSE Fail

(* Json::from: a document and no more.                                     *)
Document(s) == LET v == Value(s) IN IF v.ok /\ Skip(v.rest) = << >> THEN v ELSE Fail

(* The other reader: json::deserializer, for a sequence of strings, or of  *)
(* such sequences.                                                         *)
RECURSIVE Sequence(_, _, _, _)
Sequence(s, depth, read, expect_delimiter) ==
  LET u == Skip(s)
      v == IF expect_delimiter THEN IF Begins(u, ",") THEN Tail(u) ELSE << >> ELSE s
      w == Skip(v)
      x == IF depth = 1 THEN String(w)
           ELSE IF Begins(w, "[") THEN Sequence(Tail(w), depth - 1, << >>, FALSE) ELSE Fail IN
  CASE Begins(u, "]") -> Read([is |-> "array", of |-> read], Tail(u))
    [] ~Begins(u, "]") /\ x.ok -> Sequence(x.rest, depth, Append(read, x.value), TRUE)
    [] OTHER -> Fail
Deserialize(s, depth) ==
  IF Begins(Skip(s), "[") THEN Sequence(Tail(Skip(s)), depth, << >>, FALSE) ELSE Fail

WrongWritten(c) == FoldLeft(LAMBDA s, x : Append(s, x), <<"\"">>, c) \o <<"\"">>      (* as it is *)
(* _append_json_string.                                                    *)
Written(c) ==
  FoldLeft(LAMBDA s, x : s \o CASE x \in {"\"", "\\"} -> <<"\\", x>>
                                [] x = "newline" -> <<"\\", "n">>
                                [] x = "control" -> <<"\\", "u", "0001">>
                                [] OTHER -> <<x>>, <<"\"">>, c) \o <<"\"">>

Init == start \in Start /\ text = start.text /\ typed = 0
Type ==
  /\ typed < start.length /\ typed' = typed + 1
  /\ \E t \in start.tokens : text' = Append(text, t)
  /\ UNCHANGED start
Next == Type \/ (typed = start.length /\ UNCHANGED vars)
Spec == Init /\ [][Next]_vars
-----------------------------------------------------------------------------
(* What a text means, by the grammar: the set of the values it is a text   *)
(* of, in which lists may end with a comma if lenient.                     *)
Part(s, i, j) == SubSeq(s, i, j)
RECURSIVE Trim(_)
Trim(s) ==
  IF s # << >> /\ Space(Head(s)) THEN Trim(Tail(s))
  ELSE IF s # << >> /\ Space(Last(s)) THEN Trim(Front(s)) ELSE s

(* What each character of a string may be written as. *)
Unit ==
  {<<<<c>>, c>> : c \in {"x", "n", "u", "7", "-", "true", "null", "code", "0001", "high", "low",
                         " ", ",", ":", "[", "]", "{", "}"}}
    \cup {<<<<"\\", c>>, c>> : c \in {"\\", "\""}}
    \cup {<<<<"\\", "n">>, "newline">>, <<<<"\\", "u", "code">>, "code">>, <<<<"\\", "u", "0001">>, "control">>,
          <<<<"\\", "u", "high", "\\", "u", "low">>, "pair">>}
RECURSIVE Decoded(_)
Decoded(s) ==
  IF s = << >> THEN {<< >>}
  ELSE UNION {{<<u[2]>> \o r : r \in Decoded(Part(s, Len(u[1]) + 1, Len(s)))} : u \in {u \in Unit : IsPrefix(u[1], s)}}
Strings(t) ==
  IF Len(t) >= 2 /\ Head(t) = "\"" /\ Last(t) = "\"" THEN Decoded(Part(t, 2, Len(t) - 1)) ELSE {}
Digits(t) == t # << >> /\ Range(t) = {"7"}
Unlike(l) == \A i, j \in DOMAIN l : i # j => l[i][1] # l[j][1]
Object(l) == [is |-> "object", of |-> Range(l)]

RECURSIVE Values(_, _), Lists(_, _, _)
Values(s, lenient) ==
  LET t == Trim(s)
      Within(open, close) == Len(t) >= 2 /\ Head(t) = open /\ Last(t) = close
      inner == Part(t, 2, Len(t) - 1) IN
  {[is |-> "string", of |-> d] : d \in Strings(t)}
  \cup (IF t \in {<<"true">>, <<"null">>} THEN {[is |-> "literal", of |-> t[1]]} ELSE {})
  \cup (IF Digits(t) THEN {[is |-> "number", of |-> Len(t)]} ELSE {})
  \cup (IF Begins(t, "-") /\ Digits(Tail(t)) THEN {[is |-> "number", of |-> 1 - Len(t)]} ELSE {})
  \cup (IF Within("[", "]") THEN {[is |-> "array", of |-> l] : l \in Lists(inner, "array", lenient)} ELSE {})
  \cup (IF Within("{", "}") THEN {Object(l) : l \in {l \in Lists(inner, "object", lenient) : Unlike(l)}} ELSE {})
Lists(s, kind, lenient) ==
  LET Items(u) ==
        IF kind = "array" THEN Values(u, lenient)
        ELSE UNION {Strings(Trim(Part(u, 1, i - 1))) \X Values(Part(u, i + 1, Len(u)), lenient) :
                      i \in {i \in DOMAIN u : u[i] = ":"}}
      Rest(u) == Lists(u, kind, lenient) \ (IF lenient THEN {} ELSE {<< >>}) IN
  (IF Trim(s) = << >> THEN {<< >>} ELSE {<<v>> : v \in Items(s)})
  \cup UNION {{<<v>> \o l : v \in Items(Part(s, 1, i - 1)), l \in Rest(Part(s, i + 1, Len(s)))} :
                i \in {i \in DOMAIN s : s[i] = ","}}

(* A document is read just when the grammar, with a comma more, has it,    *)
(* and to what the grammar says: the rest is refused.                      *)
DocumentIsItsValue ==
  Values(text, TRUE) = LET d == Document(text) IN IF d.ok THEN {d.value} ELSE {}

(* What the readers of rows of names take, they take alike, but for that   *)
(* comma and for what is left after the end.                               *)
Rows(v, depth) ==
  v.is = "array" /\ \A i \in DOMAIN v.of :
    IF depth = 1 THEN v.of[i].is = "string"
    ELSE v.of[i].is = "array" /\ \A j \in DOMAIN v.of[i].of : v.of[i].of[j].is = "string"
ReadersAgree ==
  \A depth \in {1, 2} :
    LET d == Deserialize(text, depth) IN
    {v \in Values(text, FALSE) : Rows(v, depth)} = IF d.ok /\ Skip(d.rest) = << >> THEN {d.value} ELSE {}

(* What is written is read as it was, though not what has a delete.        *)
WrittenIsRead ==
  "delete" \notin Range(text) => String(Written(text)) = Read([is |-> "string", of |-> text], << >>)

JsonSound == DocumentIsItsValue /\ ReadersAgree /\ WrittenIsRead
=============================================================================
