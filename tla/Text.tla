--------------------------------- MODULE Text ---------------------------------
(***************************************************************************)
(* Strings of UTF-8 that are used as sequences of code points              *)
(* (core/unicode.hpp, ext/string.hpp, ext/string_view.hpp), at full width, *)
(* and the matchers of io/match.hpp: functions that look for a pattern at  *)
(* the start of a text and, where they find it, go to its end.  A matcher  *)
(* is a record [op, of] here, and Match says how far it goes, or Miss.     *)
(***************************************************************************)
EXTENDS Integers, SequencesExt, FiniteSetsExt

CONSTANTS Scalar,                    (* code points that are put in          *)
          Byte, Lead, LENGTH, BYTES, (* bounds: code points in a string, and *)
                                     (* the bytes that one is made from      *)
          Character, CHARACTERS      (* what is matched, and bound on it     *)

VARIABLES
  chars,     (* the bytes of a string                                        *)
  points,    (* what was put in                                              *)
  raw,       (* bytes from outside                                           *)
  text       (* what is matched                                              *)
vars == <<chars, points, raw, text>>

(* The bits of x from the low-th to the high-th, counted from 0. *)
Bits(x, high, low) == (x \div 2 ^ low) % 2 ^ (high - low + 1)
IsContinuation(b) == Bits(b, 7, 6) = 2

(* Operators whose name begins with Wrong are mistakes the code could have *)
(* made, each before the definition it stands for.                         *)
WrongValid(cp, extra) ==             (* the surrogates are let through *)
  /\ cp >= CASE extra = 0 -> 0 [] extra = 1 -> 128 [] extra = 2 -> 2048 [] extra = 3 -> 65536
  /\ cp <= 1114111

(* In as few bytes as it takes, in range, not a surrogate.                 *)
Valid(cp, extra) ==
  /\ cp >= CASE extra = 0 -> 0 [] extra = 1 -> 128 [] extra = 2 -> 2048 [] extra = 3 -> 65536
  /\ cp <= 1114111
  /\ cp \notin 55296 .. 57343

(* utf8::isvalid: the bytes after the first, or -1 if it is no first byte. *)
Extra(b) ==
  CASE b < 128 -> 0 [] b \in 194 .. 223 -> 1 [] b \in 224 .. 239 -> 2 [] b \in 240 .. 244 -> 3 [] OTHER -> -1

IsValid(s) ==
  LET Step(state, b) ==      (* [ok, left, extra, cp] *)
        CASE ~state.ok -> state
          [] state.ok /\ state.left = 0 ->
               LET e == Extra(b) IN
               [ok |-> e >= 0, left |-> e, extra |-> e,
                cp |-> CASE e <= 0 -> b [] e = 1 -> Bits(b, 4, 0) [] e = 2 -> Bits(b, 3, 0) [] e = 3 -> Bits(b, 2, 0)]
          [] state.ok /\ state.left > 0 ->
               LET cp == state.cp * 64 + Bits(b, 5, 0) IN
               [state EXCEPT !.left = @ - 1, !.cp = cp,
                             !.ok = IsContinuation(b) /\ (state.left = 1 => Valid(cp, state.extra))]
      end == FoldLeft(Step, [ok |-> TRUE, left |-> 0, extra |-> 0, cp |-> 0], s)
  IN end.ok /\ end.left = 0

(* utf8::iterator, a position from 0 to the length.  The width is a nibble *)
(* of a constant: operator ++.                                             *)
Widths == <<1, 1, 1, 1, 1, 1, 1, 1, 0, 0, 0, 0, 2, 2, 3, 4>>
After(s, at) == at + Widths[Bits(s[at + 1], 7, 4) + 1]
(* operator --.  *)
RECURSIVE Before(_, _)
Before(s, at) == IF IsContinuation(s[at]) THEN Before(s, at - 1) ELSE at - 1
(* operator *.   *)
Decoded(s, at) ==
  LET c == s[at + 1]
      Next6(u, i) == u * 64 + Bits(s[at + i], 5, 0) IN
  CASE Bits(c, 7, 7) = 0 -> c
    [] Bits(c, 7, 7) = 1 /\ Bits(c, 5, 5) = 0 -> Next6(Bits(c, 4, 0), 2)
    [] Bits(c, 7, 7) = 1 /\ Bits(c, 5, 4) = 2 -> Next6(Next6(Bits(c, 3, 0), 2), 3)
    [] OTHER -> Next6(Next6(Next6(Bits(c, 2, 0), 2), 3), 4)

(* From begin to end, and from end to begin.                               *)
RECURSIVE Forward(_, _), Backward(_, _)
Forward(s, at) == IF at = Len(s) THEN << >> ELSE <<Decoded(s, at)>> \o Forward(s, After(s, at))
Backward(s, at) == IF at = 0 THEN << >> ELSE LET b == Before(s, at) IN <<Decoded(s, b)>> \o Backward(s, b)

(* String::push_back and push_front. *)
WrongEncoded(p) ==                   (* 0x800 in two bytes *)
  CASE p < 128 -> <<p>>
    [] p \in 128 .. 2048 -> <<192 + Bits(p, 11, 6), 128 + Bits(p, 5, 0)>>
    [] p \in 2049 .. 65535 -> <<224 + Bits(p, 15, 12), 128 + Bits(p, 11, 6), 128 + Bits(p, 5, 0)>>
    [] OTHER -> <<240 + Bits(p, 20, 18), 128 + Bits(p, 17, 12), 128 + Bits(p, 11, 6), 128 + Bits(p, 5, 0)>>
Encoded(p) ==
  CASE p < 128 -> <<p>>
    [] p \in 128 .. 2047 -> <<192 + Bits(p, 10, 6), 128 + Bits(p, 5, 0)>>
    [] p \in 2048 .. 65535 -> <<224 + Bits(p, 15, 12), 128 + Bits(p, 11, 6), 128 + Bits(p, 5, 0)>>
    [] OTHER -> <<240 + Bits(p, 20, 18), 128 + Bits(p, 17, 12), 128 + Bits(p, 11, 6), 128 + Bits(p, 5, 0)>>

(* utf16::decodesurrogatepair, of what escapes in JSON name. *)
IsHigh(u) == Bits(u, 15, 10) = 54
IsLow(u) == Bits(u, 15, 10) = 55
DecodeSurrogatePair(high, low) == Bits(high, 9, 0) * 1024 + Bits(low, 9, 0) + 65536
-----------------------------------------------------------------------------
Miss == -1
From(s, n) == SubSeq(s, n + 1, Len(s))

(* Of one character: match_character, match_from, match_cctype, ...        *)
One(S) == [op |-> "one", of |-> S]
And(ms) == [op |-> "and", of |-> ms]
Or(ms) == [op |-> "or", of |-> ms]
Optional(m) == [op |-> "optional", of |-> m]
Star(m) == [op |-> "star", of |-> m]
Plus(m) == And(<<m, Star(m)>>)
CountRange(m, min, max) == [op |-> "count", of |-> m, min |-> min, max |-> max]
Delimited(m, delimiter) == [op |-> "delimited", of |-> m, by |-> delimiter]
Until(many, once) == [op |-> "until", of |-> many, once |-> once]
Not(m) == [op |-> "not", of |-> m]
Line == [op |-> "line"]

RECURSIVE Match(_, _), Sequence(_, _), First(_, _), Many(_, _, _), Rest(_, _, _)
Match(m, s) ==
  CASE m.op = "one" -> IF s # << >> /\ Head(s) \in m.of THEN 1 ELSE Miss
    [] m.op = "and" -> Sequence(m.of, s)
    [] m.op = "or" -> First(m.of, s)
    [] m.op = "optional" -> Max({Match(m.of, s), 0})
    [] m.op = "star" -> Many(m.of, s, CHARACTERS)
    [] m.op = "count" -> 
         LET n == Sequence([i \in 1 .. m.min |-> m.of], s) IN
         IF n = Miss THEN Miss ELSE n + Many(m.of, From(s, n), m.max - m.min)
    [] m.op = "delimited" ->
         LET n == Match(m.of, s) IN IF n = Miss THEN Miss ELSE n + Rest(m, From(s, n), m.by)
    [] m.op = "until" ->
         LET last == Match(m.once, s)
             n == Match(m.of, s)
             more == IF n = Miss THEN Miss ELSE Match(m, From(s, n)) IN
         IF last # Miss THEN last ELSE IF more = Miss THEN Miss ELSE n + more
    [] m.op = "not" -> IF s # << >> /\ Match(m.of, s) = Miss THEN 1 ELSE Miss
    [] m.op = "line" ->
         IF s = << >> THEN Miss
         ELSE Min({Len(s)} \cup {i \in DOMAIN s : s[i] = "\n"})
(* match_and: all or nothing.  match_or: what comes first. *)
Sequence(ms, s) ==
  IF ms = << >> THEN 0
  ELSE LET n == Match(Head(ms), s)
           more == IF n = Miss THEN Miss ELSE Sequence(Tail(ms), From(s, n)) IN
       IF more = Miss THEN Miss ELSE n + more
First(ms, s) ==
  IF ms = << >> THEN Miss ELSE IF Match(Head(ms), s) # Miss THEN Match(Head(ms), s) ELSE First(Tail(ms), s)
(* As often as it matches, at most max. *)
Many(m, s, max) ==
  LET n == Match(m, s) IN IF max = 0 \/ n \in {0, Miss} THEN 0 ELSE n + Many(m, From(s, n), max - 1)
(* A delimiter that no value follows is not taken. *)
Rest(m, s, by) ==
  LET n == Sequence(<<by, m.of>>, s) IN IF n = Miss THEN 0 ELSE n + Rest(m, From(s, n), by)
-----------------------------------------------------------------------------
digit == {"0", "7"}
alpha == {"a", "e"}

(* match_number, match_identifier, match_newline, match_posix_portable_... *)
fraction == And(<<One({"."}), Plus(One(digit))>>)
Exponent == And(<<One({"e"}), Optional(One({"+", "-"})), Plus(One(digit))>>)
number == And(<<Optional(One({"+", "-"})), And(<<Plus(One(digit)), Optional(fraction)>>), Optional(Exponent)>>)
identifier == And(<<One(alpha \cup {"_"}), Star(One(alpha \cup digit \cup {"_"}))>>)
newline == And(<<Optional(One({"\r"})), One({"\n"})>>)
filename == And(<<Or(<<One(alpha \cup digit), One({".", "_"})>>), Star(Or(<<One(alpha \cup digit), One({"-", ".", "_"})>>))>>)
path == Plus(Or(<<filename, One({"/"})>>))
Wrongjson_number ==                       (* the longer alternative first *)
  And(<<Optional(One({"-"})), Or(<<Plus(One(digit)), One({"0"})>>), Optional(fraction), Optional(Exponent)>>)
json_number == And(<<Optional(One({"-"})), Or(<<One({"0"}), Plus(One(digit))>>), Optional(fraction), Optional(Exponent)>>)
Wrongquotation ==                         (* what escapes is not escaped *)
  And(<<One({"\""}), Until(Or(<<And(<<One({"\\"}), One({"\""})>>), Not(One({}))>>), One({"\""}))>>)
quotation ==
  And(<<One({"\""}), Until(Or(<<And(<<One({"\\"}), One({"\""})>>), And(<<One({"\\"}), One({"\\"})>>), Not(One({}))>>),
                           One({"\""}))>>)
row == Delimited(identifier, One({"/"}))
two_to_three == CountRange(One(digit), 2, 3)
-----------------------------------------------------------------------------
Init == chars = << >> /\ points = << >> /\ raw = << >> /\ text = << >>

PushBack(p) ==
  /\ raw = << >> /\ Len(points) < LENGTH
  /\ chars' = chars \o Encoded(p) /\ points' = Append(points, p) /\ UNCHANGED <<raw, text>>
PushFront(p) ==
  /\ raw = << >> /\ Len(points) < LENGTH
  /\ chars' = Encoded(p) \o chars /\ points' = <<p>> \o points /\ UNCHANGED <<raw, text>>

(* A pair of escapes: the code point it names is beyond the first plane.   *)
PushPair(p) ==
  LET high == 55296 + (p - 65536) \div 1024
      low == 56320 + ((p - 65536) % 1024) IN
  /\ raw = << >> /\ Len(points) < LENGTH /\ p > 65535 /\ IsHigh(high) /\ IsLow(low)
  /\ chars' = chars \o Encoded(DecodeSurrogatePair(high, low)) /\ points' = Append(points, p) /\ UNCHANGED <<raw, text>>

(* pop_back and pop_front move the ends of the bytes. *)
PopBack ==
  /\ points # << >>
  /\ chars' = SubSeq(chars, 1, Before(chars, Len(chars))) /\ points' = Front(points) /\ UNCHANGED <<raw, text>>
PopFront ==
  /\ points # << >>
  /\ chars' = SubSeq(chars, After(chars, 0) + 1, Len(chars)) /\ points' = Tail(points) /\ UNCHANGED <<raw, text>>

(* Bytes come from outside, and a string is made of them, or refused.      *)
Receive(b) == points = << >> /\ Len(raw) < BYTES /\ raw' = Append(raw, b) /\ UNCHANGED <<chars, points, text>>
Construct ==
  /\ raw # << >> /\ IsValid(raw)
  /\ chars' = raw /\ points' = Forward(raw, 0) /\ raw' = << >> /\ UNCHANGED text

(* A text to match grows; strings are made in the behaviours without one.  *)
Type(c) ==
  /\ chars = << >> /\ raw = << >> /\ Len(text) < CHARACTERS
  /\ text' = Append(text, c) /\ UNCHANGED <<chars, points, raw>>

Next ==
  \/ /\ text = << >>
     /\ \/ \E p \in Scalar : PushBack(p) \/ PushFront(p) \/ PushPair(p)
        \/ PopBack \/ PopFront \/ Construct
        \/ \E b \in IF raw = << >> THEN Lead ELSE Byte : Receive(b)
        \/ raw # << >> /\ ~IsValid(raw) /\ UNCHANGED vars
  \/ \E c \in Character : Type(c)
  \/ Len(text) = CHARACTERS /\ UNCHANGED vars
Spec == Init /\ [][Next]_vars
-----------------------------------------------------------------------------
(* The table of well-formed sequences of the Unicode standard: by the      *)
(* first byte, the second, and how many more.                              *)
WellFormed(s) ==
  LET Second(b) ==
        CASE b = 224 -> 160 .. 191 [] b = 237 -> 128 .. 159 [] b = 240 -> 144 .. 191 [] b = 244 -> 128 .. 143
          [] OTHER -> 128 .. 191
      Width(b) ==
        CASE b <= 127 -> 1 [] b \in 194 .. 223 -> 2 [] b \in 224 .. 239 -> 3 [] b \in 240 .. 244 -> 4 [] OTHER -> 0
      starts == {i \in DOMAIN s : s[i] \notin 128 .. 191}
  IN \A i \in DOMAIN s :
       IF i \in starts
       THEN /\ Width(s[i]) > 0 /\ i + Width(s[i]) - 1 <= Len(s)
            /\ \A j \in i + 1 .. i + Width(s[i]) - 1 :
                 s[j] \in IF j = i + 1 THEN Second(s[i]) ELSE 128 .. 191
       ELSE \E j \in starts : j < i /\ i < j + Width(s[j])

(* A string is valid and is, from either end, the code points that were    *)
(* put in and not taken out.                                               *)
StringsAreTheirPoints ==
  /\ IsValid(chars)
  /\ Forward(chars, 0) = points /\ Backward(chars, Len(chars)) = Reverse(points)

(* Bytes are let in exactly if they are well formed.                       *)
OnlyTextComesIn == IsValid(raw) = WellFormed(raw)

(* Strings are ordered by code point as by byte, so that what is sorted by *)
(* either is sorted by both.                                               *)
Precedes(s, t) ==
  \E n \in 0 .. Len(s) :
    /\ n <= Len(t) /\ SubSeq(s, 1, n) = SubSeq(t, 1, n)
    /\ IF n = Len(s) THEN n < Len(t) ELSE n < Len(t) /\ s[n + 1] < t[n + 1]
OrdersAgree ==
  raw = << >> => \A p, q \in Scalar :
    LET t == Encoded(p) \o Encoded(q) IN Precedes(chars, t) = Precedes(points, <<p, q>>)

StringsSound == StringsAreTheirPoints /\ OnlyTextComesIn /\ OrdersAgree

(* What the pattern itself says: all the lengths at which it can end.      *)
RECURSIVE Ends(_, _), EndsOf(_, _), EndsOfMany(_, _, _)
Ends(m, s) ==
  CASE m.op = "one" -> IF s # << >> /\ Head(s) \in m.of THEN {1} ELSE {}
    [] m.op = "and" -> EndsOf(m.of, s)
    [] m.op = "or" -> UNION {Ends(m.of[i], s) : i \in DOMAIN m.of}
    [] m.op = "optional" -> {0} \cup Ends(m.of, s)
    [] m.op = "star" -> EndsOfMany(m.of, s, CHARACTERS)
    [] m.op = "count" -> {n \in EndsOfMany(m.of, s, m.max) : n >= m.min}
    [] m.op = "delimited" -> UNION {{n + k : k \in EndsOfMany(And(<<m.by, m.of>>), From(s, n), CHARACTERS)} : n \in Ends(m.of, s)}
EndsOf(ms, s) ==
  IF ms = << >> THEN {0} ELSE UNION {{n + k : k \in EndsOf(Tail(ms), From(s, n))} : n \in Ends(Head(ms), s)}
EndsOfMany(m, s, max) ==
  {0} \cup IF max = 0 THEN {} ELSE UNION {{n + k : k \in EndsOfMany(m, From(s, n), max - 1)} : n \in Ends(m, s) \ {0}}
Longest(S) == IF S = {} THEN Miss ELSE Max(S)

(* The matchers take the first alternative and never go back, and yet find *)
(* the longest text of the pattern.                                        *)
Patterns == <<number, identifier, newline, filename, path, row, two_to_three>>
MatchersAreGreedy == \A i \in DOMAIN Patterns : Match(Patterns[i], text) = Longest(Ends(Patterns[i], text))

(* A number in JSON has no zero before another digit: "0" comes first.     *)
NumbersOfJson ==
  Match(json_number, text) =
    Longest({n \in Ends(json_number, text) :
               LET start == IF Head(text) = "-" THEN 2 ELSE 1
               IN n > start /\ text[start] = "0" => text[start + 1] \notin digit})

(* A quotation ends at the first quote that is not escaped; what escapes   *)
(* is not escaped itself.                                                  *)
Escaped(i) == Cardinality({j \in 1 .. i - 1 : \A k \in j .. i - 1 : text[k] = "\\"}) % 2 = 1
QuotationsEnd ==
  LET ends == {i \in 2 .. Len(text) : text[i] = "\"" /\ ~Escaped(i)} IN
  Match(quotation, text) = IF text # << >> /\ Head(text) = "\"" /\ ends # {} THEN Min(ends) ELSE Miss

MatchingSound == MatchersAreGreedy /\ NumbersOfJson /\ QuotationsEnd

TextSound == StringsSound /\ MatchingSound
=============================================================================
