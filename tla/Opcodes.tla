------------------------------ MODULE Opcodes -------------------------------
(***************************************************************************)
(* The opcodes of a machine that work on its stack alone: the switch on    *)
(* plan.action in game/machine.cpp, with the terms of game/term.hpp.       *)
(*                                                                         *)
(* A small integer has INLINE bits and arithmetic is done in WORD bits (60 *)
(* and 64 in the code); a result that does not fit is boxed on the heap.   *)
(* Stacks have their top first.                                            *)
(***************************************************************************)
EXTENDS Integers, SequencesExt

CONSTANTS INLINE, WORD,    (* INLINE < WORD                                  *)
          Bottom,          (* stacks a run may begin with                    *)
          TAKEN,           (* bound on the terms that are picked up          *)
          Nothing

Half == 2 ^ (INLINE - 1)
Matter == [kind |-> "matter", n |-> 0]
Null == [kind |-> "null", n |-> 0]
Glyph(n) == [kind |-> "glyph", n |-> n]
Bool(b) == [kind |-> "bool", n |-> IF b THEN 1 ELSE 0]

(* The small integers never wrap.                                          *)
WrongNumber(n) == [kind |-> "int", n |-> ((n + Half) % (2 * Half)) - Half]

(* term_make_integer_with                                                  *)
Number(n) == [kind |-> IF n \in -Half .. Half - 1 THEN "int" ELSE "heap", n |-> n]

(* is_inty and is_booly; a boolean is 0 or 1.                              *)
IsInty(a) == a.kind \in {"int", "bool"}
Truthy(a) == a.n # 0

Term == {Number(n) : n \in -Half .. Half} \cup {Bool(b) : b \in BOOLEAN}
          \cup {Matter, Glyph(0), Glyph(1)}

VARIABLES stack, taken, executed
vars == <<stack, taken, executed>>

Init == stack \in Bottom /\ taken = 0 /\ executed = Nothing
-----------------------------------------------------------------------------
Bit(n, i) == (n \div 2 ^ i) % 2
FromBits(b) == FoldLeft(LAMBDA x, i : x + b[i] * 2 ^ i, -b[WORD - 1] * 2 ^ (WORD - 1),
                        [i \in 1 .. WORD - 1 |-> i - 1])
Bitwise(F(_, _), m, n) == FromBits([i \in 0 .. WORD - 1 |-> F(Bit(m, i), Bit(n, i))])
And(m, n) == Bitwise(LAMBDA x, y : x * y, m, n)
Or(m, n) == Bitwise(LAMBDA x, y : x + y - x * y, m, n)
Xor(m, n) == Bitwise(LAMBDA x, y : (x + y) % 2, m, n)
Not(n) == Bitwise(LAMBDA x, y : 1 - x, n, 0)
Popcount(n) == FoldLeft(LAMBDA x, i : x + Bit(n, i - 1), 0, [i \in 1 .. WORD |-> i])
Sign(n) == IF n > 0 THEN 1 ELSE IF n < 0 THEN -1 ELSE 0

(* A negative count would be undefined, and so is one beyond the word.     *)
Clamp(n) == IF n < 0 THEN 0 ELSE IF n > INLINE THEN INLINE ELSE n

UnaryOpcode == {"IS_ZERO", "IS_NOT_ZERO", "IS_POSITIVE", "IS_NOT_POSITIVE", "IS_NEGATIVE",
                "IS_NOT_NEGATIVE", "LOGICAL_NOT", "BITWISE_NOT", "POPCOUNT", "NEGATE", "ABS", "SIGN"}
BinaryOpcode == {"LOGICAL_AND", "LOGICAL_OR", "LOGICAL_XOR", "BITWISE_AND", "BITWISE_OR", "BITWISE_XOR",
                 "SHIFT_RIGHT", "LESS_THAN", "GREATER_THAN", "LESS_THAN_OR_EQUAL_TO",
                 "GREATER_THAN_OR_EQUAL_TO", "COMPARE", "ADD", "SUBTRACT"}

(* What replaces one integer on the top of the stack.                      *)
Unary(op, a) ==
  CASE op = "IS_ZERO" -> Bool(a.n = 0)
    [] op = "IS_NOT_ZERO" -> Bool(a.n # 0)
    [] op = "IS_POSITIVE" -> Bool(a.n > 0)
    [] op = "IS_NOT_POSITIVE" -> Bool(a.n <= 0)
    [] op = "IS_NEGATIVE" -> Bool(a.n < 0)
    [] op = "IS_NOT_NEGATIVE" -> Bool(a.n >= 0)
    [] op = "LOGICAL_NOT" -> Bool(~Truthy(a))
    [] op = "BITWISE_NOT" -> Number(Not(a.n))
    [] op = "POPCOUNT" -> Number(Popcount(a.n))
    [] op = "NEGATE" -> Number(-a.n)
    [] op = "ABS" -> Number(IF a.n < 0 THEN -a.n ELSE a.n)
    [] op = "SIGN" -> Number(Sign(a.n))

(* What replaces two of them; b is the top.                                *)
Binary(op, a, b) ==
  CASE op = "LOGICAL_AND" -> Bool(Truthy(a) /\ Truthy(b))
    [] op = "LOGICAL_OR" -> Bool(Truthy(a) \/ Truthy(b))
    [] op = "LOGICAL_XOR" -> Bool(Truthy(a) # Truthy(b))
    [] op = "BITWISE_AND" -> Number(And(a.n, b.n))
    [] op = "BITWISE_OR" -> Number(Or(a.n, b.n))
    [] op = "BITWISE_XOR" -> Number(Xor(a.n, b.n))
    [] op = "SHIFT_RIGHT" -> Number(a.n \div 2 ^ Clamp(b.n))
    [] op = "LESS_THAN" -> Bool(a.n < b.n)
    [] op = "GREATER_THAN" -> Bool(a.n > b.n)
    [] op = "LESS_THAN_OR_EQUAL_TO" -> Bool(a.n <= b.n)
    [] op = "GREATER_THAN_OR_EQUAL_TO" -> Bool(a.n >= b.n)
    [] op = "COMPARE" -> Number(Sign(a.n - b.n))
    [] op = "ADD" -> Number(a.n + b.n)
    [] op = "SUBTRACT" -> Number(a.n - b.n)

Opcode == UnaryOpcode \cup BinaryOpcode \cup
  {"DROP", "DUPLICATE", "OVER", "SWAP", "ROT", "IS_MATTER", "BITWISE_SPLIT", "EQUAL", "NOT_EQUAL"}

Peek(s) == IF s = << >> THEN Null ELSE Head(s)
Pop(s) == IF s = << >> THEN s ELSE Tail(s)
Push(s, v) == IF v = Null THEN s ELSE <<v>> \o s

(* Two integers are equal as numbers, other information as terms: terms of *)
(* two types are not comparable, which counts as not equal.                *)
Equal(a, b) == IF IsInty(a) /\ IsInty(b) THEN a.n = b.n ELSE a = b
Comparable(a, b) == \/ IsInty(a) /\ IsInty(b)
                    \/ {a, b} \cap {Null, Matter} = {}

Execute(op, s) ==
  LET b == Peek(s)
      a == Peek(Pop(s))
      rest == Pop(Pop(s))
      numbers == IsInty(a) /\ IsInty(b)
  IN
  CASE op \in UnaryOpcode -> IF IsInty(b) THEN <<Unary(op, b)>> \o Pop(s) ELSE s
    [] op \in BinaryOpcode -> IF numbers THEN <<Binary(op, a, b)>> \o rest ELSE s
    [] op = "DROP" -> IF b = Matter THEN s ELSE Pop(s)
    [] op = "DUPLICATE" -> IF b = Matter THEN s ELSE Push(s, b)
    [] op = "OVER" -> IF a = Matter THEN s ELSE Push(s, a)
    [] op = "SWAP" -> Push(Push(rest, b), a)
    [] op = "ROT" -> IF Len(s) < 3 THEN s
                     ELSE <<s[3], s[1], s[2]>> \o SubSeq(s, 4, Len(s))
    [] op = "IS_MATTER" -> IF b = Null THEN s ELSE Push(s, Bool(b = Matter))
    [] op = "BITWISE_SPLIT" -> IF numbers THEN <<Number(Xor(a.n, b.n)), Number(And(a.n, b.n))>> \o rest ELSE s
    [] op = "EQUAL" -> IF Comparable(a, b) THEN <<Bool(Equal(a, b))>> \o rest ELSE s
    [] op = "NOT_EQUAL" -> IF Comparable(a, b) THEN <<Bool(~Equal(a, b))>> \o rest ELSE s

(* A machine picks up a term, or executes an opcode on what it has.        *)
Take ==
  /\ executed = Nothing /\ taken < TAKEN
  /\ \E v \in Term : stack' = Push(stack, v)
  /\ taken' = taken + 1 /\ UNCHANGED executed

Act ==
  /\ executed = Nothing
  /\ \E op \in Opcode :
       /\ executed' = [op |-> op, before |-> stack]
       /\ stack' = Execute(op, stack)
  /\ UNCHANGED taken

Finished == executed # Nothing /\ UNCHANGED vars
Next == Take \/ Act \/ Finished
Spec == Init /\ [][Next]_vars
-----------------------------------------------------------------------------
MatterIn(s) == Len(SelectSeq(s, LAMBDA v : v = Matter))

(* No opcode makes or destroys matter (a DROP of matter leaves it in hand, *)
(* to be put down), none pushes a null, and the terms below its operands   *)
(* stay as they are.                                                       *)
StackKept ==
  executed # Nothing =>
    LET before == executed.before
        depth == IF Len(before) < 3 THEN Len(before) ELSE 3 IN
    /\ MatterIn(stack) = MatterIn(before)
    /\ Null \notin ToSet(stack)
    /\ SubSeq(before, depth + 1, Len(before)) = SubSeq(stack, Len(stack) - (Len(before) - depth) + 1, Len(stack))

(* What the opcodes compute agrees with what the language says of them in  *)
(* terms of each other, for every pair of numbers: the results are exact,  *)
(* boxed when they do not fit, the bit operations partition the bits, and  *)
(* a right shift is a division that rounds down, whatever the count.       *)
(* COMPARE leaves the stack that SUBTRACT and then SIGN leave ("agreeing   *)
(* with SUBTRACT; SIGN", machine.cpp:778) exactly where the difference is  *)
(* inline: a boxed one is no operand of SIGN, which leaves it there.       *)
ArithmeticExact ==
  executed # Nothing /\ Len(executed.before) >= 2 =>
    LET b == executed.before[1]
        a == executed.before[2]
        Out(op) == Execute(op, executed.before)[1].n
        difference == Execute("SUBTRACT", executed.before)
        ok == IsInty(a) /\ IsInty(b)
    IN ok =>
      /\ executed.op = "ADD" => Out("ADD") = 2 * Out("BITWISE_AND") + Out("BITWISE_XOR")
      /\ executed.op = "SUBTRACT" => Out("SUBTRACT") + b.n = a.n
      /\ executed.op = "COMPARE" =>
           /\ Out("COMPARE") = Out("GREATER_THAN") - Out("LESS_THAN")
           /\ stack = Execute("SIGN", difference) <=> difference[1].kind = "int"
      /\ executed.op = "BITWISE_SPLIT" =>
           /\ stack[1].n + stack[2].n = Out("BITWISE_OR") /\ And(stack[1].n, stack[2].n) = 0
      /\ executed.op = "BITWISE_NOT" => Out("BITWISE_NOT") = -b.n - 1
      /\ executed.op = "POPCOUNT" => Out("POPCOUNT") = Popcount(And(b.n, -b.n)) + Popcount(And(b.n, b.n - 1))
      /\ executed.op = "SHIFT_RIGHT" /\ b.n >= 0 =>
           \E r \in 0 .. 2 ^ b.n - 1 : a.n = Out("SHIFT_RIGHT") * 2 ^ b.n + r
      /\ executed.op = "EQUAL" => /\ Out("EQUAL") + Out("NOT_EQUAL") = 1
                                  /\ Out("EQUAL") + Out("LESS_THAN") + Out("GREATER_THAN") = 1

(* The kinds: results that fit are not boxed, and nothing is computed from *)
(* a boxed number, whichever operand it is.                                *)
BoxesAreInert ==
  executed # Nothing =>
    LET before == executed.before
        operands == CASE executed.op \in UnaryOpcode -> 1 .. 1
                      [] executed.op \in BinaryOpcode -> 1 .. 2
                      [] OTHER -> {}
    IN /\ \A v \in ToSet(stack) : v.kind = "heap" => v.n \notin -Half .. Half - 1
       /\ (\E i \in operands \cap DOMAIN before : before[i].kind = "heap") => stack = before

OpcodesAgree == StackKept /\ ArithmeticExact /\ BoxesAreInert
=============================================================================
