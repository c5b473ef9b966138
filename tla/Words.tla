---------------------------------- MODULE Words ----------------------------------
(***************************************************************************)
(* Signed machine words of Width bits: what QBE and WebAssembly compute    *)
(* for the opcodes of the representation, and C for its operators wherever *)
(* it defines them.  Addition, multiplication and shifts wrap, division    *)
(* truncates towards zero.                                                 *)
(***************************************************************************)
EXTENDS Integers
LOCAL INSTANCE Bitwise

CONSTANT Width
ASSUME WidthAssumption == Width \in Nat \ {0}

Size == 2 ^ Width
Lowest == 0 - 2 ^ (Width - 1)
Word == Lowest .. (0 - Lowest - 1)

Wrap(n) == ((n - Lowest) % Size) + Lowest
Bits(n) == n % Size
Bool(b) == IF b THEN 1 ELSE 0

Abs(n) == IF n < 0 THEN 0 - n ELSE n
Quotient(a, b) == IF (a < 0) = (b < 0) THEN Abs(a) \div Abs(b) ELSE 0 - (Abs(a) \div Abs(b))

(* The quotients C leaves undefined: division by zero, and the one that    *)
(* does not fit in a word.                                                 *)
Overflows(op, a, b) == op \in {"div", "mod"} /\ a = Lowest /\ b = -1
Undefined(op, a, b) == Overflows(op, a, b) \/ (op \in {"div", "mod"} /\ b = 0)

(* The C backend emits its operators as they are and does not ask the host *)
(* compiler to wrap: C leaves undefined a result that does not fit, and a  *)
(* shift by less than 0 or by the width, or to the left of what is         *)
(* negative.                                                               *)
DoesNotFit(op, a, b) ==
    \/ op = "add" /\ a + b \notin Word
    \/ op = "sub" /\ a - b \notin Word
    \/ op = "mul" /\ a * b \notin Word
    \/ op = "neg" /\ 0 - a \notin Word
    \/ op \in {"bit_shl", "bit_shr"} /\ b \notin 0 .. (Width - 1)
    \/ op = "bit_shl" /\ (a < 0 \/ a * 2 ^ b \notin Word)
UndefinedInC(op, a, b) == Undefined(op, a, b) \/ DoesNotFit(op, a, b)

(* The value of an opcode; a unary one ignores b. *)
Compute(op, a, b) ==
    CASE op = "add" -> Wrap(a + b)
      [] op = "sub" -> Wrap(a - b)
      [] op = "mul" -> Wrap(a * b)
      [] op = "div" -> IF b = 0 THEN 0 ELSE Wrap(Quotient(a, b))
      [] op = "mod" -> IF b = 0 THEN 0 ELSE a - b * Quotient(a, b)
      [] op = "bit_and" -> Wrap(Bits(a) & Bits(b))
      [] op = "bit_or" -> Wrap(Bits(a) | Bits(b))
      [] op = "bit_xor" -> Wrap(Bits(a) ^^ Bits(b))
      [] op = "bit_shl" -> Wrap(a * 2 ^ (b % Width))
      [] op = "bit_shr" -> a \div 2 ^ (b % Width)
      [] op = "neg" -> Wrap(0 - a)
      [] op = "cmp_eq" -> Bool(a = b)
      [] op = "cmp_ne" -> Bool(a # b)
      [] op = "cmp_lt" -> Bool(a < b)
      [] op = "cmp_le" -> Bool(a <= b)
      [] op = "cmp_gt" -> Bool(a > b)
      [] op = "cmp_ge" -> Bool(a >= b)
      [] op = "and" -> Bool(a # 0 /\ b # 0)
      [] op = "or" -> Bool(a # 0 \/ b # 0)
      [] op = "not" -> Bool(a = 0)
      [] op = "copy" -> a
=================================================================================
