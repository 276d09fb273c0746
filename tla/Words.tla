------------------------------- MODULE Words -------------------------------
(***************************************************************************)
(* Two's-complement arithmetic on words of Width bits and on pairs of      *)
(* words: what C says of int and long long, and what the i386 instructions *)
(* compute.  A word is represented by its unsigned value.                  *)
(***************************************************************************)
EXTENDS Integers

CONSTANT Width                 \* bits in an int; 32 in the code

ASSUME WidthIsEven == Width \in {4, 6, 8}

Word == 0 .. 2^Width - 1

\* The signed value of the w-bit pattern n, and the pattern of a value.
Signed(n, w) == IF n >= 2^(w - 1) THEN n - 2^w ELSE n
Wrap(n, w) == n % 2^w

Low(n) == n % 2^Width
High(n) == n \div 2^Width
Pair(lo, hi) == lo + hi * 2^Width

Abs(n) == IF n < 0 THEN -n ELSE n

\* Division truncates towards zero.
Quotient(a, b) == LET q == Abs(a) \div Abs(b) IN IF (a < 0) = (b < 0) THEN q ELSE -q
Remainder(a, b) == a - b * Quotient(a, b)

\* Products modulo 2^w, by halves: TLC computes with 32 bits.
Product(a, b, w) ==
    LET h == 2^(w \div 2)
    IN Wrap((a % h) * b + Wrap((a \div h) * b, w \div 2) * h, w)

Bit(n, i) == (n \div 2^i) % 2

\* a op b, bit by bit.
BitByBit(op, a, b, w) ==
    LET both(i) == CASE op = "&" -> Bit(a, i) * Bit(b, i)
                     [] op = "|" -> IF Bit(a, i) + Bit(b, i) = 0 THEN 0 ELSE 1
                     [] op = "^" -> (Bit(a, i) + Bit(b, i)) % 2
        sum[i \in 0 .. w] == IF i = 0 THEN 0 ELSE sum[i - 1] + both(i - 1) * 2^(i - 1)
    IN sum[w]

Truth(b) == IF b THEN 1 ELSE 0

Comparisons == {"==", "!=", "<", ">=", "<=", ">", "u<", "u>=", "u<=", "u>"}

Compare(op, a, b, w) ==
    LET x == Signed(a, w)
        y == Signed(b, w)
    IN Truth(CASE op = "==" -> a = b   [] op = "!=" -> a # b
               [] op = "<"  -> x < y   [] op = ">=" -> x >= y
               [] op = "<=" -> x <= y  [] op = ">"  -> x > y
               [] op = "u<" -> a < b   [] op = "u>=" -> a >= b
               [] op = "u<=" -> a <= b [] op = "u>"  -> a > b)

\* The comparison that is true when op is not (bit 0 of its token).
Opposite(op) ==
    CASE op = "==" -> "!="  [] op = "!=" -> "=="
      [] op = "<"  -> ">="  [] op = ">=" -> "<"
      [] op = "<=" -> ">"   [] op = ">"  -> "<="
      [] op = "u<" -> "u>=" [] op = "u>=" -> "u<"
      [] op = "u<=" -> "u>" [] op = "u>"  -> "u<="

\* a op b for w-bit patterns.  Shift counts are below w and divisors are not 0.
Compute(op, a, b, w) ==
    CASE op = "+" -> Wrap(a + b, w)
      [] op = "-" -> Wrap(a - b, w)
      [] op = "*" -> Product(a, b, w)
      [] op = "/" -> Wrap(Quotient(Signed(a, w), Signed(b, w)), w)
      [] op = "%" -> Wrap(Remainder(Signed(a, w), Signed(b, w)), w)
      [] op = "<<" -> Wrap((a % 2^(w - b)) * 2^b, w)
      [] op = "shr" -> a \div 2^b
      [] op = ">>" -> Wrap(Signed(a, w) \div 2^b, w)
      [] op \in {"&", "|", "^"} -> BitByBit(op, a, b, w)
      [] op \in Comparisons -> Compare(op, a, b, w)

\* An int as a long long.
Widen(n) == Wrap(Signed(n, Width), 2 * Width)
=============================================================================
