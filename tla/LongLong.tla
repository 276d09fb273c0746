------------------------------ MODULE LongLong ------------------------------
(***************************************************************************)
(* The run-time library for long long (libtinycc1.c): division by words,   *)
(* shifts by words, and the conversions between unsigned long long and     *)
(* floating point.  The code that CodeGenerator emits calls these.         *)
(*                                                                         *)
(* A word has W_TYPE_SIZE bits, a long long twice as many, both as their   *)
(* unsigned values.  A floating point number that the conversions see is   *)
(* m * 2^x with a mantissa of so many bits; a long double's has as many as *)
(* a long long.                                                            *)
(***************************************************************************)
EXTENDS Integers

CONSTANTS W_TYPE_SIZE,         \* 32 in the code
          FloatMantissa,       \* 24 in the code
          DoubleMantissa       \* 53 in the code

ASSUME SizesOrdered ==
  /\ W_TYPE_SIZE \in Nat /\ FloatMantissa \in Nat \ {0} /\ DoubleMantissa \in Nat
  /\ FloatMantissa < W_TYPE_SIZE /\ W_TYPE_SIZE < DoubleMantissa /\ DoubleMantissa < 2 * W_TYPE_SIZE

\* Powers of two; arithmetic that provers do not know.
ASSUME PowersMultiply ==
  /\ 2^0 = 1 /\ 2^1 = 2
  /\ \A i \in 0 .. 4 * W_TYPE_SIZE + 1 : 2^i \in Nat \ {0}
  /\ \A i, j \in 0 .. 4 * W_TYPE_SIZE + 1 : i + j <= 4 * W_TYPE_SIZE + 1 => 2^(i + j) = 2^i * 2^j

VARIABLES call,                \* the last call: the function and its arguments
          ret                  \* what it returned
llVars == <<call, ret>>

B == 2^W_TYPE_SIZE             \* one more than a word holds
UDWtype == 0 .. B * B - 1
low(n) == n % B
high(n) == n \div B
DWunion(l, h) == l + h * B
AsWord(n) == n % B
IsNegative(n) == n >= (B * B) \div 2
AsSigned(n) == IF IsNegative(n) THEN n - B * B ELSE n
negdi2(n) == (-n) % (B * B)

-----------------------------------------------------------------------------
(* The instructions behind the macros.  divl traps when the quotient needs *)
(* more than a word.                                                       *)

Answer(q, r) == [trap |-> FALSE, q |-> q, r |-> r]
Trapped == [trap |-> TRUE, q |-> 0, r |-> 0]

udiv_qrnnd(n1, n0, d) == IF n1 >= d THEN Trapped ELSE Answer(DWunion(n0, n1) \div d, DWunion(n0, n1) % d)
sub_ddmmss(a, b) == (a - b) % (B * B)
count_leading_zeros(x) == CHOOSE n \in 0 .. W_TYPE_SIZE - 1 : x \in 2^(W_TYPE_SIZE - n - 1) .. 2^(W_TYPE_SIZE - n) - 1

-----------------------------------------------------------------------------
(* __udivmoddi4, as built for the i386: UDIV_NEEDS_NORMALIZATION is not    *)
(* defined.                                                                *)

\* The divisor is one word.
ByOneWord(n1, n0, d0) ==
  IF d0 > n1 THEN udiv_qrnnd(n1, n0, d0)
  ELSE LET x == udiv_qrnnd(0, n1, d0)
           y == udiv_qrnnd(x.r, n0, d0)
       IN  IF x.trap \/ y.trap THEN Trapped ELSE Answer(DWunion(y.q, x.q), y.r)

\* The divisor's high bit is set: the quotient is 0 or 1.
ByFullWords(n, d) ==
  IF high(n) > high(d) \/ low(n) >= low(d) THEN Answer(1, sub_ddmmss(n, d)) ELSE Answer(0, n)

\* Mutant: the estimate is taken as it is.
NormalizedUncorrected(n1, n0, d1, d0, bm) ==
  LET b == W_TYPE_SIZE - bm
      nd1 == AsWord(d1 * 2^bm) + d0 \div 2^b
      nn1 == AsWord(n1 * 2^bm) + n0 \div 2^b
      x == udiv_qrnnd(n1 \div 2^b, nn1, nd1)
      rr == sub_ddmmss(DWunion(AsWord(n0 * 2^bm), x.r), x.q * AsWord(d0 * 2^bm))
  IN  IF x.trap THEN Trapped
      ELSE Answer(x.q, DWunion(AsWord(high(rr) * 2^b) + low(rr) \div 2^bm, high(rr) \div 2^bm))

\* The estimate from the normalized high words may be one too large.
Normalized(n1, n0, d1, d0, bm) ==
  LET b   == W_TYPE_SIZE - bm
      nd1 == AsWord(d1 * 2^bm) + d0 \div 2^b
      nd0 == AsWord(d0 * 2^bm)
      nn1 == AsWord(n1 * 2^bm) + n0 \div 2^b
      nn0 == AsWord(n0 * 2^bm)
      x   == udiv_qrnnd(n1 \div 2^b, nn1, nd1)
      m   == x.q * nd0
      big == high(m) > x.r \/ (high(m) = x.r /\ low(m) > nn0)
      q   == IF big THEN AsWord(x.q - 1) ELSE x.q
      rr  == sub_ddmmss(DWunion(nn0, x.r), IF big THEN sub_ddmmss(m, DWunion(nd0, nd1)) ELSE m)
  IN  IF x.trap THEN Trapped
      ELSE Answer(q, DWunion(AsWord(high(rr) * 2^b) + low(rr) \div 2^bm, high(rr) \div 2^bm))

udivmoddi4(n, d) ==
  LET bm == count_leading_zeros(high(d))
  IN  CASE high(d) = 0       -> ByOneWord(high(n), low(n), low(d))
        [] high(d) > high(n) -> Answer(0, n)
        [] OTHER             -> IF bm = 0 THEN ByFullWords(n, d)
                                ELSE Normalized(high(n), low(n), high(d), low(d), bm)

-----------------------------------------------------------------------------
(* What is called.                                                         *)

Magnitude(n) == IF IsNegative(n) THEN negdi2(n) ELSE n
WithSign(c, n) == IF c THEN negdi2(n) ELSE n

divide(f, u, v) ==
  CASE f = "udivdi3" -> udivmoddi4(u, v)
    [] f = "umoddi3" -> LET x == udivmoddi4(u, v) IN [x EXCEPT !.q = x.r]
    [] f = "divdi3"  -> LET x == udivmoddi4(Magnitude(u), Magnitude(v))
                        IN  [x EXCEPT !.q = WithSign(IsNegative(u) # IsNegative(v), x.q)]
    [] f = "moddi3"  -> LET x == udivmoddi4(Magnitude(u), Magnitude(v))
                        IN  [x EXCEPT !.q = WithSign(IsNegative(u), x.r)]

\* A word shifted right, signed; shifted left, losing what leaves the word.
Sar(w, n) == AsWord((IF w >= B \div 2 THEN w - B ELSE w) \div 2^n)
Shl(w, n) == (w % 2^(W_TYPE_SIZE - n)) * 2^n
RightWords(l, h, b) == l \div 2^b + Shl(h, W_TYPE_SIZE - b)

shift(f, a, b) ==
  LET far == b >= W_TYPE_SIZE
      k   == b - W_TYPE_SIZE
      l   == low(a)
      h   == high(a)
  IN  CASE b = 0 -> a
        [] b # 0 /\ f = "sardi3" -> IF far THEN DWunion(Sar(h, k), Sar(h, W_TYPE_SIZE - 1))
                                    ELSE DWunion(RightWords(l, h, b), Sar(h, b))
        [] b # 0 /\ f = "shrdi3" -> IF far THEN DWunion(h \div 2^k, 0)
                                    ELSE DWunion(RightWords(l, h, b), h \div 2^b)
        [] b # 0 /\ f = "shldi3" -> IF far THEN DWunion(0, Shl(l, k))
                                    ELSE DWunion(Shl(l, b), Shl(h, b) + l \div 2^(W_TYPE_SIZE - b))

\* n rounded to bits binary digits, to even when it lies between two: what the FPU does.
Absolute(n) == IF n < 0 THEN -n ELSE n
Excess(a, bits) == CHOOSE e \in 0 .. 2 * W_TYPE_SIZE + 1 : a < 2^(bits + e) /\ (e = 0 \/ a >= 2^(bits + e - 1))
Without(a, k) ==
  LET q == a \div 2^k
      r == 2 * (a % 2^k)
  IN  (IF r > 2^k \/ (r = 2^k /\ k > 0 /\ q % 2 = 1) THEN q + 1 ELSE q) * 2^k
Nearest(n, bits) ==
  LET m == Without(Absolute(n), Excess(Absolute(n), bits))
  IN  IF n < 0 THEN -m ELSE m

Mantissa(f) == CASE f \in {"ulltof", "fixunssfdi"}  -> FloatMantissa
                 [] f \in {"ulltod", "fixunsdfdi"}  -> DoubleMantissa
                 [] f \in {"ulltold", "fixunsxfdi"} -> 2 * W_TYPE_SIZE

\* A long long with its high bit set is negative to the FPU, 2^(2 * W_TYPE_SIZE) too small.
ullto(f, a) ==
  IF ~IsNegative(a) THEN Nearest(a, Mantissa(f))
  ELSE LET r == Nearest(AsSigned(a), 2 * W_TYPE_SIZE)
       IN  Nearest(Nearest(r + B * B, 2 * W_TYPE_SIZE), Mantissa(f))

\* l * 2^exp.  The mantissa's first bit is added to every number, to those too small to have it as well.
fixuns(f, l, exp) ==
  LET m == Mantissa(f)
  IN  CASE exp >= 2 * W_TYPE_SIZE - m + 1                         -> B * B - 1
        [] exp >= 0 /\ exp < 2 * W_TYPE_SIZE - m + 1              -> l * 2^exp
        [] exp < 0 /\ exp >= -(m - 1)                             -> l \div 2^(-exp)
        [] exp < -(m - 1)                                         -> 0

-----------------------------------------------------------------------------
LongLongInit == call = [f |-> "none", a |-> 0, b |-> 0] /\ ret = 0

Divide ==
  \E f \in {"udivdi3", "umoddi3", "divdi3", "moddi3"}, u, v \in UDWtype :
     LET x == divide(f, u, v)
     IN  /\ call' = [f |-> f, a |-> u, b |-> v]
         /\ ret' = IF x.trap THEN -1 ELSE x.q

Shift ==
  \E f \in {"sardi3", "shrdi3", "shldi3"}, a \in UDWtype, b \in 0 .. 2 * W_TYPE_SIZE - 1 :
     /\ call' = [f |-> f, a |-> a, b |-> b]
     /\ ret' = shift(f, a, b)

ToFloat ==
  \E f \in {"ulltof", "ulltod", "ulltold"}, a \in UDWtype :
     /\ call' = [f |-> f, a |-> a, b |-> 0]
     /\ ret' = ullto(f, a)

FromFloat ==
  \E f \in {"fixunssfdi", "fixunsdfdi", "fixunsxfdi"} :
  \E l \in 2^(Mantissa(f) - 1) .. 2^Mantissa(f) - 1, exp \in -Mantissa(f) - 1 .. 2 * W_TYPE_SIZE - Mantissa(f) + 1 :
     /\ call' = [f |-> f, a |-> l, b |-> exp]
     /\ ret' = fixuns(f, l, exp)

LongLongNext ==
  /\ call.f = "none"
  /\ \/ Divide
     \/ Shift
     \/ ToFloat
     \/ FromFloat
LongLongSpec == LongLongInit /\ [][LongLongNext]_llVars

-----------------------------------------------------------------------------
(* What C says the calls return.                                           *)

Truncated(a, b) == LET q == Absolute(a) \div Absolute(b) IN IF (a < 0) = (b < 0) THEN q ELSE -q
Exact(f, a, b) ==
  LET x == AsSigned(a)
      y == AsSigned(b)
  IN  CASE f = "udivdi3" -> a \div b
        [] f = "umoddi3" -> a % b
        [] f = "divdi3"  -> Truncated(x, y) % (B * B)
        [] f = "moddi3"  -> (x - y * Truncated(x, y)) % (B * B)
        [] f = "sardi3"  -> (x \div 2^b) % (B * B)
        [] f = "shrdi3"  -> a \div 2^b
        [] f = "shldi3"  -> (a % 2^(2 * W_TYPE_SIZE - b)) * 2^b

\* Quotients, remainders and shifts of long longs by words are those of the
\* whole numbers, for all operands: the estimated quotient is corrected just
\* when it is wrong, no division of words overflows, and only a division by
\* zero traps.  Conversions round once, and cut off towards zero what is in
\* range.  libtinycc1.c:151-585.
RuntimeIsExact ==
  LET f == call.f
      a == call.a
      b == call.b
  IN  CASE f \in {"none", "idle"} -> TRUE
        [] f \in {"udivdi3", "umoddi3", "divdi3", "moddi3"} ->
             IF b = 0 THEN ret = -1 ELSE ret = Exact(f, a, b)
        [] f \in {"sardi3", "shrdi3", "shldi3"} -> ret = Exact(f, a, b)
        [] f \in {"ulltof", "ulltod", "ulltold"} -> ret = Nearest(a, Mantissa(f))
        [] f \in {"fixunssfdi", "fixunsdfdi", "fixunsxfdi"} ->
             LET whole == IF b >= 0 THEN a * 2^b ELSE a \div 2^(-b)
             IN  whole < B * B => ret = whole
=============================================================================
