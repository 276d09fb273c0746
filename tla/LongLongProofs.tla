--------------------------- MODULE LongLongProofs ---------------------------
(***************************************************************************)
(* Proofs about LongLong, for every size of a word and of the mantissas.   *)
(* Each function is a fact of arithmetic: numbers are split at the words'  *)
(* boundaries, and what the pieces make is the whole.                      *)
(***************************************************************************)
EXTENDS LongLong, NaturalExtrema

(***************************************************************************)
(* Quotients and remainders                                                *)
(***************************************************************************)
\* Every number is so many divisors and something less than one.
LEMMA Splits ==
  ASSUME NEW x \in Int, NEW s \in Nat \ {0}
  PROVE  \E q \in Int, r \in 0 .. s - 1 : x = q * s + r
<1>1. x \div s \in Int /\ (x \div s) * s <= x /\ x < (x \div s) * s + s
  OBVIOUS
<1>2. PICK q \in Int : q = x \div s
  BY <1>1
<1>3. x - q * s \in 0 .. s - 1
  BY <1>1, <1>2
<1> QED BY <1>3

LEMMA SplitsNat ==
  ASSUME NEW x \in Nat, NEW s \in Nat \ {0}
  PROVE  \E q \in Nat, r \in 0 .. s - 1 : x = q * s + r
<1>1. x \div s \in Nat /\ (x \div s) * s <= x /\ x < (x \div s) * s + s
  OBVIOUS
<1>2. PICK q \in Nat : q = x \div s
  BY <1>1
<1>3. x - q * s \in 0 .. s - 1
  BY <1>1, <1>2
<1> QED BY <1>3

\* ... in one way.
LEMMA QuotientIs ==
  ASSUME NEW s \in Nat \ {0}, NEW q \in Int, NEW r \in 0 .. s - 1
  PROVE  (q * s + r) \div s = q /\ (q * s + r) % s = r
OBVIOUS

LEMMA Small ==
  ASSUME NEW s \in Nat \ {0}, NEW x \in 0 .. s - 1
  PROVE  x \div s = 0 /\ x % s = x
OBVIOUS

\* Products keep the order.
LEMMA Grows ==
  ASSUME NEW a \in Nat, NEW b \in Nat, NEW c \in Nat, a <= b
  PROVE  a * c \in Nat /\ b * c \in Nat /\ a * c <= b * c
<1>1. PICK e \in Nat : b = a + e
  <2>1. b - a \in Nat /\ b = a + (b - a)
    OBVIOUS
  <2> QED BY <2>1
<1>2. a * c \in Nat /\ e * c \in Nat /\ (a + e) * c = a * c + e * c
  OBVIOUS
<1> QED BY <1>1, <1>2

\* What is less than a factor leaves room for one more.
LEMMA Room ==
  ASSUME NEW a \in Nat, NEW b \in Nat, NEW c \in Nat, a < b
  PROVE  a * c \in Nat /\ b * c \in Nat /\ a * c + c <= b * c
<1>1. (a + 1) * c <= b * c /\ b * c \in Nat
  BY Grows
<1>2. (a + 1) * c = a * c + c /\ a * c \in Nat
  OBVIOUS
<1> QED BY <1>1, <1>2

\* Two digits stay below their base.
LEMMA TwoDigits ==
  ASSUME NEW s \in Nat \ {0}, NEW t \in Nat \ {0}, NEW h \in 0 .. t - 1, NEW l \in 0 .. s - 1
  PROVE  h * s + l \in 0 .. t * s - 1
<1>1. h * s \in Nat /\ t * s \in Nat /\ h * s + s <= t * s
  BY Room
<1> QED BY <1>1

\* A quotient of a quotient.
LEMMA TwiceDivided ==
  ASSUME NEW x \in Int, NEW s \in Nat \ {0}, NEW t \in Nat \ {0}
  PROVE  x \div (t * s) = (x \div s) \div t
<1>1. PICK q \in Int, r \in 0 .. s - 1 : x = q * s + r
  BY Splits
<1>2. PICK p \in Int, m \in 0 .. t - 1 : q = p * t + m
  BY Splits
<1>3. x = p * (t * s) + (m * s + r)
  BY <1>1, <1>2
<1>4. m * s + r \in 0 .. t * s - 1 /\ t * s \in Nat \ {0}
  <2>1. m * s + r \in 0 .. t * s - 1
    BY TwoDigits
  <2>2. t * s \in Nat \ {0}
    OBVIOUS
  <2> QED BY <2>1, <2>2
<1>5. x \div (t * s) = p
  BY <1>3, <1>4, QuotientIs
<1>6. x \div s = q /\ q \div t = p
  BY <1>1, <1>2, QuotientIs
<1> QED BY <1>5, <1>6

(***************************************************************************)
(* Words                                                                   *)
(***************************************************************************)
\* A word's size, as the product of what lies on both sides of a bit.
LEMMA Powers ==
  /\ W_TYPE_SIZE \in Nat /\ W_TYPE_SIZE >= 2
  /\ B \in Nat \ {0, 1}
  /\ B * B \in Nat \ {0, 1}
  /\ B * B >= B + B
  /\ \A n \in 0 .. W_TYPE_SIZE :
       /\ 2^n \in Nat \ {0} /\ 2^(W_TYPE_SIZE - n) \in Nat \ {0}
       /\ 2^(W_TYPE_SIZE - n) * 2^n = B
       /\ n # 0 => 2^n >= 2
<1>1. W_TYPE_SIZE \in Nat /\ W_TYPE_SIZE >= 2
  BY SizesOrdered
<1>2. ASSUME NEW n \in 1 .. 4 * W_TYPE_SIZE + 1  PROVE 2^n \in Nat /\ 2^n >= 2
  <2>1. PICK m \in 0 .. 4 * W_TYPE_SIZE + 1 : n = m + 1
    <3>1. n - 1 \in 0 .. 4 * W_TYPE_SIZE + 1 /\ n = (n - 1) + 1
      BY <1>1
    <3> QED BY <3>1
  <2>2. 2^(m + 1) = 2^m * 2^1
    <3>1. 1 \in 0 .. 4 * W_TYPE_SIZE + 1 /\ m + 1 <= 4 * W_TYPE_SIZE + 1
      BY <1>1, <2>1
    <3> QED BY <2>1, <3>1, PowersMultiply
  <2>3. 2^m \in Nat \ {0} /\ 2^1 = 2
    BY <2>1, PowersMultiply
  <2> QED BY <2>1, <2>2, <2>3
<1>3. B \in Nat \ {0, 1}
  BY <1>1, <1>2 DEF B
<1>4. B * B \in Nat /\ B * B >= B + B
  <2>1. 2 * B <= B * B /\ B * B \in Nat
    BY <1>3, Grows
  <2> QED BY <2>1, <1>3
<1>5. ASSUME NEW n \in 0 .. W_TYPE_SIZE
      PROVE  /\ 2^n \in Nat \ {0} /\ 2^(W_TYPE_SIZE - n) \in Nat \ {0}
             /\ 2^(W_TYPE_SIZE - n) * 2^n = B
             /\ n # 0 => 2^n >= 2
  <2>1. n \in 0 .. 4 * W_TYPE_SIZE + 1 /\ W_TYPE_SIZE - n \in 0 .. 4 * W_TYPE_SIZE + 1
        /\ (W_TYPE_SIZE - n) + n = W_TYPE_SIZE
    BY <1>1
  <2>2. 2^W_TYPE_SIZE = 2^(W_TYPE_SIZE - n) * 2^n
    BY <2>1, PowersMultiply, <1>1
  <2>3. n # 0 => 2^n >= 2
    BY <1>1, <1>2
  <2> QED BY <2>1, <2>2, <2>3, PowersMultiply DEF B
<1> QED BY <1>1, <1>3, <1>4, <1>5

\* A long long is its two words.
LEMMA Words ==
  ASSUME NEW n \in UDWtype
  PROVE  /\ n \in Nat /\ n < B * B
         /\ high(n) \in 0 .. B - 1 /\ low(n) \in 0 .. B - 1
         /\ n = high(n) * B + low(n)
<1>1. B \in Nat \ {0} /\ B * B \in Nat /\ n \in Nat /\ n < B * B
  BY Powers DEF UDWtype
<1> HIDE DEF B
<1>2. PICK q \in Nat, r \in 0 .. B - 1 : n = q * B + r
  BY <1>1, SplitsNat
<1>3. n \div B = q /\ n % B = r
  BY <1>1, <1>2, QuotientIs
<1>4. q < B
  <2> SUFFICES ASSUME B <= q PROVE FALSE
    BY <1>1
  <2>1. B * B <= q * B /\ q * B \in Nat
    BY <1>1, Grows
  <2> QED BY <1>1, <1>2, <2>1
<1> QED BY <1>1, <1>2, <1>3, <1>4 DEF high, low

LEMMA WordsIn ==
  ASSUME NEW h \in 0 .. B - 1, NEW l \in 0 .. B - 1
  PROVE  h * B + l \in UDWtype
<1>1. B \in Nat \ {0} /\ B * B \in Nat
  BY Powers
<1> HIDE DEF B
<1>2. h * B + l \in 0 .. B * B - 1
  BY <1>1, TwoDigits
<1> QED BY <1>2 DEF UDWtype

\* The two words of a sum of that form.
LEMMA WordsAre ==
  ASSUME NEW h \in Int, NEW l \in 0 .. B - 1
  PROVE  high(h * B + l) = h /\ low(h * B + l) = l
<1>1. B \in Nat \ {0}
  BY Powers
<1> HIDE DEF B
<1> QED BY <1>1, QuotientIs DEF high, low

\* The instruction divides when the quotient is a word.
DividesWords(n1, n0, d) ==
  \E q \in 0 .. B - 1, r \in 0 .. d - 1 :
     n1 * B + n0 = q * d + r /\ udiv_qrnnd(n1, n0, d) = Answer(q, r)

LEMMA Instruction ==
  ASSUME NEW n1 \in Nat, NEW n0 \in 0 .. B - 1, NEW d \in Nat, n1 < d
  PROVE  DividesWords(n1, n0, d)
<1>1. B \in Nat \ {0} /\ d \in Nat \ {0}
  BY Powers
<1> HIDE DEF B
<1>2. n1 * B + n0 \in Nat /\ n1 * B + n0 = n0 + n1 * B
  BY <1>1
<1>3. PICK q \in Nat, r \in 0 .. d - 1 : n1 * B + n0 = q * d + r
  BY <1>1, <1>2, SplitsNat
<1>4. (n1 * B + n0) \div d = q /\ (n1 * B + n0) % d = r
  BY <1>1, <1>3, QuotientIs
<1>5. q < B
  <2> SUFFICES ASSUME B <= q PROVE FALSE
    BY <1>1
  <2>1. B * d <= q * d /\ B * d \in Nat /\ q * d \in Nat
    BY <1>1, Grows
  <2>2. n1 * B + B <= d * B
    BY <1>1, Room
  <2>3. B * d = d * B /\ n1 * B \in Nat
    BY <1>1
  <2> QED BY <1>1, <1>3, <2>1, <2>2, <2>3
<1>6. udiv_qrnnd(n1, n0, d) = Answer(q, r)
  <2>1. ~(n1 >= d)
    OBVIOUS
  <2>2. DWunion(n0, n1) \div d = q /\ DWunion(n0, n1) % d = r
    BY <1>2, <1>4 DEF DWunion
  <2> QED BY <2>1, <2>2 DEF udiv_qrnnd
<1>7. q \in 0 .. B - 1
  BY <1>1, <1>5
<1> QED BY <1>3, <1>6, <1>7 DEF DividesWords

(***************************************************************************)
(* Division of long longs by words                                         *)
(***************************************************************************)
\* What a division answers.
Divides(x, n, d) == x = Answer(n \div d, n % d)

LEMMA DividesAs ==
  ASSUME NEW n \in Nat, NEW d \in Nat, NEW q \in Nat, NEW r \in 0 .. d - 1, n = q * d + r
  PROVE  Divides(Answer(q, r), n, d)
<1>1. d \in Nat \ {0}
  OBVIOUS
<1>2. n \div d = q /\ n % d = r
  BY <1>1, QuotientIs
<1> QED BY <1>2 DEF Divides

LEMMA ByOneWordDivides ==
  ASSUME NEW n \in UDWtype, NEW d \in 1 .. B - 1
  PROVE  Divides(ByOneWord(high(n), low(n), d), n, d)
<1>1. B \in Nat \ {0} /\ d \in Nat \ {0} /\ n \in Nat
  BY Powers, Words
<1>2. PICK n1 \in 0 .. B - 1, n0 \in 0 .. B - 1 : n1 = high(n) /\ n0 = low(n) /\ n = n1 * B + n0
  BY Words
<1> HIDE DEF B
<1>3. CASE d > n1
  <2> DividesWords(n1, n0, d)
    BY <1>1, <1>3, Instruction
  <2>1. PICK q \in 0 .. B - 1, r \in 0 .. d - 1 :
           n1 * B + n0 = q * d + r /\ udiv_qrnnd(n1, n0, d) = Answer(q, r)
    BY DEF DividesWords
  <2>2. Divides(Answer(q, r), n, d)
    BY <1>1, <1>2, <2>1, DividesAs
  <2> QED BY <1>2, <1>3, <2>1, <2>2 DEF ByOneWord
<1>4. CASE ~(d > n1)
  <2>1. PICK q1 \in 0 .. B - 1, r1 \in 0 .. d - 1 :
           0 * B + n1 = q1 * d + r1 /\ udiv_qrnnd(0, n1, d) = Answer(q1, r1)
    <3> DividesWords(0, n1, d)
      BY <1>1, Instruction
    <3> QED BY DEF DividesWords
  <2>2. PICK q0 \in 0 .. B - 1, r0 \in 0 .. d - 1 :
           r1 * B + n0 = q0 * d + r0 /\ udiv_qrnnd(r1, n0, d) = Answer(q0, r0)
    <3>1. r1 \in Nat /\ r1 < d
      BY <1>1, <2>1
    <3> DividesWords(r1, n0, d)
      BY <1>1, <3>1, Instruction
    <3> QED BY DEF DividesWords
  <2>3. n = (q0 + q1 * B) * d + r0 /\ q0 + q1 * B \in Nat
    <3>1. n1 * B = (q1 * B) * d + r1 * B
      BY <1>1, <2>1
    <3>2. (q0 + q1 * B) * d + r0 = (q1 * B) * d + (q0 * d + r0)
      BY <1>1
    <3>3. q0 + q1 * B \in Nat
      BY <1>1
    <3> QED BY <1>1, <1>2, <2>2, <3>1, <3>2, <3>3
  <2>4. Divides(Answer(q0 + q1 * B, r0), n, d)
    BY <1>1, <2>3, DividesAs
  <2>5. ByOneWord(high(n), low(n), d) = Answer(q0 + q1 * B, r0)
    <3>2. PICK x : x = udiv_qrnnd(0, n1, d)
      OBVIOUS
    <3>3. ~x.trap /\ x.q = q1 /\ x.r = r1
      BY <2>1, <3>2 DEF Answer
    <3>4. PICK y : y = udiv_qrnnd(x.r, n0, d)
      OBVIOUS
    <3>5. ~y.trap /\ y.q = q0 /\ y.r = r0
      <4>1. y = Answer(q0, r0)
        BY <2>2, <3>3, <3>4
      <4> QED BY <4>1 DEF Answer
    <3>6. ByOneWord(n1, n0, d) = IF x.trap \/ y.trap THEN Trapped ELSE Answer(DWunion(y.q, x.q), y.r)
      BY <1>4, <3>2, <3>4, Zenon DEF ByOneWord
    <3>7. ByOneWord(n1, n0, d) = Answer(DWunion(q0, q1), r0)
      BY <3>3, <3>5, <3>6, Zenon
    <3> QED BY <1>2, <3>7 DEF DWunion
  <2> QED BY <2>4, <2>5
<1> QED BY <1>3, <1>4

\* Nothing is divided by zero: the instruction traps.
LEMMA ByZeroTraps ==
  ASSUME NEW n \in UDWtype
  PROVE  udivmoddi4(n, 0) = Trapped
<1>1. B \in Nat \ {0}
  BY Powers
<1>2. high(n) \in 0 .. B - 1 /\ low(n) \in 0 .. B - 1
  BY Words
<1> HIDE DEF B
<1>3. high(0) = 0 /\ low(0) = 0
  BY <1>1, Small DEF high, low
<1>4. udivmoddi4(n, 0) = ByOneWord(high(n), low(n), 0)
  BY <1>1, <1>2, <1>3 DEF udivmoddi4
<1>5. ByOneWord(high(n), low(n), 0) = Trapped
  BY <1>1, <1>2 DEF ByOneWord, udiv_qrnnd, Trapped
<1> QED BY <1>4, <1>5

\* A divisor with its high bit set goes into a long long once or not at all.
LEMMA ByFullWordsDivides ==
  ASSUME NEW n \in UDWtype, NEW d \in UDWtype, high(d) <= high(n), 2 * high(d) >= B
  PROVE  Divides(ByFullWords(n, d), n, d)
<1>1. B \in Nat \ {0} /\ B * B \in Nat /\ n \in Nat /\ d \in Nat /\ n < B * B
  BY Powers, Words
<1>2. PICK n1 \in 0 .. B - 1, n0 \in 0 .. B - 1 : n1 = high(n) /\ n0 = low(n) /\ n = n1 * B + n0
  BY Words
<1>3. PICK d1 \in 0 .. B - 1, d0 \in 0 .. B - 1 : d1 = high(d) /\ d0 = low(d) /\ d = d1 * B + d0
  BY Words
<1> HIDE DEF B
<1>4. n - d < d
  <2>1. B * B <= (2 * d1) * B /\ (2 * d1) * B = d1 * B + d1 * B /\ d1 * B \in Nat
    BY <1>1, <1>3, Grows
  <2> QED BY <1>1, <1>3, <2>1
<1>5. CASE n1 > d1 \/ n0 >= d0
  <2>1. n >= d
    <3>1. CASE n1 > d1
      <4>1. d1 * B + B <= n1 * B /\ d1 * B \in Nat /\ n1 * B \in Nat
        BY <1>1, <3>1, Room
      <4> QED BY <1>1, <1>2, <1>3, <4>1
    <3>2. CASE n0 >= d0
      <4>1. d1 * B <= n1 * B /\ d1 * B \in Nat /\ n1 * B \in Nat
        BY <1>1, <1>2, <1>3, Grows
      <4> QED BY <1>1, <1>2, <1>3, <3>2, <4>1
    <3> QED BY <1>5, <3>1, <3>2
  <2>2. n - d \in 0 .. d - 1 /\ n = 1 * d + (n - d) /\ n - d \in 0 .. B * B - 1
    BY <1>1, <1>4, <2>1
  <2>3. Divides(Answer(1, n - d), n, d)
    BY <1>1, <2>2, DividesAs
  <2>4. sub_ddmmss(n, d) = n - d
    BY <1>1, <2>2, Small DEF sub_ddmmss
  <2>5. ByFullWords(n, d) = Answer(1, n - d)
    BY <1>2, <1>3, <1>5, <2>4 DEF ByFullWords
  <2> QED BY <2>3, <2>5
<1>6. CASE ~(n1 > d1 \/ n0 >= d0)
  <2>1. n1 = d1 /\ n0 < d0
    BY <1>2, <1>3, <1>6
  <2>2. n \in 0 .. d - 1 /\ n = 0 * d + n
    BY <1>1, <1>2, <1>3, <2>1
  <2>3. Divides(Answer(0, n), n, d)
    BY <1>1, <2>2, DividesAs
  <2>4. ByFullWords(n, d) = Answer(0, n)
    BY <1>2, <1>3, <1>6 DEF ByFullWords
  <2> QED BY <2>3, <2>4
<1> QED BY <1>5, <1>6

\* The leading zeros of a word: its high bit stands after them.
LEMMA LeadingZeros ==
  ASSUME NEW x \in 1 .. B - 1
  PROVE  \E n \in 0 .. W_TYPE_SIZE - 1 :
            /\ n = count_leading_zeros(x)
            /\ x \in 2^(W_TYPE_SIZE - n - 1) .. 2^(W_TYPE_SIZE - n) - 1
<1> DEFINE I == {i \in 0 .. W_TYPE_SIZE : x < 2^i}
           Leads(n) == x \in 2^(W_TYPE_SIZE - n - 1) .. 2^(W_TYPE_SIZE - n) - 1
<1>1. W_TYPE_SIZE \in Nat /\ W_TYPE_SIZE >= 2 /\ B \in Nat \ {0} /\ x \in Nat
  BY Powers
<1>2. W_TYPE_SIZE \in I /\ I \in SUBSET Nat
  BY <1>1 DEF B
<1>3. PICK i \in I : \A j \in I : i <= j
  <2> HIDE DEF I
  <2> QED BY <1>2, Least
<1>4. i # 0
  BY <1>1, <1>3, PowersMultiply
<1>5. PICK n \in 0 .. W_TYPE_SIZE - 1 : n = W_TYPE_SIZE - i
  BY <1>1, <1>3, <1>4
<1>6. i = W_TYPE_SIZE - n /\ i - 1 = W_TYPE_SIZE - n - 1 /\ i \in 0 .. W_TYPE_SIZE
      /\ i - 1 \in 0 .. W_TYPE_SIZE
  BY <1>1, <1>3, <1>4, <1>5
<1>7. i - 1 \notin I
  BY <1>3, <1>6
<1>8. Leads(n)
  <2>1. 2^(i - 1) \in Nat /\ 2^i \in Nat
    BY <1>6, Powers
  <2>2. 2^(i - 1) <= x /\ x < 2^i
    BY <1>1, <1>3, <1>6, <1>7, <2>1
  <2>3. x \in 2^(i - 1) .. 2^i - 1
    BY <1>1, <2>1, <2>2
  <2> QED BY <1>6, <2>3
<1>9. count_leading_zeros(x) \in 0 .. W_TYPE_SIZE - 1 /\ Leads(count_leading_zeros(x))
  <2>1. \E k \in 0 .. W_TYPE_SIZE - 1 : Leads(k)
    BY <1>8
  <2>2. count_leading_zeros(x) = CHOOSE k \in 0 .. W_TYPE_SIZE - 1 : Leads(k)
    BY DEF count_leading_zeros
  <2> HIDE DEF Leads
  <2> QED BY <2>1, <2>2
<1> QED BY <1>9

(***************************************************************************)
(* Division of long longs: the divisor's high word is shifted until its    *)
(* high bit is set.  S is 2^bm and T is 2^b, B / S.                        *)
(***************************************************************************)
\* A word that is shifted leaves its high bits behind.
TwoParts(w, S, T) ==
  \E q \in 0 .. S - 1, r \in 0 .. T - 1 :
     /\ w = q * T + r
     /\ w \div T = q
     /\ w % T = r
     /\ AsWord(w * S) = r * S
     /\ r * S + S <= B

LEMMA ShiftedWord ==
  ASSUME NEW S \in Nat \ {0}, NEW T \in Nat \ {0}, T * S = B, NEW w \in 0 .. B - 1
  PROVE  TwoParts(w, S, T)
<1>1. B \in Nat \ {0} /\ w \in Nat
  BY Powers
<1>2. PICK q \in Nat, r \in 0 .. T - 1 : w = q * T + r
  BY <1>1, SplitsNat, Zenon
<1>3. w \div T = q /\ w % T = r
  <2> q \in Int
    OBVIOUS
  <2> QED BY <1>2, QuotientIs, Zenon
<1>4. q < S
  <2> SUFFICES ASSUME S <= q PROVE FALSE
    BY <1>1
  <2>1. S * T <= q * T /\ S * T \in Nat /\ q * T \in Nat /\ S * T = T * S
    BY Grows
  <2> QED BY <1>1, <1>2, <2>1
<1>5. r * S + S <= B /\ r * S \in Nat
  BY Room
<1>6. w * S = q * B + r * S
  <2>1. w * S = q * (T * S) + r * S
    BY <1>2
  <2> QED BY <2>1
<1>7. AsWord(w * S) = r * S
  <2> HIDE DEF B
  <2>1. r * S \in 0 .. B - 1
    BY <1>1, <1>5
  <2> QED BY <1>1, <1>6, <2>1, QuotientIs DEF AsWord
<1>8. q \in 0 .. S - 1
  BY <1>4
<1> QED BY <1>2, <1>3, <1>5, <1>7, <1>8, Zenon DEF TwoParts

\* The estimate is at most one too large: what it takes too much is at most the divisor.
LEMMA OneTooLarge ==
  ASSUME NEW S \in Nat \ {0}, NEW T \in Nat \ {0}, T * S = B, T = 2 \/ T >= 4,
         NEW D1 \in 0 .. B - 1, NEW D0 \in Nat, D0 + S <= B, B <= 2 * D1,
         NEW N2 \in 0 .. S - 1, NEW N1 \in 0 .. B - 1,
         NEW qh \in 0 .. B - 1, NEW rh \in 0 .. D1 - 1, N2 * B + N1 = qh * D1 + rh
  PROVE  qh * D0 <= D1 * B
<1>1. B \in Nat \ {0} /\ B * B \in Nat
  BY Powers
<1> HIDE DEF B
<1>2. B * B <= (2 * D1) * B /\ (2 * D1) * B = D1 * B + D1 * B /\ D1 * B \in Nat
  BY <1>1, Grows
<1>3. CASE T = 2
  <2>1. 2 * D0 <= B
    BY <1>1, <1>3
  <2>2. (2 * D0) * qh <= B * qh /\ B * qh = qh * B /\ qh * B <= B * B
        /\ (2 * D0) * qh = qh * D0 + qh * D0 /\ qh * D0 \in Nat
    BY <1>1, <2>1, Grows
  <2> QED BY <1>1, <1>2, <2>2
<1>4. CASE T >= 4
  <2>1. 4 * S <= B
    BY <1>1, <1>4, Grows
  <2>2. qh * B < (2 * S) * B
    <3>1. N2 * B + B <= S * B /\ N2 * B \in Nat /\ S * B \in Nat
      BY <1>1, Room
    <3>2. B * qh <= (2 * D1) * qh /\ B * qh = qh * B /\ (2 * D1) * qh = qh * D1 + qh * D1 /\ qh * D1 \in Nat
      BY <1>1, Grows
    <3>3. qh * D1 < S * B
      BY <1>1, <3>1, <3>2
    <3>4. (2 * S) * B = S * B + S * B
      BY <1>1
    <3> QED BY <1>1, <3>1, <3>2, <3>3, <3>4
  <2>3. qh <= 2 * S
    <3> SUFFICES ASSUME 2 * S < qh PROVE FALSE
      OBVIOUS
    <3>1. (2 * S) * B <= qh * B /\ (2 * S) * B \in Nat /\ qh * B \in Nat
      BY <1>1, Grows
    <3> QED BY <2>2, <3>1
  <2>4. 2 * qh <= B
    BY <1>1, <2>1, <2>3
  <2>5. D0 <= B
    BY <1>1
  <2>6. (2 * qh) * D0 <= B * D0 /\ (2 * qh) * D0 = qh * D0 + qh * D0 /\ qh * D0 \in Nat
    BY <1>1, <2>4, Grows
  <2>7. D0 * B <= B * B /\ B * D0 = D0 * B /\ B * D0 \in Nat
    BY <1>1, <2>5, Grows
  <2> QED BY <1>1, <1>2, <2>6, <2>7
<1> QED BY <1>3, <1>4

\* A remainder of the shifted numbers is the shifted remainder.
HasRemainder(n, d, S, q, rr) == \E r \in 0 .. d - 1 : rr = r * S /\ n = q * d + r

LEMMA ShiftedRemainder ==
  ASSUME NEW n \in Nat, NEW d \in Nat, NEW S \in Nat \ {0}, NEW q \in Nat, NEW rr \in Nat,
         rr < d * S, n * S = q * (d * S) + rr
  PROVE  HasRemainder(n, d, S, q, rr)
<1>1. PICK r \in Int : r = n - q * d
  OBVIOUS
<1>2. rr = r * S
  <2>1. (n - q * d) * S = n * S - q * (d * S)
    OBVIOUS
  <2> QED BY <1>1, <2>1
<1>3. r >= 0
  <2> SUFFICES ASSUME r < 0 PROVE FALSE
    BY <1>1
  <2>1. PICK e \in Nat : e = -r
    BY <1>1
  <2>2. 1 * S <= e * S /\ e * S \in Nat
    BY <2>1, Grows
  <2>3. r * S = -(e * S)
    BY <2>1
  <2> QED BY <1>2, <2>2, <2>3
<1>4. r < d
  <2> SUFFICES ASSUME d <= r PROVE FALSE
    BY <1>1
  <2>1. d * S <= r * S /\ d * S \in Nat /\ r * S \in Nat
    BY <1>3, Grows
  <2> QED BY <1>2, <2>1
<1> QED BY <1>1, <1>2, <1>3, <1>4 DEF HasRemainder

\* Shifting back.
LEMMA ShiftedBack ==
  ASSUME NEW S \in Nat \ {0}, NEW T \in Nat \ {0}, T * S = B, NEW r \in Nat
  PROVE  DWunion(AsWord(high(r * S) * T) + low(r * S) \div S, high(r * S) \div S) = r
<1>1. B \in Nat \ {0}
  BY Powers
<1>2. PICK rt \in Nat, r2 \in 0 .. T - 1 : r = rt * T + r2
  BY SplitsNat
<1>3. r2 * S \in 0 .. B - 1
  <2>1. r2 * S + S <= T * S /\ r2 * S \in Nat
    BY Room
  <2> QED BY <1>1, <2>1
<1>4. r * S = rt * B + r2 * S
  <2>1. r * S = rt * (T * S) + r2 * S
    BY <1>2
  <2> QED BY <2>1
<1>5. high(r * S) = rt /\ low(r * S) = r2 * S
  BY <1>3, <1>4, WordsAre
<1>6. (r2 * S) \div S = r2
  <2>1. r2 * S = r2 * S + 0 /\ 0 \in 0 .. S - 1
    OBVIOUS
  <2> QED BY <2>1, QuotientIs
<1>7. PICK a \in Nat, c \in 0 .. S - 1 : rt = a * S + c
  BY SplitsNat
<1>8. rt \div S = a
  BY <1>7, QuotientIs
<1>9. AsWord(rt * T) = c * T
  <2>1. rt * T = a * B + c * T
    <3>1. rt * T = a * (T * S) + c * T
      BY <1>7
    <3> QED BY <3>1
  <2>2. c * T \in 0 .. B - 1
    <3>1. c * T + T <= S * T /\ c * T \in Nat /\ S * T = T * S
      BY Room
    <3> QED BY <1>1, <3>1
  <2> HIDE DEF B
  <2> QED BY <1>1, <2>1, <2>2, QuotientIs DEF AsWord
<1>10. (c * T + r2) + a * B = r
  <2>1. (c * T + r2) + a * (T * S) = (a * S + c) * T + r2
    OBVIOUS
  <2> QED BY <1>2, <1>7, <2>1
<1> QED BY <1>5, <1>6, <1>8, <1>9, <1>10 DEF DWunion

\* The two words of a number, shifted left: three words.
ThreeWords(n, h, l, S, T) ==
  \E N2 \in 0 .. S - 1, N1 \in 0 .. B - 1, N0 \in 0 .. B - 1 :
     /\ n * S = (N2 * B + N1) * B + N0
     /\ h \div T = N2
     /\ AsWord(h * S) + l \div T = N1
     /\ AsWord(l * S) = N0
     /\ N0 + S <= B

LEMMA ShiftedLeft ==
  ASSUME NEW S \in Nat \ {0}, NEW T \in Nat \ {0}, T * S = B, NEW h \in 0 .. B - 1, NEW l \in 0 .. B - 1
  PROVE  ThreeWords(h * B + l, h, l, S, T)
<1>1. B \in Nat \ {0}
  BY Powers
<1>2. PICK hq \in 0 .. S - 1, hr \in 0 .. T - 1 :
         h = hq * T + hr /\ h \div T = hq /\ AsWord(h * S) = hr * S /\ hr * S + S <= B
  <2> TwoParts(h, S, T)
    BY ShiftedWord
  <2> QED BY DEF TwoParts
<1>3. PICK lq \in 0 .. S - 1, lr \in 0 .. T - 1 :
         l = lq * T + lr /\ l \div T = lq /\ AsWord(l * S) = lr * S /\ lr * S + S <= B
  <2> TwoParts(l, S, T)
    BY ShiftedWord
  <2> QED BY DEF TwoParts
<1> HIDE DEF B
<1>4. PICK N2 \in 0 .. S - 1, N1 \in 0 .. B - 1, N0 \in 0 .. B - 1 :
         N2 = hq /\ N1 = hr * S + lq /\ N0 = lr * S
  <2>1. hr * S \in Nat /\ lr * S \in Nat
    OBVIOUS
  <2> QED BY <1>1, <1>2, <1>3, <2>1
<1>5. h * S = hq * B + hr * S
  <2>1. h * S = hq * (T * S) + hr * S
    BY <1>2
  <2> QED BY <2>1
<1>6. l * S = lq * B + lr * S
  <2>1. l * S = lq * (T * S) + lr * S
    BY <1>3
  <2> QED BY <2>1
<1>7. (h * B + l) * S = (N2 * B + N1) * B + N0
  <2>1. (h * B + l) * S = (h * S) * B + l * S
    BY <1>1
  <2>2. (h * S) * B = (hq * B) * B + (hr * S) * B
    BY <1>1, <1>5
  <2>3. (N2 * B + N1) * B = (hq * B) * B + (hr * S) * B + lq * B
    BY <1>1, <1>4
  <2> QED BY <1>1, <1>4, <1>6, <2>1, <2>2, <2>3
<1> QED BY <1>2, <1>3, <1>4, <1>7 DEF ThreeWords

\* What is compared word by word is compared.
LEMMA WordByWord ==
  ASSUME NEW m \in Nat, NEW h \in Nat, NEW l \in 0 .. B - 1
  PROVE  (high(m) > h \/ (high(m) = h /\ low(m) > l)) <=> m > h * B + l
<1>1. B \in Nat \ {0}
  BY Powers
<1> HIDE DEF B
<1>2. PICK mh \in Nat, ml \in 0 .. B - 1 : m = mh * B + ml
  BY <1>1, SplitsNat
<1>3. high(m) = mh /\ low(m) = ml
  BY <1>2, WordsAre
<1>4. mh > h => m > h * B + l
  <2> SUFFICES ASSUME mh > h PROVE m > h * B + l
    OBVIOUS
  <2>1. h * B + B <= mh * B /\ h * B \in Nat /\ mh * B \in Nat
    BY <1>1, Room
  <2> QED BY <1>1, <1>2, <2>1
<1>5. h > mh => ~(m > h * B + l)
  <2> SUFFICES ASSUME h > mh PROVE ~(m > h * B + l)
    OBVIOUS
  <2>1. mh * B + B <= h * B /\ h * B \in Nat /\ mh * B \in Nat
    BY <1>1, Room
  <2> QED BY <1>1, <1>2, <2>1
<1>6. h = mh => (ml > l <=> m > h * B + l)
  <2> SUFFICES ASSUME h = mh PROVE ml > l <=> m > h * B + l
    OBVIOUS
  <2>1. h * B \in Nat
    BY <1>1
  <2> QED BY <1>1, <1>2, <2>1
<1>7. h \in Nat /\ mh \in Nat
  OBVIOUS
<1>8. (mh > h \/ (mh = h /\ ml > l)) <=> m > h * B + l
  BY <1>4, <1>5, <1>6, <1>7
<1> QED BY <1>3, <1>8

\* Subtraction of long longs takes back what an earlier one borrowed.
LEMMA Subtracts ==
  ASSUME NEW a \in Nat, NEW m \in Nat, NEW d \in Nat
  PROVE  /\ 0 <= a - m /\ a - m < B * B => sub_ddmmss(a, m) = a - m
         /\ 0 <= a - m + d /\ a - m + d < B * B => sub_ddmmss(a, sub_ddmmss(m, d)) = a - m + d
<1>1. B * B \in Nat \ {0}
  BY Powers
<1>2. PICK M \in Nat \ {0} : M = B * B
  BY <1>1
<1>3. PICK q \in Int, r \in 0 .. M - 1 : m - d = q * M + r
  <2>1. m - d \in Int
    OBVIOUS
  <2> QED BY <1>2, <2>1, Splits
<1>4. (m - d) % M = r
  BY <1>2, <1>3, QuotientIs
<1>5. ASSUME 0 <= a - m, a - m < M PROVE (a - m) % M = a - m
  BY <1>2, <1>5, Small
<1>6. ASSUME 0 <= a - m + d, a - m + d < M PROVE (a - r) % M = a - m + d
  <2>1. a - r = q * M + (a - m + d)
    <3>1. q * M \in Int
      OBVIOUS
    <3> QED BY <1>3, <3>1
  <2>2. a - m + d \in 0 .. M - 1
    BY <1>2, <1>6
  <2> QED BY <1>2, <2>1, <2>2, QuotientIs
<1> QED BY <1>2, <1>4, <1>5, <1>6 DEF sub_ddmmss

\* The estimate, corrected where it takes too much, is the quotient of the shifted numbers.
IsCorrected(N, D, D1, D0, qh, rh, N0, big) ==
  \E q \in Nat, rr \in 0 .. D - 1 :
     /\ N = q * D + rr
     /\ q = IF big THEN AsWord(qh - 1) ELSE qh
     /\ rr = sub_ddmmss(DWunion(N0, rh), IF big THEN sub_ddmmss(qh * D0, DWunion(D0, D1)) ELSE qh * D0)

LEMMA Corrected ==
  ASSUME NEW D \in Nat, NEW D1 \in Nat, NEW D0 \in 0 .. B - 1, D = D1 * B + D0, D <= B * B,
         NEW qh \in 0 .. B - 1, NEW rh \in 0 .. D1 - 1, NEW N0 \in 0 .. B - 1, NEW N \in Nat,
         N = (qh * D1 + rh) * B + N0, qh * D0 <= D1 * B,
         NEW big, big <=> qh * D0 > rh * B + N0
  PROVE  IsCorrected(N, D, D1, D0, qh, rh, N0, big)
<1>1. B \in Nat \ {0} /\ B * B \in Nat
  BY Powers
<1> HIDE DEF B
<1>2. PICK m \in Nat, rest \in Nat : m = qh * D0 /\ rest = rh * B + N0
  BY <1>1
<1>3. rest < D /\ m <= D /\ D1 * B <= D
  <2>1. rh * B + B <= D1 * B /\ rh * B \in Nat /\ D1 * B \in Nat
    BY <1>1, Room
  <2> QED BY <1>1, <1>2, <2>1
<1>4. N = qh * D - m + rest
  <2>1. (qh * D1 + rh) * B + N0 = qh * (D1 * B) + (rh * B + N0)
    BY <1>1
  <2>2. qh * (D1 * B + D0) = qh * (D1 * B) + qh * D0
    BY <1>1
  <2>3. qh * (D1 * B) \in Nat
    BY <1>1
  <2> QED BY <1>2, <2>1, <2>2, <2>3
<1>5. DWunion(N0, rh) = rest /\ DWunion(D0, D1) = D
  <2>1. N0 + rh * B = rh * B + N0 /\ D0 + D1 * B = D1 * B + D0
    BY <1>1
  <2> QED BY <1>2, <2>1 DEF DWunion
<1>6. CASE ~big
  <2>1. m <= rest
    BY <1>2, <1>6
  <2>2. rest - m \in 0 .. D - 1 /\ rest - m < B * B
    BY <1>1, <1>3, <2>1
  <2>3. N = qh * D + (rest - m)
    <3>1. qh * D \in Nat
      OBVIOUS
    <3> QED BY <1>4, <3>1
  <2>4. sub_ddmmss(rest, m) = rest - m
    BY <2>1, <2>2, Subtracts
  <2> QED BY <1>2, <1>5, <1>6, <2>2, <2>3, <2>4 DEF IsCorrected
<1>7. CASE big
  <2>1. m > rest
    BY <1>2, <1>7
  <2>2. rest - m + D \in 0 .. D - 1 /\ rest - m + D < B * B
    BY <1>1, <1>3, <2>1
  <2>3. qh - 1 \in 0 .. B - 1 /\ qh - 1 \in Nat
    <3>1. qh # 0
      <4> SUFFICES ASSUME qh = 0 PROVE FALSE
        OBVIOUS
      <4> QED BY <1>2, <2>1
    <3> QED BY <1>1, <3>1
  <2>4. N = (qh - 1) * D + (rest - m + D)
    <3>1. (qh - 1) * D = qh * D - D /\ qh * D \in Nat
      BY <1>1
    <3> QED BY <1>4, <3>1
  <2>5. sub_ddmmss(rest, sub_ddmmss(m, D)) = rest - m + D
    BY <2>2, Subtracts
  <2>6. AsWord(qh - 1) = qh - 1
    BY <1>1, <2>3, Small DEF AsWord
  <2> QED BY <1>2, <1>5, <1>7, <2>2, <2>3, <2>4, <2>5, <2>6 DEF IsCorrected
<1> QED BY <1>6, <1>7

LEMMA NormalizedDivides ==
  ASSUME NEW n \in UDWtype, NEW d \in UDWtype, NEW bm \in 1 .. W_TYPE_SIZE - 1,
         high(d) \in 2^(W_TYPE_SIZE - bm - 1) .. 2^(W_TYPE_SIZE - bm) - 1
  PROVE  Divides(Normalized(high(n), low(n), high(d), low(d), bm), n, d)
<1>1. B \in Nat \ {0, 1} /\ B * B \in Nat /\ n \in Nat /\ d \in Nat
  BY Powers, Words
<1>2. PICK n1 \in 0 .. B - 1, n0 \in 0 .. B - 1 : n1 = high(n) /\ n0 = low(n) /\ n = n1 * B + n0
  BY Words
<1>3. PICK d1 \in 0 .. B - 1, d0 \in 0 .. B - 1 : d1 = high(d) /\ d0 = low(d) /\ d = d1 * B + d0
  BY Words
<1>4. PICK S \in Nat \ {0, 1}, T \in Nat \ {0}, H \in Nat \ {0} :
         /\ S = 2^bm /\ T = 2^(W_TYPE_SIZE - bm) /\ H = 2^(W_TYPE_SIZE - bm - 1)
         /\ T * S = B /\ T = H * 2
  <2>1. W_TYPE_SIZE \in Nat /\ bm \in 0 .. W_TYPE_SIZE /\ bm # 0
    BY Powers
  <2>2. 2^bm \in Nat \ {0, 1} /\ 2^(W_TYPE_SIZE - bm) \in Nat \ {0} /\ 2^(W_TYPE_SIZE - bm) * 2^bm = B
    BY <2>1, Powers
  <2>3. PICK k \in 0 .. 4 * W_TYPE_SIZE + 1 : k = W_TYPE_SIZE - bm - 1 /\ W_TYPE_SIZE - bm = k + 1
    <3>1. W_TYPE_SIZE - bm - 1 \in 0 .. 4 * W_TYPE_SIZE + 1
          /\ W_TYPE_SIZE - bm = (W_TYPE_SIZE - bm - 1) + 1
      BY <2>1
    <3> QED BY <3>1
  <2>4. 1 \in 0 .. 4 * W_TYPE_SIZE + 1 /\ k + 1 <= 4 * W_TYPE_SIZE + 1
    BY <2>1, <2>3
  <2>5. 2^(k + 1) = 2^k * 2^1 /\ 2^k \in Nat \ {0} /\ 2^1 = 2
    BY <2>3, <2>4, PowersMultiply
  <2>6. PICK S \in Nat \ {0, 1}, T \in Nat \ {0} : S = 2^bm /\ T = 2^(W_TYPE_SIZE - bm)
    BY <2>2
  <2>7. PICK H \in Nat \ {0} : H = 2^k
    BY <2>5
  <2>8. T = H * 2 /\ T * S = B
    BY <2>2, <2>3, <2>5, <2>6, <2>7
  <2> QED BY <2>3, <2>6, <2>7, <2>8
<1>5. d1 \in H .. T - 1
  BY <1>3, <1>4
<1>6. PICK N2 \in 0 .. S - 1, N1 \in 0 .. B - 1, N0 \in 0 .. B - 1 :
         /\ n * S = (N2 * B + N1) * B + N0
         /\ n1 \div T = N2 /\ AsWord(n1 * S) + n0 \div T = N1 /\ AsWord(n0 * S) = N0
  <2>1. S \in Nat \ {0}
    OBVIOUS
  <2>2. ThreeWords(n, n1, n0, S, T)
    BY <1>2, <1>4, <2>1, ShiftedLeft
  <2> QED BY <2>2 DEF ThreeWords
<1>7. PICK D1 \in 0 .. B - 1, D0 \in 0 .. B - 1 :
         /\ d * S = D1 * B + D0 /\ D0 + S <= B /\ B <= 2 * D1
         /\ AsWord(d1 * S) + d0 \div T = D1 /\ AsWord(d0 * S) = D0
  <2>1. PICK D2 \in 0 .. S - 1, D1 \in 0 .. B - 1, D0 \in 0 .. B - 1 :
           /\ d * S = (D2 * B + D1) * B + D0
           /\ d1 \div T = D2 /\ AsWord(d1 * S) + d0 \div T = D1 /\ AsWord(d0 * S) = D0
           /\ D0 + S <= B
    <3>1. S \in Nat \ {0}
      OBVIOUS
    <3>2. ThreeWords(d, d1, d0, S, T)
      BY <1>3, <1>4, <3>1, ShiftedLeft
    <3> QED BY <3>2 DEF ThreeWords
  <2>2. D2 = 0
    BY <1>4, <1>5, <2>1, Small
  <2>3. d * S = D1 * B + D0
    BY <1>1, <2>1, <2>2
  <2>4. B <= 2 * D1
    <3>1. PICK e \in 0 .. S - 1 : d0 \div T = e
      <4>1. TwoParts(d0, S, T)
        BY <1>4, ShiftedWord
      <4> QED BY <4>1 DEF TwoParts
    <3>2. AsWord(d1 * S) = d1 * S
      <4>1. d1 * S + S <= T * S /\ d1 * S \in Nat
        BY <1>4, <1>5, Room
      <4>2. d1 * S \in 0 .. B - 1
        BY <1>1, <1>4, <4>1
      <4> HIDE DEF B
      <4> QED BY <1>1, <4>2, Small DEF AsWord
    <3>3. H * S <= d1 * S /\ H * S \in Nat /\ d1 * S \in Nat
      BY <1>4, <1>5, Grows
    <3>4. (H * 2) * S = 2 * (H * S)
      BY <1>4
    <3> QED BY <1>1, <1>4, <2>1, <3>1, <3>2, <3>3, <3>4
  <2> QED BY <2>1, <2>3, <2>4
<1> HIDE DEF B
<1>8. N2 \in Nat /\ N2 < D1
  <2>1. 1 * S <= H * S /\ H * S \in Nat /\ (H * 2) * S = 2 * (H * S)
    BY <1>4, Grows
  <2> QED BY <1>4, <1>7, <2>1
<1>9. PICK qh \in 0 .. B - 1, rh \in 0 .. D1 - 1 :
         N2 * B + N1 = qh * D1 + rh /\ udiv_qrnnd(N2, N1, D1) = Answer(qh, rh)
  <2>1. D1 \in Nat
    BY <1>1
  <2>2. DividesWords(N2, N1, D1)
    BY <1>8, <2>1, Instruction
  <2> QED BY <2>2 DEF DividesWords
<1>10. qh * D0 <= D1 * B
  <2>1. T = 2 \/ T >= 4
    BY <1>4
  <2>2. D0 \in Nat /\ S \in Nat \ {0} /\ T \in Nat \ {0} /\ T * S = B
    BY <1>1, <1>4
  <2>3. N2 * B + N1 = qh * D1 + rh /\ D0 + S <= B /\ B <= 2 * D1
    BY <1>7, <1>9
  <2> QED BY <2>1, <2>2, <2>3, OneTooLarge
<1>11. PICK big \in BOOLEAN :
          big = (high(qh * D0) > rh \/ (high(qh * D0) = rh /\ low(qh * D0) > N0))
  OBVIOUS
<1>12. big <=> qh * D0 > rh * B + N0
  <2>1. qh * D0 \in Nat /\ rh \in Nat
    BY <1>1
  <2> QED BY <1>11, <2>1, WordByWord
<1>13. d * S \in Nat /\ n * S \in Nat /\ d * S <= B * B
  <2>1. D1 * B + B <= B * B /\ D1 * B \in Nat
    BY <1>1, Room
  <2> QED BY <1>1, <1>4, <1>7, <2>1
<1>14. PICK q \in Nat, rr \in 0 .. d * S - 1 :
          /\ n * S = q * (d * S) + rr
          /\ q = IF big THEN AsWord(qh - 1) ELSE qh
          /\ rr = sub_ddmmss(DWunion(N0, rh), IF big THEN sub_ddmmss(qh * D0, DWunion(D0, D1)) ELSE qh * D0)
  <2>1. n * S = (qh * D1 + rh) * B + N0
    BY <1>6, <1>9
  <2>2. D1 \in Nat
    BY <1>1
  <2>3. d * S = D1 * B + D0
    BY <1>7
  <2>4. IsCorrected(n * S, d * S, D1, D0, qh, rh, N0, big)
    BY <1>10, <1>12, <1>13, <2>1, <2>2, <2>3, Corrected
  <2> QED BY <2>4 DEF IsCorrected
<1>15. PICK r \in 0 .. d - 1 : rr = r * S /\ n = q * d + r
  <2>1. rr \in Nat /\ rr < d * S /\ S \in Nat \ {0}
    BY <1>4, <1>13
  <2>2. HasRemainder(n, d, S, q, rr)
    BY <1>1, <1>14, <2>1, ShiftedRemainder
  <2> QED BY <2>2 DEF HasRemainder
<1>16. DWunion(AsWord(high(rr) * T) + low(rr) \div S, high(rr) \div S) = r
  <2>1. r \in Nat /\ S \in Nat \ {0}
    BY <1>1, <1>4
  <2> QED BY <1>4, <1>15, <2>1, ShiftedBack
<1>17. Normalized(n1, n0, d1, d0, bm) = Answer(q, r)
  <2>1. PICK x : x = udiv_qrnnd(N2, N1, D1)
    OBVIOUS
  <2>2. ~x.trap /\ x.q = qh /\ x.r = rh
    BY <1>9, <2>1 DEF Answer
  <2>3. PICK y : y = IF big THEN sub_ddmmss(qh * D0, DWunion(D0, D1)) ELSE qh * D0
    OBVIOUS
  <2>4. rr = sub_ddmmss(DWunion(N0, rh), y)
    BY <1>14, <2>3
  <2>5. Normalized(n1, n0, d1, d0, bm) =
          IF x.trap THEN Trapped
          ELSE Answer(q, DWunion(AsWord(high(rr) * T) + low(rr) \div S, high(rr) \div S))
    BY <1>4, <1>6, <1>7, <1>11, <1>14, <2>1, <2>2, <2>3, <2>4 DEF Normalized
  <2> QED BY <1>16, <2>2, <2>5
<1>18. Divides(Answer(q, r), n, d)
  BY <1>1, <1>15, DividesAs
<1> QED BY <1>2, <1>3, <1>17, <1>18

\* Division of long longs, unsigned: exact for every divisor but 0.
LEMMA UnsignedDivides ==
  ASSUME NEW n \in UDWtype, NEW d \in UDWtype, d # 0
  PROVE  Divides(udivmoddi4(n, d), n, d)
<1>1. B \in Nat \ {0} /\ n \in Nat /\ d \in Nat
  BY Powers, Words
<1>2. PICK n1 \in 0 .. B - 1, n0 \in 0 .. B - 1 : n1 = high(n) /\ n0 = low(n) /\ n = n1 * B + n0
  BY Words
<1>3. PICK d1 \in 0 .. B - 1, d0 \in 0 .. B - 1 : d1 = high(d) /\ d0 = low(d) /\ d = d1 * B + d0
  BY Words
<1>4. CASE d1 = 0
  <2>1. d0 = d /\ d0 \in 1 .. B - 1
    BY <1>1, <1>3, <1>4
  <2>2. ~(d1 > n1)
    BY <1>1, <1>4
  <2>3. udivmoddi4(n, d) = ByOneWord(high(n), low(n), d0)
    BY <1>2, <1>3, <1>4, <2>2 DEF udivmoddi4
  <2> QED BY <2>1, <2>3, ByOneWordDivides
<1>5. CASE d1 # 0 /\ d1 > n1
  <2>1. udivmoddi4(n, d) = Answer(0, n)
    BY <1>2, <1>3, <1>5 DEF udivmoddi4
  <2>2. n \in 0 .. d - 1 /\ n = 0 * d + n
    <3>1. n1 * B + B <= d1 * B /\ n1 * B \in Nat /\ d1 * B \in Nat
      BY <1>1, <1>5, Room
    <3> QED BY <1>1, <1>2, <1>3, <3>1
  <2> QED BY <1>1, <2>1, <2>2, DividesAs
<1>6. CASE d1 # 0 /\ ~(d1 > n1)
  <2>1. d1 \in 1 .. B - 1 /\ d1 <= n1
    BY <1>1, <1>6
  <2>2. PICK bm \in 0 .. W_TYPE_SIZE - 1 :
           /\ bm = count_leading_zeros(d1)
           /\ d1 \in 2^(W_TYPE_SIZE - bm - 1) .. 2^(W_TYPE_SIZE - bm) - 1
    BY <2>1, LeadingZeros
  <2>3. udivmoddi4(n, d) = IF bm = 0 THEN ByFullWords(n, d)
                           ELSE Normalized(high(n), low(n), high(d), low(d), bm)
    BY <1>2, <1>3, <1>6, <2>2 DEF udivmoddi4
  <2>4. CASE bm = 0
    <3>1. W_TYPE_SIZE \in Nat /\ W_TYPE_SIZE >= 2
      BY Powers
    <3>2. PICK k \in 0 .. 4 * W_TYPE_SIZE + 1 : k = W_TYPE_SIZE - 1 /\ W_TYPE_SIZE = k + 1
      <4>1. W_TYPE_SIZE - 1 \in 0 .. 4 * W_TYPE_SIZE + 1 /\ W_TYPE_SIZE = (W_TYPE_SIZE - 1) + 1
        BY <3>1
      <4> QED BY <4>1
    <3>3. 2^(k + 1) = 2^k * 2^1 /\ 2^k \in Nat \ {0} /\ 2^1 = 2
      <4>1. 1 \in 0 .. 4 * W_TYPE_SIZE + 1 /\ k + 1 <= 4 * W_TYPE_SIZE + 1
        BY <3>1, <3>2
      <4> QED BY <3>2, <4>1, PowersMultiply
    <3>4. B = 2^k * 2
      BY <3>2, <3>3 DEF B
    <3>5. W_TYPE_SIZE - bm - 1 = k
      BY <2>4, <3>1, <3>2
    <3>6. 2^k <= d1
      BY <2>2, <3>3, <3>5
    <3>7. B <= 2 * d1
      <4> HIDE DEF B
      <4> QED BY <3>3, <3>4, <3>6
    <3> QED BY <1>2, <1>3, <2>1, <2>3, <2>4, <3>7, ByFullWordsDivides
  <2>5. CASE bm # 0
    <3>1. bm \in 1 .. W_TYPE_SIZE - 1
      BY <2>5
    <3> QED BY <1>3, <2>2, <2>3, <2>5, <3>1, NormalizedDivides
  <2> QED BY <2>4, <2>5
<1> QED BY <1>4, <1>5, <1>6

(***************************************************************************)
(* Signed division                                                         *)
(***************************************************************************)
\* Half of what a long long holds is not negative.
LEMMA Half ==
  /\ \E k \in Nat \ {0} : k = 2^(W_TYPE_SIZE - 1) /\ B = 2 * k /\ B \div 2 = k
                          /\ (B * B) \div 2 = k * B /\ B * B = 2 * (k * B) /\ k * B \in Nat \ {0}
<1>1. W_TYPE_SIZE \in Nat /\ W_TYPE_SIZE >= 2 /\ B \in Nat \ {0}
  BY Powers
<1>2. PICK j \in 0 .. W_TYPE_SIZE : j = W_TYPE_SIZE - 1 /\ W_TYPE_SIZE - j = 1
  <2>1. W_TYPE_SIZE - 1 \in 0 .. W_TYPE_SIZE /\ W_TYPE_SIZE - (W_TYPE_SIZE - 1) = 1
    BY <1>1
  <2> QED BY <2>1
<1>3. 2^j \in Nat \ {0} /\ 2^(W_TYPE_SIZE - j) * 2^j = B
  BY <1>2, Powers
<1>4. PICK k \in Nat \ {0} : k = 2^j
  BY <1>3
<1>5. B = 2 * k
  BY <1>2, <1>3, <1>4, PowersMultiply
<1> HIDE DEF B
<1>6. (2 * k) \div 2 = k
  BY <1>4
<1>7. B * B = 2 * (k * B) /\ k * B \in Nat \ {0}
  <2>1. (2 * k) * B = 2 * (k * B) /\ k * B \in Nat \ {0}
    BY <1>1, <1>4
  <2> QED BY <1>5, <2>1
<1>8. (2 * (k * B)) \div 2 = k * B
  BY <1>7
<1> QED BY <1>2, <1>4, <1>5, <1>6, <1>7, <1>8

\* Negation, for what lies in a long long.
LEMMA Negated ==
  ASSUME NEW n \in Nat, n <= B * B
  PROVE  n # 0 => negdi2(n) = B * B - n
<1>1. B * B \in Nat \ {0}
  BY Powers
<1>2. PICK M \in Nat \ {0} : M = B * B
  BY <1>1
<1>3. n # 0 => (-n) % M = M - n
  <2> SUFFICES ASSUME n # 0 PROVE (-n) % M = M - n
    OBVIOUS
  <2>1. -n = (-1) * M + (M - n) /\ M - n \in 0 .. M - 1
    BY <1>2
  <2> QED BY <2>1, QuotientIs
<1> QED BY <1>2, <1>3 DEF negdi2

\* The magnitude of a long long is that of the number it stands for.
LEMMA Magnitudes ==
  ASSUME NEW n \in UDWtype
  PROVE  /\ Magnitude(n) \in UDWtype
         /\ AsSigned(n) \in Int
         /\ Magnitude(n) = Absolute(AsSigned(n))
         /\ IsNegative(n) <=> AsSigned(n) < 0
         /\ n # 0 => Magnitude(n) # 0
<1>1. PICK M \in Nat, h \in Nat \ {0} : M = B * B /\ (B * B) \div 2 = h /\ M = 2 * h
  <2>1. B * B \in Nat
    BY Powers
  <2> QED BY <2>1, Half
<1>2. n \in Nat /\ n < M
  BY <1>1, Words
<1>3. IsNegative(n) <=> n >= h
  BY <1>1 DEF IsNegative
<1>4. CASE n >= h
  <2>1. negdi2(n) = M - n
    BY <1>1, <1>2, <1>4, Negated
  <2>2. Magnitude(n) = M - n /\ AsSigned(n) = n - M
    BY <1>1, <1>3, <1>4, <2>1 DEF Magnitude, AsSigned
  <2>3. M - n \in 0 .. M - 1 /\ n - M < 0 /\ -(n - M) = M - n /\ M - n # 0
    BY <1>1, <1>2, <1>4
  <2> QED BY <1>1, <1>3, <1>4, <2>2, <2>3 DEF Absolute, UDWtype
<1>5. CASE ~(n >= h)
  <2>1. Magnitude(n) = n /\ AsSigned(n) = n /\ ~(n < 0)
    BY <1>2, <1>3, <1>5 DEF Magnitude, AsSigned
  <2> QED BY <1>2, <1>3, <1>5, <2>1 DEF Absolute
<1> QED BY <1>4, <1>5

\* A quotient or remainder takes its sign modulo what a long long holds.
LEMMA Signs ==
  ASSUME NEW q \in UDWtype, NEW c \in BOOLEAN
  PROVE  WithSign(c, q) = (IF c THEN -q ELSE q) % (B * B)
<1>1. B * B \in Nat \ {0} /\ q \in 0 .. B * B - 1
  BY Powers DEF UDWtype
<1>2. q % (B * B) = q
  <2> PICK M \in Nat \ {0} : M = B * B
    BY <1>1
  <2> QED BY <1>1, Small
<1> QED BY <1>2 DEF WithSign, negdi2

\* What division of the magnitudes says of the numbers.
LEMMA SignedQuotient ==
  ASSUME NEW x \in Int, NEW y \in Int, y # 0, NEW q \in Nat, NEW r \in 0 .. Absolute(y) - 1,
         Absolute(x) = q * Absolute(y) + r
  PROVE  /\ Truncated(x, y) = IF (x < 0) # (y < 0) THEN -q ELSE q
         /\ x - y * Truncated(x, y) = IF x < 0 THEN -r ELSE r
<1>1. PICK a \in Nat \ {0} : a = Absolute(y) /\ (y < 0 => y = -a) /\ (~(y < 0) => y = a)
  <2>1. Absolute(y) \in Nat \ {0}
    BY DEF Absolute
  <2> QED BY <2>1 DEF Absolute
<1>2. Absolute(x) \div a = q
  <2>1. q \in Int /\ r \in 0 .. a - 1 /\ Absolute(x) = q * a + r
    BY <1>1
  <2> HIDE DEF Absolute
  <2> QED BY <2>1, QuotientIs
<1>3. Truncated(x, y) = IF (x < 0) # (y < 0) THEN -q ELSE q
  <2>1. Truncated(x, y) = IF (x < 0) = (y < 0) THEN q ELSE -q
    BY <1>1, <1>2 DEF Truncated
  <2> QED BY <2>1
<1>4. q * a \in Nat /\ (x < 0 => x = -(q * a) - r) /\ (~(x < 0) => x = q * a + r)
  BY <1>1 DEF Absolute
<1>5. a * q = q * a /\ (-a) * q = -(q * a) /\ a * (-q) = -(q * a) /\ (-a) * (-q) = q * a
  <2>1. \A u, v \in Int : /\ u * v = v * u /\ (-u) * v = -(v * u)
                          /\ u * (-v) = -(v * u) /\ (-u) * (-v) = v * u
    OBVIOUS
  <2> QED BY <2>1
<1>6. CASE x < 0 /\ y < 0
  <2>1. Truncated(x, y) = q
    BY <1>3, <1>6
  <2> QED BY <1>1, <1>3, <1>4, <1>5, <1>6, <2>1
<1>7. CASE x < 0 /\ ~(y < 0)
  <2>1. Truncated(x, y) = -q
    BY <1>3, <1>7
  <2> QED BY <1>1, <1>3, <1>4, <1>5, <1>7, <2>1
<1>8. CASE ~(x < 0) /\ y < 0
  <2>1. Truncated(x, y) = -q
    BY <1>3, <1>8
  <2> QED BY <1>1, <1>3, <1>4, <1>5, <1>8, <2>1
<1>9. CASE ~(x < 0) /\ ~(y < 0)
  <2>1. Truncated(x, y) = q
    BY <1>3, <1>9
  <2> QED BY <1>1, <1>3, <1>4, <1>5, <1>9, <2>1
<1> QED BY <1>6, <1>7, <1>8, <1>9

\* The functions of division return what C says, unless the divisor is 0:
\* then the instruction traps.
LEMMA DivisionIsExact ==
  ASSUME NEW f \in {"udivdi3", "umoddi3", "divdi3", "moddi3"}, NEW u \in UDWtype, NEW v \in UDWtype
  PROVE  /\ v = 0 => divide(f, u, v).trap
         /\ v # 0 => ~divide(f, u, v).trap /\ divide(f, u, v).q = Exact(f, u, v)
<1>1. PICK a, b : a = Magnitude(u) /\ b = Magnitude(v)
  OBVIOUS
<1>2. a \in UDWtype /\ b \in UDWtype /\ AsSigned(u) \in Int /\ AsSigned(v) \in Int
      /\ a = Absolute(AsSigned(u)) /\ b = Absolute(AsSigned(v))
      /\ (IsNegative(u) <=> AsSigned(u) < 0) /\ (IsNegative(v) <=> AsSigned(v) < 0)
      /\ (v # 0 => b # 0)
  BY <1>1, Magnitudes
<1>3. CASE v = 0
  <2>1. b = 0
    <3>1. B * B \in Nat /\ B * B >= 2
      BY Powers
    <3>2. ~IsNegative(0)
      <4>1. \E h \in Nat \ {0} : (B * B) \div 2 = h
        BY Half
      <4> QED BY <4>1 DEF IsNegative
    <3> QED BY <1>1, <1>3, <3>2 DEF Magnitude
  <2>2. udivmoddi4(u, v) = Trapped /\ udivmoddi4(a, b) = Trapped
    BY <1>2, <1>3, <2>1, ByZeroTraps
  <2>3. divide(f, u, v).trap
    BY <1>1, <2>2 DEF divide, Trapped
  <2> QED BY <1>3, <2>3
<1>4. CASE v # 0
  <2>1. PICK x : x = udivmoddi4(u, v)
    OBVIOUS
  <2>2. x = Answer(u \div v, u % v)
    BY <1>4, <2>1, UnsignedDivides DEF Divides
  <2>3. PICK y : y = udivmoddi4(a, b)
    OBVIOUS
  <2>4. y = Answer(a \div b, a % b)
    BY <1>2, <1>4, <2>3, UnsignedDivides DEF Divides
  <2>5. a \in Nat /\ b \in Nat \ {0}
    BY <1>2, <1>4, Words
  <2>6. PICK q \in Nat, r \in 0 .. b - 1 : a = q * b + r
    BY <2>5, SplitsNat
  <2>7. a \div b = q /\ a % b = r
    <3>1. q \in Int
      OBVIOUS
    <3> QED BY <2>5, <2>6, <3>1, QuotientIs
  <2>8. q \in UDWtype /\ r \in UDWtype
    <3>1. B * B \in Nat /\ a < B * B /\ b < B * B
      BY <1>2, Powers, Words
    <3>2. q * 1 <= q * b
      <4>1. 1 * q <= b * q /\ 1 * q = q * 1 /\ b * q = q * b
        BY <2>5, Grows
      <4> QED BY <4>1
    <3>3. q * b \in Nat
      BY <2>5
    <3>4. PICK M \in Nat : M = B * B
      BY <3>1
    <3>5. q \in 0 .. M - 1 /\ r \in 0 .. M - 1
      BY <2>5, <2>6, <3>1, <3>2, <3>3, <3>4
    <3> QED BY <3>4, <3>5 DEF UDWtype
  <2>9. PICK X \in Int, Y \in Int : X = AsSigned(u) /\ Y = AsSigned(v)
    BY <1>2
  <2>10. Y # 0
    BY <1>2, <1>4, <2>9 DEF Absolute
  <2>11. /\ Truncated(X, Y) = IF (X < 0) # (Y < 0) THEN -q ELSE q
         /\ X - Y * Truncated(X, Y) = IF X < 0 THEN -r ELSE r
    <3>1. r \in 0 .. Absolute(Y) - 1 /\ Absolute(X) = q * Absolute(Y) + r
      BY <1>2, <2>6, <2>9
    <3> QED BY <2>10, <3>1, SignedQuotient
  <2>12. PICK c \in BOOLEAN, e \in BOOLEAN : c = (IsNegative(u) # IsNegative(v)) /\ e = IsNegative(u)
    <3>1. (IsNegative(u) # IsNegative(v)) \in BOOLEAN
      OBVIOUS
    <3>2. IsNegative(u) \in BOOLEAN
      BY DEF IsNegative
    <3> QED BY <3>1, <3>2
  <2>13. c = ((X < 0) # (Y < 0)) /\ e = (X < 0)
    BY <1>2, <2>9, <2>12 DEF IsNegative
  <2>14. Truncated(X, Y) % (B * B) = WithSign(c, q)
    <3>1. WithSign(c, q) = (IF c THEN -q ELSE q) % (B * B)
      BY <2>8, Signs
    <3> QED BY <2>11, <2>13, <3>1, Zenon
  <2>15. (X - Y * Truncated(X, Y)) % (B * B) = WithSign(e, r)
    <3>1. WithSign(e, r) = (IF e THEN -r ELSE r) % (B * B)
      BY <2>8, Signs
    <3> QED BY <2>11, <2>13, <3>1, Zenon
  <2>16. CASE f = "udivdi3"
    BY <1>4, <2>1, <2>2, <2>16 DEF divide, Exact, Answer
  <2>17. CASE f = "umoddi3"
    BY <1>4, <2>1, <2>2, <2>17 DEF divide, Exact, Answer
  <2>18. CASE f = "divdi3"
    <3>1. divide(f, u, v) = [y EXCEPT !.q = WithSign(c, y.q)]
      BY <1>1, <2>3, <2>12, <2>18 DEF divide
    <3>2. divide(f, u, v).q = WithSign(c, q) /\ ~divide(f, u, v).trap
      BY <2>4, <2>7, <3>1 DEF Answer
    <3>3. Exact(f, u, v) = Truncated(X, Y) % (B * B)
      BY <2>9, <2>18 DEF Exact
    <3> QED BY <1>4, <2>14, <3>2, <3>3
  <2>19. CASE f = "moddi3"
    <3>1. divide(f, u, v) = [y EXCEPT !.q = WithSign(e, y.r)]
      BY <1>1, <2>3, <2>12, <2>19 DEF divide
    <3>2. divide(f, u, v).q = WithSign(e, r) /\ ~divide(f, u, v).trap
      BY <2>4, <2>7, <3>1 DEF Answer
    <3>3. Exact(f, u, v) = (X - Y * Truncated(X, Y)) % (B * B)
      BY <2>9, <2>19 DEF Exact
    <3> QED BY <1>4, <2>15, <3>2, <3>3
  <2> QED BY <2>16, <2>17, <2>18, <2>19
<1> QED BY <1>3, <1>4

(***************************************************************************)
(* Shifts                                                                  *)
(***************************************************************************)
\* The sizes a shift by a distance below a word's size deals with.
LEMMA Distances ==
  ASSUME NEW b \in 0 .. W_TYPE_SIZE
  PROVE  \E S \in Nat \ {0}, T \in Nat \ {0} :
            S = 2^b /\ T = 2^(W_TYPE_SIZE - b) /\ T * S = B /\ S = 2^(W_TYPE_SIZE - (W_TYPE_SIZE - b))
<1>1. 2^b \in Nat \ {0} /\ 2^(W_TYPE_SIZE - b) \in Nat \ {0} /\ 2^(W_TYPE_SIZE - b) * 2^b = B
  BY Powers
<1>2. W_TYPE_SIZE - (W_TYPE_SIZE - b) = b
  BY Powers
<1> QED BY <1>1, <1>2

\* A distance of a word's size and more: a word and the rest.
LEMMA FarDistances ==
  ASSUME NEW b \in W_TYPE_SIZE .. 2 * W_TYPE_SIZE - 1
  PROVE  \E k \in 0 .. W_TYPE_SIZE - 1 :
            /\ k = b - W_TYPE_SIZE /\ 2^b = 2^k * B /\ 2^k \in Nat \ {0}
            /\ 2 * W_TYPE_SIZE - b = W_TYPE_SIZE - k
<1>1. W_TYPE_SIZE \in Nat /\ W_TYPE_SIZE >= 2
  BY Powers
<1>2. PICK k \in 0 .. W_TYPE_SIZE - 1 :
         k = b - W_TYPE_SIZE /\ b = k + W_TYPE_SIZE /\ 2 * W_TYPE_SIZE - b = W_TYPE_SIZE - k
  <2>1. b - W_TYPE_SIZE \in 0 .. W_TYPE_SIZE - 1 /\ b = (b - W_TYPE_SIZE) + W_TYPE_SIZE
        /\ 2 * W_TYPE_SIZE - b = W_TYPE_SIZE - (b - W_TYPE_SIZE)
    BY <1>1
  <2> QED BY <2>1
<1>3. k \in 0 .. 4 * W_TYPE_SIZE + 1 /\ W_TYPE_SIZE \in 0 .. 4 * W_TYPE_SIZE + 1
      /\ k + W_TYPE_SIZE <= 4 * W_TYPE_SIZE + 1
  BY <1>1
<1>4. 2^(k + W_TYPE_SIZE) = 2^k * 2^W_TYPE_SIZE /\ 2^k \in Nat \ {0}
  BY <1>3, PowersMultiply
<1> QED BY <1>2, <1>4 DEF B

\* The words of a number, shifted right, are those of the number shifted right.
\* h is the high word, as a number of either sign.
IsShifted(h, l, w, b) ==
  \E e \in Int, m \in 0 .. B - 1 :
     /\ h \div 2^b = e
     /\ RightWords(l, w, b) = m
     /\ (h * B + l) \div 2^b = e * B + m

LEMMA ShiftsRight ==
  ASSUME NEW b \in 0 .. W_TYPE_SIZE, NEW h \in Int, NEW l \in 0 .. B - 1,
         NEW w \in 0 .. B - 1, NEW z \in Int, w = h + z * B
  PROVE  IsShifted(h, l, w, b)
<1>1. B \in Nat \ {0}
  BY Powers
<1>2. PICK S \in Nat \ {0}, T \in Nat \ {0} :
         S = 2^b /\ T = 2^(W_TYPE_SIZE - b) /\ T * S = B /\ S = 2^(W_TYPE_SIZE - (W_TYPE_SIZE - b))
  BY Distances
<1> HIDE DEF B
<1>3. PICK e \in Int, f \in 0 .. S - 1 : h = e * S + f
  BY Splits
<1>4. h \div S = e
  BY <1>3, QuotientIs
<1>5. w % S = f
  <2>1. z * (T * S) = (z * T) * S /\ (e + z * T) * S = e * S + (z * T) * S /\ e + z * T \in Int
    OBVIOUS
  <2>2. w = (e + z * T) * S + f
    BY <1>2, <1>3, <2>1
  <2>3. PICK x \in Int : x = e + z * T
    BY <2>1
  <2>4. w = x * S + f
    BY <2>2, <2>3
  <2> QED BY <2>4, QuotientIs, Zenon
<1>6. PICK lq \in 0 .. T - 1, lr \in 0 .. S - 1 : l = lq * S + lr /\ l \div S = lq
  <2>1. S * T = B
    BY <1>2
  <2>2. TwoParts(l, T, S)
    BY <2>1, ShiftedWord
  <2> QED BY <2>2 DEF TwoParts
<1>7. PICK m \in 0 .. B - 1 : m = f * T + lq
  <2>1. f * T + lq \in 0 .. S * T - 1 /\ S * T = T * S
    BY TwoDigits
  <2> QED BY <1>2, <2>1
<1>8. RightWords(l, w, b) = m
  <2>1. f * T \in Nat /\ lq + f * T = f * T + lq
    OBVIOUS
  <2>2. RightWords(l, w, b) = l \div S + (w % S) * T
    BY <1>2 DEF RightWords, Shl
  <2> QED BY <1>5, <1>6, <1>7, <2>1, <2>2
<1>9. h * B + l = (e * B + m) * S + lr
  <2>1. f * B = (f * T) * S
    <3>1. f * (T * S) = (f * T) * S
      OBVIOUS
    <3> QED BY <1>2, <3>1
  <2>2. (e * S + f) * B = (e * B) * S + f * B
    BY <1>1
  <2>3. (e * B + m) * S = (e * B) * S + ((f * T) * S + lq * S)
    <3>1. (e * B + (f * T + lq)) * S = (e * B) * S + ((f * T) * S + lq * S)
      BY <1>1
    <3> QED BY <1>7, <3>1
  <2> QED BY <1>1, <1>3, <1>6, <2>1, <2>2, <2>3
<1>10. (h * B + l) \div S = e * B + m
  <2>1. e * B + m \in Int
    BY <1>1
  <2> QED BY <1>9, <2>1, QuotientIs
<1> QED BY <1>2, <1>4, <1>8, <1>10 DEF IsShifted

\* A signed number's high word, as a number of either sign.
SignedHigh(w) == IF w >= B \div 2 THEN w - B ELSE w

LEMMA SignedHighWord ==
  ASSUME NEW a \in UDWtype
  PROVE  \E h \in Int, z \in {0, 1}, k \in Nat \ {0} :
            /\ h = SignedHigh(high(a)) /\ high(a) = h + z * B
            /\ AsSigned(a) = h * B + low(a)
            /\ B = 2 * k /\ k = 2^(W_TYPE_SIZE - 1) /\ -k <= h /\ h < k
<1>1. PICK w \in 0 .. B - 1, l \in 0 .. B - 1 : w = high(a) /\ l = low(a) /\ a = w * B + l
  BY Words
<1>2. PICK k \in Nat \ {0} :
         k = 2^(W_TYPE_SIZE - 1) /\ B = 2 * k /\ B \div 2 = k
         /\ (B * B) \div 2 = k * B /\ B * B = 2 * (k * B) /\ k * B \in Nat \ {0}
  BY Half
<1>3. B \in Nat \ {0}
  BY Powers
<1> HIDE DEF B
<1>4. CASE w >= k
  <2>1. k * B <= w * B /\ w * B \in Nat
    BY <1>2, <1>3, <1>4, Grows
  <2>2. IsNegative(a)
    BY <1>1, <1>2, <2>1 DEF IsNegative
  <2>3. AsSigned(a) = (w - B) * B + l
    <3>1. (w - B) * B = w * B - B * B
      BY <1>3
    <3> QED BY <1>1, <1>2, <2>1, <2>2, <3>1 DEF AsSigned
  <2>4. SignedHigh(w) = w - B
    BY <1>2, <1>4 DEF SignedHigh
  <2>5. w - B \in Int /\ w = (w - B) + 1 * B /\ -k <= w - B /\ w - B < k
    BY <1>2, <1>3, <1>4
  <2> QED BY <1>1, <1>2, <2>3, <2>4, <2>5
<1>5. CASE ~(w >= k)
  <2>1. w * B + B <= k * B /\ w * B \in Nat
    BY <1>2, <1>3, <1>5, Room
  <2>2. ~IsNegative(a)
    BY <1>1, <1>2, <1>3, <2>1 DEF IsNegative
  <2>3. AsSigned(a) = w * B + l
    BY <1>1, <2>2 DEF AsSigned
  <2>4. SignedHigh(w) = w
    BY <1>2, <1>5 DEF SignedHigh
  <2>5. w \in Int /\ w = w + 0 * B /\ -k <= w /\ w < k
    BY <1>2, <1>3, <1>5
  <2> QED BY <1>1, <1>2, <2>3, <2>4, <2>5
<1> QED BY <1>4, <1>5

\* Shifts to the right by less than a word, signed or not.
LEMMA ShiftsNear ==
  ASSUME NEW a \in UDWtype, NEW b \in 1 .. W_TYPE_SIZE - 1
  PROVE  /\ shift("shrdi3", a, b) = a \div 2^b
         /\ shift("sardi3", a, b) = (AsSigned(a) \div 2^b) % (B * B)
<1>1. B \in Nat \ {0} /\ B * B \in Nat \ {0} /\ W_TYPE_SIZE \in Nat
  BY Powers
<1>2. PICK w \in 0 .. B - 1, l \in 0 .. B - 1 : w = high(a) /\ l = low(a) /\ a = w * B + l
  BY Words
<1>3. b # 0 /\ ~(b >= W_TYPE_SIZE) /\ b \in 0 .. W_TYPE_SIZE
  BY <1>1
<1> HIDE DEF B
<1>4. shift("shrdi3", a, b) = a \div 2^b
  <2>1. w = w + 0 * B /\ w \in Int
    BY <1>1
  <2>2. PICK e \in Int, m \in 0 .. B - 1 :
           w \div 2^b = e /\ RightWords(l, w, b) = m /\ (w * B + l) \div 2^b = e * B + m
    <3>1. 0 \in Int
      OBVIOUS
    <3>2. IsShifted(w, l, w, b)
      BY <1>3, <2>1, <3>1, ShiftsRight
    <3> QED BY <3>2 DEF IsShifted
  <2>3. shift("shrdi3", a, b) = DWunion(m, e)
    BY <1>2, <1>3, <2>2 DEF shift
  <2>4. m + e * B = e * B + m
    BY <1>1
  <2> QED BY <1>2, <2>2, <2>3, <2>4 DEF DWunion
<1>5. shift("sardi3", a, b) = (AsSigned(a) \div 2^b) % (B * B)
  <2>1. PICK h \in Int, z \in {0, 1} :
           /\ h = SignedHigh(w) /\ w = h + z * B /\ AsSigned(a) = h * B + l
    BY <1>2, SignedHighWord
  <2>2. PICK e \in Int, m \in 0 .. B - 1 :
           h \div 2^b = e /\ RightWords(l, w, b) = m /\ (h * B + l) \div 2^b = e * B + m
    <3>1. z \in Int
      OBVIOUS
    <3>2. IsShifted(h, l, w, b)
      BY <1>3, <2>1, <3>1, ShiftsRight
    <3> QED BY <3>2 DEF IsShifted
  <2>3. Sar(w, b) = AsWord(e)
    BY <2>1, <2>2 DEF Sar, SignedHigh
  <2>4. shift("sardi3", a, b) = DWunion(m, AsWord(e))
    BY <1>2, <1>3, <2>2, <2>3 DEF shift
  <2>5. PICK p \in Int, r \in 0 .. B - 1 : e = p * B + r
    BY <1>1, Splits
  <2>6. AsWord(e) = r
    BY <1>1, <2>5, QuotientIs DEF AsWord
  <2>7. (e * B + m) % (B * B) = r * B + m
    <3>1. e * B + m = p * (B * B) + (r * B + m)
      <4>1. (p * B + r) * B = p * (B * B) + r * B
        BY <1>1
      <4> QED BY <1>1, <2>5, <4>1
    <3>2. r * B + m \in 0 .. B * B - 1
      BY <1>1, TwoDigits
    <3>3. PICK M \in Nat \ {0} : M = B * B
      BY <1>1
    <3>4. PICK y \in 0 .. M - 1 : y = r * B + m
      BY <3>2, <3>3
    <3>5. (p * M + y) % M = y
      BY QuotientIs
    <3> QED BY <3>1, <3>3, <3>4, <3>5, Zenon
  <2>8. m + r * B = r * B + m
    BY <1>1
  <2> QED BY <2>1, <2>2, <2>4, <2>6, <2>7, <2>8 DEF DWunion
<1> QED BY <1>4, <1>5

\* Shifts to the right by a word and more.
LEMMA ShiftsFar ==
  ASSUME NEW a \in UDWtype, NEW b \in W_TYPE_SIZE .. 2 * W_TYPE_SIZE - 1
  PROVE  /\ shift("shrdi3", a, b) = a \div 2^b
         /\ shift("sardi3", a, b) = (AsSigned(a) \div 2^b) % (B * B)
<1>1. B \in Nat \ {0} /\ B * B \in Nat \ {0} /\ W_TYPE_SIZE \in Nat /\ W_TYPE_SIZE >= 2
  BY Powers
<1>2. PICK w \in 0 .. B - 1, l \in 0 .. B - 1 : w = high(a) /\ l = low(a) /\ a = w * B + l
  BY Words
<1>3. b # 0 /\ b >= W_TYPE_SIZE
  BY <1>1
<1>4. PICK k \in 0 .. W_TYPE_SIZE - 1 : k = b - W_TYPE_SIZE /\ 2^b = 2^k * B /\ 2^k \in Nat \ {0}
  BY FarDistances
<1>5. PICK K \in Nat \ {0} : K = 2^k /\ 2^b = K * B
  BY <1>4
<1> HIDE DEF B
<1>6. ASSUME NEW h \in Int
      PROVE  (h * B + l) \div (K * B) = h \div K
  <2>1. h * B + l \in Int
    BY <1>1
  <2>2. (h * B + l) \div (K * B) = ((h * B + l) \div B) \div K
    BY <1>1, <2>1, TwiceDivided
  <2>3. (h * B + l) \div B = h
    BY <1>1, QuotientIs
  <2> QED BY <2>2, <2>3
<1>7. shift("shrdi3", a, b) = a \div 2^b
  <2>1. a \div 2^b = w \div K
    <3> w \in Int
      BY <1>1
    <3> QED BY <1>2, <1>5, <1>6
  <2>2. shift("shrdi3", a, b) = DWunion(w \div K, 0)
    BY <1>2, <1>3, <1>4, <1>5 DEF shift
  <2>3. w \div K \in Int /\ (w \div K) + 0 * B = w \div K
    BY <1>1
  <2> QED BY <2>1, <2>2, <2>3 DEF DWunion
<1>8. shift("sardi3", a, b) = (AsSigned(a) \div 2^b) % (B * B)
  <2>1. PICK h \in Int, j \in Nat \ {0} :
           /\ h = SignedHigh(w) /\ AsSigned(a) = h * B + l
           /\ B = 2 * j /\ j = 2^(W_TYPE_SIZE - 1) /\ -j <= h /\ h < j
    BY <1>2, SignedHighWord
  <2>2. AsSigned(a) \div 2^b = h \div K
    BY <1>5, <1>6, <2>1
  <2>3. PICK e \in Int, r \in 0 .. K - 1 : h = e * K + r /\ h \div K = e
    <3>1. PICK e \in Int, r \in 0 .. K - 1 : h = e * K + r
      BY Splits
    <3> QED BY <3>1, QuotientIs
  <2>4. PICK s \in {-1, 0} : h \div j = s /\ (s = 0 => 0 <= e /\ e < B) /\ (s = -1 => -B <= e /\ e < 0)
    <3>1. CASE h >= 0
      <4>1. h \div j = 0
        BY <2>1, <3>1, Small
      <4>2. 0 <= e
        <5> SUFFICES ASSUME e < 0 PROVE FALSE
          OBVIOUS
        <5>1. PICK x \in Nat : x = -e /\ 1 <= x
          BY <2>3
        <5>2. 1 * K <= x * K /\ x * K \in Nat /\ e * K = -(x * K)
          BY <5>1, Grows
        <5> QED BY <2>3, <3>1, <5>2
      <4>3. e < B
        <5>1. e * 1 <= e * K /\ e * K \in Nat
          <6>1. 1 * e <= K * e /\ K * e = e * K /\ 1 * e = e * 1 /\ e * K \in Nat
            BY <4>2, Grows
          <6> QED BY <6>1
        <5> QED BY <1>1, <2>1, <2>3, <4>2, <5>1
      <4> QED BY <4>1, <4>2, <4>3
    <3>2. CASE h < 0
      <4>1. h \div j = -1
        <5>1. h = (-1) * j + (h + j) /\ h + j \in 0 .. j - 1
          BY <2>1, <3>2
        <5> QED BY <5>1, QuotientIs
      <4>2. e < 0
        <5> SUFFICES ASSUME e >= 0 PROVE FALSE
          OBVIOUS
        <5>1. e * K \in Nat
          OBVIOUS
        <5> QED BY <2>3, <3>2, <5>1
      <4>3. -B <= e
        <5>1. PICK x \in Nat : e = -x /\ 1 <= x
          BY <4>2
        <5>2. PICK y \in Nat : x = y + 1
          <6>1. x - 1 \in Nat /\ x = (x - 1) + 1
            BY <5>1
          <6> QED BY <6>1
        <5>3. e * K = -(y * K) - K /\ y * K \in Nat
          BY <5>1, <5>2
        <5>4. y * 1 <= y * K
          <6>1. 1 * y <= K * y /\ K * y = y * K /\ 1 * y = y * 1
            BY Grows
          <6> QED BY <6>1
        <5>5. y * K <= j
          <6>1. PICK Y \in Nat : Y = y * K
            BY <5>3
          <6>2. h = -Y - K + r
            BY <2>3, <5>3, <6>1
          <6>3. -j <= h
            BY <2>1
          <6>4. Y <= j
            BY <6>2, <6>3
          <6> QED BY <6>1, <6>4
        <5> QED BY <1>1, <2>1, <5>1, <5>2, <5>4, <5>5
      <4> QED BY <4>1, <4>2, <4>3
    <3> QED BY <3>1, <3>2
  <2>5. shift("sardi3", a, b) = DWunion(AsWord(e), AsWord(s))
    <3>1. Sar(w, k) = AsWord(e) /\ Sar(w, W_TYPE_SIZE - 1) = AsWord(s)
      BY <1>5, <2>1, <2>3, <2>4 DEF Sar, SignedHigh
    <3> QED BY <1>2, <1>3, <1>4, <3>1 DEF shift
  <2>6. CASE s = 0
    <3>1. AsWord(e) = e /\ AsWord(s) = 0
      BY <1>1, <2>4, <2>6, Small DEF AsWord
    <3>2. e % (B * B) = e
      <4>1. B <= B * B
        <5>1. 1 * B <= B * B /\ 1 * B = B
          BY <1>1, Grows
        <5> QED BY <5>1
      <4>2. PICK M \in Nat \ {0} : M = B * B
        BY <1>1
      <4> QED BY <1>1, <2>4, <2>6, <4>1, <4>2, Small
    <3>3. e + 0 * B = e
      BY <1>1
    <3> QED BY <2>2, <2>3, <2>5, <3>1, <3>2, <3>3 DEF DWunion
  <2>7. CASE s = -1
    <3>1. AsWord(e) = e + B
      <4>1. e = (-1) * B + (e + B) /\ e + B \in 0 .. B - 1
        BY <1>1, <2>4, <2>7
      <4> QED BY <1>1, <4>1, QuotientIs DEF AsWord
    <3>2. AsWord(-1) = B - 1
      <4>1. -1 = (-1) * B + (B - 1) /\ B - 1 \in 0 .. B - 1
        BY <1>1
      <4> QED BY <1>1, <4>1, QuotientIs DEF AsWord
    <3>3. (e + B) + (B - 1) * B = e + B * B
      BY <1>1
    <3>4. e % (B * B) = e + B * B
      <4>1. B <= B * B
        <5>1. 1 * B <= B * B /\ 1 * B = B
          BY <1>1, Grows
        <5> QED BY <5>1
      <4>2. PICK M \in Nat \ {0} : M = B * B
        BY <1>1
      <4>3. e = (-1) * M + (e + M) /\ e + M \in 0 .. M - 1
        BY <1>1, <2>4, <2>7, <4>1, <4>2
      <4>4. e % M = e + M
        <5>1. PICK y \in 0 .. M - 1 : y = e + M /\ e = (-1) * M + y
          BY <4>3
        <5>2. ((-1) * M + y) % M = y
          BY QuotientIs
        <5> QED BY <5>1, <5>2, Zenon
      <4> QED BY <4>2, <4>4
    <3> QED BY <2>2, <2>3, <2>5, <2>7, <3>1, <3>2, <3>3, <3>4 DEF DWunion
  <2> QED BY <2>6, <2>7
<1> QED BY <1>7, <1>8

\* Shifts to the left: the number's low bits are what is left of it.
LEMMA ShiftsLeft ==
  ASSUME NEW a \in UDWtype, NEW b \in 1 .. 2 * W_TYPE_SIZE - 1
  PROVE  shift("shldi3", a, b) = (a % 2^(2 * W_TYPE_SIZE - b)) * 2^b
<1>1. B \in Nat \ {0} /\ W_TYPE_SIZE \in Nat /\ W_TYPE_SIZE >= 2
  BY Powers
<1>2. PICK w \in 0 .. B - 1, l \in 0 .. B - 1 : w = high(a) /\ l = low(a) /\ a = w * B + l
  BY Words
<1>3. CASE b < W_TYPE_SIZE
  <2>1. b \in 0 .. W_TYPE_SIZE /\ ~(b >= W_TYPE_SIZE) /\ b # 0
    BY <1>1, <1>3
  <2>2. PICK S \in Nat \ {0}, T \in Nat \ {0} : S = 2^b /\ T = 2^(W_TYPE_SIZE - b) /\ T * S = B
    BY <2>1, Distances
  <2>3. 2^(2 * W_TYPE_SIZE - b) = T * B
    <3>1. PICK i \in 0 .. 4 * W_TYPE_SIZE + 1 :
             i = W_TYPE_SIZE - b /\ 2 * W_TYPE_SIZE - b = i + W_TYPE_SIZE /\ i + W_TYPE_SIZE <= 4 * W_TYPE_SIZE + 1
      <4>1. W_TYPE_SIZE - b \in 0 .. 4 * W_TYPE_SIZE + 1
            /\ 2 * W_TYPE_SIZE - b = (W_TYPE_SIZE - b) + W_TYPE_SIZE
            /\ (W_TYPE_SIZE - b) + W_TYPE_SIZE <= 4 * W_TYPE_SIZE + 1
        BY <1>1, <2>1
      <4> QED BY <4>1
    <3>2. W_TYPE_SIZE \in 0 .. 4 * W_TYPE_SIZE + 1
      BY <1>1
    <3>3. 2^(i + W_TYPE_SIZE) = 2^i * 2^W_TYPE_SIZE
      BY <3>1, <3>2, PowersMultiply
    <3> QED BY <2>2, <3>1, <3>3 DEF B
  <2> HIDE DEF B
  <2>4. PICK hq \in 0 .. S - 1, hr \in 0 .. T - 1 : w = hq * T + hr /\ w % T = hr
    <3>1. TwoParts(w, S, T)
      BY <2>2, ShiftedWord
    <3> QED BY <3>1 DEF TwoParts
  <2>5. PICK lq \in 0 .. S - 1, lr \in 0 .. T - 1 : l = lq * T + lr /\ l % T = lr /\ l \div T = lq
    <3>1. TwoParts(l, S, T)
      BY <2>2, ShiftedWord
    <3> QED BY <3>1 DEF TwoParts
  <2>6. a % (T * B) = hr * B + l
    <3>1. a = hq * (T * B) + (hr * B + l)
      <4>1. (hq * T + hr) * B + l = hq * (T * B) + (hr * B + l)
        BY <1>1
      <4> QED BY <1>2, <2>4, <4>1
    <3>2. hr * B + l \in 0 .. T * B - 1 /\ T * B \in Nat \ {0}
      <4>1. hr * B + l \in 0 .. T * B - 1
        BY <1>1, TwoDigits
      <4>2. T * B \in Nat \ {0}
        BY <1>1
      <4> QED BY <4>1, <4>2
    <3>3. PICK M \in Nat \ {0} : M = T * B
      BY <3>2
    <3>4. PICK y \in 0 .. M - 1 : y = hr * B + l
      BY <3>2, <3>3
    <3>5. (hq * M + y) % M = y
      BY QuotientIs
    <3> QED BY <3>1, <3>3, <3>4, <3>5, Zenon
  <2>7. shift("shldi3", a, b) = DWunion(lr * S, hr * S + lq)
    <3>1. Shl(l, b) = lr * S /\ Shl(w, b) = hr * S
      BY <2>2, <2>4, <2>5 DEF Shl
    <3> QED BY <1>2, <2>1, <2>2, <2>5, <3>1 DEF shift
  <2>8. lr * S + (hr * S + lq) * B = (hr * B + l) * S
    <3>1. (lq * T) * S = lq * B
      <4>1. (lq * T) * S = lq * (T * S)
        OBVIOUS
      <4> QED BY <2>2, <4>1
    <3>2. (hr * B + (lq * T + lr)) * S = (hr * S) * B + (lq * T) * S + lr * S
      BY <1>1
    <3>3. lr * S + (hr * S + lq) * B = (hr * S) * B + lq * B + lr * S
      BY <1>1
    <3> QED BY <2>5, <3>1, <3>2, <3>3
  <2> QED BY <2>2, <2>3, <2>6, <2>7, <2>8 DEF DWunion
<1>4. CASE ~(b < W_TYPE_SIZE)
  <2>1. b \in W_TYPE_SIZE .. 2 * W_TYPE_SIZE - 1 /\ b >= W_TYPE_SIZE /\ b # 0
    BY <1>1, <1>4
  <2>2. PICK k \in 0 .. W_TYPE_SIZE - 1 :
           k = b - W_TYPE_SIZE /\ 2^b = 2^k * B /\ 2 * W_TYPE_SIZE - b = W_TYPE_SIZE - k
    BY <2>1, FarDistances
  <2>3. PICK S \in Nat \ {0}, T \in Nat \ {0} : S = 2^k /\ T = 2^(W_TYPE_SIZE - k) /\ T * S = B
    <3>1. k \in 0 .. W_TYPE_SIZE
      BY <1>1
    <3> QED BY <3>1, Distances
  <2> HIDE DEF B
  <2>4. PICK lq \in 0 .. S - 1, lr \in 0 .. T - 1 : l = lq * T + lr /\ l % T = lr
    <3>1. TwoParts(l, S, T)
      BY <2>3, ShiftedWord
    <3> QED BY <3>1 DEF TwoParts
  <2>5. a % T = lr
    <3>1. a = (w * S + lq) * T + lr
      <4>1. w * (T * S) + (lq * T + lr) = (w * S + lq) * T + lr
        BY <1>1
      <4> QED BY <1>2, <2>3, <2>4, <4>1
    <3>2. PICK y \in Int : y = w * S + lq
      BY <1>1
    <3>3. (y * T + lr) % T = lr
      BY QuotientIs
    <3> QED BY <3>1, <3>2, <3>3, Zenon
  <2>6. shift("shldi3", a, b) = DWunion(0, lr * S)
    <3>1. Shl(l, k) = lr * S
      BY <2>3, <2>4 DEF Shl
    <3> QED BY <1>2, <2>1, <2>2, <3>1 DEF shift
  <2>7. 0 + (lr * S) * B = lr * (S * B)
    BY <1>1
  <2> QED BY <2>2, <2>3, <2>5, <2>6, <2>7 DEF DWunion
<1> QED BY <1>3, <1>4

\* A shift by nothing.
LEMMA ShiftsNot ==
  ASSUME NEW a \in UDWtype
  PROVE  /\ a \div 2^0 = a
         /\ (AsSigned(a) \div 2^0) % (B * B) = a
         /\ (a % 2^(2 * W_TYPE_SIZE - 0)) * 2^0 = a
<1>1. PICK M \in Nat \ {0} : M = B * B /\ a \in 0 .. M - 1 /\ 2^0 = 1
  <2>1. B * B \in Nat \ {0}
    BY Powers
  <2> QED BY <2>1, PowersMultiply DEF UDWtype
<1>2. 2^(2 * W_TYPE_SIZE - 0) = M
  <2>1. W_TYPE_SIZE \in 0 .. 4 * W_TYPE_SIZE + 1 /\ W_TYPE_SIZE + W_TYPE_SIZE <= 4 * W_TYPE_SIZE + 1
        /\ 2 * W_TYPE_SIZE - 0 = W_TYPE_SIZE + W_TYPE_SIZE
    BY Powers
  <2>2. 2^(W_TYPE_SIZE + W_TYPE_SIZE) = B * B
    BY <2>1, PowersMultiply DEF B
  <2> QED BY <1>1, <2>1, <2>2
<1>3. a % M = a
  BY <1>1, Small
<1>4. AsSigned(a) % M = a /\ AsSigned(a) \in Int
  <2>1. CASE AsSigned(a) = a
    BY <1>1, <1>3, <2>1
  <2>2. CASE AsSigned(a) = a - M
    <3>1. ((-1) * M + a) % M = a
      BY <1>1, QuotientIs
    <3>2. a - M = (-1) * M + a /\ a - M \in Int
      BY <1>1
    <3> QED BY <2>2, <3>1, <3>2
  <2> QED BY <1>1, <2>1, <2>2 DEF AsSigned
<1>5. \A x \in Int : x \div 1 = x /\ x * 1 = x
  OBVIOUS
<1>6. a \in Int
  BY <1>1
<1>7. AsSigned(a) \div 1 = AsSigned(a) /\ a \div 1 = a /\ a * 1 = a
  BY <1>4, <1>5, <1>6
<1> QED BY <1>1, <1>2, <1>3, <1>4, <1>7

LEMMA ShiftIsExact ==
  ASSUME NEW f \in {"sardi3", "shrdi3", "shldi3"}, NEW a \in UDWtype, NEW b \in 0 .. 2 * W_TYPE_SIZE - 1
  PROVE  shift(f, a, b) = Exact(f, a, b)
<1>1. W_TYPE_SIZE \in Nat
  BY Powers
<1>2. CASE b = 0
  <2>1. shift(f, a, b) = a
    BY <1>2 DEF shift
  <2>2. CASE f = "sardi3"
    BY <1>2, <2>1, <2>2, ShiftsNot DEF Exact
  <2>3. CASE f = "shrdi3"
    BY <1>2, <2>1, <2>3, ShiftsNot DEF Exact
  <2>4. CASE f = "shldi3"
    BY <1>2, <2>1, <2>4, ShiftsNot DEF Exact
  <2> QED BY <2>2, <2>3, <2>4
<1>3. CASE b # 0
  <2>1. b \in 1 .. 2 * W_TYPE_SIZE - 1
    BY <1>1, <1>3
  <2>2. b \in 1 .. W_TYPE_SIZE - 1 \/ b \in W_TYPE_SIZE .. 2 * W_TYPE_SIZE - 1
    BY <1>1, <2>1
  <2>3. shift("shrdi3", a, b) = a \div 2^b /\ shift("sardi3", a, b) = (AsSigned(a) \div 2^b) % (B * B)
    BY <2>2, ShiftsNear, ShiftsFar
  <2>4. shift("shldi3", a, b) = (a % 2^(2 * W_TYPE_SIZE - b)) * 2^b
    BY <2>1, ShiftsLeft
  <2>5. CASE f = "sardi3"
    BY <2>3, <2>5 DEF Exact
  <2>6. CASE f = "shrdi3"
    BY <2>3, <2>6 DEF Exact
  <2>7. CASE f = "shldi3"
    BY <2>4, <2>7 DEF Exact
  <2> QED BY <2>5, <2>6, <2>7
<1> QED BY <1>2, <1>3

(***************************************************************************)
(* Floating point                                                          *)
(***************************************************************************)
\* What fits the mantissa is not rounded.
LEMMA NearestIsExact ==
  ASSUME NEW n \in Int, Absolute(n) < B * B
  PROVE  Nearest(n, 2 * W_TYPE_SIZE) = n
<1> DEFINE a == Absolute(n)
           bits == 2 * W_TYPE_SIZE
           P(e) == a < 2^(bits + e) /\ (e = 0 \/ a >= 2^(bits + e - 1))
<1>1. W_TYPE_SIZE \in Nat /\ W_TYPE_SIZE >= 2 /\ B * B \in Nat \ {0}
  BY Powers
<1>2. a \in Nat /\ a < B * B
  BY DEF Absolute
<1>3. bits \in 0 .. 4 * W_TYPE_SIZE + 1 /\ 2^bits = B * B
  <2>1. W_TYPE_SIZE \in 0 .. 4 * W_TYPE_SIZE + 1 /\ W_TYPE_SIZE + W_TYPE_SIZE <= 4 * W_TYPE_SIZE + 1
        /\ bits = W_TYPE_SIZE + W_TYPE_SIZE /\ bits \in 0 .. 4 * W_TYPE_SIZE + 1
    BY <1>1
  <2>2. 2^(W_TYPE_SIZE + W_TYPE_SIZE) = B * B
    BY <2>1, PowersMultiply DEF B
  <2> QED BY <2>1, <2>2
<1>4. P(0)
  <2>1. bits + 0 = bits
    BY <1>1
  <2> QED BY <1>2, <1>3, <2>1
<1>5. ASSUME NEW e \in 0 .. 2 * W_TYPE_SIZE + 1, P(e), e # 0 PROVE FALSE
  <2>1. PICK i \in 0 .. 4 * W_TYPE_SIZE + 1 :
           bits + e - 1 = bits + i /\ bits + i <= 4 * W_TYPE_SIZE + 1
    <3>1. e - 1 \in 0 .. 4 * W_TYPE_SIZE + 1 /\ bits + e - 1 = bits + (e - 1)
          /\ bits + (e - 1) <= 4 * W_TYPE_SIZE + 1
      BY <1>1, <1>5
    <3> QED BY <3>1
  <2>2. PICK x \in Nat, y \in Nat \ {0} : x = B * B /\ y = 2^i /\ 2^(bits + i) = x * y
    <3>1. 2^(bits + i) = 2^bits * 2^i /\ 2^i \in Nat \ {0}
      BY <1>3, <2>1, PowersMultiply
    <3> QED BY <1>1, <1>3, <3>1
  <2>3. 1 * x <= y * x /\ y * x = x * y /\ 1 * x = x
    BY <2>2, Grows
  <2>4. a >= x * y
    BY <1>5, <2>1, <2>2
  <2>5. x * y \in Nat
    OBVIOUS
  <2> HIDE DEF a
  <2> QED BY <1>2, <2>2, <2>3, <2>4, <2>5
<1>6. Excess(a, bits) = 0
  <2>1. 0 \in 0 .. 2 * W_TYPE_SIZE + 1
    BY <1>1
  <2>2. Excess(a, bits) = CHOOSE e \in 0 .. 2 * W_TYPE_SIZE + 1 : P(e)
    BY DEF Excess
  <2> HIDE DEF P, a, bits
  <2>3. Excess(a, bits) \in 0 .. 2 * W_TYPE_SIZE + 1 /\ P(Excess(a, bits))
    BY <1>4, <2>1, <2>2
  <2> QED BY <1>5, <2>3
<1>7. Without(a, 0) = a
  <2>1. \A z \in Nat : z \div 1 = z /\ z % 1 = 0 /\ z * 1 = z
    OBVIOUS
  <2>2. 2^0 = 1
    BY PowersMultiply
  <2> HIDE DEF a
  <2>3. a \div 2^0 = a /\ a % 2^0 = 0 /\ a * 2^0 = a
    BY <1>2, <2>1, <2>2
  <2> QED BY <1>2, <2>2, <2>3 DEF Without
<1>8. Nearest(n, bits) = IF n < 0 THEN -a ELSE a
  BY <1>6, <1>7 DEF Nearest
<1> QED BY <1>8 DEF Absolute

\* A long long is rounded once, though it passes through long double twice.
LEMMA RoundedOnce ==
  ASSUME NEW f, NEW a \in UDWtype
  PROVE  ullto(f, a) = Nearest(a, Mantissa(f))
<1>1. PICK M \in Nat \ {0}, h \in Nat \ {0} : M = B * B /\ (B * B) \div 2 = h /\ M = 2 * h
  <2>1. B * B \in Nat \ {0}
    BY Powers
  <2> QED BY <2>1, Half
<1>2. a \in Nat /\ a < M
  BY <1>1, Words
<1>3. CASE IsNegative(a)
  <2>1. AsSigned(a) = a - M /\ a >= h
    BY <1>1, <1>3 DEF AsSigned, IsNegative
  <2>2. a - M \in Int /\ Absolute(a - M) < M
    BY <1>1, <1>2, <2>1 DEF Absolute
  <2>3. Nearest(AsSigned(a), 2 * W_TYPE_SIZE) = a - M
    BY <1>1, <2>1, <2>2, NearestIsExact
  <2>4. a \in Int /\ Absolute(a) < M /\ (a - M) + M = a
    BY <1>1, <1>2 DEF Absolute
  <2>5. Nearest(a, 2 * W_TYPE_SIZE) = a
    BY <1>1, <2>4, NearestIsExact
  <2>6. ullto(f, a) = Nearest(Nearest((a - M) + M, 2 * W_TYPE_SIZE), Mantissa(f))
    BY <1>1, <1>3, <2>3 DEF ullto
  <2> QED BY <2>4, <2>5, <2>6
<1>4. CASE ~IsNegative(a)
  BY <1>4 DEF ullto
<1> QED BY <1>3, <1>4

\* A number cut off, when it fits.
LEMMA CutOff ==
  ASSUME NEW f \in {"fixunssfdi", "fixunsdfdi", "fixunsxfdi"},
         NEW m \in 1 .. 2 * W_TYPE_SIZE, m = Mantissa(f), NEW l \in 2^(m - 1) .. 2^m - 1,
         NEW x \in -m - 1 .. 2 * W_TYPE_SIZE - m + 1
  PROVE  LET whole == IF x >= 0 THEN l * 2^x ELSE l \div 2^(-x)
         IN  whole < B * B => fixuns(f, l, x) = whole
<1>1. W_TYPE_SIZE \in Nat /\ W_TYPE_SIZE >= 2 /\ B * B \in Nat \ {0}
  BY Powers
<1>2. m = Mantissa(f)
  OBVIOUS
<1>3. x \in -m - 1 .. 2 * W_TYPE_SIZE - m + 1 /\ l \in 2^(m - 1) .. 2^m - 1
  OBVIOUS
<1>4. CASE x >= 2 * W_TYPE_SIZE - m + 1
  <2>1. x = 2 * W_TYPE_SIZE - m + 1 /\ x >= 0
    BY <1>1, <1>3, <1>4
  <2>2. PICK i \in 0 .. 4 * W_TYPE_SIZE + 1, j \in 0 .. 4 * W_TYPE_SIZE + 1 :
           /\ i = m - 1 /\ j = x /\ i + j = W_TYPE_SIZE + W_TYPE_SIZE
           /\ i + j <= 4 * W_TYPE_SIZE + 1
    <3>1. m - 1 \in 0 .. 4 * W_TYPE_SIZE + 1 /\ x \in 0 .. 4 * W_TYPE_SIZE + 1
          /\ (m - 1) + x = W_TYPE_SIZE + W_TYPE_SIZE
      BY <1>1, <2>1
    <3>2. W_TYPE_SIZE + W_TYPE_SIZE <= 4 * W_TYPE_SIZE + 1
      BY <1>1
    <3> QED BY <3>1, <3>2
  <2>3. PICK u \in Nat \ {0}, y \in Nat \ {0} : u = 2^i /\ y = 2^j /\ u * y = B * B
    <3>1. 2^i \in Nat \ {0} /\ 2^j \in Nat \ {0} /\ 2^(i + j) = 2^i * 2^j
      BY <2>2, PowersMultiply
    <3>2. W_TYPE_SIZE \in 0 .. 4 * W_TYPE_SIZE + 1 /\ W_TYPE_SIZE + W_TYPE_SIZE <= 4 * W_TYPE_SIZE + 1
      BY <1>1
    <3>3. 2^(W_TYPE_SIZE + W_TYPE_SIZE) = B * B
      BY <3>2, PowersMultiply DEF B
    <3> QED BY <2>2, <3>1, <3>3
  <2>4. l \in Nat /\ u <= l
    <3>1. l \in 2^i .. 2^m - 1
      BY <1>3, <2>2
    <3>2. 2^m \in Nat
      <4>1. m \in 0 .. 4 * W_TYPE_SIZE + 1
        BY <1>1
      <4> QED BY <4>1, PowersMultiply
    <3> QED BY <2>3, <3>1, <3>2
  <2>5. u * y <= l * y /\ l * y \in Nat
    BY <2>4, Grows
  <2>6. ~(l * 2^x < B * B)
    BY <1>1, <2>2, <2>3, <2>5
  <2> QED BY <2>1, <2>6
<1>5. CASE x >= 0 /\ x < 2 * W_TYPE_SIZE - m + 1
  <2>1. fixuns(f, l, x) = l * 2^x
    BY <1>1, <1>2, <1>3, <1>5 DEF fixuns
  <2> QED BY <1>5, <2>1
<1>6. CASE x < 0 /\ x >= -(m - 1)
  <2>1. fixuns(f, l, x) = l \div 2^(-x)
    BY <1>1, <1>2, <1>3, <1>6 DEF fixuns
  <2>2. ~(x >= 0)
    BY <1>3, <1>6
  <2> QED BY <2>1, <2>2
<1>7. CASE x < -(m - 1)
  <2>1. fixuns(f, l, x) = 0
    BY <1>1, <1>2, <1>3, <1>7 DEF fixuns
  <2>2. ~(x >= 0)
    BY <1>3, <1>7
  <2>3. PICK i \in 0 .. 4 * W_TYPE_SIZE + 1 : -x = m + i /\ m + i <= 4 * W_TYPE_SIZE + 1
    <3>1. -x - m \in 0 .. 4 * W_TYPE_SIZE + 1 /\ -x = m + (-x - m) /\ m + (-x - m) <= 4 * W_TYPE_SIZE + 1
      BY <1>1, <1>3, <1>7
    <3> QED BY <3>1
  <2>4. PICK u \in Nat \ {0}, y \in Nat \ {0} : u = 2^m /\ y = 2^i /\ 2^(m + i) = u * y
    <3>1. m \in 0 .. 4 * W_TYPE_SIZE + 1
      BY <1>1
    <3> QED BY <2>3, <3>1, PowersMultiply
  <2>5. l \in Nat /\ l < u
    <3>1. 2^(m - 1) \in Nat
      <4>1. m - 1 \in 0 .. 4 * W_TYPE_SIZE + 1
        BY <1>1
      <4> QED BY <4>1, PowersMultiply
    <3> QED BY <1>3, <2>4, <3>1
  <2>6. 1 * u <= y * u /\ y * u = u * y /\ 1 * u = u /\ u * y \in Nat
    BY Grows
  <2>7. l \div (u * y) = 0
    <3>1. PICK z \in Nat \ {0} : z = u * y /\ l < z
      BY <2>5, <2>6
    <3>2. l \in 0 .. z - 1
      BY <2>5, <3>1
    <3> QED BY <3>1, <3>2, Small, Zenon
  <2> QED BY <2>1, <2>2, <2>3, <2>4, <2>7
<1>8. x \in Int /\ m \in Int
  BY <1>1, <1>3
<1>9. \/ x >= 2 * W_TYPE_SIZE - m + 1
      \/ x >= 0 /\ x < 2 * W_TYPE_SIZE - m + 1
      \/ x < 0 /\ x >= -(m - 1)
      \/ x < -(m - 1)
  BY <1>1, <1>8
<1> QED BY <1>4, <1>5, <1>6, <1>7, <1>9

-----------------------------------------------------------------------------
\* Every call of the run-time library returns what C says, whatever the size
\* of a word and the arguments: see RuntimeIsExact.
THEOREM RuntimeExact == LongLongSpec => []RuntimeIsExact
<1>1. LongLongInit => RuntimeIsExact
  BY DEF LongLongInit, RuntimeIsExact
<1>2. ASSUME RuntimeIsExact, [LongLongNext]_llVars PROVE RuntimeIsExact'
  <2>1. CASE Divide
    <3>1. PICK f \in {"udivdi3", "umoddi3", "divdi3", "moddi3"}, u \in UDWtype, v \in UDWtype :
             /\ call' = [f |-> f, a |-> u, b |-> v]
             /\ ret' = IF divide(f, u, v).trap THEN -1 ELSE divide(f, u, v).q
      BY <2>1 DEF Divide
    <3>2. call'.f = f /\ call'.a = u /\ call'.b = v
      BY <3>1
    <3>3. IF v = 0 THEN ret' = -1 ELSE ret' = Exact(f, u, v)
      BY <3>1, DivisionIsExact
    <3> QED BY <3>2, <3>3 DEF RuntimeIsExact
  <2>2. CASE Shift
    <3>1. PICK f \in {"sardi3", "shrdi3", "shldi3"}, a \in UDWtype, b \in 0 .. 2 * W_TYPE_SIZE - 1 :
             call' = [f |-> f, a |-> a, b |-> b] /\ ret' = shift(f, a, b)
      BY <2>2 DEF Shift
    <3>2. call'.f = f /\ call'.a = a /\ call'.b = b
      BY <3>1
    <3>3. ret' = Exact(f, a, b)
      BY <3>1, ShiftIsExact
    <3> QED BY <3>2, <3>3 DEF RuntimeIsExact
  <2>3. CASE ToFloat
    <3>1. PICK f \in {"ulltof", "ulltod", "ulltold"}, a \in UDWtype :
             call' = [f |-> f, a |-> a, b |-> 0] /\ ret' = ullto(f, a)
      BY <2>3 DEF ToFloat
    <3>2. call'.f = f /\ call'.a = a
      BY <3>1
    <3>3. ret' = Nearest(a, Mantissa(f))
      BY <3>1, RoundedOnce
    <3> QED BY <3>2, <3>3 DEF RuntimeIsExact
  <2>4. CASE FromFloat
    <3>1. PICK f \in {"fixunssfdi", "fixunsdfdi", "fixunsxfdi"} :
          \E l \in 2^(Mantissa(f) - 1) .. 2^Mantissa(f) - 1,
             exp \in -Mantissa(f) - 1 .. 2 * W_TYPE_SIZE - Mantissa(f) + 1 :
                call' = [f |-> f, a |-> l, b |-> exp] /\ ret' = fixuns(f, l, exp)
      BY <2>4 DEF FromFloat
    <3>2. PICK m \in 1 .. 2 * W_TYPE_SIZE : m = Mantissa(f)
      <4>1. Mantissa(f) \in 1 .. 2 * W_TYPE_SIZE
        BY SizesOrdered DEF Mantissa
      <4> QED BY <4>1
    <3>3. PICK l \in 2^(m - 1) .. 2^m - 1, x \in -m - 1 .. 2 * W_TYPE_SIZE - m + 1 :
             call' = [f |-> f, a |-> l, b |-> x] /\ ret' = fixuns(f, l, x)
      BY <3>1, <3>2, Zenon
    <3>4. call'.f = f /\ call'.a = l /\ call'.b = x
      BY <3>3
    <3>5. LET whole == IF x >= 0 THEN l * 2^x ELSE l \div 2^(-x)
          IN  whole < B * B => fixuns(f, l, x) = whole
      BY <3>2, CutOff
    <3> QED BY <3>3, <3>4, <3>5 DEF RuntimeIsExact
  <2>5. CASE UNCHANGED llVars
    BY <1>2, <2>5 DEF llVars, RuntimeIsExact
  <2> QED BY <1>2, <2>1, <2>2, <2>3, <2>4, <2>5 DEF LongLongNext
<1> QED BY <1>1, <1>2, PTL DEF LongLongSpec
=============================================================================
