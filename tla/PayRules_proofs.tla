--------------------------- MODULE PayRules_proofs ---------------------------
(* Proofs about the rules that put a figure before a worker: the arithmetic *)
(* of Money with its totals and its reading of text, for every width of the *)
(* integers; the draws of EarlyPay, for every salary, policy, calendar and  *)
(* number of advances; the hours of TimeEntry, for any finite set of        *)
(* entries; the bills of BillTiming, for any months and bills; the scores   *)
(* of Dependency, for any limits, shares and caps; and, at the end, the     *)
(* composition.  The variables of the arithmetic are those of Money itself. *)
EXTENDS PayRules, SequenceTheorems, Sums_proofs

-----------------------------------------------------------------------------
(* Two's complement.                                                        *)

USE DEF IntW, MinInt, MaxInt

\* Wrap leaves alone what has the width.
LEMMA WrapInside ==
    ASSUME Half \in Nat \ {0}, NEW x \in IntW
    PROVE  Wrap(x) = x
<1>1. x + Half \in 0 .. 2 * Half - 1
  OBVIOUS
<1>2. (x + Half) % (2 * Half) = x + Half
  BY <1>1
<1> QED
  BY <1>2 DEF Wrap

\* Wrap takes what is above the width down by it.
LEMMA WrapAbove ==
    ASSUME Half \in Nat \ {0}, NEW x \in Int, x >= Half, x < 3 * Half
    PROVE  Wrap(x) = x - 2 * Half
<1>1. (x + Half) % (2 * Half) = x - Half
  OBVIOUS
<1> QED
  BY <1>1 DEF Wrap

\* Wrap takes what is below the width up by it.
LEMMA WrapBelow ==
    ASSUME Half \in Nat \ {0}, NEW x \in Int, x < - Half, x >= - 3 * Half
    PROVE  Wrap(x) = x + 2 * Half
<1>1. (x + Half) % (2 * Half) = x + 3 * Half
  OBVIOUS
<1> QED
  BY <1>1 DEF Wrap

\* Wrap has the width, and differs from its argument by a multiple of it.
LEMMA WrapOff ==
    ASSUME Half \in Nat \ {0}, NEW x \in Int
    PROVE  /\ Wrap(x) \in IntW
           /\ \E m \in Int : Wrap(x) = x + m * (2 * Half)
<1>1. (x + Half) % (2 * Half) \in 0 .. 2 * Half - 1
  OBVIOUS
<1>2. x + Half = (2 * Half) * ((x + Half) \div (2 * Half)) + ((x + Half) % (2 * Half))
  OBVIOUS
<1> DEFINE m == - ((x + Half) \div (2 * Half))
<1>3. m \in Int /\ Wrap(x) = x + m * (2 * Half)
  BY <1>1, <1>2 DEF Wrap
<1>4. Wrap(x) \in IntW
  BY <1>1 DEF Wrap
<1> QED
  BY <1>3, <1>4

-----------------------------------------------------------------------------
(* Kobo's operations answer the true result, or that it overflows.          *)

\* The check in Add sees every overflow, and nothing else.
LEMMA AddIsExact ==
    ASSUME Half \in Nat \ {0}, NEW k \in IntW, NEW other \in IntW
    PROVE  Add(k, other) = IF k + other \in IntW THEN Ok(k + other) ELSE Err("overflow")
<1>1. CASE k + other \in IntW
  <2>1. Wrap(k + other) = k + other
    BY <1>1, WrapInside
  <2> QED
    BY <1>1, <2>1 DEF Add
<1>2. CASE k + other >= Half
  <2>1. Wrap(k + other) = k + other - 2 * Half
    BY <1>2, WrapAbove
  <2> QED
    BY <1>2, <2>1 DEF Add
<1>3. CASE k + other < - Half
  <2>1. Wrap(k + other) = k + other + 2 * Half
    BY <1>3, WrapBelow
  <2> QED
    BY <1>3, <2>1 DEF Add
<1> QED
  BY <1>1, <1>2, <1>3

\* So does the check in Sub, also where the negation of its argument would overflow.
LEMMA SubIsExact ==
    ASSUME Half \in Nat \ {0}, NEW k \in IntW, NEW other \in IntW
    PROVE  Sub(k, other) = IF k - other \in IntW THEN Ok(k - other) ELSE Err("overflow")
<1>1. CASE k - other \in IntW
  <2>1. Wrap(k - other) = k - other
    BY <1>1, WrapInside
  <2> QED
    BY <1>1, <2>1 DEF Sub
<1>2. CASE k - other >= Half
  <2>1. Wrap(k - other) = k - other - 2 * Half
    BY <1>2, WrapAbove
  <2> QED
    BY <1>2, <2>1 DEF Sub
<1>3. CASE k - other < - Half
  <2>1. Wrap(k - other) = k - other + 2 * Half
    BY <1>3, WrapBelow
  <2> QED
    BY <1>3, <2>1 DEF Sub
<1> QED
  BY <1>1, <1>2, <1>3

\* A product with a positive number is no smaller.
LEMMA NoSmaller ==
    ASSUME NEW x \in Nat, NEW b \in Nat \ {0}
    PROVE  x <= b * x
<1>1. (b - 1) * x >= 0 /\ b * x = (b - 1) * x + x
  OBVIOUS
<1> QED
  BY <1>1

\* Go's division by a positive number: the quotient and the remainder are those of
\* the absolute value, with the sign of what is divided.
LEMMA QuoRem ==
    ASSUME Half \in Nat \ {0}, NEW a \in IntW, NEW b \in Int, b > 0
    PROVE  /\ Quo(a, b) \in IntW /\ Rem(a, b) \in Int
           /\ a = Quo(a, b) * b + Rem(a, b)
           /\ a >= 0 => 0 <= Rem(a, b) /\ Rem(a, b) < b
           /\ a <= 0 => 0 >= Rem(a, b) /\ Rem(a, b) > - b
           /\ a >= 0 => 0 <= Quo(a, b) /\ Quo(a, b) <= a
           /\ a <= 0 => 0 >= Quo(a, b) /\ Quo(a, b) >= a
<1> DEFINE q == Abs(a) \div b
<1>1. Abs(a) \in Nat
  BY DEF Abs
<1>2. q \in Nat /\ Abs(a) = b * q + (Abs(a) % b) /\ Abs(a) % b \in 0 .. b - 1
  BY <1>1
<1> HIDE DEF q
<1>3. q <= Abs(a)
  <2>1. q \in Nat /\ b \in Nat \ {0}
    BY <1>2
  <2>2. q <= b * q
    BY <2>1, NoSmaller, Zenon
  <2> QED
    BY <1>1, <1>2, <2>2
<1>4. Abs(b) = b
  BY DEF Abs
<1>5. CASE a >= 0
  <2>1. Quo(a, b) = q /\ Rem(a, b) = a - b * q
    <3>1. q \in IntW
      BY <1>2, <1>3, <1>5 DEF Abs
    <3> QED
      BY <1>4, <1>5, <3>1, WrapInside DEF Quo, Rem, q
  <2> QED
    BY <1>2, <1>3, <1>5, <2>1 DEF Abs
<1>6. CASE a < 0
  <2>1. Quo(a, b) = - q /\ Rem(a, b) = a - b * (- q)
    <3>1. - q \in IntW
      BY <1>2, <1>3, <1>6 DEF Abs
    <3> QED
      BY <1>4, <1>6, <3>1, WrapInside DEF Quo, Rem, q
  <2>2. a = - b * q - (Abs(a) % b)
    BY <1>2, <1>6 DEF Abs
  <2> QED
    BY <1>2, <1>3, <1>6, <2>1, <2>2 DEF Abs
<1> QED
  BY <1>5, <1>6

\* A multiple of a positive number lies within it only if it is zero.
LEMMA OnlyZero ==
    ASSUME NEW m \in Int, NEW b \in Nat \ {0}, m * b < b, m * b > - b
    PROVE  m = 0
<1>1. m > 0 => (m - 1) * b >= 0
  OBVIOUS
<1>2. m < 0 => (- m - 1) * b >= 0
  OBVIOUS
<1>3. (m - 1) * b = m * b - b /\ (- m - 1) * b = - (m * b) - b
  OBVIOUS
<1> QED
  BY <1>1, <1>2, <1>3

\* What is divided and the remainder settle the quotient.
LEMMA QuotientUnique ==
    ASSUME NEW b \in Nat \ {0}, NEW q \in Int, NEW p \in Int, NEW r \in Int,
           p * b = q * b + r, r < b, r > - b
    PROVE  p = q /\ r = 0
<1>1. (p - q) * b = r
  OBVIOUS
<1>2. p - q = 0
  BY <1>1, OnlyZero
<1> QED
  BY <1>1, <1>2

\* Dividing the wrapped product by the factor gives the other one back exactly when
\* nothing was lost.
LEMMA MulIsExact ==
    ASSUME Half \in Nat \ {0}, NEW k \in IntW, NEW n \in IntW, n >= 0
    PROVE  MulInt(k, n) = IF k * n \in IntW THEN Ok(k * n) ELSE Err("overflow")
<1>1. CASE k = 0 \/ n = 0
  <2>1. k * n = 0
    BY <1>1
  <2> QED
    BY <1>1, <2>1 DEF MulInt
<1>2. CASE k # 0 /\ n # 0
  <2> DEFINE result == Wrap(k * n)
  <2>1. n \in Nat \ {0} /\ k * n \in Int
    BY <1>2
  <2>2. /\ result \in IntW
        /\ \E m \in Int : result = k * n + m * (2 * Half)
    BY <2>1, WrapOff
  <2>3. /\ Quo(result, n) \in Int /\ Rem(result, n) \in Int
        /\ result = Quo(result, n) * n + Rem(result, n)
        /\ Rem(result, n) < n /\ Rem(result, n) > - n
    BY <2>1, <2>2, QuoRem
  <2>4. CASE k * n \in IntW
    <3>1. result = k * n
      BY <2>4, WrapInside
    <3> DEFINE q == Quo(result, n)
               r == Rem(result, n)
    <3>2. q \in Int /\ r \in Int /\ k * n = q * n + r /\ r < n /\ r > - n
      BY <2>3, <3>1
    <3> HIDE DEF q, r
    <3>3. k = q
      BY <2>1, <3>2, QuotientUnique
    <3> QED
      BY <1>2, <2>4, <3>1, <3>3 DEF MulInt, q
  <2>5. CASE k * n \notin IntW
    <3>1. ASSUME Quo(result, n) = k
          PROVE  FALSE
      <4>1. PICK m \in Int : result = k * n + m * (2 * Half)
        BY <2>2
      <4>2. m * (2 * Half) = Rem(result, n)
        BY <2>1, <2>2, <2>3, <3>1, <4>1
      <4>3. m = 0
        BY <2>1, <2>3, <4>2, OnlyZero
      <4>4. result = k * n
        BY <2>1, <4>1, <4>3
      <4> QED
        BY <2>2, <2>5, <4>4
    <3> QED
      BY <1>2, <2>5, <3>1 DEF MulInt
  <2> QED
    BY <2>4, <2>5
<1> QED
  BY <1>1, <1>2

-----------------------------------------------------------------------------
(* Percent rounds half to even.                                             *)

\* OddOf tells odd numbers from even ones, also negative ones.
LEMMA OddIsOdd ==
    ASSUME Half \in Nat \ {0}, NEW q \in IntW
    PROVE  OddOf(q) <=> q % 2 = 1
<1>1. /\ q = Quo(q, 2) * 2 + Rem(q, 2) /\ Quo(q, 2) \in Int /\ Rem(q, 2) \in Int
      /\ q >= 0 => 0 <= Rem(q, 2) /\ Rem(q, 2) < 2
      /\ q <= 0 => 0 >= Rem(q, 2) /\ Rem(q, 2) > - 2
  BY QuoRem
<1> QED
  BY <1>1 DEF OddOf

\* What Percent answers is nearest, and even of two, while twice the denominator has
\* the width.
LEMMA RoundedIsNearest ==
    ASSUME Half \in Nat \ {0}, NEW s \in IntW, NEW d \in Nat \ {0}, 2 * d <= Half,
           NEW v, v = Rounded(Quo(s, d), Rem(s, d), d)
    PROVE  /\ v \in IntW
           /\ Abs(2 * (s - v * d)) <= d
           /\ Abs(2 * (s - v * d)) = d => v % 2 = 0
<1> DEFINE q == Quo(s, d)
           r == Rem(s, d)
<1>1. /\ q \in IntW /\ r \in Int /\ s = q * d + r
      /\ s >= 0 => 0 <= r /\ r < d /\ 0 <= q /\ q <= s
      /\ s <= 0 => 0 >= r /\ r > - d /\ 0 >= q /\ q >= s
  <2>1. d \in Int /\ d > 0
    OBVIOUS
  <2> QED
    BY <2>1, QuoRem
<1>2. v = Rounded(q, r, d)
  OBVIOUS
<1> HIDE DEF q, r
<1>3. Wrap(2 * r) = 2 * r
  <2>1. 2 * r \in IntW
    BY <1>1
  <2> QED
    BY <2>1, WrapInside
<1>4. OddOf(q) <=> q % 2 = 1
  BY <1>1, OddIsOdd
\* A quotient that is rounded away from zero is not at the end of the range.
<1>5. CASE d = 1
  <2>1. r = 0
    BY <1>1, <1>5
  <2>2. v = q
    BY <1>2, <1>3, <1>5, <2>1 DEF Rounded
  <2> QED
    BY <1>1, <1>5, <2>1, <2>2 DEF Abs
<1>6. CASE d > 1
  <2>1. q + 1 \in IntW /\ q - 1 \in IntW
    <3>1. s >= 0 => 2 * q <= q * d
      <4>1. s >= 0 => (d - 2) * q >= 0
        BY <1>1, <1>6
      <4> QED
        BY <1>1, <4>1
    <3>2. s <= 0 => 2 * q >= q * d
      <4>1. s <= 0 => (d - 2) * (- q) >= 0
        BY <1>1, <1>6
      <4> QED
        BY <1>1, <4>1
    <3> QED
      BY <1>1, <1>6, <3>1, <3>2
  <2>2. Wrap(q + 1) = q + 1 /\ Wrap(q - 1) = q - 1
    BY <2>1, WrapInside
  <2>3. v = IF \/ 2 * r > d \/ 2 * r < - d
               \/ (2 * r = d \/ 2 * r = - d) /\ q % 2 = 1
            THEN IF r > 0 THEN q + 1 ELSE q - 1
            ELSE q
    BY <1>2, <1>3, <1>4, <2>2 DEF Rounded
  <2>4. (q + 1) * d = q * d + d /\ (q - 1) * d = q * d - d
    BY <1>1
  <2>5. q * d \in Int
    BY <1>1
  <2>6. CASE v = q
    <3>1. 2 * (s - v * d) = 2 * r
      BY <1>1, <2>5, <2>6
    <3>2. 2 * r <= d /\ 2 * r >= - d /\ (2 * r = d \/ 2 * r = - d => q % 2 # 1)
      BY <1>1, <2>3, <2>6
    <3> QED
      BY <1>1, <2>6, <3>1, <3>2 DEF Abs
  <2>7. CASE v = q + 1
    <3>1. 2 * (s - v * d) = 2 * r - 2 * d
      BY <1>1, <2>4, <2>5, <2>7
    <3>2. r < d /\ 2 * r >= d /\ (2 * r = d => q % 2 = 1)
      BY <1>1, <2>3, <2>7
    <3> QED
      BY <1>1, <2>1, <2>7, <3>1, <3>2 DEF Abs
  <2>8. CASE v = q - 1
    <3>1. 2 * (s - v * d) = 2 * r + 2 * d
      BY <1>1, <2>4, <2>5, <2>8
    <3>2. r > - d /\ 2 * r <= - d /\ (2 * r = - d => q % 2 = 1)
      BY <1>1, <2>3, <2>8
    <3>3. q % 2 = 1 => v % 2 = 0
      BY <1>1, <2>8
    <3>4. Abs(2 * (s - v * d)) = 2 * r + 2 * d
      BY <1>1, <3>1, <3>2 DEF Abs
    <3> QED
      BY <1>1, <2>1, <2>8, <3>2, <3>3, <3>4
  <2> QED
    BY <2>3, <2>6, <2>7, <2>8
<1> QED
  BY <1>5, <1>6

-----------------------------------------------------------------------------
(* Major units.                                                             *)

LEMMA ScaleIsPositive ==
    ASSUME MoneyConstants, NEW c \in DOMAIN Exponent
    PROVE  Scale(c) \in Nat \ {0}
<1>1. Exponent[c] \in 0 .. 2
  BY DEF MoneyConstants
<1>2. Exponent[c] = 0 \/ Exponent[c] = 1 \/ Exponent[c] = 2
  BY <1>1
<1>3. 10 ^ 0 = 1 /\ 10 ^ 1 = 10 /\ 10 ^ 2 = 100
  OBVIOUS
<1>4. Scale(c) = 1 \/ Scale(c) = 10 \/ Scale(c) = 100
  BY <1>2, <1>3, Zenon DEF Scale
<1> QED
  BY <1>4

\* Scaling up by a positive number overflows exactly when the quotients say so.
LEMMA MajorIsExact ==
    ASSUME MoneyConstants, NEW c \in DOMAIN Exponent, NEW major \in IntW
    PROVE  FromMajor(major, c) =
               IF major * Scale(c) \in IntW THEN Ok(major * Scale(c)) ELSE Err("overflow")
<1> DEFINE s == Scale(c)
           top == Quo(MaxInt, s)
           bottom == Quo(MinInt, s)
<1>1. Half \in Nat \ {0} /\ s \in Int /\ s > 0
  BY ScaleIsPositive DEF MoneyConstants
<1>2. \E r \in Int : MaxInt = top * s + r /\ 0 <= r /\ r < s
  <2>1. MaxInt \in IntW /\ MaxInt >= 0
    BY <1>1
  <2> QED
    BY <1>1, <2>1, QuoRem
<1>3. \E r \in Int : MinInt = bottom * s + r /\ 0 >= r /\ r > - s
  <2>1. MinInt \in IntW /\ MinInt <= 0
    BY <1>1
  <2> QED
    BY <1>1, <2>1, QuoRem
<1>4. top \in Int /\ bottom \in Int
  BY <1>1, QuoRem
<1>5. FromMajor(major, c) = IF major > top \/ major < bottom THEN Err("overflow")
                           ELSE Ok(Wrap(major * s))
  BY DEF FromMajor
<1> HIDE DEF s, top, bottom
<1>6. CASE major > top
  <2>1. (major - top - 1) * s >= 0
    BY <1>1, <1>4, <1>6
  <2>2. major * s > MaxInt
    BY <1>1, <1>2, <1>4, <2>1
  <2> QED
    BY <1>1, <1>5, <1>6, <2>2 DEF s
<1>7. CASE major < bottom
  <2>1. (bottom - major - 1) * s >= 0
    BY <1>1, <1>4, <1>7
  <2>2. major * s < MinInt
    BY <1>1, <1>3, <1>4, <2>1
  <2> QED
    BY <1>1, <1>5, <1>7, <2>2 DEF s
<1>8. CASE major <= top /\ major >= bottom
  <2>1. (top - major) * s >= 0 /\ (major - bottom) * s >= 0
    BY <1>1, <1>4, <1>8
  <2>2. major * s \in IntW
    BY <1>1, <1>2, <1>3, <1>4, <2>1
  <2>3. Wrap(major * s) = major * s
    BY <1>1, <2>2, WrapInside
  <2> QED
    BY <1>1, <1>4, <1>5, <1>8, <2>2, <2>3 DEF s
<1> QED
  BY <1>4, <1>6, <1>7, <1>8

-----------------------------------------------------------------------------
(* Calls.                                                                   *)

\* A call is answered once, by the operation it names.
Answered == call \in Calls /\ (answer = NoAnswer \/ answer = Answer(call))

LEMMA AnsweredOnce == Spec => []Answered
<1>1. Init => Answered
  BY DEF Init, Answered
<1>2. Answered /\ [Return]_vars => Answered'
  BY DEF Answered, Return, vars
<1> QED
  BY <1>1, <1>2, PTL DEF Spec

\* Kobo.Add, Sub: for every width, the answer is the true sum or difference if it has
\* the width, and an overflow otherwise.
THEOREM AddSubAlwaysExact == ASSUME MoneyConstants PROVE Spec => []AddSubExact
<1>1. Answered => AddSubExact
  <2> SUFFICES ASSUME Answered, answer # NoAnswer, call.op \in {"add", "sub"}
               PROVE  AddSubExact
    BY DEF AddSubExact, Returned
  <2>1. call.k \in IntW /\ call.other \in IntW
    BY DEF Answered, Calls, MoneyConstants
  <2>2. CASE call.op = "add"
    <3>1. answer = Add(call.k, call.other)
      BY <2>2 DEF Answered, Answer
    <3> QED
      BY <2>1, <2>2, <3>1, AddIsExact DEF AddSubExact, Exact, MoneyConstants
  <2>3. CASE call.op = "sub"
    <3>1. answer = Sub(call.k, call.other)
      BY <2>3 DEF Answered, Answer
    <3> QED
      BY <2>1, <2>3, <3>1, SubIsExact DEF AddSubExact, Exact, MoneyConstants
  <2> QED
    BY <2>2, <2>3
<1> QED
  BY <1>1, AnsweredOnce, PTL

\* Kobo.MulInt: for every width, a product with a factor that is not negative is the
\* true one if it has the width, and an overflow otherwise.
THEOREM MulAlwaysExact == ASSUME MoneyConstants PROVE Spec => []MulExactNonNegative
<1>1. Answered => MulExactNonNegative
  <2> SUFFICES ASSUME Answered, answer # NoAnswer, call.op = "mul"
               PROVE  Exact(call.k * call.n)
    BY DEF MulExactNonNegative, Returned
  <2>1. call.k \in IntW /\ call.n \in IntW /\ call.n >= 0
    <3>1. call.k \in Amounts /\ call.n \in Scalars
      BY DEF Answered, Calls
    <3>2. Half \in Nat \ {0} /\ call.k \in IntW /\ call.n \in 0 .. MaxInt
      BY <3>1, Zenon DEF MoneyConstants
    <3> QED
      BY <3>2
  <2>2. answer = MulInt(call.k, call.n)
    BY DEF Answered, Answer
  <2> QED
    BY <2>1, <2>2, MulIsExact DEF Exact, MoneyConstants
<1> QED
  BY <1>1, AnsweredOnce, PTL

\* Kobo.Percent: for every width, the answer is the integer nearest the true quotient,
\* the even one of two, unless the product overflows.
THEOREM PercentAlwaysRounds == ASSUME MoneyConstants PROVE Spec => []PercentRoundsHalfEven
<1>1. Answered => PercentRoundsHalfEven
  <2> SUFFICES ASSUME Answered, answer # NoAnswer, call.op = "percent"
               PROVE  PercentRoundsHalfEven
    BY DEF PercentRoundsHalfEven, Returned
  <2> DEFINE k == call.k
             n == call.n
             d == call.d
  <2>1. /\ k \in IntW /\ n \in IntW /\ n >= 0
        /\ d \in Nat \ {0} /\ 2 * d <= Half /\ Half \in Nat \ {0}
    <3>1. k \in Amounts /\ n \in Scalars /\ d \in Denominators
      BY DEF Answered, Calls
    <3>2. /\ Half \in Nat \ {0} /\ k \in IntW /\ n \in 0 .. MaxInt
          /\ d \in Nat \ {0} /\ 2 * d <= Half
      BY <3>1, Zenon DEF MoneyConstants
    <3> QED
      BY <3>2
  <2>2. answer = Percent(k, n, d)
    BY DEF Answered, Answer
  <2>3. MulInt(k, n) = IF k * n \in IntW THEN Ok(k * n) ELSE Err("overflow")
    BY <2>1, MulIsExact
  <2> HIDE DEF k, n, d
  <2>4. CASE k * n \notin IntW
    <3>1. answer = Err("overflow")
      BY <2>1, <2>2, <2>3, <2>4 DEF Percent, Err
    <3> QED
      BY <2>4, <3>1 DEF PercentRoundsHalfEven, k, n
  <2>5. CASE k * n \in IntW
    <3> DEFINE v == Rounded(Quo(k * n, d), Rem(k * n, d), d)
    <3>1. answer = Ok(v)
      BY <2>1, <2>2, <2>3, <2>5 DEF Percent, Ok
    <3>2. /\ v \in IntW
          /\ Abs(2 * (k * n - v * d)) <= d
          /\ Abs(2 * (k * n - v * d)) = d => v % 2 = 0
      BY <2>1, <2>5, RoundedIsNearest
    <3> HIDE DEF v
    <3>3. answer.ok /\ answer.value = v
      BY <3>1 DEF Ok
    <3> QED
      BY <2>5, <3>2, <3>3 DEF PercentRoundsHalfEven, k, n, d
  <2> QED
    BY <2>4, <2>5
<1> QED
  BY <1>1, AnsweredOnce, PTL

\* FromMajor: for every width and every currency, whole units are scaled exactly, or
\* refused as an overflow.
THEOREM MajorAlwaysExact == ASSUME MoneyConstants PROVE Spec => []MajorExact
<1>1. Answered => MajorExact
  <2> SUFFICES ASSUME Answered, answer # NoAnswer, call.op = "major"
               PROVE  Exact(call.major * Scale(call.cur))
    BY DEF MajorExact, Returned
  <2>1. call.major \in IntW /\ call.cur \in DOMAIN Exponent
    BY DEF Answered, Calls, MoneyConstants
  <2>2. answer = FromMajor(call.major, call.cur)
    BY DEF Answered, Answer
  <2> QED
    BY <2>1, <2>2, MajorIsExact DEF Exact, MoneyConstants
<1> QED
  BY <1>1, AnsweredOnce, PTL

-----------------------------------------------------------------------------
(* Sum.                                                                     *)

\* The recursions of Sum and Total, over the positions of a slice.
SumOver(values, h) ==
    h = [s \in SUBSET DOMAIN values |->
            IF s = {} THEN Ok(0) ELSE SumStep(values[Max(s)], h[s \ {Max(s)}])]
TotalOver(values, h) ==
    h = [s \in SUBSET DOMAIN values |->
            IF s = {} THEN 0 ELSE h[s \ {Max(s)}] + values[Max(s)]]

Sums == {Ok(v) : v \in IntW} \cup {Err("overflow")}

\* One step of Sum.
LEMMA SumStepIs ==
    ASSUME Half \in Nat \ {0}, NEW v \in IntW, NEW total \in Sums
    PROVE  /\ SumStep(v, total) \in Sums
           /\ SumStep(v, total).ok =>
                 total.ok /\ total.value \in Int
                 /\ SumStep(v, total).value = total.value + v
<1>1. CASE total.ok
  <2>1. PICK t \in IntW : total = Ok(t)
    BY <1>1 DEF Sums, Err
  <2>2. total.value = t
    BY <2>1 DEF Ok
  <2>3. SumStep(v, total) = Add(t, v)
    BY <1>1, <2>2 DEF SumStep
  <2>4. SumStep(v, total) = IF t + v \in IntW THEN Ok(t + v) ELSE Err("overflow")
    BY <2>3, AddIsExact
  <2>5. CASE t + v \in IntW
    <3>1. SumStep(v, total) = Ok(t + v) /\ Ok(t + v) \in Sums
      BY <2>4, <2>5 DEF Sums
    <3> QED
      BY <1>1, <2>2, <3>1 DEF Ok
  <2>6. CASE t + v \notin IntW
    BY <2>4, <2>6 DEF Sums, Err
  <2> QED
    BY <2>5, <2>6
<1>2. CASE ~ total.ok
  BY <1>2 DEF SumStep
<1> QED
  BY <1>1, <1>2

\* The recursion of Sum has a solution: Sum adds the values up from the first.
LEMMA ColumnAdds ==
    ASSUME Half \in Nat \ {0}, NEW values \in Seq(IntW)
    PROVE  \E h : /\ Sum(values) = h[1 .. Len(values)] /\ h[{}] = Ok(0)
                  /\ \A k \in 1 .. Len(values) : h[1 .. k] = SumStep(values[k], h[1 .. k - 1])
<1> DEFINE n == Len(values)
           F == [i \in 1 .. n |-> [v \in Sums |-> SumStep(values[i], v)]]
           c == CHOOSE h : SumOver(values, h)
<1>1. n \in Nat /\ DOMAIN values = 1 .. n /\ \A i \in 1 .. n : values[i] \in IntW
  OBVIOUS
<1>2. Sum(values) = c[1 .. n]
  <2>1. Sum(values) = c[DOMAIN values]
    BY DEF Sum, FoldLeft, MapThenFoldSet, SumOver
  <2> QED
    BY <1>1, <2>1
<1>3. Ok(0) \in Sums
  BY DEF Sums
<1>4. \A i \in 1 .. n, v \in Sums : F[i][v] = SumStep(values[i], v) /\ F[i][v] \in Sums
  BY <1>1, SumStepIs
<1> HIDE DEF n, F, c
<1>5. PICK g : /\ FoldsOver(F, Ok(0), SUBSET (1 .. n), g)
               /\ \A s \in SUBSET (1 .. n) : g[s] \in Sums
  <2>1. \A i \in 1 .. n, v \in Sums : F[i][v] \in Sums
    BY <1>4, Zenon
  <2> QED
    BY <1>1, <1>3, <2>1, FoldExists
<1>6. \A s \in SUBSET (1 .. n) :
         s # {} => /\ Max(s) \in 1 .. n /\ s \ {Max(s)} \in SUBSET (1 .. n)
                   /\ F[Max(s)][g[s \ {Max(s)}]] = SumStep(values[Max(s)], g[s \ {Max(s)}])
  BY <1>1, <1>4, <1>5, MaxIn
<1>7. SumOver(values, g)
  BY <1>1, <1>5, <1>6 DEF SumOver, FoldsOver
<1>8. SumOver(values, c)
  BY <1>7, Zenon DEF c
<1>9. /\ c[{}] = Ok(0)
      /\ \A s \in SUBSET (1 .. n) : s # {} => c[s] = SumStep(values[Max(s)], c[s \ {Max(s)}])
  BY <1>1, <1>8 DEF SumOver
<1>10. \A k \in 1 .. n : c[1 .. k] = SumStep(values[k], c[1 .. k - 1])
  <2> TAKE k \in 1 .. n
  <2>1. k \in Nat \ {0} /\ 1 .. k \in SUBSET (1 .. n) /\ 1 .. k # {}
    <3>1. n \in Nat
      BY <1>1
    <3>2. k \in Nat /\ 1 <= k /\ k <= n
      BY <3>1
    <3>3. 1 .. k \subseteq 1 .. n /\ 1 \in 1 .. k
      BY <3>1, <3>2
    <3>4. k \in Nat \ {0}
      BY <3>2
    <3> QED
      BY <3>3, <3>4, Zenon
  <2> QED
    BY <1>9, <2>1, MaxUpTo
<1> QED
  BY <1>2, <1>9, <1>10 DEF n

\* So does Total.
LEMMA TotalAdds ==
    ASSUME NEW values \in Seq(Int)
    PROVE  \E t : /\ Total(values) = t[1 .. Len(values)] /\ t[{}] = 0
                  /\ \A k \in 1 .. Len(values) : t[1 .. k] = t[1 .. k - 1] + values[k]
<1> DEFINE n == Len(values)
           F == [i \in 1 .. n |-> [v \in Int |-> v + values[i]]]
           c == CHOOSE h : TotalOver(values, h)
<1>1. n \in Nat /\ DOMAIN values = 1 .. n /\ \A i \in 1 .. n : values[i] \in Int
  OBVIOUS
<1>2. Total(values) = c[1 .. n]
  <2>1. Total(values) = c[DOMAIN values]
    BY DEF Total, FoldLeft, MapThenFoldSet, TotalOver
  <2> QED
    BY <1>1, <2>1
<1>3. \A i \in 1 .. n, v \in Int : F[i][v] = v + values[i] /\ F[i][v] \in Int
  BY <1>1
<1> HIDE DEF n, F, c
<1>4. PICK g : /\ FoldsOver(F, 0, SUBSET (1 .. n), g)
               /\ \A s \in SUBSET (1 .. n) : g[s] \in Int
  <2>1. \A i \in 1 .. n, v \in Int : F[i][v] \in Int
    BY <1>3, Zenon
  <2>2. n \in Nat /\ 0 \in Int
    BY <1>1
  <2> QED
    BY <2>1, <2>2, FoldExists, Zenon
<1>5. \A s \in SUBSET (1 .. n) :
         s # {} => /\ Max(s) \in 1 .. n /\ s \ {Max(s)} \in SUBSET (1 .. n)
                   /\ F[Max(s)][g[s \ {Max(s)}]] = g[s \ {Max(s)}] + values[Max(s)]
  BY <1>1, <1>3, <1>4, MaxIn
<1>6. TotalOver(values, g)
  BY <1>1, <1>4, <1>5 DEF TotalOver, FoldsOver
<1>7. TotalOver(values, c)
  BY <1>6, Zenon DEF c
<1>8. /\ c[{}] = 0
      /\ \A s \in SUBSET (1 .. n) : s # {} => c[s] = c[s \ {Max(s)}] + values[Max(s)]
  BY <1>1, <1>7 DEF TotalOver
<1>9. \A k \in 1 .. n : c[1 .. k] = c[1 .. k - 1] + values[k]
  <2> TAKE k \in 1 .. n
  <2>1. k \in Nat \ {0} /\ 1 .. k \in SUBSET (1 .. n) /\ 1 .. k # {}
    <3>1. n \in Nat
      BY <1>1
    <3>2. k \in Nat /\ 1 <= k /\ k <= n
      BY <3>1
    <3>3. 1 .. k \subseteq 1 .. n /\ 1 \in 1 .. k
      BY <3>1, <3>2
    <3>4. k \in Nat \ {0}
      BY <3>2
    <3> QED
      BY <3>3, <3>4, Zenon
  <2> QED
    BY <1>8, <2>1, MaxUpTo
<1> QED
  BY <1>2, <1>8, <1>9 DEF n

\* Sum answers the true total, or an overflow.
LEMMA SumIsExact ==
    ASSUME Half \in Nat \ {0}, NEW values \in Seq(IntW)
    PROVE  Sum(values) \in Sums /\ (Sum(values).ok => Sum(values).value = Total(values))
<1> DEFINE n == Len(values)
<1>1. n \in Nat /\ (\A i \in 1 .. n : values[i] \in IntW) /\ values \in Seq(Int)
  OBVIOUS
<1>2. PICK h : /\ Sum(values) = h[1 .. n] /\ h[{}] = Ok(0)
               /\ \A k \in 1 .. n : h[1 .. k] = SumStep(values[k], h[1 .. k - 1])
  BY ColumnAdds
<1>3. PICK t : /\ Total(values) = t[1 .. n] /\ t[{}] = 0
               /\ \A k \in 1 .. n : t[1 .. k] = t[1 .. k - 1] + values[k]
  BY <1>1, TotalAdds
<1> DEFINE Good(k) == h[1 .. k] \in Sums /\ (h[1 .. k].ok => h[1 .. k].value = t[1 .. k])
           bad == {k \in 0 .. n : ~ Good(k)}
<1> HIDE DEF n
<1>4. bad = {}
  <2> SUFFICES ASSUME bad # {}
               PROVE  FALSE
    OBVIOUS
  <2>1. PICK k \in bad : \A j \in bad : k <= j
    <3> bad \in SUBSET Nat
      OBVIOUS
    <3> HIDE DEF bad
    <3> QED
      BY LeastNat
  <2>2. k \in 0 .. n /\ ~ Good(k)
    OBVIOUS
  <2>3. k # 0
    <3>1. 1 .. 0 = {}
      OBVIOUS
    <3>2. Good(0)
      BY <1>2, <1>3, <3>1 DEF Sums, Ok
    <3> QED
      BY <2>2, <3>2
  <2>4. k \in 1 .. n /\ k - 1 \in 0 .. n /\ Good(k - 1)
    <3>1. k \in 1 .. n /\ k - 1 \in 0 .. n /\ ~ k <= k - 1
      BY <1>1, <2>2, <2>3
    <3> QED
      BY <2>1, <3>1
  <2>5. /\ h[1 .. k] \in Sums
        /\ h[1 .. k].ok => /\ h[1 .. k - 1].ok
                           /\ h[1 .. k].value = h[1 .. k - 1].value + values[k]
    <3>1. h[1 .. k] = SumStep(values[k], h[1 .. k - 1]) /\ values[k] \in IntW
          /\ h[1 .. k - 1] \in Sums
      BY <1>1, <1>2, <2>4
    <3> QED
      BY <3>1, SumStepIs
  <2> QED
    BY <1>3, <2>2, <2>4, <2>5
<1>5. Good(n)
  BY <1>1, <1>4
<1> QED
  BY <1>2, <1>3, <1>5

-----------------------------------------------------------------------------
(* Decimal numbers.                                                         *)

LEMMA DigitsAre ==
    /\ \A d \in DOMAIN Digits : Digits[d] \in 0 .. 9
    /\ {"0", "1", "2", "3", "4", "5", "6", "7", "8", "9"} = DOMAIN Digits
    /\ Digits["0"] = 0
<1>1. DOMAIN Numerals = 1 .. 10
  BY DEF Numerals
<1>2. Range(Numerals) = {Numerals[i] : i \in 1 .. 10}
  BY <1>1 DEF Range
<1>3. /\ Numerals[1] = "0" /\ Numerals[2] = "1" /\ Numerals[3] = "2" /\ Numerals[4] = "3"
      /\ Numerals[5] = "4" /\ Numerals[6] = "5" /\ Numerals[7] = "6" /\ Numerals[8] = "7"
      /\ Numerals[9] = "8" /\ Numerals[10] = "9"
  BY DEF Numerals
<1>4. 1 .. 10 = {1, 2, 3, 4, 5, 6, 7, 8, 9, 10}
  OBVIOUS
<1>5. {"0", "1", "2", "3", "4", "5", "6", "7", "8", "9"} = DOMAIN Digits
  BY <1>2, <1>3, <1>4 DEF Digits
<1>6. \A d \in DOMAIN Digits : \E n \in 0 .. 9 : Numerals[n + 1] = d
  <2> TAKE d \in DOMAIN Digits
  <2>1. PICK i \in 1 .. 10 : Numerals[i] = d
    BY <1>2 DEF Digits
  <2>2. i - 1 \in 0 .. 9 /\ (i - 1) + 1 = i
    OBVIOUS
  <2> QED
    BY <2>1, <2>2
<1>7. \A d \in DOMAIN Digits : Digits[d] \in 0 .. 9 /\ Numerals[Digits[d] + 1] = d
  <2> TAKE d \in DOMAIN Digits
  <2>1. Digits[d] = CHOOSE n \in 0 .. 9 : Numerals[n + 1] = d
    BY DEF Digits
  <2> QED
    BY <1>6, <2>1
<1>8. Digits["0"] = 0
  <2>1. Digits["0"] \in 0 .. 9 /\ Numerals[Digits["0"] + 1] = "0"
    BY <1>5, <1>7
  <2> QED
    BY <1>3, <2>1
<1> QED
  BY <1>5, <1>7, <1>8

\* The recursion of Decimal, over the positions of a string.
DecimalOver(s, h) ==
    h = [p \in SUBSET DOMAIN s |->
            IF p = {} THEN 0 ELSE 10 * h[p \ {Max(p)}] + Digits[s[Max(p)]]]

\* A string of digits, which may be empty.
AllDigits(s) == s \in Seq(DOMAIN Digits)

\* h[k] is the number in the first k digits of a string: one more digit is worth ten
\* times what was read, and the digit.
Reads(s, h) ==
    /\ Decimal(s) = h[Len(s)] /\ h[0] = 0
    /\ \A k \in 0 .. Len(s) : h[k] \in Nat
    /\ \A k \in 1 .. Len(s) : h[k] = 10 * h[k - 1] + Digits[s[k]]

\* Decimal reads a string of digits from the first.
LEMMA DecimalReads ==
    ASSUME NEW s, AllDigits(s)
    PROVE  \E h : Reads(s, h)
<1> DEFINE n == Len(s)
           F == [i \in 1 .. n |-> [v \in Nat |-> 10 * v + Digits[s[i]]]]
           c == CHOOSE h : DecimalOver(s, h)
<1>1. n \in Nat /\ DOMAIN s = 1 .. n /\ \A i \in 1 .. n : Digits[s[i]] \in 0 .. 9
  BY DigitsAre DEF AllDigits
<1>2. Decimal(s) = c[1 .. n]
  <2>1. Decimal(s) = c[DOMAIN s]
    BY DEF Decimal, FoldLeft, MapThenFoldSet, DecimalOver
  <2> QED
    BY <1>1, <2>1
<1>3. \A i \in 1 .. n, v \in Nat : F[i][v] = 10 * v + Digits[s[i]] /\ F[i][v] \in Nat
  <2> TAKE i \in 1 .. n, v \in Nat
  <2>1. Digits[s[i]] \in 0 .. 9
    BY <1>1
  <2> QED
    BY <2>1
<1> HIDE DEF n, F, c
<1>4. PICK g : /\ FoldsOver(F, 0, SUBSET (1 .. n), g)
               /\ \A p \in SUBSET (1 .. n) : g[p] \in Nat
  <2>1. \A i \in 1 .. n, v \in Nat : F[i][v] \in Nat
    BY <1>3, Zenon
  <2>2. n \in Nat /\ 0 \in Nat
    BY <1>1
  <2> QED
    BY <2>1, <2>2, FoldExists, Zenon
<1>5. \A p \in SUBSET (1 .. n) :
         p # {} => /\ Max(p) \in 1 .. n /\ p \ {Max(p)} \in SUBSET (1 .. n)
                   /\ F[Max(p)][g[p \ {Max(p)}]] = 10 * g[p \ {Max(p)}] + Digits[s[Max(p)]]
  BY <1>1, <1>3, <1>4, MaxIn
<1>6. DecimalOver(s, g)
  BY <1>1, <1>4, <1>5 DEF DecimalOver, FoldsOver
<1>7. DecimalOver(s, c)
  BY <1>6, Zenon DEF c
<1>8. /\ c[{}] = 0
      /\ \A p \in SUBSET (1 .. n) :
            p # {} => c[p] = 10 * c[p \ {Max(p)}] + Digits[s[Max(p)]]
  BY <1>1, <1>7 DEF DecimalOver
<1> DEFINE h == [k \in 0 .. n |-> c[1 .. k]]
<1>9. \A k \in 1 .. n : h[k] = 10 * h[k - 1] + Digits[s[k]]
  <2> TAKE k \in 1 .. n
  <2>1. k \in Nat \ {0} /\ 1 .. k \in SUBSET (1 .. n) /\ 1 .. k # {}
    <3>1. n \in Nat
      BY <1>1
    <3>2. k \in Nat /\ 1 <= k /\ k <= n
      BY <3>1
    <3>3. 1 .. k \subseteq 1 .. n /\ 1 \in 1 .. k
      BY <3>1, <3>2
    <3>4. k \in Nat \ {0}
      BY <3>2
    <3> QED
      BY <3>3, <3>4, Zenon
  <2>2. c[1 .. k] = 10 * c[1 .. k - 1] + Digits[s[k]]
    BY <1>8, <2>1, MaxUpTo
  <2>3. k \in 0 .. n /\ k - 1 \in 0 .. n
    BY <1>1
  <2> QED
    BY <2>2, <2>3
<1>10. h[0] = 0 /\ Decimal(s) = h[n]
  <2>1. 1 .. 0 = {} /\ 0 \in 0 .. n /\ n \in 0 .. n
    BY <1>1
  <2> QED
    BY <1>2, <1>8, <2>1
<1> HIDE DEF h
<1> DEFINE bad == {k \in 0 .. n : h[k] \notin Nat}
<1>11. bad = {}
  <2> SUFFICES ASSUME bad # {}
               PROVE  FALSE
    OBVIOUS
  <2>1. PICK k \in bad : \A j \in bad : k <= j
    <3> bad \in SUBSET Nat
      OBVIOUS
    <3> HIDE DEF bad
    <3> QED
      BY LeastNat
  <2>2. k \in 1 .. n /\ k - 1 \in 0 .. n /\ ~ k <= k - 1
    BY <1>1, <1>10
  <2>3. h[k - 1] \in Nat /\ Digits[s[k]] \in 0 .. 9
    BY <1>1, <2>1, <2>2
  <2> QED
    BY <1>9, <2>1, <2>2, <2>3
<1>12. \A k \in 0 .. n : h[k] \in Nat
  BY <1>11
<1> QED
  BY <1>9, <1>10, <1>12 DEF n, Reads

LEMMA DecimalIsNat ==
    ASSUME NEW s, AllDigits(s)
    PROVE  Decimal(s) \in Nat
<1>1. Len(s) \in 0 .. Len(s)
  BY DEF AllDigits
<1> QED
  BY <1>1, DecimalReads DEF Reads

\* The number read from a string is reached on the way to any that begins with it.
LEMMA DecimalPrefix ==
    ASSUME NEW s, NEW a, AllDigits(s), AllDigits(a), Len(s) <= Len(a),
           \A i \in 1 .. Len(s) : a[i] = s[i]
    PROVE  \E g : Reads(a, g) /\ g[Len(s)] = Decimal(s)
<1> DEFINE n == Len(s)
           m == Len(a)
<1>1. n \in Nat /\ m \in Nat /\ n <= m
  BY DEF AllDigits
<1>2. PICK h : /\ Decimal(s) = h[n] /\ h[0] = 0
               /\ \A k \in 1 .. n : h[k] = 10 * h[k - 1] + Digits[s[k]]
  BY DecimalReads DEF Reads
<1>3. PICK g : /\ Reads(a, g)
               /\ Decimal(a) = g[m] /\ g[0] = 0
               /\ \A k \in 0 .. m : g[k] \in Nat
               /\ \A k \in 1 .. m : g[k] = 10 * g[k - 1] + Digits[a[k]]
  BY DecimalReads DEF Reads
<1> DEFINE bad == {k \in 0 .. n : g[k] # h[k]}
<1>4. \A i \in 1 .. n : a[i] = s[i]
  OBVIOUS
<1> HIDE DEF n, m
<1>5. bad = {}
  <2> SUFFICES ASSUME bad # {}
               PROVE  FALSE
    OBVIOUS
  <2>1. PICK k \in bad : \A j \in bad : k <= j
    <3> bad \in SUBSET Nat
      OBVIOUS
    <3> HIDE DEF bad
    <3> QED
      BY LeastNat
  <2>2. k \in 1 .. n /\ k \in 1 .. m /\ k - 1 \in 0 .. n /\ ~ k <= k - 1
    BY <1>1, <1>2, <1>3
  <2>3. g[k - 1] = h[k - 1] /\ a[k] = s[k]
    BY <1>4, <2>1, <2>2
  <2> QED
    BY <1>2, <1>3, <2>1, <2>2, <2>3
<1>6. g[n] = h[n]
  BY <1>1, <1>5
<1> QED
  BY <1>2, <1>3, <1>6 DEF n, m

\* d stands for the places f after the point of w, in the minor unit.
Places(w, f, exp, d) ==
    /\ AllDigits(d) /\ Len(d) = exp
    /\ Decimal(d) \in 0 .. 10 ^ exp - 1
    /\ Decimal(w \o f) * 10 ^ (exp - Len(f)) = Decimal(w) * 10 ^ exp + Decimal(d)

\* The places after the point, up to two of them, are padded on the right.
LEMMA DecimalPlaces ==
    ASSUME NEW w, NEW f, NEW exp \in 0 .. 2, AllDigits(w), AllDigits(f), Len(f) <= exp
    PROVE  Places(w, f, exp, Padded(f, exp))
<1> DEFINE p == Padded(f, exp)
           n == Len(w)
           k == Len(f)
           wf == w \o f
           dw == Decimal(w)
<1>1. /\ n \in Nat /\ k \in 0 .. exp
      /\ \A i \in 1 .. k : f[i] \in DOMAIN Digits
  BY DEF AllDigits
<1>2. 10 ^ 0 = 1 /\ 10 ^ 1 = 10 /\ 10 ^ 2 = 100
  OBVIOUS
<1>3. "0" \in DOMAIN Digits /\ Digits["0"] = 0 /\ \A d \in DOMAIN Digits : Digits[d] \in 0 .. 9
  BY DigitsAre
<1>4. /\ AllDigits(wf) /\ Len(wf) = n + k
      /\ \A i \in 1 .. n : wf[i] = w[i]
      /\ \A i \in 1 .. k : wf[n + i] = f[i]
  <2>1. w \in Seq(DOMAIN Digits) /\ f \in Seq(DOMAIN Digits)
    BY DEF AllDigits
  <2> QED
    BY <2>1 DEF AllDigits
<1>5. /\ AllDigits(p) /\ Len(p) = exp
      /\ \A i \in 1 .. k : p[i] = f[i]
      /\ \A i \in 1 .. exp : i > k => p[i] = "0"
  <2> DEFINE z == [i \in 1 .. exp - k |-> "0"]
  <2>1. exp - k \in Nat
    BY <1>1
  <2>2. z \in Seq(DOMAIN Digits) /\ Len(z) = exp - k /\ \A i \in 1 .. exp - k : z[i] = "0"
    <3>1. z \in [1 .. exp - k -> DOMAIN Digits]
      BY <1>3
    <3> QED
      BY <2>1, <3>1, IsASeq
  <2>3. f \in Seq(DOMAIN Digits) /\ p = f \o z
    BY DEF AllDigits, Padded
  <2> HIDE DEF z, p, k
  <2>4. p \in Seq(DOMAIN Digits) /\ Len(p) = k + (exp - k)
        /\ \A i \in 1 .. Len(p) : p[i] = IF i <= k THEN f[i] ELSE z[i - k]
    BY <2>2, <2>3, ConcatProperties DEF k
  <2>5. Len(p) = exp /\ \A i \in 1 .. k : i \in 1 .. exp
    BY <1>1, <2>4
  <2>6. \A i \in 1 .. exp : i > k => i - k \in 1 .. exp - k /\ ~ i <= k
    BY <1>1
  <2>7. \A i \in 1 .. k : p[i] = f[i]
    BY <2>4, <2>5
  <2>8. \A i \in 1 .. exp : i > k => p[i] = "0"
    BY <2>2, <2>4, <2>5, <2>6
  <2> QED
    BY <2>4, <2>5, <2>7, <2>8 DEF AllDigits
<1>6. PICK g : /\ Decimal(wf) = g[n + k] /\ g[n] = dw
               /\ \A j \in 0 .. n + k : g[j] \in Nat
               /\ \A j \in 1 .. n + k : g[j] = 10 * g[j - 1] + Digits[wf[j]]
  <2>1. n <= Len(wf)
    BY <1>1, <1>4
  <2>2. \A i \in 1 .. Len(w) : wf[i] = w[i]
    BY <1>4
  <2>3. \E g : Reads(wf, g) /\ g[Len(w)] = Decimal(w)
    <3> HIDE DEF wf
    <3> QED
      BY <1>4, <2>1, <2>2, DecimalPrefix
  <2> HIDE DEF wf
  <2> QED
    BY <1>4, <2>3 DEF Reads
<1>7. PICK h : /\ Decimal(p) = h[exp] /\ h[0] = 0
               /\ \A j \in 1 .. exp : h[j] = 10 * h[j - 1] + Digits[p[j]]
  <2> HIDE DEF p
  <2>1. PICK h : Reads(p, h)
    BY <1>5, DecimalReads
  <2> QED
    BY <1>5, <2>1 DEF Reads
<1>8. \A i \in 1 .. k : g[n + i] = 10 * g[n + i - 1] + Digits[f[i]] /\ Digits[f[i]] \in 0 .. 9
  <2> TAKE i \in 1 .. k
  <2>1. n + i \in 1 .. n + k
    BY <1>1
  <2> QED
    BY <1>1, <1>3, <1>4, <1>6, <2>1
<1>9. \A i \in 1 .. exp :
         h[i] = 10 * h[i - 1] + (IF i <= k THEN Digits[f[i]] ELSE 0)
  <2> TAKE i \in 1 .. exp
  <2>1. CASE i <= k
    BY <1>1, <1>5, <1>7, <2>1
  <2>2. CASE i > k
    <3>1. p[i] = "0" /\ Digits[p[i]] = 0
      BY <1>3, <1>5, <2>2
    <3> QED
      BY <1>1, <1>7, <2>2, <3>1
  <2> QED
    BY <1>1, <2>1, <2>2
<1>10. dw \in Nat
  BY DecimalIsNat
<1>11. /\ Decimal(p) \in 0 .. 10 ^ exp - 1
       /\ Decimal(wf) * 10 ^ (exp - k) = dw * 10 ^ exp + Decimal(p)
  <2> DEFINE a == 10 ^ exp
             b == 10 ^ (exp - k)
             u == Digits[f[1]]
             v == Digits[f[2]]
  <2>1. n \in Nat /\ k \in Nat /\ k <= exp /\ (exp = 0 \/ exp = 1 \/ exp = 2)
    BY <1>1
  <2>2. (k >= 1 => u \in 0 .. 9 /\ g[n + 1] = 10 * dw + u)
        /\ (k >= 2 => v \in 0 .. 9 /\ g[n + 2] = 10 * g[n + 1] + v)
    <3>1. (n + 1) - 1 = n /\ (n + 2) - 1 = n + 1
      BY <2>1
    <3>2. (k >= 1 => 1 \in 1 .. k) /\ (k >= 2 => 2 \in 1 .. k)
      BY <2>1
    <3> HIDE DEF k, n, dw
    <3> QED
      <4>1. k >= 1 => u \in 0 .. 9 /\ g[n + 1] = 10 * g[n + 1 - 1] + u
        BY <1>8, <3>2
      <4>2. k >= 2 => v \in 0 .. 9 /\ g[n + 2] = 10 * g[n + 2 - 1] + v
        BY <1>8, <3>2
      <4>3. g[n + 1 - 1] = dw /\ g[n + 2 - 1] = g[n + 1]
        BY <1>6, <2>1, <3>1
      <4> QED
        BY <4>1, <4>2, <4>3
  <2>3. /\ exp >= 1 => h[1] = 10 * h[0] + (IF 1 <= k THEN u ELSE 0)
        /\ exp >= 2 => h[2] = 10 * h[1] + (IF 2 <= k THEN v ELSE 0)
    <3>1. (exp >= 1 => 1 \in 1 .. exp) /\ (exp >= 2 => 2 \in 1 .. exp)
      BY <2>1
    <3> HIDE DEF k
    <3> QED
      BY <1>9, <3>1
  <2>4. /\ exp = 0 => a = 1
        /\ exp = 1 => a = 10
        /\ exp = 2 => a = 100
    BY <1>2, Zenon
  <2>5. /\ exp - k = 0 => b = 1
        /\ exp - k = 1 => b = 10
        /\ exp - k = 2 => b = 100
    BY <1>2, Zenon
  <2>6. Decimal(wf) = g[n + k] /\ Decimal(p) = h[exp] /\ h[0] = 0
    BY <1>6, <1>7
  <2> SUFFICES Decimal(p) \in 0 .. a - 1 /\ Decimal(wf) * b = dw * a + Decimal(p)
    OBVIOUS
  <2> HIDE DEF p, n, k, wf, dw, a, b, u, v
  <2>7. CASE k = 0
    <3>1. n + k = n
      BY <2>1, <2>7
    <3>2. Decimal(wf) = dw
      BY <1>6, <2>6, <3>1
    <3>3. /\ exp = 0 => a = 1 /\ b = 1 /\ h[exp] = 0
          /\ exp = 1 => a = 10 /\ b = 10 /\ h[exp] = 0
          /\ exp = 2 => a = 100 /\ b = 100 /\ h[exp] = 0
      BY <2>1, <2>3, <2>4, <2>5, <2>6, <2>7
    <3>4. a \in Nat \ {0} /\ b = a /\ Decimal(p) = 0
      BY <2>1, <2>6, <3>3
    <3> QED
      BY <1>10, <3>2, <3>4
  <2>8. CASE k = 1
    <3>1. Decimal(wf) = 10 * dw + u /\ u \in 0 .. 9
      BY <2>1, <2>2, <2>6, <2>8
    <3>2. /\ exp = 1 => a = 10 /\ b = 1 /\ h[exp] = u
          /\ exp = 2 => a = 100 /\ b = 10 /\ h[exp] = 10 * u
      BY <2>1, <2>3, <2>4, <2>5, <2>6, <2>8, <3>1
    <3>3. CASE exp = 1
      <4>1. a = 10 /\ b = 1 /\ Decimal(p) = u
        BY <2>6, <3>2, <3>3
      <4> QED
        BY <1>10, <3>1, <4>1
    <3>4. CASE exp = 2
      <4>1. a = 100 /\ b = 10 /\ Decimal(p) = 10 * u
        BY <2>6, <3>2, <3>4
      <4> QED
        BY <1>10, <3>1, <4>1
    <3> QED
      BY <2>1, <2>8, <3>3, <3>4
  <2>9. CASE k = 2
    <3>1. exp = 2 /\ a = 100 /\ b = 1
      BY <2>1, <2>4, <2>5, <2>9
    <3>2. u \in 0 .. 9 /\ v \in 0 .. 9
      BY <2>2, <2>9
    <3>3. Decimal(wf) = 10 * (10 * dw + u) + v
      BY <2>2, <2>6, <2>9
    <3>4. Decimal(p) = 10 * u + v
      BY <2>3, <2>6, <2>9, <3>1, <3>2
    <3> QED
      BY <1>10, <3>1, <3>2, <3>3, <3>4
  <2> QED
    BY <2>1, <2>7, <2>8, <2>9
<1> QED
  BY <1>5, <1>11 DEF Places

-----------------------------------------------------------------------------
(* Text.                                                                    *)

\* Point is the position of the first point of a string, or 0.
PointAt(s, p) ==
    /\ p \in 0 .. Len(s)
    /\ p # 0 => s[p] = "."
    /\ \A i \in 1 .. Len(s) : (p = 0 \/ i < p) => s[i] # "."

LEMMA PointIs ==
    ASSUME NEW s \in Seq(STRING)
    PROVE  PointAt(s, Point(s)) /\ \A p : PointAt(s, p) => p = Point(s)
<1> DEFINE I == {i \in 1 .. Len(s) : s[i] = "."}
<1>1. Point(s) = IF I # {} THEN Min(I) ELSE 0
  BY DEF Point, SelectInSeq
<1>2. Len(s) \in Nat
  OBVIOUS
<1>3. PointAt(s, Point(s))
  <2>1. CASE I = {}
    BY <1>1, <1>2, <2>1 DEF PointAt
  <2>2. CASE I # {}
    <3>1. PICK m \in I : \A k \in I : m <= k
      <4> I \in SUBSET Nat
        OBVIOUS
      <4> HIDE DEF I
      <4> QED
        BY <2>2, LeastNat
    <3>2. Min(I) \in I /\ \A k \in I : Min(I) <= k
      <4> HIDE DEF I
      <4>1. \E x \in I : \A y \in I : x =< y
        BY <3>1
      <4> QED
        BY <4>1, Zenon DEF Min
    <3> DEFINE m0 == Min(I)
    <3>3. Point(s) = m0
      BY <1>1, <2>2
    <3> HIDE DEF m0
    <3> QED
      BY <1>2, <3>2, <3>3 DEF PointAt, m0
  <2> QED
    BY <2>1, <2>2
<1> HIDE DEF I
<1>4. ASSUME NEW p, NEW q, PointAt(s, p), PointAt(s, q)
      PROVE  p = q
  BY <1>2, <1>4 DEF PointAt
<1> QED
  BY <1>3, <1>4

\* Digits are read as they stand, or do not have the width.
LEMMA IntegerIs ==
    ASSUME NEW s, AllDigits(s), Len(s) > 0
    PROVE  /\ IsDigits(s)
           /\ ParseInt(s) = IF Decimal(s) \in IntW THEN Ok(Decimal(s)) ELSE Err("format")
<1>1. s # <<>> /\ DOMAIN s = 1 .. Len(s) /\ Head(s) = s[1] /\ 1 \in 1 .. Len(s)
      /\ \A i \in 1 .. Len(s) : s[i] \in DOMAIN Digits
  BY DEF AllDigits
<1>2. Head(s) \notin {"-", "+"}
  BY <1>1, DigitsAre
<1>3. IsDigits(s)
  BY <1>1 DEF IsDigits
<1> QED
  BY <1>2, <1>3 DEF ParseInt

\* So are digits after a plus sign.
LEMMA PlusIntegerIs ==
    ASSUME NEW s \in Seq(STRING), s # <<>>, Head(s) = "+",
           AllDigits(Tail(s)), Len(Tail(s)) > 0
    PROVE  ParseInt(s) =
               IF Decimal(Tail(s)) \in IntW THEN Ok(Decimal(Tail(s))) ELSE Err("format")
<1>1. IsDigits(Tail(s))
  BY IntegerIs
<1> QED
  BY <1>1 DEF ParseInt

LEMMA DigitsOf ==
    ASSUME NEW s \in Seq(STRING), IsDigits(s)
    PROVE  AllDigits(s) /\ Len(s) > 0
<1>1. s \in [1 .. Len(s) -> DOMAIN Digits] /\ Len(s) \in Nat
  BY DEF IsDigits
<1>2. s \in Seq(DOMAIN Digits)
  BY <1>1, SeqDef
<1> QED
  BY <1>2 DEF AllDigits, IsDigits

LEMMA PartsAre ==
    ASSUME NEW s \in Seq(STRING)
    PROVE  /\ Point(s) \in 0 .. Len(s) /\ Len(s) \in Nat
           /\ WholePart(s) \in Seq(STRING)
           /\ Point(s) = 0 => WholePart(s) = s
           /\ Point(s) # 0 => /\ Len(WholePart(s)) = Point(s) - 1
                              /\ \A i \in 1 .. Point(s) - 1 : WholePart(s)[i] = s[i]
                              /\ FracPart(s) \in Seq(STRING)
                              /\ Len(FracPart(s)) = Len(s) - Point(s)
                              /\ \A i \in 1 .. Len(s) - Point(s) :
                                    FracPart(s)[i] = s[Point(s) + i]
<1> DEFINE p == Point(s)
           n == Len(s)
<1>1. p \in 0 .. n /\ n \in Nat
  BY PointIs DEF PointAt
<1> HIDE DEF p
<1>2. CASE p = 0
  BY <1>1, <1>2 DEF WholePart, p
<1>3. CASE p # 0
  <2>1. /\ SubSeq(s, 1, p - 1) \in Seq(STRING) /\ Len(SubSeq(s, 1, p - 1)) = p - 1
        /\ \A i \in 1 .. p - 1 : SubSeq(s, 1, p - 1)[i] = s[i]
    <3>1. p - 1 \in 0 .. n
      BY <1>1, <1>3
    <3> QED
      BY <1>1, <3>1, SubSeqProperties
  <2>2. /\ SubSeq(s, p + 1, n) \in Seq(STRING) /\ Len(SubSeq(s, p + 1, n)) = n - p
        /\ \A i \in 1 .. n - p : SubSeq(s, p + 1, n)[i] = s[p + i]
    <3>1. p + 1 \in 1 .. n + 1
      BY <1>1
    <3>2. /\ SubSeq(s, p + 1, n) \in Seq(STRING)
          /\ Len(SubSeq(s, p + 1, n)) = IF p + 1 <= n THEN n - (p + 1) + 1 ELSE 0
          /\ \A i \in 1 .. n - (p + 1) + 1 : SubSeq(s, p + 1, n)[i] = s[p + 1 + i - 1]
      BY <1>1, <3>1, SubSeqProperties
    <3>3. n - (p + 1) + 1 = n - p /\ \A i \in 1 .. n - p : p + 1 + i - 1 = p + i
      BY <1>1
    <3>4. Len(SubSeq(s, p + 1, n)) = n - p
      BY <1>1, <3>2
    <3> HIDE DEF n
    <3>5. \A i \in 1 .. n - p : SubSeq(s, p + 1, n)[i] = s[p + i]
      BY <3>2, <3>3
    <3> QED
      BY <3>2, <3>4, <3>5
  <2> QED
    BY <1>1, <1>3, <2>1, <2>2 DEF WholePart, FracPart, p
<1> QED
  BY <1>2, <1>3

\* A plus sign changes neither part of a number.
LEMMA PlusIsNothing ==
    ASSUME NEW s \in Seq(STRING), s # <<>>, Head(s) = "+", IsDigits(WholePart(Tail(s)))
    PROVE  /\ ParseInt(WholePart(s)) = ParseInt(WholePart(Tail(s)))
           /\ \A exp : Fraction(s, exp) = Fraction(Tail(s), exp)
<1> DEFINE u == Tail(s)
           n == Len(u)
           p == Point(u)
           q == Point(s)
<1>1. /\ u \in Seq(STRING) /\ n \in Nat /\ Len(s) = n + 1 /\ s[1] = "+"
      /\ \A i \in 1 .. n : u[i] = s[i + 1]
  OBVIOUS
<1> HIDE DEF u
<1>2. PointAt(u, p) /\ p \in 0 .. n
  BY <1>1, PointIs DEF PointAt
<1> HIDE DEF p
<1>3. PointAt(s, IF p = 0 THEN 0 ELSE p + 1)
  <2> DEFINE r == IF p = 0 THEN 0 ELSE p + 1
  <2>1. r \in 0 .. Len(s)
    BY <1>1, <1>2
  <2>2. r # 0 => s[r] = "."
    BY <1>1, <1>2 DEF PointAt
  <2>3. ASSUME NEW i \in 1 .. Len(s), r = 0 \/ i < r
        PROVE  s[i] # "."
    <3>1. CASE i = 1
      BY <1>1, <3>1
    <3>2. CASE i # 1
      <4>1. i - 1 \in 1 .. n /\ (p = 0 \/ i - 1 < p) /\ (i - 1) + 1 = i
        BY <1>1, <1>2, <2>3, <3>2
      <4> QED
        BY <1>1, <1>2, <4>1 DEF PointAt
    <3> QED
      BY <3>1, <3>2
  <2> HIDE DEF r
  <2>4. PointAt(s, r)
    BY <2>1, <2>2, <2>3 DEF PointAt
  <2> QED
    BY <2>4 DEF r
<1>4. q = IF p = 0 THEN 0 ELSE p + 1
  BY <1>3, PointIs
<1> HIDE DEF q, n
<1>5. /\ p = 0 => WholePart(u) = u
      /\ p # 0 => /\ Len(WholePart(u)) = p - 1
                  /\ \A i \in 1 .. p - 1 : WholePart(u)[i] = u[i]
                  /\ FracPart(u) \in Seq(STRING) /\ Len(FracPart(u)) = n - p
                  /\ \A i \in 1 .. n - p : FracPart(u)[i] = u[p + i]
      /\ WholePart(u) \in Seq(STRING)
  BY <1>1, PartsAre DEF p, n
<1>6. /\ q = 0 => WholePart(s) = s
      /\ q # 0 => /\ Len(WholePart(s)) = q - 1
                  /\ \A i \in 1 .. q - 1 : WholePart(s)[i] = s[i]
                  /\ FracPart(s) \in Seq(STRING) /\ Len(FracPart(s)) = n + 1 - q
                  /\ \A i \in 1 .. n + 1 - q : FracPart(s)[i] = s[q + i]
      /\ WholePart(s) \in Seq(STRING)
  <2>1. Len(s) - q = n + 1 - q
    <3>1. Len(s) = n + 1 /\ n \in Nat /\ q \in Int
      BY <1>1, <1>2, <1>4 DEF n
    <3> QED
      BY <3>1
  <2>2. /\ q = 0 => WholePart(s) = s
        /\ q # 0 => /\ Len(WholePart(s)) = q - 1
                    /\ \A i \in 1 .. q - 1 : WholePart(s)[i] = s[i]
                    /\ FracPart(s) \in Seq(STRING) /\ Len(FracPart(s)) = Len(s) - q
                    /\ \A i \in 1 .. Len(s) - q : FracPart(s)[i] = s[q + i]
        /\ WholePart(s) \in Seq(STRING)
    BY PartsAre DEF q
  <2> QED
    BY <2>1, <2>2, Zenon
<1>7. WholePart(s) # <<>> /\ Head(WholePart(s)) = "+" /\ Tail(WholePart(s)) = WholePart(u)
  <2>1. CASE p = 0
    <3>1. WholePart(s) = s /\ WholePart(u) = u
      BY <1>4, <1>5, <1>6, <2>1
    <3> QED
      BY <1>1, <3>1 DEF u
  <2>2. CASE p # 0
    <3> DEFINE a == WholePart(s)
               b == WholePart(u)
    <3>1. /\ a \in Seq(STRING) /\ Len(a) = p /\ \A i \in 1 .. p : a[i] = s[i]
          /\ b \in Seq(STRING) /\ Len(b) = p - 1 /\ \A i \in 1 .. p - 1 : b[i] = s[i + 1]
          /\ p \in Nat /\ p >= 1
      <4>1. q - 1 = p /\ q # 0 /\ \A i \in 1 .. p - 1 : i \in 1 .. n
        BY <1>1, <1>2, <1>4, <2>2
      <4> QED
        BY <1>1, <1>2, <1>5, <1>6, <2>2, <4>1
    <3> HIDE DEF a, b
    <3>2. a # <<>> /\ Head(a) = a[1] /\ a[1] = s[1]
      BY <3>1
    <3>3. /\ Tail(a) \in Seq(STRING) /\ Len(Tail(a)) = p - 1
          /\ \A i \in 1 .. p - 1 : Tail(a)[i] = a[i + 1]
      BY <3>1, <3>2, HeadTailProperties
    <3>4. \A i \in 1 .. p - 1 : i + 1 \in 1 .. p
      BY <3>1
    <3>5. \A i \in 1 .. p - 1 : Tail(a)[i] = b[i]
      BY <3>1, <3>3, <3>4
    <3>6. Tail(a) = b
      BY <3>1, <3>3, <3>5, SeqEqual
    <3> QED
      BY <1>1, <3>2, <3>6 DEF a, b
  <2> QED
    BY <2>1, <2>2
<1>8. AllDigits(WholePart(u)) /\ Len(WholePart(u)) > 0
  BY <1>5, DigitsOf DEF u
<1>9. ParseInt(WholePart(s)) = ParseInt(WholePart(u))
  <2>1. ParseInt(WholePart(u)) = IF Decimal(WholePart(u)) \in IntW
                                 THEN Ok(Decimal(WholePart(u))) ELSE Err("format")
    BY <1>8, IntegerIs
  <2> QED
    BY <1>6, <1>7, <1>8, <2>1, PlusIntegerIs
<1>10. \A exp : Fraction(s, exp) = Fraction(u, exp)
  <2>1. CASE p = 0
    BY <1>4, <2>1 DEF Fraction, p, q
  <2>2. CASE p # 0
    <3>1. /\ q # 0 /\ n + 1 - q = n - p
          /\ \A i \in 1 .. n - p : q + i = (p + i) + 1 /\ p + i \in 1 .. n
      BY <1>1, <1>2, <1>4, <2>2
    <3>2. \A i \in 1 .. n - p : FracPart(s)[i] = FracPart(u)[i]
      <4> TAKE i \in 1 .. n - p
      <4>1. FracPart(u)[i] = u[p + i] /\ u[p + i] = s[(p + i) + 1]
        BY <1>1, <1>5, <2>2, <3>1 DEF n
      <4>2. FracPart(s)[i] = s[q + i]
        BY <1>6, <3>1
      <4> QED
        BY <3>1, <4>1, <4>2
    <3>3. FracPart(s) = FracPart(u)
      BY <1>5, <1>6, <2>2, <3>1, <3>2, SeqEqual
    <3> QED
      BY <2>2, <3>1, <3>3 DEF Fraction, p, q
  <2> QED
    BY <2>1, <2>2
<1> QED
  BY <1>9, <1>10 DEF u

\* The two parts of a number, in the currency's minor unit.
LEMMA PlacesAre ==
    ASSUME Half \in Nat \ {0}, NEW u \in Seq(STRING), NEW exp \in 0 .. 2,
           IsDigits(WholePart(u)),
           Point(u) # 0 => IsDigits(FracPart(u)) /\ Len(FracPart(u)) \in 1 .. exp
    PROVE  LET places == IF Point(u) = 0 THEN <<>> ELSE FracPart(u) IN
           \E f \in 0 .. 10 ^ exp - 1 :
              /\ Fraction(u, exp) = IF f \in IntW THEN Ok(f) ELSE Err("format")
              /\ Decimal(WholePart(u) \o places) * 10 ^ (exp - Len(places))
                    = Decimal(WholePart(u)) * 10 ^ exp + f
<1> DEFINE w == WholePart(u)
<1>1. w \in Seq(STRING) /\ (Point(u) # 0 => FracPart(u) \in Seq(STRING))
  BY PartsAre
<1>2. AllDigits(w)
  BY <1>1, DigitsOf
<1>3. Decimal(w) \in Nat
  BY <1>2, DecimalIsNat
<1>4. 10 ^ exp \in Nat \ {0}
  <2>1. 10 ^ 0 = 1 /\ 10 ^ 1 = 10 /\ 10 ^ 2 = 100
    OBVIOUS
  <2>2. exp = 0 \/ exp = 1 \/ exp = 2
    OBVIOUS
  <2> DEFINE a == 10 ^ exp
  <2>3. a = 1 \/ a = 10 \/ a = 100
    BY <2>1, <2>2, Zenon
  <2> HIDE DEF a
  <2>4. a \in Nat \ {0}
    BY <2>3
  <2> QED
    BY <2>4 DEF a
<1>5. CASE Point(u) = 0
  <2>1. Fraction(u, exp) = Ok(0) /\ 0 \in IntW
    BY <1>5 DEF Fraction
  <2>2. w \o <<>> = w /\ Len(<<>>) = 0 /\ exp - 0 = exp
    BY <1>1
  <2> DEFINE a == 10 ^ exp
  <2>3. a \in Nat \ {0} /\ Decimal(w) * a = Decimal(w) * a + 0 /\ 0 \in 0 .. a - 1
    <3> HIDE DEF w, a
    <3>1. a \in Nat \ {0}
      BY <1>4 DEF a
    <3>2. Decimal(w) * a \in Nat
      BY <1>3, <3>1
    <3> QED
      BY <3>1, <3>2
  <2> HIDE DEF w
  <2> QED
    BY <1>5, <2>1, <2>2, <2>3 DEF w
<1>6. CASE Point(u) # 0
  <2> DEFINE p == FracPart(u)
  <2>1. /\ AllDigits(p) /\ Len(p) > 0 /\ Len(p) <= exp /\ exp # 0 /\ Len(p) # 0
        /\ ~ Len(p) > exp
    <3>1. IsDigits(p) /\ Len(p) \in 1 .. exp
      BY <1>6
    <3>2. AllDigits(p) /\ Len(p) > 0
      BY <1>1, <1>6, <3>1, DigitsOf
    <3> QED
      BY <3>1, <3>2
  <2> DEFINE d == Padded(p, exp)
  <2>2. /\ AllDigits(d) /\ Len(d) = exp /\ Decimal(d) \in 0 .. 10 ^ exp - 1
        /\ Decimal(w \o p) * 10 ^ (exp - Len(p)) = Decimal(w) * 10 ^ exp + Decimal(d)
    <3> HIDE DEF p, w
    <3> QED
      <4>1. Places(w, p, exp, d)
        BY <1>2, <2>1, DecimalPlaces
      <4> QED
        BY <4>1, Zenon DEF Places
  <2>3. Fraction(u, exp) = ParseInt(d)
    BY <1>6, <2>1 DEF Fraction
  <2>4. Len(d) > 0
    <3>1. exp > 0
      BY <2>1
    <3> HIDE DEF d
    <3> QED
      BY <2>2, <3>1
  <2> HIDE DEF d
  <2>5. ParseInt(d) = IF Decimal(d) \in IntW THEN Ok(Decimal(d)) ELSE Err("format")
    BY <2>2, <2>4, IntegerIs
  <2> QED
    BY <1>6, <2>2, <2>3, <2>5
<1> QED
  BY <1>5, <1>6

\* A whole part and a fraction, together and against a limit.
LEMMA TogetherAre ==
    ASSUME NEW W \in Nat, NEW S \in Nat \ {0}, NEW f \in 0 .. S - 1
    PROVE  /\ W * S + f \in Nat /\ W * S + f >= W /\ W * S + f >= f
           /\ \A x, top, r \in Int :
                 x - f = top * S + r /\ 0 <= r /\ r < S => (W > top <=> W * S + f > x)
<1>1. W <= S * W /\ S * W = W * S
  BY NoSmaller
<1>2. ASSUME NEW x \in Int, NEW top \in Int, NEW r \in Int,
             x - f = top * S + r, 0 <= r, r < S
      PROVE  W > top <=> W * S + f > x
  <2>1. CASE W > top
    <3>1. (W - top - 1) * S >= 0
      BY <2>1
    <3> QED
      BY <1>2, <2>1, <3>1
  <2>2. CASE W <= top
    <3>1. (top - W) * S >= 0
      BY <2>2
    <3> QED
      BY <1>2, <2>2, <3>1
  <2> QED
    BY <2>1, <2>2
<1>3. W * S \in Nat
  BY <1>1
<1> QED
  BY <1>1, <1>2, <1>3

\* A decimal number is read exactly, or refused where it is out of range.
LEMMA ParseIsExact ==
    ASSUME MoneyConstants, NEW text \in Seq(STRING), NEW c \in DOMAIN Exponent,
           WellFormed(text, Exponent[c])
    PROVE  LET n == Meaning(text, Exponent[c]) IN
           /\ n \in Int
           /\ ParseMoney(text, c) = IF Abs(n) <= MaxInt THEN Ok(n)
                                    ELSE ParseMoney(text, c)
           /\ Abs(n) > MaxInt => ~ ParseMoney(text, c).ok
<1> DEFINE exp == Exponent[c]
           u == Unsigned(text)
           negative == Head(text) = "-"
           s == IF negative THEN Tail(text) ELSE text
           W == Decimal(WholePart(u))
           S == Scale(c)
           places == IF Point(u) = 0 THEN <<>> ELSE FracPart(u)
           n == Meaning(text, exp)
           whole == ParseInt(WholePart(s))
           fraction == Fraction(s, exp)
<1>1. exp \in 0 .. 2 /\ Half \in Nat \ {0} /\ S \in Nat \ {0}
  BY ScaleIsPositive DEF MoneyConstants
<1>2. /\ u \in Seq(STRING) /\ IsDigits(WholePart(u))
      /\ Point(u) # 0 => IsDigits(FracPart(u)) /\ Len(FracPart(u)) \in 1 .. exp
  <2>1. u \in Seq(STRING)
    <3>1. text # <<>> => Tail(text) \in Seq(STRING)
      OBVIOUS
    <3>2. (u = Tail(text) /\ text # <<>>) \/ u = text
      BY Zenon DEF Unsigned
    <3> HIDE DEF u
    <3> QED
      BY <3>1, <3>2
  <2>2. /\ IsDigits(WholePart(u))
        /\ Point(u) # 0 => IsDigits(FracPart(u)) /\ Len(FracPart(u)) \in 1 .. exp
    BY Zenon DEF WellFormed
  <2> QED
    BY <2>1, <2>2
<1>3. text # <<>>
  <2> SUFFICES ASSUME text = <<>>
               PROVE  FALSE
    OBVIOUS
  <2>1. u = <<>>
    BY DEF Unsigned
  <2>2. Point(u) = 0 /\ WholePart(u) = u
    <3>1. Point(u) \in 0 .. 0
      BY <1>2, <2>1, PartsAre
    <3> QED
      BY <1>2, <3>1, PartsAre
  <2> QED
    BY <1>2, <2>1, <2>2 DEF IsDigits
<1>4. AllDigits(WholePart(u)) /\ Len(WholePart(u)) > 0 /\ W \in Nat
  <2>1. WholePart(u) \in Seq(STRING)
    BY <1>2, PartsAre
  <2> QED
    BY <1>2, <2>1, DigitsOf, DecimalIsNat
<1>5. PICK f \in 0 .. S - 1 :
         /\ Fraction(u, exp) = IF f \in IntW THEN Ok(f) ELSE Err("format")
         /\ Decimal(WholePart(u) \o places) * 10 ^ (exp - Len(places)) = W * S + f
  <2>1. S = 10 ^ exp
    BY DEF Scale
  <2> HIDE DEF exp, u, S
  <2> QED
    BY <1>1, <1>2, <2>1, PlacesAre
<1> DEFINE m == W * S + f
<1>6. n = IF negative THEN - m ELSE m
  BY <1>5 DEF Meaning
<1>7. /\ whole = IF W \in IntW THEN Ok(W) ELSE Err("format")
      /\ fraction = IF f \in IntW THEN Ok(f) ELSE Err("format")
  <2>1. ParseInt(WholePart(u)) = IF W \in IntW THEN Ok(W) ELSE Err("format")
    BY <1>4, IntegerIs
  <2>2. CASE s = u
    BY <1>5, <2>1, <2>2
  <2>3. CASE s # u
    <3>1. s = text /\ Head(text) = "+" /\ u = Tail(text)
      BY <1>3, <2>3 DEF Unsigned
    <3>2. ParseInt(WholePart(text)) = ParseInt(WholePart(u))
          /\ Fraction(text, exp) = Fraction(u, exp)
      <4>1. IsDigits(WholePart(Tail(text)))
        BY <1>2, <3>1
      <4>2. /\ ParseInt(WholePart(text)) = ParseInt(WholePart(Tail(text)))
            /\ \A e : Fraction(text, e) = Fraction(Tail(text), e)
        BY <1>3, <3>1, <4>1, PlusIsNothing
      <4> QED
        BY <3>1, <4>2
    <3> QED
      BY <1>5, <2>1, <3>1, <3>2
  <2> QED
    BY <2>2, <2>3
<1>8. ParseMoney(text, c) =
         IF ~ whole.ok \/ ~ fraction.ok THEN Err("format")
         ELSE IF whole.value > Quo(MaxInt - fraction.value, S) THEN Err("overflow")
         ELSE Ok(IF negative THEN Wrap(- Wrap(whole.value * S + fraction.value))
                 ELSE Wrap(whole.value * S + fraction.value))
  BY <1>3 DEF ParseMoney
<1> HIDE DEF exp, u, s, W, S, places, whole, fraction, n, negative
<1>9. W \in Nat /\ f \in Nat /\ S \in Nat \ {0} /\ f < S /\ m \in Nat /\ m >= W /\ m >= f
  <2>1. W \in Nat /\ S \in Nat \ {0} /\ f \in 0 .. S - 1
    BY <1>1, <1>4
  <2>2. m \in Nat /\ m >= W /\ m >= f
    BY <2>1, TogetherAre
  <2> HIDE DEF m
  <2> QED
    BY <2>1, <2>2
<1> HIDE DEF m
<1>10. n \in Int /\ Abs(n) = m
  BY <1>6, <1>9 DEF Abs
<1>11. CASE W \notin IntW \/ f \notin IntW
  <2>1. m > MaxInt
    BY <1>1, <1>9, <1>11
  <2>2. ~ whole.ok \/ ~ fraction.ok
    BY <1>7, <1>11 DEF Err
  <2>3. ParseMoney(text, c) = Err("format")
    BY <1>8, <2>2
  <2>4. ~ ParseMoney(text, c).ok
    BY <2>3 DEF Err
  <2> QED
    BY <1>1, <1>9, <1>10, <2>1, <2>4 DEF n, exp
<1>12. CASE W \in IntW /\ f \in IntW
  <2>1. whole.ok /\ fraction.ok /\ whole.value = W /\ fraction.value = f
    BY <1>7, <1>12 DEF Ok
  <2> DEFINE top == Quo(MaxInt - f, S)
  <2>2. top \in Int /\ \E r \in Int : MaxInt - f = top * S + r /\ 0 <= r /\ r < S
    <3>1. MaxInt - f \in IntW /\ MaxInt - f >= 0
      BY <1>1, <1>9, <1>12
    <3>2. S \in Int /\ S > 0
      BY <1>1
    <3> QED
      BY <1>1, <3>1, <3>2, QuoRem
  <2>5. W > top <=> m > MaxInt
    <3>1. PICK r \in Int : MaxInt - f = top * S + r /\ 0 <= r /\ r < S
      BY <2>2
    <3>2. MaxInt \in Int /\ f \in 0 .. S - 1
      BY <1>1
    <3> HIDE DEF top
    <3> QED
      BY <1>9, <2>2, <3>1, <3>2, TogetherAre DEF m
  <2> HIDE DEF top
  <2>3. CASE W > top
    <3>2. m > MaxInt
      BY <2>3, <2>5
    <3>3. ParseMoney(text, c) = Err("overflow")
      BY <1>8, <2>1, <2>3 DEF top
    <3>4. ~ ParseMoney(text, c).ok
      BY <3>3 DEF Err
    <3> QED
      BY <1>1, <1>9, <1>10, <3>2, <3>4 DEF n, exp
  <2>4. CASE W <= top
    <3>2. m <= MaxInt
      <4>1. m \in Int /\ MaxInt \in Int /\ ~ W > top
        BY <1>1, <1>9, <2>2, <2>4
      <4> QED
        BY <2>5, <4>1
    <3>3. Wrap(m) = m /\ Wrap(- m) = - m
      <4>1. m \in IntW /\ - m \in IntW
        BY <1>1, <1>9, <3>2
      <4> QED
        BY <1>1, <4>1, WrapInside
    <3>4. ~ W > top
      BY <1>9, <2>2, <2>4
    <3>5. ParseMoney(text, c) = Ok(IF negative THEN Wrap(- Wrap(m)) ELSE Wrap(m))
      BY <1>8, <2>1, <3>4 DEF top, m
    <3>6. ParseMoney(text, c) = Ok(n)
      BY <1>6, <3>3, <3>5
    <3> QED
      BY <1>1, <1>9, <1>10, <3>2, <3>6 DEF n, exp
  <2> QED
    BY <1>9, <2>2, <2>3, <2>4
<1> QED
  BY <1>11, <1>12

-----------------------------------------------------------------------------
(* Totals and text.                                                         *)

\* Sum: for every width, a total that is answered is the true one.
THEOREM SumAlwaysExact == ASSUME MoneyConstants PROVE Spec => []SumExact
<1>1. Answered => SumExact
  <2> SUFFICES ASSUME Answered, answer # NoAnswer, call.op = "sum"
               PROVE  answer.ok => answer.value = Total(call.values)
    BY DEF SumExact, Returned
  <2>1. call.values \in Seq(IntW) /\ Half \in Nat \ {0}
    BY Zenon DEF Answered, Calls, MoneyConstants
  <2>2. answer = Sum(call.values)
    BY DEF Answered, Answer
  <2> QED
    BY <2>1, <2>2, SumIsExact
<1> QED
  BY <1>1, AnsweredOnce, PTL

\* ParseMoney, FromNairaString: for every width, every currency and every text, a decimal
\* number is read exactly, or refused where it is out of range.
THEOREM ParseAlwaysExact == ASSUME MoneyConstants PROVE Spec => []ParseExact
<1>1. Answered => ParseExact
  <2> DEFINE n == Meaning(call.text, Exponent[call.cur])
  <2> SUFFICES ASSUME Answered, answer # NoAnswer, call.op = "parse",
                      WellFormed(call.text, Exponent[call.cur])
               PROVE  answer.ok = (Abs(n) <= MaxInt) /\ (answer.ok => answer.value = n)
    BY DEF ParseExact, Returned
  <2>1. call.text \in Seq(STRING) /\ call.cur \in DOMAIN Exponent
    <3>1. call.text \in Texts /\ call.cur \in DOMAIN Exponent
      BY DEF Answered, Calls
    <3> QED
      BY <3>1, Zenon DEF MoneyConstants
  <2>2. answer = ParseMoney(call.text, call.cur)
    BY DEF Answered, Answer
  <2>3. /\ n \in Int
        /\ answer = IF Abs(n) <= MaxInt THEN Ok(n) ELSE answer
        /\ Abs(n) > MaxInt => ~ answer.ok
    BY <2>1, <2>2, ParseIsExact
  <2>4. answer.ok \in BOOLEAN
    BY <2>2 DEF ParseMoney, Ok, Err
  <2>5. Half \in Nat \ {0}
    BY DEF MoneyConstants
  <2> HIDE DEF n
  <2>6. Abs(n) <= MaxInt \/ Abs(n) > MaxInt
    BY <2>3, <2>5 DEF Abs
  <2>7. CASE Abs(n) <= MaxInt
    <3>1. answer = Ok(n)
      BY <2>3, <2>7
    <3> QED
      BY <2>7, <3>1 DEF Ok
  <2>8. CASE Abs(n) > MaxInt
    <3>1. ~ (Abs(n) <= MaxInt)
      BY <2>3, <2>5, <2>8 DEF Abs
    <3> QED
      BY <2>3, <2>4, <2>8, <3>1
  <2> QED
    BY <2>6, <2>7, <2>8
<1> QED
  BY <1>1, AnsweredOnce, PTL

\* Any text that is read has the width.
LEMMA ParseIsTyped ==
    ASSUME MoneyConstants, NEW text, NEW c \in DOMAIN Exponent, ParseMoney(text, c).ok
    PROVE  ParseMoney(text, c).value \in IntW
<1> DEFINE s == IF text # <<>> /\ Head(text) = "-" THEN Tail(text) ELSE text
           whole == ParseInt(WholePart(s))
           fraction == Fraction(s, Exponent[c])
           total == whole.value * Scale(c) + fraction.value
<1>1. \A t : ParseInt(t).ok => ParseInt(t).value \in IntW
  BY DEF ParseInt, Ok, Err
<1>2. fraction.ok => fraction.value \in Int
  <2>1. CASE Point(s) = 0
    BY <2>1 DEF Fraction, Ok
  <2>2. CASE Point(s) # 0
    <3>1. fraction = Err("format") \/ \E t : fraction = ParseInt(t)
      BY <2>2 DEF Fraction
    <3> HIDE DEF fraction
    <3> QED
      BY <1>1, <3>1 DEF Err
  <2> QED
    BY <2>1, <2>2
<1>3. whole.ok => whole.value \in Int
  BY <1>1
<1>4. /\ whole.ok /\ fraction.ok
      /\ \/ ParseMoney(text, c).value = Wrap(- Wrap(total))
         \/ ParseMoney(text, c).value = Wrap(total)
  BY DEF ParseMoney, Ok, Err
<1>5. Scale(c) \in Int /\ Half \in Nat \ {0}
  BY ScaleIsPositive DEF MoneyConstants
<1> HIDE DEF whole, fraction
<1>6. total \in Int
  BY <1>2, <1>3, <1>4, <1>5
<1> HIDE DEF total
<1>7. Wrap(total) \in IntW
  BY <1>5, <1>6, WrapOff
<1>8. - Wrap(total) \in Int
  BY <1>5, <1>7
<1>9. Wrap(- Wrap(total)) \in IntW
  BY <1>5, <1>8, WrapOff
<1> QED
  BY <1>4, <1>7, <1>9

LEMMA PercentIs ==
    ASSUME Half \in Nat \ {0}, NEW k \in IntW, NEW n \in IntW, n >= 0,
           NEW d \in Nat \ {0}, 2 * d <= Half
    PROVE  Percent(k, n, d) =
               IF k * n \in IntW THEN Ok(Rounded(Quo(k * n, d), Rem(k * n, d), d))
               ELSE Err("overflow")
<1>1. MulInt(k, n) = IF k * n \in IntW THEN Ok(k * n) ELSE Err("overflow")
  BY MulIsExact
<1>2. d # 0
  OBVIOUS
<1>3. CASE k * n \in IntW
  BY <1>1, <1>2, <1>3 DEF Percent, Ok
<1>4. CASE k * n \notin IntW
  BY <1>1, <1>2, <1>4 DEF Percent, Err
<1> QED
  BY <1>3, <1>4

\* Whatever is answered has the width.
THEOREM MoneyAlwaysTyped == ASSUME MoneyConstants PROVE Spec => []TypeOK
<1>1. Answered => TypeOK
  <2> SUFFICES ASSUME Answered, answer # NoAnswer, answer.ok
               PROVE  answer.value \in IntW
    BY DEF TypeOK, Answered, NoAnswer, Err
  <2>1. Half \in Nat \ {0} /\ answer = Answer(call)
    BY DEF Answered, MoneyConstants
  <2>2. ASSUME NEW x \in Int, answer = IF x \in IntW THEN Ok(x) ELSE Err("overflow")
        PROVE  answer.value \in IntW
    <3>1. x \in IntW
      BY <2>2 DEF Err
    <3> QED
      BY <2>2, <3>1 DEF Ok
  <2>3. CASE call.op \in {"add", "sub"}
    <3>1. call.k \in IntW /\ call.other \in IntW
      BY <2>3 DEF Answered, Calls, MoneyConstants
    <3>2. answer = Add(call.k, call.other) \/ answer = Sub(call.k, call.other)
      BY <2>1, <2>3 DEF Answer
    <3>3. call.k + call.other \in Int /\ call.k - call.other \in Int
      BY <2>1, <3>1
    <3> QED
      BY <2>1, <2>2, <3>1, <3>2, <3>3, AddIsExact, SubIsExact
  <2>4. CASE call.op \in {"mul", "percent"}
    <3>1. call.k \in Amounts /\ call.n \in Scalars
          /\ (call.op = "percent" => call.d \in Denominators)
      BY <2>4 DEF Answered, Calls
    <3>2. /\ call.k \in IntW /\ call.n \in 0 .. MaxInt
          /\ call.op = "percent" => call.d \in Nat \ {0} /\ 2 * call.d <= Half
      BY <3>1, Zenon DEF MoneyConstants
    <3>3. call.n \in IntW /\ call.n >= 0 /\ call.k * call.n \in Int
      BY <2>1, <3>2
    <3>4. MulInt(call.k, call.n) =
             IF call.k * call.n \in IntW THEN Ok(call.k * call.n) ELSE Err("overflow")
      BY <2>1, <3>2, <3>3, MulIsExact
    <3>5. CASE call.op = "mul"
      <4>1. answer = MulInt(call.k, call.n)
        BY <2>1, <3>5 DEF Answer
      <4> QED
        BY <2>2, <3>3, <3>4, <4>1
    <3>6. CASE call.op = "percent"
      <4>1. answer = Percent(call.k, call.n, call.d)
        BY <2>1, <3>6 DEF Answer
      <4> DEFINE v == Rounded(Quo(call.k * call.n, call.d), Rem(call.k * call.n, call.d),
                              call.d)
      <4>2. call.d \in Nat \ {0} /\ 2 * call.d <= Half
        BY <3>2, <3>6
      <4>3. answer = IF call.k * call.n \in IntW THEN Ok(v) ELSE Err("overflow")
        BY <2>1, <3>2, <3>3, <4>1, <4>2, PercentIs
      <4>4. call.k * call.n \in IntW => v \in IntW
        BY <2>1, <3>2, <3>3, <4>2, RoundedIsNearest
      <4> HIDE DEF v
      <4> QED
        BY <4>3, <4>4 DEF Ok, Err
    <3> QED
      BY <2>4, <3>5, <3>6
  <2>5. CASE call.op = "sum"
    <3>1. call.values \in Seq(IntW) /\ answer = Sum(call.values)
      BY <2>1, <2>5 DEF Answered, Answer, Calls, MoneyConstants
    <3>2. answer \in Sums
      BY <2>1, <3>1, SumIsExact
    <3> QED
      BY <3>2 DEF Sums, Ok, Err
  <2>6. CASE call.op = "major"
    <3>1. call.major \in IntW /\ call.cur \in DOMAIN Exponent
      BY <2>6 DEF Answered, Calls, MoneyConstants
    <3>2. answer = FromMajor(call.major, call.cur)
      BY <2>1, <2>6 DEF Answer
    <3>3. call.major * Scale(call.cur) \in Int
      BY <2>1, <3>1, ScaleIsPositive
    <3> QED
      BY <2>2, <3>1, <3>2, <3>3, MajorIsExact
  <2>7. CASE call.op = "parse"
    <3>1. call.cur \in DOMAIN Exponent /\ answer = ParseMoney(call.text, call.cur)
      BY <2>1, <2>7 DEF Answered, Answer, Calls
    <3> QED
      BY <3>1, ParseIsTyped
  <2>8. call.op \in {"add", "sub", "mul", "percent", "sum", "major", "parse"}
    BY DEF Answered, Calls
  <2> QED
    BY <2>3, <2>4, <2>5, <2>6, <2>7, <2>8
<1> QED
  BY <1>1, AnsweredOnce, PTL

\* AmountsExact: for every width of the integers and every argument, what an operation of
\* Kobo and of the currencies answers is the true result, and the rest is refused.
THEOREM AmountsAlwaysExact == ASSUME MoneyConstants PROVE Spec => []AmountsExact
<1>1. /\ Spec => []TypeOK
      /\ Spec => []AddSubExact
      /\ Spec => []MulExactNonNegative
      /\ Spec => []PercentRoundsHalfEven
      /\ Spec => []SumExact
      /\ Spec => []ParseExact
      /\ Spec => []MajorExact
  BY MoneyAlwaysTyped, AddSubAlwaysExact, MulAlwaysExact, PercentAlwaysRounds,
     SumAlwaysExact, ParseAlwaysExact, MajorAlwaysExact
<1> QED
  BY <1>1, PTL DEF AmountsExact

-----------------------------------------------------------------------------
(* Early pay.                                                              *)

PayConstants == Pay!EarlyPayConstants

(* Rounding.                                                               *)

LEMMA QuoIs ==
    ASSUME NEW d \in Nat \ {0}, NEW q \in Int, NEW r \in 0 .. d - 1
    PROVE  (d * q + r) \div d = q /\ (d * q + r) % d = r
<1> DEFINE a == d * q + r
           p == a \div d
           s == a % d
<1>1. p \in Int /\ s \in 0 .. d - 1 /\ a = d * p + s
  OBVIOUS
<1>2. d * (p - q) = r - s
  BY <1>1
<1>3. p - q <= 0
  <2>1. p - q >= 1 => d * (p - q) >= d
    BY <1>1
  <2> QED
    BY <1>1, <1>2, <2>1
<1>4. p - q >= 0
  <2>1. p - q <= -1 => d * (p - q) <= -d
    BY <1>1
  <2> QED
    BY <1>1, <1>2, <2>1
<1> QED
  BY <1>1, <1>2, <1>3, <1>4

HalfEven(a, d) ==
    IF 2 * (a % d) > d \/ (2 * (a % d) = d /\ (a \div d) % 2 = 1) THEN (a \div d) + 1
    ELSE a \div d

LEMMA RoundsInOrder ==
    ASSUME NEW d \in Nat \ {0}, NEW a \in Nat, NEW b \in Nat, a <= b
    PROVE  HalfEven(a, d) \in Nat /\ HalfEven(a, d) <= HalfEven(b, d)
<1> DEFINE p == a \div d
           s == a % d
           q == b \div d
           r == b % d
<1>1. /\ p \in Nat /\ s \in 0 .. d - 1 /\ a = d * p + s
      /\ q \in Nat /\ r \in 0 .. d - 1 /\ b = d * q + r
  OBVIOUS
<1>2. p <= q
  <2>1. p >= q + 1 => d * (p - q) >= d
    BY <1>1
  <2> QED
    BY <1>1, <2>1
<1>3. p = q => s <= r
  BY <1>1
<1>4. /\ HalfEven(a, d) = IF 2 * s > d \/ (2 * s = d /\ p % 2 = 1) THEN p + 1 ELSE p
      /\ HalfEven(b, d) = IF 2 * r > d \/ (2 * r = d /\ q % 2 = 1) THEN q + 1 ELSE q
  BY DEF HalfEven
<1> HIDE DEF p, q, r, s
<1> QED
  BY <1>1, <1>2, <1>3, <1>4

\* A share of an amount grows with the share, and is no more than the amount.
LEMMA ShareIs ==
    ASSUME NEW x \in Nat, NEW d \in Nat \ {0}, NEW m \in Nat, NEW n \in Nat, m <= n, n <= d
    PROVE  /\ Pay!PercentOf(x, m, d) \in Nat
           /\ Pay!PercentOf(x, m, d) <= Pay!PercentOf(x, n, d)
           /\ Pay!PercentOf(x, n, d) <= x
<1>1. \A k \in Nat : Pay!PercentOf(x, k, d) = HalfEven(x * k, d)
  BY DEF Pay!PercentOf, HalfEven
<1>2. x * m \in Nat /\ x * n \in Nat /\ x * m <= x * n /\ x * n <= x * d /\ x * d \in Nat
  <2>1. x * (n - m) >= 0 /\ x * (d - n) >= 0
    OBVIOUS
  <2> QED
    BY <2>1
<1>3. HalfEven(x * d, d) = x
  <2>1. x * d = d * x + 0
    OBVIOUS
  <2>2. (d * x + 0) \div d = x /\ (d * x + 0) % d = 0
    BY QuoIs
  <2> QED
    BY <2>1, <2>2 DEF HalfEven
<1>4. /\ HalfEven(x * m, d) \in Nat /\ HalfEven(x * m, d) <= HalfEven(x * n, d)
      /\ HalfEven(x * n, d) <= HalfEven(x * d, d)
  BY <1>2, RoundsInOrder
<1> QED
  BY <1>1, <1>3, <1>4

LEMMA ShareWithin ==
    ASSUME NEW x \in Nat, NEW d \in Nat \ {0}, NEW n \in Nat, n <= d
    PROVE  Pay!PercentOf(x, n, d) \in Nat /\ Pay!PercentOf(x, n, d) <= x
  BY ShareIs

\* The lesser and the greater of two numbers.
LEMMA PairMax ==
    ASSUME NEW a \in Int, NEW b \in Int
    PROVE  Pay!Max({a, b}) = IF a >= b THEN a ELSE b
<1> DEFINE m == IF a >= b THEN a ELSE b
<1>1. m \in {a, b} /\ \A y \in {a, b} : m >= y
  OBVIOUS
<1>2. \A x \in {a, b} : (\A y \in {a, b} : x >= y) => x = m
  OBVIOUS
<1> HIDE DEF m
<1> QED
  BY <1>1, <1>2 DEF Pay!Max, m

LEMMA PairMin ==
    ASSUME NEW a \in Int, NEW b \in Int
    PROVE  Pay!Min({a, b}) = IF a <= b THEN a ELSE b
<1> DEFINE m == IF a <= b THEN a ELSE b
<1>1. m \in {a, b} /\ \A y \in {a, b} : m <= y
  OBVIOUS
<1>2. \A x \in {a, b} : (\A y \in {a, b} : x <= y) => x = m
  OBVIOUS
<1> HIDE DEF m
<1> QED
  BY <1>1, <1>2 DEF Pay!Min, m

\* A working day ends its period or does not.
LEMMA DayTurns ==
    ASSUME NEW d \in Nat \ {0}, NEW n \in Nat
    PROVE  \/ /\ (n + 1) \div d = n \div d /\ (n + 1) % d = (n % d) + 1
           \/ /\ (n + 1) \div d = (n \div d) + 1 /\ (n + 1) % d = 0
<1> DEFINE q == n \div d
           r == n % d
<1>1. q \in Int /\ r \in 0 .. d - 1 /\ n = d * q + r
  OBVIOUS
<1> HIDE DEF q, r
<1>2. CASE r + 1 < d
  <2>1. n + 1 = d * q + (r + 1) /\ r + 1 \in 0 .. d - 1
    BY <1>1, <1>2
  <2>2. (n + 1) \div d = q /\ (n + 1) % d = r + 1
    BY <1>1, <2>1, QuoIs
  <2> QED
    BY <2>2 DEF q, r
<1>3. CASE r + 1 = d
  <2>1. n + 1 = d * (q + 1) + 0 /\ 0 \in 0 .. d - 1 /\ q + 1 \in Int
    BY <1>1, <1>3
  <2>2. (n + 1) \div d = q + 1 /\ (n + 1) % d = 0
    BY <2>1, QuoIs
  <2> QED
    BY <2>2 DEF q, r
<1> QED
  BY <1>1, <1>2, <1>3

-----------------------------------------------------------------------------
(* The advances, and what is outstanding.                                  *)

AdvanceRecs == [amount : Nat, day : Nat, period : Nat, recovered : Nat,
                status : {"approved", "disbursed", "settled", "cancelled"}]

PayTyped ==
    /\ day \in Nat
    /\ advances \in Seq(AdvanceRecs)
    /\ \A i \in DOMAIN advances : /\ advances[i].recovered <= advances[i].amount
                                  /\ advances[i].period <= Pay!Period
    /\ floor.amount \in Nat
    /\ savings \in Savings \cup {Pay!Off}

Owes == [i \in DOMAIN advances |-> advances[i].amount - advances[i].recovered]

Owing == SumOf(Owes, Pay!Open)

\* Some payroll still to be run is for a period no open advance is later than, and earns
\* all that is outstanding: the wages of a whole period, or of the days worked so far.
Covered ==
    \/ Pay!Open = {}
    \/ \E q \in 1 .. Pay!Period :
          /\ q \notin paid
          /\ \A i \in Pay!Open : advances[i].period <= q
          /\ Owing <= IF q = Pay!Period THEN Pay!AccruedToDate ELSE Salary

\* Payrolls run after their period, unless the employer is early.
PayInOrder == early \/ (paid \subseteq 1 .. Pay!Period - 1 /\ Covered)

PayIInv == PayTyped /\ PayInOrder /\ Pay!SavingsLeavePay

LEMMA PayBounds ==
    ASSUME PayConstants
    PROVE  /\ Days \in Nat \ {0} /\ Salary \in Nat \ {0} /\ MaxAccrualPct \in 1 .. 100
           /\ AbsoluteCap \in Nat /\ MinDraw \in Nat /\ EmergencyFloor \in Nat
           /\ CoolingOff \in Nat /\ MaxDraws \in Nat /\ MaxAdvance \in Nat
           /\ Draws \subseteq Nat \ {0} /\ ProtectedFloors \subseteq Nat
  BY DEF PayConstants, Pay!EarlyPayConstants

\* The wages of the days worked are a part of the salary.
LEMMA AccruedIs ==
    ASSUME PayConstants, day \in Nat
    PROVE  /\ Pay!Period \in Nat \ {0} /\ day % Days \in 0 .. Days - 1
           /\ Pay!AccruedToDate \in Nat /\ Pay!AccruedToDate <= Salary
<1>1. Days \in Nat \ {0} /\ Salary \in Nat
  BY PayBounds
<1>2. day % Days \in 0 .. Days - 1 /\ day \div Days \in Nat
  BY <1>1
<1>3. /\ Pay!PercentOf(Salary, day % Days, Days) \in Nat
      /\ Pay!PercentOf(Salary, day % Days, Days) <= Salary
  BY <1>1, <1>2, ShareIs
<1> QED
  BY <1>2, <1>3 DEF Pay!AccruedToDate, Pay!Period

\* The places of the advances, and what each still owes.
LEMMA SlotsAre ==
    ASSUME PayTyped
    PROVE  /\ Pay!Slots = 1 .. Len(advances) /\ Pay!Slots = DOMAIN advances
           /\ Len(advances) \in Nat /\ IsFiniteSet(Pay!Slots)
           /\ Pay!Open \in SUBSET Pay!Slots /\ IsFiniteSet(Pay!Open)
           /\ \A i \in Pay!Slots : advances[i] \in AdvanceRecs /\ Owes[i] \in Nat
           /\ \A i \in Pay!Slots : Owes[i] = Pay!Remaining(advances[i])
           /\ Owing \in Nat
<1>1. /\ Pay!Slots = 1 .. Len(advances) /\ Pay!Slots = DOMAIN advances
      /\ Len(advances) \in Nat
      /\ \A i \in Pay!Slots : advances[i] \in AdvanceRecs
  BY DEF PayTyped, Pay!Slots
<1>2. IsFiniteSet(Pay!Slots)
  BY <1>1, FS_Interval
<1>3. Pay!Open \in SUBSET Pay!Slots
  BY DEF Pay!Open
<1>4. IsFiniteSet(Pay!Open)
  BY <1>2, <1>3, FS_Subset
<1>5. \A i \in Pay!Slots : Owes[i] \in Nat
  BY <1>1 DEF PayTyped, Owes, AdvanceRecs
<1>6. \A i \in Pay!Slots : Owes[i] = Pay!Remaining(advances[i])
  BY <1>1 DEF Owes, Pay!Remaining
<1>7. Owing \in Nat
  BY <1>2, <1>3, <1>5, SumPart DEF Owing
<1> QED
  BY <1>1, <1>2, <1>3, <1>4, <1>5, <1>6, <1>7

\* outstandingTx adds up what the advances owe.
LEMMA OverIs ==
    ASSUME PayTyped, NEW S \in SUBSET Pay!Slots
    PROVE  Pay!SumOver(S) = SumOf(Owes, S) /\ SumOf(Owes, S) \in Nat
<1> DEFINE H(h) == h = [s \in SUBSET S |->
                          IF s = {} THEN 0
                          ELSE Pay!Remaining(advances[Pick(s)]) + h[s \ {Pick(s)}]]
           k == CHOOSE h : H(h)
<1>1. Pay!SumOver(S) = k[S]
  BY DEF Pay!SumOver, Pay!MapThenSumSet, Pay!MapThenFoldSet, Pick
<1>2. \A s \in SUBSET S : s # {} => Owes[Pick(s)] = Pay!Remaining(advances[Pick(s)])
  BY PickIn, SlotsAre
<1>3. \A h : H(h) <=> AddsOver(Owes, SUBSET S, h)
  BY <1>2 DEF AddsOver
<1>4. IsFiniteSet(S)
  BY SlotsAre, FS_Subset
<1> HIDE DEF H
<1>5. \E h : H(h)
  BY <1>3, <1>4, SolutionExists
<1>6. H(k)
  BY <1>5, Zenon
<1> HIDE DEF k
<1>7. k[S] = SumOf(Owes, S)
  BY <1>3, <1>4, <1>6, SumIs
<1>8. SumOf(Owes, S) \in Nat
  BY SlotsAre, SumPart
<1> QED
  BY <1>1, <1>7, <1>8

LEMMA OutstandingOwed ==
    ASSUME PayTyped PROVE Pay!Outstanding = Owing
  BY OverIs, SlotsAre DEF Pay!Outstanding, Owing

LEMMA SlotsNext ==
    PayTyped' => /\ Owing' \in Nat /\ \A i \in Pay!Open' : Owes'[i] \in Nat
                 /\ IsFiniteSet(Pay!Open') /\ Pay!Outstanding' = Owing'
<1>1. PayTyped => /\ Owing \in Nat /\ \A i \in Pay!Open : Owes[i] \in Nat
                  /\ IsFiniteSet(Pay!Open) /\ Pay!Outstanding = Owing
  BY SlotsAre, OutstandingOwed
<1>2. (PayTyped => /\ Owing \in Nat /\ \A i \in Pay!Open : Owes[i] \in Nat
                   /\ IsFiniteSet(Pay!Open) /\ Pay!Outstanding = Owing)'
  BY <1>1, PTL
<1> QED
  BY <1>2

\* When open advances only leave, or owe less, less is outstanding.
LEMMA OwingFalls ==
    ASSUME PayTyped, PayTyped', Pay!Open' \subseteq Pay!Open,
           \A i \in Pay!Open' : Owes'[i] <= Owes[i]
    PROVE  Owing' <= Owing
<1>1. /\ IsFiniteSet(Pay!Open) /\ \A i \in Pay!Open : Owes[i] \in Nat
  BY SlotsAre
<1>2. \A i \in Pay!Open' : Owes'[i] \in Nat
  BY SlotsNext
<1>3. IsFiniteSet(Pay!Open')
  BY <1>1, FS_Subset
<1>4. Whole(Owes, Pay!Open') /\ Whole(Owes', Pay!Open')
  BY <1>1, <1>2 DEF Whole
<1>5. SumOf(Owes', Pay!Open') <= SumOf(Owes, Pay!Open')
  BY <1>3, <1>4, SumLeq
<1>6. SumOf(Owes, Pay!Open') \in Nat /\ SumOf(Owes, Pay!Open) \in Nat
      /\ SumOf(Owes, Pay!Open') <= SumOf(Owes, Pay!Open)
  BY <1>1, SumPart
<1>7. SumOf(Owes', Pay!Open') \in Int
  BY <1>3, <1>4, SumType
<1> QED
  BY <1>5, <1>6, <1>7 DEF Owing

\* Covered says nothing more when less is owed and the payrolls stay as they are.
LEMMA CoveredStays ==
    ASSUME PayConstants, PayTyped, PayTyped', Covered, day' = day,
           Pay!Open' \subseteq Pay!Open,
           \A i \in Pay!Open' : /\ Owes'[i] <= Owes[i]
                                /\ advances'[i].period = advances[i].period,
           \A q \in 1 .. Pay!Period : q \in paid' /\ q \notin paid =>
               Pay!Open' = {} \/ \E i \in Pay!Open : advances[i].period > q
    PROVE  Covered'
<1>1. Pay!Period' = Pay!Period /\ Pay!AccruedToDate' = Pay!AccruedToDate
  BY DEF Pay!Period, Pay!AccruedToDate
<1>2. Owing' <= Owing /\ Owing \in Nat /\ Owing' \in Nat
  BY OwingFalls, SlotsAre, SlotsNext
<1>3. CASE Pay!Open = {}
  BY <1>3 DEF Covered
<1>4. ASSUME NEW q \in 1 .. Pay!Period, q \notin paid, Pay!Open' # {},
             \A i \in Pay!Open : advances[i].period <= q,
             Owing <= IF q = Pay!Period THEN Pay!AccruedToDate ELSE Salary
      PROVE  Covered'
  <2>1. \A i \in Pay!Open : advances[i].period \in Nat /\ q \in Nat
    BY SlotsAre, AccruedIs DEF AdvanceRecs, PayTyped
  <2>2. q \notin paid'
    BY <1>4, <2>1
  <2>3. \A i \in Pay!Open' : advances'[i].period <= q
    BY <1>4
  <2>4. Owing' <= IF q = Pay!Period THEN Pay!AccruedToDate ELSE Salary
    <3>1. Pay!AccruedToDate \in Nat /\ Salary \in Nat
      BY AccruedIs, PayBounds DEF PayTyped
    <3> QED
      BY <1>2, <1>4, <3>1
  <2> QED
    BY <1>1, <2>2, <2>3, <2>4 DEF Covered
<1> QED
  BY <1>3, <1>4 DEF Covered

LEMMA PayInit ==
    ASSUME PayConstants, Pay!Init
    PROVE  PayIInv
<1>1. /\ day = 0 /\ advances = <<>> /\ savings = Pay!Off /\ paid = {}
      /\ floor = [amount |-> 0, at |-> -1]
      /\ payslip = [withheld |-> 0, saved |-> 0, net |-> 0]
  BY DEF Pay!Init
<1>2. PayTyped
  BY <1>1 DEF PayTyped
<1>3. Pay!Open = {}
  BY <1>1 DEF Pay!Open, Pay!Slots
<1>4. Pay!SavingsLeavePay
  BY <1>1 DEF Pay!SavingsLeavePay
<1> QED
  BY <1>1, <1>2, <1>3, <1>4 DEF PayIInv, PayInOrder, Covered

\* Wages grow by the day; at the period's end they are a salary to be paid.
LEMMA PayDayPasses ==
    ASSUME PayConstants, PayIInv, Pay!NextDay,
           UNCHANGED early
    PROVE  PayIInv'
<1>1. day' = day + 1 /\ UNCHANGED <<advances, floor, savings, paid, payslip, shown, debt>>
  BY DEF Pay!NextDay
<1>2. PayTyped /\ day \in Nat /\ Days \in Nat \ {0} /\ Salary \in Nat
  BY PayBounds DEF PayIInv, PayTyped
<1>3. /\ Pay!Period \in Nat \ {0} /\ Pay!AccruedToDate \in Nat
      /\ Pay!AccruedToDate <= Salary /\ day % Days \in 0 .. Days - 1
  BY <1>2, AccruedIs
<1>4. \/ Pay!Period' = Pay!Period /\ day' % Days = (day % Days) + 1
      \/ Pay!Period' = Pay!Period + 1
  BY <1>1, <1>2, DayTurns DEF Pay!Period
<1>5. PayTyped'
  <2>1. \A i \in DOMAIN advances : advances[i].period \in Nat
    BY <1>2, SlotsAre DEF AdvanceRecs
  <2>2. \A i \in DOMAIN advances : advances[i].period <= Pay!Period'
    BY <1>2, <1>3, <1>4, <2>1 DEF PayTyped
  <2> QED
    BY <1>1, <1>2, <2>2 DEF PayTyped
<1>6. Pay!Open' = Pay!Open /\ Owing' = Owing /\ Owing \in Nat
  BY <1>1, <1>2, SlotsAre DEF Pay!Open, Pay!Slots, Owing, Owes
<1>7. PayInOrder'
  <2> SUFFICES ASSUME ~ early
               PROVE  paid \subseteq 1 .. Pay!Period' - 1 /\ Covered'
    BY <1>1 DEF PayInOrder
  <2>1. paid \subseteq 1 .. Pay!Period - 1 /\ Covered
    BY DEF PayIInv, PayInOrder
  <2>2. paid \subseteq 1 .. Pay!Period' - 1
    BY <1>3, <1>4, <2>1
  <2>3. CASE Pay!Open = {}
    BY <1>6, <2>2, <2>3 DEF Covered
  <2>4. ASSUME NEW q \in 1 .. Pay!Period, q \notin paid,
               \A i \in Pay!Open : advances[i].period <= q,
               Owing <= IF q = Pay!Period THEN Pay!AccruedToDate ELSE Salary
        PROVE  Covered'
    <3>1. q \in 1 .. Pay!Period'
      BY <1>3, <1>4
    <3>2. Owing' <= IF q = Pay!Period' THEN Pay!AccruedToDate' ELSE Salary
      <4>1. CASE Pay!Period' = Pay!Period /\ day' % Days = (day % Days) + 1
        <5>1. Pay!AccruedToDate <= Pay!AccruedToDate' /\ Pay!AccruedToDate' \in Nat
          <6>1. day' % Days \in Nat /\ day % Days \in Nat /\ day' % Days <= Days
                /\ day % Days <= day' % Days
            BY <1>3, <4>1, <1>2
          <6>2. /\ Pay!PercentOf(Salary, day % Days, Days)
                      <= Pay!PercentOf(Salary, day' % Days, Days)
                /\ Pay!PercentOf(Salary, day' % Days, Days) \in Nat
            <7> DEFINE u == day % Days
                       v == day' % Days
            <7>1. u \in Nat /\ v \in Nat /\ u <= v /\ v <= Days
              BY <6>1
            <7> HIDE DEF u, v
            <7>2. /\ Pay!PercentOf(Salary, u, Days) <= Pay!PercentOf(Salary, v, Days)
                  /\ Pay!PercentOf(Salary, v, Days) \in Nat
              BY <1>2, <7>1, ShareIs, ShareWithin
            <7> QED
              BY <7>2 DEF u, v
          <6> QED
            BY <6>2 DEF Pay!AccruedToDate
        <5> QED
          BY <1>3, <1>6, <2>4, <4>1, <5>1, <1>2
      <4>2. CASE Pay!Period' = Pay!Period + 1
        <5>1. q # Pay!Period'
          BY <1>3, <4>2
        <5>2. Owing <= Salary
          BY <1>2, <1>3, <1>6, <2>4
        <5> QED
          BY <1>6, <5>1, <5>2
      <4> QED
        BY <1>4, <4>1, <4>2
    <3> QED
      BY <1>1, <1>6, <2>4, <3>1, <3>2 DEF Covered
  <2> QED
    BY <2>1, <2>2, <2>3, <2>4 DEF Covered
<1> QED
  BY <1>1, <1>5, <1>7 DEF PayIInv, Pay!SavingsLeavePay

\* What a tier allows is within the policy's cap, and that within the wages earned.
LEMMA TierCapIs ==
    ASSUME PayConstants, PayTyped, NEW tier \in 1 .. 4
    PROVE  /\ Pay!TierCap(tier, Pay!PolicyCap, EmergencyFloor) \in Nat
           /\ Pay!TierCap(tier, Pay!PolicyCap, EmergencyFloor) <= Pay!AccruedToDate
<1> DEFINE A == Pay!AccruedToDate
           P == Pay!PercentOf(A, MaxAccrualPct, 100)
           C == Pay!PolicyCap
           E == Pay!Min({EmergencyFloor, C})
           T == Pay!TierCap(tier, C, EmergencyFloor)
<1>1. A \in Nat /\ EmergencyFloor \in Nat /\ AbsoluteCap \in Nat /\ MaxAccrualPct \in 1 .. 100
  BY AccruedIs, PayBounds DEF PayTyped
<1>2. P \in Nat /\ P <= A
  <2>1. 100 \in Nat \ {0} /\ MaxAccrualPct \in Nat /\ MaxAccrualPct <= 100
    BY <1>1
  <2> HIDE DEF A
  <2> QED
    BY <1>1, <2>1, ShareWithin
<1>3. C \in Nat /\ C <= A
  <2>1. C = Pay!Min({P, AbsoluteCap})
    BY DEF Pay!PolicyCap
  <2> HIDE DEF P, C, A
  <2> QED
    BY <1>1, <1>2, <2>1, PairMin
<1> HIDE DEF A, P, C
<1>4. E \in Nat /\ E <= C
  BY <1>1, <1>3, PairMin
<1>5. T \in Nat /\ T <= C
  <2>1. Pay!PercentOf(C, 50, 100) \in Nat /\ Pay!PercentOf(C, 50, 100) <= C
    BY <1>3, ShareIs
  <2>2. Pay!Max({Pay!PercentOf(C, 50, 100), E}) \in Nat
        /\ Pay!Max({Pay!PercentOf(C, 50, 100), E}) <= C
    <3> HIDE DEF E
    <3> QED
      BY <1>3, <1>4, <2>1, PairMax
  <2>3. T \in {E, Pay!Max({Pay!PercentOf(C, 50, 100), E}), C}
    BY DEF Pay!TierCap
  <2> HIDE DEF E, T
  <2> QED
    BY <1>3, <1>4, <2>2, <2>3
<1> HIDE DEF E, T
<1> QED
  BY <1>1, <1>3, <1>5 DEF T, C, A

LEMMA AvailableIs ==
    ASSUME PayConstants, PayTyped, NEW tier \in 1 .. 4, NEW x \in Nat \ {0},
           x <= Pay!Available(tier)
    PROVE  Owing + x <= Pay!AccruedToDate
<1> DEFINE A == Pay!AccruedToDate
           T == Pay!TierCap(tier, Pay!PolicyCap, EmergencyFloor)
           L == Pay!Max({0, T - Owing})
<1>1. A \in Nat /\ Owing \in Nat /\ Salary \in Nat
  BY AccruedIs, SlotsAre, PayBounds DEF PayTyped
<1>2. T \in Nat /\ T <= A
  BY TierCapIs
<1> HIDE DEF A, T
<1>3. L \in Nat /\ (L > 0 => L = T - Owing)
  BY <1>1, <1>2, PairMax
<1>4. Pay!Available(tier) <= L /\ Pay!Available(tier) \in Int
  <2> DEFINE h == Pay!Max({0, Pay!Max({0, Salary - floor.amount}) - Owing})
  <2>1. h \in Int
    <3>1. floor.amount \in Nat
      BY DEF PayTyped
    <3> DEFINE g == Pay!Max({0, Salary - floor.amount})
    <3>2. g \in Int
      BY <1>1, <3>1, PairMax
    <3> HIDE DEF g, L
    <3>3. Pay!Max({0, g - Owing}) \in Int
      BY <1>1, <3>2, PairMax
    <3> QED
      BY <3>3 DEF g
  <2>2. Pay!Available(tier) = IF floor.amount > 0 THEN Pay!Min({L, h}) ELSE L
    BY OutstandingOwed DEF Pay!Available, T
  <2> HIDE DEF L, h
  <2>3. Pay!Min({L, h}) <= L /\ Pay!Min({L, h}) \in Int
    BY <1>3, <2>1, PairMin
  <2> QED
    BY <1>3, <2>2, <2>3
<1> HIDE DEF L
<1>5. x <= T - Owing
  BY <1>3, <1>4
<1> QED
  BY <1>1, <1>2, <1>5 DEF A

\* A draw is within the wages earned this period, with all that is outstanding.
LEMMA DrawIs ==
    ASSUME PayConstants, PayTyped, NEW x \in Draws, NEW tier \in 1 .. 4,
           Pay!RequestAdvance(x, tier)
    PROVE  /\ PayTyped' /\ Pay!Period' = Pay!Period /\ Pay!AccruedToDate' = Pay!AccruedToDate
           /\ Owing' = Owing + x /\ Owing' <= Pay!AccruedToDate
           /\ UNCHANGED <<day, floor, savings, paid, payslip, debt>>
<1> DEFINE a == [amount |-> x, day |-> day, period |-> Pay!Period, recovered |-> 0,
                 status |-> "approved"]
           n == Len(advances) + 1
<1>1. /\ x <= Pay!Available(tier) /\ advances' = Append(advances, a)
      /\ UNCHANGED <<day, floor, savings, paid, payslip, debt>>
  BY DEF Pay!RequestAdvance
<1>2. PayTyped /\ x \in Nat \ {0} /\ day \in Nat
  BY PayBounds DEF PayTyped
<1>3. Pay!Period \in Nat \ {0} /\ Pay!AccruedToDate \in Nat
  BY <1>2, AccruedIs
<1>4. /\ a \in AdvanceRecs /\ a.amount = x /\ a.recovered = 0 /\ a.period = Pay!Period
      /\ a.status = "approved"
  BY <1>2, <1>3 DEF AdvanceRecs
<1> HIDE DEF a
<1>5. /\ DOMAIN advances = 1 .. Len(advances) /\ Len(advances) \in Nat
      /\ advances \in Seq(AdvanceRecs) /\ \A i \in DOMAIN advances : advances[i] \in AdvanceRecs
  BY <1>2, SlotsAre DEF PayTyped
<1>6. /\ DOMAIN advances' = (DOMAIN advances) \cup {n} /\ n \notin DOMAIN advances
      /\ advances'[n] = a /\ \A i \in DOMAIN advances : advances'[i] = advances[i]
      /\ advances' \in Seq(AdvanceRecs)
  BY <1>1, <1>4, <1>5
<1> HIDE DEF n
<1>7. Pay!Period' = Pay!Period /\ Pay!AccruedToDate' = Pay!AccruedToDate
  BY <1>1 DEF Pay!Period, Pay!AccruedToDate
<1>8. PayTyped'
  <2>1. \A i \in DOMAIN advances' : /\ advances'[i].recovered <= advances'[i].amount
                                    /\ advances'[i].period <= Pay!Period
    BY <1>2, <1>3, <1>4, <1>6 DEF PayTyped
  <2> QED
    BY <1>1, <1>2, <1>6, <1>7, <2>1 DEF PayTyped
<1>9. Pay!Open' = Pay!Open \cup {n} /\ n \notin Pay!Open
  BY <1>4, <1>6 DEF Pay!Open, Pay!Slots
<1>10. Owing' = Owing + x
  <2>1. /\ IsFiniteSet(Pay!Open) /\ Owing \in Nat /\ Pay!Open \subseteq DOMAIN advances
    BY <1>2, SlotsAre
  <2>2. Owes'[n] = x /\ \A i \in Pay!Open : Owes'[i] = Owes[i]
    BY <1>2, <1>4, <1>6, <2>1 DEF Owes
  <2>3. Whole(Owes', Pay!Open \cup {n})
    BY <1>8, <1>9, SlotsNext DEF Whole
  <2>4. SumOf(Owes', Pay!Open \cup {n}) = Owes'[n] + SumOf(Owes', Pay!Open)
    BY <1>9, <2>1, <2>3, SumAdd
  <2>5. SumOf(Owes', Pay!Open) = SumOf(Owes, Pay!Open)
    BY <2>1, <2>2, SumSame
  <2> QED
    BY <1>2, <1>9, <2>1, <2>2, <2>4, <2>5 DEF Owing
<1>11. Owing' <= Pay!AccruedToDate
  BY <1>1, <1>2, <1>10, AvailableIs
<1> QED
  BY <1>1, <1>7, <1>8, <1>10, <1>11

LEMMA PayDraws ==
    ASSUME PayConstants, PayIInv, NEW x \in Draws, NEW tier \in 1 .. 4,
           Pay!RequestAdvance(x, tier),
           UNCHANGED early
    PROVE  PayIInv'
<1>1. PayTyped /\ day \in Nat
  BY DEF PayIInv, PayTyped
<1>2. /\ PayTyped' /\ Pay!Period' = Pay!Period /\ Pay!AccruedToDate' = Pay!AccruedToDate
      /\ Owing' <= Pay!AccruedToDate /\ UNCHANGED <<day, paid, payslip>>
  BY <1>1, DrawIs
<1>3. Pay!Period \in Nat \ {0}
  BY <1>1, AccruedIs
<1>4. PayInOrder'
  <2> SUFFICES ASSUME ~ early
               PROVE  paid \subseteq 1 .. Pay!Period - 1 /\ Covered'
    BY <1>2 DEF PayInOrder
  <2>1. paid \subseteq 1 .. Pay!Period - 1
    BY DEF PayIInv, PayInOrder
  <2>2. Pay!Period \in 1 .. Pay!Period /\ Pay!Period \notin paid
    BY <1>3, <2>1
  <2>3. \A i \in Pay!Open' : advances'[i].period <= Pay!Period
    BY <1>2 DEF PayTyped, Pay!Open, Pay!Slots
  <2> QED
    BY <1>2, <2>1, <2>2, <2>3 DEF Covered
<1> QED
  BY <1>2, <1>4 DEF PayIInv, Pay!SavingsLeavePay

\* A payout that is confirmed owes what it owed, one that fails owes nothing.
LEMMA ResolveIs ==
    ASSUME PayConstants, PayTyped, NEW i \in Pay!Slots, NEW to \in {"disbursed", "cancelled"},
           Pay!Resolve(i, to)
    PROVE  /\ PayTyped' /\ Pay!Period' = Pay!Period /\ Pay!Open' \subseteq Pay!Open
           /\ \A j \in Pay!Open' : /\ Owes'[j] <= Owes[j]
                                    /\ advances'[j].period = advances[j].period
           /\ Owing' <= Owing /\ UNCHANGED <<day, floor, savings, paid, payslip>>
<1>1. /\ advances[i].status = "approved"
      /\ advances' = [advances EXCEPT ![i].status = to]
      /\ UNCHANGED <<day, floor, savings, paid, payslip>>
  BY DEF Pay!Resolve
<1>2. /\ PayTyped /\ DOMAIN advances = 1 .. Len(advances) /\ Len(advances) \in Nat
      /\ i \in DOMAIN advances
      /\ advances \in Seq(AdvanceRecs) /\ \A j \in DOMAIN advances : advances[j] \in AdvanceRecs
  BY SlotsAre DEF PayTyped
<1>3. [advances[i] EXCEPT !.status = to] \in AdvanceRecs
  BY <1>2 DEF AdvanceRecs
<1>4. /\ DOMAIN advances' = DOMAIN advances
      /\ \A j \in DOMAIN advances :
             /\ advances'[j] \in AdvanceRecs
             /\ advances'[j].amount = advances[j].amount
             /\ advances'[j].recovered = advances[j].recovered
             /\ advances'[j].period = advances[j].period
             /\ j # i => advances'[j] = advances[j]
  BY <1>1, <1>2, <1>3 DEF AdvanceRecs
<1>5. advances' \in Seq(AdvanceRecs)
  BY <1>1, <1>2, <1>3, <1>4
<1>6. Pay!Period' = Pay!Period
  BY <1>1 DEF Pay!Period
<1>7. PayTyped'
  BY <1>1, <1>2, <1>4, <1>5, <1>6 DEF PayTyped
<1>8. Pay!Open' \subseteq Pay!Open
  BY <1>1, <1>2, <1>4 DEF Pay!Open, Pay!Slots
<1>9. \A j \in Pay!Open' : Owes'[j] <= Owes[j] /\ advances'[j].period = advances[j].period
  <2>1. \A j \in Pay!Open' : j \in DOMAIN advances /\ Owes[j] \in Nat
    BY <1>2, <1>8, SlotsAre
  <2>2. \A j \in DOMAIN advances : Owes'[j] = Owes[j]
    BY <1>4 DEF Owes
  <2> QED
    BY <1>4, <2>1, <2>2
<1>10. Owing' <= Owing
  BY <1>2, <1>7, <1>8, <1>9, OwingFalls
<1> QED
  BY <1>1, <1>6, <1>7, <1>8, <1>9, <1>10

LEMMA PayResolves ==
    ASSUME PayConstants, PayIInv, NEW i \in Pay!Slots, NEW to \in {"disbursed", "cancelled"},
           Pay!Resolve(i, to),
           UNCHANGED early
    PROVE  PayIInv'
<1>1. PayTyped
  BY DEF PayIInv
<1>2. /\ PayTyped' /\ Pay!Period' = Pay!Period /\ Pay!Open' \subseteq Pay!Open
      /\ \A j \in Pay!Open' : /\ Owes'[j] <= Owes[j]
                               /\ advances'[j].period = advances[j].period
      /\ UNCHANGED <<day, paid, payslip>>
  BY <1>1, ResolveIs
<1>3. Covered => Covered'
  BY <1>1, <1>2, CoveredStays
<1> QED
  BY <1>2, <1>3 DEF PayIInv, PayInOrder, Pay!SavingsLeavePay

\* What changes only the worker's preferences, or what is shown.
LEMMA PayPrefers ==
    ASSUME PayConstants, PayIInv, UNCHANGED <<day, advances, paid, payslip>>,
           floor'.amount \in Nat, savings' \in Savings \cup {Pay!Off},
           UNCHANGED early
    PROVE  PayIInv'
<1>1. Pay!Period' = Pay!Period /\ Pay!AccruedToDate' = Pay!AccruedToDate
  BY DEF Pay!Period, Pay!AccruedToDate
<1>2. Pay!Open' = Pay!Open /\ Owing' = Owing
  BY DEF Pay!Open, Pay!Slots, Owing, Owes
<1>3. PayTyped'
  BY <1>1 DEF PayIInv, PayTyped
<1> QED
  BY <1>1, <1>2, <1>3 DEF PayIInv, PayInOrder, Covered, Pay!SavingsLeavePay

-----------------------------------------------------------------------------
(* The payroll run.                                                        *)

\* What the advances due before this one owe.
Before(p, i) == SumOf(Owes, {j \in Pay!Due(p) : j < i})

\* What is withheld for an advance: what it owes, or what those before it leave.
LEMMA PortionTakes ==
    ASSUME PayConstants, PayTyped, NEW p \in Nat, NEW i \in Pay!Slots
    PROVE  /\ Before(p, i) \in Nat
           /\ Pay!Portion(p, i) = IF i \notin Pay!Due(p) \/ Before(p, i) >= Salary THEN 0
                                  ELSE IF Owes[i] <= Salary - Before(p, i) THEN Owes[i]
                                  ELSE Salary - Before(p, i)
<1> DEFINE S == {j \in Pay!Due(p) : j < i}
           m == Pay!Max({0, Salary - SumOf(Owes, S)})
<1>1. Pay!Due(p) \subseteq Pay!Slots
  BY DEF Pay!Due, Pay!Disbursed
<1>2. Pay!SumOver(S) = SumOf(Owes, S) /\ SumOf(Owes, S) \in Nat
  BY <1>1, OverIs
<1>3. Owes[i] \in Nat /\ Owes[i] = Pay!Remaining(advances[i]) /\ Salary \in Nat
  BY SlotsAre, PayBounds
<1>4. m = IF 0 >= Salary - SumOf(Owes, S) THEN 0 ELSE Salary - SumOf(Owes, S)
  BY <1>2, <1>3, PairMax
<1>5. Pay!Portion(p, i) = IF i \notin Pay!Due(p) THEN 0 ELSE Pay!Min({Owes[i], m})
  BY <1>2, <1>3 DEF Pay!Portion
<1>6. m \in Nat
  BY <1>2, <1>3, <1>4
<1>7. Before(p, i) = SumOf(Owes, S)
  BY DEF Before
<1> HIDE DEF m, S
<1>8. Pay!Min({Owes[i], m}) = IF Owes[i] <= m THEN Owes[i] ELSE m
  BY <1>3, <1>6, PairMin
<1> QED
  BY <1>2, <1>3, <1>4, <1>5, <1>6, <1>7, <1>8

\* What is withheld for an advance is within what it owes; and all of it, when the pay
\* is enough for everything outstanding.
LEMMA PortionIs ==
    ASSUME PayConstants, PayTyped, NEW p \in Nat, NEW i \in Pay!Slots
    PROVE  /\ Pay!Portion(p, i) \in Nat /\ Pay!Portion(p, i) <= Owes[i]
           /\ i \in Pay!Due(p) /\ Owing <= Salary => Pay!Portion(p, i) = Owes[i]
<1> DEFINE S == {j \in Pay!Due(p) : j < i}
<1>1. Pay!Due(p) \subseteq Pay!Slots /\ Pay!Due(p) \subseteq Pay!Open
  BY DEF Pay!Due, Pay!Disbursed, Pay!Open
<1>2. Owes[i] \in Nat /\ Salary \in Nat /\ Owing \in Nat
  BY SlotsAre, PayBounds
<1>3. i \in Pay!Due(p) => Before(p, i) + Owes[i] <= Owing
  <2> SUFFICES ASSUME i \in Pay!Due(p)
               PROVE  Before(p, i) + Owes[i] <= Owing
    OBVIOUS
  <2>1. S \cup {i} \in SUBSET Pay!Open /\ i \notin S /\ S \in SUBSET Pay!Slots
    BY <1>1, SlotsAre
  <2>2. IsFiniteSet(S) /\ IsFiniteSet(Pay!Open) /\ \A j \in Pay!Open : Owes[j] \in Nat
    BY <2>1, SlotsAre, FS_Subset
  <2>3. Before(p, i) = SumOf(Owes, S) /\ Before(p, i) \in Nat
    BY PortionTakes DEF Before
  <2> HIDE DEF S
  <2>4. Whole(Owes, S \cup {i})
    BY <2>1, <2>2 DEF Whole
  <2>5. SumOf(Owes, S \cup {i}) = Owes[i] + SumOf(Owes, S)
    BY <2>1, <2>2, <2>4, SumAdd
  <2>6. SumOf(Owes, S \cup {i}) <= SumOf(Owes, Pay!Open)
    BY <2>1, <2>2, SumPart
  <2> QED
    BY <1>2, <2>3, <2>5, <2>6 DEF Owing
<1> QED
  BY <1>2, <1>3, PortionTakes

\* What becomes of an advance in a payroll run.
LEMMA SettledIs ==
    ASSUME PayConstants, PayTyped, NEW p \in Nat, NEW i \in Pay!Slots
    PROVE  LET b == Pay!Settled(p, i) IN
           /\ b \in AdvanceRecs /\ b.recovered <= b.amount
           /\ b.period = advances[i].period /\ b.amount = advances[i].amount
           /\ b.day = advances[i].day
           /\ b.amount - b.recovered <= Owes[i]
           /\ b.status \in {"approved", "disbursed"} => i \in Pay!Open
           /\ i \in Pay!Open /\ advances[i].period <= p /\ Owing <= Salary =>
                 b.status \notin {"approved", "disbursed"}
<1> DEFINE a == advances[i]
           got == a.recovered + Pay!Portion(p, i)
<1>1. a \in AdvanceRecs /\ Owes[i] = a.amount - a.recovered /\ Owes[i] \in Nat
  BY SlotsAre DEF Owes
<1>2. /\ a.amount \in Nat /\ a.recovered \in Nat /\ a.period \in Nat
      /\ a.status \in {"approved", "disbursed", "settled", "cancelled"}
  BY <1>1 DEF AdvanceRecs
<1>3. /\ Pay!Portion(p, i) \in Nat /\ Pay!Portion(p, i) <= Owes[i]
      /\ i \in Pay!Due(p) /\ Owing <= Salary => Pay!Portion(p, i) = Owes[i]
  BY PortionIs
<1>4. /\ got \in Nat /\ got <= a.amount /\ a.recovered <= got
      /\ i \in Pay!Due(p) /\ Owing <= Salary => got >= a.amount
  BY <1>1, <1>2, <1>3
<1>5. i \in Pay!Due(p) <=> a.status = "disbursed" /\ a.period <= p
  BY DEF Pay!Due, Pay!Disbursed
<1>6. i \in Pay!Open <=> a.status \in {"approved", "disbursed"}
  BY DEF Pay!Open
<1>7. Pay!Settled(p, i) =
        IF a.status = "approved" /\ a.period <= p THEN [a EXCEPT !.status = "cancelled"]
        ELSE IF i \in Pay!Due(p)
        THEN [a EXCEPT !.recovered = got,
                       !.status = IF got >= a.amount THEN "settled" ELSE a.status]
        ELSE a
  BY DEF Pay!Settled
<1> HIDE DEF a, got
<1>8. CASE a.status = "approved" /\ a.period <= p
  <2> DEFINE b == [a EXCEPT !.status = "cancelled"]
  <2>1. Pay!Settled(p, i) = b
    BY <1>7, <1>8
  <2>2. /\ b \in AdvanceRecs /\ b.amount = a.amount /\ b.recovered = a.recovered
        /\ b.period = a.period /\ b.day = a.day /\ b.status = "cancelled"
    BY <1>1 DEF AdvanceRecs
  <2> HIDE DEF b
  <2> QED
    BY <1>1, <1>2, <2>1, <2>2 DEF a
<1>9. CASE ~ (a.status = "approved" /\ a.period <= p) /\ i \in Pay!Due(p)
  <2> DEFINE st == IF got >= a.amount THEN "settled" ELSE a.status
             b == [a EXCEPT !.recovered = got, !.status = st]
  <2>1. Pay!Settled(p, i) = b
    BY <1>7, <1>9
  <2>2. st \in {"approved", "disbursed", "settled", "cancelled"}
    BY <1>2
  <2> HIDE DEF st
  <2>3. /\ b \in AdvanceRecs /\ b.amount = a.amount /\ b.recovered = got
        /\ b.period = a.period /\ b.day = a.day /\ b.status = st
    BY <1>1, <1>4, <2>2 DEF AdvanceRecs
  <2> HIDE DEF b
  <2>4. i \in Pay!Open /\ (Owing <= Salary => st = "settled")
    BY <1>2, <1>4, <1>5, <1>6, <1>9 DEF st
  <2> QED
    BY <1>1, <1>2, <1>4, <2>1, <2>3, <2>4 DEF a
<1>10. CASE ~ (a.status = "approved" /\ a.period <= p) /\ i \notin Pay!Due(p)
  <2>1. Pay!Settled(p, i) = a
    BY <1>7, <1>10
  <2>2. ~ (a.status \in {"approved", "disbursed"} /\ a.period <= p)
    BY <1>5, <1>10
  <2> QED
    BY <1>1, <1>2, <1>6, <2>1, <2>2 DEF a
<1> QED
  BY <1>8, <1>9, <1>10

\* What is saved is less than the pay it is taken from.
LEMMA DivertedLess ==
    ASSUME PayConstants, PayTyped, NEW n \in Int
    PROVE  Pay!Diverted(n) \in Int /\ (Pay!Diverted(n) > 0 => Pay!Diverted(n) < n)
<1> DEFINE cut == Pay!PercentOf(n, savings.amount, 100)
           up == Pay!roundUpDelta(n, savings.amount)
           amount == CASE savings.mode = "fixed_percent" -> cut
                       [] savings.mode = "round_up" -> up
                       [] OTHER -> 0
<1>1. savings \in {Pay!Off} \cup Pay!Percents(1 .. 90) \cup Pay!RoundUps(Nat \ {0})
  BY DEF PayTyped, PayConstants, Pay!EarlyPayConstants
<1>2. savings.mode = "fixed_percent" => cut \in Int
  <2> SUFFICES ASSUME savings.mode = "fixed_percent"
               PROVE  cut \in Int
    OBVIOUS
  <2>1. savings.amount \in 1 .. 90
    BY <1>1 DEF Pay!Off, Pay!Percents, Pay!RoundUps
  <2>2. cut = HalfEven(n * savings.amount, 100)
    BY DEF Pay!PercentOf, HalfEven
  <2>3. n * savings.amount \in Int
    BY <2>1
  <2> QED
    BY <2>2, <2>3 DEF HalfEven
<1>3. savings.mode = "round_up" => up \in Int
  <2> SUFFICES ASSUME savings.mode = "round_up"
               PROVE  up \in Int
    OBVIOUS
  <2>1. savings.amount \in Nat \ {0}
    BY <1>1 DEF Pay!Off, Pay!Percents, Pay!RoundUps
  <2> QED
    BY <2>1 DEF Pay!roundUpDelta
<1>4. Pay!Diverted(n) = IF amount < n THEN amount ELSE 0
  BY DEF Pay!Diverted
<1> HIDE DEF cut, up
<1>5. amount \in Int
  BY <1>2, <1>3
<1> HIDE DEF amount
<1> QED
  BY <1>4, <1>5

Portions(p) == [i \in Pay!Slots |-> Pay!Portion(p, i)]

\* The advances that are due take the pay in their order until it is used up.
LEMMA FirstOnes ==
    ASSUME PayConstants, PayTyped, NEW p \in Nat, NEW n \in 0 .. Len(advances)
    PROVE  LET r == SumOf(Owes, {j \in Pay!Due(p) : j < n + 1}) IN
           SumOf(Portions(p), 1 .. n) = IF r <= Salary THEN r ELSE Salary
<1> DEFINE R(m) == SumOf(Owes, {j \in Pay!Due(p) : j < m + 1})
           W(m) == SumOf(Portions(p), 1 .. m)
           bad == {m \in 0 .. Len(advances) : W(m) # IF R(m) <= Salary THEN R(m) ELSE Salary}
<1> SUFFICES ASSUME bad # {}
             PROVE  FALSE
  OBVIOUS
<1>1. /\ Pay!Slots = 1 .. Len(advances) /\ Len(advances) \in Nat /\ IsFiniteSet(Pay!Slots)
      /\ \A i \in Pay!Slots : Owes[i] \in Nat /\ Portions(p)[i] \in Nat
      /\ \A i \in Pay!Slots : Portions(p)[i] = Pay!Portion(p, i)
      /\ Salary \in Nat
  BY SlotsAre, PortionIs, PayBounds DEF Portions
<1>2. Pay!Due(p) \subseteq Pay!Slots
  BY DEF Pay!Due, Pay!Disbursed
<1>3. PICK m \in bad : \A k \in bad : m <= k
  <2>1. bad \in SUBSET Nat
    BY <1>1
  <2> HIDE DEF bad
  <2> QED
    BY <2>1, LeastNat
<1>4. CASE m = 0
  <2>1. {j \in Pay!Due(p) : j < 0 + 1} = {} /\ 1 .. 0 = {}
    BY <1>1, <1>2
  <2>2. R(0) = 0 /\ W(0) = 0
    BY <2>1, SumEmpty
  <2> QED
    BY <1>1, <1>3, <1>4, <2>2
<1>5. CASE m # 0
  <2> DEFINE l == m - 1
  <2>1. m \in Pay!Slots /\ l \in 0 .. Len(advances) /\ l \notin bad /\ m \in Nat /\ l \in Nat
    BY <1>1, <1>3, <1>5
  <2>2. W(l) = IF R(l) <= Salary THEN R(l) ELSE Salary
    BY <2>1
  <2>3. R(l) = Before(p, m) /\ R(l) \in Nat
    <3>1. l + 1 = m
      BY <2>1
    <3> QED
      BY <2>1, <3>1, PortionTakes DEF Before
  <2>4. W(m) = Portions(p)[m] + W(l)
    <3>1. 1 .. m = (1 .. l) \cup {m} /\ m \notin 1 .. l /\ 1 .. m \subseteq Pay!Slots
      BY <1>1, <2>1
    <3>2. IsFiniteSet(1 .. l)
      BY <2>1, FS_Interval
    <3>3. Whole(Portions(p), (1 .. l) \cup {m})
      <4> HIDE DEF l
      <4>1. \A x \in Pay!Slots : Portions(p)[x] \in Int
        BY <1>1
      <4>2. (1 .. l) \cup {m} \subseteq Pay!Slots
        BY <3>1
      <4> QED
        BY <4>1, <4>2 DEF Whole
    <3> QED
      BY <3>1, <3>2, <3>3, SumAdd
  <2>5. CASE m \notin Pay!Due(p)
    <3>1. {j \in Pay!Due(p) : j < m + 1} = {j \in Pay!Due(p) : j < l + 1}
      BY <1>1, <1>2, <2>1, <2>5
    <3>2. R(m) = R(l)
      BY <3>1
    <3>3. Portions(p)[m] = 0
      BY <1>1, <2>1, <2>5, PortionTakes
    <3> HIDE DEF R, W
    <3>4. W(m) = IF R(m) <= Salary THEN R(m) ELSE Salary
      BY <1>1, <2>2, <2>3, <2>4, <3>2, <3>3
    <3> QED
      BY <1>3, <3>4 DEF W, R
  <2>6. CASE m \in Pay!Due(p)
    <3> DEFINE D == {j \in Pay!Due(p) : j < l + 1}
    <3>1. {j \in Pay!Due(p) : j < m + 1} = D \cup {m} /\ m \notin D
          /\ D \cup {m} \subseteq Pay!Slots
      BY <1>1, <1>2, <2>1, <2>6
    <3>2. IsFiniteSet(D) /\ Whole(Owes, D \cup {m})
      <4>1. D \subseteq Pay!Slots
        BY <3>1
      <4>2. IsFiniteSet(D)
        BY <1>1, <4>1, FS_Subset
      <4> HIDE DEF D
      <4> QED
        BY <1>1, <3>1, <4>2 DEF Whole
    <3>3. R(m) = Owes[m] + R(l)
      <4>1. SumOf(Owes, D \cup {m}) = Owes[m] + SumOf(Owes, D)
        <5> HIDE DEF D
        <5> QED
          BY <3>1, <3>2, SumAdd
      <4> QED
        BY <3>1, <4>1
    <3>4. Portions(p)[m] = IF R(l) >= Salary THEN 0
                           ELSE IF Owes[m] <= Salary - R(l) THEN Owes[m] ELSE Salary - R(l)
      BY <1>1, <2>1, <2>3, <2>6, PortionTakes
    <3>5. Owes[m] \in Nat
      BY <1>1, <2>1
    <3> HIDE DEF R, W, l
    <3>6. W(m) = IF R(m) <= Salary THEN R(m) ELSE Salary
      BY <1>1, <2>2, <2>3, <2>4, <3>3, <3>4, <3>5
    <3> QED
      BY <1>3, <3>6 DEF W, R
  <2> QED
    BY <2>5, <2>6
<1> QED
  BY <1>4, <1>5

\* What is withheld is what is due, or the whole pay if that is less.
LEMMA WithheldIs ==
    ASSUME PayConstants, PayTyped, NEW p \in Nat
    PROVE  LET w == Pay!MapThenSumSet(LAMBDA i : Pay!Portion(p, i), Pay!Slots)
               r == SumOf(Owes, Pay!Due(p))
           IN  w \in Nat /\ r \in Nat /\ r <= Owing /\ w = IF r <= Salary THEN r ELSE Salary
<1> DEFINE f == Portions(p)
           S == Pay!Slots
           H(h) == h = [s \in SUBSET S |->
                          IF s = {} THEN 0
                          ELSE Pay!Portion(p, Pick(s)) + h[s \ {Pick(s)}]]
           k == CHOOSE h : H(h)
<1>1. Pay!MapThenSumSet(LAMBDA i : Pay!Portion(p, i), S) = k[S]
  BY DEF Pay!MapThenSumSet, Pay!MapThenFoldSet, Pick
<1>2. \A s \in SUBSET S : s # {} => f[Pick(s)] = Pay!Portion(p, Pick(s))
  BY PickIn DEF Portions
<1> HIDE DEF f
<1>3. \A h : H(h) <=> AddsOver(f, SUBSET S, h)
  BY <1>2 DEF AddsOver
<1>4. /\ IsFiniteSet(S) /\ S = 1 .. Len(advances) /\ Len(advances) \in Nat
      /\ IsFiniteSet(Pay!Open) /\ \A i \in Pay!Open : Owes[i] \in Nat
  BY SlotsAre
<1> HIDE DEF H
<1>5. \E h : H(h)
  BY <1>3, <1>4, SolutionExists
<1>6. H(k)
  BY <1>5, Zenon
<1> HIDE DEF k
<1>7. k[S] = SumOf(f, S)
  BY <1>3, <1>4, <1>6, SumIs
<1>8. Pay!Due(p) \in SUBSET Pay!Open /\ Pay!Due(p) \subseteq S
  BY DEF Pay!Due, Pay!Disbursed, Pay!Open
<1>9. {j \in Pay!Due(p) : j < Len(advances) + 1} = Pay!Due(p)
  BY <1>4, <1>8
<1> DEFINE r == SumOf(Owes, Pay!Due(p))
<1>10. SumOf(f, S) = IF r <= Salary THEN r ELSE Salary
  <2>1. Len(advances) \in 0 .. Len(advances)
    BY <1>4
  <2> QED
    BY <1>4, <1>9, <2>1, FirstOnes DEF f
<1>11. r \in Nat /\ r <= Owing
  BY <1>4, <1>8, SumPart DEF Owing
<1>12. Salary \in Nat
  BY PayBounds
<1> HIDE DEF r
<1> QED
  BY <1>1, <1>7, <1>10, <1>11, <1>12 DEF r

\* A payroll run leaves less outstanding, and nothing when the pay is enough for all of
\* it and no open advance is of a later period.
LEMMA RunIs ==
    ASSUME PayConstants, PayTyped, NEW p \in 1 .. Pay!Period, Pay!CreatePayroll(p)
    PROVE  /\ PayTyped' /\ Pay!Period' = Pay!Period /\ Pay!Open' \subseteq Pay!Open
           /\ \A i \in Pay!Open' : /\ Owes'[i] <= Owes[i]
                                   /\ advances'[i].period = advances[i].period
           /\ Owing' <= Owing /\ paid' = paid \cup {p} /\ UNCHANGED <<day, floor, savings>>
           /\ Owing <= Salary /\ (\A i \in Pay!Open : advances[i].period <= p) =>
                 Pay!Open' = {}
<1>1. /\ paid' = paid \cup {p}
      /\ advances' = [i \in Pay!Slots |-> Pay!Settled(p, i)]
      /\ UNCHANGED <<day, floor, savings>>
  BY DEF Pay!CreatePayroll
<1>2. Pay!Period \in Nat \ {0} /\ p \in Nat
  BY AccruedIs DEF PayTyped
<1>3. /\ Pay!Slots = DOMAIN advances /\ Pay!Slots = 1 .. Len(advances)
      /\ Len(advances) \in Nat
      /\ \A i \in Pay!Slots : Owes[i] \in Nat /\ advances[i] \in AdvanceRecs
  BY SlotsAre
<1>4. /\ DOMAIN advances' = Pay!Slots
      /\ \A i \in Pay!Slots :
             /\ advances'[i] \in AdvanceRecs
             /\ advances'[i].recovered <= advances'[i].amount
             /\ advances'[i].period = advances[i].period
             /\ advances'[i].amount - advances'[i].recovered <= Owes[i]
             /\ advances'[i].status \in {"approved", "disbursed"} => i \in Pay!Open
             /\ i \in Pay!Open /\ advances[i].period <= p /\ Owing <= Salary =>
                   advances'[i].status \notin {"approved", "disbursed"}
  <2>1. \A i \in Pay!Slots : advances'[i] = Pay!Settled(p, i)
    BY <1>1
  <2>2. DOMAIN advances' = Pay!Slots
    BY <1>1
  <2> QED
    BY <1>2, <2>1, <2>2, SettledIs
<1>5. advances' \in Seq(AdvanceRecs)
  <2>1. advances' \in [1 .. Len(advances) -> AdvanceRecs]
    BY <1>1, <1>3, <1>4
  <2> QED
    BY <1>3, <2>1, SeqDef
<1>6. Pay!Period' = Pay!Period
  BY <1>1 DEF Pay!Period
<1>7. PayTyped'
  BY <1>1, <1>3, <1>4, <1>5, <1>6 DEF PayTyped
<1>8. Pay!Open' \subseteq Pay!Open
  BY <1>4 DEF Pay!Open, Pay!Slots
<1>9. \A i \in Pay!Open' : Owes'[i] <= Owes[i] /\ advances'[i].period = advances[i].period
  <2>1. \A i \in Pay!Open' : i \in Pay!Slots
    BY <1>8 DEF Pay!Open
  <2>2. \A i \in Pay!Slots : Owes'[i] = advances'[i].amount - advances'[i].recovered
    BY <1>4 DEF Owes
  <2> QED
    BY <1>4, <2>1, <2>2
<1>10. Owing <= Salary /\ (\A i \in Pay!Open : advances[i].period <= p) => Pay!Open' = {}
  <2> SUFFICES ASSUME Owing <= Salary, \A i \in Pay!Open : advances[i].period <= p
               PROVE  Pay!Open' = {}
    OBVIOUS
  <2>1. \A i \in Pay!Open : i \in Pay!Slots
    BY DEF Pay!Open
  <2>2. \A i \in Pay!Open : advances'[i].status \notin {"approved", "disbursed"}
    BY <1>4, <2>1
  <2> QED
    BY <1>8, <2>2 DEF Pay!Open
<1>11. Owing' <= Owing
  BY <1>7, <1>8, <1>9, OwingFalls
<1> QED
  BY <1>1, <1>6, <1>7, <1>8, <1>9, <1>10, <1>11

\* A payroll for a period no open advance is later than closes them all, since what is
\* outstanding is within a salary; any other leaves the one that covers them.
LEMMA PayRuns ==
    ASSUME PayConstants, PayIInv, NEW p \in 1 .. Pay!Period, Pay!CreatePayroll(p),
           UNCHANGED early
    PROVE  PayIInv'
<1> DEFINE withheld == Pay!MapThenSumSet(LAMBDA i : Pay!Portion(p, i), Pay!Slots)
           saved == Pay!Diverted(Salary - withheld)
<1>1. /\ p < Pay!Period \/ (early /\ p = Pay!Period)
      /\ payslip' = [withheld |-> withheld, saved |-> saved, net |-> Salary - withheld - saved]
  BY DEF Pay!CreatePayroll
<1>2. PayTyped /\ Salary \in Nat /\ day \in Nat
  BY PayBounds DEF PayIInv, PayTyped
<1>3. /\ Pay!Period \in Nat \ {0} /\ p \in Nat /\ Pay!AccruedToDate \in Nat
      /\ Pay!AccruedToDate <= Salary
  BY <1>2, AccruedIs
<1>4. Pay!SavingsLeavePay'
  <2>1. withheld \in Nat
    BY <1>2, <1>3, WithheldIs
  <2> HIDE DEF withheld
  <2>2. saved \in Int /\ (saved > 0 => saved < Salary - withheld)
    BY <1>2, <2>1, DivertedLess
  <2> HIDE DEF saved
  <2>3. payslip'.saved = saved /\ payslip'.net = Salary - withheld - saved
    BY <1>1
  <2> QED
    BY <1>2, <2>1, <2>2, <2>3 DEF Pay!SavingsLeavePay
<1>5. /\ PayTyped' /\ Pay!Period' = Pay!Period /\ Pay!Open' \subseteq Pay!Open
      /\ \A i \in Pay!Open' : /\ Owes'[i] <= Owes[i]
                              /\ advances'[i].period = advances[i].period
      /\ paid' = paid \cup {p} /\ day' = day
      /\ Owing <= Salary /\ (\A i \in Pay!Open : advances[i].period <= p) => Pay!Open' = {}
  BY <1>2, RunIs
<1>6. PayInOrder'
  <2> SUFFICES ASSUME ~ early
               PROVE  paid' \subseteq 1 .. Pay!Period - 1 /\ Covered'
    BY <1>5 DEF PayInOrder
  <2>1. paid \subseteq 1 .. Pay!Period - 1 /\ Covered
    BY DEF PayIInv, PayInOrder
  <2>2. paid' \subseteq 1 .. Pay!Period - 1
    BY <1>1, <1>3, <1>5, <2>1
  <2>3. Pay!Open # {} => Owing <= Salary
    BY <1>2, <1>3, <2>1, SlotsAre DEF Covered
  <2>4. \A i \in Pay!Open : ~ (advances[i].period > p) => advances[i].period <= p
    BY <1>2, <1>3, SlotsAre DEF AdvanceRecs
  <2>5. Pay!Open' = {} \/ \E i \in Pay!Open : advances[i].period > p
    BY <1>5, <2>3, <2>4
  <2>6. \A q \in 1 .. Pay!Period : q \in paid' /\ q \notin paid => q = p
    BY <1>5
  <2> QED
    BY <1>2, <1>5, <2>1, <2>2, <2>5, <2>6, CoveredStays
<1> QED
  BY <1>4, <1>5, <1>6 DEF PayIInv

LEMMA PayStep ==
    ASSUME PayConstants, PayIInv, [Pay!Next]_(Pay!vars)
    PROVE  PayIInv'
<1>0. UNCHANGED early
  BY DEF Pay!Next, Pay!vars
<1>1. floor.amount \in Nat /\ savings \in Savings \cup {Pay!Off}
  BY DEF PayIInv, PayTyped
<1>2. CASE Pay!NextDay
  BY <1>0, <1>2, PayDayPasses
<1>3. CASE Pay!GetEligibility
  BY <1>0, <1>1, <1>3, PayPrefers DEF Pay!GetEligibility
<1>4. CASE \E x \in Draws, tier \in 1 .. 4 : Pay!RequestAdvance(x, tier)
  BY <1>0, <1>4, PayDraws
<1>5. CASE \E i \in Pay!Slots, to \in {"disbursed", "cancelled"} : Pay!Resolve(i, to)
  BY <1>0, <1>5, PayResolves
<1>6. CASE \E f \in ProtectedFloors : Pay!SetProtectedPayday(f)
  <2>1. floor'.amount \in Nat /\ UNCHANGED <<day, advances, paid, payslip, savings>>
    BY <1>6, PayBounds DEF Pay!SetProtectedPayday
  <2> QED
    BY <1>0, <1>1, <2>1, PayPrefers
<1>7. CASE \E s \in Savings : Pay!SetSavingsPreference(s)
  <2>1. savings' \in Savings /\ UNCHANGED <<day, advances, paid, payslip, floor>>
    BY <1>7 DEF Pay!SetSavingsPreference
  <2> QED
    BY <1>0, <1>1, <2>1, PayPrefers
<1>8. CASE \E p \in 1 .. Pay!Period : Pay!CreatePayroll(p)
  BY <1>0, <1>8, PayRuns
<1>9. CASE UNCHANGED Pay!vars
  BY <1>1, <1>9, PayPrefers DEF Pay!vars
<1> QED
  BY <1>0, <1>2, <1>3, <1>4, <1>5, <1>6, <1>7, <1>8, <1>9 DEF Pay!Next

\* Early pay's inductive invariant: unless the employer pays before a period is over, some
\* payroll yet to run is for no earlier a period than any open advance and earns all that
\* is outstanding (eligibilityTx, SettleAdvancesForPayrollItem).
THEOREM PayInvariant == PayConstants => (Pay!Spec => []PayIInv)
<1> SUFFICES ASSUME PayConstants
             PROVE  Pay!Spec => []PayIInv
  OBVIOUS
<1>1. Pay!Init => PayIInv
  BY PayInit
<1>2. PayIInv /\ [Pay!Next]_(Pay!vars) => PayIInv'
  BY PayStep
<1> QED
  BY <1>1, <1>2, PTL DEF Pay!Spec

\* One unpaid period is worth a salary.
LEMMA UnpaidIsWorth ==
    ASSUME PayConstants, PayTyped, NEW q \in 1 .. Pay!Period - 1, q \notin paid
    PROVE  Salary * Cardinality(Pay!Unpaid) >= Salary
<1>1. Pay!Period \in Nat \ {0} /\ Salary \in Nat
  BY AccruedIs, PayBounds DEF PayTyped
<1>2. q \in Pay!Unpaid /\ Pay!Unpaid \subseteq 1 .. Pay!Period - 1
  BY DEF Pay!Unpaid
<1>3. IsFiniteSet(Pay!Unpaid)
  <2>1. IsFiniteSet(1 .. Pay!Period - 1)
    BY <1>1, FS_Interval
  <2> QED
    BY <1>2, <2>1, FS_Subset
<1>4. Cardinality(Pay!Unpaid) \in Nat /\ Cardinality(Pay!Unpaid) # 0
  BY <1>2, <1>3, FS_CardinalityType, FS_EmptySet
<1> DEFINE c == Cardinality(Pay!Unpaid)
<1>5. c \in Nat /\ c >= 1
  BY <1>4
<1> HIDE DEF c
<1>6. Salary * (c - 1) >= 0
  BY <1>1, <1>5
<1> QED
  BY <1>1, <1>5, <1>6 DEF c

\* What is drawn never exceeds the wages earned and not yet paid, whatever the order of
\* payouts, late payrolls and draws, when no payroll precedes its period's end; and
\* savings leave some pay (eligibilityTx, CreatePayroll, DivertSavingsForPayrollItem).
THEOREM DrawsAlwaysWithinWages ==
    PayConstants =>
        (Pay!Spec => []((early \/ Pay!WithinUnpaidWages) /\ Pay!SavingsLeavePay))
<1> SUFFICES ASSUME PayConstants
             PROVE  Pay!Spec => []((early \/ Pay!WithinUnpaidWages)
                                     /\ Pay!SavingsLeavePay)
  OBVIOUS
<1>1. PayIInv => (early \/ Pay!WithinUnpaidWages) /\ Pay!SavingsLeavePay
  <2> SUFFICES ASSUME PayIInv, ~ early
               PROVE  Pay!WithinUnpaidWages
    BY DEF PayIInv
  <2>1. PayTyped /\ paid \subseteq 1 .. Pay!Period - 1 /\ Covered
    BY DEF PayIInv, PayInOrder
  <2>2. /\ Pay!Period \in Nat \ {0} /\ Pay!AccruedToDate \in Nat
        /\ Pay!AccruedToDate <= Salary /\ Salary \in Nat
    BY <2>1, AccruedIs, PayBounds DEF PayTyped
  <2>3. Pay!Period \notin paid
    BY <2>1, <2>2
  <2> DEFINE w == Salary * Cardinality(Pay!Unpaid)
  <2>4. w \in Nat
    <3>1. IsFiniteSet(1 .. Pay!Period - 1) /\ Pay!Unpaid \subseteq 1 .. Pay!Period - 1
      BY <2>2, FS_Interval DEF Pay!Unpaid
    <3>2. Cardinality(Pay!Unpaid) \in Nat
      BY <3>1, FS_Subset, FS_CardinalityType
    <3> QED
      BY <2>2, <3>2
  <2>5. Pay!WithinUnpaidWages <=> Owing <= w + Pay!AccruedToDate
    <3>1. Pay!Cardinality(Pay!Unpaid) = Cardinality(Pay!Unpaid)
      BY DEF Pay!Cardinality, Cardinality
    <3> QED
      BY <2>1, <2>3, <3>1, OutstandingOwed DEF Pay!WithinUnpaidWages, Pay!AccruedToDate
  <2>6. Owing \in Nat
    BY <2>1, SlotsAre
  <2>7. CASE Pay!Open = {}
    <3>1. Owing = 0
      BY <2>7, SumEmpty DEF Owing
    <3> HIDE DEF w
    <3> QED
      BY <2>2, <2>4, <2>5, <3>1
  <2>8. ASSUME NEW q \in 1 .. Pay!Period, q \notin paid,
               Owing <= IF q = Pay!Period THEN Pay!AccruedToDate ELSE Salary
        PROVE  Owing <= w + Pay!AccruedToDate
    <3>1. CASE q = Pay!Period
      <4> HIDE DEF w
      <4> QED
        BY <2>2, <2>4, <2>6, <2>8, <3>1
    <3>2. CASE q # Pay!Period
      <4>1. q \in 1 .. Pay!Period - 1
        BY <2>2, <3>2
      <4>2. w >= Salary
        BY <2>1, <2>8, <4>1, UnpaidIsWorth
      <4> HIDE DEF w
      <4> QED
        BY <2>2, <2>4, <2>6, <2>8, <3>2, <4>2
    <3> QED
      BY <3>1, <3>2
  <2> QED
    BY <2>1, <2>5, <2>7, <2>8 DEF Covered
<1> QED
  BY <1>1, PayInvariant, PTL

-----------------------------------------------------------------------------
(* What lands on payday.                                                   *)

TypedRecs == [amount : Draws, day : 0 .. LastDay, period : Nat, recovered : Nat,
              status : {"approved", "disbursed", "settled", "cancelled"}]

\* What the pay leaves when everything outstanding is taken from it.
Lands == IF Owing >= Salary THEN 0 ELSE Salary - Owing

\* No more has been drawn than the worker's floor allows, or than was already outstanding
\* when it was set.
FloorKept == floor.amount = 0 \/ Owing <= debt \/ Owing + floor.amount <= Salary

\* What was shown with nothing under way is still to be had.
ShownKept == shown = Pay!None \/ shown.pending \/ shown.projected <= Lands

LandsIInv == PayIInv /\ Pay!TypeOK /\ FloorKept /\ ShownKept

\* Lands is a number, and grows as less is owed.
LEMMA LandsIs ==
    ASSUME PayConstants, PayTyped
    PROVE  /\ Lands \in Nat
           /\ PayTyped' /\ Owing' <= Owing => Lands <= Lands' /\ Lands' \in Nat
<1>1. Owing \in Nat /\ Salary \in Nat /\ (PayTyped' => Owing' \in Nat)
  BY SlotsAre, SlotsNext, PayBounds
<1>2. Lands' = IF Owing' >= Salary THEN 0 ELSE Salary - Owing'
  BY DEF Lands
<1> QED
  BY <1>1, <1>2 DEF Lands

\* What is saved of some pay is a part of it, and nothing without a preference.
LEMMA DivertedPart ==
    ASSUME PayConstants, PayTyped, NEW n \in Nat
    PROVE  /\ Pay!Diverted(n) \in Nat /\ Pay!Diverted(n) <= n
           /\ savings = Pay!Off => Pay!Diverted(n) = 0
<1> DEFINE cut == Pay!PercentOf(n, savings.amount, 100)
           up == Pay!roundUpDelta(n, savings.amount)
           amount == CASE savings.mode = "fixed_percent" -> cut
                       [] savings.mode = "round_up" -> up
                       [] OTHER -> 0
<1>1. savings \in {Pay!Off} \cup Pay!Percents(1 .. 90) \cup Pay!RoundUps(Nat \ {0})
  BY DEF PayTyped, PayConstants, Pay!EarlyPayConstants
<1>2. savings.mode = "fixed_percent" => cut \in Nat
  <2> SUFFICES ASSUME savings.mode = "fixed_percent"
               PROVE  cut \in Nat
    OBVIOUS
  <2>1. savings.amount \in Nat /\ savings.amount <= 100 /\ 100 \in Nat \ {0}
    BY <1>1 DEF Pay!Off, Pay!Percents, Pay!RoundUps
  <2> QED
    BY <2>1, ShareWithin
<1>3. savings.mode = "round_up" => up \in Nat
  <2> SUFFICES ASSUME savings.mode = "round_up"
               PROVE  up \in Nat
    OBVIOUS
  <2>1. savings.amount \in Nat \ {0}
    BY <1>1 DEF Pay!Off, Pay!Percents, Pay!RoundUps
  <2> QED
    BY <2>1 DEF Pay!roundUpDelta
<1>4. Pay!Diverted(n) = IF amount < n THEN amount ELSE 0
  BY DEF Pay!Diverted
<1>5. savings = Pay!Off => amount = 0
  BY DEF Pay!Off
<1> HIDE DEF cut, up
<1>6. amount \in Nat
  BY <1>2, <1>3
<1> HIDE DEF amount
<1> QED
  BY <1>4, <1>5, <1>6

\* The payslip of a payroll run: within the pay, and what is outstanding at most is taken.
LEMMA SlipIs ==
    ASSUME PayConstants, PayTyped, NEW p \in 1 .. Pay!Period, Pay!CreatePayroll(p)
    PROVE  /\ payslip' \in [withheld : 0 .. Salary, saved : 0 .. Salary, net : 0 .. Salary]
           /\ Salary - payslip'.withheld >= Lands
           /\ savings = Pay!Off => payslip'.net >= Lands
<1> DEFINE w == Pay!MapThenSumSet(LAMBDA i : Pay!Portion(p, i), Pay!Slots)
           r == SumOf(Owes, Pay!Due(p))
           v == Pay!Diverted(Salary - w)
<1>1. payslip' = [withheld |-> w, saved |-> v, net |-> Salary - w - v]
  BY DEF Pay!CreatePayroll
<1>2. Salary \in Nat /\ Owing \in Nat /\ p \in Nat
  BY PayBounds, SlotsAre, AccruedIs DEF PayTyped
<1>3. w \in Nat /\ r \in Nat /\ r <= Owing /\ w = IF r <= Salary THEN r ELSE Salary
  BY <1>2, WithheldIs
<1> HIDE DEF w, r
<1>4. w <= Salary /\ Salary - w >= Lands /\ Salary - w \in Nat
  BY <1>2, <1>3 DEF Lands
<1>5. v \in Nat /\ v <= Salary - w /\ (savings = Pay!Off => v = 0)
  BY <1>4, DivertedPart
<1> HIDE DEF v
<1>6. /\ payslip'.withheld = w /\ payslip'.net = Salary - w - v
      /\ w \in 0 .. Salary /\ v \in 0 .. Salary /\ Salary - w - v \in 0 .. Salary
  BY <1>1, <1>2, <1>3, <1>4, <1>5
<1> QED
  BY <1>1, <1>2, <1>3, <1>4, <1>5, <1>6

LEMMA LandsInit ==
    ASSUME PayConstants, Pay!Init
    PROVE  LandsIInv
<1>1. PayIInv
  BY PayInit
<1>2. Pay!TypeOK
  BY DEF Pay!TypeOK, Pay!Init, PayConstants, Pay!EarlyPayConstants, Pay!Period, Pay!None
<1> QED
  BY <1>1, <1>2 DEF LandsIInv, FloorKept, ShownKept, Pay!Init

\* A step that leaves no more outstanding keeps the floor and the projection.
LEMMA LandsStands ==
    ASSUME PayConstants, LandsIInv, PayIInv', Owing' <= Owing, UNCHANGED <<floor, debt, shown>>
    PROVE  FloorKept' /\ ShownKept'
<1>1. PayTyped /\ PayTyped' /\ FloorKept /\ ShownKept
  BY DEF LandsIInv, PayIInv
<1>2. Lands <= Lands' /\ Lands \in Nat /\ Lands' \in Nat
  BY <1>1, LandsIs
<1>3. Owing \in Nat /\ Owing' \in Nat /\ Salary \in Nat /\ floor.amount \in Nat /\ debt \in Nat
  BY <1>1, SlotsAre, SlotsNext, PayBounds DEF PayTyped, LandsIInv, Pay!TypeOK
<1>4. FloorKept'
  BY <1>1, <1>3 DEF FloorKept
<1>5. shown = Pay!None \/ shown.projected \in Nat
  BY DEF LandsIInv, Pay!TypeOK
<1> QED
  BY <1>1, <1>2, <1>4, <1>5 DEF ShownKept

\* The headroom a floor leaves.
LEMMA HeadroomKept ==
    ASSUME PayConstants, PayTyped, NEW tier \in 1 .. 4, NEW x \in Nat \ {0},
           x <= Pay!Available(tier), floor.amount # 0
    PROVE  Owing + x + floor.amount <= Salary
<1> DEFINE T == Pay!TierCap(tier, Pay!PolicyCap, EmergencyFloor)
           L == Pay!Max({0, T - Owing})
           g == Pay!Max({0, Salary - floor.amount})
           h == Pay!Max({0, g - Owing})
<1>1. floor.amount \in Nat /\ Owing \in Nat /\ Salary \in Nat
  BY SlotsAre, PayBounds DEF PayTyped
<1>2. g = IF 0 >= Salary - floor.amount THEN 0 ELSE Salary - floor.amount
  BY <1>1, PairMax
<1> HIDE DEF g
<1>3. h = IF 0 >= g - Owing THEN 0 ELSE g - Owing
  BY <1>1, <1>2, PairMax
<1>4. T \in Nat
  BY TierCapIs
<1> HIDE DEF T
<1>5. L \in Int
  BY <1>1, <1>4, PairMax
<1>6. Pay!Available(tier) = Pay!Min({L, h})
  BY <1>1, OutstandingOwed DEF Pay!Available, g, T
<1> HIDE DEF L, h
<1>7. Pay!Available(tier) <= h /\ Pay!Available(tier) \in Int /\ h \in Int
  BY <1>1, <1>2, <1>3, <1>5, <1>6, PairMin
<1> QED
  BY <1>1, <1>2, <1>3, <1>7

LEMMA LandsDayPasses ==
    ASSUME PayConstants, LandsIInv, PayIInv', Pay!NextDay,
           UNCHANGED early
    PROVE  LandsIInv'
<1>1. /\ day < LastDay /\ day' = day + 1
      /\ UNCHANGED <<advances, floor, savings, paid, payslip, shown, debt>>
  BY DEF Pay!NextDay
<1>2. PayTyped /\ day \in Nat /\ Days \in Nat \ {0} /\ LastDay \in Nat
  BY PayBounds DEF LandsIInv, PayIInv, PayTyped, PayConstants, Pay!EarlyPayConstants
<1>3. Pay!Period \in Nat \ {0} /\ Pay!Period' \in Nat /\ Pay!Period <= Pay!Period'
  <2>1. Pay!Period \in Nat \ {0}
    BY <1>2, AccruedIs
  <2> QED
    BY <1>1, <1>2, <2>1, DayTurns DEF Pay!Period
<1>4. Pay!Period' \in Nat /\ 1 .. Pay!Period \subseteq 1 .. Pay!Period'
  BY <1>3
<1>5. Pay!TypeOK'
  BY <1>1, <1>2, <1>4 DEF LandsIInv, Pay!TypeOK
<1>6. Owing' = Owing /\ Owing \in Nat
  BY <1>1, <1>2, SlotsAre DEF Owing, Owes, Pay!Open, Pay!Slots
<1> QED
  BY <1>1, <1>5, <1>6, LandsStands DEF LandsIInv

LEMMA LandsShown ==
    ASSUME PayConstants, LandsIInv, PayIInv', Pay!GetEligibility,
           UNCHANGED early
    PROVE  LandsIInv'
<1>1. /\ shown' = [period |-> Pay!Period, projected |-> Pay!Projected,
                   pending |-> Pay!Open # Pay!Disbursed, savings |-> savings]
      /\ UNCHANGED <<day, advances, floor, savings, paid, payslip, debt>>
  BY DEF Pay!GetEligibility
<1>2. PayTyped /\ Salary \in Nat /\ savings \in Savings \cup {Pay!Off}
  BY PayBounds DEF LandsIInv, PayIInv, PayTyped
<1>3. Pay!Period' = Pay!Period /\ Pay!Period \in Nat \ {0}
  BY <1>1, <1>2, AccruedIs DEF Pay!Period, PayTyped
<1>4. Pay!Disbursed \in SUBSET Pay!Slots
  BY DEF Pay!Disbursed
<1>5. Pay!Recoverable = SumOf(Owes, Pay!Disbursed) /\ Pay!Recoverable \in Nat
  BY <1>2, <1>4, OverIs DEF Pay!Recoverable
<1>6. /\ Pay!Projected \in Nat
      /\ Pay!Open = Pay!Disbursed => Pay!Projected = Lands
  <2> DEFINE c == Pay!Recoverable
  <2>1. c \in Nat /\ (Pay!Open = Pay!Disbursed => c = Owing)
    BY <1>5 DEF Owing
  <2>2. Pay!Projected = Pay!Max({0, Salary - c})
    BY DEF Pay!Projected
  <2> HIDE DEF c
  <2>3. Pay!Projected = IF 0 >= Salary - c THEN 0 ELSE Salary - c
    BY <1>2, <2>1, <2>2, PairMax
  <2> QED
    BY <1>2, <2>1, <2>3 DEF Lands
<1>7. Lands' = Lands /\ Owing' = Owing
  BY <1>1 DEF Lands, Owing, Owes, Pay!Open, Pay!Slots
<1>8. shown' \in [period : 1 .. Pay!Period, projected : Nat, pending : BOOLEAN,
                  savings : Savings \cup {Pay!Off}]
  BY <1>1, <1>2, <1>3, <1>6
<1>9. Pay!TypeOK'
  BY <1>1, <1>3, <1>8 DEF LandsIInv, Pay!TypeOK
<1>10. ShownKept'
  <2>1. /\ shown'.pending <=> Pay!Open # Pay!Disbursed
        /\ shown'.projected = Pay!Projected
    BY <1>1
  <2>2. Lands \in Nat
    BY <1>2, LandsIs
  <2> QED
    BY <1>6, <1>7, <2>1, <2>2 DEF ShownKept
<1>11. FloorKept'
  BY <1>1, <1>7 DEF LandsIInv, FloorKept
<1> QED
  BY <1>9, <1>10, <1>11 DEF LandsIInv

LEMMA LandsDraws ==
    ASSUME PayConstants, LandsIInv, PayIInv', NEW x \in Draws, NEW tier \in 1 .. 4,
           Pay!RequestAdvance(x, tier),
           UNCHANGED early
    PROVE  LandsIInv'
<1> DEFINE a == [amount |-> x, day |-> day, period |-> Pay!Period, recovered |-> 0,
                 status |-> "approved"]
<1>1. /\ x <= Pay!Available(tier) /\ advances' = Append(advances, a) /\ shown' = Pay!None
      /\ Len(advances) < MaxAdvance /\ UNCHANGED <<day, floor, savings, paid, payslip, debt>>
  BY DEF Pay!RequestAdvance
<1>2. PayTyped /\ x \in Nat \ {0} /\ Pay!TypeOK
  BY PayBounds DEF LandsIInv, PayIInv
<1>3. Pay!Period' = Pay!Period /\ Owing' = Owing + x
  BY <1>2, DrawIs
<1>4. Pay!Period \in Nat \ {0} /\ MaxAdvance \in Nat
  BY <1>2, AccruedIs, PayBounds DEF PayTyped
<1>5. advances \in Seq(TypedRecs) /\ Len(advances) \in Nat
  BY <1>2 DEF Pay!TypeOK, TypedRecs
<1>6. a \in TypedRecs
  BY <1>2, <1>4 DEF TypedRecs, Pay!TypeOK
<1> HIDE DEF a
<1>7. advances' \in Seq(TypedRecs) /\ Len(advances') <= MaxAdvance
  BY <1>1, <1>4, <1>5, <1>6
<1>8. Pay!TypeOK'
  BY <1>1, <1>2, <1>3, <1>7 DEF Pay!TypeOK, TypedRecs
<1>9. FloorKept'
  <2>1. floor.amount # 0 => Owing + x + floor.amount <= Salary
    BY <1>1, <1>2, HeadroomKept
  <2>2. floor'.amount = floor.amount
    BY <1>1
  <2> QED
    BY <1>3, <2>1, <2>2 DEF FloorKept
<1> QED
  BY <1>1, <1>8, <1>9 DEF LandsIInv, ShownKept

LEMMA LandsResolves ==
    ASSUME PayConstants, LandsIInv, PayIInv', NEW i \in Pay!Slots,
           NEW to \in {"disbursed", "cancelled"}, Pay!Resolve(i, to),
           UNCHANGED early
    PROVE  LandsIInv'
<1>1. /\ advances' = [advances EXCEPT ![i].status = to]
      /\ UNCHANGED <<day, floor, savings, paid, payslip, shown, debt>>
  BY DEF Pay!Resolve
<1>2. PayTyped /\ Pay!TypeOK /\ i \in DOMAIN advances
  BY DEF LandsIInv, PayIInv, Pay!Slots
<1>3. Pay!Period' = Pay!Period /\ Owing' <= Owing
  BY <1>2, ResolveIs
<1>4. /\ advances \in Seq(TypedRecs) /\ Len(advances) \in Nat
      /\ DOMAIN advances = 1 .. Len(advances)
      /\ \A j \in DOMAIN advances : advances[j] \in TypedRecs
  <2>1. advances \in Seq(TypedRecs)
    BY <1>2 DEF Pay!TypeOK, TypedRecs
  <2> QED
    BY <2>1
<1>5. [advances[i] EXCEPT !.status = to] \in TypedRecs
  BY <1>2, <1>4 DEF TypedRecs
<1>6. advances' \in Seq(TypedRecs) /\ Len(advances') = Len(advances)
  BY <1>1, <1>2, <1>4, <1>5
<1>7. Pay!TypeOK'
  BY <1>1, <1>2, <1>3, <1>6 DEF Pay!TypeOK, TypedRecs
<1> QED
  BY <1>1, <1>3, <1>7, LandsStands DEF LandsIInv

LEMMA LandsRuns ==
    ASSUME PayConstants, LandsIInv, PayIInv', NEW p \in 1 .. Pay!Period, Pay!CreatePayroll(p),
           UNCHANGED early
    PROVE  LandsIInv'
<1>1. /\ advances' = [i \in Pay!Slots |-> Pay!Settled(p, i)] /\ paid' = paid \cup {p}
      /\ UNCHANGED <<day, floor, savings, shown, debt>>
  BY DEF Pay!CreatePayroll
<1>2. PayTyped /\ Pay!TypeOK
  BY DEF LandsIInv, PayIInv
<1>3. Pay!Period' = Pay!Period /\ Owing' <= Owing
  BY <1>2, RunIs
<1>4. payslip' \in [withheld : 0 .. Salary, saved : 0 .. Salary, net : 0 .. Salary]
  BY <1>2, SlipIs
<1>5. /\ advances \in Seq(TypedRecs) /\ Len(advances) \in Nat /\ Len(advances) <= MaxAdvance
      /\ Pay!Slots = 1 .. Len(advances) /\ \A i \in Pay!Slots : advances[i] \in TypedRecs
  <2>1. advances \in Seq(TypedRecs) /\ Len(advances) <= MaxAdvance
    BY <1>2 DEF Pay!TypeOK, TypedRecs
  <2> QED
    BY <2>1 DEF Pay!Slots
<1>6. \A i \in Pay!Slots : Pay!Settled(p, i) \in TypedRecs
  <2> SUFFICES ASSUME NEW i \in Pay!Slots
               PROVE  Pay!Settled(p, i) \in TypedRecs
    OBVIOUS
  <2> DEFINE b == Pay!Settled(p, i)
  <2>1. p \in Nat
    BY <1>2, AccruedIs DEF PayTyped
  <2>2. b \in AdvanceRecs /\ b.amount = advances[i].amount /\ b.day = advances[i].day
    BY <1>2, <2>1, SettledIs
  <2> HIDE DEF b
  <2>3. advances[i].amount \in Draws /\ advances[i].day \in 0 .. LastDay
    BY <1>5 DEF TypedRecs
  <2>4. b \in TypedRecs
    BY <2>2, <2>3 DEF AdvanceRecs, TypedRecs
  <2> QED
    BY <2>4 DEF b
<1>7. advances' \in Seq(TypedRecs) /\ Len(advances') = Len(advances)
  <2>1. advances' \in [1 .. Len(advances) -> TypedRecs]
    BY <1>1, <1>5, <1>6
  <2>2. advances' \in Seq(TypedRecs)
    BY <1>5, <2>1, SeqDef
  <2> QED
    BY <1>5, <2>1, <2>2
<1>8. Pay!TypeOK'
  BY <1>1, <1>2, <1>3, <1>4, <1>5, <1>7 DEF Pay!TypeOK, TypedRecs
<1> QED
  BY <1>1, <1>3, <1>8, LandsStands DEF LandsIInv

\* Setting a floor remembers what was outstanding then.
LEMMA LandsFloor ==
    ASSUME PayConstants, LandsIInv, PayIInv', NEW f \in ProtectedFloors,
           Pay!SetProtectedPayday(f),
           UNCHANGED early
    PROVE  LandsIInv'
<1>1. /\ floor' = [amount |-> f, at |-> day] /\ debt' = Pay!Outstanding
      /\ UNCHANGED <<day, advances, savings, paid, payslip, shown>>
  BY DEF Pay!SetProtectedPayday
<1>2. PayTyped /\ Pay!TypeOK /\ Owing \in Nat /\ Pay!Outstanding = Owing
  BY SlotsAre, OutstandingOwed DEF LandsIInv, PayIInv
<1>3. Pay!Period' = Pay!Period /\ Owing' = Owing /\ Lands' = Lands
  BY <1>1 DEF Pay!Period, Lands, Owing, Owes, Pay!Open, Pay!Slots
<1>4. floor' \in [amount : ProtectedFloors \cup {0}, at : -1 .. LastDay]
  <2>1. day \in -1 .. LastDay
    BY <1>2 DEF Pay!TypeOK, PayConstants, Pay!EarlyPayConstants
  <2> QED
    BY <1>1, <2>1
<1>5. Pay!TypeOK'
  BY <1>1, <1>2, <1>3, <1>4 DEF Pay!TypeOK
<1>6. FloorKept'
  BY <1>1, <1>2, <1>3 DEF FloorKept
<1> QED
  BY <1>1, <1>3, <1>5, <1>6 DEF LandsIInv, ShownKept

LEMMA LandsStep ==
    ASSUME PayConstants, LandsIInv, [Pay!Next]_(Pay!vars)
    PROVE  LandsIInv'
<1>0. UNCHANGED early
  BY DEF Pay!Next, Pay!vars
<1>1. PayIInv'
  BY PayStep DEF LandsIInv
<1>2. CASE Pay!NextDay
  BY <1>0, <1>1, <1>2, LandsDayPasses
<1>3. CASE Pay!GetEligibility
  BY <1>0, <1>1, <1>3, LandsShown
<1>4. CASE \E x \in Draws, tier \in 1 .. 4 : Pay!RequestAdvance(x, tier)
  BY <1>0, <1>1, <1>4, LandsDraws
<1>5. CASE \E i \in Pay!Slots, to \in {"disbursed", "cancelled"} : Pay!Resolve(i, to)
  BY <1>0, <1>1, <1>5, LandsResolves
<1>6. CASE \E f \in ProtectedFloors : Pay!SetProtectedPayday(f)
  BY <1>0, <1>1, <1>6, LandsFloor
<1>7. CASE \E s \in Savings : Pay!SetSavingsPreference(s)
  <2>1. savings' \in Savings /\ UNCHANGED <<day, advances, floor, paid, payslip, shown, debt>>
    BY <1>7 DEF Pay!SetSavingsPreference
  <2>2. Pay!Period' = Pay!Period /\ Owing' = Owing /\ Lands' = Lands
    BY <2>1 DEF Pay!Period, Lands, Owing, Owes, Pay!Open, Pay!Slots
  <2>3. Pay!TypeOK'
    BY <1>0, <2>1, <2>2 DEF LandsIInv, Pay!TypeOK
  <2> QED
    BY <1>1, <2>1, <2>2, <2>3 DEF LandsIInv, FloorKept, ShownKept
<1>8. CASE \E p \in 1 .. Pay!Period : Pay!CreatePayroll(p)
  BY <1>0, <1>1, <1>8, LandsRuns
<1>9. CASE UNCHANGED Pay!vars
  <2>1. UNCHANGED <<day, advances, floor, savings, paid, payslip, shown, debt>>
    BY <1>9 DEF Pay!vars
  <2>2. Pay!Period' = Pay!Period /\ Owing' = Owing /\ Lands' = Lands
    BY <2>1 DEF Pay!Period, Lands, Owing, Owes, Pay!Open, Pay!Slots
  <2>3. Pay!TypeOK'
    BY <1>0, <2>1, <2>2 DEF LandsIInv, Pay!TypeOK
  <2> QED
    BY <1>1, <2>1, <2>2, <2>3 DEF LandsIInv, FloorKept, ShownKept
<1> QED
  BY <1>0, <1>2, <1>3, <1>4, <1>5, <1>6, <1>7, <1>8, <1>9 DEF Pay!Next

\* The second invariant of early pay: what is outstanding respects the worker's floor, or
\* was so before it, and what GetEligibility showed can still land.
THEOREM LandsInvariant == PayConstants => (Pay!Spec => []LandsIInv)
<1> SUFFICES ASSUME PayConstants
             PROVE  Pay!Spec => []LandsIInv
  OBVIOUS
<1>1. Pay!Init => LandsIInv
  BY LandsInit
<1>2. LandsIInv /\ [Pay!Next]_(Pay!vars) => LandsIInv'
  BY LandsStep
<1> QED
  BY <1>1, <1>2, PTL DEF Pay!Spec

\* Draws, payslips and savings keep their bounds: DrawsLeavePay for every salary, policy
\* and calendar (eligibilityTx, CreatePayroll).
THEOREM DrawsAlwaysLeavePay == PayConstants => (Pay!Spec => []Pay!DrawsLeavePay)
<1> SUFFICES ASSUME PayConstants
             PROVE  Pay!Spec => []Pay!DrawsLeavePay
  OBVIOUS
<1>1. LandsIInv /\ (early \/ Pay!WithinUnpaidWages) /\ Pay!SavingsLeavePay
          => Pay!DrawsLeavePay
  BY DEF LandsIInv, Pay!DrawsLeavePay
<1> QED
  BY <1>1, LandsInvariant, DrawsAlwaysWithinWages, PTL

\* The protected payday holds: CreatePayroll leaves, before savings, the floor the worker
\* set or what was left when they set it.
THEOREM FloorAlwaysReachesPayday == PayConstants => (Pay!Spec => Pay!FloorReachesPayday)
<1> SUFFICES ASSUME PayConstants
             PROVE  Pay!Spec => Pay!FloorReachesPayday
  OBVIOUS
<1>1. LandsIInv => Pay!FloorLands
  <2> SUFFICES ASSUME LandsIInv, NEW p \in Pay!Payrolls, Pay!CreatePayroll(p)
               PROVE  Salary - payslip'.withheld >= Pay!Min({floor.amount, Salary - debt})
    BY DEF Pay!FloorLands
  <2>1. PayTyped /\ floor.amount \in Nat /\ debt \in Nat /\ Salary \in Nat /\ Owing \in Nat
    BY PayBounds, SlotsAre DEF LandsIInv, PayIInv, PayTyped, Pay!TypeOK
  <2>2. /\ payslip' \in [withheld : 0 .. Salary, saved : 0 .. Salary, net : 0 .. Salary]
        /\ Salary - payslip'.withheld >= Lands
    BY <2>1, SlipIs DEF Pay!Payrolls
  <2>3. payslip'.withheld \in Int
    BY <2>1, <2>2
  <2>4. Pay!Min({floor.amount, Salary - debt})
            = IF floor.amount <= Salary - debt THEN floor.amount ELSE Salary - debt
    BY <2>1, PairMin
  <2>5. floor.amount = 0 \/ Owing <= debt \/ Owing + floor.amount <= Salary
    BY DEF LandsIInv, FloorKept
  <2>6. Lands = IF Owing >= Salary THEN 0 ELSE Salary - Owing
    BY DEF Lands
  <2> QED
    BY <2>1, <2>2, <2>3, <2>4, <2>5, <2>6
<1>2. LandsIInv /\ [Pay!Next]_(Pay!vars) => [Pay!FloorLands]_(Pay!vars)
  BY <1>1
<1> QED
  BY <1>2, LandsInvariant, PTL DEF Pay!Spec, Pay!FloorReachesPayday

\* What GetEligibility projected lands, with nothing under way when it was shown, nothing
\* drawn since and no savings, whatever payrolls ran in between.
THEOREM ProjectionAlwaysLands == PayConstants => (Pay!Spec => Pay!PlainProjectionLands)
<1> SUFFICES ASSUME PayConstants
             PROVE  Pay!Spec => Pay!PlainProjectionLands
  OBVIOUS
<1>1. LandsIInv => Pay!AsProjected
  <2> SUFFICES ASSUME LandsIInv, NEW p \in Pay!Payrolls, Pay!CreatePayroll(p),
                      shown.period = p, ~ shown.pending, savings = Pay!Off
               PROVE  payslip'.net >= shown.projected
    BY DEF Pay!AsProjected
  <2>1. PayTyped /\ Salary \in Nat
    BY PayBounds DEF LandsIInv, PayIInv
  <2>2. /\ payslip' \in [withheld : 0 .. Salary, saved : 0 .. Salary, net : 0 .. Salary]
        /\ payslip'.net >= Lands
    BY <2>1, SlipIs DEF Pay!Payrolls
  <2>3. p # 0
    BY DEF Pay!Payrolls
  <2>4. shown # Pay!None
    BY <2>3 DEF Pay!None
  <2>5. shown.projected \in Nat /\ shown.projected <= Lands
    BY <2>4 DEF LandsIInv, ShownKept, Pay!TypeOK
  <2>6. Lands \in Nat /\ payslip'.net \in Nat
    BY <2>1, <2>2, LandsIs
  <2> QED
    BY <2>2, <2>5, <2>6
<1>2. LandsIInv /\ [Pay!Next]_(Pay!vars) => [Pay!AsProjected]_(Pay!vars)
  BY <1>1
<1> QED
  BY <1>2, LandsInvariant, PTL DEF Pay!Spec, Pay!PlainProjectionLands

-----------------------------------------------------------------------------
(* Workers' hours.                                                         *)

HoursConstants == Hours!TimeConstants

\* What the assumptions say of the sets that sums run over.
LEMMA HoursSets ==
    ASSUME HoursConstants
    PROVE  /\ IsFiniteSet(Entries) /\ IsFiniteSet(Hours!Weeks)
           /\ \A e \in Entries : Minutes[e] \in Nat /\ WeekOf[WorkDay[e]] \in Hours!Weeks
<1>1. \A S : Hours!IsFiniteSet(S) <=> IsFiniteSet(S)
  BY DEF IsFiniteSet, Hours!IsFiniteSet
<1>2. IsFiniteSet(Entries) /\ IsFiniteSet(WorkDates)
  BY <1>1 DEF HoursConstants, Hours!TimeConstants
<1>3. IsFiniteSet(Hours!Weeks)
  BY <1>2, FiniteImage DEF Hours!Weeks
<1>4. \A e \in Entries : WorkDay[e] \in WorkDates /\ Minutes[e] \in Nat
  BY DEF HoursConstants, Hours!TimeConstants
<1> QED
  BY <1>2, <1>3, <1>4 DEF Hours!Weeks

HoursTyped ==
    /\ status \in [Entries -> {"none", "pending", "approved", "rejected"}]
    /\ paidBy \in [Entries -> Periods \cup {0}]
    /\ request \in [Clients -> {Hours!Idle} \cup Hours!Request]

Approved(e) == {f \in Hours!SameDay(e) : status[f] = "approved"}

DaysFit == \A e \in Entries : SumOf(Minutes, Approved(e)) <= MaxMinutesPerDay

\* The lock on a worker's day has one holder.
OneDayLock ==
    \A r, q \in Clients :
        /\ request[r].pc = "locked" /\ request[q].pc = "locked"
        /\ request[r].entry \in Hours!SameDay(request[q].entry)
        => r = q

\* What an approval summed under the lock is still the day's other approved minutes.
LockedReads ==
    \A r \in Clients :
        request[r].pc = "locked" /\ request[r].op = "approve" =>
            request[r].claimed
                = SumOf(Minutes, Approved(request[r].entry) \ {request[r].entry})

\* An entry under submission is not in the table, and no other request is about it.
SubmitsAreFresh ==
    \A r \in Clients :
        request[r].pc # "idle" /\ request[r].op = "submit" =>
            /\ status[request[r].entry] = "none"
            /\ \A q \in Clients \ {r} :
                   request[q].pc # "idle" => request[q].entry # request[r].entry

\* What a payroll run has read to pay is still approved and not yet paid.
RunReadsStand ==
    run.pc = "running" =>
        /\ run = [pc |-> "running", period |-> run.period, todo |-> run.todo,
                  gross |-> run.gross]
        /\ run.period \in Periods
        /\ \A w \in DOMAIN run.gross : \A e \in run.gross[w].entries :
               e \in Entries /\ status[e] = "approved" /\ paidBy[e] = 0

PaidIsApproved == \A e \in Entries : paidBy[e] # 0 => status[e] = "approved"

RequestsStand == OneDayLock /\ LockedReads /\ SubmitsAreFresh

HoursIInv == HoursTyped /\ RequestsStand /\ DaysFit /\ RunReadsStand /\ PaidIsApproved

\* Entries of one day have the same day.
LEMMA SameDayIsOne ==
    ASSUME NEW e \in Entries, NEW f \in Hours!SameDay(e)
    PROVE  Hours!SameDay(f) = Hours!SameDay(e) /\ f \in Entries /\ e \in Hours!SameDay(f)
  BY DEF Hours!SameDay

\* A day's approved minutes, and what one more entry adds to them.
LEMMA DaySums ==
    ASSUME HoursConstants, NEW S \in SUBSET Entries
    PROVE  /\ IsFiniteSet(S) /\ Whole(Minutes, S) /\ SumOf(Minutes, S) \in Int
           /\ \A e \in Entries \ S :
                  SumOf(Minutes, S \cup {e}) = Minutes[e] + SumOf(Minutes, S)
<1>1. IsFiniteSet(S)
  BY HoursSets, FS_Subset
<1>2. \A x \in Entries : Minutes[x] \in Int
  BY DEF HoursConstants, Hours!TimeConstants
<1>3. Whole(Minutes, S)
  BY <1>2 DEF Whole
<1>4. SumOf(Minutes, S) \in Int
  BY <1>1, <1>3, SumType
<1>5. ASSUME NEW e \in Entries \ S
      PROVE  SumOf(Minutes, S \cup {e}) = Minutes[e] + SumOf(Minutes, S)
  <2>1. Whole(Minutes, S \cup {e})
    BY <1>2 DEF Whole
  <2> QED
    BY <1>1, <2>1, SumAdd
<1> QED
  BY <1>1, <1>3, <1>4, <1>5

LEMMA MinutesAre == ASSUME NEW S PROVE Hours!MinutesOf(S) = SumOf(Minutes, S)
  BY DEF Hours!MinutesOf, SumOf, Hours!MapThenSumSet, Hours!MapThenFoldSet, MapThenSumSet,
         MapThenFoldSet

\* dayMinutes, as the sum over a day's approved entries.
LEMMA DayMinutesAre ==
    ASSUME NEW e, NEW X
    PROVE  Hours!DayMinutes(e, {"approved"}, X) = SumOf(Minutes, Approved(e) \ X)
<1>1. {f \in Hours!SameDay(e) \ X : status[f] \in {"approved"}} = Approved(e) \ X
  BY DEF Approved
<1> QED
  BY <1>1, MinutesAre DEF Hours!DayMinutes

\* Requests keep what they read while the table's approved entries stay as they are.
LEMMA ApprovedStays ==
    ASSUME \A f \in Entries : status'[f] = "approved" <=> status[f] = "approved", NEW e
    PROVE  Approved(e)' = Approved(e)
  BY DEF Approved, Hours!SameDay

LEMMA HoursInit ==
    ASSUME HoursConstants, Hours!Init
    PROVE  HoursIInv
<1>1. HoursTyped
  BY DEF HoursTyped, Hours!Init
<1>2. /\ \A r \in Clients : request[r].pc = "idle"
      /\ run.pc = "idle" /\ \A e \in Entries : paidBy[e] = 0
  BY DEF Hours!Init, Hours!Idle
<1>3. RequestsStand /\ RunReadsStand /\ PaidIsApproved
  BY <1>2 DEF RequestsStand, OneDayLock, LockedReads, SubmitsAreFresh, RunReadsStand,
              PaidIsApproved
<1>4. DaysFit
  <2> SUFFICES ASSUME NEW e \in Entries
               PROVE  SumOf(Minutes, Approved(e)) <= MaxMinutesPerDay
    BY DEF DaysFit
  <2>1. Approved(e) = {}
    BY DEF Approved, Hours!SameDay, Hours!Init
  <2>2. MaxMinutesPerDay \in Nat
    BY DEF HoursConstants, Hours!TimeConstants
  <2> QED
    BY <2>1, <2>2, SumEmpty
<1> QED
  BY <1>1, <1>3, <1>4 DEF HoursIInv

\* What holds of the table and of a payroll run, when no entry leaves "approved".
LEMMA PayrollKeeps ==
    ASSUME HoursIInv, UNCHANGED <<paidBy, run>>,
           \A f \in Entries : status[f] = "approved" => status'[f] = "approved"
    PROVE  RunReadsStand' /\ PaidIsApproved'
  BY DEF HoursIInv, RunReadsStand, PaidIsApproved

\* A request that begins holds no lock.
LEMMA HoursBegins ==
    ASSUME HoursConstants, HoursIInv, NEW r \in Clients, NEW e \in Entries,
           Hours!SubmitRead(r, e) \/ Hours!ApproveRead(r, e)
    PROVE  HoursIInv'
<1>1. PICK op \in {"submit", "approve"} :
        /\ Hours!Begin(r, op, e)
        /\ op = "submit" => /\ status[e] = "none"
                            /\ \A q \in Clients : request[q] # Hours!Idle => request[q].entry # e
        /\ op = "approve" => status[e] # "none"
  BY DEF Hours!SubmitRead, Hours!ApproveRead
<1> DEFINE x == [pc |-> "read", op |-> op, entry |-> e, claimed |-> 0]
<1>2. /\ request' = [request EXCEPT ![r] = x] /\ request[r] = Hours!Idle
      /\ status' = status /\ paidBy' = paidBy /\ run' = run
  BY <1>1 DEF Hours!Begin, Hours!payVars
<1>3. x \in Hours!Request /\ x.pc = "read" /\ x.op = op /\ x.entry = e
  BY DEF Hours!Request
<1> HIDE DEF x
<1>4. /\ request'[r] = x /\ \A q \in Clients \ {r} : request'[q] = request[q]
      /\ HoursTyped'
  BY <1>2, <1>3 DEF HoursIInv, HoursTyped
<1>5. \A f : Approved(f)' = Approved(f)
  BY <1>2, ApprovedStays
<1>6. OneDayLock' /\ LockedReads'
  BY <1>3, <1>4, <1>5 DEF HoursIInv, RequestsStand, OneDayLock, LockedReads, Hours!SameDay
<1>7. SubmitsAreFresh'
  <2>1. \A q \in Clients : request[q].pc # "idle" => request[q] # Hours!Idle
    BY DEF Hours!Idle
  <2> QED
    BY <1>1, <1>2, <1>3, <1>4, <2>1 DEF HoursIInv, RequestsStand, SubmitsAreFresh
<1>8. DaysFit'
  BY <1>5 DEF HoursIInv, DaysFit
<1>9. RunReadsStand' /\ PaidIsApproved'
  BY <1>2, PayrollKeeps
<1> QED
  BY <1>4, <1>6, <1>7, <1>8, <1>9 DEF HoursIInv, RequestsStand

\* The lock is taken only when the day is free, and the minutes are read under it.
LEMMA HoursLocks ==
    ASSUME HoursConstants, HoursIInv, NEW r \in Clients, Hours!LockDay(r)
    PROVE  HoursIInv'
<1> DEFINE e == request[r].entry
           c == IF request[r].op = "submit"
                THEN Hours!DayMinutes(e, {"pending", "approved"}, {})
                ELSE Hours!DayMinutes(e, {"approved"}, {e})
<1>1. /\ request[r].pc = "read" /\ Hours!DayFree(e)
      /\ request' = [request EXCEPT ![r].pc = "locked", ![r].claimed = c]
      /\ status' = status /\ paidBy' = paidBy /\ run' = run
  BY DEF Hours!LockDay, Hours!payVars
<1>2. request[r] \in Hours!Request
  BY <1>1 DEF HoursIInv, HoursTyped, Hours!Idle
<1>3. e \in Entries /\ request[r].op \in {"submit", "approve"}
  BY <1>2 DEF Hours!Request
<1>4. c \in Nat
  <2>1. \A S \in SUBSET Entries : SumOf(Minutes, S) \in Nat
    <3> QED
      BY HoursSets, SumPart
  <2>2. \A st, X : Hours!DayMinutes(e, st, X) \in Nat
    <3> TAKE st, X
    <3> DEFINE S == {f \in Hours!SameDay(e) \ X : status[f] \in st}
    <3>1. S \in SUBSET Entries
      BY DEF Hours!SameDay
    <3>2. Hours!DayMinutes(e, st, X) = SumOf(Minutes, S)
      BY MinutesAre DEF Hours!DayMinutes
    <3> QED
      BY <2>1, <3>1, <3>2
  <2> QED
    BY <2>2
<1>5. request[r].op = "approve" => c = SumOf(Minutes, Approved(e) \ {e})
  BY DayMinutesAre
<1> HIDE DEF c
<1>6. /\ request'[r] \in Hours!Request
      /\ request'[r].pc = "locked" /\ request'[r].op = request[r].op
      /\ request'[r].entry = e /\ request'[r].claimed = c
      /\ \A q \in Clients \ {r} : request'[q] = request[q]
  BY <1>1, <1>2, <1>4 DEF HoursIInv, HoursTyped, Hours!Request
<1> HIDE DEF e
<1>7. HoursTyped'
  BY <1>1, <1>6 DEF HoursIInv, HoursTyped
<1>8. \A f : Approved(f)' = Approved(f)
  BY <1>1, ApprovedStays
<1>9. OneDayLock'
  <2>1. \A q \in Clients : request[q].pc = "locked" =>
            request[q].entry \notin Hours!SameDay(e) /\ e \notin Hours!SameDay(request[q].entry)
    BY <1>1, <1>3 DEF Hours!DayFree, Hours!SameDay, HoursIInv, HoursTyped, Hours!Request,
                      Hours!Idle
  <2> QED
    BY <1>6, <2>1 DEF HoursIInv, RequestsStand, OneDayLock, Hours!SameDay
<1>10. LockedReads'
  BY <1>5, <1>6, <1>8 DEF HoursIInv, RequestsStand, LockedReads
<1>11. SubmitsAreFresh'
  <2>1. \A q \in Clients :
            /\ request'[q].op = request[q].op /\ request'[q].entry = request[q].entry
            /\ request'[q].pc = "idle" <=> request[q].pc = "idle"
    BY <1>1, <1>6 DEF e
  <2>2. status' = status
    BY <1>1
  <2> SUFFICES ASSUME NEW q \in Clients, request'[q].pc # "idle", request'[q].op = "submit"
               PROVE  /\ status'[request'[q].entry] = "none"
                      /\ \A p \in Clients \ {q} :
                             request'[p].pc # "idle" => request'[p].entry # request'[q].entry
    BY DEF SubmitsAreFresh
  <2>3. /\ status[request[q].entry] = "none"
        /\ \A p \in Clients \ {q} :
               request[p].pc # "idle" => request[p].entry # request[q].entry
    BY <2>1 DEF HoursIInv, RequestsStand, SubmitsAreFresh
  <2> QED
    BY <2>1, <2>2, <2>3
<1>12. DaysFit'
  BY <1>8 DEF HoursIInv, DaysFit
<1>13. RunReadsStand' /\ PaidIsApproved'
  BY <1>1, PayrollKeeps
<1> QED
  BY <1>7, <1>9, <1>10, <1>11, <1>12, <1>13 DEF HoursIInv, RequestsStand

\* A request that ends holds nothing, and the others hold what they held, as long as it
\* approves nothing that another has counted.
LEMMA HoursEnds ==
    ASSUME HoursConstants, HoursIInv, NEW r \in Clients,
           request' = [request EXCEPT ![r] = Hours!Idle],
           \A q \in Clients \ {r} : request[q].pc = "locked" =>
               Approved(request[q].entry)' = Approved(request[q].entry),
           \A f \in Entries : status[f] = "none" /\ status'[f] # "none" =>
               request[r].pc # "idle" /\ request[r].op = "submit" /\ request[r].entry = f
    PROVE  RequestsStand'
<1>1. /\ request'[r].pc = "idle" /\ \A q \in Clients \ {r} : request'[q] = request[q]
  BY DEF HoursIInv, HoursTyped, Hours!Idle
<1>2. OneDayLock'
  BY <1>1 DEF HoursIInv, RequestsStand, OneDayLock, Hours!SameDay
<1>3. LockedReads'
  BY <1>1 DEF HoursIInv, RequestsStand, LockedReads
<1>4. SubmitsAreFresh'
  <2>1. \A q \in Clients : request[q].pc # "idle" => request[q].entry \in Entries
    BY DEF HoursIInv, HoursTyped, Hours!Request, Hours!Idle
  <2> QED
    BY <1>1, <2>1 DEF HoursIInv, RequestsStand, SubmitsAreFresh
<1> QED
  BY <1>2, <1>3, <1>4 DEF RequestsStand

LEMMA HoursFinish ==
    ASSUME HoursConstants, HoursIInv, NEW r \in Clients,
           Hours!SubmitTimeEntry(r) \/ Hours!ApproveTimeEntry(r) \/ Hours!RequestRollsBack(r)
    PROVE  HoursIInv'
<1>1. request' = [request EXCEPT ![r] = Hours!Idle] /\ paidBy' = paidBy /\ run' = run
  BY DEF Hours!SubmitTimeEntry, Hours!ApproveTimeEntry, Hours!RequestRollsBack, Hours!Finish,
         Hours!payVars
<1>2. request[r] \in Hours!Request
  BY DEF Hours!SubmitTimeEntry, Hours!ApproveTimeEntry, Hours!RequestRollsBack, HoursIInv,
         HoursTyped, Hours!Idle
<1> DEFINE e == request[r].entry
<1>3. e \in Entries /\ request[r].pc # "idle"
  BY <1>2 DEF Hours!Request
<1>4. HoursTyped'
  <2>1. status' \in [Entries -> {"none", "pending", "approved", "rejected"}]
    BY <1>3 DEF HoursIInv, HoursTyped, Hours!SubmitTimeEntry, Hours!ApproveTimeEntry,
                Hours!RequestRollsBack
  <2> QED
    BY <1>1, <2>1 DEF HoursIInv, HoursTyped
<1>5. CASE Hours!ApproveTimeEntry(r)
  <2>1. /\ request[r].pc = "locked" /\ request[r].op = "approve"
        /\ request[r].claimed + Minutes[e] <= MaxMinutesPerDay
        /\ status[e] = "pending" /\ status' = [status EXCEPT ![e] = "approved"]
    BY <1>5 DEF Hours!ApproveTimeEntry, Hours!Fits, Hours!MayResolve
  <2>2. status'[e] = "approved" /\ \A f \in Entries \ {e} : status'[f] = status[f]
    BY <1>3, <2>1 DEF HoursIInv, HoursTyped
  <2>3. request[r].claimed = SumOf(Minutes, Approved(e) \ {e})
    BY <2>1 DEF HoursIInv, RequestsStand, LockedReads
  <2> HIDE DEF e
  <2>4. e \in Hours!SameDay(e) /\ e \notin Approved(e) /\ Approved(e) \in SUBSET Entries
    BY <1>3, <2>1 DEF Hours!SameDay, Approved
  <2>5. ASSUME NEW f \in Entries, e \notin Hours!SameDay(f)
        PROVE  Approved(f)' = Approved(f)
    BY <2>2, <2>5 DEF Approved, Hours!SameDay
  <2>6. ASSUME NEW f \in Entries, e \in Hours!SameDay(f)
        PROVE  Approved(f)' = Approved(e) \cup {e}
    BY <1>3, <2>2, <2>6 DEF Approved, Hours!SameDay
  <2>7. DaysFit'
    <3> SUFFICES ASSUME NEW f \in Entries
                 PROVE  SumOf(Minutes, Approved(f)') <= MaxMinutesPerDay
      BY DEF DaysFit
    <3>1. CASE e \notin Hours!SameDay(f)
      BY <2>5, <3>1 DEF HoursIInv, DaysFit
    <3>2. CASE e \in Hours!SameDay(f)
      <4>1. SumOf(Minutes, Approved(e) \cup {e}) = Minutes[e] + SumOf(Minutes, Approved(e))
            /\ SumOf(Minutes, Approved(e)) \in Int
        BY <1>3, <2>4, DaySums
      <4>2. Approved(e) \ {e} = Approved(e)
        BY <2>4
      <4>3. Minutes[e] \in Int
        BY <1>3 DEF HoursConstants, Hours!TimeConstants
      <4>4. Minutes[e] + SumOf(Minutes, Approved(e)) <= MaxMinutesPerDay
        <5>1. request[r].claimed = SumOf(Minutes, Approved(e))
          BY <2>3, <4>2
        <5>2. SumOf(Minutes, Approved(e)) + Minutes[e] <= MaxMinutesPerDay
          BY <2>1, <5>1
        <5> QED
          BY <4>1, <4>3, <5>2
      <4> QED
        BY <2>6, <3>2, <4>1, <4>4
    <3> QED
      BY <3>1, <3>2
  <2>8. RequestsStand'
    <3>1. ASSUME NEW q \in Clients \ {r}, request[q].pc = "locked"
          PROVE  Approved(request[q].entry)' = Approved(request[q].entry)
      <4>1. request[q].entry \in Entries
        BY <3>1 DEF HoursIInv, HoursTyped, Hours!Request, Hours!Idle
      <4>2. e \notin Hours!SameDay(request[q].entry)
        BY <2>1, <3>1 DEF HoursIInv, RequestsStand, OneDayLock, e
      <4>3. Approved(request[q].entry)' = {f \in Hours!SameDay(request'[q].entry) :
                                               status'[f] = "approved"}
        BY DEF Approved, Hours!SameDay
      <4>4. request'[q] = request[q]
        BY <1>1, <3>1 DEF HoursIInv, HoursTyped
      <4>5. {f \in Hours!SameDay(request[q].entry) : status'[f] = "approved"}
                = {f \in Hours!SameDay(request[q].entry) : status[f] = "approved"}
        BY <2>2, <4>1, <4>2 DEF Hours!SameDay
      <4> QED
        BY <4>3, <4>4, <4>5 DEF Approved
    <3>2. \A f \in Entries : status[f] = "none" /\ status'[f] # "none" => FALSE
      BY <2>1, <2>2
    <3> QED
      BY <1>1, <3>1, <3>2, HoursEnds
  <2>9. RunReadsStand' /\ PaidIsApproved'
    BY <1>1, <2>2, PayrollKeeps
  <2> QED
    BY <1>4, <2>7, <2>8, <2>9 DEF HoursIInv
<1>6. CASE Hours!SubmitTimeEntry(r) \/ Hours!RequestRollsBack(r)
  <2>1. \/ status' = status
        \/ /\ request[r].op = "submit" /\ status' = [status EXCEPT ![e] = "pending"]
           /\ status[e] = "none"
    BY <1>3, <1>6 DEF Hours!SubmitTimeEntry, Hours!RequestRollsBack, HoursIInv, RequestsStand,
                      SubmitsAreFresh
  <2>2. \A f \in Entries :
            /\ status'[f] = "approved" <=> status[f] = "approved"
            /\ status[f] = "none" /\ status'[f] # "none" =>
                  request[r].op = "submit" /\ e = f
    BY <1>3, <2>1 DEF HoursIInv, HoursTyped
  <2>3. \A f \in Entries : Approved(f)' = Approved(f)
    BY <2>2 DEF Approved, Hours!SameDay
  <2>4. RequestsStand'
    <3>1. ASSUME NEW q \in Clients \ {r}, request[q].pc = "locked"
          PROVE  Approved(request[q].entry)' = Approved(request[q].entry)
      <4>1. request'[q] = request[q]
        BY <1>1, <3>1 DEF HoursIInv, HoursTyped
      <4> QED
        BY <2>2, <4>1 DEF Approved, Hours!SameDay
    <3> QED
      BY <1>1, <1>3, <2>2, <3>1, HoursEnds
  <2>5. DaysFit'
    BY <2>3 DEF HoursIInv, DaysFit
  <2>6. RunReadsStand' /\ PaidIsApproved'
    BY <1>1, <2>2, PayrollKeeps
  <2> QED
    BY <1>4, <2>4, <2>5, <2>6 DEF HoursIInv
<1> QED
  BY <1>5, <1>6

LEMMA HoursRejects ==
    ASSUME HoursConstants, HoursIInv, NEW e \in Entries, Hours!RejectTimeEntry(e)
    PROVE  HoursIInv'
<1>1. /\ status[e] = "pending" /\ status' = [status EXCEPT ![e] = "rejected"]
      /\ request' = request /\ paidBy' = paidBy /\ run' = run
  BY DEF Hours!RejectTimeEntry, Hours!MayResolve, Hours!payVars
<1>2. \A f \in Entries : /\ status'[f] = "approved" <=> status[f] = "approved"
                         /\ status'[f] = "none" <=> status[f] = "none"
  BY <1>1 DEF HoursIInv, HoursTyped
<1>3. HoursTyped'
  BY <1>1 DEF HoursIInv, HoursTyped
<1>4. \A f : Approved(f)' = Approved(f)
  BY <1>2, ApprovedStays
<1>5. RequestsStand'
  <2>1. \A q \in Clients : request[q].pc # "idle" => request[q].entry \in Entries
    BY DEF HoursIInv, HoursTyped, Hours!Request, Hours!Idle
  <2>2. OneDayLock'
    BY <1>1 DEF HoursIInv, RequestsStand, OneDayLock, Hours!SameDay
  <2>3. LockedReads'
    BY <1>1, <1>4 DEF HoursIInv, RequestsStand, LockedReads
  <2>4. SubmitsAreFresh'
    BY <1>1, <1>2, <2>1 DEF HoursIInv, RequestsStand, SubmitsAreFresh
  <2> QED
    BY <2>2, <2>3, <2>4 DEF RequestsStand
<1>6. DaysFit'
  BY <1>4 DEF HoursIInv, DaysFit
<1>7. RunReadsStand' /\ PaidIsApproved'
  BY <1>1, <1>2, PayrollKeeps
<1> QED
  BY <1>3, <1>5, <1>6, <1>7 DEF HoursIInv

\* The table and the requests do not change in a step of the payroll run.
LEMMA HoursStand ==
    ASSUME HoursIInv, UNCHANGED <<status, request>>
    PROVE  /\ RequestsStand' /\ DaysFit'
           /\ paidBy' \in [Entries -> Periods \cup {0}] => HoursTyped'
<1>1. \A f : Approved(f)' = Approved(f)
  BY ApprovedStays
<1>2. DaysFit'
  BY <1>1 DEF HoursIInv, DaysFit
<1>3. RequestsStand'
  BY <1>1 DEF HoursIInv, RequestsStand, OneDayLock, LockedReads, SubmitsAreFresh,
              Hours!SameDay
<1>4. paidBy' \in [Entries -> Periods \cup {0}] => HoursTyped'
  BY DEF HoursIInv, HoursTyped
<1> QED
  BY <1>2, <1>3, <1>4

LEMMA HoursPays ==
    ASSUME HoursConstants, HoursIInv,
           \/ \E n \in Periods : Hours!PayrollBegin(n)
           \/ \E w \in Employees : Hours!PayrollEmployee(w)
           \/ Hours!PayrollCommit \/ Hours!PayrollRollsBack
    PROVE  HoursIInv'
<1>1. UNCHANGED <<status, request>>
  BY DEF Hours!PayrollBegin, Hours!PayrollEmployee, Hours!PayrollCommit,
         Hours!PayrollRollsBack
<1>2. paidBy \in [Entries -> Periods \cup {0}]
  BY DEF HoursIInv, HoursTyped
<1>3. ASSUME NEW n \in Periods, Hours!PayrollBegin(n) PROVE HoursIInv'
  <2>1. /\ paidBy' = paidBy
        /\ run' = [pc |-> "running", period |-> n,
                   todo |-> {w \in Employees : active[w]}, gross |-> <<>>]
    BY <1>3 DEF Hours!PayrollBegin
  <2>2. RunReadsStand'
    <3>1. DOMAIN run'.gross = {} /\ run'.period = n
      BY <2>1
    <3> QED
      BY <2>1, <3>1 DEF RunReadsStand
  <2> QED
    BY <1>1, <1>2, <2>1, <2>2, HoursStand DEF HoursIInv, PaidIsApproved
<1>4. ASSUME NEW w \in Employees, Hours!PayrollEmployee(w) PROVE HoursIInv'
  <2> DEFINE G == Hours!ComputeHourlyGross(w, run.period)
             g == [v \in DOMAIN run.gross \cup {w} |-> IF v = w THEN G ELSE run.gross[v]]
  <2>1. /\ paidBy' = paidBy /\ run.pc = "running"
        /\ run' = [run EXCEPT !.todo = run.todo \ {w}, !.gross = g]
    BY <1>4 DEF Hours!PayrollEmployee
  <2>2. G.entries = Hours!UnpaidApprovedEntriesThrough(w, run.period)
    BY DEF Hours!ComputeHourlyGross
  <2> HIDE DEF G
  <2>3. \A e \in G.entries : e \in Entries /\ status[e] = "approved" /\ paidBy[e] = 0
    BY <2>2 DEF Hours!UnpaidApprovedEntriesThrough
  <2>4. \A v \in DOMAIN g : \A e \in g[v].entries :
            e \in Entries /\ status[e] = "approved" /\ paidBy[e] = 0
    BY <2>1, <2>3 DEF HoursIInv, RunReadsStand
  <2> HIDE DEF g
  <2>5. /\ run = [pc |-> "running", period |-> run.period, todo |-> run.todo,
                  gross |-> run.gross]
        /\ run.period \in Periods
    BY <2>1 DEF HoursIInv, RunReadsStand
  <2>6. run' = [pc |-> "running", period |-> run.period, todo |-> run.todo \ {w}, gross |-> g]
    BY <2>1, <2>5
  <2>7. RunReadsStand'
    BY <1>1, <2>1, <2>4, <2>5, <2>6 DEF RunReadsStand
  <2> QED
    BY <1>1, <1>2, <2>1, <2>7, HoursStand DEF HoursIInv, PaidIsApproved
<1>5. CASE Hours!PayrollCommit
  <2>1. /\ run.pc = "running" /\ run' = Hours!Idle
        /\ paidBy' = [e \in Entries |->
                         IF \E w \in DOMAIN run.gross : e \in run.gross[w].entries
                         THEN run.period ELSE paidBy[e]]
    BY <1>5 DEF Hours!PayrollCommit
  <2>2. paidBy' \in [Entries -> Periods \cup {0}]
    BY <1>2, <2>1 DEF HoursIInv, RunReadsStand
  <2>3. PaidIsApproved'
    BY <1>1, <2>1 DEF HoursIInv, RunReadsStand, PaidIsApproved
  <2>4. RunReadsStand'
    BY <2>1 DEF RunReadsStand, Hours!Idle
  <2> QED
    BY <1>1, <2>2, <2>3, <2>4, HoursStand DEF HoursIInv
<1>6. CASE Hours!PayrollRollsBack
  <2>1. paidBy' = paidBy /\ run' = Hours!Idle
    BY <1>6 DEF Hours!PayrollRollsBack
  <2>2. RunReadsStand'
    BY <2>1 DEF RunReadsStand, Hours!Idle
  <2> QED
    BY <1>1, <1>2, <2>1, <2>2, HoursStand DEF HoursIInv, PaidIsApproved
<1> QED
  BY <1>3, <1>4, <1>5, <1>6

LEMMA HoursStep ==
    ASSUME HoursConstants, HoursIInv, [Hours!Next]_(Hours!vars)
    PROVE  HoursIInv'
<1>1. ASSUME UNCHANGED <<status, request, paidBy, run>> PROVE HoursIInv'
  BY <1>1, HoursStand DEF HoursIInv, HoursTyped, RunReadsStand, PaidIsApproved
<1>2. CASE \/ UNCHANGED Hours!vars
           \/ \E w \in Employees : Hours!Terminate(w)
           \/ \E t \in Thresholds : Hours!UpdatePayrollPolicy(t)
           \/ Hours!NextDay
  BY <1>1, <1>2 DEF Hours!vars, Hours!Terminate, Hours!UpdatePayrollPolicy, Hours!NextDay,
                    Hours!payVars
<1> QED
  BY <1>2, HoursBegins, HoursLocks, HoursFinish, HoursRejects, HoursPays DEF Hours!Next

\* Requests and payroll runs, for any finite set of entries and any numbers of workers,
\* requests and periods: what a request summed under the day's lock, and what a run read
\* to pay, still stands when it commits.
THEOREM HoursInvariant == ASSUME HoursConstants PROVE Hours!Spec => []HoursIInv
<1>1. Hours!Init => HoursIInv
  BY HoursInit
<1>2. HoursIInv /\ [Hours!Next]_(Hours!vars) => HoursIInv'
  BY HoursStep
<1> QED
  BY <1>1, <1>2, PTL DEF Hours!Spec

\* However submissions, approvals and rejections race, a worker's approved day never
\* exceeds 24 hours (lockEmployeeDay).
THEOREM ApprovedDayAlwaysFits ==
    ASSUME HoursConstants PROVE Hours!Spec => []Hours!ApprovedDayFits
<1>1. HoursIInv => Hours!ApprovedDayFits
  <2> SUFFICES ASSUME HoursIInv, NEW e \in Entries
               PROVE  Hours!DayMinutes(e, {"approved"}, {}) <= MaxMinutesPerDay
    BY DEF Hours!ApprovedDayFits
  <2>1. Approved(e) \ {} = Approved(e)
    OBVIOUS
  <2> QED
    BY <2>1, DayMinutesAre DEF HoursIInv, DaysFit
<1> QED
  BY <1>1, HoursInvariant, PTL

\* A paid entry stays approved and stays with the item that paid it, so that no later run
\* pays it again (TransitionTimeEntry, MarkTimeEntriesPaid).
THEOREM PaidAlwaysFinal ==
    ASSUME HoursConstants PROVE Hours!Spec => Hours!PaidIsFinal
<1> DEFINE Stays == \A e \in Entries : paidBy[e] # 0 =>
                        paidBy'[e] = paidBy[e] /\ status'[e] = "approved"
<1>1. ASSUME HoursIInv, [Hours!Next]_(Hours!vars) PROVE Stays
  <2>1. HoursIInv'
    BY <1>1, HoursStep
  <2>2. ASSUME NEW e \in Entries, paidBy[e] # 0 PROVE paidBy'[e] = paidBy[e]
    <3>1. CASE Hours!PayrollCommit
      BY <1>1, <2>2, <3>1 DEF Hours!PayrollCommit, HoursIInv, RunReadsStand
    <3>2. CASE ~ Hours!PayrollCommit
      <4>1. paidBy' = paidBy
        BY <1>1, <3>2
           DEF Hours!Next, Hours!vars, Hours!payVars, Hours!SubmitRead, Hours!ApproveRead,
               Hours!Begin, Hours!LockDay, Hours!SubmitTimeEntry, Hours!ApproveTimeEntry,
               Hours!RequestRollsBack, Hours!Finish, Hours!RejectTimeEntry,
               Hours!PayrollBegin, Hours!PayrollEmployee, Hours!PayrollRollsBack,
               Hours!Terminate, Hours!UpdatePayrollPolicy, Hours!NextDay
      <4> QED
        BY <4>1
    <3> QED
      BY <3>1, <3>2
  <2> QED
    BY <2>1, <2>2 DEF HoursIInv, PaidIsApproved
<1>2. HoursIInv /\ [Hours!Next]_(Hours!vars) => [Stays]_(Hours!vars)
  BY <1>1
<1> QED
  BY <1>2, HoursInvariant, PTL DEF Hours!Spec, Hours!PaidIsFinal

-----------------------------------------------------------------------------
(* Overtime.                                                                *)

InWeek(S, k) == {e \in S : WeekOf[WorkDay[e]] = k}

\* The weeks' minutes once the entries of S are added to them, and what that adds in each
\* week beyond the threshold.
Grown(from, S) == [k \in Hours!Weeks |-> from[k] + SumOf(Minutes, InWeek(S, k))]
Beyond(most, from, to) ==
    [k \in Hours!Weeks |-> Hours!Over(to[k], most) - Hours!Over(from[k], most)]

Splits == [week : [Hours!Weeks -> Nat], regular : Nat, overtime : Nat]

\* The entries of S are attributed: their minutes are regular or overtime, and overtime is
\* what they add beyond the threshold, week by week.
Attributed(most, from, S, v) ==
    /\ v \in Splits
    /\ v.week = Grown(from, S)
    /\ v.regular + v.overtime = SumOf(Minutes, S)
    /\ v.overtime = SumOf(Beyond(most, from, v.week), Hours!Weeks)

\* One turn of the loop keeps the types.
LEMMA AttributeTyped ==
    ASSUME HoursConstants, NEW most \in Nat \ {0}, NEW v \in Splits, NEW e \in Entries
    PROVE  Hours!AttributeEntry(most, v, e) \in Splits
<1> DEFINE week == WeekOf[WorkDay[e]]
           m == Minutes[e]
           before == v.week[week]
           r == IF before >= most THEN 0 ELSE Hours!Lesser(m, most - before)
           to == [v.week EXCEPT ![week] = before + m]
<1>1. Hours!AttributeEntry(most, v, e)
         = [week |-> to, regular |-> v.regular + r, overtime |-> v.overtime + m - r]
  BY DEF Hours!AttributeEntry
<1>2. m \in Nat /\ week \in Hours!Weeks /\ v.week \in [Hours!Weeks -> Nat]
      /\ v.regular \in Nat /\ v.overtime \in Nat
  BY HoursSets DEF Splits
<1> HIDE DEF week, m
<1>3. before \in Nat /\ to \in [Hours!Weeks -> Nat]
  BY <1>2
<1>4. r \in Nat /\ r <= m
  BY <1>2, <1>3 DEF Hours!Lesser
<1> HIDE DEF before, r, to
<1>5. v.regular + r \in Nat /\ v.overtime + m - r \in Nat
  BY <1>2, <1>4
<1> QED
  BY <1>1, <1>3, <1>5 DEF Splits

\* One turn of the loop attributes one entry more.
LEMMA AttributesOne ==
    ASSUME HoursConstants, NEW most \in Nat \ {0}, NEW from \in [Hours!Weeks -> Nat],
           NEW S \in SUBSET Entries, NEW e \in Entries \ S, NEW v,
           Attributed(most, from, S, v)
    PROVE  Attributed(most, from, S \cup {e}, Hours!AttributeEntry(most, v, e))
<1> DEFINE W == Hours!Weeks
           week == WeekOf[WorkDay[e]]
           m == Minutes[e]
           before == v.week[week]
           r == IF before >= most THEN 0 ELSE Hours!Lesser(m, most - before)
           to == [v.week EXCEPT ![week] = before + m]
           u == Hours!AttributeEntry(most, v, e)
<1>1. u = [week |-> to, regular |-> v.regular + r, overtime |-> v.overtime + m - r]
  BY DEF Hours!AttributeEntry
<1>2. m \in Nat /\ week \in W
  BY HoursSets
<1>3. v.week \in [W -> Nat] /\ v.regular \in Nat /\ v.overtime \in Nat
  BY DEF Attributed, Splits
<1> HIDE DEF W, week, m, u
<1>4. /\ before \in Nat /\ to \in [W -> Nat] /\ to[week] = before + m
      /\ \A k \in W \ {week} : to[k] = v.week[k]
  BY <1>2, <1>3
<1>5. /\ r \in Nat /\ r <= m
      /\ m - r = Hours!Over(before + m, most) - Hours!Over(before, most)
  BY <1>2, <1>4 DEF Hours!Lesser, Hours!Over
<1> HIDE DEF before, r, to
<1>6. u \in Splits
  BY AttributeTyped DEF u, Attributed
<1>7. u.week = Grown(from, S \cup {e})
  <2>1. \A k \in W : v.week[k] = from[k] + SumOf(Minutes, InWeek(S, k))
    BY DEF Attributed, Grown, W
  <2>2. InWeek(S \cup {e}, week) = InWeek(S, week) \cup {e} /\ e \notin InWeek(S, week)
    BY DEF InWeek, week
  <2>3. \A k \in W \ {week} : InWeek(S \cup {e}, k) = InWeek(S, k)
    BY DEF InWeek, week
  <2>4. SumOf(Minutes, InWeek(S \cup {e}, week)) = m + SumOf(Minutes, InWeek(S, week))
        /\ SumOf(Minutes, InWeek(S, week)) \in Int
    <3>1. InWeek(S, week) \in SUBSET Entries
      BY DEF InWeek
    <3> QED
      BY <2>2, <3>1, DaySums DEF m
  <2>5. \A k \in W : to[k] = from[k] + SumOf(Minutes, InWeek(S \cup {e}, k))
    <3> TAKE k \in W
    <3>1. CASE k = week
      <4>1. from[week] \in Nat
        BY <1>2 DEF W
      <4> QED
        BY <1>2, <1>4, <2>1, <2>4, <3>1, <4>1 DEF before
    <3>2. CASE k # week
      BY <1>4, <2>1, <2>3, <3>2
    <3> QED
      BY <3>1, <3>2
  <2> QED
    BY <1>1, <1>4, <2>5 DEF Grown, W
<1>8. u.regular + u.overtime = SumOf(Minutes, S \cup {e})
  <2>1. SumOf(Minutes, S \cup {e}) = m + SumOf(Minutes, S) /\ SumOf(Minutes, S) \in Int
    BY DaySums DEF m
  <2>2. v.regular + v.overtime = SumOf(Minutes, S)
    BY DEF Attributed
  <2>3. u.regular = v.regular + r /\ u.overtime = v.overtime + m - r
    BY <1>1
  <2> QED
    BY <1>2, <1>3, <1>5, <2>1, <2>2, <2>3
<1>9. u.overtime = SumOf(Beyond(most, from, u.week), W)
  <2> DEFINE f == Beyond(most, from, v.week)
             g == Beyond(most, from, to)
  <2>1. \A k \in W : f[k] = Hours!Over(v.week[k], most) - Hours!Over(from[k], most)
    BY DEF Beyond, W
  <2>2. \A k \in W : g[k] = Hours!Over(to[k], most) - Hours!Over(from[k], most)
    BY DEF Beyond, W
  <2>3. \A x \in Nat : Hours!Over(x, most) \in Int
    BY DEF Hours!Over
  <2>4. \A k \in W : from[k] \in Nat /\ v.week[k] \in Nat /\ to[k] \in Nat
    BY <1>3, <1>4 DEF W
  <2>5. Whole(f, W) /\ Whole(g, W)
    <3> HIDE DEF f, g
    <3> QED
      BY <2>1, <2>2, <2>3, <2>4 DEF Whole
  <2>6. \A k \in W \ {week} : g[k] = f[k]
    BY <1>4, <2>1, <2>2
  <2>7. v.overtime = SumOf(f, W)
    BY DEF Attributed, W
  <2> HIDE DEF f, g
  <2>8. SumOf(g, W) = SumOf(f, W) - f[week] + g[week]
    BY <1>2, <2>5, <2>6, HoursSets, SumChange DEF Whole, W
  <2>9. g[week] - f[week] = m - r
    <3>1. /\ f[week] = Hours!Over(before, most) - Hours!Over(from[week], most)
          /\ g[week] = Hours!Over(before + m, most) - Hours!Over(from[week], most)
      BY <1>2, <1>4, <2>1, <2>2 DEF before
    <3>2. /\ Hours!Over(from[week], most) \in Int /\ Hours!Over(before, most) \in Int
          /\ Hours!Over(before + m, most) \in Int
      BY <1>2, <1>4, <2>3, <2>4
    <3> QED
      BY <1>2, <1>5, <3>1, <3>2
  <2>10. f[week] \in Int /\ g[week] \in Int /\ SumOf(f, W) \in Int
    BY <1>2, <2>5, HoursSets, SumType DEF Whole, W
  <2>11. u.overtime = v.overtime + m - r /\ u.week = to
    BY <1>1
  <2>12. SumOf(g, W) = v.overtime + (m - r)
    BY <2>7, <2>8, <2>9, <2>10
  <2> QED
    BY <1>2, <1>3, <1>5, <2>11, <2>12 DEF g
<1> QED
  BY <1>6, <1>7, <1>8, <1>9 DEF Attributed, u, W

\* A set has an enumeration from its smallest key to its largest.
LEMMA SortedExists ==
    ASSUME NEW S, IsFiniteSet(S), NEW key, \A x \in S : key[x] \in Nat
    PROVE  \E s \in Hours!SetToSeqs(S) :
               \A i, j \in DOMAIN s : i < j => key[s[i]] <= key[s[j]]
<1> DEFINE Sorted(T, s) ==
               /\ s \in [1 .. Cardinality(T) -> T]
               /\ \A i, j \in 1 .. Cardinality(T) : i # j => s[i] # s[j]
               /\ \A i, j \in 1 .. Cardinality(T) : i < j => key[s[i]] <= key[s[j]]
           bad == {T \in SUBSET S : \A s : ~ Sorted(T, s)}
<1>1. bad = {}
  <2> SUFFICES ASSUME bad # {}
               PROVE  FALSE
    OBVIOUS
  <2>1. PICK T \in bad : \A x \in T : T \ {x} \notin bad
    <3>1. bad \in SUBSET (SUBSET S)
      OBVIOUS
    <3> HIDE DEF bad
    <3> QED
      BY <3>1, LeastSubset
  <2>2. T \in SUBSET S /\ \A s : ~ Sorted(T, s)
    OBVIOUS
  <2>3. IsFiniteSet(T) /\ Cardinality(T) \in Nat
    BY <2>2, FS_Subset, FS_CardinalityType
  <2>4. T # {}
    <3> SUFFICES ASSUME T = {}
                 PROVE  FALSE
      OBVIOUS
    <3>1. Cardinality(T) = 0
      BY FS_EmptySet
    <3>2. 1 .. Cardinality(T) = {}
      BY <3>1
    <3>3. Sorted(T, [i \in 1 .. Cardinality(T) |-> 0])
      <4> HIDE DEF bad
      <4> QED
        BY <3>2
    <3> HIDE DEF bad, Sorted
    <3> QED
      BY <2>2, <3>3
  <2>5. PICK x \in T : \A y \in T : key[x] <= key[y]
    <3> DEFINE keys == {key[y] : y \in T}
    <3>1. keys \in SUBSET Nat /\ keys # {}
      BY <2>2, <2>4
    <3>2. PICK k \in keys : \A l \in keys : k <= l
      <4> HIDE DEF keys
      <4> QED
        BY <3>1, LeastNat
    <3> QED
      BY <3>2
  <2>6. Cardinality(T \ {x}) = Cardinality(T) - 1
    BY <2>3, FS_RemoveElement
  <2>7. PICK t : Sorted(T \ {x}, t)
    <3>1. T \ {x} \in SUBSET S /\ T \ {x} \notin bad
      BY <2>1, <2>2
    <3> HIDE DEF Sorted
    <3> QED
      BY <3>1
  <2> DEFINE c == Cardinality(T)
             s == [i \in 1 .. c |-> IF i = 1 THEN x ELSE t[i - 1]]
  <2>8. /\ t \in [1 .. c - 1 -> T \ {x}]
        /\ \A i, j \in 1 .. c - 1 : i # j => t[i] # t[j]
        /\ \A i, j \in 1 .. c - 1 : i < j => key[t[i]] <= key[t[j]]
    BY <2>6, <2>7
  <2> HIDE DEF bad, Sorted
  <2>9. c \in Nat
    BY <2>3
  <2> HIDE DEF c
  <2>10. \A i \in 1 .. c : \/ i = 1 /\ s[i] = x
                           \/ i # 1 /\ i - 1 \in 1 .. c - 1 /\ s[i] = t[i - 1]
                              /\ s[i] \in T \ {x}
    BY <2>8, <2>9
  <2>11. s \in [1 .. c -> T]
    BY <2>5, <2>10
  <2> HIDE DEF s
  <2>12. \A i, j \in 1 .. c : i # j => s[i] # s[j]
    BY <2>8, <2>9, <2>10
  <2>13. \A i, j \in 1 .. c : i < j => key[s[i]] <= key[s[j]]
    <3> SUFFICES ASSUME NEW i \in 1 .. c, NEW j \in 1 .. c, i < j
                 PROVE  key[s[i]] <= key[s[j]]
      OBVIOUS
    <3>1. j # 1 /\ j - 1 \in 1 .. c - 1 /\ s[j] = t[j - 1] /\ s[j] \in T
      BY <2>9, <2>10
    <3>2. CASE i = 1
      BY <2>5, <2>10, <3>1, <3>2
    <3>3. CASE i # 1
      BY <2>8, <2>9, <2>10, <3>1, <3>3
    <3> QED
      BY <3>2, <3>3
  <2>14. Sorted(T, s)
    BY <2>11, <2>12, <2>13 DEF Sorted, c
  <2> QED
    BY <2>2, <2>14
<1>2. PICK s : Sorted(S, s)
  <2> HIDE DEF Sorted
  <2> QED
    BY <1>1
<1>3. Hours!Cardinality(S) = Cardinality(S)
  BY DEF Hours!Cardinality, Cardinality, Hours!IsFiniteSet, IsFiniteSet
<1> QED
  BY <1>2, <1>3 DEF Hours!SetToSeqs

-----------------------------------------------------------------------------
(* Gross pay.                                                               *)

\* A worker's paid minutes, week by week.
PaidIn(w, k) ==
    {e \in Entries : /\ Owner[e] = w
                     /\ status[e] = "approved"
                     /\ paidBy[e] # 0
                     /\ WeekOf[WorkDay[e]] = k}
Seeded(w) == [k \in Hours!Weeks |-> SumOf(Minutes, PaidIn(w, k))]

LEMMA SeededIs ==
    ASSUME HoursConstants, NEW w
    PROVE  /\ Seeded(w) \in [Hours!Weeks -> Nat]
           /\ Seeded(w) = [k \in Hours!Weeks |-> Hours!PaidMinutesInISOWeek(w, k)]
<1>1. \A k : PaidIn(w, k) \in SUBSET Entries
  BY DEF PaidIn
<1>2. \A k : SumOf(Minutes, PaidIn(w, k)) \in Nat
  BY <1>1, HoursSets, SumPart
<1>3. \A k : Hours!PaidMinutesInISOWeek(w, k) = SumOf(Minutes, PaidIn(w, k))
  BY MinutesAre DEF Hours!PaidMinutesInISOWeek, PaidIn
<1> QED
  BY <1>2, <1>3 DEF Seeded

\* The recursion of the loop over the positions of the entries in their order.
LoopOver(base, order, h) ==
    h = [s \in SUBSET DOMAIN order |->
            IF s = {} THEN base
            ELSE Hours!AttributeEntry(threshold, h[s \ {Max(s)}], order[Max(s)])]

LEMMA LoopExists ==
    ASSUME HoursConstants, threshold \in Thresholds, NEW S \in SUBSET Entries,
           NEW n \in Nat, NEW order \in [1 .. n -> S], NEW base \in Splits
    PROVE  \E h : LoopOver(base, order, h)
<1>1. threshold \in Nat \ {0}
  BY DEF HoursConstants, Hours!TimeConstants
<1>2. \A v \in Splits, e \in Entries :
         Hours!AttributeEntry(threshold, v, e) \in Splits
  BY <1>1, AttributeTyped
<1> DEFINE F == [i \in 1 .. n |-> [v \in Splits |->
                    Hours!AttributeEntry(threshold, v, order[i])]]
<1>3. \A i \in 1 .. n, v \in Splits :
         /\ F[i][v] = Hours!AttributeEntry(threshold, v, order[i])
         /\ F[i][v] \in Splits
  BY <1>2
<1> HIDE DEF F
<1>4. PICK g : /\ FoldsOver(F, base, SUBSET (1 .. n), g)
               /\ \A s \in SUBSET (1 .. n) : g[s] \in Splits
  <2>1. \A i \in 1 .. n, v \in Splits : F[i][v] \in Splits
    BY <1>3, Zenon
  <2> QED
    BY <2>1, FoldExists, Zenon
<1>5. \A s \in SUBSET (1 .. n) :
         s # {} => /\ Max(s) \in 1 .. n /\ s \ {Max(s)} \in SUBSET (1 .. n)
                   /\ F[Max(s)][g[s \ {Max(s)}]]
                        = Hours!AttributeEntry(threshold, g[s \ {Max(s)}], order[Max(s)])
  BY <1>3, <1>4, MaxIn
<1>6. LoopOver(base, order, g)
  <2>1. DOMAIN order = 1 .. n
    OBVIOUS
  <2> QED
    BY <1>4, <1>5, <2>1 DEF LoopOver, FoldsOver
<1> QED
  BY <1>6, Zenon

\* The entries at the first k positions.
Taken(order, k) == {order[i] : i \in 1 .. k}

\* Whatever the order, the loop attributes every entry.
LEMMA LoopAttributes ==
    ASSUME HoursConstants, threshold \in Thresholds, NEW from \in [Hours!Weeks -> Nat],
           NEW S \in SUBSET Entries, NEW n \in Nat, NEW order \in [1 .. n -> S],
           \A i, j \in 1 .. n : i # j => order[i] # order[j],
           NEW base, base = [week |-> from, regular |-> 0, overtime |-> 0],
           NEW c, LoopOver(base, order, c)
    PROVE  Attributed(threshold, from, Taken(order, n), c[1 .. n])
<1>1. threshold \in Nat \ {0}
  BY DEF HoursConstants, Hours!TimeConstants
<1>2. base \in Splits
  BY DEF Splits
<1>3. /\ c[{}] = base
      /\ \A s \in SUBSET (1 .. n) : s # {} =>
            c[s] = Hours!AttributeEntry(threshold, c[s \ {Max(s)}], order[Max(s)])
  <2>1. DOMAIN order = 1 .. n
    OBVIOUS
  <2> QED
    BY <2>1 DEF LoopOver
<1>4. \A k \in 1 .. n :
          c[1 .. k] = Hours!AttributeEntry(threshold, c[1 .. k - 1], order[k])
  <2> TAKE k \in 1 .. n
  <2>1. k \in Nat \ {0} /\ 1 .. k \in SUBSET (1 .. n) /\ 1 .. k # {}
    <3>1. k \in Nat /\ 1 <= k /\ k <= n
      OBVIOUS
    <3>2. 1 .. k \subseteq 1 .. n /\ 1 \in 1 .. k
      BY <3>1
    <3>3. k \in Nat \ {0}
      BY <3>1
    <3> QED
      BY <3>2, <3>3, Zenon
  <2> QED
    BY <1>3, <2>1, MaxUpTo
<1> DEFINE Good(k) == Attributed(threshold, from, Taken(order, k), c[1 .. k])
           bad == {k \in 0 .. n : ~ Good(k)}
<1>5. bad = {}
  <2> SUFFICES ASSUME bad # {}
               PROVE  FALSE
    OBVIOUS
  <2>1. PICK k \in bad : \A j \in bad : k <= j
    <3> bad \in SUBSET Nat
      OBVIOUS
    <3> HIDE DEF bad
    <3> QED
      BY LeastNat
  <2>2. k \in 0 .. n /\ ~ Good(k)
    OBVIOUS
  <2>3. k # 0
    <3>1. 1 .. 0 = {} /\ Taken(order, 0) = {}
      BY DEF Taken
    <3>2. c[1 .. 0] = base
      BY <1>3, <3>1
    <3>3. \A l : InWeek({}, l) = {}
      BY DEF InWeek
    <3>4. Grown(from, {}) = from
      <4> DEFINE g0 == Grown(from, {})
      <4>1. \A l \in Hours!Weeks : g0[l] = from[l] + SumOf(Minutes, InWeek({}, l))
        BY DEF Grown
      <4>2. \A l \in Hours!Weeks : g0[l] = from[l]
        <5>1. \A l \in Hours!Weeks : SumOf(Minutes, InWeek({}, l)) = 0
          BY <3>3, SumEmpty
        <5>2. \A l \in Hours!Weeks : from[l] \in Nat
          OBVIOUS
        <5> HIDE DEF g0
        <5> QED
          BY <4>1, <5>1, <5>2
      <4>3. g0 = [l \in Hours!Weeks |-> g0[l]]
        BY DEF Grown
      <4> HIDE DEF g0
      <4>4. g0 = from
        BY <4>2, <4>3
      <4> QED
        BY <4>4 DEF g0
    <3>5. SumOf(Beyond(threshold, from, from), Hours!Weeks) = 0
      <4> DEFINE f == Beyond(threshold, from, from)
      <4>1. \A l \in Hours!Weeks : Hours!Over(from[l], threshold) \in Int
        BY <1>1 DEF Hours!Over
      <4>2. \A l \in Hours!Weeks : f[l] = 0
        BY <4>1 DEF Beyond
      <4> HIDE DEF f
      <4>3. Whole(f, Hours!Weeks)
        BY <4>2 DEF Whole
      <4> QED
        BY <4>2, <4>3, HoursSets, SumZero DEF f
    <3>6. Attributed(threshold, from, {}, base)
      BY <1>2, <3>4, <3>5, SumEmpty DEF Attributed
    <3>7. Good(0)
      BY <3>1, <3>2, <3>6
    <3> QED
      BY <2>2, <3>7
  <2>4. k \in 1 .. n /\ k - 1 \in 0 .. n /\ Good(k - 1)
    <3>1. k \in 1 .. n /\ k - 1 \in 0 .. n /\ ~ k <= k - 1
      BY <2>2, <2>3
    <3> QED
      BY <2>1, <3>1
  <2>5. Taken(order, k) = Taken(order, k - 1) \cup {order[k]}
    <3>1. 1 .. k = (1 .. k - 1) \cup {k}
      BY <2>4
    <3> QED
      BY <3>1 DEF Taken
  <2>6. order[k] \in Entries \ Taken(order, k - 1) /\ Taken(order, k - 1) \in SUBSET Entries
    <3>1. \A i \in 1 .. k - 1 : i \in 1 .. n /\ i # k
      BY <2>4
    <3> QED
      BY <2>4, <3>1 DEF Taken
  <2>7. c[1 .. k] = Hours!AttributeEntry(threshold, c[1 .. k - 1], order[k])
    BY <1>4, <2>4
  <2>8. Attributed(threshold, from, Taken(order, k - 1) \cup {order[k]},
                   Hours!AttributeEntry(threshold, c[1 .. k - 1], order[k]))
    BY <1>1, <2>4, <2>6, AttributesOne
  <2> QED
    BY <2>2, <2>5, <2>7, <2>8
<1>6. Good(n)
  <2>1. n \in 0 .. n
    OBVIOUS
  <2> HIDE DEF Good
  <2> QED
    BY <1>5, <2>1
<1> QED
  BY <1>6

\* What ComputeHourlyGross returned adds up: every minute is regular or overtime, and
\* overtime is what the minutes add beyond the threshold to what the weeks held.
AddsUp(w, gross, held) ==
    /\ gross \in Hours!Breakdown
    /\ \A e \in gross.entries : Owner[e] = w
    /\ gross.pay.regular + gross.pay.overtime = SumOf(Minutes, gross.entries)
    /\ gross.pay.overtime
          = SumOf(Beyond(gross.threshold, held, Grown(held, gross.entries)), Hours!Weeks)

LEMMA GrossIs ==
    ASSUME HoursConstants, threshold \in Thresholds, NEW w, NEW n
    PROVE  AddsUp(w, Hours!ComputeHourlyGross(w, n), Seeded(w))
<1> DEFINE S == Hours!UnpaidApprovedEntriesThrough(w, n)
           order == Hours!OldestFirst(S)
           base == [week |-> [k \in Hours!Weeks |-> Hours!PaidMinutesInISOWeek(w, k)],
                    regular |-> 0, overtime |-> 0]
           c == CHOOSE h : LoopOver(base, order, h)
           split == c[1 .. Cardinality(S)]
<1>1. S \in SUBSET Entries /\ \A e \in S : Owner[e] = w
  BY DEF Hours!UnpaidApprovedEntriesThrough
<1> HIDE DEF S
<1>2. IsFiniteSet(S) /\ Cardinality(S) \in Nat /\ Hours!Cardinality(S) = Cardinality(S)
  <2>1. IsFiniteSet(S)
    BY <1>1, HoursSets, FS_Subset
  <2> QED
    BY <2>1, FS_CardinalityType DEF Hours!Cardinality, Cardinality, Hours!IsFiniteSet,
                                    IsFiniteSet
<1>3. /\ order \in [1 .. Cardinality(S) -> S]
      /\ \A i, j \in 1 .. Cardinality(S) : i # j => order[i] # order[j]
  <2>1. \A e \in S : WorkDay[e] \in Nat
    BY <1>1 DEF HoursConstants, Hours!TimeConstants
  <2>2. \E s \in Hours!SetToSeqs(S) :
            \A i, j \in DOMAIN s : i < j => WorkDay[s[i]] <= WorkDay[s[j]]
    BY <1>2, <2>1, SortedExists
  <2>3. order \in Hours!SetToSeqs(S)
    BY <2>2, Zenon DEF Hours!OldestFirst
  <2> QED
    BY <1>2, <2>3 DEF Hours!SetToSeqs
<1>4. Taken(order, Cardinality(S)) = S
  <2> DEFINE D == 1 .. Cardinality(S)
  <2>1. Cardinality(D) = Cardinality(S)
    BY <1>2, FS_Interval
  <2> HIDE DEF order
  <2>2. order \in Injection(D, S)
    BY <1>3 DEF Injection, IsInjective
  <2>3. order \in Surjection(D, S)
    BY <1>2, <2>1, <2>2, FS_Injection
  <2> QED
    BY <1>3, <2>3 DEF Surjection, Taken
<1>5. base = [week |-> Seeded(w), regular |-> 0, overtime |-> 0]
      /\ Seeded(w) \in [Hours!Weeks -> Nat]
  BY SeededIs
<1>6. Hours!ComputeHourlyGross(w, n)
         = [entries |-> S,
            pay |-> [regular |-> split.regular, overtime |-> split.overtime],
            threshold |-> threshold]
  <2>1. DOMAIN order = 1 .. Cardinality(S)
    BY <1>3
  <2>2. split = c[DOMAIN order]
    BY <2>1
  <2> HIDE DEF split
  <2> QED
    BY <2>2 DEF Hours!ComputeHourlyGross, Hours!FoldLeft, Hours!MapThenFoldSet, LoopOver,
                Hours!Max, Max, S
<1> HIDE DEF order, base
<1>7. Attributed(threshold, Seeded(w), S, split)
  <2>1. LoopOver(base, order, c)
    <3>1. base \in Splits
      BY <1>5 DEF Splits
    <3>2. \E h : LoopOver(base, order, h)
      BY <1>1, <1>2, <1>3, <3>1, LoopExists
    <3> QED
      BY <3>2, Zenon
  <2> DEFINE n0 == Cardinality(S)
             from == Seeded(w)
  <2>2. n0 \in Nat /\ order \in [1 .. n0 -> S] /\ from \in [Hours!Weeks -> Nat]
    BY <1>2, <1>3, <1>5
  <2>3. \A i, j \in 1 .. n0 : i # j => order[i] # order[j]
    BY <1>3
  <2>4. base = [week |-> from, regular |-> 0, overtime |-> 0]
    BY <1>5
  <2> HIDE DEF c, n0, from
  <2>5. Attributed(threshold, from, Taken(order, n0), c[1 .. n0])
    BY <1>1, <2>1, <2>2, <2>3, <2>4, LoopAttributes
  <2> QED
    BY <1>4, <2>5 DEF n0, from
<1> HIDE DEF c, split
<1> DEFINE gross == Hours!ComputeHourlyGross(w, n)
<1>8. /\ gross.entries = S /\ gross.threshold = threshold
      /\ gross.pay.regular = split.regular /\ gross.pay.overtime = split.overtime
  BY <1>6
<1>9. split.regular \in Nat /\ split.overtime \in Nat
  BY <1>7 DEF Attributed, Splits
<1>10. gross \in Hours!Breakdown
  BY <1>1, <1>6, <1>9 DEF Hours!Breakdown, Hours!Item
<1> HIDE DEF gross
<1>11. AddsUp(w, gross, Seeded(w))
  BY <1>1, <1>7, <1>8, <1>10 DEF AddsUp, Attributed
<1> QED
  BY <1>11 DEF gross

PaidBy(w, n) == {e \in Entries : Owner[e] = w /\ paidBy[e] = n}

\* The types that HoursIInv leaves out.
HoursRest ==
    /\ active \in [Employees -> BOOLEAN]
    /\ workday \in WorkDates
    /\ threshold \in Thresholds
    /\ created \subseteq Periods
    /\ item \in [Periods -> [Employees -> Hours!Item]]

\* What a run has computed adds up with what the weeks hold now, and the run's period has
\* no payroll yet.
RunAddsUp ==
    run.pc = "running" =>
        /\ run.period \notin created
        /\ run.todo \subseteq Employees
        /\ \A w \in DOMAIN run.gross :
               w \in Employees /\ AddsUp(w, run.gross[w], Seeded(w))

ItemsAddUp ==
    \A n \in Periods, w \in Employees :
        item[n][w].regular + item[n][w].overtime = SumOf(Minutes, PaidBy(w, n))

\* A period without a payroll has paid nothing.
UncreatedPaysNothing ==
    /\ \A e \in Entries : paidBy[e] # 0 => paidBy[e] \in created
    /\ \A n \in Periods \ created, w \in Employees : item[n][w] = Hours!NoItem

PaysInv == HoursRest /\ RunAddsUp /\ ItemsAddUp /\ UncreatedPaysNothing

LEMMA PaysInit ==
    ASSUME HoursConstants, Hours!Init
    PROVE  PaysInv
<1>1. HoursRest
  BY DEF HoursRest, Hours!Init, Hours!NoItem, Hours!Item
<1>2. RunAddsUp
  BY DEF RunAddsUp, Hours!Init, Hours!Idle
<1>3. \A n \in Periods, w \in Employees : PaidBy(w, n) = {} /\ item[n][w] = Hours!NoItem
  BY DEF PaidBy, Hours!Init, HoursConstants, Hours!TimeConstants
<1>4. ItemsAddUp
  <2> SUFFICES ASSUME NEW n \in Periods, NEW w \in Employees
               PROVE  item[n][w].regular + item[n][w].overtime = SumOf(Minutes, PaidBy(w, n))
    BY DEF ItemsAddUp
  <2>1. item[n][w].regular = 0 /\ item[n][w].overtime = 0
    BY <1>3 DEF Hours!NoItem
  <2>2. SumOf(Minutes, PaidBy(w, n)) = 0
    BY <1>3, SumEmpty
  <2> QED
    BY <2>1, <2>2
<1>5. UncreatedPaysNothing
  BY <1>3 DEF UncreatedPaysNothing, Hours!Init
<1> QED
  BY <1>1, <1>2, <1>4, <1>5 DEF PaysInv

\* While no run commits, what the weeks hold stays as it is: a paid entry stays approved.
LEMMA SeededStands ==
    ASSUME HoursIInv, HoursIInv', paidBy' = paidBy, NEW w
    PROVE  Seeded(w)' = Seeded(w)
<1>1. \A e \in Entries : paidBy[e] # 0 => status[e] = "approved" /\ status'[e] = "approved"
  BY DEF HoursIInv, PaidIsApproved
<1>2. \A k : PaidIn(w, k)' = PaidIn(w, k)
  BY <1>1 DEF PaidIn
<1> QED
  BY <1>2 DEF Seeded, Hours!Weeks

\* A step that leaves the payroll alone.
LEMMA PaysStand ==
    ASSUME HoursIInv, HoursIInv', PaysInv, HoursRest',
           UNCHANGED <<paidBy, run, created, item>>
    PROVE  PaysInv'
<1>1. \A w : Seeded(w)' = Seeded(w)
  BY SeededStands
<1>2. RunAddsUp'
  BY <1>1 DEF PaysInv, RunAddsUp
<1>3. ItemsAddUp' /\ UncreatedPaysNothing'
  BY DEF PaysInv, ItemsAddUp, UncreatedPaysNothing, PaidBy
<1> QED
  BY <1>2, <1>3 DEF PaysInv

\* A run that begins, computes a worker's pay or rolls back changes no item.
LEMMA PaysRuns ==
    ASSUME HoursConstants, HoursIInv, HoursIInv', PaysInv,
           \/ \E n \in Periods : Hours!PayrollBegin(n)
           \/ \E w \in Employees : Hours!PayrollEmployee(w)
           \/ Hours!PayrollRollsBack
    PROVE  PaysInv'
<1>1. UNCHANGED <<status, paidBy, created, item, active, workday, threshold>>
  BY DEF Hours!PayrollBegin, Hours!PayrollEmployee, Hours!PayrollRollsBack, Hours!world
<1>2. HoursRest' /\ ItemsAddUp' /\ UncreatedPaysNothing'
  BY <1>1 DEF PaysInv, HoursRest, ItemsAddUp, UncreatedPaysNothing, PaidBy
<1>3. ASSUME NEW n \in Periods, Hours!PayrollBegin(n) PROVE RunAddsUp'
  <2>1. /\ n \notin created'
        /\ run' = [pc |-> "running", period |-> n,
                   todo |-> {w \in Employees : active[w]}, gross |-> <<>>]
    BY <1>3 DEF Hours!PayrollBegin
  <2>2. run'.period = n /\ run'.todo \subseteq Employees /\ DOMAIN run'.gross = {}
    BY <2>1
  <2> QED
    BY <2>1, <2>2 DEF RunAddsUp
<1>4. ASSUME NEW w \in Employees, Hours!PayrollEmployee(w) PROVE RunAddsUp'
  <2> DEFINE G == Hours!ComputeHourlyGross(w, run.period)
             g == [v \in DOMAIN run.gross \cup {w} |-> IF v = w THEN G ELSE run.gross[v]]
  <2>1. /\ run.pc = "running"
        /\ run' = [run EXCEPT !.todo = run.todo \ {w}, !.gross = g]
    BY <1>4 DEF Hours!PayrollEmployee
  <2>2. AddsUp(w, G, Seeded(w))
    BY GrossIs DEF PaysInv, HoursRest
  <2> HIDE DEF G
  <2>3. \A v \in DOMAIN g : v \in Employees /\ AddsUp(v, g[v], Seeded(v))
    BY <2>1, <2>2 DEF PaysInv, RunAddsUp
  <2> HIDE DEF g
  <2>4. run = [pc |-> "running", period |-> run.period, todo |-> run.todo,
               gross |-> run.gross]
    BY <2>1 DEF HoursIInv, RunReadsStand
  <2>5. run' = [pc |-> "running", period |-> run.period, todo |-> run.todo \ {w}, gross |-> g]
    BY <2>1, <2>4
  <2>6. run'.period = run.period /\ run'.todo = run.todo \ {w} /\ run'.gross = g
    BY <2>5
  <2>7. \A v : Seeded(v)' = Seeded(v)
    BY <1>1, SeededStands
  <2>8. run.period \notin created' /\ run.todo \subseteq Employees
    BY <1>1, <2>1 DEF PaysInv, RunAddsUp
  <2> QED
    BY <2>3, <2>6, <2>7, <2>8 DEF RunAddsUp
<1>5. ASSUME Hours!PayrollRollsBack PROVE RunAddsUp'
  BY <1>5 DEF Hours!PayrollRollsBack, RunAddsUp, Hours!Idle
<1> QED
  BY <1>2, <1>3, <1>4, <1>5 DEF PaysInv

\* Who is paid what when a run commits.
LEMMA CommitIs ==
    ASSUME HoursConstants, HoursIInv, PaysInv, Hours!PayrollCommit
    PROVE  /\ run.pc = "running" /\ run.period \in Periods \ created /\ run' = Hours!Idle
           /\ created' = created \cup {run.period}
           /\ \A w \in Employees, n \in Periods :
                 /\ n # run.period =>
                       item'[n][w] = item[n][w] /\ PaidBy(w, n)' = PaidBy(w, n)
                 /\ n = run.period /\ w \notin DOMAIN run.gross =>
                       item'[n][w] = Hours!NoItem /\ PaidBy(w, n)' = {}
                 /\ n = run.period /\ w \in DOMAIN run.gross =>
                       /\ item'[n][w] = run.gross[w].pay
                       /\ PaidBy(w, n)' = run.gross[w].entries
           /\ \A w \in DOMAIN run.gross :
                 /\ AddsUp(w, run.gross[w], Seeded(w))
                 /\ \A k : /\ PaidIn(w, k)' = PaidIn(w, k) \cup InWeek(run.gross[w].entries, k)
                           /\ PaidIn(w, k) \cap InWeek(run.gross[w].entries, k) = {}
<1> DEFINE Paid(e) == \E w \in DOMAIN run.gross : e \in run.gross[w].entries
<1>1. /\ run.pc = "running" /\ run' = Hours!Idle /\ created' = created \cup {run.period}
      /\ status' = status
      /\ item' = [item EXCEPT ![run.period] =
                     [w \in Employees |-> IF w \in DOMAIN run.gross
                                          THEN run.gross[w].pay ELSE Hours!NoItem]]
      /\ paidBy' = [e \in Entries |-> IF Paid(e) THEN run.period ELSE paidBy[e]]
  BY DEF Hours!PayrollCommit
<1>2. run.period \in Periods \ created /\ run.period # 0
  BY <1>1 DEF HoursIInv, RunReadsStand, PaysInv, RunAddsUp, HoursConstants,
              Hours!TimeConstants
<1>3. \A w \in DOMAIN run.gross :
         /\ w \in Employees /\ AddsUp(w, run.gross[w], Seeded(w))
         /\ \A e \in run.gross[w].entries :
               e \in Entries /\ status[e] = "approved" /\ paidBy[e] = 0 /\ Owner[e] = w
  BY <1>1 DEF HoursIInv, RunReadsStand, PaysInv, RunAddsUp, AddsUp
<1>4. \A e \in Entries : paidBy[e] # run.period
  BY <1>2 DEF PaysInv, UncreatedPaysNothing
<1>5. \A e \in Entries : /\ Paid(e) => paidBy'[e] = run.period /\ paidBy[e] = 0
                         /\ ~ Paid(e) => paidBy'[e] = paidBy[e]
  BY <1>1, <1>3
<1>6. \A w \in DOMAIN run.gross, e \in Entries :
         Owner[e] = w => (Paid(e) <=> e \in run.gross[w].entries)
  BY <1>3
<1>7. ASSUME NEW w \in Employees, NEW n \in Periods, n # run.period
      PROVE  item'[n][w] = item[n][w] /\ PaidBy(w, n)' = PaidBy(w, n)
  <2>1. item'[n][w] = item[n][w]
    BY <1>1, <1>7 DEF PaysInv, HoursRest
  <2>2. n # 0
    BY DEF HoursConstants, Hours!TimeConstants
  <2>3. \A e \in Entries : paidBy'[e] = n <=> paidBy[e] = n
    BY <1>5, <1>7, <2>2
  <2> QED
    BY <2>1, <2>3 DEF PaidBy
<1>8. ASSUME NEW w \in Employees, NEW n \in Periods, n = run.period
      PROVE  item'[n][w] = IF w \in DOMAIN run.gross THEN run.gross[w].pay
                           ELSE Hours!NoItem
  BY <1>1, <1>8 DEF PaysInv, HoursRest
<1>9. ASSUME NEW w \in Employees, NEW n \in Periods, n = run.period, w \notin DOMAIN run.gross
      PROVE  PaidBy(w, n)' = {}
  <2>1. \A e \in Entries : Owner[e] = w => ~ Paid(e)
    BY <1>3, <1>9
  <2>2. \A e \in Entries : Owner[e] = w => paidBy'[e] # n
    BY <1>4, <1>5, <1>9, <2>1
  <2> QED
    BY <2>2 DEF PaidBy
<1>10. ASSUME NEW w \in Employees, NEW n \in Periods, n = run.period, w \in DOMAIN run.gross
       PROVE  PaidBy(w, n)' = run.gross[w].entries
  <2>1. \A e \in Entries : Owner[e] = w => (paidBy'[e] = n <=> e \in run.gross[w].entries)
    BY <1>4, <1>5, <1>6, <1>10
  <2>2. \A e \in run.gross[w].entries : e \in Entries /\ Owner[e] = w
    BY <1>3, <1>10
  <2> HIDE DEF Paid
  <2> QED
    BY <2>1, <2>2 DEF PaidBy
<1>11. ASSUME NEW w \in DOMAIN run.gross, NEW k
       PROVE  /\ PaidIn(w, k)' = PaidIn(w, k) \cup InWeek(run.gross[w].entries, k)
              /\ PaidIn(w, k) \cap InWeek(run.gross[w].entries, k) = {}
  <2> DEFINE S == run.gross[w].entries
  <2>1. \A e \in S : e \in Entries /\ status[e] = "approved" /\ paidBy[e] = 0 /\ Owner[e] = w
    BY <1>3
  <2>2. \A e \in Entries : Owner[e] = w =>
           (paidBy'[e] # 0 <=> (paidBy[e] # 0 \/ e \in S))
    BY <1>2, <1>5, <1>6
  <2> HIDE DEF S, Paid
  <2>3. PaidIn(w, k) \cap InWeek(S, k) = {}
    BY <2>1 DEF PaidIn, InWeek
  <2>4. \A e : e \in PaidIn(w, k)' <=> e \in PaidIn(w, k) \cup InWeek(S, k)
    BY <1>1, <2>1, <2>2 DEF PaidIn, InWeek
  <2> QED
    BY <2>3, <2>4 DEF S
<1> HIDE DEF Paid
<1>12. \A w \in Employees, n \in Periods :
          /\ n # run.period => item'[n][w] = item[n][w] /\ PaidBy(w, n)' = PaidBy(w, n)
          /\ n = run.period /\ w \notin DOMAIN run.gross =>
                item'[n][w] = Hours!NoItem /\ PaidBy(w, n)' = {}
          /\ n = run.period /\ w \in DOMAIN run.gross =>
                item'[n][w] = run.gross[w].pay /\ PaidBy(w, n)' = run.gross[w].entries
  BY <1>7, <1>8, <1>9, <1>10
<1> QED
  BY <1>1, <1>2, <1>3, <1>11, <1>12

\* A commit leaves every item with the minutes of its entries.
LEMMA PaysCommit ==
    ASSUME HoursConstants, HoursIInv, PaysInv, Hours!PayrollCommit
    PROVE  PaysInv'
<1>1. UNCHANGED <<status, active, workday, threshold>>
  BY DEF Hours!PayrollCommit, Hours!world
<1>2. run' = Hours!Idle /\ run.period \in Periods \ created
      /\ created' = created \cup {run.period}
  BY CommitIs
<1>3. \A w \in DOMAIN run.gross : run.gross[w].pay \in Hours!Item
  BY CommitIs DEF AddsUp, Hours!Breakdown
<1>4. HoursRest'
  <2>1. item' \in [Periods -> [Employees -> Hours!Item]]
    <3> DEFINE x == [w \in Employees |-> IF w \in DOMAIN run.gross
                                         THEN run.gross[w].pay ELSE Hours!NoItem]
    <3>1. x \in [Employees -> Hours!Item]
      BY <1>3 DEF Hours!NoItem, Hours!Item
    <3>2. item' = [item EXCEPT ![run.period] = x]
      BY DEF Hours!PayrollCommit
    <3> HIDE DEF x
    <3> QED
      BY <3>1, <3>2 DEF PaysInv, HoursRest
  <2> QED
    BY <1>1, <1>2, <2>1 DEF PaysInv, HoursRest
<1>5. RunAddsUp'
  BY <1>2 DEF RunAddsUp, Hours!Idle
<1>6. ItemsAddUp'
  <2> SUFFICES ASSUME NEW n \in Periods, NEW w \in Employees
               PROVE  item'[n][w].regular + item'[n][w].overtime
                          = SumOf(Minutes, PaidBy(w, n)')
    BY DEF ItemsAddUp
  <2>1. CASE n # run.period
    BY <2>1, CommitIs DEF PaysInv, ItemsAddUp
  <2>2. CASE n = run.period /\ w \notin DOMAIN run.gross
    <3>1. item'[n][w] = Hours!NoItem /\ PaidBy(w, n)' = {}
      BY <2>2, CommitIs
    <3>2. Hours!NoItem.regular + Hours!NoItem.overtime = 0
      BY DEF Hours!NoItem
    <3> QED
      BY <3>1, <3>2, SumEmpty
  <2>3. CASE n = run.period /\ w \in DOMAIN run.gross
    BY <2>3, CommitIs DEF AddsUp
  <2> QED
    BY <2>1, <2>2, <2>3
<1>7. UncreatedPaysNothing'
  <2>1. \A n \in Periods \ created', w \in Employees : item'[n][w] = Hours!NoItem
    BY <1>2, CommitIs DEF PaysInv, UncreatedPaysNothing
  <2>2. \A e \in Entries : paidBy'[e] # 0 => paidBy'[e] \in created'
    BY <1>2 DEF PaysInv, UncreatedPaysNothing, Hours!PayrollCommit
  <2> QED
    BY <2>1, <2>2 DEF UncreatedPaysNothing
<1> QED
  BY <1>4, <1>5, <1>6, <1>7 DEF PaysInv

LEMMA PaysStep ==
    ASSUME HoursConstants, HoursIInv, PaysInv, [Hours!Next]_(Hours!vars)
    PROVE  HoursIInv' /\ PaysInv'
<1>1. HoursIInv'
  BY HoursStep
<1>2. CASE \/ \E n \in Periods : Hours!PayrollBegin(n)
           \/ \E w \in Employees : Hours!PayrollEmployee(w)
           \/ Hours!PayrollRollsBack
  BY <1>1, <1>2, PaysRuns
<1>3. CASE Hours!PayrollCommit
  BY <1>1, <1>3, PaysCommit
<1>4. ASSUME UNCHANGED <<paidBy, run, created, item>>, HoursRest'
      PROVE  PaysInv'
  BY <1>1, <1>4, PaysStand
<1>5. ASSUME UNCHANGED <<Hours!payVars, Hours!world>>
      PROVE  PaysInv'
  <2>1. UNCHANGED <<paidBy, run, created, item, active, workday, threshold>>
    BY <1>5 DEF Hours!payVars, Hours!world
  <2>2. HoursRest'
    BY <2>1 DEF PaysInv, HoursRest
  <2> QED
    BY <1>4, <2>1, <2>2
<1>6. CASE \E r \in Clients, e \in Entries : Hours!SubmitRead(r, e) \/ Hours!ApproveRead(r, e)
  BY <1>1, <1>5, <1>6 DEF Hours!SubmitRead, Hours!ApproveRead, Hours!Begin
<1>7. CASE \E r \in Clients : \/ Hours!LockDay(r)
                             \/ Hours!SubmitTimeEntry(r)
                             \/ Hours!ApproveTimeEntry(r)
                             \/ Hours!RequestRollsBack(r)
  BY <1>1, <1>5, <1>7
     DEF Hours!LockDay, Hours!SubmitTimeEntry, Hours!ApproveTimeEntry,
         Hours!RequestRollsBack, Hours!Finish
<1>8. CASE \E e \in Entries : Hours!RejectTimeEntry(e)
  BY <1>1, <1>5, <1>8 DEF Hours!RejectTimeEntry
<1>9. CASE UNCHANGED Hours!vars
  BY <1>1, <1>5, <1>9 DEF Hours!vars, Hours!payVars, Hours!world
<1>10. ASSUME NEW w \in Employees, Hours!Terminate(w)
       PROVE  PaysInv'
  BY <1>4, <1>10 DEF Hours!Terminate, Hours!payVars, PaysInv, HoursRest
<1>11. ASSUME NEW t \in Thresholds, Hours!UpdatePayrollPolicy(t)
       PROVE  PaysInv'
  BY <1>4, <1>11 DEF Hours!UpdatePayrollPolicy, Hours!payVars, PaysInv, HoursRest
<1>12. CASE Hours!NextDay
  BY <1>1, <1>4, <1>12 DEF Hours!NextDay, Hours!payVars, PaysInv, HoursRest
<1> QED
  BY <1>1, <1>2, <1>3, <1>6, <1>7, <1>8, <1>9, <1>10, <1>11, <1>12 DEF Hours!Next

\* What a run has computed and every item add up, for any order the entries are taken in:
\* the inductive invariant of hourly pay (ComputeHourlyGross, MarkTimeEntriesPaid).
THEOREM PaysInvariant == ASSUME HoursConstants PROVE Hours!Spec => [](HoursIInv /\ PaysInv)
<1>1. Hours!Init => HoursIInv /\ PaysInv
  BY HoursInit, PaysInit
<1>2. (HoursIInv /\ PaysInv) /\ [Hours!Next]_(Hours!vars) => (HoursIInv /\ PaysInv)'
  BY PaysStep
<1> QED
  BY <1>1, <1>2, PTL DEF Hours!Spec

\* The minutes on a payroll item are those of the entries stamped with it, so a minute is
\* paid once, whatever approvals race with the runs (ComputeHourlyGross).
THEOREM ItemAlwaysPaysEntries ==
    ASSUME HoursConstants PROVE Hours!Spec => [](Hours!TypeOK /\ Hours!ItemPaysItsEntries)
<1>1. HoursIInv /\ PaysInv => Hours!TypeOK
  <2> SUFFICES ASSUME HoursIInv, PaysInv
               PROVE  Hours!TypeOK
    OBVIOUS
  <2>1. \A r \in Clients : request[r] = Hours!Idle \/ request[r] \in Hours!Request
    BY DEF HoursIInv, HoursTyped
  <2>2. run.pc = "running" =>
           /\ run.period \in Periods /\ run.todo \subseteq Employees
           /\ \A w \in DOMAIN run.gross : run.gross[w] \in Hours!Breakdown
    BY DEF HoursIInv, RunReadsStand, PaysInv, RunAddsUp, AddsUp
  <2> QED
    BY <2>1, <2>2 DEF HoursIInv, HoursTyped, PaysInv, HoursRest, Hours!TypeOK
<1>2. PaysInv => Hours!ItemPaysItsEntries
  BY MinutesAre DEF PaysInv, ItemsAddUp, PaidBy, Hours!ItemPaysItsEntries
<1> QED
  BY <1>1, <1>2, PaysInvariant, PTL

\* What a step adds to a worker's paid weeks beyond a threshold.
OvertimeAdded(w, most) ==
    Hours!MapThenSumSet(
        LAMBDA k : Hours!Over(Hours!PaidMinutesInISOWeek(w, k)', most)
                   - Hours!Over(Hours!PaidMinutesInISOWeek(w, k), most), Hours!Weeks)

LEMMA BeyondIs ==
    ASSUME HoursConstants, NEW w, NEW most
    PROVE  OvertimeAdded(w, most) = SumOf(Beyond(most, Seeded(w), Seeded(w)'), Hours!Weeks)
<1> DEFINE W == Hours!Weeks
           f == Beyond(most, Seeded(w), Seeded(w)')
           H(h) == h = [s \in SUBSET W |->
                          IF s = {} THEN 0
                          ELSE (Hours!Over(Hours!PaidMinutesInISOWeek(w, Pick(s))', most)
                                - Hours!Over(Hours!PaidMinutesInISOWeek(w, Pick(s)), most))
                               + h[s \ {Pick(s)}]]
           c == CHOOSE h : H(h)
<1>1. OvertimeAdded(w, most) = c[W]
  BY DEF OvertimeAdded, Hours!MapThenSumSet, Hours!MapThenFoldSet, Pick
<1>2. \A k \in W : f[k] = Hours!Over(Hours!PaidMinutesInISOWeek(w, k)', most)
                          - Hours!Over(Hours!PaidMinutesInISOWeek(w, k), most)
  <2>1. \A k : Hours!PaidMinutesInISOWeek(w, k) = SumOf(Minutes, PaidIn(w, k))
    BY MinutesAre DEF Hours!PaidMinutesInISOWeek, PaidIn
  <2>2. \A k : Hours!PaidMinutesInISOWeek(w, k)' = SumOf(Minutes, PaidIn(w, k)')
    BY MinutesAre DEF Hours!PaidMinutesInISOWeek, PaidIn
  <2>3. \A k \in W : Seeded(w)[k] = SumOf(Minutes, PaidIn(w, k))
                     /\ Seeded(w)'[k] = SumOf(Minutes, PaidIn(w, k)')
    BY DEF Seeded
  <2> QED
    BY <2>1, <2>2, <2>3 DEF Beyond
<1>3. \A s \in SUBSET W : s # {} =>
         f[Pick(s)] = Hours!Over(Hours!PaidMinutesInISOWeek(w, Pick(s))', most)
                      - Hours!Over(Hours!PaidMinutesInISOWeek(w, Pick(s)), most)
  BY <1>2, PickIn
<1> HIDE DEF f
<1>4. \A h : H(h) <=> AddsOver(f, SUBSET W, h)
  BY <1>3 DEF AddsOver
<1>5. IsFiniteSet(W)
  BY HoursSets
<1> HIDE DEF H, W
<1>6. \E h : H(h)
  BY <1>4, <1>5, SolutionExists
<1>7. H(c)
  BY <1>6, Zenon
<1> HIDE DEF c
<1>8. c[W] = SumOf(f, W)
  BY <1>4, <1>5, <1>7, SumIs
<1> QED
  BY <1>1, <1>8 DEF f, W

\* However a week's entries are spread over runs, each run's overtime is what its minutes
\* add beyond the threshold to everything paid in the week so far (PaidMinutesInISOWeek).
THEOREM WeekAlwaysCounts ==
    ASSUME HoursConstants PROVE Hours!Spec => Hours!WeekCountsAcrossRuns
<1> DEFINE Counts ==
        \A n \in Periods : \A w \in Employees :
            item'[n][w] # item[n][w] =>
                item'[n][w].overtime = OvertimeAdded(w, run.gross[w].threshold)
<1>1. ASSUME HoursIInv, PaysInv, [Hours!Next]_(Hours!vars)
      PROVE  Counts
  <2>1. CASE Hours!PayrollCommit
    <3> SUFFICES ASSUME NEW n \in Periods, NEW w \in Employees, item'[n][w] # item[n][w]
                 PROVE  item'[n][w].overtime = OvertimeAdded(w, run.gross[w].threshold)
      OBVIOUS
    <3>1. n = run.period
      BY <1>1, <2>1, CommitIs
    <3>2. w \in DOMAIN run.gross
      <4>1. item[n][w] = Hours!NoItem
        BY <1>1, <2>1, <3>1, CommitIs DEF PaysInv, UncreatedPaysNothing
      <4> QED
        BY <1>1, <2>1, <3>1, <4>1, CommitIs
    <3>3. PICK g : g = run.gross[w]
      OBVIOUS
    <3>4. /\ item'[n][w] = g.pay /\ AddsUp(w, g, Seeded(w))
          /\ \A k : /\ PaidIn(w, k)' = PaidIn(w, k) \cup InWeek(g.entries, k)
                    /\ PaidIn(w, k) \cap InWeek(g.entries, k) = {}
      BY <1>1, <2>1, <3>1, <3>2, <3>3, CommitIs
    <3>5. g.entries \in SUBSET Entries
      BY <3>4 DEF AddsUp, Hours!Breakdown
    <3>6. Seeded(w)' = Grown(Seeded(w), g.entries)
      <4>1. \A k : SumOf(Minutes, PaidIn(w, k)')
                     = SumOf(Minutes, PaidIn(w, k)) + SumOf(Minutes, InWeek(g.entries, k))
        <5> TAKE k
        <5>1. PaidIn(w, k) \in SUBSET Entries /\ InWeek(g.entries, k) \in SUBSET Entries
          BY <3>5 DEF PaidIn, InWeek
        <5> QED
          BY <3>4, <5>1, DaySums, SumUnion
      <4>2. \A k \in Hours!Weeks : Seeded(w)'[k] = SumOf(Minutes, PaidIn(w, k)')
                                   /\ Seeded(w)[k] = SumOf(Minutes, PaidIn(w, k))
        BY DEF Seeded
      <4>3. Seeded(w)' = [k \in Hours!Weeks |-> SumOf(Minutes, PaidIn(w, k)')]
        BY DEF Seeded
      <4> QED
        BY <4>1, <4>2, <4>3 DEF Grown
    <3>7. g.pay.overtime = SumOf(Beyond(g.threshold, Seeded(w), Seeded(w)'), Hours!Weeks)
      BY <3>4, <3>6 DEF AddsUp
    <3>8. g.pay.overtime = OvertimeAdded(w, g.threshold)
      BY <1>1, <3>7, BeyondIs
    <3> QED
      BY <3>3, <3>4, <3>8
  <2>2. CASE ~ Hours!PayrollCommit
    <3>1. item' = item
      BY <1>1, <2>2
         DEF Hours!Next, Hours!vars, Hours!payVars, Hours!SubmitRead, Hours!ApproveRead,
             Hours!Begin, Hours!LockDay, Hours!SubmitTimeEntry, Hours!ApproveTimeEntry,
             Hours!RequestRollsBack, Hours!Finish, Hours!RejectTimeEntry,
             Hours!PayrollBegin, Hours!PayrollEmployee, Hours!PayrollRollsBack,
             Hours!Terminate, Hours!UpdatePayrollPolicy, Hours!NextDay
    <3> QED
      BY <3>1
  <2> QED
    BY <2>1, <2>2
<1>2. (HoursIInv /\ PaysInv) /\ [Hours!Next]_(Hours!vars) => [Counts]_(Hours!vars)
  <2> HIDE DEF Counts
  <2> QED
    BY <1>1
<1> QED
  BY <1>2, PaysInvariant, PTL DEF Hours!Spec, Hours!WeekCountsAcrossRuns,
                                OvertimeAdded

-----------------------------------------------------------------------------
(* Bills against payday.                                                    *)

BillConstants == Bill!BillTimingConstants

BillTyped ==
    /\ today \in Bill!Dates /\ today[1] < Len(Lengths)
    /\ bills \in SUBSET Recordable /\ IsFiniteSet(bills)
    /\ available \in Nat

\* The date a bill falls on next, from the date t.
DueFrom(t, due) ==
    IF Bill!DueIn(t[1], due) < t[2] THEN <<t[1] + 1, Bill!DueIn(t[1] + 1, due)>>
    ELSE <<t[1], Bill!DueIn(t[1], due)>>

LEMMA LengthsAre ==
    ASSUME BillConstants
    PROVE  /\ Len(Lengths) \in Nat /\ Len(Lengths) > 1
           /\ \A m \in 1 .. Len(Lengths) : Lengths[m] \in 28 .. 31
  BY DEF BillConstants, Bill!BillTimingConstants

LEMMA DueInIs ==
    ASSUME BillConstants, NEW m \in 1 .. Len(Lengths), NEW due \in 1 .. 31
    PROVE  Bill!DueIn(m, due) = IF due <= Lengths[m] THEN due ELSE Lengths[m]
<1>1. Lengths[m] \in 28 .. 31
  BY LengthsAre
<1> DEFINE n == Lengths[m]
           x == IF due <= n THEN due ELSE n
<1> HIDE DEF n
<1>2. n \in 28 .. 31
  BY <1>1 DEF n
<1>3. \A y : (y \in {due, n} /\ \A z \in {due, n} : y <= z) <=> y = x
  BY <1>2
<1>4. Bill!DueIn(m, due) = CHOOSE y \in {due, n} : \A z \in {due, n} : y <= z
  BY DEF Bill!DueIn, Bill!Min, n
<1> HIDE DEF x
<1>5. (CHOOSE y \in {due, n} : \A z \in {due, n} : y <= z) = x
  BY <1>3, Zenon
<1> QED
  BY <1>4, <1>5 DEF x, n

LEMMA DatesAre ==
    ASSUME BillConstants, NEW t \in Bill!Dates
    PROVE  /\ t[1] \in 1 .. Len(Lengths) /\ t[2] \in 1 .. 31
           /\ t[2] <= Lengths[t[1]] /\ Lengths[t[1]] \in 28 .. 31
           /\ t[1] \in Nat /\ t[2] \in Nat /\ Lengths[t[1]] \in Nat
<1>1. t \in (1 .. Len(Lengths)) \X (1 .. 31) /\ t[2] <= Lengths[t[1]]
  BY DEF Bill!Dates
<1>2. t[1] \in 1 .. Len(Lengths) /\ t[2] \in 1 .. 31
  BY <1>1
<1>3. Lengths[t[1]] \in 28 .. 31 /\ Len(Lengths) \in Nat
  BY <1>2, LengthsAre
<1>4. t[1] \in Nat
  BY <1>2, <1>3
<1>5. t[2] \in Nat /\ Lengths[t[1]] \in Nat
  <2> DEFINE a == t[2]
             b == Lengths[t[1]]
  <2>1. a \in 1 .. 31 /\ b \in 28 .. 31
    BY <1>2, <1>3
  <2> HIDE DEF a, b
  <2>2. a \in Nat /\ b \in Nat
    BY <2>1
  <2> QED
    BY <2>2 DEF a, b
<1> QED
  BY <1>1, <1>2, <1>3, <1>4, <1>5

LEMMA MakesDate ==
    ASSUME BillConstants, NEW m \in 1 .. Len(Lengths), NEW d \in Nat \ {0}, d <= Lengths[m]
    PROVE  <<m, d>> \in Bill!Dates
<1>1. d \in 1 .. 31
  BY LengthsAre
<1>2. <<m, d>> \in (1 .. Len(Lengths)) \X (1 .. 31) /\ <<m, d>>[1] = m /\ <<m, d>>[2] = d
  BY <1>1
<1> QED
  BY <1>2 DEF Bill!Dates

\* The next date of a bill is the first from t on which it falls.
LEMMA DueFromIs ==
    ASSUME BillConstants, NEW t \in Bill!Dates, t[1] < Len(Lengths), NEW due \in 1 .. 31
    PROVE  /\ DueFrom(t, due) \in Bill!Dates
           /\ Bill!Falls(DueFrom(t, due), due) /\ ~ Bill!Before(DueFrom(t, due), t)
           /\ \A d \in Bill!Dates : Bill!Falls(d, due) /\ ~ Bill!Before(d, t)
                                       => ~ Bill!Before(d, DueFrom(t, due))
<1> DEFINE m == t[1]
           x == Bill!DueIn(m, due)
           y == Bill!DueIn(m + 1, due)
           next == DueFrom(t, due)
<1>1. /\ m \in 1 .. Len(Lengths) /\ m + 1 \in 1 .. Len(Lengths)
      /\ t[2] \in 1 .. 31 /\ t[2] <= Lengths[m]
      /\ Lengths[m] \in 28 .. 31 /\ Lengths[m + 1] \in 28 .. 31
  BY DatesAre, LengthsAre
<1>2. /\ x = IF due <= Lengths[m] THEN due ELSE Lengths[m]
      /\ y = IF due <= Lengths[m + 1] THEN due ELSE Lengths[m + 1]
  BY <1>1, DueInIs
<1>3. next = IF x < t[2] THEN <<m + 1, y>> ELSE <<m, x>>
  BY DEF DueFrom
<1>4. ASSUME NEW d \in Bill!Dates, Bill!Falls(d, due)
      PROVE  /\ d[1] \in Nat /\ d[2] \in Nat
             /\ d[1] = m => d[2] = x
             /\ d[1] = m + 1 => d[2] = y
  <2>1. /\ d[1] \in 1 .. Len(Lengths) /\ d[2] \in 1 .. 31 /\ d[2] <= Lengths[d[1]]
        /\ Lengths[d[1]] \in 28 .. 31
    BY DatesAre
  <2>2. d[2] = due \/ (d[2] < due /\ d[2] = Lengths[d[1]])
    BY <1>4 DEF Bill!Falls
  <2>3. d[2] = IF due <= Lengths[d[1]] THEN due ELSE Lengths[d[1]]
    BY <2>1, <2>2
  <2>4. d[1] = m => d[2] = x
    BY <1>2, <2>3
  <2>5. d[1] = m + 1 => d[2] = y
    BY <1>2, <2>3
  <2> QED
    BY <2>4, <2>5, DatesAre
<1>5. /\ x \in Nat \ {0} /\ x <= Lengths[m]
      /\ y \in Nat \ {0} /\ y <= Lengths[m + 1]
  BY <1>1, <1>2
<1>6. <<m, x>> \in Bill!Dates /\ <<m + 1, y>> \in Bill!Dates
  BY <1>1, <1>5, MakesDate
<1>7. next \in Bill!Dates
  BY <1>3, <1>6
<1>8. Bill!Falls(<<m, x>>, due) /\ Bill!Falls(<<m + 1, y>>, due)
  BY <1>1, <1>2 DEF Bill!Falls
<1> HIDE DEF m, x, y, next
<1>9. Bill!Falls(next, due)
  BY <1>3, <1>8
<1>10. ~ Bill!Before(next, t)
  BY <1>1, <1>3, <1>5 DEF Bill!Before, m
<1>11. \A d \in Bill!Dates : Bill!Falls(d, due) /\ ~ Bill!Before(d, t)
                                => ~ Bill!Before(d, next)
  BY <1>1, <1>3, <1>4, <1>5 DEF Bill!Before, m
<1> QED
  BY <1>7, <1>9, <1>10, <1>11 DEF next

\* Where it is not over the next day, it is the same from there.
LEMMA DueStands ==
    ASSUME BillConstants, NEW t \in Bill!Dates, t[1] < Len(Lengths), NEW due \in 1 .. 31,
           NEW u, u = (IF t[2] < Lengths[t[1]] THEN <<t[1], t[2] + 1>> ELSE <<t[1] + 1, 1>>),
           ~ Bill!Before(DueFrom(t, due), u)
    PROVE  DueFrom(u, due) = DueFrom(t, due)
<1> DEFINE m == t[1]
           x == Bill!DueIn(m, due)
           y == Bill!DueIn(m + 1, due)
           next == DueFrom(t, due)
<1>1. /\ m \in 1 .. Len(Lengths) /\ m + 1 \in 1 .. Len(Lengths)
      /\ t[2] \in 1 .. 31 /\ t[2] <= Lengths[m]
      /\ Lengths[m] \in 28 .. 31 /\ Lengths[m + 1] \in 28 .. 31
  BY DatesAre, LengthsAre
<1>2. /\ x = IF due <= Lengths[m] THEN due ELSE Lengths[m]
      /\ y = IF due <= Lengths[m + 1] THEN due ELSE Lengths[m + 1]
  BY <1>1, DueInIs
<1>3. x \in Nat \ {0} /\ x <= Lengths[m] /\ y \in Nat \ {0}
  BY <1>1, <1>2
<1>4. next = IF x < t[2] THEN <<m + 1, y>> ELSE <<m, x>>
  BY DEF DueFrom
<1>5. m \in Nat /\ t[2] \in Nat
  BY DatesAre
<1>6. ~ Bill!Before(next, u)
  OBVIOUS
<1>7. x < t[2] \/ (next[1] = m /\ next[2] = x)
  <2> HIDE DEF x, y, m
  <2> QED
    BY <1>3, <1>4, <1>5
<1> HIDE DEF next
<1>8. CASE t[2] < Lengths[m]
  <2>1. u = <<m, t[2] + 1>>
    BY <1>8
  <2>2. u[1] = m /\ u[2] = t[2] + 1
    BY <2>1
  <2>3. DueFrom(u, due) = IF x < u[2] THEN <<m + 1, y>> ELSE <<m, x>>
    BY <2>2 DEF DueFrom
  <2>4. x < t[2] <=> x < u[2]
    <3> HIDE DEF x, m
    <3> QED
      BY <1>3, <1>5, <1>6, <1>7, <2>2 DEF Bill!Before
  <2> HIDE DEF x, y, m
  <2>5. DueFrom(u, due) = next
    BY <1>4, <2>3, <2>4
  <2> QED
    BY <2>5 DEF next
<1>9. CASE ~ t[2] < Lengths[m]
  <2>1. u = <<m + 1, 1>>
    BY <1>9
  <2>2. u[1] = m + 1 /\ u[2] = 1
    BY <2>1
  <2>3. DueFrom(u, due) = <<m + 1, y>>
    <3>1. ~ y < u[2]
      BY <1>3, <2>2
    <3> QED
      BY <2>2, <3>1 DEF DueFrom
  <2>4. x < t[2]
    <3> HIDE DEF x, m
    <3> QED
      BY <1>3, <1>5, <1>6, <1>7, <2>2 DEF Bill!Before
  <2>5. DueFrom(u, due) = next
    BY <1>4, <2>3, <2>4
  <2> QED
    BY <2>5 DEF next
<1> QED
  BY <1>8, <1>9

LEMMA OneMore == ASSUME NEW a \in Nat, NEW b \in Nat, a < b
                 PROVE  a + 1 \in Nat \ {0} /\ a + 1 <= b
  OBVIOUS

LEMMA NextDueIs == ASSUME NEW due PROVE Bill!nextBillDueDate(due) = DueFrom(today, due)
  BY DEF Bill!nextBillDueDate, Bill!Passed, DueFrom

LEMMA NextDueIsPrimed ==
    ASSUME NEW due PROVE Bill!nextBillDueDate(due)' = DueFrom(today', due)
  BY DEF Bill!nextBillDueDate, Bill!Passed, Bill!DueIn, DueFrom

LEMMA BillsDue == ASSUME BillConstants, NEW b \in Recordable
                  PROVE  b.due \in 1 .. 31 /\ b.amount \in Nat \ {0}
  BY DEF BillConstants, Bill!BillTimingConstants

LEMMA BillInit == BillConstants /\ Bill!Init => BillTyped
<1> SUFFICES ASSUME BillConstants, Bill!Init
             PROVE  BillTyped
  OBVIOUS
<1>1. today = <<1, 1>> /\ bills = {} /\ available \in Nat
  BY DEF Bill!Init, BillConstants, Bill!BillTimingConstants
<1>2. 1 \in 1 .. Len(Lengths) /\ 1 < Len(Lengths) /\ 1 <= Lengths[1]
  BY LengthsAre
<1>3. <<1, 1>> \in Bill!Dates
  BY <1>2, MakesDate
<1> QED
  BY <1>1, <1>2, <1>3, FS_EmptySet DEF BillTyped

\* The day after today, or the first of the next month.
LEMMA NextDayIs ==
    ASSUME Bill!NextDay
    PROVE  /\ today' = IF today[2] < Lengths[today[1]] THEN <<today[1], today[2] + 1>>
                       ELSE <<today[1] + 1, 1>>
           /\ today[2] < Lengths[today[1]] \/ today[1] + 1 < Len(Lengths)
           /\ available' \in 0 .. MaxAvailable /\ bills' = bills
  BY DEF Bill!NextDay

LEMMA BillStep == BillConstants /\ BillTyped /\ [Bill!Next]_(Bill!vars) => BillTyped'
<1> SUFFICES ASSUME BillConstants, BillTyped, [Bill!Next]_(Bill!vars)
             PROVE  BillTyped'
  OBVIOUS
<1>1. CASE Bill!NextDay
  <2>1. /\ today[1] \in 1 .. Len(Lengths) /\ today[2] \in 1 .. 31
        /\ Lengths[today[1]] \in 28 .. 31 /\ today[1] < Len(Lengths)
    BY DatesAre DEF BillTyped
  <2>2. available' \in Nat
    BY <1>1, NextDayIs DEF BillConstants, Bill!BillTimingConstants
  <2>3. today' \in Bill!Dates /\ today'[1] < Len(Lengths)
    <3>1. CASE today[2] < Lengths[today[1]]
      <4>1. today' = <<today[1], today[2] + 1>>
        BY <1>1, <3>1, NextDayIs
      <4>2. today[2] + 1 \in Nat \ {0} /\ today[2] + 1 <= Lengths[today[1]]
        <5>1. today[2] \in Nat /\ Lengths[today[1]] \in Nat
          BY DatesAre DEF BillTyped
        <5> QED
          BY <3>1, <5>1, OneMore
      <4>3. <<today[1], today[2] + 1>> \in Bill!Dates
        BY <2>1, <4>2, MakesDate
      <4> QED
        BY <2>1, <4>1, <4>3
    <3>2. CASE ~ today[2] < Lengths[today[1]]
      <4>1. today' = <<today[1] + 1, 1>> /\ today[1] + 1 < Len(Lengths)
        BY <1>1, <3>2, NextDayIs
      <4>2. today[1] + 1 \in 1 .. Len(Lengths) /\ 1 <= Lengths[today[1] + 1]
        BY <2>1, LengthsAre
      <4>3. <<today[1] + 1, 1>> \in Bill!Dates
        BY <4>2, MakesDate
      <4> QED
        BY <4>1, <4>3
    <3> QED
      BY <3>1, <3>2
  <2>4. Bill!Dates' = Bill!Dates
    BY DEF Bill!Dates
  <2> QED
    BY <1>1, <2>2, <2>3, <2>4, NextDayIs DEF BillTyped
<1>2. CASE \E b \in Recordable : Bill!AddBill(b)
  BY <1>2, FS_AddElement DEF BillTyped, Bill!AddBill, Bill!Dates
<1>3. CASE \E b \in Recordable : Bill!RemoveBill(b)
  BY <1>3, FS_RemoveElement DEF BillTyped, Bill!RemoveBill, Bill!Dates
<1>4. CASE UNCHANGED Bill!vars
  BY <1>4 DEF BillTyped, Bill!vars, Bill!Dates
<1> QED
  BY <1>1, <1>2, <1>3, <1>4 DEF Bill!Next

THEOREM BillInvariant == ASSUME BillConstants PROVE Bill!Spec => []BillTyped
<1>1. Bill!Init => BillTyped
  BY BillInit
<1>2. BillTyped /\ [Bill!Next]_(Bill!vars) => BillTyped'
  BY BillStep
<1> QED
  BY <1>1, <1>2, PTL DEF Bill!Spec

\* Due dates are the next ones (nextBillDueDate).
THEOREM DueAlwaysNext == ASSUME BillConstants PROVE Bill!Spec => []Bill!DueIsNext
<1>1. BillTyped => Bill!DueIsNext
  <2> SUFFICES ASSUME BillTyped, NEW b \in bills
               PROVE  LET due == Bill!nextBillDueDate(b.due) IN
                      /\ Bill!Falls(due, b.due) /\ ~ Bill!Before(due, today)
                      /\ \A d \in Bill!Dates :
                            Bill!Falls(d, b.due) /\ ~ Bill!Before(d, today)
                                => ~ Bill!Before(d, due)
    BY DEF Bill!DueIsNext
  <2>1. b.due \in 1 .. 31 /\ today \in Bill!Dates /\ today[1] < Len(Lengths)
    BY BillsDue DEF BillTyped
  <2>2. Bill!nextBillDueDate(b.due) = DueFrom(today, b.due)
    BY NextDueIs
  <2> QED
    BY <2>1, <2>2, DueFromIs
<1> QED
  BY <1>1, BillInvariant, PTL

\* A due date stands until it is over (nextBillDueDate, GetBillTimingPlan).
THEOREM DateAlwaysStands == ASSUME BillConstants PROVE Bill!Spec => Bill!DateStands
<1>1. BillTyped /\ [Bill!Next]_(Bill!vars) => Bill!Stands
  <2> SUFFICES ASSUME BillTyped, [Bill!Next]_(Bill!vars), NEW b \in bills \cap bills',
                      ~ Bill!Before(Bill!nextBillDueDate(b.due), today')
               PROVE  /\ Bill!nextBillDueDate(b.due)' = Bill!nextBillDueDate(b.due)
                      /\ today'[1] = today[1] => Bill!Mismatched(b)' = Bill!Mismatched(b)
    BY DEF Bill!Stands
  <2>1. b.due \in 1 .. 31 /\ today \in Bill!Dates /\ today[1] < Len(Lengths)
    BY BillsDue DEF BillTyped
  <2>2. ~ Bill!Before(DueFrom(today, b.due), today')
    BY NextDueIs
  <2>3. DueFrom(today', b.due) = DueFrom(today, b.due)
    <3>1. CASE Bill!NextDay
      BY <2>1, <2>2, <3>1, NextDayIs, DueStands
    <3>2. CASE today' = today
      BY <3>2
    <3> QED
      BY <3>1, <3>2 DEF Bill!Next, Bill!AddBill, Bill!RemoveBill, Bill!vars
  <2>4. Bill!nextBillDueDate(b.due)' = Bill!nextBillDueDate(b.due)
    BY <2>3, NextDueIs, NextDueIsPrimed
  <2>5. ASSUME today'[1] = today[1]
        PROVE  Bill!Mismatched(b)' = Bill!Mismatched(b)
    <3>1. Bill!NextPayday' = Bill!NextPayday
      BY <2>5 DEF Bill!NextPayday
    <3> QED
      BY <2>4, <3>1 DEF Bill!Mismatched, Bill!Before
  <2> QED
    BY <2>4, <2>5
<1>2. BillTyped /\ [Bill!Next]_(Bill!vars) => [Bill!Stands]_(Bill!vars)
  BY <1>1
<1> QED
  BY <1>2, BillInvariant, PTL DEF Bill!Spec, Bill!DateStands

Plans == [coverable : SUBSET bills, left : Int]

\* What the bills take.
Takes == [b \in Recordable |-> b.amount]

CoverOver(order, h) ==
    h = [s \in SUBSET DOMAIN order |->
            IF s = {} THEN [coverable |-> {}, left |-> available]
            ELSE Bill!Cover(order[Max(s)], h[s \ {Max(s)}])]

LEMMA TwoFields ==
    ASSUME NEW V, NEW W, NEW p \in [coverable : V, left : W], NEW x \in V, NEW y \in W
    PROVE  [p EXCEPT !.coverable = x, !.left = y] \in [coverable : V, left : W]
<1> DEFINE q == [p EXCEPT !.coverable = x]
<1>1. q \in [coverable : V, left : W]
  OBVIOUS
<1>2. [q EXCEPT !.left = y] \in [coverable : V, left : W]
  <2> HIDE DEF q
  <2> QED
    BY <1>1
<1> QED
  BY <1>2

LEMMA CoverTyped ==
    ASSUME BillConstants, BillTyped, NEW b \in bills, NEW plan \in Plans
    PROVE  Bill!Cover(b, plan) \in Plans
<1>1. b.amount \in Int
  BY BillsDue DEF BillTyped
<1>2. plan.coverable \in SUBSET bills /\ plan.left \in Int
  BY DEF Plans
<1> DEFINE C == plan.coverable \cup {b}
           rest == plan.left - b.amount
           after == [plan EXCEPT !.coverable = C, !.left = rest]
<1>3. C \in SUBSET bills /\ rest \in Int
  BY <1>1, <1>2
<1>4. Bill!Cover(b, plan) = after \/ Bill!Cover(b, plan) = plan
  BY DEF Bill!Cover
<1>5. after \in Plans
  <2> HIDE DEF C, rest
  <2> QED
    BY <1>3, TwoFields DEF Plans
<1> QED
  BY <1>4, <1>5

LEMMA CoverExists ==
    ASSUME BillConstants, BillTyped, NEW n \in Nat, NEW order \in [1 .. n -> bills]
    PROVE  \E h : CoverOver(order, h)
<1> DEFINE base == [coverable |-> {}, left |-> available]
           F == [i \in 1 .. n |-> [v \in Plans |-> Bill!Cover(order[i], v)]]
<1>1. base \in Plans
  BY DEF BillTyped, Plans
<1>2. \A v \in Plans, b \in bills : Bill!Cover(b, v) \in Plans
  BY CoverTyped
<1>3. \A i \in 1 .. n, v \in Plans :
         F[i][v] = Bill!Cover(order[i], v) /\ F[i][v] \in Plans
  BY <1>2
<1> HIDE DEF F, base
<1>4. PICK g : /\ FoldsOver(F, base, SUBSET (1 .. n), g)
               /\ \A s \in SUBSET (1 .. n) : g[s] \in Plans
  <2>1. \A i \in 1 .. n, v \in Plans : F[i][v] \in Plans
    BY <1>3, Zenon
  <2> QED
    BY <1>1, <2>1, FoldExists, Zenon
<1>5. \A s \in SUBSET (1 .. n) :
         s # {} => /\ Max(s) \in 1 .. n /\ s \ {Max(s)} \in SUBSET (1 .. n)
                   /\ F[Max(s)][g[s \ {Max(s)}]]
                        = Bill!Cover(order[Max(s)], g[s \ {Max(s)}])
  BY <1>3, <1>4, MaxIn
<1>6. DOMAIN order = 1 .. n
  OBVIOUS
<1>7. CoverOver(order, g)
  BY <1>4, <1>5, <1>6 DEF CoverOver, FoldsOver, base
<1> QED
  BY <1>7, Zenon

\* What the loop has covered among the bills of T, and what it has left.
Covers(T, plan) ==
    /\ plan \in Plans /\ plan.coverable \subseteq T
    /\ plan.left \in Nat /\ SumOf(Takes, plan.coverable) + plan.left = available
    /\ \A b \in T \ plan.coverable : Bill!Mismatched(b) => b.amount > plan.left

LEMMA CoversOne ==
    ASSUME BillConstants, BillTyped, NEW T \in SUBSET bills, NEW b \in bills \ T, NEW plan,
           Covers(T, plan)
    PROVE  Covers(T \cup {b}, Bill!Cover(b, plan))
<1>1. \A a \in bills : a.amount \in Nat \ {0} /\ Takes[a] = a.amount
  BY BillsDue DEF BillTyped, Takes
<1>2. plan \in Plans /\ plan.left \in Nat /\ plan.coverable \in SUBSET T
  BY DEF Covers
<1>3. Bill!Cover(b, plan) \in Plans
  BY <1>2, CoverTyped
<1>4. CASE Bill!Mismatched(b) /\ b.amount <= plan.left
  <2> DEFINE C == plan.coverable
             after == Bill!Cover(b, plan)
  <2>1. after.coverable = C \cup {b} /\ after.left = plan.left - b.amount
    BY <1>2, <1>4 DEF Bill!Cover, Plans
  <2>2. IsFiniteSet(C) /\ Whole(Takes, C \cup {b}) /\ b \notin C
    BY <1>1, <1>2, FS_Subset DEF BillTyped, Whole
  <2>3. SumOf(Takes, C \cup {b}) = Takes[b] + SumOf(Takes, C)
    BY <2>2, SumAdd
  <2>4. SumOf(Takes, C) \in Int
    BY <2>2, SumType DEF Whole
  <2>5. SumOf(Takes, C) + plan.left = available
    BY DEF Covers
  <2> HIDE DEF C, after
  <2>6. after.left \in Nat /\ after.left <= plan.left
    BY <1>1, <1>2, <1>4, <2>1
  <2>7. SumOf(Takes, after.coverable) + after.left = available
    BY <1>1, <1>2, <2>1, <2>3, <2>4, <2>5
  <2>8. \A a \in (T \cup {b}) \ after.coverable : Bill!Mismatched(a) => a.amount > after.left
    <3>1. \A a \in T \ C : Bill!Mismatched(a) => a.amount > plan.left
      BY DEF Covers, C
    <3>2. \A a \in (T \cup {b}) \ after.coverable : a \in T \ C /\ a \in bills
      BY <2>1
    <3> QED
      BY <1>1, <1>2, <2>6, <3>1, <3>2
  <2>9. after.coverable \subseteq T \cup {b}
    BY <1>2, <2>1 DEF C
  <2>10. Covers(T \cup {b}, after)
    BY <1>3, <2>6, <2>7, <2>8, <2>9 DEF Covers, after
  <2> QED
    BY <2>10 DEF after
<1>5. CASE ~ (Bill!Mismatched(b) /\ b.amount <= plan.left)
  <2>1. Bill!Cover(b, plan) = plan
    BY <1>5 DEF Bill!Cover
  <2>2. Bill!Mismatched(b) => b.amount > plan.left
    BY <1>1, <1>2, <1>5
  <2> QED
    BY <2>1, <2>2 DEF Covers
<1> QED
  BY <1>4, <1>5

\* Whatever the order, the loop covers what fits.
LEMMA LoopCovers ==
    ASSUME BillConstants, BillTyped, NEW n \in Nat, NEW order \in [1 .. n -> bills],
           \A i, j \in 1 .. n : i # j => order[i] # order[j], NEW c, CoverOver(order, c)
    PROVE  Covers(Taken(order, n), c[1 .. n])
<1> DEFINE base == [coverable |-> {}, left |-> available]
<1>1. /\ c[{}] = base
      /\ \A s \in SUBSET (1 .. n) : s # {} =>
            c[s] = Bill!Cover(order[Max(s)], c[s \ {Max(s)}])
  <2>1. DOMAIN order = 1 .. n
    OBVIOUS
  <2> QED
    BY <2>1 DEF CoverOver
<1>2. \A k \in 1 .. n : c[1 .. k] = Bill!Cover(order[k], c[1 .. k - 1])
  <2> TAKE k \in 1 .. n
  <2>1. k \in Nat \ {0} /\ 1 .. k \in SUBSET (1 .. n) /\ 1 .. k # {}
    <3>1. k \in Nat /\ 1 <= k /\ k <= n
      OBVIOUS
    <3>2. 1 .. k \subseteq 1 .. n /\ 1 \in 1 .. k
      BY <3>1
    <3>3. k \in Nat \ {0}
      BY <3>1
    <3> QED
      BY <3>2, <3>3, Zenon
  <2> QED
    BY <1>1, <2>1, MaxUpTo
<1> DEFINE Good(k) == Covers(Taken(order, k), c[1 .. k])
           bad == {k \in 0 .. n : ~ Good(k)}
<1>3. bad = {}
  <2> SUFFICES ASSUME bad # {}
               PROVE  FALSE
    OBVIOUS
  <2>1. PICK k \in bad : \A j \in bad : k <= j
    <3> bad \in SUBSET Nat
      OBVIOUS
    <3> HIDE DEF bad
    <3> QED
      BY LeastNat
  <2>2. k \in 0 .. n /\ ~ Good(k)
    OBVIOUS
  <2>3. k # 0
    <3>1. 1 .. 0 = {} /\ Taken(order, 0) = {}
      BY DEF Taken
    <3>2. c[1 .. 0] = base
      BY <1>1, <3>1
    <3>3. Covers({}, base)
      BY SumEmpty DEF Covers, Plans, BillTyped
    <3>4. Good(0)
      BY <3>1, <3>2, <3>3
    <3> QED
      BY <2>2, <3>4
  <2>4. k \in 1 .. n /\ k - 1 \in 0 .. n /\ Good(k - 1)
    <3>1. k \in 1 .. n /\ k - 1 \in 0 .. n /\ ~ k <= k - 1
      BY <2>2, <2>3
    <3> QED
      BY <2>1, <3>1
  <2>5. Taken(order, k) = Taken(order, k - 1) \cup {order[k]}
    <3>1. 1 .. k = (1 .. k - 1) \cup {k}
      BY <2>4
    <3> QED
      BY <3>1 DEF Taken
  <2>6. order[k] \in bills \ Taken(order, k - 1) /\ Taken(order, k - 1) \in SUBSET bills
    <3>1. \A i \in 1 .. k - 1 : i \in 1 .. n /\ i # k
      BY <2>4
    <3> QED
      BY <2>4, <3>1 DEF Taken
  <2>7. c[1 .. k] = Bill!Cover(order[k], c[1 .. k - 1])
    BY <1>2, <2>4
  <2>8. Covers(Taken(order, k - 1) \cup {order[k]}, Bill!Cover(order[k], c[1 .. k - 1]))
    BY <2>4, <2>6, CoversOne
  <2> QED
    BY <2>2, <2>5, <2>7, <2>8
<1>4. Good(n)
  <2>1. n \in 0 .. n
    OBVIOUS
  <2> HIDE DEF Good
  <2> QED
    BY <1>3, <2>1
<1> QED
  BY <1>4

\* What the bills of a set amount to.
LEMMA TakesAre ==
    ASSUME BillConstants, BillTyped, NEW S \in SUBSET bills
    PROVE  Bill!MapThenSumSet(LAMBDA b : b.amount, S) = SumOf(Takes, S)
<1> DEFINE H(h) == h = [s \in SUBSET S |->
                          IF s = {} THEN 0 ELSE Pick(s).amount + h[s \ {Pick(s)}]]
           c == CHOOSE h : H(h)
<1>1. Bill!MapThenSumSet(LAMBDA b : b.amount, S) = c[S]
  BY DEF Bill!MapThenSumSet, Bill!MapThenFoldSet, Pick
<1>2. \A s \in SUBSET S : s # {} => Takes[Pick(s)] = Pick(s).amount
  <2>1. \A b \in S : Takes[b] = b.amount
    BY DEF Takes, BillTyped
  <2> QED
    BY <2>1, PickIn
<1>3. \A h : H(h) <=> AddsOver(Takes, SUBSET S, h)
  BY <1>2 DEF AddsOver
<1>4. IsFiniteSet(S)
  BY FS_Subset DEF BillTyped
<1> HIDE DEF H
<1>5. \E h : H(h)
  BY <1>3, <1>4, SolutionExists
<1>6. H(c)
  BY <1>5, Zenon
<1> HIDE DEF c
<1>7. c[S] = SumOf(Takes, S)
  BY <1>3, <1>4, <1>6, SumIs
<1> QED
  BY <1>1, <1>7

\* The plan shown to a worker covers what fits.
LEMMA PlanCovers ==
    ASSUME BillConstants, BillTyped, NEW order \in Bill!SetToSeqs(bills)
    PROVE  Covers(bills, Bill!Plan(order))
<1> DEFINE n == Cardinality(bills)
           c == CHOOSE h : CoverOver(order, h)
<1>1. IsFiniteSet(bills) /\ n \in Nat /\ Bill!Cardinality(bills) = n
  BY FS_CardinalityType DEF BillTyped, Bill!Cardinality, Cardinality, Bill!IsFiniteSet,
                            IsFiniteSet
<1>2. /\ order \in [1 .. n -> bills]
      /\ \A i, j \in 1 .. n : i # j => order[i] # order[j]
      /\ DOMAIN order = 1 .. n
  BY <1>1 DEF Bill!SetToSeqs
<1>3. Taken(order, n) = bills
  <2> DEFINE D == 1 .. n
  <2>1. Cardinality(D) = n
    BY <1>1, FS_Interval
  <2> HIDE DEF n
  <2>2. order \in Injection(D, bills)
    BY <1>2 DEF Injection, IsInjective
  <2>3. order \in Surjection(D, bills)
    BY <1>1, <2>1, <2>2, FS_Injection DEF n
  <2> QED
    BY <1>2, <2>3 DEF Surjection, Taken
<1>4. Bill!Plan(order) = c[DOMAIN order]
  BY DEF Bill!Plan, Bill!FoldLeft, Bill!MapThenFoldSet, CoverOver, Bill!Max, Max
<1>5. CoverOver(order, c)
  <2>1. \E h : CoverOver(order, h)
    BY <1>1, <1>2, CoverExists
  <2> QED
    BY <2>1, Zenon
<1> HIDE DEF c, n
<1>6. Covers(Taken(order, n), c[1 .. n])
  BY <1>1, <1>2, <1>5, LoopCovers
<1> QED
  BY <1>2, <1>3, <1>4, <1>6

\* The coverable bills fit together, and no other would (GetBillTimingPlan).
THEOREM PlanAlwaysFits == ASSUME BillConstants PROVE Bill!Spec => []Bill!PlanFits
<1>1. BillTyped => Bill!PlanFits
  <2> SUFFICES ASSUME BillTyped, NEW s \in Bill!Orders
               PROVE  LET plan == Bill!Plan(s) IN
                      /\ Bill!MapThenSumSet(LAMBDA b : b.amount, plan.coverable) + plan.left
                           = available
                      /\ plan.left >= 0
                      /\ \A b \in bills \ plan.coverable :
                            Bill!Mismatched(b) => b.amount > plan.left
    BY DEF Bill!PlanFits
  <2> DEFINE plan == Bill!Plan(s)
  <2>1. s \in Bill!SetToSeqs(bills)
    BY DEF Bill!Orders
  <2>2. Covers(bills, plan)
    BY <2>1, PlanCovers
  <2> HIDE DEF plan
  <2>3. plan.coverable \in SUBSET bills /\ plan.left >= 0
    BY <2>2 DEF Covers
  <2>4. Bill!MapThenSumSet(LAMBDA b : b.amount, plan.coverable) = SumOf(Takes, plan.coverable)
    BY <2>3, TakesAre
  <2>5. SumOf(Takes, plan.coverable) + plan.left = available
    BY <2>2 DEF Covers
  <2>6. \A b \in bills \ plan.coverable : Bill!Mismatched(b) => b.amount > plan.left
    BY <2>2 DEF Covers
  <2> QED
    BY <2>3, <2>4, <2>5, <2>6 DEF plan
<1> QED
  BY <1>1, BillInvariant, PTL

-----------------------------------------------------------------------------
(* Dependency scores.                                                       *)

HabitConstants == Habit!DependencyConstants

LEMMA DivInOrder ==
    ASSUME NEW d \in Nat \ {0}, NEW a \in Nat, NEW b \in Nat, a <= b
    PROVE  a \div d \in Nat /\ a \div d <= b \div d
<1> DEFINE p == a \div d
           s == a % d
           q == b \div d
           r == b % d
<1>1. /\ p \in Nat /\ s \in 0 .. d - 1 /\ a = d * p + s
      /\ q \in Nat /\ r \in 0 .. d - 1 /\ b = d * q + r
  OBVIOUS
<1>2. p >= q + 1 => d * (p - q) >= d
  BY <1>1
<1> QED
  BY <1>1, <1>2

\* A scale gives no more than its most, and more for more.
LEMMA ScaleInOrder ==
    ASSUME NEW den \in Nat \ {0}, NEW low \in Nat, NEW high \in Nat, low < high,
           NEW max \in Nat, NEW m \in Int, NEW n \in Int, m <= n
    PROVE  /\ Habit!scaleScore(m, den, low, high, max) \in 0 .. max
           /\ Habit!scaleScore(n, den, low, high, max) \in 0 .. max
           /\ Habit!scaleScore(m, den, low, high, max)
                <= Habit!scaleScore(n, den, low, high, max)
<1> DEFINE L == low * den
           H == high * den
           D == (high - low) * den
           At(x) == IF 100 * x <= L THEN 0
                    ELSE IF 100 * x >= H THEN max
                    ELSE (max * (100 * x - L)) \div D
<1>1. L \in Nat /\ H \in Nat /\ D \in Nat \ {0} /\ H = L + D
  <2>1. high - low \in Nat \ {0}
    OBVIOUS
  <2> QED
    BY <2>1
<1>2. /\ Habit!scaleScore(m, den, low, high, max) = At(m)
      /\ Habit!scaleScore(n, den, low, high, max) = At(n)
  BY DEF Habit!scaleScore
<1> HIDE DEF L, H, D
<1>3. ASSUME NEW x \in Int, L < 100 * x, 100 * x < H
      PROVE  /\ 100 * x - L \in Nat
             /\ (max * (100 * x - L)) \div D \in 0 .. max
  <2> DEFINE a == 100 * x - L
  <2>1. a \in Nat /\ a <= D
    BY <1>1, <1>3
  <2> HIDE DEF a
  <2>2. max * a \in Nat /\ max * D \in Nat /\ max * a <= max * D
    <3>1. max * (D - a) >= 0
      BY <1>1, <2>1
    <3> QED
      BY <1>1, <2>1, <3>1
  <2>3. (max * D) \div D = max
    <3>1. max * D = D * max + 0 /\ 0 \in 0 .. D - 1
      BY <1>1
    <3> QED
      BY <1>1, <3>1, QuoIs
  <2>4. (max * a) \div D \in Nat /\ (max * a) \div D <= (max * D) \div D
    BY <1>1, <2>2, DivInOrder
  <2> QED
    BY <2>1, <2>3, <2>4 DEF a
<1>4. ASSUME NEW x \in Int
      PROVE  At(x) \in 0 .. max
  BY <1>1, <1>3
<1>5. CASE L < 100 * m /\ 100 * n < H
  <2> DEFINE a == 100 * m - L
             b == 100 * n - L
  <2>1. a \in Nat /\ b \in Nat /\ a <= b
    BY <1>1, <1>5
  <2>2. At(m) = (max * a) \div D /\ At(n) = (max * b) \div D
    BY <1>1, <1>5
  <2> HIDE DEF a, b
  <2>3. max * a \in Nat /\ max * b \in Nat /\ max * a <= max * b
    <3>1. max * (b - a) >= 0
      BY <2>1
    <3> QED
      BY <2>1, <3>1
  <2>4. At(m) <= At(n)
    <3>1. (max * a) \div D <= (max * b) \div D
      BY <1>1, <2>3, DivInOrder
    <3> HIDE DEF At
    <3> QED
      BY <2>2, <3>1
  <2> HIDE DEF At
  <2> QED
    BY <1>2, <1>4, <2>4
<1>6. CASE ~ (L < 100 * m /\ 100 * n < H)
  <2>1. At(m) = 0 \/ At(n) = max
    BY <1>1, <1>6
  <2>2. At(m) \in 0 .. max /\ At(n) \in 0 .. max
    BY <1>4
  <2> HIDE DEF At
  <2> QED
    BY <1>2, <2>1, <2>2
<1> QED
  BY <1>5, <1>6

\* The sub-scores, of n draws of a share s of the salary, r of them in the last month and
\* p in the month before, x of them soon after payday.
Often(n) == Habit!scaleScore(n, 3, 300, 800, 20)
Much(s, n) == Habit!scaleScore(s * n, 300, 20, 50, 35)
Full(s, n) == Often(n) >= 20 /\ Much(s, n) >= 35
Rising(s, n, r, p) ==
    IF Full(s, n) THEN 30
    ELSE IF p > 0 /\ r > p THEN Habit!scaleScore(r - p, p, 30, 100, 30)
    ELSE IF p = 0 /\ r >= 3 THEN 15
    ELSE 0
Soon(x) == Habit!scaleScore(x, 1, 100, 300, 15)
ScoreOf(s, n, r, p, x) == Often(n) + Much(s, n) + Rising(s, n, r, p) + Soon(x)

\* What is left of a score once nothing is recent.
Settled(s, n) == Often(n) + Much(s, n) + (IF Full(s, n) THEN 30 ELSE 0)

LEMMA OftenIs == ASSUME NEW n \in Nat, NEW k \in Nat, n <= k
                 PROVE  Often(n) \in 0 .. 20 /\ Often(k) \in 0 .. 20 /\ Often(n) <= Often(k)
<1> DEFINE den == 3
           low == 300
           high == 800
           max == 20
           At(x) == Habit!scaleScore(x, den, low, high, max)
<1>1. /\ den \in Nat \ {0} /\ low \in Nat /\ high \in Nat /\ low < high /\ max \in Nat
      /\ n \in Int /\ k \in Int
  OBVIOUS
<1>2. At(n) = Often(n) /\ At(k) = Often(k) /\ max = 20
  BY DEF Often
<1> HIDE DEF den, low, high, max
<1>3. At(n) \in 0 .. max /\ At(k) \in 0 .. max /\ At(n) <= At(k)
  BY <1>1, ScaleInOrder
<1> HIDE DEF At
<1> QED
  BY <1>2, <1>3

LEMMA SoonIs == ASSUME NEW n \in Nat, NEW k \in Nat, n <= k
                PROVE  Soon(n) \in 0 .. 15 /\ Soon(k) \in 0 .. 15 /\ Soon(n) <= Soon(k)
<1> DEFINE den == 1
           low == 100
           high == 300
           max == 15
           At(x) == Habit!scaleScore(x, den, low, high, max)
<1>1. /\ den \in Nat \ {0} /\ low \in Nat /\ high \in Nat /\ low < high /\ max \in Nat
      /\ n \in Int /\ k \in Int
  OBVIOUS
<1>2. At(n) = Soon(n) /\ At(k) = Soon(k) /\ max = 15
  BY DEF Soon
<1> HIDE DEF den, low, high, max
<1>3. At(n) \in 0 .. max /\ At(k) \in 0 .. max /\ At(n) <= At(k)
  BY <1>1, ScaleInOrder
<1> HIDE DEF At
<1> QED
  BY <1>2, <1>3

LEMMA MuchIs == ASSUME NEW s \in Nat, NEW n \in Nat, NEW k \in Nat, n <= k
                PROVE  /\ Much(s, n) \in 0 .. 35 /\ Much(s, k) \in 0 .. 35
                       /\ Much(s, n) <= Much(s, k)
<1>1. s * n \in Nat /\ s * k \in Nat /\ s * n <= s * k
  <2>1. s * (k - n) >= 0
    OBVIOUS
  <2> QED
    BY <2>1
<1> DEFINE den == 300
           low == 20
           high == 50
           max == 35
           x == s * n
           y == s * k
           At(z) == Habit!scaleScore(z, den, low, high, max)
<1>2. /\ den \in Nat \ {0} /\ low \in Nat /\ high \in Nat /\ low < high /\ max \in Nat
  OBVIOUS
<1>3. x \in Int /\ y \in Int /\ x <= y
  BY <1>1
<1>4. At(x) = Much(s, n) /\ At(y) = Much(s, k) /\ max = 35
  BY DEF Much
<1> HIDE DEF den, low, high, max, x, y
<1>5. At(x) \in 0 .. max /\ At(y) \in 0 .. max /\ At(x) <= At(y)
  BY <1>2, <1>3, ScaleInOrder
<1> HIDE DEF At
<1> QED
  BY <1>4, <1>5

LEMMA RisingIs ==
    ASSUME NEW s \in Nat, NEW n \in Nat, NEW k \in Nat, n <= k,
           NEW r \in Nat, NEW q \in Nat, r <= q, NEW p \in Nat
    PROVE  /\ Rising(s, n, r, p) \in 0 .. 30 /\ Rising(s, k, q, p) \in 0 .. 30
           /\ Rising(s, n, r, p) <= Rising(s, k, q, p)
           /\ Full(s, n) => Full(s, k)
<1>1. Full(s, n) => Full(s, k)
  <2>1. Often(n) <= Often(k) /\ Often(n) \in 0 .. 20 /\ Often(k) \in 0 .. 20
    BY OftenIs
  <2>2. Much(s, n) <= Much(s, k) /\ Much(s, n) \in 0 .. 35 /\ Much(s, k) \in 0 .. 35
    BY MuchIs
  <2> QED
    BY <2>1, <2>2 DEF Full
<1>2. p > 0 => /\ Habit!scaleScore(r - p, p, 30, 100, 30) \in 0 .. 30
               /\ Habit!scaleScore(q - p, p, 30, 100, 30) \in 0 .. 30
               /\ Habit!scaleScore(r - p, p, 30, 100, 30)
                    <= Habit!scaleScore(q - p, p, 30, 100, 30)
  <2>1. /\ 30 \in Nat /\ 100 \in Nat /\ 30 < 100
        /\ r - p \in Int /\ q - p \in Int /\ r - p <= q - p
        /\ p > 0 => p \in Nat \ {0}
    OBVIOUS
  <2> QED
    BY <2>1, ScaleInOrder, Zenon
<1> QED
  BY <1>1, <1>2 DEF Rising

LEMMA FourInOrder ==
    ASSUME NEW a \in Nat, NEW b \in Nat, NEW c \in Nat, NEW d \in Nat,
           NEW e \in Nat, NEW f \in Nat, NEW g \in Nat, NEW h \in Nat,
           a <= e, b <= f, c <= g, d <= h
    PROVE  a + b + c + d <= e + f + g + h
  OBVIOUS

LEMMA ThreeInOrder ==
    ASSUME NEW a \in Nat, NEW b \in Nat, NEW c \in Nat,
           NEW e \in Nat, NEW f \in Nat, NEW g \in Nat, a <= e, b <= f, c <= g
    PROVE  a + b + c <= e + f + g
  OBVIOUS

\* More draws, sooner, never score less; no score is above 100.
LEMMA ScoreInOrder ==
    ASSUME NEW s \in Nat, NEW n \in Nat, NEW k \in Nat, n <= k,
           NEW r \in Nat, NEW q \in Nat, r <= q, NEW p \in Nat,
           NEW x \in Nat, NEW y \in Nat, x <= y
    PROVE  /\ ScoreOf(s, n, r, p, x) \in 0 .. 100
           /\ ScoreOf(s, n, r, p, x) <= ScoreOf(s, k, q, p, y)
           /\ Settled(s, n) \in 0 .. 100
           /\ Settled(s, n) <= Settled(s, k)
           /\ Settled(s, n) <= ScoreOf(s, n, r, p, x)
<1>1. /\ Often(n) \in 0 .. 20 /\ Often(k) \in 0 .. 20 /\ Often(n) <= Often(k)
      /\ Much(s, n) \in 0 .. 35 /\ Much(s, k) \in 0 .. 35 /\ Much(s, n) <= Much(s, k)
      /\ Soon(x) \in 0 .. 15 /\ Soon(y) \in 0 .. 15 /\ Soon(x) <= Soon(y)
  BY OftenIs, MuchIs, SoonIs
<1>2. /\ Rising(s, n, r, p) \in 0 .. 30 /\ Rising(s, k, q, p) \in 0 .. 30
      /\ Rising(s, n, r, p) <= Rising(s, k, q, p)
      /\ Full(s, n) => Full(s, k)
  BY RisingIs
<1>3. Full(s, n) => Rising(s, n, r, p) = 30
  BY DEF Rising
<1> DEFINE a == IF Full(s, n) THEN 30 ELSE 0
           b == IF Full(s, k) THEN 30 ELSE 0
<1>4. a \in 0 .. 30 /\ a <= b /\ b \in 0 .. 30 /\ a <= Rising(s, n, r, p)
  BY <1>2, <1>3
<1>5. /\ Settled(s, n) = Often(n) + Much(s, n) + a
      /\ Settled(s, k) = Often(k) + Much(s, k) + b
  BY DEF Settled
<1>6. /\ ScoreOf(s, n, r, p, x) = Often(n) + Much(s, n) + Rising(s, n, r, p) + Soon(x)
      /\ ScoreOf(s, k, q, p, y) = Often(k) + Much(s, k) + Rising(s, k, q, p) + Soon(y)
  BY DEF ScoreOf
<1> HIDE DEF a, b
<1>7. ScoreOf(s, n, r, p, x) \in 0 .. 100
  BY <1>1, <1>2, <1>6
<1>8. ScoreOf(s, n, r, p, x) <= ScoreOf(s, k, q, p, y)
  <2>1. /\ Often(n) \in Nat /\ Often(k) \in Nat /\ Much(s, n) \in Nat
        /\ Much(s, k) \in Nat /\ Soon(x) \in Nat /\ Soon(y) \in Nat
        /\ Rising(s, n, r, p) \in Nat /\ Rising(s, k, q, p) \in Nat
    BY <1>1, <1>2
  <2> QED
    BY <1>1, <1>2, <1>6, <2>1, FourInOrder
<1>9. Settled(s, n) \in 0 .. 100
  BY <1>1, <1>4, <1>5
<1>10. Settled(s, n) <= Settled(s, k)
  <2>1. /\ Often(n) \in Nat /\ Often(k) \in Nat /\ Much(s, n) \in Nat
        /\ Much(s, k) \in Nat /\ a \in Nat /\ b \in Nat
    BY <1>1, <1>4
  <2> QED
    BY <1>1, <1>4, <1>5, <2>1, ThreeInOrder
<1>11. Settled(s, n) <= ScoreOf(s, n, r, p, x)
  <2> DEFINE u == Often(n) + Much(s, n)
             v == Rising(s, n, r, p)
             w == Soon(x)
  <2>1. Settled(s, n) = u + a /\ ScoreOf(s, n, r, p, x) = u + v + w
    BY <1>5, <1>6
  <2>2. u \in Nat /\ v \in Nat /\ w \in Nat /\ a \in Nat /\ a <= v
    BY <1>1, <1>2, <1>4
  <2> HIDE DEF u, v, w
  <2> QED
    BY <2>1, <2>2
<1> QED
  BY <1>7, <1>8, <1>9, <1>10, <1>11

-----------------------------------------------------------------------------
(* Habits of drawing.                                                       *)

\* The draws soon after the last payday.
Latest == IF payweek THEN draws[1] ELSE draws[2]

\* A month's draws keep to its limit and its pay, nothing was drawn since the last draw,
\* and what is left of the score once nothing is recent was in the last draw's score.
HabitInv ==
    /\ Habit!TypeOK
    /\ Habit!ThisMonth <= limit /\ Habit!ThisMonth * share <= 100
    /\ \A i \in Habit!Steps : i <= quiet => draws[i] = 0
    /\ Settled(share, Habit!InWindow) <= peak

LEMMA HabitsAre ==
    ASSUME HabitConstants, Habit!TypeOK
    PROVE  /\ limit \in 1 .. 14 /\ share \in 5 .. 100 /\ share \in Nat
           /\ \A i \in 1 .. 6 : draws[i] \in Nat /\ draws[i] <= limit
           /\ payweek \in BOOLEAN /\ quiet \in 0 .. 6 /\ peak \in 0 .. 100
<1>1. limit \in 1 .. 14 /\ share \in {5 * k : k \in 1 .. 20}
  BY DEF HabitConstants, Habit!DependencyConstants, Habit!TypeOK
<1>2. share \in 5 .. 100
  BY <1>1
<1>3. \A i \in 1 .. 6 : draws[i] \in 0 .. limit
  BY DEF Habit!TypeOK, Habit!Steps
<1> QED
  BY <1>1, <1>2, <1>3 DEF Habit!TypeOK, Habit!Steps

LEMMA WindowIs ==
    ASSUME HabitConstants, Habit!TypeOK
    PROVE  /\ Habit!InWindow \in Nat /\ Habit!Recent \in Nat /\ Habit!Prior \in Nat
           /\ Latest \in Nat /\ Habit!ThisMonth \in Nat
           /\ Habit!InWindow = draws[1] + draws[2] + draws[3] + draws[4] + draws[5] + draws[6]
           /\ Habit!Recent = draws[1] + draws[2] /\ Habit!Prior = draws[3] + draws[4]
<1>1. \A i \in 1 .. 6 : draws[i] \in Nat
  BY HabitsAre
<1>2. /\ draws[1] \in Nat /\ draws[2] \in Nat /\ draws[3] \in Nat
      /\ draws[4] \in Nat /\ draws[5] \in Nat /\ draws[6] \in Nat
  BY <1>1
<1> QED
  BY <1>2 DEF Habit!InWindow, Habit!Recent, Habit!Prior, Latest, Habit!ThisMonth

LEMMA ScoreIs ==
    Habit!Score = ScoreOf(share, Habit!InWindow, Habit!Recent, Habit!Prior, Latest)
<1>1. Habit!Frequency = Often(Habit!InWindow)
  BY DEF Habit!Frequency, Often
<1>2. Habit!Utilization = Much(share, Habit!InWindow)
  BY DEF Habit!Utilization, Much
<1>3. Habit!Escalation = Rising(share, Habit!InWindow, Habit!Recent, Habit!Prior)
  BY <1>1, <1>2 DEF Habit!Escalation, Habit!Saturated, Rising, Full
<1>4. Habit!Immediacy = Soon(Latest)
  BY DEF Habit!Immediacy, Soon, Latest
<1> QED
  BY <1>1, <1>2, <1>3, <1>4 DEF Habit!Score, ScoreOf

LEMMA ScoreIsPrimed ==
    Habit!Score' = ScoreOf(share', Habit!InWindow', Habit!Recent', Habit!Prior', Latest')
<1>1. Habit!Frequency' = Often(Habit!InWindow')
  BY DEF Habit!Frequency, Often, Habit!scaleScore
<1>2. Habit!Utilization' = Much(share', Habit!InWindow')
  BY DEF Habit!Utilization, Much, Habit!scaleScore
<1>3. Habit!Escalation' = Rising(share', Habit!InWindow', Habit!Recent', Habit!Prior')
  BY <1>1, <1>2 DEF Habit!Escalation, Habit!Saturated, Rising, Full, Habit!scaleScore
<1>4. Habit!Immediacy' = Soon(Latest')
  BY DEF Habit!Immediacy, Soon, Latest, Habit!scaleScore
<1> QED
  BY <1>1, <1>2, <1>3, <1>4 DEF Habit!Score, ScoreOf

\* A score is within bounds, and what is left of it once nothing is recent is in it.
LEMMA ScoreWithin ==
    ASSUME NEW s \in Nat, NEW n \in Nat, NEW r \in Nat, NEW p \in Nat, NEW x \in Nat
    PROVE  /\ ScoreOf(s, n, r, p, x) \in 0 .. 100
           /\ Settled(s, n) \in 0 .. 100 /\ Settled(s, n) <= ScoreOf(s, n, r, p, x)
<1>1. n <= n /\ r <= r /\ x <= x
  OBVIOUS
<1> QED
  BY <1>1, ScoreInOrder

LEMMA SettledInOrder ==
    ASSUME NEW s \in Nat, NEW n \in Nat, NEW k \in Nat, n <= k
    PROVE  /\ Settled(s, n) <= Settled(s, k)
           /\ Settled(s, n) \in 0 .. 100 /\ Settled(s, k) \in 0 .. 100
<1>1. 0 \in Nat /\ 0 <= 0
  OBVIOUS
<1>2. Settled(s, n) <= Settled(s, k)
  BY <1>1, ScoreInOrder
<1> QED
  BY <1>1, <1>2, ScoreWithin

LEMMA ScoreBounds ==
    ASSUME HabitConstants, Habit!TypeOK
    PROVE  /\ Habit!Score \in 0 .. 100
           /\ Settled(share, Habit!InWindow) <= Habit!Score
           /\ Settled(share, Habit!InWindow) \in 0 .. 100
<1>1. /\ share \in Nat /\ Habit!InWindow \in Nat /\ Habit!Recent \in Nat
      /\ Habit!Prior \in Nat /\ Latest \in Nat
  BY HabitsAre, WindowIs
<1> QED
  BY <1>1, ScoreIs, ScoreWithin

LEMMA HabitInit == HabitConstants /\ Habit!Init => HabitInv
<1> SUFFICES ASSUME HabitConstants, Habit!Init
             PROVE  HabitInv
  OBVIOUS
<1>1. PICK h \in Habits \cup HeavyHabits : limit = h[1] /\ share = h[2]
  BY DEF Habit!Init
<1>2. h \in (1 .. 14) \X {5 * k : k \in 1 .. 20}
  BY DEF HabitConstants, Habit!DependencyConstants
<1>3. <<limit, share>> = h /\ limit \in 1 .. 14
  BY <1>1, <1>2
<1>4. /\ draws = [i \in 1 .. 6 |-> 0] /\ payweek = TRUE /\ quiet = 6 /\ peak = 0
  BY DEF Habit!Init, Habit!Steps
<1>5. Habit!TypeOK
  BY <1>3, <1>4 DEF Habit!TypeOK, Habit!Steps
<1>6. /\ draws[1] = 0 /\ draws[2] = 0 /\ draws[3] = 0
      /\ draws[4] = 0 /\ draws[5] = 0 /\ draws[6] = 0
  BY <1>4
<1>7. Habit!ThisMonth = 0 /\ Habit!InWindow = 0
  BY <1>6 DEF Habit!ThisMonth, Habit!InWindow, Habit!Recent, Habit!Prior
<1>8. Settled(share, 0) = 0
  <2>1. share * 0 = 0
    BY <1>5, HabitsAre
  <2>2. Often(0) = 0 /\ Much(share, 0) = 0
    BY <2>1 DEF Often, Much, Habit!scaleScore
  <2>3. ~ Full(share, 0)
    BY <2>2 DEF Full
  <2> QED
    BY <2>2, <2>3 DEF Settled
<1>9. 0 * share = 0 /\ 0 <= limit
  BY <1>5, HabitsAre
<1> QED
  BY <1>4, <1>5, <1>7, <1>8, <1>9 DEF HabitInv, Habit!Steps

\* A draw leaves no lower a score.
LEMMA HabitDraws ==
    ASSUME HabitConstants, HabitInv, Habit!Draw
    PROVE  HabitInv' /\ Habit!Score' >= Habit!Score
<1>1. Habit!TypeOK
  BY DEF HabitInv
<1> DEFINE d == draws'
<1>2. /\ d[1] = draws[1] + 1 /\ d[2] = draws[2] /\ d[3] = draws[3]
      /\ d[4] = draws[4] /\ d[5] = draws[5] /\ d[6] = draws[6]
      /\ d \in [1 .. 6 -> Int]
      /\ limit' = limit /\ share' = share /\ payweek' = payweek /\ quiet' = 0
      /\ peak' = Habit!Score'
  BY <1>1 DEF Habit!Draw, Habit!TypeOK, Habit!Steps
<1>3. /\ \A i \in 1 .. 6 : draws[i] \in Nat /\ draws[i] <= limit
      /\ limit \in 1 .. 14 /\ share \in Nat /\ payweek \in BOOLEAN
  BY <1>1, HabitsAre
<1>4. /\ draws[1] \in Nat /\ draws[2] \in Nat /\ draws[3] \in Nat
      /\ draws[4] \in Nat /\ draws[5] \in Nat /\ draws[6] \in Nat
  BY <1>3
<1>5. Habit!ThisMonth < limit /\ (Habit!ThisMonth + 1) * share <= 100
  BY DEF Habit!Draw
<1>6. draws[1] < limit /\ Habit!ThisMonth' = Habit!ThisMonth + 1
  BY <1>2, <1>3, <1>4, <1>5 DEF Habit!ThisMonth
<1>7. /\ Habit!InWindow' = Habit!InWindow + 1 /\ Habit!Recent' = Habit!Recent + 1
      /\ Habit!Prior' = Habit!Prior /\ Latest' \in {Latest, Latest + 1}
  BY <1>2, <1>4 DEF Habit!InWindow, Habit!Recent, Habit!Prior, Latest
<1>8. /\ Habit!InWindow \in Nat /\ Habit!Recent \in Nat /\ Habit!Prior \in Nat
      /\ Latest \in Nat /\ Habit!ThisMonth \in Nat
  BY <1>1, WindowIs
<1>9. Habit!Score' = ScoreOf(share, Habit!InWindow', Habit!Recent', Habit!Prior', Latest')
  BY <1>2, ScoreIsPrimed
<1>10. \A i \in 1 .. 6 : d[i] \in 0 .. limit
  BY <1>2, <1>3, <1>4, <1>6
<1> HIDE DEF d
<1>11. /\ Habit!Score <= Habit!Score' /\ Habit!Score' \in 0 .. 100 /\ Habit!Score \in 0 .. 100
       /\ Settled(share, Habit!InWindow') <= Habit!Score'
  <2>1. /\ Habit!InWindow' \in Nat /\ Habit!Recent' \in Nat /\ Latest' \in Nat
        /\ Habit!InWindow <= Habit!InWindow' /\ Habit!Recent <= Habit!Recent'
        /\ Latest <= Latest'
    BY <1>7, <1>8
  <2>2. ScoreOf(share, Habit!InWindow, Habit!Recent, Habit!Prior, Latest)
          <= ScoreOf(share, Habit!InWindow', Habit!Recent', Habit!Prior, Latest')
    BY <1>3, <1>8, <2>1, ScoreInOrder
  <2>3. /\ ScoreOf(share, Habit!InWindow', Habit!Recent', Habit!Prior, Latest') \in 0 .. 100
        /\ ScoreOf(share, Habit!InWindow, Habit!Recent, Habit!Prior, Latest) \in 0 .. 100
        /\ Settled(share, Habit!InWindow')
             <= ScoreOf(share, Habit!InWindow', Habit!Recent', Habit!Prior, Latest')
    BY <1>3, <1>8, <2>1, ScoreWithin
  <2> QED
    BY <1>7, <1>9, <2>2, <2>3, ScoreIs
<1>12. Habit!TypeOK'
  <2>1. d \in [1 .. 6 -> 0 .. limit]
    BY <1>2, <1>10
  <2> QED
    BY <1>1, <1>2, <1>11, <2>1 DEF Habit!TypeOK, Habit!Steps, d
<1>13. Habit!ThisMonth' <= limit' /\ Habit!ThisMonth' * share' <= 100
  BY <1>2, <1>3, <1>5, <1>6, <1>8
<1>14. \A i \in Habit!Steps : ~ i <= quiet'
  BY <1>2 DEF Habit!Steps
<1>15. Settled(share', Habit!InWindow') <= peak'
  BY <1>2, <1>11
<1>16. HabitInv'
  BY <1>12, <1>13, <1>14, <1>15 DEF HabitInv, Habit!Steps
<1> QED
  BY <1>11, <1>16

LEMMA TimesInOrder == ASSUME NEW a \in Nat, NEW b \in Nat, NEW k \in Nat, a <= b
                      PROVE  a * k \in Nat /\ b * k \in Nat /\ a * k <= b * k
<1>1. (b - a) * k >= 0
  OBVIOUS
<1> QED
  BY <1>1

LEMMA HabitDrops ==
    ASSUME HabitConstants, HabitInv, NEW n \in Revoked, Habit!Drop(n)
    PROVE  HabitInv'
<1>1. Habit!TypeOK /\ n \in 1 .. 6
  BY DEF HabitInv, HabitConstants, Habit!DependencyConstants, Habit!Steps
<1> DEFINE d == draws'
<1>2. /\ d \in [1 .. 6 -> Int] /\ draws[n] > 0
      /\ \A i \in 1 .. 6 : d[i] = IF i = n THEN draws[i] - 1 ELSE draws[i]
      /\ limit' = limit /\ share' = share /\ payweek' = payweek /\ quiet' = quiet
      /\ peak' = Habit!Score'
  BY <1>1 DEF Habit!Drop, Habit!TypeOK, Habit!Steps
<1>3. /\ \A i \in 1 .. 6 : draws[i] \in Nat /\ draws[i] <= limit
      /\ limit \in 1 .. 14 /\ share \in Nat /\ payweek \in BOOLEAN /\ quiet \in 0 .. 6
  BY <1>1, HabitsAre
<1> HIDE DEF d
<1>4. \A i \in 1 .. 6 : d[i] \in Nat /\ d[i] <= draws[i] /\ d[i] \in 0 .. limit
  BY <1>2, <1>3
<1>5. d \in [1 .. 6 -> 0 .. limit]
  BY <1>2, <1>4
<1>6. /\ Habit!ThisMonth' \in Nat /\ Habit!ThisMonth' <= Habit!ThisMonth
      /\ Habit!ThisMonth \in Nat
  <2>1. /\ d[1] \in Nat /\ d[2] \in Nat /\ draws[1] \in Nat /\ draws[2] \in Nat
        /\ d[1] <= draws[1] /\ d[2] <= draws[2]
    BY <1>3, <1>4
  <2> QED
    BY <1>2, <2>1 DEF Habit!ThisMonth, d
<1>7. Habit!ThisMonth' <= limit' /\ Habit!ThisMonth' * share' <= 100
  <2>1. Habit!ThisMonth <= limit /\ Habit!ThisMonth * share <= 100
    BY DEF HabitInv
  <2> DEFINE a == Habit!ThisMonth'
             b == Habit!ThisMonth
  <2>2. /\ a \in Nat /\ b \in Nat /\ a <= b /\ share \in Nat /\ limit \in Nat
        /\ b <= limit /\ b * share <= 100
    BY <1>3, <1>6, <2>1
  <2> HIDE DEF a, b
  <2>3. a <= limit /\ a * share <= 100
    BY <2>2, TimesInOrder
  <2> QED
    BY <1>2, <2>3 DEF a
<1>8. /\ Habit!InWindow' \in Nat /\ Habit!Recent' \in Nat /\ Habit!Prior' \in Nat
      /\ Latest' \in Nat
  <2>1. /\ d[1] \in Nat /\ d[2] \in Nat /\ d[3] \in Nat
        /\ d[4] \in Nat /\ d[5] \in Nat /\ d[6] \in Nat
    BY <1>4
  <2> QED
    BY <2>1 DEF Habit!InWindow, Habit!Recent, Habit!Prior, Latest, d
<1>9. /\ Habit!Score' \in 0 .. 100 /\ Settled(share', Habit!InWindow') <= Habit!Score'
  BY <1>2, <1>3, <1>8, ScoreIsPrimed, ScoreWithin
<1>10. Habit!TypeOK'
  BY <1>1, <1>2, <1>5, <1>9 DEF Habit!TypeOK, Habit!Steps, d
<1>11. \A i \in 1 .. 6 : i <= quiet' => draws'[i] = 0
  <2>1. \A i \in 1 .. 6 : i <= quiet => draws[i] = 0
    BY DEF HabitInv, Habit!Steps
  <2> QED
    BY <1>2, <2>1 DEF d
<1> QED
  BY <1>2, <1>7, <1>9, <1>10, <1>11 DEF HabitInv, Habit!Steps

LEMMA LaterIs == ASSUME NEW q \in 0 .. 6
                 PROVE  Habit!Min({6, q + 1}) = IF q = 6 THEN 6 ELSE q + 1
<1>1. Habit!Min({6, q + 1}) = Pay!Min({6, q + 1})
  BY DEF Habit!Min, Pay!Min
<1>2. q + 1 \in Int /\ 6 \in Int
  OBVIOUS
<1>3. Pay!Min({6, q + 1}) = IF 6 <= q + 1 THEN 6 ELSE q + 1
  BY <1>2, PairMin
<1> QED
  BY <1>1, <1>3

LEMMA HabitWaits ==
    ASSUME HabitConstants, HabitInv, Habit!Wait
    PROVE  HabitInv'
<1>1. Habit!TypeOK
  BY DEF HabitInv
<1>2. /\ \A i \in 1 .. 6 : draws[i] \in Nat /\ draws[i] <= limit
      /\ limit \in 1 .. 14 /\ share \in Nat /\ payweek \in BOOLEAN /\ quiet \in 0 .. 6
  BY <1>1, HabitsAre
<1> DEFINE d == draws'
<1>3. /\ d = [i \in 1 .. 6 |-> IF i = 1 THEN 0 ELSE draws[i - 1]]
      /\ limit' = limit /\ share' = share /\ payweek' = ~ payweek /\ peak' = peak
      /\ quiet' = IF quiet = 6 THEN 6 ELSE quiet + 1
  BY <1>2, LaterIs DEF Habit!Wait, Habit!Older, Habit!Steps
<1>4. /\ d[1] = 0 /\ d[2] = draws[1] /\ d[3] = draws[2]
      /\ d[4] = draws[3] /\ d[5] = draws[4] /\ d[6] = draws[5]
      /\ \A i \in 2 .. 6 : d[i] = draws[i - 1] /\ i - 1 \in 1 .. 6
  BY <1>3
<1>5. d \in [1 .. 6 -> 0 .. limit]
  <2>1. \A i \in 1 .. 6 : i # 1 => i - 1 \in 1 .. 6
    OBVIOUS
  <2>2. \A i \in 1 .. 6 : (IF i = 1 THEN 0 ELSE draws[i - 1]) \in 0 .. limit
    BY <1>2, <2>1
  <2> HIDE DEF d
  <2> QED
    BY <1>3, <2>2
<1> HIDE DEF d
<1>6. /\ draws[1] \in Nat /\ draws[2] \in Nat /\ draws[3] \in Nat
      /\ draws[4] \in Nat /\ draws[5] \in Nat /\ draws[6] \in Nat
  BY <1>2
<1>7. Habit!ThisMonth' \in {0, Habit!ThisMonth}
  <2>1. CASE payweek = TRUE
    <3>1. Habit!ThisMonth = draws[1] + 0 /\ Habit!ThisMonth' = d[1] + d[2]
      BY <1>3, <2>1 DEF Habit!ThisMonth, d
    <3> QED
      BY <1>4, <1>6, <3>1
  <2>2. CASE payweek = FALSE
    <3>1. Habit!ThisMonth' = d[1] + 0
      BY <1>3, <2>2 DEF Habit!ThisMonth, d
    <3> QED
      BY <1>4, <3>1
  <2> QED
    BY <1>2, <2>1, <2>2
<1>8. Habit!ThisMonth' <= limit' /\ Habit!ThisMonth' * share' <= 100
  <2>1. Habit!ThisMonth <= limit /\ Habit!ThisMonth * share <= 100
    BY DEF HabitInv
  <2>2. 0 * share = 0 /\ 0 <= limit
    BY <1>2
  <2> DEFINE a == Habit!ThisMonth'
  <2>3. a <= limit /\ a * share <= 100
    <3>1. CASE a = 0
      BY <2>2, <3>1
    <3>2. CASE a = Habit!ThisMonth
      BY <2>1, <3>2
    <3> QED
      BY <1>7, <3>1, <3>2
  <2> QED
    BY <1>3, <2>3
<1>9. Habit!InWindow' \in Nat /\ Habit!InWindow' <= Habit!InWindow /\ Habit!InWindow \in Nat
  <2>1. /\ Habit!InWindow = draws[1] + draws[2] + draws[3] + draws[4] + draws[5] + draws[6]
        /\ Habit!InWindow' = d[1] + d[2] + d[3] + d[4] + d[5] + d[6]
    BY <1>4, <1>6 DEF Habit!InWindow, Habit!Recent, Habit!Prior, d
  <2> QED
    BY <1>4, <1>6, <2>1
<1>10. Settled(share', Habit!InWindow') <= peak'
  <2>1. Settled(share, Habit!InWindow) <= peak /\ peak \in 0 .. 100
    BY <1>1, HabitsAre DEF HabitInv
  <2> DEFINE n == Habit!InWindow'
             k == Habit!InWindow
             t == share'
  <2>2. n \in Nat /\ k \in Nat /\ n <= k /\ share \in Nat /\ t = share
    BY <1>2, <1>3, <1>9
  <2> HIDE DEF n, k, t
  <2>3. /\ Settled(share, n) <= Settled(share, k)
        /\ Settled(share, n) \in 0 .. 100 /\ Settled(share, k) \in 0 .. 100
    BY <2>2, SettledInOrder
  <2>4. Settled(share, k) <= peak
    BY <2>1 DEF k
  <2>5. Settled(t, n) <= peak
    BY <2>1, <2>2, <2>3, <2>4
  <2> QED
    BY <1>3, <2>5 DEF n, t
<1>11. Habit!TypeOK'
  BY <1>1, <1>2, <1>3, <1>5 DEF Habit!TypeOK, Habit!Steps, d
<1>12. \A i \in 1 .. 6 : i <= quiet' => draws'[i] = 0
  <2>1. \A i \in 1 .. 6 : i <= quiet => draws[i] = 0
    BY DEF HabitInv, Habit!Steps
  <2>2. \A i \in 2 .. 6 : i <= quiet' => i - 1 <= quiet
    BY <1>2, <1>3
  <2>3. \A i \in 2 .. 6 : i <= quiet' => d[i] = 0
    BY <1>4, <2>1, <2>2
  <2>4. \A i \in 1 .. 6 : i = 1 \/ i \in 2 .. 6
    OBVIOUS
  <2> QED
    BY <1>4, <2>3, <2>4 DEF d
<1> QED
  BY <1>8, <1>10, <1>11, <1>12 DEF HabitInv, Habit!Steps

THEOREM HabitInvariant == ASSUME HabitConstants PROVE Habit!Spec => []HabitInv
<1>1. Habit!Init => HabitInv
  BY HabitInit
<1>2. HabitInv /\ [Habit!Next]_(Habit!vars) => HabitInv'
  <2> SUFFICES ASSUME HabitInv, [Habit!Next]_(Habit!vars)
               PROVE  HabitInv'
    OBVIOUS
  <2>1. CASE Habit!Draw
    BY <2>1, HabitDraws
  <2>2. CASE Habit!Wait
    BY <2>2, HabitWaits
  <2>3. CASE \E n \in Revoked : Habit!Drop(n)
    BY <2>3, HabitDrops
  <2>4. CASE UNCHANGED Habit!vars
    BY <2>4 DEF HabitInv, Habit!TypeOK, Habit!vars, Habit!ThisMonth, Habit!InWindow,
                Habit!Recent, Habit!Prior
  <2> QED
    BY <2>1, <2>2, <2>3, <2>4 DEF Habit!Next
<1> QED
  BY <1>1, <1>2, PTL DEF Habit!Spec

LEMMA TierIs ==
    ASSUME NEW n \in 0 .. 100
    PROVE  /\ Habit!tierFor(n) \in 1 .. 4
           /\ n < 35 => Habit!tierFor(n) = 1
           /\ n >= 35 => Habit!tierFor(n) >= 2
           /\ n < 60 => Habit!tierFor(n) <= 2
           /\ n >= 60 => Habit!tierFor(n) >= 3
           /\ n < 80 => Habit!tierFor(n) <= 3
           /\ n >= 80 => Habit!tierFor(n) = 4
  BY DEF Habit!tierFor

\* One month's draws are no habit.
LEMMA OneMonthIsNone == HabitConstants /\ HabitInv => Habit!OneMonthNeverRestricts
<1> SUFFICES ASSUME HabitConstants, HabitInv, Habit!OneMonth
             PROVE  /\ Habit!TierCoolingOff(Habit!Tier) = 1
                    /\ \A c \in Caps, f \in Floors : Habit!TierCap(Habit!Tier, c, f) = c
  BY DEF Habit!OneMonthNeverRestricts
<1>1. Habit!TypeOK
  BY DEF HabitInv
<1>2. /\ \A i \in 1 .. 6 : draws[i] \in Nat
      /\ limit \in 1 .. 14 /\ share \in Nat /\ payweek \in BOOLEAN
  BY <1>1, HabitsAre
<1> DEFINE n == Habit!InWindow
           r == Habit!Recent
           p == Habit!Prior
           x == Latest
           m == Habit!ThisMonth
<1>3. /\ n = draws[1] + draws[2] + draws[3] + draws[4] + draws[5] + draws[6]
      /\ p = draws[3] + draws[4]
      /\ n \in Nat /\ r \in Nat /\ x \in Nat /\ m \in Nat
  BY <1>1, WindowIs
<1>4. /\ draws[1] \in Nat /\ draws[2] \in Nat
      /\ draws[3] = 0 /\ draws[4] = 0 /\ draws[5] = 0 /\ draws[6] = 0
      /\ payweek => draws[2] = 0
  <2>1. \A i \in 1 .. 6 : draws[i] > 0 => i <= 2 /\ (payweek => i <= 1)
    BY DEF Habit!OneMonth, Habit!Steps
  <2> QED
    BY <1>2, <2>1
<1>5. n = m /\ p = 0
  <2>1. n = draws[1] + draws[2] /\ p = 0
    BY <1>3, <1>4
  <2>2. CASE payweek = TRUE
    <3>1. m = draws[1] + 0
      BY <2>2 DEF Habit!ThisMonth
    <3> QED
      BY <1>4, <2>1, <2>2, <3>1
  <2>3. CASE payweek = FALSE
    <3>1. m = draws[1] + draws[2]
      BY <2>3 DEF Habit!ThisMonth
    <3> QED
      BY <2>1, <3>1
  <2> QED
    BY <1>2, <2>2, <2>3
<1>6. n <= 14 /\ share * n <= 100 /\ share * n \in Nat
  <2>1. m <= limit /\ m * share <= 100
    BY DEF HabitInv
  <2> HIDE DEF n, m
  <2>2. m * share = share * n
    BY <1>2, <1>3, <1>5
  <2> QED
    BY <1>2, <1>3, <1>5, <2>1, <2>2
<1> HIDE DEF n, r, p, x, m
<1>7. Often(n) \in 0 .. 6
  <2>1. Often(14) = 6
    BY DEF Often, Habit!scaleScore
  <2>2. 14 \in Nat
    OBVIOUS
  <2>3. Often(n) \in 0 .. 20 /\ Often(n) <= Often(14)
    BY <1>3, <1>6, <2>2, OftenIs
  <2> QED
    BY <2>1, <2>3
<1>8. Much(share, n) \in 0 .. 15
  <2> DEFINE den == 300
             low == 20
             high == 50
             max == 35
             most == 100
             y == share * n
             At(z) == Habit!scaleScore(z, den, low, high, max)
  <2>1. At(most) = 15 /\ Much(share, n) = At(y)
    BY DEF Habit!scaleScore, Much
  <2>2. /\ y \in Int /\ y <= most /\ most \in Int
        /\ den \in Nat \ {0} /\ low \in Nat /\ high \in Nat /\ low < high
        /\ max \in Nat /\ max = 35
    BY <1>6
  <2> HIDE DEF den, low, high, max, most, y
  <2>3. At(y) \in 0 .. max /\ At(y) <= At(most)
    BY <2>2, ScaleInOrder
  <2> HIDE DEF At
  <2> QED
    BY <2>1, <2>2, <2>3
<1>9. Rising(share, n, r, p) \in 0 .. 15
  <2>1. ~ Full(share, n)
    BY <1>7 DEF Full
  <2> QED
    BY <1>5, <2>1 DEF Rising
<1>10. Soon(x) \in 0 .. 15
  <2>1. x <= x
    BY <1>3
  <2> QED
    BY <1>3, <2>1, SoonIs
<1>11. Habit!Score \in 0 .. 51
  <2>1. Habit!Score = Often(n) + Much(share, n) + Rising(share, n, r, p) + Soon(x)
    BY ScoreIs DEF ScoreOf, n, r, p, x
  <2> QED
    BY <1>7, <1>8, <1>9, <1>10, <2>1
<1>12. Habit!Tier \in 1 .. 2
  <2>1. Habit!Score \in 0 .. 100 /\ Habit!Score < 60
    BY <1>11
  <2> QED
    BY <2>1, TierIs DEF Habit!Tier
<1> QED
  BY <1>12 DEF Habit!TierCoolingOff, Habit!TierCap

\* Average use is none.
LEMMA AverageIsNone == HabitConstants /\ HabitInv => Habit!AverageStaysHealthy
<1> SUFFICES ASSUME HabitConstants, HabitInv,
                    Habit!Recent <= 3, Habit!Prior = Habit!Recent, draws[5] + draws[6] <= 3,
                    share * Habit!InWindow <= 60
             PROVE  Habit!Tier = 1
  BY DEF Habit!AverageStaysHealthy
<1>1. Habit!TypeOK
  BY DEF HabitInv
<1>2. \A i \in 1 .. 6 : draws[i] \in Nat
  BY <1>1, HabitsAre
<1> DEFINE n == Habit!InWindow
           r == Habit!Recent
           p == Habit!Prior
           x == Latest
<1>3. /\ n = draws[1] + draws[2] + draws[3] + draws[4] + draws[5] + draws[6]
      /\ r = draws[1] + draws[2] /\ p = draws[3] + draws[4]
      /\ n \in Nat /\ r \in Nat /\ p \in Nat /\ x \in Nat
  BY <1>1, WindowIs
<1>4. r <= 3 /\ p = r /\ draws[5] + draws[6] <= 3 /\ share * n <= 60
  OBVIOUS
<1> HIDE DEF n, r, p, x
<1>5. n <= 9
  <2>1. /\ draws[1] \in Nat /\ draws[2] \in Nat /\ draws[3] \in Nat
        /\ draws[4] \in Nat /\ draws[5] \in Nat /\ draws[6] \in Nat
    BY <1>2
  <2> QED
    BY <1>3, <1>4, <2>1
<1>6. Often(n) = 0
  BY <1>3, <1>5 DEF Often, Habit!scaleScore
<1>7. Much(share, n) = 0
  <2> DEFINE y == share * n
  <2>1. y \in Int /\ y <= 60
    BY <1>1, <1>3, <1>4, HabitsAre
  <2>2. Much(share, n) = Habit!scaleScore(y, 300, 20, 50, 35)
    BY DEF Much
  <2> HIDE DEF y
  <2> QED
    BY <2>1, <2>2 DEF Habit!scaleScore
<1>8. Rising(share, n, r, p) = 0
  <2>1. ~ Full(share, n)
    BY <1>6 DEF Full
  <2>2. ~ (p > 0 /\ r > p) /\ ~ (p = 0 /\ r >= 3)
    BY <1>3, <1>4
  <2> QED
    BY <2>1, <2>2 DEF Rising
<1>9. Soon(x) \in 0 .. 15
  <2>1. x <= x
    BY <1>3
  <2> QED
    BY <1>3, <2>1, SoonIs
<1>10. Habit!Score \in 0 .. 15
  <2>1. Habit!Score = Often(n) + Much(share, n) + Rising(share, n, r, p) + Soon(x)
    BY ScoreIs DEF ScoreOf, n, r, p, x
  <2> QED
    BY <1>6, <1>7, <1>8, <1>9, <2>1
<1> QED
  <2>1. Habit!Score \in 0 .. 100 /\ Habit!Score < 35
    BY <1>10
  <2> QED
    BY <2>1, TierIs DEF Habit!Tier

\* Heavy use is one.
LEMMA HeavyIsSeen == HabitConstants /\ HabitInv => Habit!HeavyUseIsSeen
<1> SUFFICES ASSUME HabitConstants, HabitInv, share * Habit!InWindow >= 150
             PROVE  /\ Habit!InWindow >= 24 => Habit!Tier = 4
                    /\ Habit!Tier >= 2
  BY DEF Habit!HeavyUseIsSeen
<1>1. Habit!TypeOK
  BY DEF HabitInv
<1> DEFINE n == Habit!InWindow
           r == Habit!Recent
           p == Habit!Prior
           x == Latest
<1>2. n \in Nat /\ r \in Nat /\ p \in Nat /\ x \in Nat /\ share \in Nat
  BY <1>1, WindowIs, HabitsAre
<1>3. share * n \in Nat /\ share * n >= 150
  BY <1>2
<1>4. Habit!Score = Often(n) + Much(share, n) + Rising(share, n, r, p) + Soon(x)
  BY ScoreIs DEF ScoreOf
<1>5. Habit!Score \in 0 .. 100
  BY <1>1, ScoreBounds
<1> HIDE DEF n, r, p, x
<1>6. Much(share, n) = 35
  <2> DEFINE y == share * n
  <2>1. y \in Nat /\ y >= 150
    BY <1>3
  <2>2. Much(share, n) = Habit!scaleScore(y, 300, 20, 50, 35)
    BY DEF Much
  <2> HIDE DEF y
  <2> QED
    BY <2>1, <2>2 DEF Habit!scaleScore
<1>7. Often(n) \in 0 .. 20 /\ Soon(x) \in 0 .. 15 /\ Rising(share, n, r, p) \in 0 .. 30
  <2>1. n <= n /\ x <= x /\ r <= r
    BY <1>2
  <2> QED
    BY <1>2, <2>1, OftenIs, SoonIs, RisingIs
<1>8. Habit!Tier >= 2
  <2>1. Habit!Score >= 35
    BY <1>4, <1>6, <1>7
  <2> QED
    BY <1>5, <2>1, TierIs DEF Habit!Tier
<1>9. ASSUME n >= 24
      PROVE  Habit!Tier = 4
  <2>1. Often(n) = 20
    BY <1>2, <1>9 DEF Often, Habit!scaleScore
  <2>2. Rising(share, n, r, p) = 30
    BY <1>6, <2>1 DEF Rising, Full
  <2>3. Habit!Score >= 80
    BY <1>4, <1>6, <1>7, <2>1, <2>2
  <2> QED
    BY <1>5, <2>3, TierIs DEF Habit!Tier
<1> QED
  BY <1>8, <1>9 DEF n

\* What was a habit wears off.
LEMMA PatternEases == HabitConstants /\ HabitInv => Habit!PatternEasesBack
<1> SUFFICES ASSUME HabitConstants, HabitInv, quiet >= 2
             PROVE  Habit!Score <= peak /\ (quiet = 6 => Habit!Score = 0)
  BY DEF Habit!PatternEasesBack
<1>1. Habit!TypeOK
  BY DEF HabitInv
<1> DEFINE n == Habit!InWindow
           p == Habit!Prior
<1>2. n \in Nat /\ p \in Nat /\ share \in Nat /\ quiet \in 0 .. 6
  BY <1>1, WindowIs, HabitsAre
<1>3. \A i \in 1 .. 6 : i <= quiet => draws[i] = 0
  BY DEF HabitInv, Habit!Steps
<1>4. draws[1] = 0 /\ draws[2] = 0
  BY <1>2, <1>3
<1>5. Habit!Recent = 0 /\ Latest = 0
  BY <1>4 DEF Habit!Recent, Latest
<1>6. Habit!Score = Often(n) + Much(share, n) + Rising(share, n, 0, p) + Soon(0)
  BY <1>5, ScoreIs DEF ScoreOf
<1>7. Settled(share, n) <= peak
  BY DEF HabitInv
<1>8. quiet = 6 => n = 0
  <2>1. quiet = 6 => /\ draws[3] = 0 /\ draws[4] = 0 /\ draws[5] = 0 /\ draws[6] = 0
    BY <1>3
  <2>2. n = draws[1] + draws[2] + draws[3] + draws[4] + draws[5] + draws[6]
    BY <1>1, WindowIs
  <2> QED
    BY <1>4, <2>1, <2>2
<1> HIDE DEF n, p
<1>9. Soon(0) = 0
  BY DEF Soon, Habit!scaleScore
<1>10. Rising(share, n, 0, p) = IF Full(share, n) THEN 30 ELSE 0
  <2>1. ~ (p > 0 /\ 0 > p) /\ ~ (p = 0 /\ 0 >= 3)
    BY <1>2
  <2> QED
    BY <2>1 DEF Rising
<1> DEFINE a == IF Full(share, n) THEN 30 ELSE 0
<1>11. /\ Often(n) \in Int /\ Much(share, n) \in Int /\ a \in {0, 30}
  <2>1. n <= n
    BY <1>2
  <2> QED
    BY <1>2, <2>1, OftenIs, MuchIs
<1>12. Settled(share, n) = Often(n) + Much(share, n) + a
  BY DEF Settled
<1>13. Rising(share, n, 0, p) = a
  BY <1>10
<1>14. Habit!Score = Settled(share, n)
  <2> HIDE DEF a
  <2> QED
    BY <1>6, <1>9, <1>11, <1>12, <1>13
<1>15. ASSUME quiet = 6
       PROVE  Habit!Score = 0
  <2>1. share * 0 = 0 /\ n = 0
    BY <1>2, <1>8, <1>15
  <2>2. Often(0) = 0 /\ Much(share, 0) = 0
    BY <2>1 DEF Often, Much, Habit!scaleScore
  <2>3. a = 0
    BY <2>1, <2>2 DEF Full
  <2> HIDE DEF a
  <2> QED
    BY <1>12, <1>14, <2>1, <2>2, <2>3
<1> QED
  BY <1>7, <1>14, <1>15

\* The score tells habits apart (ScoreDependency).
THEOREM ScoreAlwaysTells == ASSUME HabitConstants PROVE Habit!Spec => []Habit!ScoreTellsHabits
<1>1. HabitInv => Habit!ScoreTellsHabits
  BY OneMonthIsNone, AverageIsNone, HeavyIsSeen, PatternEases
     DEF Habit!ScoreTellsHabits, HabitInv
<1> QED
  BY <1>1, HabitInvariant, PTL

\* A higher tier waits no less and allows no more, and no tier allows less than the floor.
LEMMA CapsAre ==
    ASSUME NEW c \in Nat, NEW f \in Nat
    PROVE  /\ \A t \in 1 .. 4 : Habit!TierCap(t, c, f) \in Nat
           /\ \A t \in 1 .. 4 : Habit!TierCap(t, c, f) >= Habit!Min({f, c})
           /\ \A t, u \in 1 .. 4 : t <= u => Habit!TierCap(u, c, f) <= Habit!TierCap(t, c, f)
<1> DEFINE m == Habit!Min({f, c})
           h == Habit!PercentOf(c, 50, 100)
           k == Habit!Max({h, m})
<1>1. m = IF f <= c THEN f ELSE c
  BY PairMin DEF Habit!Min, Pay!Min
<1>2. h \in Nat /\ h <= c
  <2>1. Pay!PercentOf(c, 50, 100) \in Nat /\ Pay!PercentOf(c, 50, 100) <= c
    BY ShareWithin
  <2> QED
    BY <2>1 DEF Habit!PercentOf, Pay!PercentOf
<1>3. m \in Nat
  BY <1>1
<1> HIDE DEF m, h
<1>4. k = IF h >= m THEN h ELSE m
  BY <1>2, <1>3, PairMax DEF Habit!Max, Pay!Max
<1>5. \A t \in 1 .. 4 : Habit!TierCap(t, c, f) = IF t = 4 THEN m ELSE IF t = 3 THEN k ELSE c
  BY DEF Habit!TierCap, m, h
<1> HIDE DEF k
<1>6. m \in Nat /\ k \in Nat /\ m <= k /\ k <= c /\ m <= c
  BY <1>1, <1>2, <1>3, <1>4
<1>7. \A t \in 1 .. 4 : Habit!TierCap(t, c, f) \in {m, k, c}
  BY <1>5
<1>8. \A t \in 1 .. 4 : Habit!TierCap(t, c, f) \in Nat /\ Habit!TierCap(t, c, f) >= m
  BY <1>6, <1>7
<1>9. ASSUME NEW t \in 1 .. 4, NEW u \in 1 .. 4, t <= u
       PROVE  Habit!TierCap(u, c, f) <= Habit!TierCap(t, c, f)
  <2> DEFINE a == Habit!TierCap(t, c, f)
             b == Habit!TierCap(u, c, f)
  <2>1. a = (IF t = 4 THEN m ELSE IF t = 3 THEN k ELSE c)
        /\ b = (IF u = 4 THEN m ELSE IF u = 3 THEN k ELSE c)
    BY <1>5
  <2> HIDE DEF a, b
  <2>2. b <= a
    BY <1>6, <1>9, <2>1
  <2> QED
    BY <2>2 DEF a, b
<1> QED
  BY <1>8, <1>9 DEF m

LEMMA TiersInOrder ==
    ASSUME NEW a \in 0 .. 100, NEW b \in 0 .. 100, a <= b
    PROVE  Habit!tierFor(a) <= Habit!tierFor(b)
  BY DEF Habit!tierFor

\* One more draw never lowers the score nor widens access (ScoreDependency, TierCap).
THEOREM DrawAlwaysNarrows ==
    ASSUME HabitConstants PROVE Habit!Spec => Habit!DrawNarrowsAccess
<1>1. HabitInv /\ Habit!Draw => Habit!Narrows
  <2> SUFFICES ASSUME HabitInv, Habit!Draw
               PROVE  Habit!Narrows
    OBVIOUS
  <2> DEFINE s == Habit!Score
             z == Habit!Score'
             t == Habit!Tier
             u == Habit!Tier'
  <2>1. HabitInv' /\ z >= s
    BY HabitDraws
  <2>2. s \in 0 .. 100
    BY ScoreBounds DEF HabitInv
  <2>3. z \in 0 .. 100
    <3>1. peak' = z /\ peak' \in 0 .. 100
      BY <2>1 DEF Habit!Draw, HabitInv, Habit!TypeOK
    <3> QED
      BY <3>1
  <2>4. t = Habit!tierFor(s) /\ u = Habit!tierFor(z)
    BY DEF Habit!Tier, Habit!tierFor
  <2> HIDE DEF s, z, t, u
  <2>5. t \in 1 .. 4 /\ u \in 1 .. 4 /\ t <= u
    BY <2>1, <2>2, <2>3, <2>4, TierIs, TiersInOrder
  <2>6. Habit!TierCoolingOff(u) >= Habit!TierCoolingOff(t)
    BY <2>5 DEF Habit!TierCoolingOff
  <2>7. \A c \in Caps, f \in Floors : c \in Nat /\ f \in Nat
    BY DEF HabitConstants, Habit!DependencyConstants
  <2>8. \A c \in Caps, f \in Floors :
           /\ Habit!TierCap(u, c, f) <= Habit!TierCap(t, c, f)
           /\ Habit!TierCap(u, c, f) >= Habit!Min({f, c})
    BY <2>5, <2>7, CapsAre
  <2> QED
    BY <2>1, <2>6, <2>8 DEF Habit!Narrows, s, z, t, u
<1>2. HabitInv /\ [Habit!Next]_(Habit!vars) => [Habit!Narrows]_(Habit!vars)
  <2>1. ~ Habit!Draw => Habit!Narrows
    BY DEF Habit!Narrows
  <2> QED
    BY <1>1, <2>1
<1> QED
  BY <1>2, HabitInvariant, PTL DEF Habit!Spec, Habit!DrawNarrowsAccess

-----------------------------------------------------------------------------
(* The composition: each part is left alone by the others.                  *)

\* A behaviour of the rules is one of early pay.
LEMMA PayIsAPart == RulesSpec => Pay!Spec
<1>1. RulesInit => Pay!Init
  BY DEF RulesInit
<1>2. [RulesNext]_ruleVars => [Pay!Next]_(Pay!vars)
  <2> SUFFICES ASSUME [RulesNext]_ruleVars
               PROVE  [Pay!Next]_(Pay!vars)
    OBVIOUS
  <2>1. Pay!Next \/ UNCHANGED payVars
    BY DEF RulesNext, MonthStep, SaverStep, ruleVars
  <2> QED
    BY <2>1 DEF payVars, Pay!vars
<1> QED
  BY <1>1, <1>2, PTL DEF RulesSpec, Pay!Spec

\* DrawsLeavePay for the whole composition: draws stay within wages earned and not yet
\* paid, savings leave some pay (eligibilityTx, CreatePayroll).
THEOREM RulesLeavePay == RulesSpec => []DrawsLeavePay
<1>1. PayConstants
  BY PayRulesConstants DEF PayConstants
<1>2. Pay!Spec => []Pay!DrawsLeavePay
  BY <1>1, DrawsAlwaysLeavePay
<1> QED
  BY <1>2, PayIsAPart, PTL DEF DrawsLeavePay

\* PaydayLands for the whole composition: the protected payday and the projected one land
\* (GetEligibility, CreatePayroll).
THEOREM RulesLandPayday == RulesSpec => PaydayLands
<1>1. PayConstants
  BY PayRulesConstants DEF PayConstants
<1>2. Pay!Spec => Pay!FloorReachesPayday
  BY <1>1, FloorAlwaysReachesPayday
<1>3. Pay!Spec => Pay!PlainProjectionLands
  BY <1>1, ProjectionAlwaysLands
<1> QED
  BY <1>2, <1>3, PayIsAPart, PTL DEF PaydayLands

\* A behaviour of the rules is one of the money calls.
LEMMA MoneyIsAPart == RulesSpec => Spec
<1>1. RulesInit => Init
  BY DEF RulesInit
<1>2. [RulesNext]_ruleVars => [Return]_vars
  <2> SUFFICES ASSUME [RulesNext]_ruleVars
               PROVE  [Return]_vars
    OBVIOUS
  <2>1. Return \/ UNCHANGED vars
    BY DEF RulesNext, MonthStep, SaverStep, HeavyStep, ruleVars
  <2> QED
    BY <2>1
<1> QED
  BY <1>1, <1>2, PTL DEF RulesSpec, Spec

\* AmountsExact for the whole composition: every figure the rules put in kobo is the true
\* one, or refused (Kobo, FromMajor, ParseMoney).
THEOREM RulesAmountsExact == RulesSpec => []AmountsExact
<1>1. MoneyConstants
  BY PayRulesConstants
<1>2. Spec => []AmountsExact
  BY <1>1, AmountsAlwaysExact
<1> QED
  BY <1>2, MoneyIsAPart, PTL

\* A behaviour of the rules is one of the hours.
LEMMA HoursIsAPart == RulesSpec => Hours!Spec
<1>1. RulesInit => Hours!Init
  BY DEF RulesInit
<1>2. [RulesNext]_ruleVars => [Hours!Next]_(Hours!vars)
  <2> SUFFICES ASSUME [RulesNext]_ruleVars
               PROVE  [Hours!Next]_(Hours!vars)
    OBVIOUS
  <2>1. Hours!Next \/ UNCHANGED hoursVars
    BY DEF RulesNext, MonthStep, SaverStep, HeavyStep, ruleVars
  <2> QED
    BY <2>1 DEF hoursVars, Hours!vars
<1> QED
  BY <1>1, <1>2, PTL DEF RulesSpec, Hours!Spec

\* HoursPaidOnce for the whole composition: a worker's approved hours fit the day and are
\* paid by one item and for good, at overtime wherever in the week the threshold was
\* reached (lockEmployeeDay, ComputeHourlyGross, MarkTimeEntriesPaid).
THEOREM RulesPayHoursOnce == RulesSpec => HoursPaidOnce
<1>1. HoursConstants
  BY PayRulesConstants DEF HoursConstants
<1>2. Hours!Spec => [](Hours!TypeOK /\ Hours!ItemPaysItsEntries)
  BY <1>1, ItemAlwaysPaysEntries
<1>3. Hours!Spec => []Hours!ApprovedDayFits
  BY <1>1, ApprovedDayAlwaysFits
<1>4. Hours!Spec => Hours!WeekCountsAcrossRuns
  BY <1>1, WeekAlwaysCounts
<1>5. Hours!Spec => Hours!PaidIsFinal
  BY <1>1, PaidAlwaysFinal
<1> QED
  BY <1>2, <1>3, <1>4, <1>5, HoursIsAPart, PTL DEF HoursPaidOnce

\* A behaviour of the rules is one of the bills.
LEMMA BillIsAPart == RulesSpec => Bill!Spec
<1>1. RulesInit => Bill!Init
  BY DEF RulesInit
<1>2. [RulesNext]_ruleVars => [Bill!Next]_(Bill!vars)
  <2> SUFFICES ASSUME [RulesNext]_ruleVars
               PROVE  [Bill!Next]_(Bill!vars)
    OBVIOUS
  <2>1. Bill!Next \/ UNCHANGED billVars
    BY DEF RulesNext, MonthStep, SaverStep, HeavyStep, ruleVars
  <2> QED
    BY <2>1 DEF billVars, Bill!vars
<1> QED
  BY <1>1, <1>2, PTL DEF RulesSpec, Bill!Spec

\* BillPlanHolds for the whole composition: due dates are the next ones and stand, and
\* what is shown as coverable is covered together (GetBillTimingPlan).
THEOREM RulesHoldBills == RulesSpec => BillPlanHolds
<1>1. BillConstants
  BY PayRulesConstants DEF BillConstants
<1>2. Bill!Spec => []Bill!DueIsNext
  BY <1>1, DueAlwaysNext
<1>3. Bill!Spec => []Bill!PlanFits
  BY <1>1, PlanAlwaysFits
<1>4. Bill!Spec => Bill!DateStands
  BY <1>1, DateAlwaysStands
<1> QED
  BY <1>2, <1>3, <1>4, BillIsAPart, PTL DEF BillPlanHolds

\* A behaviour of the rules is one of a habit of drawing.
LEMMA HabitIsAPart == RulesSpec => Habit!Spec
<1>1. RulesInit => Habit!Init
  BY DEF RulesInit
<1>2. [RulesNext]_ruleVars => [Habit!Next]_(Habit!vars)
  <2> SUFFICES ASSUME [RulesNext]_ruleVars
               PROVE  [Habit!Next]_(Habit!vars)
    OBVIOUS
  <2>1. Habit!Next \/ UNCHANGED scoreVars
    BY DEF RulesNext, MonthStep, SaverStep, HeavyStep, ruleVars, Habit!Next
  <2> QED
    BY <2>1 DEF scoreVars, Habit!vars
<1> QED
  BY <1>1, <1>2, PTL DEF RulesSpec, Habit!Spec

\* ScoreTellsHabits for the whole composition: one month is no habit, heavy use is one,
\* and one more draw never widens access (ScoreDependency, TierCap).
THEOREM RulesTellHabits == RulesSpec => ScoreTellsHabits
<1>1. HabitConstants
  BY PayRulesConstants DEF HabitConstants
<1>2. Habit!Spec => []Habit!ScoreTellsHabits
  BY <1>1, ScoreAlwaysTells
<1>3. Habit!Spec => Habit!DrawNarrowsAccess
  BY <1>1, DrawAlwaysNarrows
<1> QED
  BY <1>2, <1>3, HabitIsAPart, PTL DEF ScoreTellsHabits
=============================================================================
