------------------------------- MODULE Money -------------------------------
(***************************************************************************)
(* pkg/money: amounts as integers of a fixed width.  The width is a        *)
(* constant (Half is 2^63 in the program), arithmetic wraps at it as Go's  *)
(* does, and each operation finds out from the wrapped result whether it   *)
(* overflowed.  An operation answers Ok(amount) or Err(reason).            *)
(*                                                                         *)
(* A call picks one operation and its arguments; the properties compare    *)
(* its answer with what the operation means on unbounded integers.         *)
(***************************************************************************)
EXTENDS Integers, Sequences, SequencesExt

CONSTANTS
    Half,         \* amounts are -Half .. Half - 1
    Amounts,      \* the amounts the calls are made with
    Scalars,      \* multipliers and numerators
    Denominators, \* divisors of Percent
    Columns,      \* the slices Sum is called with
    Majors,       \* whole units FromMajor is called with
    Exponent,     \* minorUnitExponent: each currency's decimal places
    Texts         \* the strings parsed, as sequences of characters

MinInt == - Half
MaxInt == Half - 1
IntW == MinInt .. MaxInt

\* Multipliers are not negative, and denominators small, as everywhere in the program.
MoneyConstants ==
    /\ Half \in Nat \ {0}
    /\ Amounts \cup Majors \subseteq IntW
    /\ Scalars \subseteq 0 .. MaxInt
    /\ \A d \in Denominators : d \in Nat \ {0} /\ 2 * d <= Half
    /\ Columns \subseteq Seq(IntW)
    /\ \A c \in DOMAIN Exponent : Exponent[c] \in 0 .. 2
    /\ Texts \subseteq Seq(STRING)

Ok(v) == [ok |-> TRUE, value |-> v]
Err(e) == [ok |-> FALSE, error |-> e]

Abs(x) == IF x < 0 THEN - x ELSE x

\* Two's complement.
Wrap(x) == ((x + Half) % (2 * Half)) - Half
\* Go's / and %: they truncate towards zero, and MinInt / -1 is MinInt.
Quo(a, b) == Wrap(IF (a < 0) = (b < 0) THEN Abs(a) \div Abs(b) ELSE - (Abs(a) \div Abs(b)))
Rem(a, b) == a - b * (IF (a < 0) = (b < 0) THEN Abs(a) \div Abs(b) ELSE - (Abs(a) \div Abs(b)))

-----------------------------------------------------------------------------
(* Kobo *)

Add(k, other) ==
    LET result == Wrap(k + other) IN
    IF (other > 0 /\ result < k) \/ (other < 0 /\ result > k)
    THEN Err("overflow") ELSE Ok(result)

\* Subtraction as the addition of the negation, which wraps for MinInt.
MutSub(k, other) == Add(k, Wrap(- other))

Sub(k, other) ==
    LET result == Wrap(k - other) IN
    IF (other < 0 /\ result < k) \/ (other > 0 /\ result > k)
    THEN Err("overflow") ELSE Ok(result)

MulInt(k, n) ==
    LET result == Wrap(k * n) IN
    IF k = 0 \/ n = 0 THEN Ok(0)
    ELSE IF Quo(result, n) # k THEN Err("overflow") ELSE Ok(result)

OddOf(q) == Rem(q, 2) # 0

\* Banker's rounding of the truncated quotient q with remainder r.
Rounded(q, r, denominator) ==
    LET twiceR == Wrap(2 * r)
        away == Wrap(IF r > 0 THEN q + 1 ELSE q - 1)
    IN IF twiceR > denominator \/ twiceR < - denominator THEN away
       ELSE IF (twiceR = denominator \/ twiceR = - denominator) /\ OddOf(q) THEN away
       ELSE q

Percent(k, numerator, denominator) ==
    LET scaled == MulInt(k, numerator) IN
    IF denominator = 0 THEN Err("division by zero")
    ELSE IF ~ scaled.ok THEN scaled
    ELSE Ok(Rounded(Quo(scaled.value, denominator), Rem(scaled.value, denominator),
                    denominator))

SumStep(v, total) == IF total.ok THEN Add(total.value, v) ELSE total

Sum(values) == FoldLeft(LAMBDA total, v : SumStep(v, total), Ok(0), values)

-----------------------------------------------------------------------------
(* Currencies *)

Scale(c) == 10 ^ Exponent[c]

FromMajor(major, c) ==
    IF major > Quo(MaxInt, Scale(c)) \/ major < Quo(MinInt, Scale(c)) THEN Err("overflow")
    ELSE Ok(Wrap(major * Scale(c)))

Numerals == <<"0", "1", "2", "3", "4", "5", "6", "7", "8", "9">>
Digits == [d \in Range(Numerals) |-> CHOOSE n \in 0 .. 9 : Numerals[n + 1] = d]
IsDigits(s) == s # <<>> /\ \A i \in DOMAIN s : s[i] \in DOMAIN Digits
Decimal(s) == FoldLeft(LAMBDA n, d : 10 * n + Digits[d], 0, s)

\* strconv.ParseInt: an optional sign, digits, and the width.
ParseInt(s) ==
    LET signed == s # <<>> /\ Head(s) \in {"-", "+"}
        digits == IF signed THEN Tail(s) ELSE s
        n == IF signed /\ Head(s) = "-" THEN - Decimal(digits) ELSE Decimal(digits)
    IN IF IsDigits(digits) /\ n \in IntW THEN Ok(n) ELSE Err("format")

\* strings.SplitN(s, ".", 2)
Point(s) == SelectInSeq(s, LAMBDA ch : ch = ".")
WholePart(s) == IF Point(s) = 0 THEN s ELSE SubSeq(s, 1, Point(s) - 1)
FracPart(s) == SubSeq(s, Point(s) + 1, Len(s))

Padded(frac, exp) == frac \o [i \in 1 .. exp - Len(frac) |-> "0"]

\* The digits after the point, or 0 with no point.
Fraction(s, exp) ==
    IF Point(s) = 0 THEN Ok(0)
    ELSE IF exp = 0 \/ Len(FracPart(s)) = 0 \/ Len(FracPart(s)) > exp THEN Err("format")
    ELSE ParseInt(Padded(FracPart(s), exp))

\* FromNairaString is ParseMoney with two decimal places.
ParseMoney(text, c) ==
    LET negative == text # <<>> /\ Head(text) = "-"
        s == IF negative THEN Tail(text) ELSE text
        whole == ParseInt(WholePart(s))
        fraction == Fraction(s, Exponent[c])
        total == Wrap(whole.value * Scale(c) + fraction.value)
    IN IF text = <<>> \/ ~ whole.ok \/ ~ fraction.ok THEN Err("format")
       ELSE IF whole.value > Quo(MaxInt - fraction.value, Scale(c)) THEN Err("overflow")
       ELSE Ok(IF negative THEN Wrap(- total) ELSE total)

-----------------------------------------------------------------------------
(* Calls *)

VARIABLES call, answer
vars == <<call, answer>>

NoAnswer == Err("none")

Answer(c) ==
    CASE c.op = "add" -> Add(c.k, c.other)
      [] c.op = "sub" -> Sub(c.k, c.other)
      [] c.op = "mul" -> MulInt(c.k, c.n)
      [] c.op = "percent" -> Percent(c.k, c.n, c.d)
      [] c.op = "sum" -> Sum(c.values)
      [] c.op = "major" -> FromMajor(c.major, c.cur)
      [] c.op = "parse" -> ParseMoney(c.text, c.cur)

Calls ==
    [op : {"add", "sub"}, k : Amounts, other : Amounts]
    \cup [op : {"mul"}, k : Amounts, n : Scalars]
    \cup [op : {"percent"}, k : Amounts, n : Scalars, d : Denominators]
    \cup [op : {"sum"}, values : Columns]
    \cup [op : {"major"}, major : Majors, cur : DOMAIN Exponent]
    \cup [op : {"parse"}, text : Texts, cur : DOMAIN Exponent]

Init == call \in Calls /\ answer = NoAnswer

Return ==
    /\ answer = NoAnswer
    /\ answer' = Answer(call)
    /\ UNCHANGED call

Spec == Init /\ [][Return]_vars

Returned(ops) == answer # NoAnswer /\ call.op \in ops

TypeOK ==
    /\ call \in Calls
    /\ answer.ok => answer.value \in IntW

-----------------------------------------------------------------------------

Exact(x) == answer = IF x \in IntW THEN Ok(x) ELSE Err("overflow")

\* Add and Sub: the answer is the true sum or difference if it has the width,
\* and an overflow otherwise, at both ends of the range.
AddSubExact ==
    Returned({"add", "sub"}) =>
        Exact(IF call.op = "add" THEN call.k + call.other ELSE call.k - call.other)

\* MulInt by a factor that is not negative, the only ones the program has.
MulExactNonNegative == Returned({"mul"}) /\ call.n >= 0 => Exact(call.k * call.n)

\* Percent: the answer is the integer nearest the true quotient, the even one of
\* two, unless the product overflows.
PercentRoundsHalfEven ==
    Returned({"percent"}) =>
        IF call.k * call.n \notin IntW THEN answer = Err("overflow")
        ELSE LET off == 2 * (call.k * call.n - answer.value * call.d) IN
             /\ answer.ok
             /\ Abs(off) <= call.d
             /\ Abs(off) = call.d => answer.value % 2 = 0

Total(values) == FoldLeft(LAMBDA x, y : x + y, 0, values)

\* Sum: a total that is answered is the true one.
SumExact == Returned({"sum"}) /\ answer.ok => answer.value = Total(call.values)

\* FromMajor scales by the currency's own minor unit, or overflows.
MajorExact == Returned({"major"}) => Exact(call.major * Scale(call.cur))

\* The decimal numbers of a currency: an optional sign, digits, and a point
\* with one digit up to the currency's exponent.
Unsigned(s) == IF s # <<>> /\ Head(s) \in {"-", "+"} THEN Tail(s) ELSE s
WellFormed(s, exp) ==
    LET u == Unsigned(s) IN
    /\ IsDigits(WholePart(u))
    /\ Point(u) # 0 => IsDigits(FracPart(u)) /\ Len(FracPart(u)) \in 1 .. exp
Meaning(s, exp) ==
    LET u == Unsigned(s)
        places == IF Point(u) = 0 THEN <<>> ELSE FracPart(u)
        n == Decimal(WholePart(u) \o places) * 10 ^ (exp - Len(places))
    IN IF Head(s) = "-" THEN - n ELSE n

\* ParseMoney, FromNairaString: a decimal number is read exactly, or refused if
\* it is out of range.
ParseExact ==
    Returned({"parse"}) /\ WellFormed(call.text, Exponent[call.cur]) =>
        LET n == Meaning(call.text, Exponent[call.cur]) IN
        answer.ok = (Abs(n) <= MaxInt) /\ (answer.ok => answer.value = n)

\* Whatever an operation answers is the true result, rounded where it says so, and
\* what it cannot answer is refused: sums, products, percentages, text and major units.
AmountsExact ==
    /\ TypeOK
    /\ AddSubExact /\ MulExactNonNegative /\ PercentRoundsHalfEven /\ SumExact
    /\ ParseExact /\ MajorExact
=============================================================================
