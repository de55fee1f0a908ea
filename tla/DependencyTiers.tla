-------------------------- MODULE DependencyTiers --------------------------
(***************************************************************************)
(* The scales of dependency scoring, and how a tier narrows early pay.     *)
(***************************************************************************)
EXTENDS Integers, FiniteSetsExt

\* num/den on the scale from low to high, both in hundredths, truncated.
scaleScore(num, den, low, high, max) ==
    IF 100 * num <= low * den THEN 0
    ELSE IF 100 * num >= high * den THEN max
    ELSE (max * (100 * num - low * den)) \div ((high - low) * den)

\* The tier, as its place among healthy, elevated, strained and
\* dependent.
tierFor(score) ==
    CASE score >= 80 -> 4
      [] score \in 60 .. 79 -> 3
      [] score \in 35 .. 59 -> 2
      [] OTHER -> 1

\* Kobo.Percent of an amount that is not negative: rounded half to even.
PercentOf(x, num, den) ==
    LET q == (x * num) \div den
        r == (x * num) % den
    IN  IF 2 * r > den \/ (2 * r = den /\ q % 2 = 1) THEN q + 1 ELSE q

\* Mutant: the emergency floor is forgotten for the strained.
MutTierCap(tier, cap, floor) ==
    CASE tier = 4 -> Min({floor, cap}) [] tier = 3 -> PercentOf(cap, 50, 100) [] OTHER -> cap

TierCap(tier, cap, floor) ==
    CASE tier = 4 -> Min({floor, cap})
      [] tier = 3 -> Max({PercentOf(cap, 50, 100), Min({floor, cap})})
      [] OTHER -> cap

\* TierCoolingOff, in multiples of CoolingOffHours.
TierCoolingOff(tier) == IF tier >= 3 THEN 2 ELSE 1
=============================================================================
