----------------------------- MODULE Dependency -----------------------------
(***************************************************************************)
(* Dependency scoring of one worker's early pay.  ScoreDependency reads    *)
(* the draws of the last 90 days and gives four sub-scores, whose sum puts *)
(* the worker in a tier; the tier narrows the cap and lengthens the wait.  *)
(*                                                                         *)
(* Time moves in steps of 15 days, two to a month: the first step of a     *)
(* month lies in the 72 hours after payday, the second does not.  The      *)
(* draws are kept by age, so a step of time is a shift.  Payday is the     *)
(* month's end that lastPayday assumes; the income of a worker without an  *)
(* employer follows its own cycle, so any part of a month's pay may        *)
(* already be earned right after it.  Shares of the salary are whole       *)
(* multiples of 5 percent; for these, and for fewer than 15 draws a month, *)
(* the code's floating point truncates where exact arithmetic does.        *)
(***************************************************************************)
EXTENDS DependencyTiers

CONSTANTS
    Habits,   \* pairs of EWAPolicy.MaxDrawsPerPeriod and what one draw takes,
              \* in percent of the monthly salary
    Revoked,  \* bound: ages at which a draw may be cancelled or written off
    Caps,     \* policy caps the tier is applied to
    Floors    \* values of EWAPolicy.EmergencyFloorKobo

Steps == 1 .. 6     \* dependencyWindow: 90 days

DependencyConstants ==
    /\ Habits \subseteq (1 .. 14) \X {5 * k : k \in 1 .. 20}
    /\ Revoked \subseteq Steps
    /\ Caps \subseteq Nat
    /\ Floors \subseteq Nat

VARIABLES
    limit,    \* the organization's draw limit
    share,    \* the size of the worker's draws
    draws,    \* draws by age; draws[1] are today's
    payweek,  \* today is within 72 hours after payday
    quiet,    \* history: steps since the last draw, at most 6
    peak      \* history: the score the last draw left

vars == <<limit, share, draws, payweek, quiet, peak>>

Recent == draws[1] + draws[2]     \* the last 30 days
Prior == draws[3] + draws[4]      \* the 30 days before them
InWindow == Recent + Prior + draws[5] + draws[6]

TypeOK ==
    /\ <<limit, share>> \in Habits
    /\ draws \in [Steps -> 0 .. limit]
    /\ payweek \in BOOLEAN
    /\ quiet \in Steps \cup {0}
    /\ peak \in 0 .. 100

-----------------------------------------------------------------------------
(* ScoreDependency.                                                        *)

\* Draws per month over the three months of the window.
Frequency == scaleScore(InWindow, 3, 300, 800, 20)

\* What was drawn against three months' salary.
Utilization == scaleScore(share * InWindow, 300, 20, 50, 35)

Saturated == Frequency >= 20 /\ Utilization >= 35

\* The last 30 days against the 30 before them; a saturated worker has
\* nowhere left to rise to.
Escalation ==
    IF Saturated THEN 30
    ELSE IF Prior > 0 /\ Recent > Prior THEN scaleScore(Recent - Prior, Prior, 30, 100, 30)
    ELSE IF Prior = 0 /\ Recent >= 3 THEN 15
    ELSE 0

\* Draws within 72 hours after the last payday.
Immediacy == scaleScore(IF payweek THEN draws[1] ELSE draws[2], 1, 100, 300, 15)

\* At most 20 + 35 + 30 + 15, so the code's ceiling of 100 never bites.
Score == Frequency + Utilization + Escalation + Immediacy

-----------------------------------------------------------------------------
Init ==
    /\ \E h \in Habits : limit = h[1] /\ share = h[2]
    /\ draws = [i \in Steps |-> 0]
    /\ payweek = TRUE
    /\ quiet = 6
    /\ peak = 0

\* The draws as the next 15 days leave them: those 90 days old are outside.
Older == [i \in Steps |-> IF i = 1 THEN 0 ELSE draws[i - 1]]

ThisMonth == draws[1] + (IF payweek THEN 0 ELSE draws[2])

\* An approved advance, within the month's limit and (a bound) the month's pay.
Draw ==
    /\ ThisMonth < limit
    /\ (ThisMonth + 1) * share <= 100
    /\ draws' = [draws EXCEPT ![1] = @ + 1]
    /\ quiet' = 0
    /\ UNCHANGED <<limit, share, payweek>>
    /\ peak' = Score'

\* A draw is cancelled or written off and leaves the history.
Drop(i) ==
    /\ draws[i] > 0
    /\ draws' = [draws EXCEPT ![i] = @ - 1]
    /\ UNCHANGED <<limit, share, payweek, quiet>>
    /\ peak' = Score'

Wait ==
    /\ draws' = Older
    /\ payweek' = ~ payweek
    /\ quiet' = Min({6, quiet + 1})
    /\ UNCHANGED <<limit, share, peak>>

Next == Draw \/ Wait \/ \E i \in Revoked : Drop(i)

Spec == Init /\ [][Next]_vars

-----------------------------------------------------------------------------
Tier == tierFor(Score)
OneMonth == \A i \in Steps : draws[i] > 0 => i <= (IF payweek THEN 1 ELSE 2)

\* The draws of a single month, up to its limit and its pay, never restrict a
\* worker: their cap and their wait stay what they were.
OneMonthNeverRestricts ==
    OneMonth => TierCoolingOff(Tier) = 1 /\ \A c \in Caps, f \in Floors : TierCap(Tier, c, f) = c

\* A worker who has drawn eight times a month and half of the pay for the whole
\* window is dependent, although nothing of theirs is still rising; one who has
\* drawn half of the pay is at least elevated, on that alone.
HeavyUseIsSeen ==
    /\ InWindow >= 24 /\ share * InWindow >= 150 => Tier = 4
    /\ share * InWindow >= 150 => Tier >= 2

\* The average user, at two or three draws a month that do not rise and take
\* less than a fifth of the pay, is healthy, whenever they draw.
AverageStaysHealthy ==
    /\ Recent <= 3 /\ Prior = Recent /\ draws[5] + draws[6] <= 3
    /\ share * InWindow <= 60
    => Tier = 1

\* A worker who stops drawing is scored no higher a month later than the last
\* draw left them, and has a clean record after three.
PatternEasesBack ==
    /\ quiet >= 2 => Score <= peak
    /\ quiet = 6 => Score = 0

Narrows ==
    Draw => LET before == Tier
                after == Tier'
            IN  /\ Score' >= Score
                /\ TierCoolingOff(after) >= TierCoolingOff(before)
                /\ \A c \in Caps, f \in Floors :
                      /\ TierCap(after, c, f) <= TierCap(before, c, f)
                      /\ TierCap(after, c, f) >= Min({f, c})

\* One more draw never lowers the score nor widens access, and access never
\* falls below the emergency floor or, where that is less, the cap.
DrawNarrowsAccess == [][Narrows]_vars

\* The score tells habits apart: one month is none, average use is none, heavy use is
\* one although it no longer rises, and what was one wears off (ScoreDependency).
ScoreTellsHabits ==
    /\ TypeOK
    /\ OneMonthNeverRestricts /\ AverageStaysHealthy
    /\ HeavyUseIsSeen /\ PatternEasesBack
=============================================================================
