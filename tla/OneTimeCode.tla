---------------------------- MODULE OneTimeCode ----------------------------
(***************************************************************************)
(* The login codes of one phone.  Redis holds four keys for it: the resend *)
(* cooldown, the count of the day, the live code and the guesses at it.    *)
(* Issue sends one command per step, and requests overlap; Verify is one   *)
(* Lua script.  A key lapses when its time is up.                          *)
(*                                                                         *)
(* Codes are short and random, so two issues may draw the same one.        *)
(***************************************************************************)
EXTENDS Integers

CONSTANTS
    Requests,      \* requests for a code in progress
    Codes,         \* the codes generateOTP may draw
    MaxAttempts,   \* maxOTPAttempts
    MaxIssues      \* maxOTPIssuesPerDay

None == "none"

OneTimeCodeConstants ==
    /\ MaxAttempts \in Nat \ {0}
    /\ MaxIssues \in Nat \ {0}
    /\ None \notin Codes

VARIABLES
    faults,     \* may a command fail, or the process stop between two?
    cooldown,   \* otp:cooldown exists
    daily,      \* otp:daily, 0 when absent; values above the cap are one
    lapses,     \* otp:daily has an expiry
    code,       \* otp:code
    attempts,   \* otp:attempts, 0 when absent
    pc,         \* where each request for a code is
    count,      \* what INCR answered to each request
    \* History: codes stored and guesses compared on the account of the current
    \* day, whether the live code is on its account, requests counted in it;
    \* guesses compared with the live code, and how often it was accepted.
    stored, guessed, today, mine, compared, accepted

keys == <<cooldown, daily, lapses, code, attempts>>
history == <<stored, guessed, today, mine, compared, accepted>>
vars == <<faults, keys, pc, count, history>>

TypeOK ==
    /\ faults \in BOOLEAN
    /\ cooldown \in BOOLEAN /\ lapses \in BOOLEAN
    /\ daily \in 0 .. MaxIssues + 1
    /\ lapses => daily > 0
    /\ code \in Codes \cup {None}
    /\ attempts \in 0 .. MaxAttempts
    /\ pc \in [Requests -> {"idle", "cooled", "counted", "admitted"}]
    /\ count \in [Requests -> 0 .. MaxIssues + 1]
    /\ today \in BOOLEAN /\ mine \in [Requests -> BOOLEAN]
    /\ {stored, guessed, compared, accepted} \subseteq Nat

Init ==
    /\ faults \in BOOLEAN
    /\ cooldown = FALSE /\ daily = 0 /\ lapses = FALSE
    /\ code = None /\ attempts = 0
    /\ pc = [r \in Requests |-> "idle"]
    /\ count = [r \in Requests |-> 0]
    /\ stored = 0 /\ guessed = 0 /\ today = FALSE
    /\ mine = [r \in Requests |-> FALSE]
    /\ compared = 0 /\ accepted = 0

Goto(r, l) == pc' = [pc EXCEPT ![r] = l]

-----------------------------------------------------------------------------
(* RequestOTP and Issue *)

\* SET NX of the cooldown; a request inside it is refused and changes nothing.
Cooldown(r) ==
    /\ pc[r] = "idle"
    /\ ~ cooldown
    /\ cooldown' = TRUE
    /\ Goto(r, "cooled")
    /\ UNCHANGED <<faults, daily, lapses, code, attempts, count, history>>

\* INCR of the day's count.
CountIssue(r) ==
    /\ pc[r] = "cooled"
    /\ daily' = IF daily > MaxIssues THEN daily ELSE daily + 1
    /\ count' = [count EXCEPT ![r] = daily']
    /\ mine' = [mine EXCEPT ![r] = TRUE]
    /\ Goto(r, "counted")
    /\ UNCHANGED <<faults, cooldown, lapses, code, attempts, stored, guessed, today, compared,
                   accepted>>

\* The first count of a day gives the key its expiry; a missing key has none.
MutFirstExpires(r) == lapses' = lapses

FirstExpires(r) ==
    lapses' = IF count[r] = 1 THEN daily > 0 ELSE lapses

WithinCap(r) == count[r] <= MaxIssues

\* RequestOTP looks the phone up first; it may or may not be an active user's.
Deliver == BOOLEAN

\* EXPIRE, then the cap and deliver: a refused request, and one whose phone had
\* no active user when RequestOTP looked it up, ends here.
Admit(r) ==
    /\ pc[r] = "counted"
    /\ FirstExpires(r)
    /\ \E deliver \in Deliver :
           Goto(r, IF WithinCap(r) /\ deliver THEN "admitted" ELSE "idle")
    /\ UNCHANGED <<faults, cooldown, daily, code, attempts, count, history>>

ResetAttempts == attempts' = 0

\* MULTI: the new code replaces the old one and its guesses are forgotten.  The
\* message to the phone changes nothing here, sent or not.
StoreCode(r) ==
    /\ pc[r] = "admitted"
    /\ code' \in Codes
    /\ ResetAttempts
    /\ Goto(r, "idle")
    /\ today' = mine[r]
    /\ stored' = IF mine[r] THEN stored + 1 ELSE stored
    /\ compared' = 0 /\ accepted' = 0
    /\ UNCHANGED <<faults, cooldown, daily, lapses, count, guessed, mine>>

\* A failed command, or a process that stops, ends the request.  The command
\* may have run: INCR did when its answer is lost.
Fails(r) ==
    /\ faults
    /\ pc[r] # "idle"
    /\ Goto(r, "idle")
    /\ UNCHANGED <<faults, keys, count, history>>

\* EXPIRE fails and its error is not looked at: the request goes on.
ExpireFails(r) ==
    /\ faults
    /\ pc[r] = "counted"
    /\ count[r] = 1
    /\ Goto(r, "admitted")
    /\ UNCHANGED <<faults, keys, count, history>>

-----------------------------------------------------------------------------
(* Verify *)

\* A right code is left in place.
MutConsume == UNCHANGED <<code, attempts>>

Consume == code' = None /\ attempts' = 0

GuessAllowed == attempts + 1 <= MaxAttempts

\* verifyScript, with a guess at a live code (with none it changes nothing).
\* WorkerLogin issues a token to the guess accepted if the user is still active.
Verify(guess) ==
    /\ code # None
    /\ IF ~ GuessAllowed
       THEN Consume /\ UNCHANGED <<compared, guessed, accepted>>
       ELSE /\ compared' = compared + 1
            /\ guessed' = IF today THEN guessed + 1 ELSE guessed
            /\ IF guess = code
               THEN Consume /\ accepted' = accepted + 1
               ELSE attempts' = attempts + 1 /\ UNCHANGED <<code, accepted>>
    /\ UNCHANGED <<faults, cooldown, daily, lapses, pc, count, stored, today, mine>>

-----------------------------------------------------------------------------
(* Time *)

CooldownLapses ==
    /\ cooldown
    /\ cooldown' = FALSE
    /\ UNCHANGED <<faults, daily, lapses, code, attempts, pc, count, history>>

\* A new day begins: what was counted before it is not on its account.
DayLapses ==
    /\ lapses
    /\ daily' = 0 /\ lapses' = FALSE
    /\ stored' = 0 /\ guessed' = 0 /\ today' = FALSE
    /\ mine' = [r \in Requests |-> FALSE]
    /\ UNCHANGED <<faults, cooldown, code, attempts, pc, count, compared, accepted>>

CodeLapses ==
    /\ code # None
    /\ code' = None
    /\ UNCHANGED <<faults, cooldown, daily, lapses, attempts, pc, count, history>>

\* The guesses' key is set after the code's with the same time to live, so it
\* never lapses first.
AttemptsLapse ==
    /\ code = None
    /\ attempts > 0
    /\ attempts' = 0
    /\ UNCHANGED <<faults, cooldown, daily, lapses, code, pc, count, history>>

Next ==
    \/ \E r \in Requests :
        \/ Cooldown(r) \/ CountIssue(r) \/ Admit(r) \/ StoreCode(r)
        \/ Fails(r) \/ ExpireFails(r)
    \/ \E g \in Codes \cup {None} : Verify(g)
    \/ CooldownLapses \/ DayLapses \/ CodeLapses \/ AttemptsLapse

\* Requests that began go on, and a day's count with an expiry lapses.
Fairness ==
    /\ \A r \in Requests : WF_vars(CountIssue(r) \/ Admit(r) \/ StoreCode(r))
    /\ WF_vars(DayLapses)

Spec == Init /\ [][Next]_vars /\ Fairness

-----------------------------------------------------------------------------

\* A code is accepted at most once, and guessed at no more than maxOTPAttempts
\* times, however guesses, new issues and lapses of its keys interleave
\* (verifyScript, the transaction in Issue).
CodeSpentOnce == accepted <= 1 /\ compared <= MaxAttempts

\* The comment on the OTP policy: the codes a day's count admits are at most
\* maxOTPIssuesPerDay and allow that many times maxOTPAttempts guesses, also
\* when a slow request outlives its cooldown.
DayBudget == stored <= MaxIssues /\ guessed <= MaxIssues * MaxAttempts

\* Every fresh code allows a worker all the guesses: a code with no guess
\* compared has none counted against it (the Del of otp:attempts in Issue).
FreshCodeHasAllGuesses == code # None => attempts = compared

\* The cap is a daily one: a phone that reached it can ask for codes again, while no
\* command fails.  (A count whose expiry was not set stays for good.)
CapLifts == (daily > MaxIssues /\ ~ faults) ~> (daily = 0)

\* What a phone's keys are there to hold, whichever of them lapses or is lost first:
\* one use of a code, its guesses, the day's codes, and all the guesses of a new one.
CodeWithinLimits == TypeOK /\ CodeSpentOnce /\ DayBudget /\ FreshCodeHasAllGuesses
=============================================================================
