--------------------------- MODULE EmployerAccess ---------------------------
(***************************************************************************)
(* The people who may log in to one employer organization, and their       *)
(* sessions.  Onboarding creates the organization and its first admin;     *)
(* admins add people, change roles, deactivate and reset passwords; a      *)
(* person logs in, chooses a password and refreshes the token.             *)
(*                                                                         *)
(* A token is a signed copy of what was true when it was issued.  Of the   *)
(* tokens a person holds the model follows one: an issued token either     *)
(* takes its place or is forgotten.                                        *)
(***************************************************************************)
EXTENDS Integers, FiniteSets

CONSTANTS
    People,    \* those who may be given a login
    First,     \* the admin named at onboarding
    TTL,       \* how long a token lives
    MaxAge,    \* MaxSessionAge
    Horizon,   \* bound on the clock
    MaxOpen    \* bound on the operations under way at one time

EmployerAccessConstants ==
    /\ First \in People
    /\ TTL \in Nat \ {0}
    /\ MaxAge \in Nat
    /\ Horizon \in Nat /\ MaxOpen \in Nat

\* The compliance role is a viewer here: neither manages people.
Roles == {"admin", "viewer"}
NoToken == [auth |-> 0, exp |-> 0, must |-> TRUE, role |-> "viewer"]
Idle == [pc |-> "idle", of |-> First, role |-> "viewer", active |-> FALSE]

VARIABLES
    org,       \* "none", "created" (still without people), "ready", "removed",
               \* or "empty": onboarding failed and so did its clean-up
    exists,    \* exists[p]: employer_users has a row for p
    role, active, must,
    password,  \* "temp" as generated, or "own"
    token,     \* the token followed for each person
    now,
    lock,      \* who holds the advisory lock on the org's people
    admin,     \* admin[p]: the role change p is making
    changing,  \* the token with which p is changing the password, or NoToken
    \* History: when p last gave a password, and whether p ever chose one.
    proof, chose

people == <<exists, role, active, must, password>>
history == <<proof, chose>>
vars == <<org, people, token, now, lock, admin, changing, history>>

Tokens == [auth: 0 .. Horizon, exp: 0 .. Horizon + TTL, must: BOOLEAN, role: Roles]

\* The rows, tokens and operations in progress are well formed, and the lock is
\* held by the operation that took it.
TypeOK ==
    /\ org \in {"none", "created", "ready", "removed", "empty"}
    /\ exists \in [People -> BOOLEAN] /\ active \in [People -> BOOLEAN]
    /\ must \in [People -> BOOLEAN]
    /\ role \in [People -> Roles]
    /\ password \in [People -> {"temp", "own"}]
    /\ token \in [People -> Tokens]
    /\ now \in 0 .. Horizon
    /\ lock \in SUBSET People /\ Cardinality(lock) <= 1
    /\ \A p \in People : (admin[p].pc = "locked") = (p \in lock)
    /\ admin \in [People -> [pc: {"idle", "asked", "locked"}, of: People,
                             role: Roles, active: BOOLEAN]]
    /\ changing \in [People -> Tokens]
    /\ proof \in [People -> 0 .. Horizon] /\ chose \in [People -> BOOLEAN]

Init ==
    /\ org = "none" /\ now = 0 /\ lock = {}
    /\ exists = [p \in People |-> FALSE] /\ active = [p \in People |-> FALSE]
    /\ must = [p \in People |-> FALSE] /\ role = [p \in People |-> "viewer"]
    /\ password = [p \in People |-> "temp"]
    /\ token = [p \in People |-> NoToken]
    /\ admin = [p \in People |-> Idle]
    /\ changing = [p \in People |-> NoToken]
    /\ proof = [p \in People |-> 0] /\ chose = [p \in People |-> FALSE]

-----------------------------------------------------------------------------
(* JWTAuth, RequireActiveEmployerUser and, on the routes that manage people,
   RequirePasswordChanged and RequireRole("admin"). *)
TokenValid(p) == now < token[p].exp
LetIn(p) == TokenValid(p) /\ active[p]
MayManage(p) == LetIn(p) /\ ~token[p].must /\ token[p].role = "admin"

\* What a new row holds: a generated password that must be changed.
Row(p, r) ==
    /\ exists' = [exists EXCEPT ![p] = TRUE]
    /\ active' = [active EXCEPT ![p] = TRUE]
    /\ role' = [role EXCEPT ![p] = r]
    /\ password' = [password EXCEPT ![p] = "temp"]
    /\ must' = [must EXCEPT ![p] = TRUE]

Underway ==
    Cardinality({p \in People : admin[p].pc # "idle"})
    + Cardinality({p \in People : changing[p] # NoToken})

Issue(p, t) ==
    \/ token' = [token EXCEPT ![p] = t]
    \/ token' = token

-----------------------------------------------------------------------------
(* CreateOrganization commits the organization, then adds its first admin; if
   that fails it deletes the organization, and does not look whether it did. *)
CreateOrg ==
    /\ org = "none"
    /\ org' = "created"
    /\ UNCHANGED <<people, token, now, lock, admin, changing, history>>

FirstAdmin ==
    /\ org = "created"
    /\ Row(First, "admin")
    /\ org' = "ready"
    /\ UNCHANGED <<token, now, lock, admin, changing, history>>

FirstAdminFails ==
    /\ org = "created"
    /\ org' \in {"removed", "empty"}
    /\ UNCHANGED <<people, token, now, lock, admin, changing, history>>

\* Create, by an admin; the email is unique.
Create(p, q, r) ==
    /\ MayManage(p) /\ ~exists[q]
    /\ Row(q, r)
    /\ UNCHANGED <<org, token, now, lock, admin, changing, history>>

(* Update: past the gate; under the lock, the row and the other admins are
   read; the change is refused or written, and the lock goes with the commit.
   A nil field keeps what the row holds, which is one of the values asked for. *)
AskUpdate(p, q, r, a) ==
    /\ Underway < MaxOpen
    /\ MayManage(p) /\ admin[p].pc = "idle" /\ exists[q]
    /\ admin' = [admin EXCEPT ![p] = [pc |-> "asked", of |-> q, role |-> r, active |-> a]]
    /\ UNCHANGED <<org, people, token, now, lock, changing, history>>

OtherAdmins(q) == {o \in People \ {q} : exists[o] /\ role[o] = "admin" /\ active[o]}

Leaves(q, r, a) == role[q] = "admin" /\ active[q] /\ (r # "admin" \/ ~a)

\* Bug: the last admin is recognised by role alone.
MutAllowed(q, r, a) ==
    Leaves(q, r, a) => \E o \in People \ {q} : exists[o] /\ role[o] = "admin"

Allowed(q, r, a) == Leaves(q, r, a) => OtherAdmins(q) # {}

LockFree == lock = {}

LockPeople(p) ==
    LET u == admin[p] IN
    /\ u.pc = "asked" /\ LockFree
    /\ IF Allowed(u.of, u.role, u.active)
       THEN /\ lock' = {p}
            /\ admin' = [admin EXCEPT ![p].pc = "locked"]
       ELSE /\ admin' = [admin EXCEPT ![p] = Idle]
            /\ UNCHANGED lock
    /\ UNCHANGED <<org, people, token, now, changing, history>>

CommitUpdate(p) ==
    LET u == admin[p] IN
    /\ u.pc = "locked"
    /\ role' = [role EXCEPT ![u.of] = u.role]
    /\ active' = [active EXCEPT ![u.of] = u.active]
    /\ lock' = lock \ {p}
    /\ admin' = [admin EXCEPT ![p] = Idle]
    /\ UNCHANGED <<org, exists, must, password, token, now, changing, history>>

\* ResetPassword: the hash and the flag in one statement.
ResetPassword(p, q) ==
    /\ MayManage(p) /\ exists[q]
    /\ password' = [password EXCEPT ![q] = "temp"]
    /\ must' = [must EXCEPT ![q] = TRUE]
    /\ UNCHANGED <<org, exists, role, active, token, now, lock, admin, changing, history>>

-----------------------------------------------------------------------------
(* Authenticate, with the right password, and loginUser. *)
Authenticated(p) == org = "ready" /\ exists[p] /\ active[p]

Login(p) ==
    /\ Authenticated(p)
    /\ Issue(p, [auth |-> now, exp |-> now + TTL, must |-> must[p], role |-> role[p]])
    /\ proof' = [proof EXCEPT ![p] = now]
    /\ UNCHANGED <<org, people, now, lock, admin, changing, chose>>

\* Bug: the refreshed token starts a new session.
MutRenewed(t) == [t EXCEPT !.exp = now + TTL, !.auth = now]

\* The claims RefreshToken carries over, for another TTL.
Renewed(t) == [t EXCEPT !.exp = now + TTL]

RefreshToken(p) ==
    /\ TokenValid(p) /\ now - token[p].auth <= MaxAge
    /\ org = "ready" /\ active[p]
    /\ Issue(p, Renewed(token[p]))
    /\ UNCHANGED <<org, people, now, lock, admin, changing, history>>

(* ChangePassword reads the row and compares the current password, without a
   lock; then it writes, and answers with a token free of the flag. *)
ReadPassword(p) ==
    /\ Underway < MaxOpen
    /\ LetIn(p) /\ changing[p] = NoToken
    /\ changing' = [changing EXCEPT ![p] = token[p]]
    /\ proof' = [proof EXCEPT ![p] = now]
    /\ UNCHANGED <<org, people, token, now, lock, admin, chose>>

ChangePassword(p) ==
    /\ changing[p] # NoToken
    /\ password' = [password EXCEPT ![p] = "own"]
    /\ must' = [must EXCEPT ![p] = FALSE]
    /\ chose' = [chose EXCEPT ![p] = TRUE]
    /\ Issue(p, [changing[p] EXCEPT !.exp = now + TTL, !.must = FALSE])
    /\ changing' = [changing EXCEPT ![p] = NoToken]
    /\ UNCHANGED <<org, exists, role, active, now, lock, admin, proof>>

\* A request is over before the clock, which counts hours, moves on.
Tick ==
    /\ now < Horizon
    /\ \A p \in People : changing[p] = NoToken
    /\ now' = now + 1
    /\ UNCHANGED <<org, people, token, lock, admin, changing, history>>

Next ==
    \/ CreateOrg \/ FirstAdmin \/ FirstAdminFails \/ Tick
    \/ \E p \in People :
        \/ LockPeople(p) \/ CommitUpdate(p)
        \/ Login(p) \/ RefreshToken(p) \/ ReadPassword(p) \/ ChangePassword(p)
        \/ \E q \in People :
            \/ ResetPassword(p, q)
            \/ \E r \in Roles :
                \/ Create(p, q, r)
                \/ \E a \in BOOLEAN : AskUpdate(p, q, r, a)

Spec == Init /\ [][Next]_vars

-----------------------------------------------------------------------------
(* Properties *)

\* Update never leaves a ready organization without an active admin, however the
\* demotions and deactivations of several admins interleave.
AdminRemains ==
    org = "ready" => \E p \in People : exists[p] /\ role[p] = "admin" /\ active[p]

\* A row with a generated password carries the flag, and one with a chosen
\* password does not, also when a reset overlaps the person's own change.
FlagFollowsPassword ==
    \A p \in People : exists[p] => (must[p] <=> password[p] = "temp")

\* Whoever holds a token that works gave a password, to log in or to change it,
\* less than MaxSessionAge and one token's life ago: refreshing again and again
\* comes to an end, although a password change keeps the first login's AuthTime.
SessionEnds ==
    \A p \in People : TokenValid(p) => now - proof[p] < MaxAge + TTL

\* Nobody holds a token for the employer's routes who never chose a password:
\* refreshing does not turn a limited session into a full one.
FullTokenWasChosen ==
    \A p \in People : ~token[p].must => chose[p]

\* A session is no longer and no wider than the password behind it: the flag follows
\* the password, limited tokens stay limited, and refreshing comes to an end.
SessionInv == TypeOK /\ FlagFollowsPassword /\ SessionEnds /\ FullTokenWasChosen
=============================================================================
