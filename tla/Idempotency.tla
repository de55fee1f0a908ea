---------------------------- MODULE Idempotency ----------------------------
(***************************************************************************)
(* The middleware behind the Idempotency-Key header, for one key of one    *)
(* organization and route.  Requests with the key share one Redis entry:   *)
(* absent, a lock that lasts inflightTTL, or the response of a request     *)
(* that succeeded.  Every command to Redis is a step of its own.           *)
(*                                                                         *)
(* The entry of a response outlives the model: clients retry within        *)
(* idempotencyTTL.                                                         *)
(***************************************************************************)
EXTENDS Integers, FiniteSets

CONSTANTS
    Requests,      \* requests that carry the key
    Body,          \* the digest of each request's body
    SlowHandlers   \* may a handler outlast inflightTTL?

IdempotencyConstants ==
    /\ SlowHandlers \in BOOLEAN
    /\ Requests \subseteq DOMAIN Body

VARIABLES
    entry,    \* the Redis entry
    pc,       \* where each request is
    answer,   \* what each request was answered
    effects   \* how often each request's handler has committed its work

vars == <<entry, pc, answer, effects>>

Absent == [kind |-> "absent"]
\* The owner is history: the sentinel does not name it.
Lock(r) == [kind |-> "inflight", owner |-> r]
Response(r) == [kind |-> "response", hash |-> Body[r], by |-> r]

NoAnswer == [kind |-> "none"]
Refused(code) == [kind |-> "refused", code |-> code]
Fresh(ok) == [kind |-> "fresh", ok |-> ok]
Replayed(r) == [kind |-> "replayed", by |-> r]

KeyValues == {Absent} \cup {Lock(r) : r \in Requests} \cup {Response(r) : r \in Requests}
Answers ==
    {NoAnswer} \cup {Refused(c) : c \in {"conflict", "mismatch", "unavailable"}}
    \cup {Fresh(ok) : ok \in BOOLEAN} \cup {Replayed(r) : r \in Requests}

TypeOK ==
    /\ entry \in KeyValues
    /\ pc \in [Requests -> {"new", "missed", "handler", "store", "release", "done",
                            "unstored", "crashed"}]
    /\ answer \in [Requests -> Answers]
    /\ effects \in [Requests -> 0 .. 1]

Init ==
    /\ entry = Absent
    /\ pc = [r \in Requests |-> "new"]
    /\ answer = [r \in Requests |-> NoAnswer]
    /\ effects = [r \in Requests |-> 0]

Goto(r, l) == pc' = [pc EXCEPT ![r] = l]
Answer(r, a) == answer' = [answer EXCEPT ![r] = a] /\ Goto(r, "done")

SameBody(r) == entry.hash = Body[r]

\* GET: a lock is refused with 409, a response of the same body replayed, one of
\* another body refused with 422.  An error of Redis counts as a miss.
Get(r) ==
    /\ pc[r] = "new"
    /\ \/ entry.kind = "inflight" /\ Answer(r, Refused("conflict"))
       \/ entry.kind = "response" /\ SameBody(r) /\ Answer(r, Replayed(entry.by))
       \/ entry.kind = "response" /\ ~ SameBody(r) /\ Answer(r, Refused("mismatch"))
       \/ entry.kind = "absent" /\ Goto(r, "missed") /\ UNCHANGED answer
    /\ UNCHANGED <<entry, effects>>

GetFails(r) ==
    /\ pc[r] = "new"
    /\ Goto(r, "missed")
    /\ UNCHANGED <<entry, answer, effects>>

\* Bug: SET in place of SETNX, after the GET that missed.
MutSetNX(r) ==
    /\ pc[r] = "missed"
    /\ entry' = Lock(r) /\ Goto(r, "handler")
    /\ UNCHANGED <<answer, effects>>

\* SETNX claims the key, or somebody else has it.
SetNX(r) ==
    /\ pc[r] = "missed"
    /\ IF entry = Absent
       THEN entry' = Lock(r) /\ Goto(r, "handler") /\ UNCHANGED answer
       ELSE Answer(r, Refused("conflict")) /\ UNCHANGED entry
    /\ UNCHANGED effects

SetNXFails(r) ==
    /\ pc[r] = "missed"
    /\ Answer(r, Refused("unavailable"))
    /\ UNCHANGED <<entry, effects>>

\* The handler commits its work and answers 2xx; commits and fails afterwards (a
\* payroll the queue rejected); or fails without effect.
HandlerReturns(r) ==
    /\ pc[r] = "handler"
    /\ \E committed, ok \in BOOLEAN :
          /\ ok => committed
          /\ effects' = [effects EXCEPT ![r] = IF committed THEN 1 ELSE 0]
          /\ answer' = [answer EXCEPT ![r] = Fresh(ok)]
          /\ Goto(r, IF ok THEN "store" ELSE "release")
    /\ UNCHANGED entry

\* SET of the response over whatever is there; Redis may refuse it, unnoticed.
Store(r) ==
    /\ pc[r] = "store"
    /\ entry' = Response(r)
    /\ Goto(r, "done")
    /\ UNCHANGED <<answer, effects>>

StoreFails(r) ==
    /\ pc[r] = "store"
    /\ Goto(r, "unstored")
    /\ UNCHANGED <<entry, answer, effects>>

\* DEL of whatever is there.
Release(r) ==
    /\ pc[r] = "release"
    /\ entry' = Absent
    /\ Goto(r, "done")
    /\ UNCHANGED <<answer, effects>>

\* The process dies, before or after the handler's commit.
Crash(r) ==
    /\ pc[r] \in {"handler", "store", "release"}
    /\ \E committed \in 0 .. 1 :
          effects' = [effects EXCEPT ![r] = IF pc[r] = "handler" THEN committed ELSE @]
    /\ Goto(r, "crashed")
    /\ UNCHANGED <<entry, answer>>

\* A sentinel without a time to live.
MutLockExpires == FALSE /\ UNCHANGED vars

\* inflightTTL runs out: after a crash or a lost release, or under a handler that is
\* slower than it.
LockExpires ==
    /\ entry.kind = "inflight"
    /\ SlowHandlers \/ pc[entry.owner] \in {"done", "unstored", "crashed"}
    /\ entry' = Absent
    /\ UNCHANGED <<pc, answer, effects>>

Step(r) ==
    \/ Get(r) \/ SetNX(r) \/ HandlerReturns(r) \/ Store(r) \/ Release(r)

Next ==
    \/ \E r \in Requests :
          Step(r) \/ GetFails(r) \/ SetNXFails(r) \/ StoreFails(r) \/ Crash(r)
    \/ LockExpires

Spec == Init /\ [][Next]_vars

\* Requests run to their end, and Redis expires keys.
Fairness == (\A r \in Requests : WF_vars(Step(r))) /\ WF_vars(LockExpires)

FairSpec == Spec /\ Fairness

-----------------------------------------------------------------------------
(* Properties.                                                             *)

\* Two requests with one key never run their handlers at the same time, whatever GET
\* they both missed (SETNX).
OneHandlerAtATime ==
    \A r, q \in Requests : pc[r] = "handler" /\ pc[q] = "handler" => r = q

\* A response is replayed only to a request with the body that produced it, and only
\* after that request committed its work.
ReplayIsOwn ==
    \A r \in Requests : answer[r].kind = "replayed" =>
        /\ Body[answer[r].by] = Body[r]
        /\ effects[answer[r].by] = 1

\* A stored response is never lost or overtaken: no handler runs beside it and nothing
\* overwrites it within the retry window.
ResponseStands ==
    [][entry.kind = "response" =>
          /\ entry' = entry
          /\ \A r \in Requests : pc'[r] = "handler" => pc[r] = "handler"]_vars

\* The work is done twice only if the first response was lost: the handler failed
\* after its commit, the process died, or Redis refused the response.
SecondEffectNeedsLoss ==
    \A r, q \in Requests :
        r # q /\ effects[r] = 1 /\ effects[q] = 1 =>
            \E p \in {r, q} : \/ pc[p] = "crashed"
                              \/ answer[p] = Fresh(FALSE)
                              \/ pc[p] = "unstored"

\* A lock goes away, also after a crash, so the key can be used again.
LockIsReleased == entry.kind = "inflight" ~> entry.kind # "inflight"

\* A key stands for one piece of work: its handlers do not overlap, its response goes
\* to its own body and stands, and work is repeated only if its response was lost.
KeyHasOneEffect ==
    /\ [](TypeOK /\ OneHandlerAtATime /\ ReplayIsOwn /\ SecondEffectNeedsLoss)
    /\ ResponseStands
=============================================================================
