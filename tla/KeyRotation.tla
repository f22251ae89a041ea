---------------------------- MODULE KeyRotation ----------------------------
(***************************************************************************)
(* KeyPool and the two loops that rotate over it: withKeyRotation of the   *)
(* AI adapters and SttService.transcribe (MaxAttempts = 1: no withRetry).  *)
(*                                                                         *)
(* With the in-memory store the awaits of next(), penalize() and           *)
(* retryAfterMs() resolve before the event loop serves other I/O, so that  *)
(* parking a key and leasing the next one is a single step; the upstream   *)
(* call and the backoffs between its attempts are where calls interleave.  *)
(***************************************************************************)
EXTENDS Integers, FiniteSets

CONSTANTS
    Calls,        \* slots for rotations in flight
    KeyCount,     \* keys in the pool
    Cooldown,     \* cooldownMs, by kind
    MaxAttempts,  \* maxRetries + 1
    MaxTime       \* bound of the model: the clock stops at MaxTime

Kinds == {"rate", "quota", "invalid"}
KeyIds == 0..KeyCount - 1

ASSUME RotationAssumption ==
    /\ KeyCount \in Nat \ {0} /\ MaxAttempts \in Nat \ {0} /\ MaxTime \in Nat
    /\ Cooldown \in [Kinds -> Nat]

VARIABLES
    now,     \* Date.now()
    until,   \* the cooldown store
    cursor,  \* round-robin position of the pool
    callPc,  \* "idle", or "upstream": a request to the provider is under way
    call,    \* local variables and outcome of each rotation
    owed,    \* auxiliary: the latest end of any cooldown a key was ever given
    waits    \* auxiliary: leases since a key was last leased or parked

poolVars == <<until, cursor, owed, waits>>
callVars == <<callPc, call>>
vars == <<now, poolVars, callVars>>

\* turn counts the leases, attempt the calls made with the current one.  tried and
\* spare are auxiliary: the keys that had a turn, and those that were free when the
\* rotation gave up.
Call ==
    [key : KeyIds, turn : 0..KeyCount, attempt : 0..MaxAttempts,
     outcome : {"none", "answered", "failed", "exhausted"}, retryAfter : Nat,
     tried : SUBSET KeyIds, spare : SUBSET KeyIds]

NoCall == [key |-> 0, turn |-> 0, attempt |-> 0, outcome |-> "none", retryAfter |-> 0,
           tried |-> {}, spare |-> {}]

-----------------------------------------------------------------------------
(* KeyPool.  u stands for the cooldowns as the step leaves them.           *)

FreeKeys(u) == {k \in KeyIds : u[k] <= now}

Distance(k) == (k + KeyCount - cursor) % KeyCount

\* Wrong form: the scan stops one position early.
ScanStopsEarly(u) ==
    {k \in FreeKeys(u) : /\ \A j \in FreeKeys(u) : Distance(k) <= Distance(j)
                         /\ Distance(k) < KeyCount - 1}

\* next(): the first free key at or after the cursor; empty if every key is parked.
NextKey(u) == {k \in FreeKeys(u) : \A j \in FreeKeys(u) : Distance(k) <= Distance(j)}

\* Wrong form: the position stays where it is.
CursorStays(k) == cursor

CursorAfter(k) == (k + 1) % KeyCount

\* Wrong form: the last cooldown wins.
LastCooldownWins(k, kind) == [until EXCEPT ![k] = now + Cooldown[kind]]

Penalized(k, kind) ==
    [until EXCEPT ![k] = IF now + Cooldown[kind] > @ THEN now + Cooldown[kind] ELSE @]

RetryAfter(u) ==
    IF FreeKeys(u) # {} THEN 0
    ELSE CHOOSE d \in {u[k] - now : k \in KeyIds} : \A k \in KeyIds : d <= u[k] - now

-----------------------------------------------------------------------------
(* One turn of the loop: lease a key and call upstream, or give up.  job is*)
(* the rotation so far.                                                    *)

Lease(c, job, u) ==
    /\ job.turn < KeyCount
    /\ \E k \in NextKey(u) :
          /\ cursor' = CursorAfter(k)
          /\ call' = [call EXCEPT ![c] =
                        [job EXCEPT !.key = k, !.turn = @ + 1, !.attempt = 1,
                                    !.tried = @ \cup {k}]]
          /\ waits' = [j \in KeyIds |-> IF j = k \/ j \notin FreeKeys(u) THEN 0
                                        ELSE waits[j] + 1]
    /\ callPc' = [callPc EXCEPT ![c] = "upstream"]

GiveUp(c, job, u) ==
    /\ job.turn = KeyCount \/ NextKey(u) = {}
    /\ call' = [call EXCEPT ![c] = [job EXCEPT !.outcome = "exhausted", !.spare = FreeKeys(u),
                                               !.retryAfter = RetryAfter(u)]]
    /\ callPc' = [callPc EXCEPT ![c] = "idle"]
    /\ waits' = [j \in KeyIds |-> IF j \in FreeKeys(u) THEN waits[j] ELSE 0]
    /\ UNCHANGED cursor

Start(c) ==
    /\ callPc[c] = "idle"
    /\ Lease(c, NoCall, until) \/ GiveUp(c, NoCall, until)
    /\ UNCHANGED <<now, until, owed>>

\* An answer, or an error that is none of the key's.
End(c, outcome) ==
    /\ callPc[c] = "upstream"
    /\ callPc' = [callPc EXCEPT ![c] = "idle"]
    /\ call' = [call EXCEPT ![c].outcome = outcome]
    /\ UNCHANGED <<now, poolVars>>

\* Wrong form: the count of attempts starts over.
RetryForever(c) ==
    /\ callPc[c] = "upstream"
    /\ call' = [call EXCEPT ![c].attempt = (@ % MaxAttempts) + 1]
    /\ UNCHANGED <<now, poolVars, callPc>>

\* withRetry: another attempt with the same key, after a backoff.
Retry(c) ==
    /\ callPc[c] = "upstream"
    /\ call[c].attempt < MaxAttempts
    /\ call' = [call EXCEPT ![c].attempt = @ + 1]
    /\ UNCHANGED <<now, poolVars, callPc>>

\* The error is the key's: park it and take the next one.
Exhaust(c, kind) ==
    LET u == Penalized(call[c].key, kind)
        end == now + Cooldown[kind]
    IN
    /\ callPc[c] = "upstream"
    /\ until' = u
    /\ owed' = [owed EXCEPT ![call[c].key] = IF end > @ THEN end ELSE @]
    /\ Lease(c, call[c], u) \/ GiveUp(c, call[c], u)
    /\ UNCHANGED now

CallStep(c) ==
    \/ End(c, "answered") \/ End(c, "failed")
    \/ Retry(c)
    \/ \E kind \in Kinds : Exhaust(c, kind)

Tick ==
    /\ now < MaxTime
    /\ now' = now + 1
    /\ UNCHANGED <<poolVars, callVars>>

\* The store is process-local: a restart forgets every cooldown.
Restart ==
    /\ until' = [k \in KeyIds |-> 0] /\ owed' = [k \in KeyIds |-> 0]
    /\ cursor' = 0
    /\ waits' = [k \in KeyIds |-> 0]
    /\ callPc' = [c \in Calls |-> "idle"]
    /\ call' = [c \in Calls |-> NoCall]
    /\ UNCHANGED now

Init ==
    /\ now = 0
    /\ until = [k \in KeyIds |-> 0] /\ owed = [k \in KeyIds |-> 0]
    /\ cursor = 0
    /\ waits = [k \in KeyIds |-> 0]
    /\ callPc = [c \in Calls |-> "idle"]
    /\ call = [c \in Calls |-> NoCall]

Next ==
    \/ \E c \in Calls : Start(c) \/ CallStep(c)
    \/ Tick
    \/ Restart

Spec == Init /\ [][Next]_vars

\* Every upstream call answers, fails or runs into withTimeout.
FairSpec == Spec /\ \A c \in Calls : WF_vars(CallStep(c))

-----------------------------------------------------------------------------
TypeOK ==
    /\ now \in 0..MaxTime
    /\ until \in [KeyIds -> Nat] /\ owed \in [KeyIds -> Nat]
    /\ cursor \in KeyIds
    /\ waits \in [KeyIds -> Nat]
    /\ callPc \in [Calls -> {"idle", "upstream"}]
    /\ call \in [Calls -> Call]

\* A key sidelined for a spent quota is not brought back by a later rate limit: no
\* key is leased before the end of the longest cooldown it was given, whichever of
\* the concurrent calls gave it, in whatever order.
LeaseHonoursCooldowns ==
    [][\A c \in Calls : call'[c].turn # call[c].turn /\ callPc'[c] = "upstream"
                        => owed'[call'[c].key] <= now]_vars

\* Load spreads over the pool: a key that stays usable is leased at the latest after
\* every other key had one turn, however calls and cooldowns interleave.
KeysTakeTurns == \A k \in KeyIds : waits[k] < KeyCount

\* A rotation that gives up without a single upstream call met no usable key: "no
\* network call at all" is never the answer while a key is free.
UntriedMeansParked ==
    \A c \in Calls : call[c].outcome = "exhausted" /\ call[c].tried = {} => call[c].spare = {}

\* Every rotation ends, whatever the provider answers.
EveryCallEnds == \A c \in Calls : callPc[c] # "idle" ~> callPc[c] = "idle"
=============================================================================
