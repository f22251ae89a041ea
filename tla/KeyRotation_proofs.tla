------------------------- MODULE KeyRotation_proofs -------------------------
(***************************************************************************)
(* Theorems about KeyRotation, for any number of rotations and keys and    *)
(* any cooldowns.                                                          *)
(***************************************************************************)
EXTENDS KeyRotation, WellFoundedInduction, TLAPS

-----------------------------------------------------------------------------
(* Positions of the pool.                                                  *)

\* Remainders on the two rounds an index and a cursor can be apart.
LEMMA SmallModulo ==
    ASSUME NEW n \in Nat \ {0}, NEW x \in 0..n - 1
    PROVE  x % n = x /\ (x + n) % n = x
OBVIOUS

\* next() scans from the cursor to the end of the list and then from its start.
LEMMA DistanceValue ==
    ASSUME cursor \in KeyIds, NEW k \in KeyIds
    PROVE  Distance(k) = IF k >= cursor THEN k - cursor ELSE k + KeyCount - cursor
<1> USE RotationAssumption DEF KeyIds
<1>1. CASE k >= cursor
  <2>1. k - cursor \in 0..KeyCount - 1 /\ k + KeyCount - cursor = (k - cursor) + KeyCount
    BY <1>1
  <2> QED BY <1>1, <2>1, SmallModulo DEF Distance
<1>2. CASE k < cursor
  <2>1. k + KeyCount - cursor \in 0..KeyCount - 1
    BY <1>2
  <2> QED BY <1>2, <2>1, SmallModulo DEF Distance
<1> QED BY <1>1, <1>2

LEMMA CursorAfterValue ==
    ASSUME NEW k \in KeyIds
    PROVE  /\ CursorAfter(k) = IF k = KeyCount - 1 THEN 0 ELSE k + 1
           /\ CursorAfter(k) \in KeyIds
<1> USE RotationAssumption DEF KeyIds
<1>1. CASE k = KeyCount - 1
  BY <1>1, SmallModulo DEF CursorAfter
<1>2. CASE k # KeyCount - 1
  BY <1>2, SmallModulo DEF CursorAfter
<1> QED BY <1>1, <1>2

\* A distance is a position, wherever the cursor is.
LEMMA DistanceRange ==
    ASSUME cursor \in KeyIds, NEW k \in KeyIds
    PROVE  Distance(k) \in 0..KeyCount - 1
BY DistanceValue, RotationAssumption DEF KeyIds

LEMMA NextDistanceRange ==
    ASSUME cursor' \in KeyIds, NEW k \in KeyIds
    PROVE  Distance(k)' \in 0..KeyCount - 1
<1>1. \A p \in KeyIds : k + KeyCount - p \in Nat
  BY RotationAssumption DEF KeyIds
<1>2. \A x \in Nat : x % KeyCount \in 0..KeyCount - 1
  BY RotationAssumption
<1> QED BY <1>1, <1>2 DEF Distance

\* A lease brings every key the scan has not reached yet closer to the cursor.
LEMMA DistanceShrinks ==
    ASSUME cursor \in KeyIds, NEW k \in KeyIds, cursor' = CursorAfter(k),
           NEW j \in KeyIds, Distance(k) <= Distance(j), j # k
    PROVE  Distance(j)' + 1 <= Distance(j)
<1> USE RotationAssumption DEF KeyIds
<1>1. cursor' \in KeyIds
  BY CursorAfterValue
<1>2. Distance(j)' = IF j >= cursor' THEN j - cursor' ELSE j + KeyCount - cursor'
  <2>1. CASE j >= cursor'
    <3>1. j - cursor' \in 0..KeyCount - 1 /\ j + KeyCount - cursor' = (j - cursor') + KeyCount
      BY <1>1, <2>1
    <3> QED BY <2>1, <3>1, SmallModulo DEF Distance
  <2>2. CASE j < cursor'
    <3>1. j + KeyCount - cursor' \in 0..KeyCount - 1
      BY <1>1, <2>2
    <3> QED BY <1>1, <2>2, <3>1, SmallModulo DEF Distance
  <2> QED BY <1>1, <2>1, <2>2
<1> QED BY <1>1, <1>2, DistanceValue, CursorAfterValue

\* A set of numbers that is not empty has a least one.
LEMMA LeastNumber ==
    ASSUME NEW S \in SUBSET Nat, S # {}
    PROVE  \E x \in S : \A y \in S : x <= y
<1>1. PICK x \in S : \A y \in S : ~(<<y, x>> \in OpToRel(<, Nat))
  BY NatLessThanWellFounded, WFMin
<1>2. \A y \in S : ~(y < x)
  BY <1>1 DEF OpToRel
<1> QED BY <1>2

\* A scan of the whole list misses no free key.
LEMMA ScanFindsFree ==
    ASSUME cursor \in KeyIds, NEW u, FreeKeys(u) # {}
    PROVE  NextKey(u) # {}
<1> DEFINE S == {Distance(k) : k \in FreeKeys(u)}
<1>1. S \in SUBSET Nat /\ S # {}
  BY DistanceValue, RotationAssumption DEF FreeKeys, KeyIds
<1>2. PICK x \in S : \A y \in S : x <= y
  BY <1>1, LeastNumber
<1>3. PICK k \in FreeKeys(u) : x = Distance(k)
  BY <1>2
<1>4. k \in NextKey(u)
  BY <1>2, <1>3 DEF NextKey
<1> QED BY <1>4

LEMMA RetryAfterType ==
    ASSUME now \in Nat, NEW u \in [KeyIds -> Nat]
    PROVE  RetryAfter(u) \in Nat
<1>1. CASE FreeKeys(u) # {}
  BY <1>1 DEF RetryAfter
<1>2. CASE FreeKeys(u) = {}
  <2> DEFINE S == {u[k] - now : k \in KeyIds}
  <2>1. S \in SUBSET Nat /\ S # {}
    BY <1>2, RotationAssumption DEF FreeKeys, KeyIds
  <2>2. PICK d \in S : \A e \in S : d <= e
    BY <2>1, LeastNumber
  <2>3. \E e \in S : \A k \in KeyIds : e <= u[k] - now
    BY <2>2
  <2> QED BY <1>2, <2>1, <2>3 DEF RetryAfter
<1> QED BY <1>1, <1>2

-----------------------------------------------------------------------------
(* The invariant.                                                          *)

\* The store holds, for every key, the end of the longest cooldown it was given.
StoreIsOwed == until = owed

\* A free key has not been passed over more often than the cursor has moved towards it.
WaitsAreBounded == \A k \in KeyIds : waits[k] + Distance(k) <= KeyCount - 1

\* A rotation that is upstream has had a turn, and has a key.
UpstreamTried == \A c \in Calls : callPc[c] = "upstream" => call[c].tried # {}

RotationInv ==
    TypeOK /\ StoreIsOwed /\ WaitsAreBounded /\ UpstreamTried /\ UntriedMeansParked

\* The jobs a turn can start from: a new rotation, or one that is under way.
LEMMA JobTypes ==
    /\ NoCall \in Call /\ NoCall.tried = {}
    /\ TypeOK => \A c \in Calls : call[c] \in Call
<1>1. 0 \in KeyIds /\ 0 \in 0..KeyCount /\ 0 \in 0..MaxAttempts /\ 0 \in Nat
  BY RotationAssumption DEF KeyIds
<1>2. {} \in SUBSET KeyIds /\ "none" \in {"none", "answered", "failed", "exhausted"}
  OBVIOUS
<1>3. NoCall \in Call
  BY <1>1, <1>2 DEF NoCall, Call
<1>4. TypeOK => \A c \in Calls : call[c] \in Call
  BY DEF TypeOK
<1> QED BY <1>3, <1>4 DEF NoCall

LEMMA RotationInit == Init => RotationInv
<1> SUFFICES ASSUME Init PROVE RotationInv
  OBVIOUS
<1> USE RotationAssumption DEF Init
<1>1. TypeOK
  BY JobTypes DEF TypeOK, KeyIds
<1>2. WaitsAreBounded
  BY <1>1, DistanceValue DEF WaitsAreBounded, TypeOK, KeyIds
<1> QED BY <1>1, <1>2 DEF RotationInv, StoreIsOwed, UpstreamTried, UntriedMeansParked, NoCall

\* What one turn does to the pool and to the rotation, whichever way it goes.
LEMMA TurnKeepsInv ==
    ASSUME RotationInv, NEW c \in Calls, NEW job \in Call, NEW u \in [KeyIds -> Nat],
           Lease(c, job, u) \/ GiveUp(c, job, u), until' = u, owed' = u, now' = now,
           job.tried = {} => job.turn < KeyCount
    PROVE  RotationInv'
<1> USE RotationAssumption DEF RotationInv
<1>1. CASE Lease(c, job, u)
  <2>1. PICK k \in NextKey(u) :
          /\ cursor' = CursorAfter(k)
          /\ call' = [call EXCEPT ![c] =
                        [job EXCEPT !.key = k, !.turn = @ + 1, !.attempt = 1,
                                    !.tried = @ \cup {k}]]
          /\ waits' = [j \in KeyIds |-> IF j = k \/ j \notin FreeKeys(u) THEN 0
                                        ELSE waits[j] + 1]
    BY <1>1 DEF Lease
  <2>2. k \in KeyIds /\ k \in FreeKeys(u) /\ \A j \in FreeKeys(u) : Distance(k) <= Distance(j)
    BY <2>1 DEF NextKey, FreeKeys
  <2>3. cursor' \in KeyIds
    BY <2>1, <2>2, CursorAfterValue
  <2>4. callPc' = [callPc EXCEPT ![c] = "upstream"] /\ job.turn < KeyCount
    BY <1>1 DEF Lease
  <2> DEFINE new == [job EXCEPT !.key = k, !.turn = @ + 1, !.attempt = 1,
                                !.tried = @ \cup {k}]
  <2>5. call'[c] \in Call /\ call'[c].tried # {}
    <3>1. job.turn + 1 \in 0..KeyCount /\ 1 \in 0..MaxAttempts
      BY <2>4 DEF Call
    <3>2. job.tried \cup {k} \in SUBSET KeyIds /\ job.tried \cup {k} # {}
      BY <2>2 DEF Call
    <3>3. new \in Call /\ new.tried # {}
      BY <2>2, <3>1, <3>2 DEF Call
    <3>4. call'[c] = new
      BY <2>1 DEF TypeOK
    <3> QED BY <3>3, <3>4
  <2>6. TypeOK'
    BY <2>1, <2>2, <2>3, <2>4, <2>5 DEF TypeOK
  <2>7. WaitsAreBounded'
    <3> SUFFICES ASSUME NEW j \in KeyIds PROVE waits'[j] + Distance(j)' <= KeyCount - 1
      BY DEF WaitsAreBounded
    <3>1. CASE j = k \/ j \notin FreeKeys(u)
      <4>1. waits'[j] = 0
        BY <2>1, <3>1
      <4>2. Distance(j)' \in 0..KeyCount - 1
        BY <2>3, NextDistanceRange
      <4> QED BY <4>1, <4>2
    <3>2. CASE j # k /\ j \in FreeKeys(u)
      <4>1. waits'[j] = waits[j] + 1
        BY <2>1, <3>2
      <4>2. Distance(j)' + 1 <= Distance(j)
        BY <2>1, <2>2, <3>2, DistanceShrinks DEF TypeOK
      <4>3. waits[j] + Distance(j) <= KeyCount - 1 /\ waits[j] \in Nat
        BY DEF WaitsAreBounded, TypeOK
      <4>4. Distance(j) \in Int /\ Distance(j)' \in Int
        BY <2>3, NextDistanceRange, DistanceRange DEF TypeOK
      <4> QED BY <4>1, <4>2, <4>3, <4>4
    <3> QED BY <3>1, <3>2
  <2>8. UpstreamTried' /\ UntriedMeansParked'
    BY <2>1, <2>4, <2>5 DEF UpstreamTried, UntriedMeansParked, TypeOK
  <2> QED BY <2>6, <2>7, <2>8 DEF StoreIsOwed
<1>2. CASE GiveUp(c, job, u)
  <2> DEFINE new == [job EXCEPT !.outcome = "exhausted", !.spare = FreeKeys(u),
                                !.retryAfter = RetryAfter(u)]
  <2>1. /\ call' = [call EXCEPT ![c] = new]
        /\ callPc' = [callPc EXCEPT ![c] = "idle"]
        /\ waits' = [j \in KeyIds |-> IF j \in FreeKeys(u) THEN waits[j] ELSE 0]
        /\ cursor' = cursor
        /\ job.turn = KeyCount \/ NextKey(u) = {}
    BY <1>2 DEF GiveUp
  <2>2. new \in Call
    <3>1. RetryAfter(u) \in Nat
      BY RetryAfterType DEF TypeOK
    <3>2. FreeKeys(u) \in SUBSET KeyIds
      BY DEF FreeKeys
    <3>3. "exhausted" \in {"none", "answered", "failed", "exhausted"}
      OBVIOUS
    <3> QED BY <3>1, <3>2, <3>3 DEF Call
  <2>3. TypeOK'
    BY <2>1, <2>2 DEF TypeOK
  <2>4. WaitsAreBounded'
    <3> SUFFICES ASSUME NEW j \in KeyIds PROVE waits'[j] + Distance(j)' <= KeyCount - 1
      BY DEF WaitsAreBounded
    <3>1. Distance(j)' = Distance(j) /\ Distance(j) \in 0..KeyCount - 1
      BY <2>1, DistanceRange DEF TypeOK, Distance
    <3>2. waits'[j] \in {0, waits[j]} /\ waits[j] \in Nat
      BY <2>1 DEF TypeOK
    <3>3. waits[j] + Distance(j) <= KeyCount - 1
      BY DEF WaitsAreBounded
    <3> QED BY <3>1, <3>2, <3>3
  <2>5. new.tried = {} => new.spare = {}
    BY <2>1, ScanFindsFree DEF Call, TypeOK
  <2>6. UpstreamTried' /\ UntriedMeansParked'
    BY <2>1, <2>5 DEF UpstreamTried, UntriedMeansParked, TypeOK
  <2> QED BY <2>3, <2>4, <2>6 DEF StoreIsOwed
<1> QED BY <1>1, <1>2

LEMMA StartKeepsInv == ASSUME RotationInv, NEW c \in Calls, Start(c) PROVE RotationInv'
<1>1. NoCall \in Call /\ NoCall.turn < KeyCount
  BY JobTypes, RotationAssumption DEF NoCall
<1>2. until \in [KeyIds -> Nat] /\ owed = until
  BY DEF RotationInv, TypeOK, StoreIsOwed
<1> QED BY <1>1, <1>2, TurnKeepsInv DEF Start

\* Parking a key keeps the store in step with what is owed to it.
LEMMA ExhaustKeepsInv ==
    ASSUME RotationInv, NEW c \in Calls, NEW kind \in Kinds, Exhaust(c, kind)
    PROVE  RotationInv'
<1> DEFINE u == Penalized(call[c].key, kind)
<1>1. call[c] \in Call /\ call[c].key \in KeyIds /\ call[c].tried # {}
  BY DEF RotationInv, UpstreamTried, Exhaust, TypeOK, Call
<1>2. u \in [KeyIds -> Nat]
  BY <1>1, RotationAssumption DEF Penalized, RotationInv, TypeOK
<1>3. until' = u /\ owed' = u /\ now' = now
  BY <1>1 DEF Exhaust, Penalized, RotationInv, TypeOK, StoreIsOwed
<1>4. Lease(c, call[c], u) \/ GiveUp(c, call[c], u)
  BY DEF Exhaust
<1> QED BY <1>1, <1>2, <1>3, <1>4, TurnKeepsInv

LEMMA UpstreamKeepsInv ==
    ASSUME RotationInv, NEW c \in Calls,
           End(c, "answered") \/ End(c, "failed") \/ Retry(c)
    PROVE  RotationInv'
<1> USE RotationAssumption DEF RotationInv, poolVars
<1>1. call[c] \in Call /\ call[c].tried # {}
  BY DEF UpstreamTried, End, Retry, TypeOK
<1>2. TypeOK'
  <2>1. CASE Retry(c)
    <3>1. call[c].attempt + 1 \in 0..MaxAttempts
      BY <1>1, <2>1 DEF Retry, Call
    <3>2. [call[c] EXCEPT !.attempt = @ + 1] \in Call
      BY <1>1, <3>1 DEF Call
    <3>3. call' = [call EXCEPT ![c] = [call[c] EXCEPT !.attempt = @ + 1]]
      BY <2>1 DEF Retry
    <3> QED BY <2>1, <3>2, <3>3 DEF TypeOK, Retry
  <2>2. ASSUME NEW outcome \in {"answered", "failed"}, End(c, outcome) PROVE TypeOK'
    <3>1. [call[c] EXCEPT !.outcome = outcome] \in Call
      BY <1>1 DEF Call
    <3>2. call' = [call EXCEPT ![c] = [call[c] EXCEPT !.outcome = outcome]]
      BY <2>2 DEF End
    <3> QED BY <2>2, <3>1, <3>2 DEF TypeOK, End
  <2> QED BY <2>1, <2>2
<1>3. StoreIsOwed' /\ WaitsAreBounded'
  BY DEF StoreIsOwed, WaitsAreBounded, Distance, End, Retry
<1>4. \A d \in Calls : call'[d].tried = call[d].tried /\ (d # c => call'[d] = call[d])
  <2> SUFFICES ASSUME NEW d \in Calls
               PROVE  call'[d].tried = call[d].tried /\ (d # c => call'[d] = call[d])
    OBVIOUS
  <2>1. call \in [Calls -> Call]
    BY DEF TypeOK
  <2>2. CASE Retry(c)
    BY <2>1, <2>2 DEF Retry, Call
  <2>3. ASSUME NEW outcome \in {"answered", "failed"}, End(c, outcome)
        PROVE  call'[d].tried = call[d].tried /\ (d # c => call'[d] = call[d])
    BY <2>1, <2>3 DEF End, Call
  <2> QED BY <2>2, <2>3
<1>5. \A d \in Calls : callPc'[d] = "upstream" => callPc[d] = "upstream"
  BY DEF End, Retry, TypeOK
<1>6. UpstreamTried'
  BY <1>4, <1>5 DEF UpstreamTried
<1>7. UntriedMeansParked'
  BY <1>1, <1>4 DEF UntriedMeansParked
<1> QED BY <1>2, <1>3, <1>6, <1>7

LEMMA RotationStep == RotationInv /\ [Next]_vars => RotationInv'
<1> SUFFICES ASSUME RotationInv, [Next]_vars PROVE RotationInv'
  OBVIOUS
<1>1. ASSUME NEW c \in Calls, Start(c) PROVE RotationInv'
  BY <1>1, StartKeepsInv
<1>2. ASSUME NEW c \in Calls, CallStep(c) PROVE RotationInv'
  BY <1>2, UpstreamKeepsInv, ExhaustKeepsInv DEF CallStep
<1>3. CASE Tick
  BY <1>3, RotationAssumption DEF Tick, RotationInv, TypeOK, StoreIsOwed, WaitsAreBounded, Distance,
     UpstreamTried, UntriedMeansParked, poolVars, callVars
<1>4. CASE Restart
  <2>1. TypeOK'
    BY <1>4, JobTypes, RotationAssumption DEF Restart, RotationInv, TypeOK, KeyIds
  <2>2. \A k \in KeyIds : waits'[k] = 0 /\ Distance(k)' \in 0..KeyCount - 1
    BY <1>4, RotationAssumption DEF Restart, Distance, KeyIds
  <2>3. WaitsAreBounded'
    BY <2>2, RotationAssumption DEF WaitsAreBounded
  <2> QED BY <1>4, <2>1, <2>3 DEF Restart, RotationInv, StoreIsOwed, UpstreamTried,
             UntriedMeansParked, NoCall
<1>5. CASE UNCHANGED vars
  BY <1>5 DEF vars, RotationInv, TypeOK, StoreIsOwed, WaitsAreBounded, Distance,
     UpstreamTried, UntriedMeansParked, poolVars, callVars
<1> QED BY <1>1, <1>2, <1>3, <1>4, <1>5 DEF Next

\* The inductive invariant behind the results below.
THEOREM RotationInvariant == Spec => []RotationInv
BY RotationInit, RotationStep, PTL DEF Spec

\* Cooldowns, cursor and rotations keep their types: no rotation takes more turns than
\* the pool has keys, nor more attempts than withRetry allows.
THEOREM RotationTypeCorrect == Spec => []TypeOK
<1>1. RotationInv => TypeOK
  BY DEF RotationInv
<1> QED BY <1>1, RotationInvariant, PTL

\* next() and penalize() together: a key is never leased before the end of the longest
\* cooldown any rotation gave it.
THEOREM CooldownsAreHonoured == Spec => LeaseHonoursCooldowns
<1>1. RotationInv /\ [Next]_vars
      => [\A c \in Calls : call'[c].turn # call[c].turn /\ callPc'[c] = "upstream"
                           => owed'[call'[c].key] <= now]_vars
  <2> SUFFICES ASSUME RotationInv, Next, NEW c \in Calls,
                      call'[c].turn # call[c].turn, callPc'[c] = "upstream"
               PROVE  owed'[call'[c].key] <= now
    OBVIOUS
  <2>1. \A d \in Calls, job \in Call, u \in [KeyIds -> Nat] :
          Lease(d, job, u) => /\ call'[d].key \in FreeKeys(u)
                              /\ d # c => call'[c] = call[c]
    BY DEF Lease, NextKey, RotationInv, TypeOK, Call
  <2>2. \A d \in Calls, job \in Call, u \in [KeyIds -> Nat] :
          GiveUp(d, job, u) => /\ callPc'[d] = "idle"
                               /\ d # c => call'[c] = call[c]
    BY DEF GiveUp, RotationInv, TypeOK
  <2>3. ASSUME NEW d \in Calls, Start(d) PROVE owed'[call'[c].key] <= now
    <3>1. Lease(d, NoCall, until) \/ GiveUp(d, NoCall, until)
      BY <2>3 DEF Start
    <3>2. NoCall \in Call /\ until \in [KeyIds -> Nat] /\ owed' = until
      BY <2>3, JobTypes DEF Start, RotationInv, TypeOK, StoreIsOwed
    <3> QED BY <2>1, <2>2, <3>1, <3>2 DEF FreeKeys
  <2>4. ASSUME NEW d \in Calls, NEW kind \in Kinds, Exhaust(d, kind)
        PROVE  owed'[call'[c].key] <= now
    <3> DEFINE u == Penalized(call[d].key, kind)
    <3>1. Lease(d, call[d], u) \/ GiveUp(d, call[d], u)
      BY <2>4 DEF Exhaust
    <3>2. call[d] \in Call
      BY DEF RotationInv, TypeOK
    <3>3. u \in [KeyIds -> Nat] /\ owed' = u
      BY <2>4, <3>2, RotationAssumption
         DEF Exhaust, Penalized, RotationInv, TypeOK, StoreIsOwed, Call
    <3> QED BY <2>1, <2>2, <3>1, <3>2, <3>3 DEF FreeKeys
  <2>5. ASSUME NEW d \in Calls, End(d, "answered") \/ End(d, "failed") \/ Retry(d)
        PROVE  FALSE
    BY <2>5 DEF End, Retry, RotationInv, TypeOK, Call
  <2>6. ~Tick /\ ~Restart
    BY DEF Tick, Restart, callVars
  <2> QED BY <2>3, <2>4, <2>5, <2>6 DEF Next, CallStep
<1> QED BY <1>1, RotationInvariant, PTL DEF Spec, LeaseHonoursCooldowns

\* Round-robin is fair however calls and cooldowns interleave: a key that stays usable
\* is passed over fewer times than the pool has keys.
THEOREM KeysGoRound == Spec => []KeysTakeTurns
<1>1. RotationInv => KeysTakeTurns
  <2> SUFFICES ASSUME RotationInv, NEW k \in KeyIds PROVE waits[k] < KeyCount
    BY DEF KeysTakeTurns
  <2>1. Distance(k) \in Nat
    BY RotationAssumption, DistanceValue DEF RotationInv, TypeOK, KeyIds
  <2>2. waits[k] \in Nat /\ waits[k] + Distance(k) <= KeyCount - 1
    BY DEF RotationInv, TypeOK, WaitsAreBounded
  <2> QED BY <2>1, <2>2, RotationAssumption
<1> QED BY <1>1, RotationInvariant, PTL

\* "An exhausted pool costs no network call at all", and only an exhausted pool.
THEOREM NoCallMeansNoKey == Spec => []UntriedMeansParked
<1>1. RotationInv => UntriedMeansParked
  BY DEF RotationInv
<1> QED BY <1>1, RotationInvariant, PTL
=============================================================================
