------------------------ MODULE ProviderChain_proofs ------------------------
(***************************************************************************)
(* The safety properties of ProviderChain, for any number of providers and *)
(* requests, any threshold, window and cap of the fallback chain.          *)
(***************************************************************************)
EXTENDS ProviderChain, TLAPS

\* What a request under way has seen switched on includes all that is on now.
SeesThePermitted == \A r \in Requests : requestPc[r] # "idle" => Permitted \subseteq request[r].seen

ChainInv == TypeOK /\ BreakerNeedsFailures /\ SeesThePermitted /\ SwitchOutranksBreaker

\* What one provider's breaker and streak must satisfy, so that an action that writes
\* the entry of one provider is proved by looking at that entry.
EntryOK(b, n) ==
    /\ b \in Breaker /\ n \in 0..Threshold
    /\ b.open <=> b.failures = Threshold
    /\ b.failures <= n
    /\ b.open => n = Threshold

BreakersOK ==
    /\ breaker \in [Providers -> Breaker] /\ streak \in [Providers -> 0..Threshold]
    /\ \A p \in Providers : EntryOK(breaker[p], streak[p])

RequestsOK ==
    /\ disabled \subseteq Providers /\ healthy \subseteq Providers
    /\ requestPc \in [Requests -> {"idle", "list", "call"}]
    /\ request \in [Requests -> Request]
    /\ SeesThePermitted /\ SwitchOutranksBreaker

\* The invariant is the conjunction of a part about breakers and one about requests.
LEMMA InvParts == ChainInv <=> BreakersOK /\ RequestsOK
  BY DEF ChainInv, TypeOK, BreakerNeedsFailures, BreakersOK, RequestsOK, EntryOK

LEMMA InitInv == Init => ChainInv
<1> SUFFICES ASSUME Init PROVE BreakersOK /\ RequestsOK
  BY InvParts
<1>1. BreakersOK
  BY ChainAssumption DEF Init, BreakersOK, EntryOK, Breaker, Closed
<1>2. RequestsOK
  BY DEF Init, RequestsOK, Request, NoRequest, SeesThePermitted, SwitchOutranksBreaker
<1> QED BY <1>1, <1>2

-----------------------------------------------------------------------------
(* The breakers.                                                           *)

LEMMA SucceedsBreakers ==
    ASSUME BreakersOK, NEW p \in Providers, Succeeds(p) PROVE BreakersOK'
<1>1. breaker'[p] = [failures |-> 0, age |-> breaker[p].age, open |-> FALSE] /\ streak'[p] = 0
  BY DEF BreakersOK, Succeeds, Breaker
<1>2. EntryOK(breaker'[p], streak'[p]) /\ breaker'[p] \in Breaker /\ streak'[p] \in 0..Threshold
  BY <1>1, ChainAssumption DEF BreakersOK, EntryOK, Breaker
<1>3. \A q \in Providers \ {p} : breaker'[q] = breaker[q] /\ streak'[q] = streak[q]
  BY DEF BreakersOK, Succeeds
<1> QED BY <1>2, <1>3 DEF BreakersOK, Succeeds

LEMMA FailsBreakers ==
    ASSUME BreakersOK, NEW p \in Providers, Fails(p) PROVE BreakersOK'
<1>1. breaker'[p] = [failures |-> Counted(p), age |-> 0,
                     open |-> breaker[p].open \/ Counted(p) = Threshold]
  BY DEF BreakersOK, Fails
<1>2. streak'[p] = IF streak[p] < Threshold THEN streak[p] + 1 ELSE Threshold
  BY DEF BreakersOK, Fails
<1>3. EntryOK(breaker[p], streak[p])
  BY DEF BreakersOK
<1>4. EntryOK(breaker'[p], streak'[p]) /\ breaker'[p] \in Breaker /\ streak'[p] \in 0..Threshold
  <2>1. CASE Counted(p) = Threshold
    <3>1. breaker'[p] = [failures |-> Threshold, age |-> 0, open |-> TRUE]
      BY <1>1, <2>1
    <3>2. streak'[p] = Threshold
      BY <1>2, <1>3, <2>1, ChainAssumption DEF EntryOK, Breaker, Counted
    <3> QED BY <3>1, <3>2, ChainAssumption DEF EntryOK, Breaker
  <2>2. CASE Counted(p) # Threshold
    <3>1. breaker[p].open = FALSE /\ breaker[p].failures < Threshold
      BY <1>3, <2>2, ChainAssumption DEF EntryOK, Breaker, Counted
    <3>2. breaker'[p] = [failures |-> breaker[p].failures + 1, age |-> 0, open |-> FALSE]
      BY <1>1, <2>2, <3>1 DEF Counted
    <3>3. breaker[p].failures + 1 < Threshold
      BY <1>3, <2>2, <3>1, ChainAssumption DEF EntryOK, Breaker, Counted
    <3> QED BY <1>2, <1>3, <3>2, <3>3, ChainAssumption DEF EntryOK, Breaker
  <2> QED BY <2>1, <2>2
<1>5. \A q \in Providers \ {p} : breaker'[q] = breaker[q] /\ streak'[q] = streak[q]
  BY DEF BreakersOK, Fails
<1> QED BY <1>4, <1>5 DEF BreakersOK, Fails

\* A look at the breakers closes some of them, and that alone.
LEMMA ResetBreakers ==
    ASSUME BreakersOK, breaker' = Reset, streak' = streak PROVE BreakersOK'
<1> SUFFICES ASSUME NEW p \in Providers
             PROVE  EntryOK(breaker'[p], streak[p]) /\ breaker'[p] \in Breaker
  BY DEF BreakersOK, Reset
<1>1. \/ breaker'[p] = breaker[p]
      \/ breaker'[p] = [failures |-> 0, age |-> breaker[p].age, open |-> FALSE]
  BY DEF BreakersOK, Reset, Breaker
<1>2. EntryOK(breaker[p], streak[p])
  BY DEF BreakersOK
<1>3. CASE breaker'[p] = breaker[p]
  BY <1>2, <1>3 DEF EntryOK
<1>4. CASE breaker'[p] = [failures |-> 0, age |-> breaker[p].age, open |-> FALSE]
  <2>1. breaker'[p] \in Breaker
    BY <1>2, <1>4, ChainAssumption DEF EntryOK, Breaker
  <2> QED BY <1>2, <1>4, <2>1, ChainAssumption DEF EntryOK
<1> QED BY <1>1, <1>3, <1>4

LEMMA TickBreakers == ASSUME BreakersOK, Tick PROVE BreakersOK'
<1> SUFFICES ASSUME NEW p \in Providers
             PROVE  EntryOK(breaker'[p], streak[p]) /\ breaker'[p] \in Breaker
  BY DEF BreakersOK, Tick
<1>1. \/ breaker'[p] = breaker[p]
      \/ /\ breaker[p].age < Window
         /\ breaker'[p] = [failures |-> breaker[p].failures, age |-> breaker[p].age + 1,
                           open |-> breaker[p].open]
  BY DEF BreakersOK, Tick, Breaker
<1>2. EntryOK(breaker[p], streak[p])
  BY DEF BreakersOK
<1>3. CASE breaker'[p] = breaker[p]
  BY <1>2, <1>3 DEF EntryOK
<1>4. CASE breaker[p].age < Window /\ breaker'[p] # breaker[p]
  <2>1. breaker'[p].failures = breaker[p].failures /\ breaker'[p].open = breaker[p].open
    BY <1>1, <1>4
  <2>2. breaker[p].failures \in 0..Threshold /\ breaker[p].open \in BOOLEAN
        /\ breaker[p].age + 1 \in 0..Window
    BY <1>2, <1>4, ChainAssumption DEF EntryOK, Breaker
  <2>3. breaker'[p] \in Breaker
    BY <1>1, <1>4, <2>2 DEF Breaker
  <2> QED BY <1>2, <2>1, <2>3 DEF EntryOK
<1> QED BY <1>1, <1>3, <1>4

LEMMA RestartBreakers == ASSUME Restart PROVE BreakersOK'
  BY ChainAssumption DEF Restart, BreakersOK, EntryOK, Breaker, Closed

-----------------------------------------------------------------------------
(* The requests.                                                           *)

\* The last provider of a chain is followed by an outcome, any other by the next one.
LEMMA FallBackRequests ==
    ASSUME RequestsOK, NEW r \in Requests, NEW p, FallBack(r, p), requestPc[r] = "call",
           UNCHANGED envVars
    PROVE  RequestsOK'
<1>1. CASE Finish(r, "failed")
  BY <1>1 DEF RequestsOK, Finish, RequestGoto, Request, NoRequest, SeesThePermitted,
              SwitchOutranksBreaker, Permitted, envVars
<1>2. CASE request' = [request EXCEPT ![r].chain = @ \ {p}] /\ UNCHANGED requestPc
  BY <1>2 DEF RequestsOK, Request, SeesThePermitted, SwitchOutranksBreaker, Permitted, envVars
<1> QED BY <1>1, <1>2 DEF FallBack

\* A request that ends is idle and has nothing to honour.
LEMMA FinishRequests ==
    ASSUME RequestsOK, NEW r \in Requests, NEW o \in {"answered", "failed", "refused"},
           Finish(r, o), UNCHANGED envVars
    PROVE  RequestsOK'
  BY DEF RequestsOK, Finish, RequestGoto, Request, NoRequest, SeesThePermitted,
         SwitchOutranksBreaker, Permitted, envVars

LEMMA StartRequests == ASSUME RequestsOK, NEW r \in Requests, Start(r) PROVE RequestsOK'
  BY DEF RequestsOK, Start, RequestGoto, Request, NoRequest, SeesThePermitted,
         SwitchOutranksBreaker, Permitted, envVars

\* The chain is cut from what is permitted, which the request has seen.
LEMMA SnapshotRequests == ASSUME RequestsOK, NEW r \in Requests, Snapshot(r) PROVE RequestsOK'
<1>1. PICK chain \in IF Eligible # {} THEN {Truncated(Eligible)} ELSE {{p} : p \in Probes} :
          request' = [request EXCEPT ![r].chain = chain]
  BY DEF Snapshot
<1>2. chain \subseteq Permitted
  BY <1>1 DEF Truncated, Eligible, Probes
<1>3. Permitted \subseteq request[r].seen
  BY DEF RequestsOK, SeesThePermitted, Snapshot
<1>4. chain \subseteq Providers
  BY <1>2 DEF Permitted
<1>5. request' \in [Requests -> Request]
  BY <1>1, <1>4 DEF RequestsOK, Request
<1>6. \A s \in Requests : request'[s].seen = request[s].seen
  BY <1>1 DEF RequestsOK, Request
<1>7. request'[r].chain \subseteq request'[r].seen
  BY <1>1, <1>2, <1>3 DEF RequestsOK, Request
<1>8. \A s \in Requests \ {r} : request'[s] = request[s] /\ requestPc'[s] = requestPc[s]
  BY <1>1 DEF RequestsOK, Snapshot, RequestGoto
<1>9. requestPc' \in [Requests -> {"idle", "list", "call"}]
  BY DEF RequestsOK, Snapshot, RequestGoto
<1>10. SeesThePermitted' /\ SwitchOutranksBreaker'
  BY <1>3, <1>6, <1>7, <1>8
  DEF RequestsOK, SeesThePermitted, SwitchOutranksBreaker, Permitted, Snapshot, envVars
<1> QED BY <1>5, <1>9, <1>10 DEF RequestsOK, Snapshot, envVars

\* A provider that is switched on is noted by every request under way.
LEMMA SwitchRequests == ASSUME RequestsOK, NEW p \in Providers, Switch(p) PROVE RequestsOK'
<1>1. disabled' \subseteq Providers /\ healthy' = healthy /\ requestPc' = requestPc
  BY DEF RequestsOK, Switch
<1>2. \A r \in Requests : /\ request'[r] \in Request
                          /\ request'[r].chain = request[r].chain
                          /\ request[r].seen \subseteq request'[r].seen
                          /\ requestPc[r] # "idle" /\ p \in disabled => p \in request'[r].seen
  BY DEF RequestsOK, Switch, Request
<1>3. request' \in [Requests -> Request]
  BY <1>2 DEF Switch
<1>4. SeesThePermitted'
  <2> SUFFICES ASSUME NEW r \in Requests, requestPc[r] # "idle", NEW q \in Providers \ disabled'
               PROVE  q \in request'[r].seen
    BY <1>1 DEF SeesThePermitted, Permitted
  <2>1. CASE q \in disabled
    BY <2>1, <1>2 DEF Switch
  <2>2. CASE q \notin disabled
    BY <2>2, <1>2 DEF RequestsOK, SeesThePermitted, Permitted
  <2> QED BY <2>1, <2>2
<1>5. SwitchOutranksBreaker'
  BY <1>1, <1>2 DEF RequestsOK, SwitchOutranksBreaker
<1> QED BY <1>1, <1>3, <1>4, <1>5 DEF RequestsOK

-----------------------------------------------------------------------------
LEMMA StepInv == ChainInv /\ [Next]_vars => ChainInv'
<1> SUFFICES ASSUME BreakersOK, RequestsOK, [Next]_vars PROVE BreakersOK' /\ RequestsOK'
  BY InvParts, PTL
<1>1. ASSUME NEW r \in Requests, Start(r) PROVE BreakersOK' /\ RequestsOK'
  BY <1>1, StartRequests DEF Start, breakerVars, BreakersOK
<1>2. ASSUME NEW r \in Requests, ListFails(r) \/ AllOff(r) PROVE BreakersOK' /\ RequestsOK'
  BY <1>2, FinishRequests DEF ListFails, AllOff, breakerVars, BreakersOK
<1>3. ASSUME NEW r \in Requests, Snapshot(r) PROVE BreakersOK' /\ RequestsOK'
  BY <1>3, SnapshotRequests, ResetBreakers DEF Snapshot
<1>4. ASSUME NEW r \in Requests, NEW p \in Providers, Answered(r, p) PROVE BreakersOK' /\ RequestsOK'
  BY <1>4, FinishRequests, SucceedsBreakers DEF Answered
<1>5. ASSUME NEW r \in Requests, NEW p \in Providers, ProviderFails(r, p)
      PROVE  BreakersOK' /\ RequestsOK'
  BY <1>5, FallBackRequests, FailsBreakers DEF ProviderFails, Calls
<1>6. ASSUME NEW r \in Requests, NEW p \in Providers, KeysExhausted(r, p)
      PROVE  BreakersOK' /\ RequestsOK'
  BY <1>6, FallBackRequests DEF KeysExhausted, Calls, breakerVars, BreakersOK
<1>7. ASSUME NEW p \in Providers, Switch(p) PROVE BreakersOK' /\ RequestsOK'
  BY <1>7, SwitchRequests DEF Switch, breakerVars, BreakersOK
<1>8. ASSUME NEW p \in Providers, HealthChanges(p) PROVE BreakersOK' /\ RequestsOK'
  BY <1>8 DEF HealthChanges, breakerVars, requestVars, BreakersOK, RequestsOK, SeesThePermitted,
              SwitchOutranksBreaker, Permitted
<1>9. CASE Tick
  <2>1. RequestsOK'
    BY <1>9 DEF Tick, envVars, requestVars, RequestsOK, SeesThePermitted, SwitchOutranksBreaker,
                Permitted
  <2> QED BY <1>9, <2>1, TickBreakers
<1>10. CASE Restart
  <2>1. RequestsOK'
    BY <1>10 DEF Restart, envVars, RequestsOK, Request, NoRequest, SeesThePermitted,
                 SwitchOutranksBreaker, Permitted
  <2> QED BY <1>10, <2>1, RestartBreakers
<1>11. CASE UNCHANGED vars
  BY <1>11 DEF vars, envVars, breakerVars, requestVars, BreakersOK, RequestsOK, SeesThePermitted,
               SwitchOutranksBreaker, Permitted
<1> QED BY <1>1, <1>2, <1>3, <1>4, <1>5, <1>6, <1>7, <1>8, <1>9, <1>10, <1>11
        DEF Next, RequestStep

\* The invariant of the chain: breakers agree with the failures they have seen, and no
\* request calls a provider that was off throughout.
THEOREM ChainInvariant == Spec => []ChainInv
  BY InitInv, StepInv, PTL DEF Spec

\* Breakers and requests keep their types, and a breaker is open exactly from the
\* failure that reaches the threshold to its reset or its next success.
THEOREM ChainTypeCorrect == Spec => []TypeOK
<1>1. ChainInv => TypeOK
  BY DEF ChainInv
<1> QED BY <1>1, ChainInvariant, PTL

\* A provider switched off before a request arrived, and ever since, is never called by
\* it: not in the chain, not as the recovery probe.
THEOREM KillSwitchOutranksBreaker == Spec => []SwitchOutranksBreaker
<1>1. ChainInv => SwitchOutranksBreaker
  BY DEF ChainInv
<1> QED BY <1>1, ChainInvariant, PTL

\* Only failures of the provider itself, in a row and up to the threshold, open a breaker.
THEOREM OnlyFailuresOpenBreakers == Spec => []BreakerNeedsFailures
<1>1. ChainInv => BreakerNeedsFailures
  BY DEF ChainInv
<1> QED BY <1>1, ChainInvariant, PTL
=============================================================================
