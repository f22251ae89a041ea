--------------------------- MODULE ProviderChain ---------------------------
(***************************************************************************)
(* AIService.translate over the configured provider instances: the         *)
(* operator's kill-switch (a Redis hash), a circuit breaker per provider   *)
(* (in the process), and the fallback chain a request walks.               *)
(***************************************************************************)
EXTENDS Integers, FiniteSets, SequencesExt

CONSTANTS
    Priority,    \* the configured providers, in fallback order
    Requests,    \* slots for translate() calls in flight
    Threshold,   \* CIRCUIT_BREAKER_FAILURE_THRESHOLD
    Window,      \* CIRCUIT_BREAKER_RESET_MS, in ticks
    MaxFallback  \* AI_MAX_FALLBACK_ATTEMPTS; Len(Priority) where it is not set

Providers == ToSet(Priority)

ASSUME ChainAssumption ==
    /\ Priority \in Seq(Providers) /\ Len(Priority) > 0 /\ IsInjective(Priority)
    /\ Threshold \in Nat \ {0} /\ Window \in Nat \ {0} /\ MaxFallback \in Nat \ {0}

VARIABLES
    disabled,  \* the kill-switch: providers an operator has switched off
    healthy,   \* environment: the providers that would answer now
    breaker,   \* the circuit breaker of each provider
    requestPc, \* where each request is suspended
    request,   \* its local variables and outcome
    streak     \* auxiliary: failures of a provider since it last succeeded

envVars == <<disabled, healthy>>
breakerVars == <<breaker, streak>>
requestVars == <<requestPc, request>>
vars == <<envVars, breakerVars, requestVars>>

\* age is the time since the last failure, up to Window: a breaker that age has
\* caught up with is closed before ages are compared.  failures stops at Threshold,
\* above which it only waits for its reset.
Breaker == [failures : 0..Threshold, age : 0..Window, open : BOOLEAN]
Closed == [failures |-> 0, age |-> Window, open |-> FALSE]

\* chain is what is left of the fallback chain: it is walked in the order of Priority.
\* seen is auxiliary: the providers that were switched on at some moment of the request.
Request ==
    [chain : SUBSET Providers, seen : SUBSET Providers,
     outcome : {"none", "answered", "failed", "refused"}]

NoRequest == [chain |-> {}, seen |-> {}, outcome |-> "none"]

Ahead(p, q) == \E i, j \in DOMAIN Priority : Priority[i] = p /\ Priority[j] = q /\ i < j

\* The provider of the chain that is called: the one no other is ahead of.
IsFirst(p, S) == p \in S /\ \A q \in S : ~Ahead(q, p)

RequestGoto(r, point) == requestPc' = [requestPc EXCEPT ![r] = point]

Finish(r, outcome) ==
    /\ RequestGoto(r, "idle")
    /\ request' = [request EXCEPT ![r] = [NoRequest EXCEPT !.outcome = outcome]]

-----------------------------------------------------------------------------
(* The breakers.                                                           *)

Permitted == Providers \ disabled

\* Wrong form: an open breaker waits for a success, whatever time it is.
NeverElapses(p) == FALSE

Elapsed(p) == breaker[p].open /\ breaker[p].age = Window

\* isCircuitOpen closes, as it looks, the breakers whose window has elapsed.
Reset == [p \in Providers |-> IF p \in Permitted /\ Elapsed(p)
                              THEN [breaker[p] EXCEPT !.open = FALSE, !.failures = 0]
                              ELSE breaker[p]]

Eligible == {p \in Permitted : ~Reset[p].open}

\* Wrong form: any configured provider may be probed.
ProbeAnyone == {p \in Providers : \A q \in Providers : breaker[q].age <= breaker[p].age}

\* When every breaker is open: the provider that has been failing the longest.
\* Failures in one tick may have come in any order.
Probes == {p \in Permitted : \A q \in Permitted : breaker[q].age <= breaker[p].age}

Succeeds(p) ==
    /\ breaker' = [breaker EXCEPT ![p].failures = 0, ![p].open = FALSE]
    /\ streak' = [streak EXCEPT ![p] = 0]

Counted(p) == IF breaker[p].failures < Threshold THEN breaker[p].failures + 1 ELSE Threshold

Fails(p) ==
    /\ breaker' = [breaker EXCEPT ![p] =
                     [failures |-> Counted(p), age |-> 0, open |-> @.open \/ Counted(p) = Threshold]]
    /\ streak' = [streak EXCEPT ![p] = IF @ < Threshold THEN @ + 1 ELSE Threshold]

-----------------------------------------------------------------------------
(* translate().                                                            *)

Start(r) ==
    /\ requestPc[r] = "idle"
    /\ RequestGoto(r, "list")
    /\ request' = [request EXCEPT ![r] = [NoRequest EXCEPT !.seen = Permitted]]
    /\ UNCHANGED <<envVars, breakerVars>>

\* A kill-switch that cannot be read fails the request.
ListFails(r) ==
    /\ requestPc[r] = "list"
    /\ Finish(r, "refused")
    /\ UNCHANGED <<envVars, breakerVars>>

AllOff(r) ==
    /\ requestPc[r] = "list"
    /\ Permitted = {}
    /\ Finish(r, "refused")
    /\ UNCHANGED <<envVars, breakerVars>>

\* The first MaxFallback providers of the chain.
Truncated(S) == {p \in S : Cardinality({q \in S : Ahead(q, p)}) < MaxFallback}

\* The single snapshot of the switch a request takes: the breakers are consulted,
\* the chain is fixed and its first call is made with nothing in between.
Snapshot(r) ==
    /\ requestPc[r] = "list"
    /\ Permitted # {}
    /\ breaker' = Reset
    /\ \E chain \in IF Eligible # {} THEN {Truncated(Eligible)} ELSE {{p} : p \in Probes} :
          request' = [request EXCEPT ![r].chain = chain]
    /\ RequestGoto(r, "call")
    /\ UNCHANGED <<envVars, streak>>

Calls(r, p) == requestPc[r] = "call" /\ IsFirst(p, request[r].chain)

Answered(r, p) ==
    /\ Calls(r, p) /\ p \in healthy
    /\ Succeeds(p)
    /\ Finish(r, "answered")
    /\ UNCHANGED envVars

\* The next provider of the chain, or the end of it.
FallBack(r, p) ==
    IF request[r].chain = {p} THEN Finish(r, "failed")
    ELSE /\ request' = [request EXCEPT ![r].chain = @ \ {p}]
         /\ UNCHANGED requestPc

ProviderFails(r, p) ==
    /\ Calls(r, p) /\ p \notin healthy
    /\ Fails(p)
    /\ FallBack(r, p)
    /\ UNCHANGED envVars

\* Wrong form: an exhausted pool counts as a failure of the provider.
ExhaustionCounts(r, p) ==
    /\ Calls(r, p) /\ p \notin healthy
    /\ breaker' = [breaker EXCEPT ![p] =
                     [failures |-> Counted(p), age |-> 0, open |-> @.open \/ Counted(p) = Threshold]]
    /\ FallBack(r, p)
    /\ UNCHANGED <<envVars, streak>>

\* AllKeysExhaustedError: the endpoint is healthy, its keys are spent.
KeysExhausted(r, p) ==
    /\ Calls(r, p) /\ p \notin healthy
    /\ FallBack(r, p)
    /\ UNCHANGED <<envVars, breakerVars>>

RequestStep(r) ==
    \/ ListFails(r) \/ AllOff(r) \/ Snapshot(r)
    \/ \E p \in Providers : Answered(r, p) \/ ProviderFails(r, p) \/ KeysExhausted(r, p)

-----------------------------------------------------------------------------
(* Operators, providers and time.                                          *)

\* disable() and enable() of ProviderSwitchService.
Switch(p) ==
    /\ disabled' = IF p \in disabled THEN disabled \ {p} ELSE disabled \cup {p}
    /\ request' = [r \in Requests |->
                     IF requestPc[r] # "idle" /\ p \in disabled
                     THEN [request[r] EXCEPT !.seen = @ \cup {p}] ELSE request[r]]
    /\ UNCHANGED <<healthy, breakerVars, requestPc>>

HealthChanges(p) ==
    /\ healthy' = IF p \in healthy THEN healthy \ {p} ELSE healthy \cup {p}
    /\ UNCHANGED <<disabled, breakerVars, requestVars>>

Tick ==
    /\ \E p \in Providers : breaker[p].age < Window
    /\ breaker' = [p \in Providers |->
                     IF breaker[p].age < Window THEN [breaker[p] EXCEPT !.age = @ + 1]
                     ELSE breaker[p]]
    /\ UNCHANGED <<envVars, streak, requestVars>>

\* Breakers live in the process, the switch in Redis.
Restart ==
    /\ breaker' = [p \in Providers |-> Closed]
    /\ streak' = [p \in Providers |-> 0]
    /\ requestPc' = [r \in Requests |-> "idle"]
    /\ request' = [r \in Requests |-> NoRequest]
    /\ UNCHANGED envVars

Init ==
    /\ disabled = {} /\ healthy = Providers
    /\ breaker = [p \in Providers |-> Closed]
    /\ streak = [p \in Providers |-> 0]
    /\ requestPc = [r \in Requests |-> "idle"]
    /\ request = [r \in Requests |-> NoRequest]

Next ==
    \/ \E r \in Requests : Start(r) \/ RequestStep(r)
    \/ \E p \in Providers : Switch(p) \/ HealthChanges(p)
    \/ Tick
    \/ Restart

Spec == Init /\ [][Next]_vars

\* Users keep asking, Redis and the adapters answer or fail in the end, and time
\* passes.
FairSpec ==
    /\ Spec
    /\ \A r \in Requests : WF_vars(Start(r)) /\ WF_vars(RequestStep(r))
    /\ WF_vars(Tick)

-----------------------------------------------------------------------------
\* Types, and the two halves of a breaker agree: it is open from the Threshold-th
\* failure to the next reset or success.
TypeOK ==
    /\ disabled \subseteq Providers /\ healthy \subseteq Providers
    /\ breaker \in [Providers -> Breaker]
    /\ \A p \in Providers : breaker[p].open <=> breaker[p].failures = Threshold
    /\ streak \in [Providers -> 0..Threshold]
    /\ requestPc \in [Requests -> {"idle", "list", "call"}]
    /\ request \in [Requests -> Request]

\* A provider that is switched off when a request arrives and stays so is never
\* called by it: not by the fallback chain, and not as the recovery probe that is
\* the last resort when every breaker is open.
SwitchOutranksBreaker ==
    \A r \in Requests : requestPc[r] = "call" => request[r].chain \subseteq request[r].seen

\* A breaker opens only after Threshold failures of the provider itself in a row:
\* exhausted key pools, however many, and failures before a success do not count.
BreakerNeedsFailures ==
    \A p \in Providers : /\ breaker[p].failures <= streak[p]
                         /\ breaker[p].open => streak[p] = Threshold

\* The service recovers on its own: once some permitted provider stays up, requests
\* stop failing, whatever is open, exhausted or flapping around it - also when the
\* open breakers leave a single probe per request.
ServiceRecovers ==
    \A p \in Providers :
        <>[](p \in healthy \ disabled) => <>[](\A r \in Requests : request[r].outcome # "failed")
=============================================================================
