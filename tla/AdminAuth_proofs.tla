-------------------------- MODULE AdminAuth_proofs --------------------------
(***************************************************************************)
(* The step-up sessions of AdminAuth implement AdminSessions, its counts   *)
(* of failures fade and its lockout bounds the wrong passwords, for any    *)
(* accounts, tokens, requests and durations.                               *)
(***************************************************************************)
EXTENDS AdminAuth, FiniteSetTheorems, TLAPS

CallRecord ==
    [kind : {"none", "login", "use", "lock"}, user : Users \cup {Nobody},
     token : Tokens \cup {Nobody}, tally : Nat, clock : Nat]

UsePoints == {"read", "drop", "slide", "revoke"}

\* A request that is under way has an account, and one about a session its token.
CallsOK ==
    /\ pc \in [Calls -> Points] /\ call \in [Calls -> CallRecord]
    /\ \A c \in Calls : pc[c] # "idle" => call[c].user \in Users
    /\ \A c \in Calls : pc[c] \in UsePoints => call[c].token \in Tokens

CountersOK ==
    /\ failures \in [Users -> [count : Nat, dies : Nat \cup {NoTTL}]]
    /\ lockout \in [Users -> Nat]
    /\ orphaned \subseteq Users
    /\ since \in Times /\ guesses \in [Users -> Nat]

\* A stored session was issued, to an account.
SessionsOK ==
    /\ session \in [Tokens -> [uid : Users \cup {Nobody}, iat : Nat, dies : Nat]]
    /\ issued \subseteq Tokens
    /\ \A t \in Tokens : Stored(t) => t \in issued /\ session[t].uid \in Users

WorldOK == now \in Times /\ allowlist \subseteq Users

AdminInv == WorldOK /\ CallsOK /\ CountersOK /\ SessionsOK /\ CounterFades

LEMMA InvImpliesType == AdminInv => AdminTypeOK
  BY DEF AdminInv, WorldOK, CallsOK, CountersOK, SessionsOK, CallRecord, AdminTypeOK

LEMMA InitInv == Init => AdminInv
  BY AdminAssumption
  DEF Init, AdminInv, WorldOK, CallsOK, CountersOK, SessionsOK, CounterFades, CallRecord, Points,
      UsePoints, NoCount, NoTTL, NoSession, NoCall, NoGuesses, Times, Stored

-----------------------------------------------------------------------------
(* The requests.                                                           *)

\* A request is answered.
LEMMA AnswerCalls == ASSUME CallsOK, NEW c \in Calls, Answer(c) PROVE CallsOK'
  BY DEF CallsOK, Answer, Goto, NoCall, CallRecord, Points, UsePoints

\* A request goes on, with another tally or clock or none.
LEMMA GotoCalls ==
    ASSUME CallsOK, NEW c \in Calls, pc[c] # "idle", NEW point \in Points, Goto(c, point),
           point \in UsePoints => pc[c] \in UsePoints,
           NEW n \in Nat, call' \in {call, [call EXCEPT ![c].tally = n], [call EXCEPT ![c].clock = n]}
    PROVE  CallsOK'
  BY DEF CallsOK, Goto, CallRecord

LEMMA VerdictCalls ==
    ASSUME CallsOK, NEW c \in Calls, pc[c] # "idle", NEW n \in Nat, Verdict(c, n)
    PROVE  CallsOK'
<1>1. CASE Answer(c)
  BY <1>1, AnswerCalls
<1>2. CASE Goto(c, "lock") /\ call' = [call EXCEPT ![c].tally = n]
  BY <1>2, GotoCalls DEF Points, UsePoints
<1> QED BY <1>1, <1>2 DEF Verdict

LEMMA ServedCalls ==
    ASSUME CallsOK, NEW c \in Calls, pc[c] \in UsePoints, Served(c) PROVE CallsOK'
<1>1. CASE Answer(c)
  BY <1>1, AnswerCalls
<1>2. CASE Goto(c, "revoke") /\ UNCHANGED call
  BY <1>2, GotoCalls DEF Points, UsePoints
<1> QED BY <1>1, <1>2 DEF Served

LEMMA StepCalls ==
    ASSUME WorldOK, CallsOK, CountersOK, SessionsOK, NEW c \in Calls, Step(c) PROVE CallsOK'
<1>1. CASE CheckLockout(c)
  <2>1. CASE Answer(c)
    BY <2>1, AnswerCalls
  <2>2. CASE Goto(c, "judge") /\ UNCHANGED call
    BY <1>1, <2>2, GotoCalls DEF CheckLockout, Points, UsePoints
  <2> QED BY <1>1, <2>1, <2>2 DEF CheckLockout
<1>2. CASE JudgePassword(c)
  BY <1>2, GotoCalls DEF JudgePassword, Points, UsePoints
<1>3. CASE CountFailure(c)
  <2> DEFINE n == failures[call[c].user].count + 1
  <2>1. n \in Nat
    BY <1>3 DEF CountFailure, CallsOK, CountersOK
  <2>2. CASE Goto(c, "expire") /\ call' = [call EXCEPT ![c].tally = 1]
    BY <1>3, <2>2, GotoCalls DEF CountFailure, Points, UsePoints
  <2>3. CASE Verdict(c, n)
    <3> HIDE DEF n
    <3> QED BY <1>3, <2>1, <2>3, VerdictCalls DEF CountFailure
  <2> QED BY <1>3, <2>2, <2>3 DEF CountFailure
<1>4. CASE ExpireCounter(c)
  <2>1. call[c].tally \in Nat
    BY DEF CallsOK, CallRecord
  <2> QED BY <1>4, <2>1, VerdictCalls DEF ExpireCounter
<1>5. CASE Lock(c)
  BY <1>5, GotoCalls DEF Lock, Points, UsePoints
<1>6. CASE ResetCounter(c) \/ DropSession(c) \/ RevokeSession(c) \/ OpenSession(c)
  BY <1>6, AnswerCalls DEF ResetCounter, DropSession, RevokeSession, OpenSession
<1>7. CASE ClearFailures(c)
  <2>1. now \in Nat
    BY DEF WorldOK, Times
  <2> QED BY <1>7, <2>1, GotoCalls DEF ClearFailures, Points, UsePoints
<1>8. CASE ReadSession(c)
  <2> DEFINE t == call[c].token
  <2>1. CASE Answer(c)
    BY <2>1, AnswerCalls
  <2>2. CASE Goto(c, "drop") /\ UNCHANGED call
    BY <1>8, <2>2, GotoCalls DEF ReadSession, Points, UsePoints
  <2>3. CASE /\ Stored(t) /\ ~Refusable(call[c].user, t)
             /\ Goto(c, "slide") /\ call' = [call EXCEPT ![c].clock = NextTTL(t)]
    <3>1. t \in Tokens
      BY <1>8 DEF ReadSession, CallsOK, UsePoints
    <3>2. NextTTL(t) \in Nat
      BY <2>3, <3>1, AdminAssumption
      DEF Refusable, NextTTL, Deadline, SessionsOK, WorldOK, Times
    <3> QED BY <1>8, <2>3, <3>2, GotoCalls DEF ReadSession, Points, UsePoints
  <2> QED BY <1>8, <2>1, <2>2, <2>3 DEF ReadSession
<1>9. CASE SlideSession(c)
  BY <1>9, ServedCalls DEF SlideSession, UsePoints
<1> QED BY <1>1, <1>2, <1>3, <1>4, <1>5, <1>6, <1>7, <1>8, <1>9 DEF Step

-----------------------------------------------------------------------------
(* The counts of failures.                                                 *)

\* What an action does to the counts when it does nothing to them.
LEMMA SameCounters ==
    ASSUME CountersOK, CounterFades, UNCHANGED <<failures, lockout, since, guesses>>,
           orphaned \subseteq orphaned', orphaned' \subseteq Users,
           LeavesCountBehind(Calls) \subseteq LeavesCountBehind(Calls)' \cup orphaned'
    PROVE  CountersOK' /\ CounterFades'
  BY DEF CountersOK, CounterFades

\* A request that is not about to set a TTL may go anywhere.
LEMMA OthersLeaveBehind ==
    ASSUME CallsOK, NEW c \in Calls, pc[c] # "expire",
           \A d \in Calls \ {c} : pc'[d] = pc[d] /\ call'[d] = call[d]
    PROVE  LeavesCountBehind(Calls) \subseteq LeavesCountBehind(Calls)'
  BY DEF LeavesCountBehind

LEMMA DropCountCounters ==
    ASSUME CountersOK, CounterFades, NEW u \in Users, DropCount(u), lockout' = lockout, since' = since,
           guesses' \in [Users -> Nat],
           LeavesCountBehind(Calls) \subseteq LeavesCountBehind(Calls)'
    PROVE  CountersOK' /\ CounterFades'
<1>1. failures' = [failures EXCEPT ![u] = NoCount] /\ orphaned' = orphaned \ {u}
  BY DEF DropCount
<1>2. CountersOK'
  BY <1>1 DEF CountersOK, NoCount, NoTTL
<1>3. CounterFades'
  BY <1>1 DEF CountersOK, CounterFades, NoCount
<1> QED BY <1>2, <1>3

LEMMA CountFailureCounters ==
    ASSUME WorldOK, CallsOK, CountersOK, CounterFades, NEW c \in Calls, CountFailure(c)
    PROVE  CountersOK' /\ CounterFades'
<1> DEFINE u == call[c].user
           n == failures[u].count + 1
<1>1. u \in Users /\ n \in Nat
  BY DEF CountFailure, CallsOK, CountersOK
<1>2. failures' = [failures EXCEPT ![u].count = n]
  BY DEF CountFailure
<1>3. failures' \in [Users -> [count : Nat, dies : Nat \cup {NoTTL}]]
  BY <1>1, <1>2 DEF CountersOK
<1>4. guesses' \in [Users -> Nat]
  BY <1>1 DEF CountFailure, CountersOK, WorldOK
<1>5. CountersOK'
  BY <1>3, <1>4 DEF CountersOK, CountFailure
<1>6. LeavesCountBehind(Calls) \subseteq LeavesCountBehind(Calls)'
  <2>1. \A d \in Calls \ {c} : pc'[d] = pc[d] /\ call'[d] = call[d]
    BY DEF CountFailure, Verdict, Answer, Goto, CallsOK
  <2> QED BY <2>1, OthersLeaveBehind DEF CountFailure
<1>7. n = 1 => u \in LeavesCountBehind(Calls)'
  <2> SUFFICES ASSUME n = 1 PROVE u \in LeavesCountBehind(Calls)'
    OBVIOUS
  <2>1. pc' = [pc EXCEPT ![c] = "expire"] /\ call' = [call EXCEPT ![c].tally = 1]
    BY DEF CountFailure, Goto
  <2>2. pc'[c] = "expire" /\ call'[c].user = u
    BY <2>1 DEF CallsOK, CallRecord
  <2> QED BY <2>2 DEF LeavesCountBehind
<1>8. n # 1 => failures[u].count > 0
  BY <1>1 DEF CountersOK
<1>9. CounterFades'
  <2> SUFFICES ASSUME NEW v \in Users, failures'[v].count > 0, failures'[v].dies = NoTTL
               PROVE  v \in orphaned' \cup LeavesCountBehind(Calls)'
    BY DEF CounterFades
  <2>1. failures'[v].dies = failures[v].dies /\ (v # u => failures'[v].count = failures[v].count)
    BY <1>1, <1>2 DEF CountersOK
  <2>2. orphaned' = orphaned
    BY DEF CountFailure
  <2>3. CASE v = u /\ n = 1
    BY <2>3, <1>7
  <2>4. CASE ~(v = u /\ n = 1)
    <3>1. failures[v].count > 0
      BY <2>1, <2>4, <1>8
    <3> QED BY <3>1, <2>1, <2>2, <1>6 DEF CounterFades
  <2> QED BY <2>3, <2>4
<1> QED BY <1>5, <1>9

LEMMA ExpireCounterCounters ==
    ASSUME WorldOK, CallsOK, CountersOK, CounterFades, NEW c \in Calls, ExpireCounter(c)
    PROVE  CountersOK' /\ CounterFades'
<1> DEFINE u == call[c].user
<1>1. u \in Users
  BY DEF ExpireCounter, CallsOK
<1>2. \A v \in Users \ {u} : v \in LeavesCountBehind(Calls) => v \in LeavesCountBehind(Calls)'
  <2>1. \A d \in Calls \ {c} : pc'[d] = pc[d] /\ call'[d] = call[d]
    BY DEF ExpireCounter, Verdict, Answer, Goto, CallsOK
  <2> QED BY <2>1 DEF LeavesCountBehind
<1>3. CASE failures[u].count = 0
  BY <1>1, <1>2, <1>3 DEF ExpireCounter, CountersOK, CounterFades
<1>4. CASE failures[u].count # 0
  <2>1. failures' = [failures EXCEPT ![u].dies = now + Lockout] /\ orphaned' = orphaned \ {u}
    BY <1>4 DEF ExpireCounter
  <2>2. now + Lockout \in Nat /\ now + Lockout # NoTTL
    BY AdminAssumption DEF WorldOK, Times, NoTTL
  <2>3. CountersOK'
    BY <1>1, <2>1, <2>2 DEF CountersOK, ExpireCounter
  <2>4. \A v \in Users : failures'[v].dies = NoTTL => v # u /\ failures'[v] = failures[v]
    BY <1>1, <2>1, <2>2 DEF CountersOK
  <2>5. CounterFades'
    BY <1>2, <2>1, <2>4 DEF CounterFades
  <2> QED BY <2>3, <2>5
<1> QED BY <1>3, <1>4

LEMMA StepCounters ==
    ASSUME WorldOK, CallsOK, CountersOK, CounterFades, NEW c \in Calls, Step(c)
    PROVE  CountersOK' /\ CounterFades'
<1>1. CASE CountFailure(c)
  BY <1>1, CountFailureCounters
<1>2. CASE ExpireCounter(c)
  BY <1>2, ExpireCounterCounters
<1>3. CASE pc[c] # "expire" /\ ~CountFailure(c)
  <2>1. \A d \in Calls \ {c} : pc'[d] = pc[d] /\ call'[d] = call[d]
    BY <1>3
    DEF Step, CheckLockout, JudgePassword, Lock, ResetCounter, ClearFailures, OpenSession,
        ReadSession, DropSession, SlideSession, RevokeSession, ExpireCounter,
        Served, Answer, Goto, CallsOK
  <2>2. LeavesCountBehind(Calls) \subseteq LeavesCountBehind(Calls)'
    BY <1>3, <2>1, OthersLeaveBehind
  <2>3. CASE Lock(c)
    <3>1. call[c].user \in Users /\ now + Lockout \in Nat
      BY <2>3, AdminAssumption DEF Lock, CallsOK, WorldOK, Times
    <3>2. CountersOK'
      BY <2>3, <3>1 DEF Lock, CountersOK, historyVars
    <3> QED BY <2>2, <2>3, <3>2 DEF Lock, CounterFades, historyVars
  <2>4. CASE ResetCounter(c)
    <3>1. call[c].user \in Users
      BY <2>4 DEF ResetCounter, CallsOK
    <3> QED BY <2>2, <2>4, <3>1, DropCountCounters DEF ResetCounter, CountersOK
  <2>5. CASE ClearFailures(c)
    <3>1. call[c].user \in Users
      BY <2>5 DEF ClearFailures, CallsOK
    <3>2. guesses' \in [Users -> Nat]
      BY <2>5, <3>1 DEF ClearFailures, CountersOK, NoGuesses
    <3> QED BY <2>2, <2>5, <3>1, <3>2, DropCountCounters DEF ClearFailures
  <2>6. CASE UNCHANGED <<failures, lockout, since, guesses, orphaned>>
    BY <2>2, <2>6, SameCounters DEF CountersOK
  <2> QED BY <1>3, <2>3, <2>4, <2>5, <2>6
      DEF Step, CheckLockout, JudgePassword, OpenSession, ReadSession, DropSession, SlideSession,
          RevokeSession, ExpireCounter, redisVars, historyVars
<1>4. CASE pc[c] = "expire" /\ ~ExpireCounter(c) /\ ~CountFailure(c)
  BY <1>4
  DEF Step, CheckLockout, JudgePassword, Lock, ResetCounter, ClearFailures, OpenSession,
      ReadSession, DropSession, SlideSession, RevokeSession
<1> QED BY <1>1, <1>2, <1>3, <1>4

-----------------------------------------------------------------------------
(* The sessions, and what they are to AdminSessions.                       *)

Open == {t \in Tokens : Stored(t) /\ now < Deadline(t)}

\* A step that issues nothing and opens nothing closes what it closes, or stutters.
LEMMA ClosesSome ==
    ASSUME UNCHANGED issued, Open' \subseteq Open
    PROVE  [Sessions!SessionsNext]_(Sessions!sessionsVars)
<1>1. CASE Open' = Open
  BY <1>1 DEF Open, Sessions!sessionsVars
<1>2. CASE Open' # Open
  <2>1. Open \ Open' # {} /\ Open \ Open' \subseteq Open /\ Open' = Open \ (Open \ Open')
    BY <1>2
  <2>2. Sessions!Close(Open \ Open')
    BY <2>1 DEF Open, Sessions!Close
  <2> QED BY <2>1, <2>2 DEF Open, Sessions!SessionsNext
<1> QED BY <1>1, <1>2

LEMMA StepSessions ==
    ASSUME WorldOK, CallsOK, SessionsOK, NEW c \in Calls, Step(c)
    PROVE  SessionsOK' /\ [Sessions!SessionsNext]_(Sessions!sessionsVars)
<1>1. CASE OpenSession(c)
  <2>1. PICK t \in Tokens \ issued :
           /\ issued' = issued \cup {t}
           /\ session' = [session EXCEPT ![t] = [uid |-> call[c].user, iat |-> call[c].clock,
                                                 dies |-> now + IdleTTL]]
    BY <1>1 DEF OpenSession
  <2>2. call[c].user \in Users /\ call[c].clock \in Nat /\ now + IdleTTL \in Nat
    BY <1>1, AdminAssumption DEF OpenSession, CallsOK, CallRecord, WorldOK, Times
  <2>3. now' = now /\ Stored(t)' /\ ~Stored(t) /\ session'[t].uid \in Users
    BY <1>1, <2>1, <2>2, AdminAssumption DEF OpenSession, SessionsOK, Stored, NoSession
  <2>4. \A s \in Tokens \ {t} : session'[s] = session[s]
    BY <2>1 DEF SessionsOK
  <2>5. SessionsOK'
    BY <2>1, <2>2, <2>3, <2>4 DEF SessionsOK, Stored
  <2>6. Open' \in {Open, Open \cup {t}}
    BY <2>3, <2>4 DEF Open, Stored, Deadline
  <2>7. Sessions!Issue(t) \/ Sessions!IssueTooLate(t)
    BY <2>1, <2>6 DEF Open, Sessions!Issue, Sessions!IssueTooLate
  <2> QED BY <2>5, <2>7 DEF Sessions!SessionsNext
<1>2. CASE DropSession(c) \/ RevokeSession(c)
  <2> DEFINE t == call[c].token
  <2>1. t \in Tokens
    BY <1>2 DEF DropSession, RevokeSession, CallsOK, UsePoints
  <2>2. session' = [session EXCEPT ![t] = NoSession] /\ issued' = issued /\ now' = now
    BY <1>2 DEF DropSession, RevokeSession, Delete
  <2>3. SessionsOK'
    BY <2>1, <2>2 DEF SessionsOK, Stored, NoSession
  <2>4. Open' \subseteq Open
    BY <2>1, <2>2 DEF Open, Stored, Deadline, SessionsOK
  <2> QED BY <2>2, <2>3, <2>4, ClosesSome
<1>3. CASE SlideSession(c)
  <2> PICK t \in Tokens : t = call[c].token
    BY <1>3 DEF SlideSession, CallsOK, UsePoints
  <2>1. call[c].clock \in Nat /\ now + call[c].clock \in Nat
    BY <1>3 DEF SlideSession, CallsOK, CallRecord, WorldOK, Times
  <2>2. issued' = issued /\ now' = now
    BY <1>3 DEF SlideSession
  <2>3. CASE ~Stored(t)
    <3>1. session' = session
      BY <1>3, <2>3 DEF SlideSession
    <3> QED BY <2>2, <3>1 DEF SessionsOK, Stored, Deadline, Sessions!sessionsVars
  <2>4. CASE Stored(t)
    <3>1. session' = [session EXCEPT ![t].dies = now + call[c].clock]
      BY <1>3, <2>4 DEF SlideSession
    <3>2. /\ session'[t].uid = session[t].uid /\ session'[t].iat = session[t].iat
          /\ session'[t] \in [uid : Users \cup {Nobody}, iat : Nat, dies : Nat]
      BY <2>1, <3>1 DEF SessionsOK
    <3>3. session[t].uid \in Users
      BY <2>1, <2>4 DEF SessionsOK
    <3>4. Stored(t)'
      <4>1. session'[t].uid # Nobody
        BY <3>2, <3>3, AdminAssumption
      <4> QED BY <4>1 DEF Stored, NoSession
    <3>5. \A s \in Tokens \ {t} : session'[s] = session[s]
      BY <3>1 DEF SessionsOK
    <3>6. SessionsOK'
      BY <2>1, <2>2, <2>4, <3>1, <3>2, <3>3, <3>5 DEF SessionsOK, Stored
    <3>7. Open' = Open
      <4>1. (Stored(t) /\ now < Deadline(t))' <=> Stored(t) /\ now < Deadline(t)
        BY <2>2, <2>4, <3>2, <3>4 DEF Deadline
      <4>2. \A s \in Tokens \ {t} :
               (Stored(s) /\ now < Deadline(s))' <=> Stored(s) /\ now < Deadline(s)
        BY <2>2, <3>5 DEF Stored, Deadline
      <4> QED BY <4>1, <4>2 DEF Open
    <3> QED BY <2>2, <3>6, <3>7 DEF Open, Sessions!sessionsVars
  <2> QED BY <2>3, <2>4
<1>4. CASE UNCHANGED <<now, session, issued>>
  BY <1>4 DEF SessionsOK, Stored, Deadline, Sessions!sessionsVars
<1> QED BY <1>1, <1>2, <1>3, <1>4
    DEF Step, CheckLockout, JudgePassword, CountFailure, ExpireCounter, Lock, ResetCounter,
        ClearFailures, ReadSession, redisVars

-----------------------------------------------------------------------------
(* Failures and time.                                                      *)

LEMMA TickInv ==
    ASSUME AdminInv, Tick PROVE AdminInv' /\ [Sessions!SessionsNext]_(Sessions!sessionsVars)
<1> USE DEF AdminInv
<1>1. WorldOK' /\ CallsOK' /\ now' = now + 1 /\ issued' = issued
  BY AdminAssumption DEF Tick, WorldOK, CallsOK, Times, callVars
<1>2. CountersOK'
  <2>1. failures' \in [Users -> [count : Nat, dies : Nat \cup {NoTTL}]]
    BY DEF Tick, CountersOK, NoCount, NoTTL
  <2>2. lockout' \in [Users -> Nat]
    BY DEF Tick, CountersOK
  <2>3. since' \in Times /\ guesses' \in [Users -> Nat]
    BY <1>1 DEF Tick, CountersOK, NoGuesses, WorldOK
  <2> QED BY <2>1, <2>2, <2>3 DEF Tick, CountersOK
<1>3. CounterFades'
  <2>1. \A u \in Users : failures'[u] \in {NoCount, failures[u]}
    BY DEF Tick
  <2>2. orphaned' = orphaned /\ LeavesCountBehind(Calls)' = LeavesCountBehind(Calls)
    BY DEF Tick, callVars, LeavesCountBehind
  <2> QED BY <2>1, <2>2 DEF CounterFades, NoCount
<1>4. \A t \in Tokens : session'[t] \in {NoSession, session[t]}
  BY DEF Tick
<1>5. SessionsOK'
  BY <1>1, <1>4 DEF Tick, SessionsOK, Stored, NoSession
<1>6. Open' \subseteq Open
  <2> SUFFICES ASSUME NEW t \in Open' PROVE t \in Open
    OBVIOUS
  <2>1. session'[t] = session[t] /\ Stored(t)
    BY <1>4 DEF Open, Stored
  <2>2. Deadline(t)' = Deadline(t) /\ Deadline(t) \in Nat
    BY <2>1, AdminAssumption DEF Open, Deadline, SessionsOK
  <2> QED BY <1>1, <2>1, <2>2 DEF Open, WorldOK, Times
<1> QED BY <1>1, <1>2, <1>3, <1>5, <1>6, ClosesSome

\* Nothing but the requests is touched, and those that are lost leave their count behind.
LEMMA LostCalls ==
    ASSUME AdminInv, CallsOK', allowlist' \subseteq Users,
           UNCHANGED <<now, redisVars, since, guesses>>, orphaned \subseteq orphaned', orphaned' \subseteq Users,
           LeavesCountBehind(Calls) \subseteq LeavesCountBehind(Calls)' \cup orphaned'
    PROVE  AdminInv' /\ [Sessions!SessionsNext]_(Sessions!sessionsVars)
<1>1. WorldOK' /\ SessionsOK'
  BY DEF AdminInv, WorldOK, SessionsOK, Stored, redisVars
<1>2. CountersOK' /\ CounterFades'
  BY SameCounters DEF AdminInv, redisVars
<1>3. UNCHANGED Sessions!sessionsVars
  BY DEF redisVars, Stored, Deadline, Sessions!sessionsVars
<1> QED BY <1>1, <1>2, <1>3 DEF AdminInv

LEMMA NextInv ==
    AdminInv /\ [Next]_vars => AdminInv' /\ [Sessions!SessionsNext]_(Sessions!sessionsVars)
<1> SUFFICES ASSUME AdminInv, [Next]_vars
             PROVE  AdminInv' /\ [Sessions!SessionsNext]_(Sessions!sessionsVars)
  OBVIOUS
<1>1. ASSUME NEW c \in Calls, Step(c)
      PROVE  AdminInv' /\ [Sessions!SessionsNext]_(Sessions!sessionsVars)
  <2>1. WorldOK'
    BY <1>1
    DEF AdminInv, WorldOK, Step, CheckLockout, JudgePassword, CountFailure, ExpireCounter, Lock,
        ResetCounter, ClearFailures, OpenSession, ReadSession, DropSession, SlideSession, RevokeSession
  <2> QED BY <1>1, <2>1, StepCalls, StepCounters, StepSessions DEF AdminInv
<1>2. ASSUME NEW c \in Calls, CallFails(c)
      PROVE  AdminInv' /\ [Sessions!SessionsNext]_(Sessions!sessionsVars)
  <2>1. CallsOK'
    BY <1>2, AnswerCalls DEF CallFails, AdminInv
  <2>2. \A d \in Calls \ {c} : pc'[d] = pc[d] /\ call'[d] = call[d]
    BY <1>2 DEF CallFails, Answer, Goto, AdminInv, CallsOK
  <2>3. LeavesCountBehind(Calls) \subseteq LeavesCountBehind(Calls)' \cup orphaned'
    BY <1>2, <2>2 DEF CallFails, LeavesCountBehind
  <2>4. orphaned' \subseteq Users
    BY <1>2 DEF CallFails, LeavesCountBehind, AdminInv, CountersOK, CallsOK
  <2> QED BY <1>2, <2>1, <2>3, <2>4, LostCalls DEF CallFails, AdminInv, WorldOK
<1>3. ASSUME NEW c \in Calls, NEW u \in Users, StartLogin(c, u)
      PROVE  AdminInv' /\ [Sessions!SessionsNext]_(Sessions!sessionsVars)
  <2>1. CallsOK'
    BY <1>3 DEF StartLogin, AdminInv, CallsOK, CallRecord, NoCall, Goto, Points, UsePoints
  <2>2. \A d \in Calls \ {c} : pc'[d] = pc[d] /\ call'[d] = call[d]
    BY <1>3 DEF StartLogin, Goto, AdminInv, CallsOK
  <2>3. LeavesCountBehind(Calls) \subseteq LeavesCountBehind(Calls)'
    BY <1>3, <2>2, OthersLeaveBehind DEF StartLogin, AdminInv
  <2> QED BY <1>3, <2>1, <2>3, LostCalls DEF StartLogin, historyVars, AdminInv, WorldOK, CountersOK
<1>4. ASSUME NEW c \in Calls, NEW u \in Users, NEW t \in Tokens, NEW kind \in {"use", "lock"},
             StartUse(c, u, t, kind)
      PROVE  AdminInv' /\ [Sessions!SessionsNext]_(Sessions!sessionsVars)
  <2>1. CallsOK'
    BY <1>4 DEF StartUse, AdminInv, CallsOK, CallRecord, NoCall, Goto, Points, UsePoints
  <2>2. \A d \in Calls \ {c} : pc'[d] = pc[d] /\ call'[d] = call[d]
    BY <1>4 DEF StartUse, Goto, AdminInv, CallsOK
  <2>3. LeavesCountBehind(Calls) \subseteq LeavesCountBehind(Calls)'
    BY <1>4, <2>2, OthersLeaveBehind DEF StartUse, AdminInv
  <2> QED BY <1>4, <2>1, <2>3, LostCalls DEF StartUse, historyVars, AdminInv, WorldOK, CountersOK
<1>5. ASSUME NEW admins \in SUBSET Users, Restart(admins)
      PROVE  AdminInv' /\ [Sessions!SessionsNext]_(Sessions!sessionsVars)
  <2>1. CallsOK'
    BY <1>5 DEF Restart, CallsOK, CallRecord, NoCall, Points, UsePoints
  <2>2. orphaned' \subseteq Users
    BY <1>5 DEF Restart, LeavesCountBehind, AdminInv, CountersOK, CallsOK
  <2> QED BY <1>5, <2>1, <2>2, LostCalls DEF Restart
<1>6. CASE Tick
  BY <1>6, TickInv
<1>7. CASE UNCHANGED vars
  <2>1. CallsOK' /\ UNCHANGED LeavesCountBehind(Calls)
    BY <1>7 DEF vars, callVars, AdminInv, CallsOK, LeavesCountBehind
  <2> QED BY <1>7, <2>1, LostCalls DEF vars, historyVars, AdminInv, WorldOK, CountersOK
<1> QED BY <1>1, <1>2, <1>3, <1>4, <1>5, <1>6, <1>7 DEF Next

-----------------------------------------------------------------------------
(* The guesses.                                                            *)

Typos == MaxFailures - 1
Requests == Cardinality(Calls)

Resetting(u) == {c \in Calls : call[c].user = u /\ pc[c] = "reset"}
PastCheck(u) == {c \in Calls : call[c].user = u /\ pc[c] \in {"judge", "count"}}

\* A lockout that lasts for as long as the observer looks.
LockedOut(u) == lockout[u] >= since + Lockout

\* The count dies while the observer looks.
Dying(u) == failures[u].dies # NoTTL /\ failures[u].dies < since + Lockout

Left(u) == IF failures[u].count < MaxFailures THEN Typos - failures[u].count ELSE 0

\* What the counts of u allow before the next reset: with all requests about to reset
\* nobody is there to guess, but for one that is lost.
Allowance(u) ==
    IF Resetting(u) = Calls THEN (IF Dying(u) THEN Typos - 1 ELSE 0)
    ELSE Left(u) + (IF Dying(u) THEN Typos ELSE 0)

Budget == Typos * (Requests + 1) - 1

\* GuessesAreBounded made inductive: until a lockout comes, what was guessed, what the
\* count allows and what the resets under way can bring back is a budget that nothing
\* adds to; from then on it is the attempts past the check that are left.
CountsAge(u) ==
    /\ lockout[u] <= now + Lockout
    /\ failures[u].dies # NoTTL => failures[u].count > 0

GuessesFit(u) ==
    /\ Typos = 0 => guesses[u] = 0
    /\ Typos # 0 => guesses[u] <= Budget + Requests - 1
    /\ Typos # 0 /\ Observed /\ ~LockedOut(u) =>
          guesses[u] + Typos * Cardinality(Resetting(u)) + Allowance(u) <= Budget
    /\ Typos # 0 /\ Observed /\ LockedOut(u) =>
          guesses[u] + Cardinality(PastCheck(u)) <= Budget + Requests - 1

GuessInv == since <= now /\ \A u \in Users : CountsAge(u) /\ GuessesFit(u)

LEMMA RequestsType ==
    /\ Typos \in Nat /\ Requests \in Nat \ {0} /\ Lockout \in Nat \ {0}
    /\ Budget \in Int /\ Budget = Typos * Requests + Typos - 1
<1>1. Requests \in Nat /\ Requests # 0
  BY AdminAssumption, FS_CardinalityType, FS_EmptySet DEF Requests
<1>2. Typos \in Nat
  BY AdminAssumption DEF Typos
<1>3. \A t, n \in Nat : t * (n + 1) = t * n + t /\ t * n \in Nat
  OBVIOUS
<1> QED BY <1>1, <1>2, <1>3, AdminAssumption DEF Budget

\* Sets of requests are counted.
LEMMA SomeRequests ==
    ASSUME NEW S \in SUBSET Calls, NEW T \in SUBSET S
    PROVE  /\ Cardinality(S) \in Nat /\ Cardinality(T) \in Nat
           /\ Cardinality(S) <= Requests /\ (S # Calls => Cardinality(S) <= Requests - 1)
           /\ Cardinality(T) <= Cardinality(S) /\ (T # S => Cardinality(T) <= Cardinality(S) - 1)
<1>1. IsFiniteSet(S) /\ Cardinality(S) <= Requests /\ (S # Calls => Cardinality(S) # Requests)
  BY AdminAssumption, FS_Subset DEF Requests
<1>2. IsFiniteSet(T) /\ Cardinality(T) <= Cardinality(S) /\ (T # S => Cardinality(T) # Cardinality(S))
  BY <1>1, FS_Subset
<1>3. Cardinality(S) \in Nat /\ Cardinality(T) \in Nat /\ Requests \in Nat
  BY <1>1, <1>2, FS_CardinalityType, RequestsType
<1> QED BY <1>1, <1>2, <1>3

LEMMA Multiples ==
    ASSUME NEW t \in Nat, NEW a \in Nat, NEW b \in Nat
    PROVE  /\ t * a \in Nat
           /\ a <= b => t * a <= t * b
           /\ a <= b - 1 => t * a + t <= t * b
<1>1. t * a \in Nat /\ t * b \in Nat /\ t * (a + 1) = t * a + t
  OBVIOUS
<1>2. ASSUME NEW x \in Nat, NEW y \in Nat, x <= y PROVE t * x <= t * y
  <2>1. PICK d \in Nat : y = x + d
    BY <1>2, y - x \in Nat, y = x + (y - x)
  <2>2. t * (x + d) = t * x + t * d /\ t * d \in Nat /\ t * x \in Nat
    OBVIOUS
  <2> QED BY <2>1, <2>2
<1>3. a <= b - 1 => t * (a + 1) <= t * b
  BY <1>2
<1> QED BY <1>1, <1>2, <1>3

LEMMA AllowanceType ==
    ASSUME CountersOK, NEW u \in Users, CountsAge(u), Typos # 0
    PROVE  /\ Left(u) \in 0..Typos /\ (Dying(u) => Left(u) <= Typos - 1)
           /\ Allowance(u) \in Nat /\ Allowance(u) <= 2 * Typos - 1
<1>1. failures[u].count \in Nat /\ Typos \in Nat /\ MaxFailures = Typos + 1 /\ MaxFailures \in Nat
  BY RequestsType, AdminAssumption DEF CountersOK, Typos
<1>2. Left(u) \in 0..Typos /\ (Dying(u) => Left(u) <= Typos - 1)
  BY <1>1 DEF Left, Dying, CountsAge
<1> QED BY <1>1, <1>2 DEF Allowance

\* The counts of u stay, and so do the requests that may reset them, or some are gone.
LEMMA LosesRequests ==
    ASSUME CountersOK, NEW u \in Users, CountsAge(u), GuessesFit(u), UNCHANGED <<now, since>>,
           failures'[u] = failures[u], lockout'[u] = lockout[u], guesses'[u] = guesses[u],
           Resetting(u)' \subseteq Resetting(u),
           LockedOut(u) => PastCheck(u)' \subseteq PastCheck(u)
    PROVE  CountsAge(u)' /\ GuessesFit(u)'
<1> DEFINE R == Cardinality(Resetting(u))
           S == Cardinality(Resetting(u)')
<1>1. /\ R \in Nat /\ S \in Nat /\ S <= R /\ R <= Requests
      /\ Resetting(u)' # Resetting(u) => S <= R - 1
  BY SomeRequests DEF Resetting
<1>2. /\ Observed' = Observed /\ LockedOut(u)' = LockedOut(u) /\ Dying(u)' = Dying(u)
      /\ Left(u)' = Left(u)
  BY DEF Observed, LockedOut, Dying, Left
<1>3. CountsAge(u)'
  BY DEF CountsAge
<1>4. ASSUME Typos # 0, Observed, ~LockedOut(u)
      PROVE  guesses[u] + Typos * S + Allowance(u)' <= Budget
  <2>0. guesses[u] \in Nat /\ Typos \in Nat /\ Typos * R \in Nat /\ Typos * S \in Nat /\ Budget \in Int
    BY <1>1, RequestsType, Multiples DEF CountersOK
  <2>1. guesses[u] + Typos * R + Allowance(u) <= Budget
    BY <1>4 DEF GuessesFit
  <2>2. CASE Resetting(u)' = Resetting(u)
    BY <1>2, <2>1, <2>2 DEF Allowance
  <2>3. CASE Resetting(u)' # Resetting(u)
    <3>1. Typos * S + Typos <= Typos * R
      BY <1>1, <2>3, RequestsType, Multiples
    <3>2. Allowance(u)' <= Allowance(u) + Typos
      <4>1. Resetting(u)' # Calls
        BY <2>3 DEF Resetting
      <4>2. Left(u) \in 0..Typos /\ (Dying(u) => Left(u) <= Typos - 1) /\ Allowance(u) \in Nat
        BY <1>4, AllowanceType
      <4>3. Allowance(u)' = Left(u) + (IF Dying(u) THEN Typos ELSE 0)
        BY <1>2, <4>1 DEF Allowance
      <4> QED BY <2>0, <4>2, <4>3 DEF Allowance
    <3>3. Allowance(u)' \in Int /\ Allowance(u) \in Int
      <4>1. Left(u) \in Int
        BY <1>4, AllowanceType
      <4> QED BY <1>2, <2>0, <4>1 DEF Allowance
    <3> QED BY <2>0, <2>1, <3>1, <3>2, <3>3
  <2> QED BY <2>2, <2>3
<1>5. ASSUME Typos # 0, Observed, LockedOut(u)
      PROVE  guesses[u] + Cardinality(PastCheck(u)') <= Budget + Requests - 1
  <2>1. /\ Cardinality(PastCheck(u)') <= Cardinality(PastCheck(u))
        /\ Cardinality(PastCheck(u)') \in Nat /\ Cardinality(PastCheck(u)) \in Nat
    BY <1>5, SomeRequests DEF PastCheck
  <2>2. guesses[u] + Cardinality(PastCheck(u)) <= Budget + Requests - 1
    BY <1>5 DEF GuessesFit
  <2> QED BY <2>1, <2>2, RequestsType DEF CountersOK
<1> QED BY <1>2, <1>3, <1>4, <1>5 DEF GuessesFit

LEMMA CountFailureGuesses ==
    ASSUME WorldOK, CallsOK, CountersOK, NEW c \in Calls, CountFailure(c),
           NEW u \in Users, u = call[c].user, CountsAge(u), GuessesFit(u)
    PROVE  CountsAge(u)' /\ GuessesFit(u)'
<1> DEFINE n == failures[u].count + 1
           R == Cardinality(Resetting(u))
           P == Cardinality(PastCheck(u))
           Q == Cardinality(PastCheck(u)')
<1>1. /\ failures[u].count \in Nat /\ guesses[u] \in Nat /\ Typos \in Nat /\ MaxFailures = Typos + 1
      /\ Budget \in Int /\ Requests \in Nat /\ Requests >= 1
  BY RequestsType, AdminAssumption DEF CountersOK, Typos
<1>2. /\ failures'[u].count = n /\ failures'[u].dies = failures[u].dies
      /\ UNCHANGED <<now, since, lockout>>
  BY DEF CountFailure, CountersOK
<1>3. guesses'[u] = IF n < MaxFailures /\ Observed THEN guesses[u] + 1 ELSE guesses[u]
  BY DEF CountFailure, CountersOK
<1>4. \A d \in Calls : /\ call'[d].user # call[d].user => pc'[d] = "idle"
                       /\ (pc'[d] = pc[d] /\ call'[d] = call[d]) \/ d = c
  BY DEF CountFailure, Verdict, Answer, Goto, CallsOK, CallRecord
<1>5. pc[c] = "count" /\ pc'[c] \in {"expire", "lock", "idle"}
  BY DEF CountFailure, Verdict, Answer, Goto, CallsOK
<1>6. Resetting(u)' = Resetting(u) /\ Resetting(u) # Calls
  BY <1>4, <1>5 DEF Resetting
<1>7. PastCheck(u)' \subseteq PastCheck(u) /\ PastCheck(u)' # PastCheck(u)
  BY <1>4, <1>5 DEF PastCheck
<1>8. R \in Nat /\ P \in Nat /\ Q \in Nat /\ Q <= P - 1
  BY <1>7, SomeRequests DEF Resetting, PastCheck
<1>9. /\ Observed' = Observed /\ LockedOut(u)' = LockedOut(u) /\ Dying(u)' = Dying(u)
  BY <1>2 DEF Observed, LockedOut, Dying
<1>10. Left(u)' = (IF n < MaxFailures THEN Left(u) - 1 ELSE 0) /\ Left(u)' \in Nat
  BY <1>1, <1>2 DEF Left
<1>11. n >= MaxFailures => Left(u) = 0
  BY <1>1 DEF Left
<1>12. CountsAge(u)'
  BY <1>1, <1>2 DEF CountsAge
<1>13. Typos = 0 => guesses'[u] = 0
  BY <1>1, <1>3 DEF GuessesFit
<1>14. ASSUME Typos # 0, Observed, ~LockedOut(u)
       PROVE  /\ guesses'[u] + Typos * R + Allowance(u)' <= Budget
              /\ Allowance(u)' \in Nat
  <2>1. guesses[u] + Typos * R + Allowance(u) <= Budget /\ Typos * R \in Nat
    BY <1>1, <1>8, <1>14, Multiples DEF GuessesFit
  <2>2. Allowance(u) = Left(u) + (IF Dying(u) THEN Typos ELSE 0) /\ Left(u) \in Int
    BY <1>6, <1>14, AllowanceType DEF Allowance
  <2>3. Allowance(u)' = Left(u)' + (IF Dying(u) THEN Typos ELSE 0)
    BY <1>6, <1>9 DEF Allowance
  <2> QED BY <1>1, <1>3, <1>10, <1>11, <1>14, <2>1, <2>2, <2>3
<1>15. ASSUME Typos # 0, Observed, LockedOut(u)
       PROVE  guesses'[u] + Q <= Budget + Requests - 1
  <2>1. guesses[u] + P <= Budget + Requests - 1
    BY <1>15 DEF GuessesFit
  <2> QED BY <1>1, <1>3, <1>8, <2>1
<1>16. ASSUME Typos # 0 PROVE guesses'[u] <= Budget + Requests - 1
  <2>1. CASE ~Observed
    BY <1>3, <1>16, <2>1 DEF GuessesFit
  <2>2. CASE Observed /\ LockedOut(u)
    BY <1>1, <1>3, <1>8, <1>15, <1>16, <2>2
  <2>3. CASE Observed /\ ~LockedOut(u)
    <3>1. guesses'[u] + Typos * R + Allowance(u)' <= Budget
      BY <1>14, <1>16, <2>3
    <3>2. Typos * R \in Nat /\ Allowance(u)' \in Nat
      BY <1>1, <1>8, <1>14, <1>16, <2>3, Multiples
    <3>3. guesses'[u] \in Nat
      BY <1>1, <1>3
    <3> QED BY <1>1, <3>1, <3>2, <3>3
  <2> QED BY <2>1, <2>2, <2>3
<1> QED BY <1>6, <1>9, <1>12, <1>13, <1>14, <1>15, <1>16 DEF GuessesFit

LEMMA ExpireCounterGuesses ==
    ASSUME WorldOK, CallsOK, CountersOK, since <= now, NEW c \in Calls, ExpireCounter(c),
           NEW u \in Users, u = call[c].user, CountsAge(u), GuessesFit(u)
    PROVE  CountsAge(u)' /\ GuessesFit(u)'
<1> DEFINE R == Cardinality(Resetting(u))
<1>1. /\ failures'[u].count = failures[u].count
      /\ failures'[u].dies = failures[u].dies \/ (failures'[u].dies = now + Lockout /\ failures[u].count > 0)
      /\ UNCHANGED <<now, since, lockout, guesses>>
  BY DEF ExpireCounter, CountersOK
<1>2. now + Lockout \in Nat /\ since + Lockout <= now + Lockout
  BY RequestsType DEF WorldOK, CountersOK, Times
<1>3. \A d \in Calls : /\ call'[d].user # call[d].user => pc'[d] = "idle"
                       /\ (pc'[d] = pc[d] /\ call'[d] = call[d]) \/ d = c
  BY DEF ExpireCounter, Verdict, Answer, Goto, CallsOK, CallRecord
<1>4. pc[c] = "expire" /\ pc'[c] \in {"lock", "idle"}
  BY DEF ExpireCounter, Verdict, Answer, Goto, CallsOK
<1>5. Resetting(u)' = Resetting(u) /\ Resetting(u) # Calls /\ PastCheck(u)' = PastCheck(u)
  BY <1>3, <1>4 DEF Resetting, PastCheck
<1>6. /\ Observed' = Observed /\ LockedOut(u)' = LockedOut(u) /\ Left(u)' = Left(u)
      /\ Dying(u)' => Dying(u)
  BY <1>1, <1>2, RequestsType DEF Observed, LockedOut, Dying, Left, CountersOK, Times
<1>7. CountsAge(u)'
  BY <1>1 DEF CountsAge
<1>8. ASSUME Typos # 0, Observed, ~LockedOut(u)
      PROVE  guesses[u] + Typos * R + Allowance(u)' <= Budget
  <2>1. guesses[u] + Typos * R + Allowance(u) <= Budget
    BY <1>8 DEF GuessesFit
  <2>2. Allowance(u)' <= Allowance(u) /\ Allowance(u)' \in Int /\ Allowance(u) \in Int
    BY <1>5, <1>6, <1>8, AllowanceType, RequestsType DEF Allowance
  <2>3. R \in Nat /\ Typos * R \in Nat /\ guesses[u] \in Nat /\ Budget \in Int
    BY SomeRequests, RequestsType, Multiples DEF Resetting, CountersOK
  <2> QED BY <2>1, <2>2, <2>3
<1> QED BY <1>1, <1>5, <1>6, <1>7, <1>8 DEF GuessesFit

LEMMA LockGuesses ==
    ASSUME WorldOK, CallsOK, CountersOK, since <= now, NEW c \in Calls, Lock(c),
           NEW u \in Users, u = call[c].user, CountsAge(u), GuessesFit(u)
    PROVE  CountsAge(u)' /\ GuessesFit(u)'
<1>1. lockout'[u] = now + Lockout /\ UNCHANGED <<now, since, failures, guesses, call>>
  BY DEF Lock, CountersOK, historyVars
<1>2. LockedOut(u)' /\ Observed' = Observed
  BY <1>1, RequestsType DEF LockedOut, Observed, WorldOK, CountersOK, Times
<1>3. pc[c] = "lock" /\ pc' = [pc EXCEPT ![c] = "reset"]
  BY DEF Lock, Goto
<1>4. PastCheck(u)' = PastCheck(u) /\ PastCheck(u) # Calls
  BY <1>1, <1>3 DEF PastCheck, CallsOK
<1>5. CountsAge(u)'
  BY <1>1, RequestsType DEF CountsAge, WorldOK, Times
<1>6. ASSUME Typos # 0, Observed
      PROVE  guesses[u] + Cardinality(PastCheck(u)) <= Budget + Requests - 1
  <2>1. CASE LockedOut(u)
    BY <1>6, <2>1 DEF GuessesFit
  <2>2. CASE ~LockedOut(u)
    <3>1. guesses[u] + Typos * Cardinality(Resetting(u)) + Allowance(u) <= Budget
      BY <1>6, <2>2 DEF GuessesFit
    <3>2. /\ Cardinality(Resetting(u)) \in Nat /\ guesses[u] \in Nat /\ Budget \in Int
          /\ Cardinality(PastCheck(u)) \in Nat /\ Cardinality(PastCheck(u)) <= Requests - 1
      BY <1>4, SomeRequests, RequestsType DEF Resetting, PastCheck, CountersOK
    <3>3. Typos * Cardinality(Resetting(u)) \in Nat /\ Allowance(u) \in Nat
      BY <1>6, <3>2, RequestsType, Multiples, AllowanceType
    <3> QED BY <3>1, <3>2, <3>3, RequestsType
  <2> QED BY <2>1, <2>2
<1> QED BY <1>1, <1>2, <1>4, <1>5, <1>6 DEF GuessesFit

LEMMA ResetCounterGuesses ==
    ASSUME WorldOK, CallsOK, CountersOK, NEW c \in Calls, ResetCounter(c),
           NEW u \in Users, u = call[c].user, CountsAge(u), GuessesFit(u)
    PROVE  CountsAge(u)' /\ GuessesFit(u)'
<1> DEFINE R == Cardinality(Resetting(u))
           S == Cardinality(Resetting(u)')
<1>1. failures'[u] = NoCount /\ UNCHANGED <<now, since, lockout, guesses>>
  BY DEF ResetCounter, DropCount, CountersOK
<1>2. /\ pc[c] = "reset" /\ pc'[c] = "idle"
      /\ \A d \in Calls \ {c} : pc'[d] = pc[d] /\ call'[d] = call[d]
  BY DEF ResetCounter, Answer, Goto, CallsOK
<1>3. /\ Resetting(u)' \subseteq Resetting(u) /\ Resetting(u)' # Resetting(u)
      /\ Resetting(u)' # Calls /\ PastCheck(u)' = PastCheck(u)
  BY <1>2 DEF Resetting, PastCheck
<1>4. R \in Nat /\ S \in Nat /\ S <= R - 1
  BY <1>3, SomeRequests DEF Resetting
<1>5. /\ Observed' = Observed /\ LockedOut(u)' = LockedOut(u) /\ ~Dying(u)' /\ Left(u)' = Typos
  BY <1>1, AdminAssumption DEF Observed, LockedOut, Dying, Left, NoCount, Typos
<1>6. CountsAge(u)'
  BY <1>1 DEF CountsAge, NoCount
<1>7. ASSUME Typos # 0, Observed, ~LockedOut(u)
      PROVE  guesses[u] + Typos * S + Allowance(u)' <= Budget
  <2>1. guesses[u] + Typos * R + Allowance(u) <= Budget
    BY <1>7 DEF GuessesFit
  <2>2. Typos * S + Typos <= Typos * R /\ Typos * S \in Nat /\ Typos * R \in Nat
    BY <1>4, RequestsType, Multiples
  <2>3. Allowance(u)' = Typos /\ Allowance(u) \in Nat
    BY <1>3, <1>5, <1>7, AllowanceType, RequestsType DEF Allowance
  <2> QED BY <2>1, <2>2, <2>3, RequestsType DEF CountersOK
<1> QED BY <1>1, <1>3, <1>5, <1>6, <1>7 DEF GuessesFit

LEMMA ClearFailuresGuesses ==
    ASSUME WorldOK, CallsOK, CountersOK, NEW c \in Calls, ClearFailures(c),
           NEW u \in Users, u = call[c].user, CountsAge(u), GuessesFit(u)
    PROVE  CountsAge(u)' /\ GuessesFit(u)'
<1> DEFINE R == Cardinality(Resetting(u))
<1>1. failures'[u] = NoCount /\ guesses'[u] = 0 /\ UNCHANGED <<now, since, lockout>>
  BY DEF ClearFailures, DropCount, CountersOK
<1>2. /\ pc[c] = "clear" /\ pc'[c] = "open" /\ call'[c].user = call[c].user
      /\ \A d \in Calls \ {c} : pc'[d] = pc[d] /\ call'[d] = call[d]
  BY DEF ClearFailures, Goto, CallsOK, CallRecord
<1>3. /\ Resetting(u)' = Resetting(u) /\ Resetting(u) # Calls
      /\ PastCheck(u)' = PastCheck(u) /\ PastCheck(u) # Calls
  BY <1>2 DEF Resetting, PastCheck
<1>4. ~Dying(u)' /\ Left(u)' = Typos
  BY <1>1, AdminAssumption DEF Dying, Left, NoCount, Typos
<1>5. CountsAge(u)'
  BY <1>1 DEF CountsAge, NoCount
<1>6. /\ R \in Nat /\ R <= Requests - 1
      /\ Cardinality(PastCheck(u)) \in Nat /\ Cardinality(PastCheck(u)) <= Requests - 1
  BY <1>3, SomeRequests DEF Resetting, PastCheck
<1>7. /\ Typos * R \in Nat /\ Typos * R + Typos <= Typos * Requests /\ Typos \in Nat
      /\ Typos * Requests \in Nat /\ Budget = Typos * Requests + Typos - 1 /\ Requests \in Nat \ {0}
  BY <1>6, RequestsType, Multiples
<1>8. Typos # 0 => 0 + Typos * R + Allowance(u)' <= Budget
  BY <1>3, <1>4, <1>7 DEF Allowance
<1>9. Typos # 0 => 0 + Cardinality(PastCheck(u)) <= Budget + Requests - 1 /\ 0 <= Budget + Requests - 1
  BY <1>6, <1>7
<1> QED BY <1>1, <1>3, <1>5, <1>7, <1>8, <1>9 DEF GuessesFit

\* The clock ticks: counts and lockouts may die, and the observer may begin anew.
LEMMA TickGuesses ==
    ASSUME WorldOK, CallsOK, CountersOK, since <= now, Tick,
           NEW u \in Users, CountsAge(u), GuessesFit(u)
    PROVE  since' <= now' /\ CountsAge(u)' /\ GuessesFit(u)'
<1> DEFINE R == Cardinality(Resetting(u))
           P == Cardinality(PastCheck(u))
<1>1. /\ now' = now + 1 /\ now \in Nat /\ since \in Nat /\ lockout[u] \in Nat
      /\ failures[u].dies \in Nat \cup {NoTTL} /\ failures[u].count \in Nat
  BY DEF Tick, WorldOK, CountersOK, Times
<1>2. /\ failures'[u] = IF failures[u].dies = now + 1 THEN NoCount ELSE failures[u]
      /\ lockout'[u] = IF lockout[u] = now + 1 THEN 0 ELSE lockout[u]
  BY DEF Tick
<1>3. Resetting(u)' = Resetting(u) /\ PastCheck(u)' = PastCheck(u)
  BY DEF Tick, callVars, Resetting, PastCheck
<1>4. CountsAge(u)'
  BY <1>1, <1>2, RequestsType DEF CountsAge, NoCount
<1>5. /\ R \in Nat /\ R <= Requests /\ (Resetting(u) # Calls => R <= Requests - 1)
      /\ P \in Nat /\ P <= Requests
  BY SomeRequests DEF Resetting, PastCheck
<1>6. Typos # 0 => Left(u)' \in 0..Typos /\ (Dying(u)' => Left(u)' <= Typos - 1)
  BY <1>1, <1>2, <1>4, RequestsType, AdminAssumption DEF Left, Dying, CountsAge, Typos, NoCount
<1>7. CASE UNCHANGED <<since, guesses>>
  <2>1. Observed' => Observed
    BY <1>1, <1>7, RequestsType DEF Observed
  <2>2. ASSUME Observed'
        PROVE  /\ LockedOut(u)' = LockedOut(u)
               /\ (Dying(u)' /\ Dying(u) /\ Left(u)' = Left(u))
                  \/ (~Dying(u)' /\ (Dying(u) \/ Left(u)' = Left(u)))
    BY <1>1, <1>2, <1>7, <2>2, RequestsType DEF Observed, LockedOut, Dying, Left, NoCount, NoTTL
  <2>3. ASSUME Typos # 0, Observed', ~LockedOut(u)'
        PROVE  guesses[u] + Typos * R + Allowance(u)' <= Budget
    <3>1. guesses[u] + Typos * R + Allowance(u) <= Budget
      BY <2>1, <2>2, <2>3 DEF GuessesFit
    <3>2. Left(u) \in 0..Typos /\ Allowance(u) \in Nat
      BY <2>3, AllowanceType
    <3>3. Allowance(u)' <= Allowance(u) /\ Allowance(u)' \in Int
      BY <1>3, <1>6, <2>2, <2>3, <3>2, RequestsType DEF Allowance
    <3> QED BY <1>5, <3>1, <3>2, <3>3, RequestsType, Multiples DEF CountersOK
  <2>4. since' <= now'
    BY <1>1, <1>7
  <2> QED BY <1>3, <1>4, <1>7, <2>1, <2>2, <2>3, <2>4 DEF GuessesFit
<1>8. CASE since' = now + 1 /\ guesses' = NoGuesses
  <2>1. since' <= now' /\ guesses'[u] = 0
    BY <1>1, <1>8 DEF NoGuesses
  <2>2. ~LockedOut(u)'
    BY <1>1, <1>2, <1>8, RequestsType DEF LockedOut, CountsAge
  <2>3. /\ Typos \in Nat /\ Typos * R \in Nat /\ Typos * Requests \in Nat
        /\ Typos * R <= Typos * Requests
        /\ Resetting(u) # Calls => Typos * R + Typos <= Typos * Requests
        /\ Budget = Typos * Requests + Typos - 1 /\ Requests \in Nat \ {0}
    BY <1>5, RequestsType, Multiples
  <2>4. Typos # 0 => 0 + Typos * R + Allowance(u)' <= Budget
    BY <1>3, <1>6, <2>3 DEF Allowance
  <2>5. Typos # 0 => 0 <= Budget + Requests - 1
    BY <2>3
  <2> QED BY <1>3, <1>4, <2>1, <2>2, <2>4, <2>5 DEF GuessesFit
<1> QED BY <1>7, <1>8 DEF Tick

\* A request that is neither past the lockout check nor about to reset a count, nor goes there.
LEMMA ElsewhereGuesses ==
    ASSUME CallsOK, CountersOK, NEW u \in Users, CountsAge(u), GuessesFit(u), NEW c \in Calls,
           UNCHANGED <<now, since>>,
           failures'[u] = failures[u], lockout'[u] = lockout[u], guesses'[u] = guesses[u],
           \A d \in Calls \ {c} : pc'[d] = pc[d] /\ call'[d] = call[d],
           pc'[c] = "reset" => call'[c].user # u,
           LockedOut(u) => pc'[c] \notin {"judge", "count"} \/ call'[c].user # u
              \/ (pc[c] \in {"judge", "count"} /\ call'[c].user = call[c].user)
    PROVE  CountsAge(u)' /\ GuessesFit(u)'
<1>1. Resetting(u)' \subseteq Resetting(u)
  BY DEF Resetting
<1>2. LockedOut(u) => PastCheck(u)' \subseteq PastCheck(u)
  BY DEF PastCheck
<1> QED BY <1>1, <1>2, LosesRequests

LEMMA StepGuesses ==
    ASSUME AdminInv, GuessInv, NEW c \in Calls, Step(c) PROVE GuessInv'
<1> USE DEF AdminInv
<1>1. UNCHANGED <<now, since>> /\ \A d \in Calls \ {c} : pc'[d] = pc[d] /\ call'[d] = call[d]
  BY DEF Step, CheckLockout, JudgePassword, CountFailure, ExpireCounter, Lock, ResetCounter,
         ClearFailures, OpenSession, ReadSession, DropSession, SlideSession, RevokeSession,
         Verdict, Served, Answer, Goto, CallsOK, historyVars
<1> SUFFICES ASSUME NEW u \in Users PROVE CountsAge(u)' /\ GuessesFit(u)'
  BY <1>1 DEF GuessInv
<1>2. CountsAge(u) /\ GuessesFit(u) /\ since <= now
  BY DEF GuessInv
<1>3. CASE u = call[c].user /\ CountFailure(c)
  BY <1>2, <1>3, CountFailureGuesses
<1>4. CASE u = call[c].user /\ ExpireCounter(c)
  BY <1>2, <1>4, ExpireCounterGuesses
<1>5. CASE u = call[c].user /\ Lock(c)
  BY <1>2, <1>5, LockGuesses
<1>6. CASE u = call[c].user /\ ResetCounter(c)
  BY <1>2, <1>6, ResetCounterGuesses
<1>7. CASE u = call[c].user /\ ClearFailures(c)
  BY <1>2, <1>7, ClearFailuresGuesses
<1>8. CASE /\ u # call[c].user
           /\ CountFailure(c) \/ ExpireCounter(c) \/ Lock(c) \/ ResetCounter(c) \/ ClearFailures(c)
  <2>1. failures'[u] = failures[u] /\ lockout'[u] = lockout[u] /\ guesses'[u] = guesses[u]
    BY <1>8 DEF CountFailure, ExpireCounter, Lock, ResetCounter, ClearFailures, DropCount,
                CountersOK, CallsOK, historyVars
  <2>2. call'[c].user # u
    BY <1>8, AdminAssumption
    DEF CountFailure, ExpireCounter, Lock, ResetCounter, ClearFailures, Verdict, Answer, Goto,
        CallsOK, CallRecord, NoCall
  <2> QED BY <1>1, <1>2, <2>1, <2>2, ElsewhereGuesses
<1>9. CASE CheckLockout(c)
  <2>1. lockout[call[c].user] # 0 => pc'[c] = "idle"
    BY <1>9 DEF CheckLockout, Answer, Goto, CallsOK
  <2>2. LockedOut(u) => lockout[u] # 0
    BY RequestsType DEF LockedOut, CountersOK, Times
  <2>3. pc'[c] \in {"idle", "judge"} /\ call'[c].user \in {call[c].user, Nobody}
    BY <1>9 DEF CheckLockout, Answer, Goto, CallsOK, NoCall
  <2>4. UNCHANGED <<failures, lockout, guesses>>
    BY <1>9 DEF CheckLockout, redisVars, historyVars
  <2> QED BY <1>1, <1>2, <2>1, <2>2, <2>3, <2>4, AdminAssumption, ElsewhereGuesses
<1>10. CASE JudgePassword(c)
  <2>1. pc[c] = "judge" /\ pc'[c] \in {"clear", "count"} /\ call' = call
    BY <1>10 DEF JudgePassword, Goto, CallsOK
  <2>2. UNCHANGED <<failures, lockout, guesses>>
    BY <1>10 DEF JudgePassword, redisVars, historyVars
  <2> QED BY <1>1, <1>2, <2>1, <2>2, ElsewhereGuesses
<1>11. CASE OpenSession(c) \/ ReadSession(c) \/ DropSession(c) \/ SlideSession(c) \/ RevokeSession(c)
  <2>1. pc'[c] \notin {"reset", "judge", "count"} /\ UNCHANGED <<failures, lockout, guesses>>
    BY <1>11 DEF OpenSession, ReadSession, DropSession, SlideSession, RevokeSession, Served,
                 Answer, Goto, CallsOK, redisVars, historyVars
  <2> QED BY <1>1, <1>2, <2>1, ElsewhereGuesses
<1> QED BY <1>3, <1>4, <1>5, <1>6, <1>7, <1>8, <1>9, <1>10, <1>11 DEF Step

LEMMA NextGuesses ==
    ASSUME AdminInv, GuessInv, [Next]_vars PROVE GuessInv'
<1> USE DEF AdminInv
<1>1. ASSUME NEW c \in Calls, Step(c) PROVE GuessInv'
  BY <1>1, StepGuesses
<1>2. CASE Tick
  <2>1. since' <= now'
    BY <1>2 DEF GuessInv, Tick, WorldOK, CountersOK, Times
  <2> QED BY <1>2, <2>1, TickGuesses DEF GuessInv
<1>3. ASSUME UNCHANGED <<now, since, failures, lockout, guesses>>,
             \A u \in Users : /\ Resetting(u)' \subseteq Resetting(u)
                              /\ PastCheck(u)' \subseteq PastCheck(u)
      PROVE  GuessInv'
  BY <1>3, LosesRequests DEF GuessInv
<1>4. ASSUME NEW c \in Calls, CallFails(c) \/ (\E u \in Users : StartLogin(c, u))
                \/ \E u \in Users, t \in Tokens, kind \in {"use", "lock"} : StartUse(c, u, t, kind)
      PROVE  GuessInv'
  <2>1. /\ pc'[c] \notin {"reset", "judge", "count"}
        /\ \A d \in Calls \ {c} : pc'[d] = pc[d] /\ call'[d] = call[d]
        /\ UNCHANGED <<now, since, failures, lockout, guesses>>
    BY <1>4 DEF CallFails, StartLogin, StartUse, Answer, Goto, CallsOK, redisVars, historyVars
  <2> QED BY <1>3, <2>1 DEF Resetting, PastCheck
<1>5. ASSUME NEW admins \in SUBSET Users, Restart(admins) PROVE GuessInv'
  BY <1>3, <1>5 DEF Restart, Resetting, PastCheck, redisVars
<1>6. CASE UNCHANGED vars
  BY <1>3, <1>6 DEF vars, callVars, redisVars, historyVars, Resetting, PastCheck
<1> QED BY <1>1, <1>2, <1>4, <1>5, <1>6 DEF Next

LEMMA InitGuesses == Init => GuessInv
<1> SUFFICES ASSUME Init PROVE GuessInv
  OBVIOUS
<1>1. now = 0 /\ since = 0 /\ Requests \in Nat \ {0}
  BY RequestsType DEF Init
<1> SUFFICES ASSUME NEW u \in Users PROVE CountsAge(u) /\ GuessesFit(u)
  BY <1>1 DEF GuessInv
<1>2. guesses[u] = 0 /\ failures[u] = NoCount /\ lockout[u] = 0
  BY DEF Init, NoGuesses
<1>3. CountsAge(u) /\ ~LockedOut(u) /\ ~Dying(u) /\ Left(u) = Typos
  BY <1>1, <1>2, RequestsType, AdminAssumption DEF CountsAge, LockedOut, Dying, Left, NoCount, Typos
<1>4. Resetting(u) = {} /\ Calls # {}
  BY AdminAssumption DEF Init, Resetting
<1>5. Cardinality(Resetting(u)) = 0 /\ Allowance(u) = Typos
  BY <1>3, <1>4, FS_EmptySet, RequestsType DEF Allowance
<1>6. /\ Typos \in Nat /\ Typos * 0 = 0 /\ Typos <= Typos * Requests /\ Typos * Requests \in Nat
      /\ Budget = Typos * Requests + Typos - 1
  <2>1. Typos \in Nat /\ 0 \in Nat /\ Requests \in Nat /\ 0 <= Requests - 1 /\ Typos * 0 = 0
    BY <1>1, RequestsType
  <2> QED BY <2>1, RequestsType, Multiples
<1>7. Typos # 0 => 0 + Typos * 0 + Typos <= Budget /\ 0 <= Budget + Requests - 1
  BY <1>1, <1>6
<1> QED BY <1>2, <1>3, <1>5, <1>7 DEF GuessesFit

-----------------------------------------------------------------------------
\* The inductive invariant of the admin service: a request under way has its account and
\* token, a stored session its issue and its account.
THEOREM AdminInvariant == Spec => []AdminInv
  BY InitInv, NextInv, PTL DEF Spec

\* Keys, sessions, requests and histories keep their types; what is left of a session's
\* life when it is renewed is never negative.
THEOREM AdminTypeCorrect == Spec => []AdminTypeOK
  BY AdminInvariant, InvImpliesType, PTL

\* A count of failures has a TTL, or is about to get one, unless the call that had to set
\* it was lost: typos months apart do not add up.
THEOREM FailuresFade == Spec => []CounterFades
<1>1. AdminInv => CounterFades
  BY DEF AdminInv
<1> QED BY <1>1, AdminInvariant, PTL

\* As long as a lockout lasts and between two correct passwords, the wrong ones that are
\* counted without a lockout are bounded, whatever comes late or together.
THEOREM GuessesBounded == Spec => []GuessesAreBounded
<1>1. AdminInv /\ GuessInv /\ [Next]_vars => (AdminInv /\ GuessInv)'
  BY NextInv, NextGuesses
<1>2. AdminInv /\ GuessInv => GuessesAreBounded
  <2> SUFFICES ASSUME AdminInv, GuessInv, NEW u \in Users, guesses[u] # 0
               PROVE  guesses[u] <= 2 * Typos - 1 + (Requests - 1) * (Typos + 1)
    BY DEF GuessesAreBounded, Typos, Requests
  <2>1. guesses[u] <= Budget + Requests - 1
    BY DEF GuessInv, GuessesFit
  <2>2. \A t, n \in Nat : t * n + t - 1 + n - 1 = 2 * t - 1 + (n - 1) * (t + 1)
    OBVIOUS
  <2>3. Budget + Requests - 1 = 2 * Typos - 1 + (Requests - 1) * (Typos + 1)
    BY <2>2, RequestsType
  <2> QED BY <2>1, <2>3
<1> QED BY <1>1, <1>2, InitInv, InitGuesses, PTL DEF Spec

\* The step-up sessions are those of AdminSessions: issued once, and closed for good.
THEOREM AdminImplementsSessions == Spec => ImplementsSessions
<1>1. Init => Sessions!SessionsInit
  BY DEF Init, Sessions!SessionsInit, Stored
<1> QED BY <1>1, InitInv, NextInv, PTL DEF Spec, ImplementsSessions, Sessions!SessionsSpec
=============================================================================
