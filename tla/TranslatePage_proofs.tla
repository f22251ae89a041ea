------------------------ MODULE TranslatePage_proofs ------------------------
(***************************************************************************)
(* The translate screen shows no answer but that of its draft, waits for   *)
(* its latest request only, and sends no more than its attempts allow, for *)
(* any drafts, styles and numbers of attempts, and sharing leaves it so.    *)
(***************************************************************************)
EXTENDS SharePage, TLAPS

\* Requests that are waited for.
Live(v) == v.flying \ v.aborted

ShapeOK(v) ==
    /\ v \in View
    /\ v.aborted \subseteq v.flying
    /\ v.mutation.status = "pending" => v.mutation.of \in v.flying

\* A request that is waited for is the latest one, and the count of attempts is its own.
LiveOK(v, in) ==
    \A r \in Live(v) :
        /\ r = v.mutation.of /\ r.version = v.version /\ r.key = KeyOf(in) /\ r.nonce <= in.nonce
        /\ r.nonce = in.nonce => v.attempt.key = r.key /\ v.attempt.nonce = r.nonce

\* No request goes uncounted, and a 429 leaves nothing to spend.
CountOK(v, in) ==
    /\ v.sent <= Attempts(v, in).count
    /\ v.limited => Spent(Attempts(v, in))

ViewInv(v, in) == ShapeOK(v) /\ LiveOK(v, in) /\ CountOK(v, in)

LEMMA AttemptsType ==
    ASSUME NEW v \in View, NEW in \in Input
    PROVE  Attempts(v, in) \in [key : Keys \cup {Nothing}, nonce : 0..MaxRetries, count : 0..MaxAttempts]
  BY PageAssumption DEF Attempts, View, Input, KeyOf, Keys

LEMMA AbortInv ==
    ASSUME NEW v, NEW in, ViewInv(v, in)
    PROVE  ViewInv(Abort(v), in) /\ Live(Abort(v)) = {}
<1>1. Abort(v) \in View
  BY DEF Abort, ViewInv, ShapeOK, View
<1>2. Live(Abort(v)) = {}
  BY DEF Abort, ViewInv, ShapeOK, View, Live
<1>3. ShapeOK(Abort(v))
  BY <1>1 DEF Abort, ViewInv, ShapeOK, View
<1>4. CountOK(Abort(v), in)
  BY DEF Abort, ViewInv, ShapeOK, View, CountOK, Attempts
<1> QED BY <1>2, <1>3, <1>4 DEF ViewInv, LiveOK

LEMMA SentType ==
    ASSUME NEW v \in View, NEW in \in Input, ~Spent(Attempts(v, in))
    PROVE  [Attempts(v, in) EXCEPT !.count = @ + 1] \in 
    [key : {KeyOf(in)}, nonce : {in.nonce}, count : 1..MaxAttempts]
BY AttemptsType, PageAssumption DEF Attempts, View, Input, KeyOf, Keys, Spent

LEMMA SentInv ==
    ASSUME NEW v, NEW in \in Input, ViewInv(v, in), ~Spent(Attempts(v, in))
    PROVE  ViewInv(Sent(v, in), in)
<1> DEFINE a == [Attempts(v, in) EXCEPT !.count = @ + 1]
           r == [key |-> KeyOf(in), version |-> v.version, nonce |-> in.nonce, count |-> a.count]
           w == Sent(v, in)
<1>1. v \in View /\ ViewInv(Abort(v), in) /\ Live(Abort(v)) = {} /\ Abort(v) \in View
  BY AbortInv DEF ViewInv, ShapeOK
<1>2. a \in [key : {KeyOf(in)}, nonce : {in.nonce}, count : 1..MaxAttempts]
  BY <1>1, SentType
<1>3. r \in Request
  BY <1>1, <1>2 DEF Request, View, Input, Keys, KeyOf
<1>4. w = [Abort(v) EXCEPT !.attempt = a, !.flying = @ \cup {r}, !.sent = @ + 1, !.timer = TRUE,
                         !.mutation = [of |-> r, status |-> "pending"]]
  BY DEF Sent
<1>5. w \in View
  <2> DEFINE m == [of |-> r, status |-> "pending"]
             F == Abort(v).flying \cup {r}
             S == Abort(v).sent + 1
             u == [Abort(v) EXCEPT !.attempt = a, !.timer = TRUE]
  <2>1. a \in [key : Keys \cup {Nothing}, nonce : 0..MaxRetries, count : 0..MaxAttempts]
    BY <1>2 DEF Keys, KeyOf, Input
  <2>2. m \in [of : Request \cup {Nothing}, status : {"idle", "pending", "success", "error"}]
    BY <1>3
  <2>3. F \in SUBSET Request /\ S \in Nat
    BY <1>1, <1>3 DEF View
  <2>4. w = [u EXCEPT !.flying = F, !.sent = S, !.mutation = m]
    BY <1>1, <1>4 DEF View
  <2> HIDE DEF a, r, m, F, S, w
  <2>5. u \in View
    BY <1>1, <2>1 DEF View
  <2> HIDE DEF u
  <2> QED BY <2>2, <2>3, <2>4, <2>5 DEF View
<1>6. ShapeOK(w)
  BY <1>1, <1>3, <1>4, <1>5 DEF ShapeOK, View, ViewInv
<1>7. LiveOK(w, in)
  <2>1. \A x \in Live(w) : x = r
    BY <1>1, <1>4 DEF Live, View, Abort
  <2>2. w.mutation.of = r /\ w.version = v.version /\ w.attempt = a
    BY <1>1, <1>4 DEF View, Abort
  <2>3. a.key = KeyOf(in) /\ a.nonce = in.nonce /\ in.nonce <= in.nonce
    BY <1>2 DEF Input
  <2> QED BY <2>1, <2>2, <2>3 DEF LiveOK
<1>8. CountOK(w, in)
  <2>1. w.attempt = a /\ w.sent = v.sent + 1 /\ w.limited = v.limited
    BY <1>1, <1>4 DEF View, Abort
  <2>2. Attempts(w, in) = a
    BY <1>2, <2>1 DEF Attempts
  <2>3. a.count = Attempts(v, in).count + 1 /\ v.sent <= Attempts(v, in).count /\ ~v.limited
    BY <1>1, AttemptsType DEF ViewInv, CountOK
  <2> QED BY <1>1, <2>1, <2>2, <2>3, AttemptsType DEF CountOK, Spent, View
<1> QED BY <1>6, <1>7, <1>8 DEF ViewInv

\* Fields that only the screen reads.
LEMMA ScreenInv ==
    ASSUME NEW v, NEW in, ViewInv(v, in), NEW w \in View,
           w.version = v.version, w.attempt = v.attempt, w.flying = v.flying, w.aborted = v.aborted,
           w.mutation = v.mutation, w.sent = v.sent, w.limited = v.limited
    PROVE  ViewInv(w, in)
  BY DEF ViewInv, ShapeOK, LiveOK, Live, CountOK, Attempts

LEMMA RunInv ==
    ASSUME NEW v, NEW in \in Input, ViewInv(v, in)
    PROVE  ViewInv(Run(v, in), in)
<1> DEFINE w == [v EXCEPT !.lastKey = KeyOf(in)]
<1>1. v \in View /\ KeyOf(in) \in Keys
  BY DEF ViewInv, ShapeOK, KeyOf, Keys, Input
<1>2. w \in View /\ ViewInv(w, in)
  <2>1. w \in View
    BY <1>1 DEF View
  <2> QED BY <1>1, <2>1, ScreenInv DEF View
<1>3. CASE ~in.online
  <2>1. Run(v, in) = [v EXCEPT !.banner = TRUE, !.timer = TRUE]
    BY <1>3 DEF Run
  <2>2. Run(v, in) \in View
    BY <1>1, <2>1 DEF View
  <2> QED BY <1>1, <2>1, <2>2, ScreenInv DEF View
<1>4. CASE in.online /\ KeyOf(in) \in v.cached
  <2>1. Run(v, in) = [w EXCEPT !.current = KeyOf(in), !.timer = (v.current # KeyOf(in))]
    BY <1>4 DEF Run
  <2>2. Run(v, in) \in View
    BY <1>1, <1>2, <2>1 DEF View
  <2> QED BY <1>2, <2>1, <2>2, ScreenInv DEF View
<1>5. CASE in.online /\ KeyOf(in) \notin v.cached /\ Spent(Attempts(v, in))
  <2>1. Run(v, in) = [w EXCEPT !.timer = FALSE]
    BY <1>5 DEF Run
  <2>2. Run(v, in) \in View
    BY <1>1, <1>2, <2>1 DEF View
  <2> QED BY <1>2, <2>1, <2>2, ScreenInv DEF View
<1>6. CASE in.online /\ KeyOf(in) \notin v.cached /\ ~Spent(Attempts(v, in))
  <2>1. Run(v, in) = Sent(w, in)
    BY <1>6 DEF Run
  <2>2. ~Spent(Attempts(w, in))
    BY <1>1, <1>6 DEF Attempts, View
  <2> QED BY <1>2, <2>1, <2>2, SentInv
<1> QED BY <1>3, <1>4, <1>5, <1>6

LEMMA RenderInv ==
    ASSUME NEW v, NEW in \in Input, ViewInv(v, in)
    PROVE  ViewInv(Render(v, in), in)
<1>1. v \in View /\ ViewInv(Abort(v), in) /\ Abort(v) \in View
  BY AbortInv DEF ViewInv, ShapeOK
<1>2. CASE in.text = "short"
  <2>1. Render(v, in) = [Abort(v) EXCEPT !.current = Nothing, !.timer = FALSE]
    BY <1>2, PageAssumption DEF Render
  <2>2. Render(v, in) \in View
    BY <1>1, <2>1 DEF View
  <2> QED BY <1>1, <2>1, <2>2, ScreenInv DEF View
<1>3. CASE in.text = "long"
  <2>1. Render(v, in) = [Abort(v) EXCEPT !.timer = FALSE]
    BY <1>3, PageAssumption DEF Render
  <2>2. Render(v, in) \in View
    BY <1>1, <2>1 DEF View
  <2> QED BY <1>1, <2>1, <2>2, ScreenInv DEF View
<1>4. CASE in.text \in Texts /\ v.prevStyle \notin {Nothing, in.style}
  <2> DEFINE w == [v EXCEPT !.prevStyle = in.style]
  <2>1. Render(v, in) = Run(w, in)
    BY <1>4, PageAssumption DEF Render
  <2>2. w \in View
    BY <1>1 DEF View, Input
  <2>3. ViewInv(w, in)
    BY <1>1, <2>2, ScreenInv DEF View
  <2> QED BY <2>1, <2>3, RunInv
<1>5. CASE in.text \notin {"short", "long"} /\ ~(in.text \in Texts /\ v.prevStyle \notin {Nothing, in.style})
  <2>1. Render(v, in) = [v EXCEPT !.prevStyle = in.style, !.timer = TRUE]
    BY <1>5 DEF Render
  <2>2. Render(v, in) \in View
    BY <1>1, <2>1 DEF View, Input
  <2> QED BY <1>1, <2>1, <2>2, ScreenInv DEF View
<1> QED BY <1>2, <1>3, <1>4, <1>5

LEMMA ChangeInv ==
    ASSUME NEW v, input \in Input, NEW in \in Input, ViewInv(v, input),
           in.nonce >= input.nonce, KeyOf(in) # KeyOf(input) => v.version < MaxEdits
    PROVE  ViewInv(Change(v, in), in)
<1> DEFINE w == [v EXCEPT !.sent = 0, !.limited = FALSE]
<1>1. v \in View /\ v.version \in 0..MaxEdits
  BY DEF ViewInv, ShapeOK, View
<1>2. w \in View
  BY <1>1 DEF View
<1>3. CASE in.nonce = input.nonce /\ KeyOf(in) = KeyOf(input)
  <2>1. Change(v, in) = v
    BY <1>3 DEF Change
  <2> QED BY <1>3, <2>1 DEF ViewInv, LiveOK, CountOK, Attempts
<1>4. CASE in.nonce # input.nonce \/ KeyOf(in) # KeyOf(input)
  <2>1. w.sent <= Attempts(w, in).count /\ ~w.limited
    <3>1. w.sent = 0 /\ ~w.limited
      BY <1>1 DEF View
    <3>2. Attempts(w, in).count \in 0..MaxAttempts
      BY <1>2, AttemptsType
    <3> QED BY <3>1, <3>2
  <2>2. ShapeOK(w) /\ CountOK(w, in)
    BY <1>1, <1>2, <2>1 DEF ViewInv, ShapeOK, CountOK, View
  <2>3. CASE KeyOf(in) = KeyOf(input)
    <3>1. Change(v, in) = w /\ in.nonce # input.nonce
      BY <1>4, <2>3 DEF Change
    <3>2. LiveOK(w, in)
      <4>1. Live(w) = Live(v) /\ w.mutation = v.mutation /\ w.version = v.version
        BY <1>1 DEF Live, View
      <4>2. \A x \in Live(v) : x.nonce <= input.nonce /\ x.nonce \in Nat
        BY <1>1 DEF ViewInv, LiveOK, Live, View, Request
      <4>3. in.nonce > input.nonce
        BY <3>1 DEF Input
      <4>4. \A x \in Live(w) : x.nonce < in.nonce
        BY <4>1, <4>2, <4>3 DEF Input
      <4> QED BY <2>3, <4>1, <4>2, <4>4 DEF ViewInv, LiveOK, Input
    <3> QED BY <2>2, <3>1, <3>2 DEF ViewInv
  <2>4. CASE KeyOf(in) # KeyOf(input)
    <3> DEFINE u == [Abort(w) EXCEPT !.version = @ + 1]
    <3>1. Change(v, in) = u
      BY <1>4, <2>4 DEF Change
    <3>2. u \in View /\ Live(u) = {}
      <4>1. Abort(w) \in View /\ Abort(w).version = v.version
        BY <1>1, <1>2 DEF View, Abort
      <4>2. v.version + 1 \in 0..MaxEdits
        BY <1>1, <2>4, PageAssumption
      <4>3. u \in View
        BY <4>1, <4>2 DEF View
      <4> QED BY <1>2, <4>3 DEF Live, Abort, View
    <3>3. ShapeOK(u) /\ CountOK(u, in)
      BY <1>2, <2>2, <3>2 DEF ShapeOK, CountOK, View, Abort, Attempts
    <3> QED BY <3>1, <3>2, <3>3 DEF ViewInv, LiveOK
  <2> QED BY <2>3, <2>4
<1> QED BY <1>3, <1>4

LEMMA ShowInv ==
    ASSUME NEW v, input \in Input, NEW in \in Input, ViewInv(v, input),
           in.nonce >= input.nonce, KeyOf(in) # KeyOf(input) => v.version < MaxEdits,
           Show(v, in)
    PROVE  input' \in Input /\ ViewInv(view', input')
  BY ChangeInv, RenderInv DEF Show

\* What runPreview may put on the screen, and that it sends nothing after a 429.
LEMMA RunShows ==
    ASSUME NEW w, NEW in \in Input, ViewInv(w, in)
    PROVE  /\ Run(w, in).current \in {Nothing, w.current, KeyOf(in)}
           /\ w.limited => Run(w, in).sent = w.sent
           /\ Run(w, in).limited = w.limited
<1> DEFINE x == [w EXCEPT !.lastKey = KeyOf(in)]
<1>1. w \in View /\ x \in View /\ Attempts(x, in) = Attempts(w, in)
  BY DEF ViewInv, ShapeOK, View, KeyOf, Keys, Input, Attempts
<1>2. CASE in.online /\ KeyOf(in) \notin w.cached /\ ~Spent(Attempts(w, in))
  <2>1. Run(w, in) = Sent(x, in) /\ ~w.limited
    BY <1>2 DEF Run, ViewInv, CountOK
  <2>2. Sent(x, in).current = w.current /\ Sent(x, in).limited = w.limited
    BY <1>1 DEF Sent, Abort, View
  <2> QED BY <2>1, <2>2
<1>3. CASE ~(in.online /\ KeyOf(in) \notin w.cached /\ ~Spent(Attempts(w, in)))
  BY <1>1, <1>3 DEF Run, View
<1> QED BY <1>2, <1>3

\* The same of a render.
LEMMA RenderShows ==
    ASSUME NEW v, NEW in \in Input, ViewInv(v, in)
    PROVE  /\ Render(v, in).current \in {Nothing, v.current, KeyOf(in)}
           /\ v.limited => Render(v, in).sent = v.sent
           /\ Render(v, in).limited = v.limited
<1>1. v \in View /\ Abort(v) \in View /\ Abort(v).current = v.current /\ Abort(v).sent = v.sent
      /\ Abort(v).limited = v.limited
  BY AbortInv DEF ViewInv, ShapeOK, Abort, View
<1>2. CASE in.text \in Texts /\ v.prevStyle \notin {Nothing, in.style}
  <2> DEFINE w == [v EXCEPT !.prevStyle = in.style]
  <2>1. Render(v, in) = Run(w, in)
    BY <1>2, PageAssumption DEF Render
  <2>2. w \in View
    BY <1>1 DEF View, Input
  <2>3. ViewInv(w, in) /\ w.current = v.current /\ w.sent = v.sent /\ w.limited = v.limited
    BY <1>1, <2>2, ScreenInv DEF View
  <2> QED BY <2>1, <2>3, RunShows
<1>3. CASE ~(in.text \in Texts /\ v.prevStyle \notin {Nothing, in.style})
  BY <1>1, <1>3 DEF Render, View
<1> QED BY <1>2, <1>3

-----------------------------------------------------------------------------
(* The actions.                                                            *)

PageInv == input \in Input /\ gate \in Gate /\ saving \in BOOLEAN /\ ViewInv(view, input)

\* What a step may do to the screen and, after a 429, to the requests.
Faithful ==
    /\ view'.current \notin {Nothing, view.current} => view'.current = KeyOf(input')
    /\ view.limited /\ view'.limited => view'.sent = view.sent

Stepped == input' \in Input /\ ViewInv(view', input') /\ Faithful

LEMMA ShowStep ==
    ASSUME NEW v, input \in Input, NEW in \in Input, ViewInv(v, input),
           in.nonce >= input.nonce, KeyOf(in) # KeyOf(input) => v.version < MaxEdits,
           v.current \in {view.current, Nothing, KeyOf(in)}, v.sent = view.sent,
           view.limited => v.limited, Show(v, in)
    PROVE  Stepped
<1> DEFINE w == Change(v, in)
<1>1. v \in View /\ ViewInv(w, in) /\ view' = Render(w, in) /\ input' = in
  BY ChangeInv DEF Show, ViewInv, ShapeOK
<1>2. w.current = v.current /\ (w.limited => w.sent = v.sent) /\ (w.limited => v.limited)
  <2>1. CASE in.nonce = input.nonce /\ KeyOf(in) = KeyOf(input)
    BY <2>1 DEF Change
  <2>2. CASE in.nonce # input.nonce \/ KeyOf(in) # KeyOf(input)
    <3> DEFINE x == [v EXCEPT !.sent = 0, !.limited = FALSE]
    <3>1. x \in View /\ x.current = v.current /\ ~x.limited
      BY <1>1 DEF View
    <3>2. w = x \/ w = [Abort(x) EXCEPT !.version = @ + 1]
      BY <2>2 DEF Change
    <3> QED BY <3>1, <3>2 DEF Abort, View
  <2> QED BY <2>1, <2>2
<1>3. /\ view'.current \in {Nothing, w.current, KeyOf(in)}
      /\ w.limited => view'.sent = w.sent
      /\ view'.limited = w.limited
  BY <1>1, RenderShows
<1>4. input' \in Input /\ ViewInv(view', input')
  BY <1>1, ShowInv
<1>5. Faithful
  BY <1>1, <1>2, <1>3 DEF Faithful
<1> QED BY <1>4, <1>5 DEF Stepped

LEMMA ViewFacts ==
    ASSUME PageInv
    PROVE  /\ view \in View /\ input \in Input /\ ViewInv(view, input)
           /\ \A b \in BOOLEAN :
                 LET v == [view EXCEPT !.banner = b]
                 IN  /\ v \in View /\ ViewInv(v, input) /\ v.version = view.version
                     /\ v.current = view.current /\ v.sent = view.sent /\ v.limited = view.limited
<1>1. view \in View
  BY DEF PageInv, ViewInv, ShapeOK
<1>2. ASSUME NEW b \in BOOLEAN
      PROVE  LET v == [view EXCEPT !.banner = b]
             IN  /\ v \in View /\ ViewInv(v, input) /\ v.version = view.version
                 /\ v.current = view.current /\ v.sent = view.sent /\ v.limited = view.limited
  <2> DEFINE v == [view EXCEPT !.banner = b]
  <2>1. v \in View
    BY <1>1 DEF View
  <2>2. ViewInv(v, input)
    BY <1>1, <2>1, ScreenInv DEF PageInv, View
  <2> QED BY <1>1, <2>1, <2>2 DEF View
<1> QED BY <1>1, <1>2 DEF PageInv

\* The input stays and so does the view, but for the banner.
LEMMA SameInput ==
    ASSUME PageInv, NEW b \in BOOLEAN,
           Show(view, input) \/ Show([view EXCEPT !.banner = b], input)
    PROVE  Stepped
<1>1. input.nonce >= input.nonce
  BY ViewFacts DEF Input
<1> QED BY <1>1, ViewFacts, ShowStep

LEMMA InputSteps ==
    ASSUME PageInv,
           \/ \E t \in Texts \cup {"short", "long"} : Edit(t)
           \/ \E s \in Styles : SelectStyle(s)
           \/ Retry \/ AgeConfirmed \/ Network
    PROVE  Stepped
<1>1. view.version \in 0..MaxEdits /\ input.nonce \in 0..MaxRetries /\ gate \in Gate
  BY ViewFacts DEF View, Input, PageInv
<1>2. ASSUME NEW in \in Input, NEW b \in BOOLEAN, in.nonce >= input.nonce,
             KeyOf(in) # KeyOf(input) => Editable,
             Show(view, in) \/ Show([view EXCEPT !.banner = b], in)
      PROVE  Stepped
  BY <1>1, <1>2, ViewFacts, ShowStep DEF Editable
<1>3. CASE \E t \in Texts \cup {"short", "long"} : Edit(t)
  <2> PICK t \in Texts \cup {"short", "long"} : Edit(t)
    BY <1>3
  <2>1. [input EXCEPT !.text = t] \in Input /\ [input EXCEPT !.text = t].nonce >= input.nonce
    BY ViewFacts DEF Input
  <2> QED BY <1>2, <2>1 DEF Edit
<1>4. CASE \E s \in Styles : SelectStyle(s)
  <2> PICK s \in Styles : SelectStyle(s)
    BY <1>4
  <2>1. [input EXCEPT !.style = s] \in Input /\ [input EXCEPT !.style = s].nonce >= input.nonce
    BY ViewFacts DEF Input
  <2> QED BY <1>2, <2>1 DEF SelectStyle
<1>5. CASE Retry
  <2>1. /\ [input EXCEPT !.nonce = @ + 1] \in Input
        /\ [input EXCEPT !.nonce = @ + 1].nonce >= input.nonce
        /\ KeyOf([input EXCEPT !.nonce = @ + 1]) = KeyOf(input)
    BY <1>1, <1>5, ViewFacts, PageAssumption DEF Retry, Input, KeyOf
  <2> QED BY <1>2, <1>5, <2>1 DEF Retry
<1>6. CASE AgeConfirmed
  <2>1. CASE /\ gate.pending # Nothing /\ Editable
             /\ Show([view EXCEPT !.banner = FALSE], [input EXCEPT !.style = gate.pending])
    <3>1. /\ [input EXCEPT !.style = gate.pending] \in Input
          /\ [input EXCEPT !.style = gate.pending].nonce >= input.nonce
      BY <1>1, <2>1, ViewFacts DEF Gate, Input
    <3> QED BY <1>2, <2>1, <3>1
  <2>2. CASE /\ input.nonce < MaxRetries
             /\ Show([view EXCEPT !.banner = FALSE], [input EXCEPT !.nonce = @ + 1])
    <3>1. /\ [input EXCEPT !.nonce = @ + 1] \in Input
          /\ [input EXCEPT !.nonce = @ + 1].nonce >= input.nonce
          /\ KeyOf([input EXCEPT !.nonce = @ + 1]) = KeyOf(input)
      BY <1>1, <2>2, ViewFacts, PageAssumption DEF Input, KeyOf
    <3> QED BY <1>2, <2>2, <3>1
  <2> QED BY <1>6, <2>1, <2>2 DEF AgeConfirmed
<1>7. CASE Network
  <2>1. /\ [input EXCEPT !.online = ~@] \in Input
        /\ [input EXCEPT !.online = ~@].nonce >= input.nonce
        /\ KeyOf([input EXCEPT !.online = ~@]) = KeyOf(input)
    <3> DEFINE on == ~input.online
    <3>1. input \in Input /\ on \in BOOLEAN
      BY ViewFacts
    <3>2. [input EXCEPT !.online = ~@] = [input EXCEPT !.online = on]
      BY <3>1 DEF Input
    <3> HIDE DEF on
    <3> QED BY <3>1, <3>2 DEF Input, KeyOf
  <2> QED BY <1>2, <1>7, <2>1 DEF Network
<1> QED BY <1>3, <1>4, <1>5, <1>6, <1>7

\* A request settles, in one way or another.
LEMMA SettledInv ==
    ASSUME PageInv, NEW r \in view.flying, NEW status \in {"success", "error"}
    PROVE  LET v == Settled(r, status)
           IN  /\ v \in View /\ ViewInv(v, input) /\ Live(v) = Live(view) \ {r}
               /\ v.version = view.version /\ v.current = view.current
               /\ v.sent = view.sent /\ v.limited = view.limited
               /\ v.attempt = view.attempt /\ v.cached = view.cached
<1> DEFINE v == Settled(r, status)
           m == [view.mutation EXCEPT !.status = IF view.mutation.of = r THEN status ELSE @]
<1>1. view \in View /\ ViewInv(view, input)
  BY ViewFacts
<1>2. m \in [of : Request \cup {Nothing}, status : {"idle", "pending", "success", "error"}]
  BY <1>1 DEF View
<1>3. v = [view EXCEPT !.flying = @ \ {r}, !.aborted = @ \ {r}, !.mutation = m]
  BY <1>1 DEF Settled, View
<1>4. m.of = view.mutation.of /\ (m.status = "pending" => view.mutation.status = "pending" /\ m.of # r)
  BY <1>1 DEF View
<1> HIDE DEF v, m
<1>5. v \in View
  BY <1>1, <1>2, <1>3 DEF View
<1>6. /\ v.version = view.version /\ v.current = view.current
      /\ v.sent = view.sent /\ v.limited = view.limited
      /\ v.attempt = view.attempt /\ v.cached = view.cached
      /\ v.flying = view.flying \ {r} /\ v.aborted = view.aborted \ {r} /\ v.mutation = m
  BY <1>1, <1>3 DEF View
<1>7. Live(v) = Live(view) \ {r}
  BY <1>6 DEF Live
<1>8. ShapeOK(v)
  BY <1>1, <1>4, <1>5, <1>6 DEF ViewInv, ShapeOK
<1>9. LiveOK(v, input) /\ CountOK(v, input)
  BY <1>1, <1>4, <1>6, <1>7 DEF ViewInv, LiveOK, CountOK, Attempts
<1> QED BY <1>5, <1>6, <1>7, <1>8, <1>9 DEF ViewInv, v

\* A request whose answer matters is the latest one.
LEMMA RelevantIsLive ==
    ASSUME PageInv, NEW r \in view.flying, r.version = view.version, r \notin view.aborted
    PROVE  /\ r = view.mutation.of /\ r.key = KeyOf(input) /\ r \in Live(view)
           /\ r.nonce = input.nonce => Attempts(view, input) = view.attempt
  BY ViewFacts DEF ViewInv, LiveOK, Live, Attempts

\* An answer that changes nothing but its request.
LEMMA JustSettled ==
    ASSUME PageInv, NEW r \in view.flying, NEW status \in {"success", "error"},
           Notify(r, Settled(r, status))
    PROVE  Stepped
<1>1. input.nonce >= input.nonce
  BY ViewFacts DEF Input
<1>2. CASE Show(Settled(r, status), input)
  BY <1>1, <1>2, ViewFacts, SettledInv, ShowStep
<1>3. CASE view' = Settled(r, status) /\ UNCHANGED input
  BY <1>3, ViewFacts, SettledInv DEF Stepped, Faithful
<1> QED BY <1>2, <1>3 DEF Notify

LEMMA TranslatedStep ==
    ASSUME PageInv, NEW r \in view.flying, Translated(r)
    PROVE  Stepped
<1> DEFINE v == Settled(r, "success")
           w == [v EXCEPT !.current = r.key, !.cached = @ \cup {r.key}]
<1>1. CASE Fits(r)
  <2>1. r = view.mutation.of /\ r.key = KeyOf(input)
    BY <1>1, RelevantIsLive DEF Fits
  <2>2. v \in View /\ ViewInv(v, input) /\ r.key \in Keys /\ input.nonce >= input.nonce
    BY <2>1, ViewFacts, SettledInv DEF Input, KeyOf, Keys
  <2>3. w \in View
    BY <2>2 DEF View
  <2>4. /\ ViewInv(w, input) /\ w.version = v.version /\ w.sent = v.sent /\ w.limited = v.limited
        /\ w.current = r.key
    BY <2>2, <2>3, ScreenInv DEF View
  <2>5. Show(w, input)
    BY <1>1, <2>1 DEF Translated, Notify
  <2> HIDE DEF w
  <2> QED BY <2>1, <2>2, <2>4, <2>5, ViewFacts, SettledInv, ShowStep
<1>2. CASE ~Fits(r)
  BY <1>2, JustSettled DEF Translated
<1> QED BY <1>1, <1>2

LEMMA FailsStep ==
    ASSUME PageInv, NEW r \in view.flying, PreviewFails(r)
    PROVE  Stepped
<1> DEFINE v == Settled(r, "error")
<1>1. PICK kind \in {"auth", "limit", "other", "age"} :
        \/ Notify(r, v)
        \/ Relevant(r) /\ Notify(r, [Burn(Fail(v, kind), kind) EXCEPT
                               !.limited = @ \/ (kind = "limit" /\ r.nonce = input.nonce)])
  BY DEF PreviewFails
<1>2. CASE Notify(r, v)
  BY <1>2, JustSettled
<1>3. CASE Relevant(r) /\ Notify(r, [Burn(Fail(v, kind), kind) EXCEPT
                               !.limited = @ \/ (kind = "limit" /\ r.nonce = input.nonce)])
  <2> DEFINE u == Burn(Fail(v, kind), kind)
             lim == u.limited \/ (kind = "limit" /\ r.nonce = input.nonce)
             w == [u EXCEPT !.limited = lim]
  <2>1. r = view.mutation.of /\ (r.nonce = input.nonce => Attempts(view, input) = view.attempt)
    BY <1>3, RelevantIsLive DEF Relevant
  <2>2. Show(w, input) /\ input \in Input /\ input.nonce >= input.nonce
    BY <1>3, <2>1, ViewFacts DEF Notify, Input
  <2>3. v \in View /\ ViewInv(v, input) /\ v.attempt = view.attempt
    BY SettledInv
  <2>4. Fail(v, kind) \in View
    BY <2>3 DEF Fail, View
  <2>5. u \in View
    BY <2>4, PageAssumption DEF Burn, View
  <2>6. /\ u.version = v.version /\ u.flying = v.flying /\ u.aborted = v.aborted
        /\ u.mutation = v.mutation /\ u.sent = v.sent /\ u.current = v.current
        /\ u.limited = v.limited
        /\ u.attempt.key = v.attempt.key /\ u.attempt.nonce = v.attempt.nonce
        /\ u.attempt.count = IF kind = "limit" THEN MaxAttempts ELSE v.attempt.count
    BY <2>3, <2>4 DEF Burn, Fail, View
  <2>7. lim \in BOOLEAN /\ (view.limited => lim)
    BY <2>5, <2>6, SettledInv DEF View
  <2> HIDE DEF u, v
  <2>8. /\ w \in View
        /\ w.version = u.version /\ w.flying = u.flying /\ w.aborted = u.aborted
        /\ w.mutation = u.mutation /\ w.sent = u.sent /\ w.current = u.current
        /\ w.limited = lim /\ w.attempt = u.attempt
    BY <2>5, <2>7 DEF View
  <2>9. ShapeOK(w) /\ LiveOK(w, input)
    BY <2>3, <2>6, <2>8 DEF ViewInv, ShapeOK, LiveOK, Live
  <2>10. CountOK(w, input)
    <3>0. lim = (v.limited \/ (kind = "limit" /\ r.nonce = input.nonce))
      BY <2>6 DEF lim
    <3>1. Attempts(w, input).count >= Attempts(v, input).count
      BY <2>2, <2>3, <2>6, <2>8, AttemptsType DEF Attempts, View
    <3>2. kind = "limit" /\ r.nonce = input.nonce => Spent(Attempts(w, input))
      BY <2>1, <2>3, <2>6, <2>8, PageAssumption DEF Attempts, Spent
    <3>3. v.limited => Spent(Attempts(w, input))
      BY <2>2, <2>3, <2>8, <3>1, AttemptsType, PageAssumption DEF ViewInv, CountOK, Spent
    <3>4. w.sent <= Attempts(w, input).count
      BY <2>2, <2>3, <2>6, <2>8, <3>1, AttemptsType DEF ViewInv, CountOK, View
    <3> QED BY <2>8, <3>0, <3>2, <3>3, <3>4 DEF CountOK
  <2> HIDE DEF w, lim
  <2> QED BY <2>2, <2>6, <2>7, <2>8, <2>9, <2>10, SettledInv, ShowStep DEF ViewInv, v
<1> QED BY <1>1, <1>2, <1>3

LEMMA TimeSteps ==
    ASSUME PageInv, Debounce \/ \E key \in view.cached : Forget(key)
    PROVE  Stepped
<1>1. CASE Debounce
  BY <1>1, ViewFacts, RunInv, RunShows DEF Debounce, Stepped, Faithful
<1>2. CASE \E key \in view.cached : Forget(key)
  <2> PICK key \in view.cached : Forget(key)
    BY <1>2
  <2>1. view' \in View
    BY ViewFacts DEF Forget, View
  <2>2. ViewInv(view', input')
    BY <2>1, ViewFacts, ScreenInv DEF Forget, View
  <2> QED BY <2>2, ViewFacts DEF Forget, Stepped, Faithful, View
<1> QED BY <1>1, <1>2

LEMMA InitInv == Init => PageInv
<1> SUFFICES ASSUME Init PROVE PageInv
  OBVIOUS
<1>1. input \in Input
  BY PageAssumption DEF Init, Input
<1>0. gate \in Gate
  BY DEF Init, Gate
<1>9. saving \in BOOLEAN
  BY DEF Init
<1>2. view \in View
  BY PageAssumption DEF Init, View
<1>3. ShapeOK(view) /\ LiveOK(view, input)
  BY <1>2 DEF Init, ShapeOK, LiveOK, Live
<1>4. CountOK(view, input)
  BY <1>1, <1>2, AttemptsType DEF Init, CountOK
<1> QED BY <1>0, <1>1, <1>3, <1>4, <1>9 DEF PageInv, ViewInv

\* The dialog for adults and the save button keep their types.
LEMMA DialogSteps == ASSUME PageInv, Next PROVE gate' \in Gate /\ saving' \in BOOLEAN
<1>1. gate \in Gate /\ saving \in BOOLEAN
  BY DEF PageInv
<1>2. CASE UNCHANGED gate
  <2>1. saving' \in BOOLEAN
    BY <1>1 DEF Next, Edit, SelectStyle, SelectLocked, Retry, CancelAge, ConfirmAge, Save,
       AgeConfirmed,
       AgeFails, Answer, Translated, Cancelled, PreviewFails, Saved, SaveFails, Network, Debounce, Forget
  <2> QED BY <1>1, <1>2, <2>1
<1>3. CASE /\ UNCHANGED saving
           /\ \/ \E s \in Styles : SelectLocked(s)
              \/ CancelAge \/ ConfirmAge \/ AgeConfirmed \/ AgeFails
              \/ \E r \in view.flying : PreviewFails(r)
  <2>1. gate' \in Gate
    <3>1. CASE \E s \in Styles : SelectLocked(s)
      BY <1>1, <3>1 DEF Gate, SelectLocked
    <3>2. CASE CancelAge
      BY <1>1, <3>2 DEF Gate, CancelAge
    <3>3. CASE ConfirmAge \/ AgeFails
      BY <1>1, <3>3 DEF Gate, ConfirmAge, AgeFails
    <3>4. CASE AgeConfirmed
      BY <3>4 DEF Gate, AgeConfirmed
    <3>5. ASSUME NEW r \in view.flying, PreviewFails(r) PROVE gate' \in Gate
      <4>1. PICK asked \in BOOLEAN : gate' = [gate EXCEPT !.open = asked] \/ UNCHANGED gate
        BY <1>1, <3>5 DEF Gate, PreviewFails
      <4> QED BY <1>1, <4>1 DEF Gate
    <3> QED BY <1>3, <3>1, <3>2, <3>3, <3>4, <3>5
  <2> QED BY <1>1, <1>3, <2>1
<1> QED
  BY <1>2, <1>3 DEF Next, Edit, SelectStyle, SelectLocked, Retry, CancelAge, ConfirmAge, Save,
     AgeConfirmed, AgeFails, Answer, Translated, Cancelled, PreviewFails, Saved, SaveFails, Network,
     Debounce, Forget

LEMMA NextSteps == ASSUME PageInv, Next PROVE Stepped
<1>1. CASE \/ \E t \in Texts \cup {"short", "long"} : Edit(t)
           \/ \E s \in Styles : SelectStyle(s)
           \/ Retry \/ AgeConfirmed \/ Network
  BY <1>1, InputSteps
<1>2. CASE (\E s \in Styles : SelectLocked(s)) \/ CancelAge \/ ConfirmAge \/ Save \/ Saved
  BY <1>2, SameInput DEF SelectLocked, CancelAge, ConfirmAge, Save, Saved
<1>3. CASE AgeFails \/ SaveFails
  <2>1. PICK kind \in {"auth", "limit", "other"} : Show(Fail(view, kind), input)
    BY <1>3 DEF AgeFails, SaveFails
  <2>2. /\ Fail(view, kind) = [view EXCEPT !.banner = view.banner \/ kind \in {"limit", "other"}]
        /\ (view.banner \/ kind \in {"limit", "other"}) \in BOOLEAN
    BY ViewFacts DEF Fail, View
  <2> QED BY <2>1, <2>2, SameInput
<1>4. CASE Answer
  <2> PICK r \in view.flying : Translated(r) \/ Cancelled(r) \/ PreviewFails(r)
    BY <1>4 DEF Answer
  <2> QED BY TranslatedStep, FailsStep, JustSettled DEF Cancelled
<1>5. CASE Debounce \/ \E key \in view.cached : Forget(key)
  BY <1>5, TimeSteps
<1> QED BY <1>1, <1>2, <1>3, <1>4, <1>5 DEF Next

LEMMA StepInv == ASSUME PageInv, [Next]_pageVars PROVE PageInv' /\ (Faithful \/ UNCHANGED pageVars)
<1>1. CASE Next
  BY <1>1, NextSteps, DialogSteps DEF Stepped, PageInv
<1>2. CASE UNCHANGED pageVars
  BY <1>2 DEF pageVars, PageInv, ViewInv, ShapeOK, LiveOK, Live, CountOK, Attempts
<1> QED BY <1>1, <1>2

-----------------------------------------------------------------------------
(* What the page promises.                                                 *)

\* View, requests and counts keep in step in every reachable state.
THEOREM PageInvariant == Spec => []PageInv
<1>1. PageInv /\ [Next]_pageVars => PageInv'
  BY StepInv
<1> QED BY InitInv, <1>1, PTL DEF Spec

\* Every state and ref keeps its type; a request that is pending or aborted has not settled.
THEOREM PageTypeCorrect == Spec => []PageTypeOK
<1>1. PageInv => PageTypeOK
  BY DEF PageInv, ViewInv, ShapeOK, PageTypeOK
<1> QED BY <1>1, PageInvariant, PTL

\* One request is waited for at most, the latest, and it is for the draft and style on the
\* screen: whatever changes them aborts what is in flight.
THEOREM OnlyLatestIsAwaited == Spec => []LiveRequestIsLatest
<1>1. PageInv => LiveRequestIsLatest
  BY DEF PageInv, ViewInv, LiveOK, Live, LiveRequestIsLatest
<1> QED BY <1>1, PageInvariant, PTL

\* A draft and style that stay the same cost at most MAX_AUTOMATIC_PREVIEW_ATTEMPTS requests
\* until the user asks again, because previewAttemptRef counts each before it is sent.
THEOREM AttemptsRunOut == Spec => []AttemptsAreCapped
<1>1. ASSUME PageInv PROVE AttemptsAreCapped
  <2>1. Attempts(view, input).count \in 0..MaxAttempts /\ view.sent \in Nat
    BY <1>1, ViewFacts, AttemptsType DEF View
  <2> QED BY <1>1, <2>1, PageAssumption DEF PageInv, ViewInv, CountOK, AttemptsAreCapped
<1> QED BY <1>1, PageInvariant, PTL

\* "Old answers never replace the result of a newer text or style": a preview that comes on
\* the screen is the one of the draft and style there.
THEOREM NoOldAnswer == Spec => OldAnswersStayOut
<1>1. PageInv /\ [Next]_pageVars
      => [view'.current \notin {Nothing, view.current} => view'.current = KeyOf(input')]_pageVars
  BY StepInv DEF Faithful
<1> QED BY <1>1, PageInvariant, PTL DEF Spec, OldAnswersStayOut

\* After a 429 the page sends nothing by itself until the draft, the style or a retry changes
\* what it asks for.
THEOREM RateLimitIsHeeded == Spec => LimitEndsAttempts
<1>1. PageInv /\ [Next]_pageVars
      => [view.limited /\ view'.limited => view'.sent = view.sent]_pageVars
  BY StepInv DEF Faithful
<1> QED BY <1>1, PageInvariant, PTL DEF Spec, LimitEndsAttempts

-----------------------------------------------------------------------------
(* The page that shares.                                                   *)

\* What a step of the page does to the saved id, the previews and the rows is added to it,
\* and sharing itself touches nothing the page acts on.
LEMMA ShareStep == [ShareNext]_allVars => [Next]_pageVars
<1>1. CASE Unsave
  BY <1>1 DEF Unsave, Next
<1>2. CASE OtherStep
  BY <1>2 DEF OtherStep, Next, Answer
<1>3. CASE \E r \in view.flying : PreviewArrives(r)
  BY <1>3 DEF PreviewArrives, Next, Answer
<1>4. CASE SaveShown \/ SaveArrives \/ SaveIsRefused
  BY <1>4 DEF SaveShown, SaveArrives, SaveIsRefused, Next
<1>5. CASE AskShare \/ ShareArrives \/ ShareFails \/ SourceGoes
  BY <1>5 DEF AskShare, ShareArrives, ShareFails, SourceGoes
<1>6. CASE UNCHANGED allVars
  BY <1>6 DEF allVars
<1> QED BY <1>1, <1>2, <1>3, <1>4, <1>5, <1>6 DEF ShareNext

\* The page that saves under an id and shares it is still the page: its previews, attempts
\* and answers behave as if nothing was shared.
THEOREM SharingIsPage == ShareSpec => Spec
<1>1. ShareInit => Init
  BY DEF ShareInit
<1> QED BY <1>1, ShareStep, PTL DEF ShareSpec, Spec

\* So what is proved of the page holds while it shares: no old answer comes on the screen,
\* one request is awaited, attempts run out and a 429 ends them.
THEOREM SharingKeepsPromises ==
    ShareSpec => /\ [](LiveRequestIsLatest /\ AttemptsAreCapped)
                 /\ OldAnswersStayOut /\ LimitEndsAttempts
BY SharingIsPage, OnlyLatestIsAwaited, AttemptsRunOut, NoOldAnswer, RateLimitIsHeeded, PTL
=============================================================================
