# A verification project for SlangUA

SlangUA is a Telegram Mini App that rewrites Ukrainian text in a chosen slang. A Fastify
API keeps users, translations and refresh tokens in PostgreSQL (through Prisma), and
previews, rate limits, sessions of operators and switches in Redis; it calls several AI
providers. This directory holds TLA+ modules of its core, TLC runs over small instances
and TLAPS proofs for every instance. Paths below are relative to the root of the
repository.

## 1. The system

| Component | State it keeps | Operations | Where it is hard |
|---|---|---|---|
| Preview, translation, save (`src/services/translation.service.ts`, `src/routes/translate.ts`) | none of its own | preview, save, prune | every await between Redis, PostgreSQL and the provider; crashes between insert and eviction |
| Preview cache (`src/services/preview-cache.service.ts`) | Redis: payload by preview id, pointer by user and text, idempotency marker | store, look up, read, delete | three entries that change and expire separately; key changes at deployments |
| History (`src/services/history.service.ts`, `frontend/src/pages/HistoryPage.tsx`) | table `Translation`; the cached pages of the list | list, star, delete, clear | races with saves and prunes; pages of a moving list; a refetch that meets another request of the same query |
| Users (`src/services/user.service.ts`) | table `User` | read and update preferences | age confirmation changes under a request |
| Sessions (`src/services/auth.service.ts`, `src/routes/auth.ts`) | table `RefreshToken`, denylist in Redis | login, refresh, logout, verify | concurrent use of a single-use token; logout racing a refresh; partial failure |
| Key pool (`src/services/ai/key-pool.ts`, `base.adapter.ts`, `errors.ts`) | cooldowns and cursor in the process | lease, penalize, retry, rotate | concurrent rotations over shared cooldowns; time passes during a rotation |
| AI service (`src/services/ai/ai.service.ts`) | a circuit breaker per provider in the process | translate with fallback | late outcomes, reset windows, recovery when everything is open |
| Kill-switch (`provider-switch.service.ts`) | a Redis hash | list, disable, enable | must win over breakers, probes and caches |
| Adapters, factory, key-exhaustion classifier | configuration | one upstream call | text of vendor errors |
| Speech to text (`src/services/stt/stt.service.ts`) | its own key pool | transcribe | as the key pool |
| Admin sessions (`src/services/admin/admin-auth.service.ts`, `src/plugins/require-admin.ts`, `src/routes/admin.ts`) | Redis: count of failures, lockout, step-up sessions | login, verify and slide, revoke | attempts in flight at the lockout, a count without TTL after a crash, sliding against an absolute deadline |
| Admin panel (`frontend/src/pages/AdminPage.tsx`, the prompt of `SettingsPage.tsx`) | route, prompt, dialog, cached views | step-up, view, switch a provider, lock | late answers, deep links, reloads |
| API client (`frontend/src/services/api.ts`) | access token, step-up token, the refresh in flight | attach, refresh and retry, give up | many requests with one stale token |
| Translate screen (`frontend/src/pages/TranslatePage.tsx`) | draft, style, preview, attempts, requests, dialog, id of the saved row | edit, select, preview, retry, save, share, confirm age | answers for older input, renders that restart timers, aborts that come too late |
| Voice input (`frontend/src/hooks/useAudioRecorder.ts`, `useVoiceInput.ts`) | stream, recorder, attempt number, what the page shows | start, stop, cancel, unmount, deliver | prompts and stop events that come after their attempt |
| Inline share (`src/routes/share.ts`, `share-payload.service.ts`, `telegram-inline.service.ts`) | Redis payloads with a TTL | share, answer the bot | a source that is gone or is another one by then |
| Rate limiter (`src/plugins/rate-limit.ts`) | sorted sets in Redis | check and record | rejected requests are recorded too |
| Observability (`src/services/admin/metrics.service.ts`, `error-feed.service.ts`) | Redis counters, capped list | record, snapshot | several commands per record |

Interactions: `routes/translate.ts` calls `TranslationService`, which asks
`PreviewCacheService` (Redis), `AIService` (kill-switch in Redis, breakers in memory, then
adapters and their key pools) and Prisma. `routes/history.ts` writes the table the save
and its prune write. `authenticate` guards every user route through
`AuthService.verifyAccessToken`; `requireAdmin` and `requireAdminSession` guard the admin
routes and answer 404 where others answer 401, which the API client has to know. The admin
panel flips the kill-switch a translation reads.

## 2. The modules

| Module | Models | State | Actions |
|---|---|---|---|
| `PreviewCache` | the Redis entries of a preview | `data`, `pointer`, `marker`, histories `issued`, `shown` | pieces the two request modules are built from; expiry, deployment |
| `TranslatePreview` | `POST /preview` | adds `adult`, `permitted`, `previewPc`, `preview` | one per await of `translatePreview`; user and operator decisions |
| `SaveHistory` | `POST /save`, prune, history handlers | adds `rows`, `nextId`, history `saved`, `savePc`, `save` | one per await of `saveFromPreview` and `pruneHistory`; star, delete, clear |
| `PreviewSave` | both over one cache | all of it | steps of either, with the other unchanged |
| `TranslationLedger` | what both promise | `shown`, `rows` | show, keep, star, remove |
| `KeyRotation` | `KeyPool`, `withRetry`, `withKeyRotation`, `SttService.transcribe` | `until`, `cursor`, `callPc`, `call`, clock `now` | start, end, retry, exhaust, tick, restart |
| `ProviderChain` | `AIService.translate`, breakers, kill-switch | `disabled`, `breaker`, `requestPc`, `request`, environment `healthy` | snapshot, answer, failure, exhausted keys, switch, outage, tick, restart |
| `AuthSession` | login, `refreshTokens`, `logout`, `verifyAccessToken` | `rows`, `lapsed`, `expired`, `denylist`, `callPc`, `call` | one per await; commit and abort of the transaction; expiry, restart |
| `AdminAuth` | `AdminAuthService` behind its routes | `failures`, `lockout`, `session`, `allowlist`, `pc`, `call`, clock `now` | one per Redis call of `login`, `verifySession`, `revokeSession`; lost calls, restart with another allowlist, tick |
| `AdminSessions` | what the step-up sessions promise | `issued`, `open` | issue, close |
| `ApiClient` | `ApiService`, over `AdminSessions` | `access`, `adminToken`, `refreshing`, `refreshes`, `req` per kind of request | the server's answers, the interceptor, the shared refresh |
| `AdminPanel` | `AdminPage`, the password prompt, the boot and navigation of the app; extends `ApiClient` | `app`, `screen`, `prompt`, `dialog`, `view`, `refusal` | boot, reload, navigate, step up, view, switch, lock and what each answer does |
| `HistoryList` | `getHistory`, the history routes and `HistoryPage` over its infinite query | `db`, `page`, `query` and `fetch` per search and filter, `call` | taps; ask, read and deliver a page; find, write, answer or lose a change; another device |
| `TranslatePage` | `TranslatePage`, `PreviewResult`, `consumePreviewAttempt` | `input`, `view`, `gate`, `saving` | one per event: taps, timer, answers, aborts, network; each with the render and the effects it leads to |
| `SharePage` | sharing from that page and `POST /share/inline`; extends `TranslatePage` | `savedRow`, `onSave`, `held`, `rows`, `sharing` | the page's steps with what they do to the saved id, share, its answers |
| `VoiceInput` | `useAudioRecorder`, `useVoiceInput` | refs of the recorder, the microphone, what the page shows, `transcribing` | toggle, cancel, unmount; prompt answered, recorded, timed out, stopped, failed; transcript |

How code becomes actions. JavaScript runs to the next await without interruption, so an
action is the code between two awaits that reach another system. A request is a slot with
a program point (`previewPc`, `savePc`, `callPc`, `requestPc`, `pc`) and a record of its
local variables. Failures of Redis, of the database or of a provider are disjuncts that
end the request as its catch blocks do. A restart loses requests in flight and process
memory, and keeps Redis and PostgreSQL. A rate limiter is seen from outside, as a 429 or
503 that the failing disjuncts include.

Each of the two request modules of the cache describes the other by its writes to it
(`SavedElsewhere`, `PreviewedElsewhere`), so each can be checked and proved about alone;
`PreviewSave` shows that the real thing does nothing else.

In `KeyRotation` the awaits of the in-memory cooldown store resolve before other I/O is
served, so parking a key and leasing the next is one step. In `AuthSession` the
transaction runs at PostgreSQL's default level: reads see what is committed, a delete
locks its row and makes other deletes of it wait; Prisma's `delete` of a missing row
fails (P2025), as the code's comment relies on. An access token is checked in two steps, as
in `verifyAccessToken`: `exp` when the request comes (`PresentAccess`), the denylist after
an await (`Admit`, `Verify`); anything may happen in between, so token and denylist entry
may both expire.

In `AdminAuth`, `INCR` keeps the TTL of the key it finds and `PEXPIRE` on a missing key does
nothing. The TTL a session is slid to is computed when it is read and applied later, to
whatever is there by then. Histories: `guesses` are the wrong passwords counted since `since`, a moment
at which an observer may begin to count anew, over one lockout span; a correct password
ends an account's series. `orphaned` are the counts whose `PEXPIRE` was lost.

`ApiClient` has one request of each kind. A request carries the access token it was sent
with, so that an answer can come for a token that has been replaced meanwhile. Serving and
answering are two steps; between them a refresh may end, a page unmount or the app reload.
`mine` says whether the component that sent a request still shows its answer: TanStack
Query's callbacks on `mutate` do not run after an unmount, those on `useMutation` do.

In `HistoryList` a query has at most one request in flight, as in TanStack Query. A fetch
collects pages up to the number it wants, each asked for, read and delivered in its own
steps, so the table changes between any two. The rows a save prunes are any, since those it
picked may have been starred before it deletes them. A change that is refused raises the
banner or, as after a 401, does not. `past` is history: which rows matched ever
since the first page was read, and whether the data missed a change that nothing will tell it of.

In `TranslatePage` a step is an event with its render: React runs the effects of a render
before the next event, so `Show` applies the effect that cancels (`Change`) and the one that
previews (`Render`, `Run`) to the view the event left. `useMutation` returns a new object on
each render and the preview effect depends on it, so that each render restarts the debounce;
the model keeps this (`timer` is set by every render of a text that can be translated). A
request keeps its promise until it settles (`flying`); an abort reaches it before its answer
or too late, which are the two disjuncts `Cancelled` and `Translated`. The query cache is a
set of keys and may forget any.

`VoiceInput` numbers the attempts to record. Every callback of the browser (the answer to
the permission prompt, `onstop`, `onerror`, the ceiling timer) is an action that can come
at any moment its attempt allows, also after the page is gone. `Machine` describes the
recorder object and `Outcome` what became of a clip, so that properties can speak of every
attempt and not only of the current one. A `stop()` of an inactive recorder does nothing.
What the page offers follows `ui`, what it last rendered; what the hook does follows the refs.
So a tap on "cancel" can find the recorder stopping already, by its ceiling: `cancel()` then
goes idle without discarding the clip. `late` remembers these captures; `tangled` is set when
a tap starts a capture before such a one has delivered its clip and got its answer. From then
on two captures share the refs, and only `RecordingEnds` is still claimed; section 5 says
what happens. Until then they hold, and say what a late cancel does leave: a microphone
that is on until the stop event, and a clip that is sent.

Definitions called *Wrong form* are not part of a specification. Each stands for a
plausible bug of the definition after it; putting it in that place makes the property
named in `PROJECT.json` fail.

## 3. The runs

| Run | Instance | Shows |
|---|---|---|
| `compose` | 1 user, a text for adults only, 2 previews, 1 preview request and 1 save over one cache, cap 1 | `GatesOutrankCache`: a warm cache is no way round the age gate, the switch or the checks. `SavedMeansConsumed`, `LivePreviewStaysCached`: an eviction takes what was saved and leaves a newer preview alone. `HistorySpec`: the composition implements the save component. `EveryPreviewIsAnswered`: no dangling pointer traps a request |
| `save` | 2 users, 2 previews, 2 saves, cap 1 | one row per preview, a 409 never hides a loss, the refinement of `TranslationLedger`, a prune spares its own row; and if it picked enough rows, it leaves no more than the cap of the non-favourites that were there when its own row was added, whatever runs between its queries |
| `keys` | 2 rotations, 2 keys, 2 attempts, clock to 3 | no key is leased before its longest cooldown ends, keys take turns, giving up without a call means every key is parked, every rotation ends |
| `chain` | 2 requests, 2 providers, threshold 2, window 2 | the switch outranks breakers and probes, breakers open on failures in a row only, the service recovers by itself |
| `session` | 2 requests, 3 tokens | single-use rotation, dead after exchange, no rotation after a logout, a denylisted token lets nobody in while it lives |
| `admin` | 2 accounts, 2 requests, 1 token, maximum 2, lockout 2, clock to 4 | `GuessesAreBounded`: in any span of a lockout, wherever it begins, concurrent attempts, a dying count and lost calls let pass no more guesses than the failures below the maximum and the requests under way account for. `CounterFades`: a count has a time to die unless the very `PEXPIRE` was lost. `ImplementsSessions`: a closed session stays closed |
| `panel` | 6 kinds of request, 1 token | `RefreshIsShared`, `LoginIsAnswered`, and `PanelNeedsPassword`: no deep link, reload or late answer shows the panel without a step-up token |
| `history` | 3 rows (two of one millisecond), 2 filters, pages of 1, 1 change | `NoRowTwice`, `NothingIsSkipped`, and `SettledListIsTrue`: when the last answer is in, the list is the server's |
| `voice` | 1 page, 4 attempts | the microphone is released on every path, a dropped clip is never sent, a recorded one is answered for, no capture starts over a transcript under way, every recording ends; late cancels included as section 2 says |
| `page` | 1 draft, 2 styles (one for adults), 2 attempts, 2 edits, 1 retry | an answer for older input never reaches the screen, only the latest request is live, automatic requests are capped and ended by a 429, a page left alone shows its preview or has given up |
| `star`, `share` | smaller `save`, and `page` with sharing | disagreements, section 5 |

Bounds. In `compose` no text is malformed or refused by its check, so the part of
`GatesOutrankCache` about text checks is left to the theorem `GatesComeFirst`. Two concurrent saves or refreshes are what a race for one row needs; a third
would repeat one of them. Two previews of one text are needed for a newer pointer. Two
saves with a cap of one overlap two prunes. `GatesSettle` stops the age and the switch from
changing while a save, which reads neither, is under way. Two keys with cooldowns 1 and 2
give every order of two overlapping cooldowns and a key freed during a rotation. Threshold 2
tells failures in a row from failures; window 2 tells the longest-failing provider from
another. Three tokens are a login and two successors. In `admin`, one account enters
passwords and the other presents its tokens, since counters of different accounts never
meet; the allowlist loses an account and gets it back; a clock to 4 holds a lockout and the
one after it. In `panel` two requests are in flight together (`TwoInFlight`), which is what
sharing a refresh needs, and one error is on the screen; metrics and error feed behave alike
and are one view. In `history` pages of one row put a page boundary between any two rows, one
change falls between any two steps, and the first rows share a timestamp; one list is in the
cache while another loads over it (`OneList`), one query loads at a time, and nothing loads
under a dialog or a banner, which do not read what arrives. Four attempts to record let a
prompt, a stop event and a transcript of three of them be late for the fourth. On the page
`MaxAttempts` is 2 where the code has 3: a first and a repeated request are what capping
tells apart. Two edits leave the input and come back to it, the case where an answer has the
right key and the wrong version. `MaxRowId`, `MaxTokenId`, `MaxCount` and `MaxTime` cap
sequences, counts and clocks. Deadlock is not checked where ids, time or changes are used up:
with no request in flight the instance may stop.

Fairness. `PreviewSave!FairSpec`: the steps of a preview request happen, since Redis and the
provider answer, fail or time out. `KeyRotation!FairSpec`: an upstream call ends, by
`withTimeout` if need be; the number of attempts is bounded by the code, not by fairness.
`VoiceInput!FairSpec`: a timer fires, and a recorder that was stopped says so; nothing is
assumed of the user or of the permission prompt. `TranslatePage!FairSpec`: the debounce
fires and a request is answered or fails. The client sets no timeout on requests
(`frontend/src/services/api.ts`), so the latter rests on the server's own timeouts or on the
connection failing. `AdminPanel!FairPanelSpec` asks the same of a login and of a refresh and
nothing of users; the number of retries is bounded by the code. `ProviderChain!FairSpec`:
users keep asking, requests go on, time passes; nothing is assumed of providers, operators
or restarts, and `ServiceRecovers` asks for one provider that stays up and permitted from
some moment on. `HistoryList` and `AdminAuth` state no liveness: their runs ask for safety.

## 4. The proofs

Each proof is for every value of the constants and rests on the assumption named in the
component's module. None of the properties is inductive alone; what each needs is said here.

`PreviewSave_proofs` is about `SaveHistory`, `TranslatePreview` and the two together. The
save side: the types; `HistoryInv`; `RowsWereShown`, `OneRowPerPreview`,
`ConflictMeansSaved`, `SavedMeansConsumed`, `PruneSparesOwnRow`, `LivePreviewStaysCached`,
`PruneReachesCap`; and that `HistorySpec` implements `TranslationLedger`. `HistoryInv` says
that a payload in Redis, a marker and a request past its read all belong to previews that
were shown (`CacheInv`, `RequestInv`), that rows and `saved` agree (`TableInv`), and that a
preview once consumed never returns (`ConsumedStays`). `PruneReachesCap` needs `CapInv`: of
the user's rows that are no newer than a save's own (`OldIds`), those that the prune has not
chosen fit under the cap. Stars keep ids, inserts add newer ones, all else removes rows.

The preview side: `PreviewInv` of the preview requests says what each has passed at the
point it has reached (`GateInv`), with which decisions were in force at some moment of its
life (`seen`); `GatesOutrankCache` follows. `LinkInv` ties the two components together: what
a pointer names, or a request has fetched, was shown, and what a request has stored and not
yet pointed to is nobody else's. With it every step of the composition is a step of
`SaveHistory` and one of `TranslatePreview`, so that what is proved of either alone holds of
both over one cache (`WholeKeepsPromises`), the ledger included.

`Sessions_proofs` is about `AuthSession` and, in a second part, `AdminPanel`. For the four
properties of the `session` run: a rotation at its commit has its row (`TypeOK`), alone
(`OneHolder`); a token whose row exists has no successor (`OnlyNewestLives`); so the commit
gives the first and only successor. Rows that a logout deleted never return
(`EndedAreGone`), and a denylisted token leaves the denylist only once expired
(`RevokedAreOut`), so a request that finds no entry holds a token that is dead by then. For the panel: `RefreshIsShared` is inductive with the types
(`PanelInv`), because nothing a page does makes a request wait (`Calm`) and only the end of
the refresh releases those that do; `PanelIsGuarded`, because the only ways to show the
panel pass `Visit`, which asks for the token (`WayToPanel`); and the client and its panel
keep what `AdminSessions` promises of tokens, whatever is answered late
(`PanelKeepsSessions`).

`KeyRotation_proofs` proves `LeaseHonoursCooldowns`, `KeysTakeTurns` and
`UntriedMeansParked` for any number of rotations and keys and any cooldowns. Two facts
carry it: the store holds the longest cooldown a key was given (`StoreIsOwed`), so a free
key is owed nothing; and a key's waiting plus its distance from the cursor never exceeds
the length of the list (`WaitsAreBounded`), because every lease moves the cursor past a key
that is no further away. That a scan of a list with a free key finds one rests on the least
element of a set of numbers, from the library's well-foundedness of `<`.

`ProviderChain_proofs` proves `SwitchOutranksBreaker` and `BreakerNeedsFailures`. The first
rests on `SeesThePermitted`: what is permitted now was permitted at some moment of each
request under way, so a list taken now contains nothing else. The second relates every
breaker to its streak (`EntryOK`).

`AdminAuth_proofs` proves `CounterFades` and that the sessions in Redis implement
`AdminSessions`: with requests that are about some account and token (`CallsOK`) and
sessions stored only for issued tokens (`SessionsOK`), `PEXPIRE` revives nothing, the
deadline of a record never moves, and what a step closes is a set of open tokens.
`GuessesAreBounded` is proved for any number of requests, any maximum and any spans. Its
invariant (`GuessInv`) is a budget: until a lockout comes, what was guessed, what the count
still allows (`Allowance`) and what the deletions of the count under way can bring back
(`Resetting`) fit in `Budget`, and no step adds to their sum; under a lockout only the
attempts already past the check are left, and the lockout outlives the observed span.

`HistoryList_proofs` proves `NoRowTwice`, `NothingIsSkipped` and `SettledListIsTrue` for any
finite number of rows, any timestamps and filters, and pages of any size. A row's rank is
the number of rows before it, so that a listing in order is the function from ranks to rows
(`InOrderRanks`), a listing after a cursor is its tail (`InOrderAfter`), and a page is a
prefix of that (`PageIsRead`); no induction is needed. Every step then does one of ten
things to each query (`KeyStep`: it rests, starts over, asks, reads, settles, misses a
change, ...), and the invariant has one lemma for each of its parts: pages are in order
(`OrderInv`), there is more only after some row (`MoreInv`), rows that matched all the time
and that the pages reach past are in them (`CoverInv`), and unless a change is yet to be
told, data that is neither invalid nor behind begins the server's list, flags included
(`TrueInv`). The last part is what `SettledListIsTrue` becomes when it has to survive a fetch
that is still collecting pages.

`VoiceInput_proofs` proves the four safety properties of the `voice` run for any number of
attempts. `AttemptInv` ties `attemptRef` and the refs to what the browser does; `PromptInv`
says that an open prompt is the current attempt's or was given up; `MicInv`, that the refs
hold the only active recorder, which after a late cancel may linger until its stop event;
`DropInv`, that `discardRef` speaks of that one; `PageInv`, that the page knows of a
transcript under way before its next tap. All but the first hold until `tangled`.

`TranslatePage_proofs` proves the four safety properties of the `page` run for any texts,
styles and attempts. `ViewInv` says that the request waited for is the latest, for the
input on the screen, and that the count of attempts is that of this input. It is stated
about a view and an input, not about the variables, so that it can be carried through the
view an event leaves, the effect that cancels and the render that previews (`ChangeInv`,
then `Render`). `SharePage` implements `TranslatePage` step by step (`SharingIsPage`), so all of
this holds of the page that shares.

Only model-checked: liveness, that is `EveryPreviewIsAnswered`, `EveryCallEnds`,
`ServiceRecovers`, `LoginIsAnswered`, `RecordingEnds` and `QuietPageSettles`. It is outside the prover's reach,
like anything under fairness. Every invariant and every action property of a passing run is
a theorem. The type invariants are proved and not in the runs.

## 5. Where the code and its comments disagree

- `star`: a row starred between `findMany` and `deleteMany` of a prune is deleted, although
  "Favorites are never pruned" (`src/constants/index.ts:60`).
- `share`: a save that is answered after the draft changed and a newer preview came sets
  `savedTranslationId` to its own row (`TranslatePage.tsx:185`), which the next share sends;
  `plans/docs/09-telegram-sharing.md:95` says that a message contains exactly the
  translation the user saw.

Seen while modelling, without a run of their own.

Translation, keys, sessions:

- Two prunes that count the same excess each delete rows for it, so that fewer than
  `HISTORY_MAX_ENTRIES` survive (`src/constants/index.ts:57` says that many do).
- A row that was saved and then deleted no longer collides: while its preview is still cached
  (the eviction failed), a second save answers 200 again; `src/routes/translate.ts:199`
  promises 409.
- After the reset window any number of requests pass, although the comment says "half-open
  state, allow one request through" (`src/services/ai/ai.service.ts:87`): elapsing closes
  the breaker.
- With `AI_MAX_FALLBACK_ATTEMPTS` below the number of providers, providers that flap ahead
  of a healthy one can use up the attempts of every request; `chain` therefore lets a
  request try both.
- `AllKeysExhaustedError` is thrown after as many turns as there are keys, also when the
  first of them is free again by then; `src/services/ai/errors.ts:12` says every key "is
  currently parked".
- With Redis down a logout answers 401 for a good token (`auth.service.ts:399`), although "a
  database or Redis failure ... must not be reported as an auth problem"
  (`src/routes/auth.ts:304`).
- A revoked access token that expires after the check of `exp` (`auth.service.ts:208`) takes
  its denylist entry along before the denylist is asked (`:214`), and the request is let
  through; `auth.service.ts:418` says that a revoked token is rejected on subsequent requests.
  `RevokedStaysOut` says that no other revoked token gets in; without its `~Live` TLC shows
  the case.

Admin panel:

- `PEXPIRE` is sent for the first failure only. If that call is lost (Redis fails, the process
  stops), the count has no time to die and later failures do not give it one: typos months
  apart then do add up to a lockout, which `admin-auth.service.ts:125` excludes. `orphaned`
  are these counts.
- After a 401 `AdminPage.tsx:96` calls `setHasSession(false)` and the dead token stays in the API
  client, although the comment at line 92 says "drop the token": the settings page opens the
  dead panel again instead of the prompt. While the feed's query remembers the 401, each
  visit ends at once.
- A lock that fails is thrown on by `handleLock`, so the panel stays although the token is
  gone (`api.ts:241` says a lock always locks). A second lock whose answer is late drops a
  token obtained meanwhile.

History:

- "Load more" while an invalidated list is fetched again cancels that fetch
  (`HistoryPage.tsx:190`) and adds a page to the old list, which stays stale, although
  `plans/docs/02-frontend.md:23` says the list is invalidated after a save, a star or a
  delete. The same happens when the invalidation joins the first load of a filter, or comes
  while the page is away and a fetch is under way. `SettledListIsTrue` holds in all other
  cases, which is what `behind` separates.
- `plans/SLANGUA-BRIEFING.md:321` speaks of optimistic stars with an exact rollback; the page
  waits for the answer and invalidates.
- The `onSettled` of a delete closes whatever dialog is open by then, the one for another
  row included.

Voice input:

- `cancel()` while the recorder is stopping (`useAudioRecorder.ts:320`) goes idle and the clip
  is sent; line 93 says "Stop and throw the clip away - no transcription, no error", and
  `plans/docs/08-frontend-design.md:258` that a cancelled recording does not go to the server.
  The ceiling timer stops the recorder (`:424`) before the page has rendered that, so the
  button is still there. `DroppedStaysUnsent` excepts these clips (`late`).
- After such a cancel a tap starts a second capture, whose stream replaces the first in
  `streamRef` (`:354`). The first one's tracks are then stopped by nobody, not even by the
  unmount, whose comment (`:434`) says that the microphone must be handed back, and its stop
  event tears the second one down. `MicIsReleased` without `~tangled` fails this way.

Translate screen:

- A preview that takes longer than the debounce of 900 ms is aborted and sent again, up to
  the cap, since the render after `mutate` restarts the debounce (`TranslatePage.tsx:307`);
  `plans/docs/08-frontend-design.md:317` allows one automatic request for an unchanged pair.
- A save that fails sets the error banner (`TranslatePage.tsx:190`), and `PreviewResult`
  shows the banner in place of the result and its save button, without a retry button unless
  the attempts are spent; `plans/docs/08-frontend-design.md:254` says the result stays on
  the screen and can be saved again. No successful preview clears the banner either.
- An edit after a save clears `savedTranslationId` while the saved, hence consumed, preview
  is still shown: a share then asks for the consumed preview and is answered 404.

## 6. Not modelled

- The rate limiter: one atomic Redis transaction per request over a sorted set nothing else
  touches. The other modules include its 429 and 503 as answers any request may get.
- Observability: counters and a list that are written without waiting and that only two
  views of the panel read.
- The payload store and the webhook of the bot: they serve clients that got no `shareText`,
  and `POST /share/inline` always returns it.
- Encryption, HMAC, CSRF tokens and text checks are the predicates their callers use. Prompts,
  vendor error messages, validation schemas, parsing of configuration, logging and
  rendering are left out.
- `AIService.translateWithProvider`, which no route calls.
- In the Mini App: the loudness meter, MIME types, toasts, copying, the random-phrase dialog
  and the forms of the settings page, which send one request each.

## 7. Plan

Done: the modules of section 2, each with its run, and a theorem for every safety property
and every refinement a run checks. Next: a run of `history` with pages of two rows and more
rows, now that the proof does not depend on their size; of `SharePage`, a theorem which messages
can differ from the screen: those made from a saved row only; of `VoiceInput`, what still
holds once two captures share the refs.
