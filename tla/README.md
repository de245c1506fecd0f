# A verification project for copilot-api-rust

The program is a local HTTP proxy: clients speak the Anthropic Messages, the OpenAI
Chat Completions and the Responses API to it, and it forwards to GitHub Copilot, to
Codex or to configured providers, translating requests, answers and event streams.
This directory models the parts of it whose correctness depends on interleaving,
cancellation, failure and order, checks them with TLC on small instances, and proves
results about them with TLAPS for every value of the constants.

`PROJECT.json` lists the components, the runs, the source lines every definition stands
for, the hazards and the theorems. All paths below are relative to the repository.

## 1. The system

| Component | State it keeps | Operations | Who it meets | What is hard |
|---|---|---|---|---|
| Rate limiter (`libs/rate_limit.rs`) | next admission behind a mutex, waiter count | `check_rate_limit`, drop of `SlotGuard` | every handler | cancellation, late wake-ups, roll-back beside new reservations |
| Admission (`libs/admission.rs`) | semaphore, active gauge, log election | `try_acquire`, drop of the permit, `record_overload` | router, response bodies | the permit leaves the handler inside a body; atomics on many threads |
| Daily budgets (`libs/token_budget.rs`) | two caches of totals | `check_token_budget` | usage store, handlers | reads outside the lock, midnight, late recording |
| Token usage (`libs/token_usage.rs`) | SQLite tables | record, totals, summaries, pruning | budgets, viewer | detached writer |
| Copilot token (`libs/token.rs`) | token, deadline, refresh guard | inline 401 refresh, background loop | all Copilot calls | two kinds of refreshers, stale readings |
| Codex calls (`libs/token.rs`, `credential_store.rs`, `http.rs`) | rotating refresh token, credential file | set-up per request, renewal, loops, retries | Codex calls | rotation against crash, cancellation and unguarded set-ups |
| WebSocket pool (`services/responses_websocket.rs`) | pool, active counts, one mutex per socket | acquire, preflight, send, stream, release, idle watcher | Responses handlers | sections of several mutexes, cancellation at every await, late frames |
| File store and Files API (`libs/file_store.rs`, `routes/files/`) | SQLite rows and files, permits | upload, download, list, delete, expansion of references, prune, reconcile | Messages and Responses requests | two media changed one after the other, crash, power loss, concurrent deletes and prunes |
| Routes and gates (`routes/*/handler.rs`, `provider/*`) | none of their own | the gates a request passes | limiter, budgets, quota, approval, configuration | ways around a gate; what was checked may change |
| Configuration (`libs/config.rs`, `admin_config.rs`) | `config.json` and its cached copy | read, merge, write, reload | everything | unlocked read-modify-write, a file edited by hand |
| Premium quota (`libs/premium_interactions.rs`) | snapshot | gate, refresh loop | gates | stale snapshots |
| SSE decoder, stall pacer (`libs/sse.rs`) | buffer, timer | push, poll | all streams | arbitrary chunking, limits at a boundary |
| Stream guard and ids (`routes/responses/`) | lifecycle of one stream | process, fail | Responses streams | protocol order |
| Stream translators (`routes/messages/*stream_translation.rs`) | open blocks, deferred data, usage | one event at a time | Messages clients | interleaved items, completed values against deltas, errors in the middle |
| Web search (`routes/messages/web_search/`) | what was collected | collect, reconcile, tell | Messages handler | snapshots and events that disagree |
| Request translation (`routes/messages/`, `provider/messages.rs`) | none | preparation, validation, translation there and back | handlers, the client's memory | pairing of calls and results, opaque reasoning, over several turns and models |

A request passes the admission layer, then in its handler the rate limiter, the budgets and
the gates of `Gateway`; a Copilot call goes through the 401 retry around the HTTP retry; a
Responses call tries the socket pool first and falls back to HTTP. Answers come back through
the decoder, the guard or a translator. The proxy keeps no conversation: what one model said
comes back with the client's next request, possibly to another model. Token loops, idle
watchers, the quota loop and the usage writer run beside the requests. All of it is tokio
tasks on several threads: any await may be the last one of a task, because a client that
disconnects drops the future that serves it.

## 2. Modules

| Module | Stands for | Actions |
|---|---|---|
| `RateLimit` | `check_rate_limit`, `SlotGuard` | one per section of the code between two points where another task may act |
| `PacedSlots` | the abstract promise of the limiter | `Grant`, `Use`, `Release` |
| `WsPool` | `acquire` to `RequestHandle::drop` and `watch_idle_connection`, for one pool key | one per critical section of each of the three kinds of mutex, and the server |
| `WsPoolProofs` | theorems about `WsPool` | |
| `CopilotToken` | `send_with_401_retry_inner`, `force_refresh_copilot_token`, `run_copilot_refresh_loop` | one per await and per access to the token or the deadline |
| `CopilotTokenProofs` | theorems about `CopilotToken` | |
| `CodexCalls` | `setup_codex_token`, renewal, refresh loops, `persist_codex_credentials`, `send_with_retry`, the replay | what runs between two awaits |
| `CodexCallsProofs` | theorems about `CodexCalls` | |
| `FileStore` | `create`, `read`, `delete`, `prune_expired`, `reconcile` | one per transaction and per file operation |
| `FilesApi` (on `FileStore`) | upload form and permits, downloads, expansion of references, pages | one per field, read and permit |
| `FilesApiProofs` | theorems about `FileStore` and `FilesApi` | |
| `Admission` | `try_acquire`, `AdmissionPermit::drop`, `record_overload` | one per atomic access |
| `TokenBudget` | `check_token_budget`, both caches, `TokenUsageRecorder::record` | one per section of the cache lock and per database access |
| `LimitsProofs` | theorems about `RateLimit`, `Admission`, `TokenBudget` | |
| `MessagesProtocol` | the abstract promise of a Messages stream | one per kind of event |
| `AnthropicStream` | the events and what both translators share | (operators) |
| `ChatTranslation` | `stream_translation.rs` | `Translate`, `Flush`: functions of a state and a chunk |
| `ResponsesTranslation` | `responses_stream_translation.rs` and the JSON translation of the same output | `TranslateEvent` |
| `WebSearch` (on `ResponsesTranslation`) | `web_search/fulfill.rs`, `backend.rs` | collection, reconciliation, blocks |
| `MessagesFlows` (composes the last four) | `api_flows.rs`: four streamed flows | receive an event, deliver a frame, heartbeat, end, break off, record, disconnect |
| `MessagesFlowsProofs` | theorems about `MessagesFlows` and the modules it composes | |
| `RequestValidation`, `Preprocess`, `RequestOptions`, `ChatRequests`, `ResponsesRequests` | content blocks and `request_validation.rs`; `preprocess.rs`; tools, choices and thinking for each API; the two translations of requests and of complete answers | (operators) |
| `Conversation` (composes the last five) | the Messages handler and its client, turn by turn | `Ask`, `Handle`, `Answer` |
| `ConfigStore`, `PremiumQuota` | `config.rs` with `admin_config.rs`; `premium_interactions.rs` | one per access to the file, the cached copy, the snapshot |
| `Gateway` (composes the last two) | the order of gates in every route, approval | one per gate |
| `GatewayProofs` | theorems about `Gateway`, `ConfigStore` among its parts | |
| `SseDecoder`, `ResponsesGuard` | `sse.rs`; `stream_guard.rs`, `stream_id_sync.rs` | (operators) |
| `Relay` (composes the last two) | the handlers that relay, translate or collect an answer | receive a chunk, handle a record, timers, timeouts, ends |
| `RelayProofs` | theorems about `Relay` and `ResponsesGuard` | |

Each `MC*` module gives its component definitions for TLC. A definition whose comment
calls it a mutant is a variant with a plausible bug; it is used by no other definition.
It is there to show that a property can fail: with the mutant in place of the definition
it mutates, TLC reports the property violated.

How state corresponds to code is said beside each variable. Four conventions recur.
Futures that end early are actions of their own (`Cancel...`, `End...`, `PruneStops`,
`HangUp`, `Disconnect`). Names of resources (sockets, tokens, files) are model values: a
socket is named after the request that opened it, a new token takes a name nobody remembers,
credentials are the number of the exchange that gave them. Time is a clock with a bound
(`RateLimit`, `Admission`), the time left to a deadline (`CopilotToken`, `Relay`), or an age
that moves in classes (`FileStore`, `TokenBudget`, `CodexCalls`). What was said is a piece of
text or an opaque value that equals nothing else said, so that a loss, a repetition or a mix-up
shows; checks of the shape of one JSON value are one value `malformed`.

## 3. Runs

| Run | Instance | What it shows |
|---|---|---|
| `RateLimit` | 3 callers, interval 2, queue of 1, wait at most 3, clock to 5, both modes | `IInv` (types, exact waiter count, exclusive mutex, schedule beyond all slots, slots apart), `RejectionJustified`, `EveryCallReturns`, and `ImplementsPacing`, that the limiter implements `PacedSlots` |
| `WsPool` | 2 calls, one may be cancelled, one socket may be closed by the peer, answers that succeed (with a stray frame after the end) or fail | `PoolSound` (exact active and request counts, idle entries watched by a live watcher, frames of one's own answer only, no call executed twice), `EvictsOwnEntry`, `CallsAndIdleEnd` |
| `CopilotToken` | 2 requests and the loop, 5 names of tokens, refresh_in of 0, too small and too large, backoff up to 2 | `RenewalSound` (a renewal replaces only the token it set out to replace, a replay carries another token than the refused one), `NoHotLoop`, `HealsAndEnds` |
| `CodexCalls` | 2 calls, 2 loops, 2 exchanges beyond the first credentials, 1 retry, 1 fault (crash or loss) | `NewestKept` (the only working refresh token is on disk or on its way there, and memory is never ahead of the disk), `BilledOnce`, `CallsEnd` |
| `FileStore` | 1 file with a retention, 2 deletes, 1 download or request that refers to the file (twice, and at places that are not expanded), 2 prunes, 2 stops, every operation may fail | `FilesKept` (an acknowledged upload is kept, a delete is final and alone, "corrupt" is told only of what is being removed, a request is sent with the whole content of its files), `RestartSettles` |
| `FileStore_live` | 2 files (one without retention) under a quota of 1 and one upload permit, a delete, a prune | `AllFreed`: rows, temporary files and permits come back without a restart |
| `Admission` | 3 requests, 1 permit, a clock of 3 instants that may go back, 3 refusals | `AdmissionInv` (permits conserved, gauge within the limit, refusals accounted), `OverloadTold`, `PermitsReturn` |
| `TokenBudget` | 2 requests, one with a key that has a budget, 2 days, at most 2 tokens a day, a database that fails until it recovers | `GatesSound` (refusals justified, cache entries never from an earlier day than they claim), `BudgetEngages` |
| `MessagesFlows` | any 4 of 17 chunks of a Chat stream; 5 Responses answers in any granularity with 1 event of 30 that does not belong there; 2 answers to searches with 1 of 14; 2 relayed streams | `NothingLost`, `SameAsJson` (streaming or not, the client gets the same blocks), `TokensAccounted`, `ImplementsMessages` (every stream is one of `MessagesProtocol`), `StreamsEnd` |
| `Conversation` | 3 turns, 8 models in 8 mixes, 2 catalogues of tools, choices and thinking in the first turn, texts, attachments, compaction prompts, results | `NothingLost`, `Replayed` (every model gets its own reasoning back, nobody else's), `ResultsAreAgents`, `Answerable` (calls and results stay paired, fit the tools offered, and are accepted again), `PrefixStable` (what was sent stays the beginning of what is sent) |
| `Gateway` | 1 request of 16 kinds (endpoint, model, controls, search), 2 starting configurations, 2 admin calls at a time, 1 change by hand or of the quota | `GatesPassed`, `ControlsChecked`, `ConfigKept`, `GateReopens` |
| `Relay` | 10 ways to hand an answer on, right and wrong answers in 8 framings, every cut into chunks of several of them, records at and beyond the limit, stalls, losses | `RelayFaithful` (records whole and in order however they are cut), `StreamSound` (`OneEnd`: one terminal event, the last; `IdsStay`: a response and its items keep the ids they were announced with; `RecordedAsSent`: recorded once, at the end, with the tokens the client was sent), `UsageKept` (and with those the upstream told), `NeverSilent`, `RelayEnds` |

Besides, TLC evaluates the assumptions of `MCFileStore`: that references of every kind at
every place are expanded for good, and that pages of a list in both directions hold every file
once, for every page size of a list of five.

Why the bounds are enough. The races of the code involve two parties and a third that
finds what they left; three callers of the limiter give a slot at the end of the schedule,
one in the middle, and one that asks; three requests at one permit give two refusals that
race for the log line. Two calls of the pool give every pair of critical sections, the
watcher of one against the other, and the reopening of a socket that a peer closed. Two
requests and the loop are three parties at the token guard; with credentials, two calls and
two loops (the second is one that a set-up left behind) are every pair of owners of the
newest refresh token, and the last generation stands for all later ones. Rows and contents of
different files meet only in the quota and in directory syncs, so the crash cases are checked
on one file under every kind of concurrent call, and the quota and upload permits on two
files; the run has one reader, so download permits never run out in it, and its requests refer
to one file, so their loop over files is taken once. A gate sees totals only as below or at
its budget, so tokens are counted one at a time up to the larger budget; two days give one
midnight. Four chunks open, defer, resume and close blocks of every kind, and the flush is
checked behind each of them; an answer of three items has a first, a middle and a last. Three
turns are a call, its result, and what is said of both to another model. Requests meet each
other in `Gateway` only at the terminal (`readers` counts the abandoned ones) and at admission
(run `Admission`), so one is enough. A record of at most six symbols is cut at every
place, and the limits are compared at, below and above. A clock or counter bound only cuts
behaviours off: the limiter's clock lets the last slot of three callers pass. In
`CopilotToken` each request runs once while the loop goes on for ever, so tokens rotate
without a bound.

All runs but `CopilotToken` set `CHECK_DEADLOCK FALSE`, because calls are made once
each or a clock or a count is bounded, and the system then rightly stops.

## 4. Fairness

Safety needs none. For liveness:

* `RateLimit`: tokio polls every woken task and time passes (weak fairness of each
  caller's own steps and of the clock). Nobody has to arrive or to be cancelled. The mutex
  is never contended for ever since every holder releases it without awaiting.
* `WsPool`: every await of a call has a timeout, so its steps are weakly fair. The
  socket mutex is modelled as the FIFO queue that it is. A watcher's timer has one deadline
  for all turns of its loop, so pings cannot put it off for ever: strong fairness. Clients
  and the server owe nothing.
* `CopilotToken`: parties are polled and the FIFO mutex lets each waiter in (strong
  fairness of each party's steps); exchanges do not all fail (strong fairness of the loop's
  `Install`), without which no token could ever heal.
* `CodexCalls`: tasks run, upstreams answer or time out, blocking writes end (weak
  fairness); tokio's mutex is fair (strong fairness of `Lock`).
* `FileStore_live`: calls proceed or are cut short, the body of an upload arrives or times
  out, time passes, and not every prune is cut short. Operations do not fail in this run.
* `Admission`: threads run; handlers and bodies end, as the timeouts of the upstream
  calls and of the stall pacer make them.
* `TokenBudget`: tasks run, cache entries expire, the day ends, and the database
  recovers for good at some time. Without the last nothing can be promised, since a failing
  read counts as 0 by design.
* `MessagesFlows`: frames are delivered, usage is recorded, and the upstream's body ends or
  the pacer finds it stalled. Nothing is asked of what the upstream says.
* `Gateway`: only of the quota loop and of GitHub's answers, for `GateReopens`.
* `Relay`: handlers and timers run and the HTTP client's timeouts fire; nothing is asked of
  the upstream.
* `Conversation`, `FileStore`: safety only.

## 5. Proofs

Eight modules prove what the runs show, for every value of the constants: any finite sets of
callers, requests, files or admin calls, any limits and times. All follow one pattern: an invariant
that says of each stage of a call what that call alone can rely on there; a lemma that every step
keeps it, one step of the proof per action; and the property as a consequence. What makes the
invariant inductive is named below, since it is why the code is right. Each strengthening that TLC
can evaluate was checked by it on the instance of section 3 before it was proved.

| Module | Theorems (the property) | What the proof rests on |
|---|---|---|
| `LimitsProofs` (the limiter) | `IInvAlways` (`IInv`), `RejectionJustifiedAlways`, `RollBackIsOwnAlways`, `ImplementsPacingAlways` | `TypeOK` alone is not inductive, since `Wake` decrements a natural number: the counter must be the number of sleeping callers. Slots are apart because all of them lie before `next`, and a roll-back keeps that because the slot it takes back is the last one. A 429 is justified because in reject mode nobody waits, so no slot is ever given back and the schedule is the last admission's. The refinement of `PacedSlots` maps taking a slot to `Grant`, waking to `Use`, a roll-back or a lost try_lock to `Release`, all else to a stutter. |
| `LimitsProofs` (admission) | `AdmissionInvAlways` (`AdmissionInv`), `OverloadToldAlways` | Permits, the gauge and refusals are numbers of requests at certain stages; one lemma (`OneMoves`) on what one request's step does to such a number carries all counts. The gauge stays within the limit because it is lowered before the permit returns. Lines are apart because whoever is elected had read a clock an interval past the last line, and the compare-and-swap fails if that line is no longer the last. |
| `CopilotTokenProofs` | `RenewalSoundAlways`, `RenewalsExclusive`, `NoHotLoopAlways` | The guard is held exactly from the check of the token to the stored deadline, so the token that was compared is the one that is replaced. `FreshTokenIsNew` proves that the model's choice of a new name is possible: there are more names than parties remember. `DelayBounded` is the arithmetic of `get_refresh_deadline_ms`. |
| `CodexCallsProofs` | `NewestKeptAlways`, `BilledOnceAlways` | The endpoint is asked only for the generation that is on disk, so at most one answer or one write is on its way and it is the newest (`OneOnItsWay`); the disk is never behind memory nor behind what a call carries (`DiskLeads`), and while nothing was lost the newest generation is somewhere (`Safe`). |
| `WsPoolProofs` | `PoolSoundAlways`, `EvictsOwnEntryAlways` | Both counts are numbers of calls (`Sizes`); an idle entry has a watcher whose socket it is. Frames are a call's own because a socket that was never handed over too early has at most one user, and between users only late frames are on it (`HandedOver`), which is a statement about every position of what is written and not yet read (`Wire`). |
| `FilesApiProofs` | `AnswersKeptAlways`, `RestartSettlesAlways`, `ApiImplementsStore`, `FilesKeptAlways` | At every stage of an upload, a delete, a prune and a reconcile it is known where row and content are, in memory and on disk; ready rows belong to no upload, deleting rows to one delete, and prunes select only what is old. The API's specification implements the store's step by step, so the store's invariant holds for it too, and a request is sent with whole files because every file of it is among those loaded or still to load. |
| `LimitsProofs` (the budgets) | `GatesSoundAlways` | A stale total errs in one direction: it is of the day it is filed under or of a later one, and what was spent on a day never gets less. |
| `GatewayProofs` | `GatesPassedAlways`, `ControlsCheckedAlways`, `ConfigKeptAlways` | All handlers pass their gates in one order (`Rank`), so the set of gates a request has left says everything about what lies ahead (`Way`): a gate is ahead or was passed. Every gate that hands a request to another handler (search, alias, route) is shown to hand it gates that leave this true. For the configuration, `CallsKnow` says what an admin call that met no other one knows of the file at each step. |
| `MessagesFlowsProofs` | `TokensAlways` (`TokensAccounted`, all four flows), `StreamsImplementMessages` (`ImplementsMessages`; Chat, searches, relayed streams) | Every translator is followed from function to function, whatever event it is given. For Chat (`ChatInv`) it is known of every state which block is open, which calls are buffered and what may still be told, and that the events on their way are a `Path` of the protocol from what the client has seen to what the translator believes. For Responses (`ResponsesInv`) every function of the translator is shown to follow a frame of the stream (`Follows`): begun once, usage told behind all blocks with the end, nothing after it. A search (`SearchInv`) tells nothing while it collects, and then a whole stream at once (`SyntheticPath`). A relayed stream is a Messages stream because the upstream's is, and stays one wherever it is cut (`RelayInv`). |
| `RelayProofs` | `StreamSoundAlways` (`StreamSound`), from `OneEndAlways`, `IdsStayAlways`, `RecordedAsSentAlways` | Each handler's reaction to a record either is silent or writes one frame, and what it does to its state is known for any record at all. So three facts tie the handler to its client (`StreamInv`): a terminal frame was sent exactly if the handler has ended, the ids of its items are those last announced at their index, and the tokens it knows are the last it has sent. Nothing is assumed of the decoder: the theorems hold for any cut and any garbage. |
| `RelayProofs` | `NeverSilentAlways` (`NeverSilent`) | While a decoded stream runs, its client has not waited longer than the pacer (`PaceInv`): every event taken is written on or ends the stream, a mark of activity resets neither wait, and time stops at a due heartbeat, which is written, since such a stream never fails before it ends. The hypothesis `NothingSkipped` says that the handler is given no empty event, which it would skip without a word while the pacer starts anew (section 6). |

Theorems that state no property of a run: `WaitersCountedAlways`, `SlotsApartAlways`,
`ScheduleBeyondSlotsAlways` and `GateExclusiveAlways` name conjuncts of the limiter's `IInv`;
`RollBackIsOwnAlways` says that the schedule moves back only over the last slot, by the caller that
gives it up;
`AnswersKeptAlways` is the part of `FilesKept` that the store promises without the API;
`ApiImplementsStore` says that every behaviour of `ApiSpec` is one of `FileStore`'s `Spec`;
`RenewalsExclusive` is what the Copilot guard is for.

The assumptions are those on constants, named in the modules that declare them
(`RateLimitAssumption`, `AdmissionAssumption`, `CopilotTokenAssumption`, `CodexCallsAssumption`,
`WsPoolAssumption`, `FileStoreAssumption`, `FilesApiAssumption`, `TokenBudgetAssumption`,
`ConfigStoreAssumption`, `GatewayAssumption`; `MaxBytesAssumption`, `MaxToolsAssumption`,
`ResponsesLimits`, `FlowsAssumption`, `ChunksAssumption` and five more of the streams), and TLC
evaluates each in the runs. They say that sets of parties are finite, that names of "nobody" and
"nothing" are no names of somebody, that limits are natural numbers (positive where the program makes
them so), and that inputs have the shape the program's types give them. Some say more:

* `CopilotTokenAssumption` wants more names of tokens than parties can remember: a token is a
  fresh secret.
* `GatewayAssumption` says that only Messages requests carry controls which the Responses API
  cannot express.
* `ConfigStoreAssumption` says that `Defaults` is what `merge_config_with_defaults` makes of an empty
  file, with every default entry and no key yet.
* `RelayedAssumption` says that an upstream of the Messages API speaks it, since the relay hands its
  events on unchecked.
* `FaultsAssumption` says of events that do not belong to an answer that they are events of
  the API and, if they end an answer, tell its tokens (`Tallied`). A terminal event without usage is
  recorded as none; that is the upstream's doing and not a loss of the proxy's.
* `AnswersAssumption` of `Relay` says which events an API has at all: no `message_stop` in a Responses
  stream, whose usage comes with its terminal event, and no Responses terminal in a Messages
  stream. Which of them come, in what order and with what ids is free.

`ControlsChecked` excepts requests that the configuration moved under: `moved` records, at the two
gates that choose a wire, whether the configuration is another than the one the controls were
checked against. `PoolSound` excepts sockets handed over too early in the same way (`tainted`). In both
cases section 6 says what the code does then.

What stays with TLC:

* Liveness, everywhere: `EveryCallReturns`, `CallsAndIdleEnd`, `HealsAndEnds`, `CallsEnd`,
  `AllFreed`, `PermitsReturn`, `BudgetEngages`, `StreamsEnd`, `GateReopens`, `RelayEnds`. Fairness
  and ENABLED are beyond the prover.
* `MessagesFlows.NothingLost` and `SameAsJson`, and all of `Conversation`: that the blocks a
  translator emits, over any sequence of chunks, hold what was said, and the same as the
  translation of a complete answer. That relates two computations over the whole input, which needs an
  induction with a property as parameter.
* `ImplementsMessages` for answers of the Responses API. It holds only of an upstream that extends
  one item at a time (section 6), and which block is then open depends on all that was told before.
* `Relay.RelayFaithful` and `UsageKept`: that the decoder finds the records again in every cut
  of their bytes is an induction over bytes. For the same reason `NeverSilentAlways` has its hypothesis of
  the decoded events, where `NeverSilent`, as checked, speaks of the events that were sent.
* `PremiumQuota`: its own promise is liveness; its gate is part of `GatesPassed`.

## 6. Where code and comments differ

Met while modelling. No run is spent on them, since each shows on reading once it is known;
where a property would be false for one of these reasons it says what it excepts. Lines are
those of the source.

The limiter, the pool, tokens and budgets:

* The queue bound (`rate_limit.rs:117-118`) is checked and the waiter counted in two steps
  outside the gate mutex (`:180`), so more callers may wait than the limit says.
* A socket per concurrent request (`responses_websocket.rs:16-20`): the count and the pool are
  read under two mutexes (`:339`, `:346`), so two calls may share one. `PoolSound` excepts
  sockets taken while another call still used them.
* Requests are admitted when their tasks are polled, so admissions (not slots) may be nearer
  than the interval (`rate_limit.rs:109`); a cancelled waiter behind which others have reserved
  leaves its slot in the schedule (`:122-124`).
* An idle watcher may read the first frame of the next call's response, after which that call
  fails by timeout (`responses_websocket.rs:221-222`); a cancelled handshake keeps its active
  count, after which no request of that key is pooled (`:384`); `RequestHandle::drop` lowers the
  count before it removes the entry (`:269`).
* While exchanges fail each of N concurrent 401s exchanges again (`token.rs:40`); the loop may
  renew a token that was renewed since it read the deadline (`:41-43`), and its backoff may
  overwrite a newer deadline.
* A slow Codex set-up may put older credentials back over renewed ones (`token.rs:231`), after
  which every renewal is refused until a restart; a second set-up leaks the loop of the first;
  a cancelled persist leaves memory behind the file until a restart; of two set-ups at start-up
  with expired credentials one fails. `auth login` (`main.rs:782-800`) is another process whose
  credentials the server's next refresh overwrites.
* `COPILOT_API_UPSTREAM_RETRY_5XX=1` also replays billable Copilot generations
  (`http.rs:345-348` against `token.rs:424-455`).
* A slow reader may overwrite a newer total, so a closed budget gate may open again before the
  day ends (`token_budget.rs:105`); a burst of requests with a stale cache reads the database
  once each (`:85-86`).

Files:

* Local file ids in outputs of custom tools, other kinds of items, tool inputs and documents
  of `content` sources are not expanded, although `docs/claude-code-api-compatibility.md:44`
  says that references are expanded before dispatch. `SentWhole` speaks of the places that the
  code visits.
* A download holds one of eight permits for as long as a slow client stays connected; a walk
  through a list fails with 404 when the file its cursor names was deleted; a file that is
  deleted between its size and its content gives 404 or 500.

Routes, configuration, quota, approval:

* The provider-scoped Responses, Chat, compact and search routes pass no shared admission
  (`admission.rs:217-218` and `messages.rs:127-131` say otherwise); `GatesPassed` says so.
* Approval "blocks each incoming request" (`approval.rs`, `README.md:567`): it does on three
  Copilot routes, not on compact, web search, providers, images or embeddings. A reader whose
  request was abandoned stays at the terminal and swallows the next answer.
* Controls are checked before admission and the wire is chosen after it
  (`messages/handler.rs:84-152`, `330-353`), so a change of the configuration between them
  drops them.
* The premium loop is started at start-up only (`main.rs:430`), although
  `premium_interactions.rs:222-224` says that a reload is honoured; while refreshes fail a stale
  snapshot decides; the image gate also holds for providers; the MCP bridge (`mcp.rs:212-318`) is
  another process without a snapshot. A `gpt-5.4` chat request is refused after its slot is
  spent.
* Configuration writes take no lock: of two overlapping admin calls one is lost, and a reload
  that races a write may leave the cached copy older than the file (`config.rs:475-492`,
  `552-561`, `703-723`). `ConfigKept` speaks of edits that do not overlap.

Messages requests:

* Every Messages request is marked as an agent's: `handler.rs:346` passes
  `compact_type: Some(0)` and `prepare_for_compact` (`api_config.rs:165-172`) takes any `Some` for
  a compaction; `api_config.rs:163-164` and `docs/claude-code-api-compatibility.md:108` say
  otherwise. `ResultsAreAgents` is about the other direction.
* Some content that one API can hold and another cannot is dropped or refused: text beside a
  `tool_reference` result, attachments where no result can hold them, text merged into a result
  of a tool search; thinking of another API is refused by Responses with 400; a system message
  behind an assistant's is dropped; a document that carries the cache mark is refused by Chat;
  `tool_call_{index}` collides for searches without an id; custom calls come back as function
  calls; bridge calls are replayed to a model that is not offered the bridge; text beside an
  image in a result is told twice where a tool message cannot hold it.
* An answer of an OpenAI-compatible provider that reasons without `reasoning_opaque` is refused
  with 502 (`non_stream_translation.rs`). A default `top_k` for a model of a Responses provider
  makes all its requests be refused, since defaults are applied before the check, and a default
  temperature passes by the check for Codex. `extraBody.thinking_budget` goes before the
  client's budget, the other keys behind it. Tool search is decided with the model's prefixed name in
  the validation and without the prefix in the translation.

Streams:

* Blocks "must remain strictly sequential" (`anthropic_types.rs:534-535`), but deltas of
  different items in turn reopen a block with an index that was used
  (`responses_stream_translation.rs:1062-1096`); only function calls are put one behind the other.
  The upstream of `MessagesFlows` extends one item at a time, as the API does. A completed
  reasoning item without parts keeps the streamed ones; a relayed `error` event counts as finished
  in the metric.
* A web search whose answer is complete fails if the body then stalls or breaks off before
  `[DONE]` (`fulfill.rs:2261-2312`); an empty `output` in the terminal conflicts with collected items;
  one failed search call fails the answer; nothing is sent until the collection ends; a part told
  only by `output_text.done` beyond those of the completed item is appended.
* `sniff_usage` returns at the first blank line (`chat_completions/handler.rs:231`), so the usage
  of native Chat streams is hardly ever recorded, although `:148-149` and
  `docs/claude-code-api-compatibility.md:92` say it is; native Chat streams have no stall pacer
  (`sse.rs:101-103` says all have). `UsageKept` and `NeverSilent` except them.
* A provider's Chat relay ends without usage on a transport error, and silently, handing on a cut
  last record, at an end without `[DONE]`. `parse_record` splits at line feeds only, so records framed
  with carriage returns lose data; a record of exactly the limit overflows if its
  terminator is cut. Swallowed events put heartbeats off. Ids in `in_progress` snapshots and in a
  terminal's output are not synchronised. A prefetched error answered as JSON records no
  usage; a body of a provider is relayed even if it is no JSON; a translated Chat stream that ends
  between finish reason and usage is complete without usage. Messages through Chat as JSON
  record usage only behind a successful translation, through Responses before it.

## 7. What is not modelled, and the plan

Not modelled because a model would say nothing the code does not: the command line, MCP
bridge, self-update, logging, headers, request identity, tokenizer and compression wrappers,
metrics, last rate-limit headers, the device-code login, lists of models.

In the modelled components: wording of answers, digests, validation of names, the byte quota
of the file store beside the file quota, the handshake and ping frames of a socket beyond what
they let the code do, settings that cannot change while the program runs, the conversion of
image and document sources, sizes and counts of fields of a request, sampling parameters and
configured `extraBody` but for thinking and `top_k`, efforts configured for models, how a search
request is composed, web search at providers, metadata snapshots of a search answer, fields of SSE
other than event and data, heartbeats and stalls switched off. The switch from the socket pool to
HTTP rests on `WsPool`'s promise and is not composed with `Relay`. `FileStore`'s run has requests
for text documents only; other kinds are in the assumption `ExpandsAll`.

Not proved, and why, is the list at the end of section 5. Still to model, if the runs allow:
summaries and pruning of the usage store, the byte quota, the switch from the pool to HTTP.
