# Devil's Game: TLA+ models, checks and proofs

Devil's Game is a productivity program dressed as a military operation. A user runs
*rounds* of focused work inside *missions*; agents on the phone, in the browser and on
the desktop report telemetry; the backend keeps the rounds' operational state, an event
log, announcements, consequences and scores. This directory models the parts of it that
are hard to test, checks them with TLC and proves the most important facts with TLAPS.

All paths below are relative to `src/packages/`. `PROJECT.json` names, for every
definition that models code, the file and the lines it stands for.

## 1. The system

### Components

| Component | State it keeps | Operations | Hard behaviour | What makes it correct |
|---|---|---|---|---|
| Round state machine (`backend/src/modules/rounds/round-state-machine.service.ts`) | none; a table of 18 rules | `resolveTransition`, `getValidTransitions`, `transitionState` | `transitionState` loads and saves the round behind the back of the operation that called it | the table is deterministic, equals its documentation, and every transition is in the event log |
| Rounds (`rounds.service.ts`) | table `rounds` | create, start, pause, resume, complete, fail, abandon, escalate, PATCH, behavioural record, stats and points, a direct write of the operational state | every operation is load, edit, save, emit with an `await` between, no lock, no transaction | status, operational state and timestamps belong together; a finished round stays finished; the log explains the state; mission counters are exact |
| Missions (`missions.service.ts`) | table `missions` | create, update, counters kept by rounds | load-add-save counters, saves from old copies | an archived mission stays archived; counters count |
| Event log (`events.service.ts`) | table `events` | `emit`, `markProcessed` | emitted after the change it reports | complete, no repetition |
| Telemetry ingestion (`telemetry.service.ts`) | table `telemetry_events` | `ingestBatch` | retries, two requests with the same events, failure between insert and emit | what is acknowledged is stored; nothing is announced twice |
| Mobile outbox (`mobile/src/services/telemetry-uploader.service.ts`, `db/repositories/telemetry.repo.ts`) | SQLite table `telemetry_queue`, `draining`, timer | `queueEvent`, `drain`, start and stop | killed mid-drain, lost answers, backoff, logout during a drain | nothing lost, nothing sent twice without a reason, what is refused is offered again |
| Extension queue (`extension/src/background/index.ts`, `shared/storage.ts`) | `chrome.storage.local`, alarms | `enqueueEvent`, `uploadBatch`, `scheduleRetry` | handlers that overlap at each storage call, worker teardown, alarms replaced by name | an event leaves the queue only for a reason that can be named; failed batches are retried |
| Desktop agent pipeline (`desktop-agent/internal/{storage,classifier,aggregator,uploader}`) | SQLite buffer: `raw_events`, `classified_events`, `batch_queue` | classify, aggregate, upload: three goroutines | a failed call between fetch, enqueue and mark; restarts; rejected batches | no event in two batches, none forgotten, every batch posted again until it is taken |
| Desktop agent collectors, rules, counters, tray (`internal/{collectors,classifier,githook,tray}`) | what each collector saw last, pause switch, counters of the day | poll, classify, pause, count | idle periods and focus cut by pauses, windows and restarts; failed lookups; late classification | the windows claim no more than the day had; the counters cover what was queued |
| Desktop agent round context, auth, config | a cached round; tokens; a file | poll `/rounds/current`; refresh | staleness limit of the cache | a window carries the round it belongs to (it never does, see 4) |
| Event processor, snapshots (`backend/.../events/event-processor.worker.ts`, `event-snapshot.service.ts`) | `events.is_processed`, round stats, `event_snapshots` | `process`, `maybeSnapshot` | retries, distractions processed together, full-row saves of three writers, a count and a last event read apart | marked processed only with its effect, counted once, snapshots cover what they count |
| Announcements (`backend/.../announcements`, `ai-service`) | table `announcements`; response cache; voice files | generate, retry, fall back, store, mark played, acknowledge | the backend gives up while the AI service goes on; cached fallbacks; files cleaned up | only vetted, fresh texts or the backend's template are stored; one row for each call |
| AI service: behaviour analysis | none | statistics, insights, compaction of the prompt | empty and odd histories, a model that answers anything | statistics stay within the history, insights within their number |
| Consequences, difficulty, users, auth | tables `consequences`, `users` | issue, acknowledge, adjust, next difficulty, login, profile | five operations save the whole row of a user | no penalty lost or counted twice, bounds of ceiling and difficulty |
| Scoring | `behavioral_records`, the round's stats | `scoreRound`, pattern, anomalies | missing durations, zero denominators | more work never lowers a score, a distraction never raises it |
| Cache (`backend/.../cache`) | LRU map with TTL | get, set, delete | an entry may be gone at any time | nobody relies on it |
| Realtime gateway, broadcaster | socket rooms | authenticate, join, push | best effort, reconnect, expired tokens | a socket is the session's |
| Mobile session and realtime (`mobile/src/store`, `services/{auth,realtime}.service.ts`, `apiClient.ts`) | four items in the secure store, the context, one socket | login, register, logout, restore, connect, disconnect | items written apart, kills between them, expiry | a session is one user's; the socket follows it |
| Mobile announcements | table `announcements`, the overlay, a sound | queue, tick, show, dismiss, acknowledge, tell the backend | marked before shown, a kill between two awaits, sounds loaded late or not unloaded, lost calls | shown once, acknowledged after, sounds stop |
| Mobile round store, consequences | table `rounds`, table `consequences` | start, complete, abandon, fetch, push | written before the POST, several writers of one row, late answers | the row follows the user's calls |
| Shared types, persistence, UI, popup, content script | types and thresholds; entities; screens | - | - | - |

### How they interact

- Clients reach the backend by HTTP. The rounds controllers expose create, list, get,
  PATCH, start, complete, abandon and the behavioural record. `pauseRound`,
  `resumeRound`, `failRound`, `escalateToCritical`, `updateOperationalState`, `EventProcessor.process`,
  `generateAndQueue`, `scoreRound`, and issuing, adjusting and choosing a difficulty are public
  operations that nothing in the repository calls yet. They are modelled at their interface,
  with any caller. So are `startRound`, `completeRound`, `abandonRound` and `queueAnnouncement`
  of the phone, which no screen calls.
- `RoundsService` calls the state machine, the missions repository and `EventsService`
  one after the other. `TelemetryService` inserts and then emits. Downstream of the event log is the
  broadcaster, which pushes to the room of a user; `subscribeWork` has no subscriber.
- The three agents post to `POST /telemetry/batch` and retry. `TelemetryEndpoint` is that endpoint as they
  meet it: the body, as the set of its fields (`Envelope` of each client), is validated against `TelemetryBatchDto`
  with `forbidNonWhitelisted` (`backend/src/main.ts:23-31`). None of the three bodies passes: with this backend
  nothing is ever taken, which each client's proofs state (`BackendTakesNothing`). A queue must be right with a
  backend that takes batches as well, so the constant `Lenient` adds one that takes any body. The runs use it, because
  with a server that takes nothing "delivered at most once" says nothing. Either server may refuse any number of times.
- The phone pulls rounds and gets pushes. Answers and payloads have other field names than the phone reads.
  The mismatch is modelled, since what the phone's tables hold depends on it: an answer is a
  record with the fields it has (`MobileRounds.serializeRound`, `MobileApp.Payload`), a handler looks for its field.
- The backend calls the AI service with three tries of its own; the AI service tries each
  provider and falls back to a template. Neither knows when the other gave up.

### What runs concurrently, and what is assumed about it

*Backend.* One Node process, TypeORM over better-sqlite3
(`src/docs/simplification/REDIS_REMOVAL_PLAN.md:379`, `src/docs/simplification/SQLITE_MIGRATION_PLAN.md:466`). Requests interleave at every
`await`, and the code holds no lock and opens no transaction around an operation. One
action of the model is one awaited repository call. `Repository.save` of a loaded entity is
taken as one atomic write of the columns modelled, from the copy in memory; a call may
reject (a busy or full database) or the process may die: action `Abort`.
TypeORM writes only columns that differ from the row it re-reads inside `save`; for an
entity with stale columns this is the same result, the entity's values win.

*Phone.* One JavaScript thread, SQLite calls awaited. *Extension.* One service worker whose
event handlers overlap at every `chrome.storage` call; storage calls are served in the
order they are made; `chrome.alarms.create` replaces an alarm of the same name. These two are
facts about chrome, not about this repository. *Desktop agent.* Three goroutines; the
buffer has one connection, so each `Store` call is atomic. *AI service.* Another Node process;
it shares nothing with the backend and restarts by itself. *Secure store of the phone.* Calls on one
key finish in the order they are made, calls on different keys in any order.

## 2. Modules

| Module | Models | State | Actions |
|---|---|---|---|
| `RoundStateMachine` | the transition table and its two readers | - | - |
| `RoundLifecycle` | `RoundsService`, `MissionsService`, `transitionState`, `EventsService.emit` | tables `rounds`, `missions`, `journal` (events); `req`: per request its operation, next call and the copies it loaded | one per awaited call: load and check (`LoadRound`, also for a direct write of a state, `LoadSchedule`, `LoadMissionUpdate`), `Resolve`, `SaveState`, `SaveRound`, `InsertRound`, `LoadMission`, `SaveMission`, `EmitTransition`, `EmitEvent`, `Abort` |
| `RoundPromise` | what the service promises: one step per operation | round phase, counters, log | one per operation |
| `RoundRefinement` | the mapping of `RoundLifecycle` to `RoundPromise`, and its inductive invariant for one request at a time | - | - |
| `MCRoundLifecycle` | constants for TLC | - | - |
| `TelemetryIngest`, `MCTelemetryIngest` | `ingestBatch` | table, journal, requests | `Receive`, `Lookup`, `Save`, `Emit`, `Abort` |
| `TelemetryEndpoint` | `POST /telemetry/batch` as a client meets it: which bodies are taken | - | operators only |
| `MobileOutbox` | the phone's queue | queue, drain, timer, token | each call of `drain`, `QueueEvent`, timer, kill, open, login, logout |
| `ExtensionQueue` | the extension's queue | storage, pending handlers, alarm | `Capture`/`Set`, `Fire`, `GetQueue`, `Post`, `Clear`, `ScheduleRetry`, `Teardown`, `Startup`, `TogglePause` |
| `AgentPipeline` | classifier worker, aggregator, uploader | buffer, each goroutine's position | one per `Store` call or POST, `Tick`, `Restart` |
| `AgentDay` | collectors, git hook, rules, tray, `computeMetrics`, the round context's answer | the day (what the machine showed), what each collector remembers, events, batches, counters | `Minute`, `PollWindow`, `PollIdle`, `PollTerminal`, `LookupFails`, `GitEvent`, `TogglePause`, `ClassifyPending`, `AggregateWindow`, `SkipWindow`, `Restart` |
| `Scoring`, `BehaviorAnalysis`, `Difficulty` | arithmetic of `ScoringService`, of the AI service's analyzer and hour ranges, of the difficulty engine | - | operators only |
| `Sums` | what a loop over a sequence makes of it, and what a sort makes of a set | - | operators only |
| `Judgement`, `MCJudgement` | the first two, fed event by event | the stream that is read | `Observe`, `Record`, `Analyze`: one more telemetry event, scored round, event of a request |
| `PlayerLedger` | consequences, difficulty, `login`, profile updates: the writers of `users` | the row, consequences, log, requests with their copies | one per awaited call |
| `EventProcessing` | `EventProcessor`, snapshots, `scoreRound`, a transition beside them (with `RoundStateMachine`) | events, the round's row, records, snapshots, a cache entry, workers | one per awaited call, `Fail`, `Expire`, `Restart` |
| `Announcements` | `generateAndQueue`, `AiClientService`, and the AI service behind it | jobs, generations, cache, files, rows | `Send`, `Lookup`, `Provide`, `CallFails`, `VoiceLookup`, `Speech`, `Finish`, `SaveRow`, `Emit`, `RequestFails`, `Reject`, `Cleanup`, `Restart` |
| `MobileSession` | auth service and context, secure store, socket, gateway's handshake | secure store and its pending calls, context, socket | login, register, logout call by call, `NativeDone`, `Restore`, `Lifecycle`, `HandleConnection`, ... |
| `MobileFeed` | queue, `tick`, overlay, sounds, the two calls to the backend and their handlers | announcement rows on both sides, ticks, overlay, acknowledgements under way, sounds | one per awaited call that another step can fall before or after: `TickReads`, `TickMarks`, `TickNotifies`, `Dismiss`, `Acknowledge`, `AcknowledgeNotifies`, `Loaded`, `SoundEnds`, `Forget`, `Load`, `Save`, ... |
| `MobileRounds` | round service and repo of the phone, the backend's answers | the round rows, calls under way | `Begin`, `ReadRow`, `Upsert`, `UpsertFails`, `Post`, `PostLost`, `Respond`, `FetchCurrent` |
| `MobileApp` | the three of them together, and the broadcaster's push | - | theirs, `Push`, `Kill` |
| `RoundLifecycleProofs`, `MobileOutboxProofs`, `TelemetryIngestProofs`, `AgentPipelineProofs`, `ExtensionQueueProofs`, `MobileAppProofs`, `EventProcessingProofs`, `TallyProofs` | theorems | - | - |

`MobileFeed` and `MobileRounds` extend `MobileSession`: they use its token and share its bounds on
calls and faults. `MobileApp` composes the three: a step of one leaves the others alone, except
that a push needs the session's socket and a kill hits all of them at once.

A module about which something is proved ends with its inductive invariant: named parts about what the requests,
handlers or goroutines in flight know, above `IInv` (`SessionInv`, `FeedInv`, `RoundsInv` on the phone,
`SerialInv` in `RoundRefinement`, `GenerationInv` in `Announcements`, `DayInv` in `AgentDay`, `StreamInv` in `Judgement`).
The parts have been model-checked on the runs' instances before they were proved. Loops are stated so that they can be
proved about: a fold as the recursive function `Sums.Folded`, a sort as the ranking `Sums.Ranked`, a filter and a count as a
cardinality of a set of places.

Common conventions. An operator commented `Fault` precedes the definition it distorts: it is a
slip a maintainer could make, and each property has been seen to fail against one of them
(`PROJECT.json`, `mutants`). Variables commented `history` (`happened`, `assigned`, `disturbed`,
`overwritten`, `stuck`, ...) are not in the code; properties use them to say *under which
circumstances* something may happen, and no guard reads them, with one exception:
`Startup` in `ExtensionQueue` needs an earlier teardown. The client models name each kind of
trouble in `Faults` and count it up to `MaxFaults`.

Abstractions worth knowing:

- *Rounds.* A row holds status, operational state and whether `startedAt`, `endedAt` are
  set. The other columns are written by load-and-save operations that leave these alone:
  the operation `touch` (PATCH, stats, points, notes, record). `updateOperationalState` may also be given an
  operational state, which it writes as it is, with no look at the table or the status and with no event
  (`rounds.service.ts:417-419`): the operation `assign`, and `assigned` remembers on which rounds.
  It and `escalateToCritical` have no caller yet, nor has the trigger `admin.force` (`Targets` has it);
  `escalate` uses the trigger `round.violations_threshold`. A round's id is fixed to a
  mission by `MissionOf`. The table's `DORMANT` row for a round not yet inserted stands for no row.
- *Telemetry.* An event is the key by which the code recognises it (device, time, type) plus
  the class of its time stamp. Batches are posted from a fixed set, as often as the bound allows. A row is
  its request's number, its place in the batch and its key, so `save` of the same event twice makes two rows.
- *Phone.* Time is counted in poll intervals and ages saturate at the backoff's cap.
- *Extension.* Event contents, delays and the number of attempts do not matter; an alarm is
  periodic, one-shot or absent.
- *Agent.* In `AgentPipeline` time is counted in aggregation windows; a batch is its window and its
  members; backoff inside a flush is not timed; the collectors' inserts succeed. In `AgentDay` time is
  counted in minutes, all pollers look at each minute's sample once and in one order (they share
  nothing), and a batch is stored or not in one step: the calls are `AgentPipeline`'s business.
- *Numbers.* A score is a whole number of ten-thousandths, a ceiling of hundredths, and divisions
  round down. Rounding down keeps order and the limits 0 and 1, which is all the properties speak of.
  The five dimensions of a difficulty are one number, as the code always sets them together.
- *Texts.* A text is its length, who wrote it and whether it holds something the gate forbids. The insights that the
  analyzer words itself are counted, their length is left open: they may name a domain of any length.
- *Rows of users and rounds.* `save` writes every column of the loaded copy; the columns that the
  properties tell apart are kept.
- *Phone.* Reading the token and sending a request are one step, and so are an upsert and the log entry after it. An
  `unloadAsync` takes effect when it is called: what is awaited after it is a step of its own where it changes state. A session carries its user and the
  number of the call that asked for it. A sound is loading, playing or gone.

## 3. The runs

All twelve pass. Each property has been seen to fail against a slip in the code (`mutants`).

| Run | Question | Properties |
|---|---|---|
| `RoundSerial` | Do rounds, missions and log together implement `RoundPromise`, one request at a time? Two rounds of one mission, every operation, 7 requests | `ImplementsPromise`, `CountersExact`, `FinishIsJournalled` |
| `RoundOverlap` | What survives two requests interleaving at every call, any of which may fail? One round, every round operation, 4 requests, two in flight | `TypeOK`, `RowsCoupled`, `StateIsJournalled`, `FinalRowsStick` |
| `TelemetryRetry` | What is stored and announced when batches are repeated and overlap? Three keys, batches with invalid events and a repeated one; 4 requests, 2 in flight, failures anywhere | `AckedIsStored`, `AnnouncedOnce`, `NoDuplicates`, `StoredIsAnnounced` |
| `MobileQueue` | Is the phone's queue at-least-once, and once where nothing went wrong? Three events, two to a batch, two faults of any kind | `TypeOK`, `UploadedIsDelivered`, `InFlightIsDrained`, `DeliveredOnce`, `FrontIsOffered` |
| `ExtensionQueue` | When may an event leave the extension's queue? Three events, a queue of two, two adds and two uploads at once, two faults | `StoredIsKept`, `QueueInOrder`, `SerialIsExact`, `FailedIsRetried` |
| `AgentPipeline` | Is each event of the desktop in one batch, each batch posted until it is taken? Three events over three windows, two batches to a flush, two faults | `CountedOnce`, `UploadedIsDelivered`, `FrontIsPosted`, `InTimeIsBatched` |
| `AgentDay` | Do the windows say what the day was? Every course of five samples, windows of two minutes, one fault | `DayIsNotInflated`, `CountersCoverBatches` |
| `Judgement` | Do score, pattern and analysis mean what they say? Every stream of up to three telemetry events, four scored rounds or four events of a request | `ScoreMovesRightly`, `TimesWithinHistory`, `AnalysisFaithful` |
| `PlayerLedger` | Does the row of a user account for what was done to it? Two requests at a time, two consequences | `RowAccounted`, `DifficultyInBounds`, `IssuedIsAnnounced` |
| `EventProcessing` | Does a processed event have its effect, once? Two workers, three events | `EffectsAccounted`, `SnapshotsFaithful` |
| `Announcements` | What can get into the table of announcements, and is its voice there? One caller, two generations, a voice file that is old after one unit of time | `StoredIsVetted` |
| `MobileApp` | Do session, socket, announcements and rounds keep together on the phone? Two users, two calls, one fault | `SessionIsWhole`, `SocketIsSessions`, `ShownOnce`, `SoundsTracked`, `RowFollowsCalls` |

### Properties, and why they could fail

*Rounds.* Two saves from two different copies write one row, so `RowsCoupled` (a row that says
completed also says EXTRACTION and has an end time; a running one is never back before its
start) is a fact about all interleavings and all crash points. Only a state that was written directly
(`assigned`) need not go with the status. `FinalRowsStick` names the only way a
finished round gets another status: a request that still holds a copy loaded before; its state changes in that way or by a
direct write. `StateIsJournalled`
relates each row to the chain of transitions in the log, with two requests at a time and failures anywhere, and names
the three ways the log falls behind: an overlap on the round, a request cut off after it saved a
transition and before it emitted it (both in `disturbed`), a direct write. `CountersExact` and the abstract
specification's part on missions (an archived one stays archived) are checked for one request at
a time: with two both really break,
because the counters are load-add-save and a mission is saved from an old copy.

*Telemetry.* A 202 lets the client forget the batch, so `AckedIsStored` must hold through any
overlap and failure. `AnnouncedOnce` is about rows, by any number of requests. `NoDuplicates`
says what disturbance is needed before a duplicate is stored, and `StoredIsAnnounced` that without
a failure every stored event gets into the log.

*Queues.* Each queue is at-least-once. The safety properties say that an event is
dropped from the queue only when it may be (`UploadedIsDelivered`, `StoredIsKept`),
and only sent or counted twice for a reason that can be named
(`DeliveredOnce`, `SerialIsExact`, `CountedOnce`); the liveness properties that nothing gets stuck
(`FrontIsOffered`, `FailedIsRetried`, `FrontIsPosted`, `InTimeIsBatched`), up to the faults each one excludes
by name. None of them promises that anything is taken: a server may refuse for ever, and this repository's does. They
promise that what is refused is offered again, and only to the oldest: the phone takes its
batch from the `BatchLimit` oldest pending events, the agent posts the `BatchSize` oldest batches of a flush, and
neither gives up on an event or a batch. When as many as that are refused for good, nothing younger is ever sent. The exclusions are not decoration: each is a way the code loses events, and the
findings are the ones that contradict what the repository says of itself.

*Desktop.* A window is put together from transitions (idle began, idle ended, the front application
changed), and some of them lie in another window, were dropped by a pause, lost by a failed lookup
or classified too late. `DayIsNotInflated` says that the windows never claim more than the day
had, and equals the idle periods noticed where nothing went wrong. What the code really loses: an
idle period counts only in the windows it begins or ends in. `CountersCoverBatches` relates the
tray to the queue: more only for a window taken again.

*Judgement.* `ScoreMovesRightly` is about every step of a stream: monotone weights, clamps and the
penalty must combine so that no event has the opposite of its meaning, whatever durations the
payload claims (negative ones included, as telemetry payloads are not validated). `TimesWithinHistory` sums
what one pass with two pending marks (a focus session begun, a failure not yet recovered from) collects, and bounds it by the
time that passed. `AnalysisFaithful` reads the hour ranges back, whatever hours there are, and limits what the text model can
get into an analysis.

*Users.* Five operations save all of a user's row. `RowAccounted` says that the reputation is what
*some* sequence of consequences makes of zero, each once, in any overlap, and all of them, with the
deactivation of an account kept, when requests do not overlap. What is lost in an overlap is a
penalty, never a foreign value.

*Events.* `EffectsAccounted` relates the mark on an event to what it stands for. The row's violations are
written by three full-row savers; the sum is exact only without an overlap, the mark is right
always. `SnapshotsFaithful` is about the two queries a snapshot is made of.

*Announcements.* `StoredIsVetted` follows a text from the provider through the gate, cache, retries and
template to the row: a late generation may answer the retry, a fallback may be cached, but no
unvetted or stale text is stored. The voice file is looked up, the answer sent and the row saved at different times, and
the cleanup may run in between, so a stored row may name a file that is gone; then the file had outlived its limit.

*Phone.* `SessionIsWhole` and `SocketIsSessions` are about the secure store's four items and the one
socket against the context. `ShownOnce` joins the phone's rows with the backend's, `SoundsTracked`
the overlay with the players of sounds. Both name their exceptions: a kill between mark and show or between the
acknowledgement and the call that tells it, a
lost call, the two calls overlapping at the backend; a sound that was loaded late, or one whose `unloadAsync` was
rejected, which the code swallows after it has forgotten the sound. `RowFollowsCalls`: the
row is what the user asked for last and its timer runs from the last start, whether the POST is refused, lost, cut off by a
kill, answered after the next call or never sent for want of a token. A call writes the row in two steps, a read and an upsert with the
timer it read, so calls that overlap there, and one cut off there, are excepted until the next start. That answers, pushes and polls
leave the row alone is a fact about this build (their shape is not the one the phone looks for, section 4); with a corrected
shape a late answer would race a newer call, and the property would say so.

### Bounds

- Two requests in flight suffice for the round properties that are about one stale copy against
  one writer, and the proofs cover any number. Four requests in a behaviour allow schedule,
  start and then two overlapping ones; seven in the serial run allow two rounds of one
  mission to be scheduled, started and finished with one more operation.
- Telemetry: four requests allow a batch, its failure, its retry and an overlapping other one.
- Queues: three events with batches or queues of two, so that a limit is reached, an
  event waits behind others and two handlers race; two faults allow a fault during the recovery from
  another. `MaxRetries = 2` has a repeated attempt and an exhausted one. Refusals are not counted: any number may come. Three windows allow
  one to be passed over, one to be repeated and one to be current.
- `AgentDay`: five samples (`Horizon = 4`) in windows of two minutes give two whole windows and a third, so an
  idle period or focus can begin in one, span one and end in another. One fault, two runs of the
  watched process or commits, two applications (one productive, one not).
- `Judgement` (constants in `MCJudgement`): three events reach every combination of two inputs after a third; four records a
  bad day, its recovery and a later one. Durations include 0, a negative one and one above every threshold; the times of a request
  may go back. The text model is asked from 3 events on instead of 10, so that both ways occur.
- `PlayerLedger`: two consequences of one severity, one direct award, one finished round, three requests of which two overlap.
- `EventProcessing`: three events with a snapshot every two, so that one count is stepped over and one is met;
  three calls; the escalation threshold is the code's own.
- `Announcements`: a cache of one entry (so that it evicts), lengths below, within and above the
  gate's limits, two calls so that the second can meet what the first left, one failure, and
  two points of time with `VOICE_TTL = 0`, so that a file found or written at the first may be cleaned up at the second.
- `MobileApp`: two users (a session of one after the other's), two of the user's calls and one fault, two
  announcements of which one is critical, one has a sound and one may be in the table from the
  start, two ticks. Two faults are needed to mix sessions, as `SessionIsWhole` says.
- Every bound is a CONSTANT and named in the module that uses it. `CHECK_DEADLOCK FALSE` is set
  throughout: when the bounded requests, events or windows are used up the system rests.

### Fairness

- Backend: weak fairness on serving each request in flight (`Serve(q)`): the event loop runs every
  pending continuation. The same for the requests of `PlayerLedger`. No fairness on requests arriving or on failures.
- Phone: the timer fires while it is set, time passes, a drain in progress goes on; and a user
  who closed the app or logged out comes back (without which an outbox cannot promise anything).
- Extension: chrome fires an alarm it holds, and a handler that has begun goes on. No fairness on the user,
  nor on a restart of the browser.
- Agent: time passes and each of the three tickers fires.
- The other runs check safety only and assume no fairness.
- Faults have no fairness and are bounded, so "in the end" means: once the trouble is over. A refused upload is no fault in
  this sense: nothing bounds refusals, and no property waits for one to be the last.

## 4. What the repository says and the code does not do

Met while modelling; `PROJECT.json`, `findings`, quotes the line each one contradicts. The models are
of the code as it is, so they take the side of the code; where a property would be wrong because of
one, it names the exception.

| What the code does | Where the models have it |
|---|---|
| A call rejected between a transition's save and its event leaves the transition without event | `StateIsJournalled` excepts it (`OwesTransition`) |
| `updateOperationalState` writes a state without transition or event | `assign`; `RowsCoupled`, `FinalRowsStick`, `StateIsJournalled` except it |
| The bodies of the phone, the extension and the agent are refused by the backend's validation | `TelemetryEndpoint`, `BackendTakesNothing` |
| PATCH writes back the status it loaded | `FinalRowsStick` allows it to a request with an outdated copy |
| An event twice in one telemetry batch is stored and announced twice | `NoDuplicates` excepts such a batch |
| Phone events in flight at a kill are never selected again | `FrontIsOffered` excepts a kill |
| The extension's retry alarm replaces the periodic one | `FailedIsRetried` is about what failed, not about what is queued later |
| The agent starts at the present window after a restart | `InTimeIsBatched` excepts a restart |
| The backend sends the AI service no internal token | `TokenRequired` of `Announcements` |
| The agent reads the round's id and state under names the backend does not use; a 404 forgets what its comment preserves | `AgentDay` tags no window |
| Commits are limited to 20 an hour, the constant says a minute | `Scoring.detectAnomalies` |
| The next difficulty oscillates between 0.6 and 0.9 of the ceiling, the comment says 1.0 | `Difficulty.PhaseRatio` |
| Pushes, and the answers to the phone's calls on rounds, lack the fields the phone reads | `MobileApp.Payload`, `MobileRounds.serializeRound` |
| So does the page of consequences, and the phone's table of them stays empty | not modelled: nothing but that follows |
| Objects in an array are not compacted, so the prompt of an analysis has no limit | no property claims one |
| The next announcement replaces a critical one before its countdown is over | `MobileFeed.TickNotifies` |
| A reply of the model that is not the JSON asked for passes the gate if short enough | `Announcements.openai`, `callClaude` |

Weaknesses that contradict no text: mission counters and reputation lose an update under
overlap, as do a round's violations when it is scored meanwhile; events and batches behind others that are refused for good are
never sent; an announcement acknowledged just before a kill is never reported as such; a sound whose unloading fails plays on; agent events classified after their window was aggregated get into no batch; a sound
loaded after its announcement was dismissed is played; logging out leaves the phone's tables to
the next user; `markPlayed` of the backend does not look at whose announcement it is, `markAcknowledged` does; the
phone asks for eight characters of a password and the backend for twelve.

## 5. What is proved

Every invariant of the runs and every action property is a theorem, and so is the refinement: 33 of the 40 properties, for
every value of the constants. The other seven are liveness. Each theorem rests on an invariant that is proved to hold at first and to be
kept by every action; the lemmas of a module go through its actions one by one. Nothing is assumed but the
`ASSUME` of each module (sizes are natural numbers and sets are sets of what they are named for), which TLC evaluates in the
runs. Where a theorem has a hypothesis of its own, it is named below.

### Rounds: `RoundLifecycleProofs`

*The table.* `Determinism` (`Array.find` never has a
choice), `TableAsDocumented` (the array and the header comment agree), `ListedIffAccepted` (the two
readers agree), and two lemmas the lifecycle rests on: no rule keeps its state, and where the
triggers of the lifecycle lead.

*Any overlap.* For every set of rounds, missions and requests, every subset of the
operations, any number of requests and with or without failures: `TypeCorrect`
(`Spec => []TypeOK`), `Invariance` (`Spec => []IInv`), `RowsAlwaysCoupled`
(`Spec => []RowsCoupled`), `FinishedStaysFinished` (`Spec => FinalRowsStick`), with direct writes of a state
among the operations.

`RowsCoupled` alone is not inductive: a request saves a copy it loaded long ago, so
one has to know the copy. A direct write uncouples state and status on its round from then on, so `IInv` has two layers:
what holds of every request (`RequestOK`: the status and the times of the copies) and what holds of requests on a round
that is not `assigned` (`StateOK`: their state). For each request in flight: its entity was itself
coupled and, for the operations that ask for it, not finished when loaded; the target `to` is the one
its trigger allows (`ResolvedTo`); and at `saveState` the second copy is not that of a finished
round. The last one is the heart: `transitionState` does not look at the status, but the triggers used
are accepted in MONITORING, OPERATIONAL and CRITICAL only, and a coupled row in one of
these is not finished. So the table protects the rows that the operations' own checks, made on an
older copy, do not. `RoundPresent` says that a row once inserted is never taken away and an id
about to be inserted is used by no one else. `FinishedStaysFinished` follows: any step on a finished row
is a save, the saver is no `StaleWriter`, so its copy shows the same finished row, which
`RequestOK` allows to no operation but `touch` and `assign`: `touch` writes it back as it was, `assign` all but the state.

*The promise.* For every set of rounds and missions and every subset of the operations, under the
hypotheses that there is one request slot (`Requests = {s}`) and no call fails (`Failures = FALSE`):
`ServiceImplementsPromise` (`Spec => ImplementsPromise`), `StateAlwaysJournalled`,
`CountersAlwaysExact`. The hypotheses are needed for the promise and the counters: with two requests the counters lose an
update, and a failed call leaves a transition without its event (section 4). `RoundPromise` has the direct write as a
step of its own (`Assign`), after which its log need not end in the state.
`SerialInv` says what the promised rounds, counters and logs are (settled phases, chained logs, counters equal
to cardinalities) and, for the request in flight (`RequestServed`), that what it has still to save and to
emit is exactly the difference between the tables and the promise: nobody else writes, so its copies are
the rows, until it saves the round; from that call on it is committed, and counts the mission's counters and the
events of the log as done. Hence one step of `RoundLifecycle` is either the one step of `RoundPromise`
(the call that commits) or a stutter.

### Telemetry: `TelemetryIngestProofs`

For any set of batches, any number of requests in flight, and failures anywhere: `AckedAlwaysStored`,
`AnnouncedAtMostOnce`, `NeverDuplicated`, from `IngestInvariance`. `OwnRows`: the rows of a request
are its own and nowhere else until it saves them, so what it has still to emit nobody else announces.
`CandidatesCovered`: a candidate is in the table or about to be inserted, and an answer covers what was stored at
the lookup because the table only grows. `InsertsAreNew`: alone and without a repetition in the
batch, what is about to be inserted has a key that the table lacks.

### The queues

`MobileOutboxProofs`, for every number of events, batch size, backoff and number of faults:
`OutboxTyped`, `UploadedAlwaysDelivered`, `InFlightAlwaysDrained` and `DeliveredAtMostOnce`, all
from `OutboxInvariance`. Its `IInv` adds to the three properties: rows are queued in order
(`QueuedInOrder`, which bounds the calls that wait for `countPending`); the rows of the drain's batch are pending until
marked and not after, and at `markUploaded` the server has them (`BatchOK`); and, as long as no
answer was lost and no database call threw, the server has none of the rows that may still be posted (`UnsentIsNew`).
The last is why a refused upload, a kill or a logout cannot cause a second delivery.

`BackendTakesNothing`, in the proofs of all three queues under the hypothesis `~Lenient`, that the server is this repository's backend: the
envelope has a field that the DTO does not name, so it is not taken (`EnvelopeRefused`); hence no event of the phone or the
extension is ever delivered and no row of the phone is marked uploaded, and all the agent's batches stay in its queue, the oldest first: with
`FrontIsPosted` the same ones are posted for ever.

`ExtensionQueueProofs`, for every number of events, size of the queue, number of handlers in progress
together and number of faults: `StoredAlwaysKept`, `QueueAlwaysInOrder`, `SerialAlwaysExact`, from
`QueueInvariance`. The lists that handlers hold are chronological, whatever was read and whoever
overwrote it meanwhile (`ListsInOrder`, with lemmas on what appending and trimming do to such a list); what is about to be
cleared has been taken (`ClearedIsDelivered`); a handler alone holds all of the queue, and what is
queued is new to the server until the upload in progress is taken (`SerialHandlers`).

`AgentPipelineProofs`, for every number of events, windows, retries and faults, any size of a flush: `PipelineTyped`,
`AlwaysCountedOnce`, `UploadedAlwaysDelivered`, from `PipelineInvariance`. Why no event is in two batches:
an event fetched has the window that is aggregated and stays classified (`FetchedKeepsStage`), batches are of windows
before `windowEnd` and before the present, so that a restart, which begins with the present window, never comes upon
one that has a batch, and a window whose batch was stored is left even when marking its events fails (`WindowsInOrder`). `FlushKnows`: at the mark the server has
the batch; without a lost answer, database error or kill, a batch that the server has is marked or is the one about to be.

### The phone: `MobileAppProofs`

For any users, announcements, ticks, rounds, calls and faults, on the composed specification: `SessionAlwaysWhole`,
`SocketAlwaysSessions`, `AlwaysShownOnce`, `SoundsAlwaysTracked`, `RowAlwaysFollowsCalls`, from
`AppInvariance`, the conjunction of three invariants of which each is kept by its module's actions and untouched by
the others'.

- `SessionInv`. The writes to the secure store are numbered in the order of issue, so the last write to each key is the one
  of the call that is on (`WritesNumbered`), and a key without a pending write has what that call is
  after (`Settles`): a session awaited to the end is whole. With at most one fault all that is or will
  be in the store is one user's (`OneUser`).
- `FeedInv`. At most one tick is between its read and its end, and the row it has read is as it left it (`Dispatch`); shown, dismissed, acknowledged come in this order and once each (`Shows`); what the backend
  has is what the phone told it, but for the one call that is on and for what is acknowledged and has still to be told because the
  sound is being stopped (`Told`). A kill there makes the announcement one of `astray`.
- `RoundsInv`. On a row without overlap since the last start there is one call at a time in its local part, it is the last one, and what it is
  about to write is the row as the property wants it: the timer of its own start, or the one it has read and nobody has written
  since (`Settling`, `Follows`). A start that overlaps nothing establishes this whatever the row was.

### The backend's other writers

`EventProcessingProofs`, for any number of events, workers, calls, scorings, transitions, failures and restarts, and any
snapshot interval: `EffectsAlwaysAccounted`, `SnapshotsAlwaysFaithful`, from `EventInvariance`. `Knows` says of each call
under way what its copies say of the tables: at the mark the event's effect is done (`KnowsEvent`), the copy of
the round is the row unless calls overlapped (`KnowsRound`), the count and the last event of a snapshot are of
an append-only log (`KnowsSnapshot`). `Exact`: without overlap or failure what was signalled for an event
is one save followed by its mark, and the row's violations are the number of the events saved.

### Announcements, in `MobileAppProofs`

For any jobs, generations, providers, fallbacks, files and faults: `StoredAlwaysVetted`, from `GenerationInvariance`. A stored text comes
from the reply of a generation, and that from the cache or from a provider's answer, of this call or of one whose
caller has given up; so `GenerationInv` follows the text. The cache holds each type once, no more than it may and nothing but vetted texts and
templates, none of them stored later than now (`CacheOK`); a generation asks only what is left of the chain it was built with, and at
the voice its message is vetted or the template (`GenOK`); an answer on its way and a row about to be announced are vetted and
fresh, or the template (`AnswerOK`, `RowOK`). `VoicesOK` follows the voice in the same way: a file that a generation, an entry, an answer or a
row names is there, or is older than the cleanup's limit. `CallsCounted`: without a failure, rows are the calls that are past their
answer and events the calls that are over, as cardinalities of the jobs under way.

### What is added up: `TallyProofs`

*The ledger.* For any number of consequences, awards, finished rounds, overlapping requests and
failures: `RowAlwaysAccounted`, `DifficultyAlwaysInBounds`, from `LedgerInvariance`. The reputation in the row and in every copy
in flight is what a chain of distinct consequences makes of 0, none of which a request has still
to apply (`Reached`, `RowReached`); no two requests have one consequence (`OwnConsequence`); so a save may
lose consequences and never counts one twice. One request at a time knows which prefix
of them is applied (`Exact`). `DifficultyInBounds` rests on the arithmetic of `Difficulty`, which is proved for every
input: ceilings, adjusted and next difficulties stay within their limits (`CeilingBounded`,
`AdjustedBounded`, `NextBounded`).

*The agent's day.* For any course of the day, size of a window, threshold, applications and faults: `CountersAlwaysCover` and
`DayNeverInflated`, from `DayInvariance`. Batches are made of events long after the day put them there, so the invariant has two
halves: what the batches count is in the events of the windows before the next one (`BatchesAreEvents`), and what the events tell is in the
day (`EventsAreDay`: the focus recorded and the one still open are no more than the time that has passed). Idle time needs more:
the pass over a window's events pairs a begin with an end that the poller has not seen yet, so `IdleIsKnown` says for every window
without trouble, at every minute, what its events say so far: a period they leave open lies in the window and the poller knows of it, and the minutes
noted are idle ones, and as long as nothing was ever dropped, late or lost, all those of the periods begun there. `TimesInOrder` keeps batches
before `windowEnd`, so that a later event is not one of theirs.

*Judgement.* For rounds, histories and requests of any length, any durations and any answers of the text model: `ScoreAlwaysMovesRightly`,
`TimesAlwaysWithinHistory`, `AnalysisAlwaysFaithful`, from `StreamInvariance`. What one more event adds to each count and sum is a lemma
(`AggregatesAfter`), and the score follows through quotients that round down, clamps and weights, each of which keeps order
(`DivisionMonotone`, `RatioMonotone`, `ClampMonotone`, `ScoreMonotone`); negative durations are excepted where `ScoreMovesRightly` excepts
them and nowhere else. The times need an invariant: that the focus sessions measured so far and claimed so far are no longer than the time from the first event
to the start still to be used up, and the recoveries no longer than the time to the failure still pending (`PassMeasured`); without the
marks, one more session could overlap the last. A recovery is a mean of differences of days, none below 0 or
above the history (`MeanWithin`), as records stay in order (`RecordsInOrder`). A sort by a strict order gives each member once, in order
(`RanksGrow`, `RankedArranges`, by the pigeon-hole principle), from which the peak hours are the commonest (`MostCommonAre`) and the hours are
sorted; by induction over the sorted hours the ranges hold exactly those so far and no two of them touch (`ExtendKeeps`, `JoinedCovers`).

*Recursion.* All of it folds sequences. The induction theorems of the library take an operator and cannot be instantiated by the
provers here; the lemma `Induction` takes a *set* of natural numbers instead and follows from the well-foundedness of `<` on Nat, and
`Recursion` derives from it that a function defined by recursion on Nat has the values its definition says. An induction is then
a set of the numbers for which a statement holds. From these come the laws of `Sums`: what `Folded` makes of a sequence with one
more member (`FoldedAppend`, `FoldContinues`), and that sums go along with their parts (`SumMonotone`, `SumSplits`).

### Model-checked only

- Liveness: `FinishIsJournalled`, `StoredIsAnnounced`, `FrontIsOffered`, `FrontIsPosted`, `FailedIsRetried`,
  `InTimeIsBatched`, `IssuedIsAnnounced`. Fairness and ENABLED are out of the prover's reach.
- `StateIsJournalled` with overlaps and failures: `StateAlwaysJournalled` has the hypotheses of the refinement.
- Beyond one request at a time the refinement is not true of the code.

## 6. Not modelled, and the plan

Not modelled:

- *The extension's dwell tracker and round-state cache* (`extension/src/background/index.ts`). Its
  handlers overlap in `flushActiveDwell` and `handleActiveTab`: `activeDomain` is spread after an await, when another
  handler may have set it to null (the spread of null is an object without domain) or to the next domain, and two flushes
  may count one dwell twice; the dwell alarm does not look at the pause. All that comes of it is when `domain_dwell`
  and its companions enter the queue, which `ExtensionQueue` allows at any time, and the dwell they claim, which nothing in the
  repository reads: the dwell is the part of the extension left out for last. `refreshRoundState` reads `roundId`, which the backend's view lacks, and `maybeWarn` waits for the
  statuses `OPERATIONAL` and `CRITICAL` where the backend answers `active`: the warning overlay never appears.
- *Token refresh.* `refreshTokens` exists in the backend and on the phone, where nothing calls it; in the agent it
  is a step of the uploader that succeeds or fails. Enrollment, keychain and the config file are I/O.
- *Operations without caller that change nothing else*: `purgeUploaded` and `failAnnouncement` (phone),
  `CleanupOld` (agent), and acknowledging a consequence on the phone.
- *The phone's table of consequences.* The page it is filled from lacks the field the phone looks for, and so does the push.
- *Compaction of the AI service's prompts.* It decides nothing but the wording and the length of a prompt.
- *The gateway's three client messages*, which no client sends; `@Cacheable`, which no method carries;
  the round context's staleness limit, which decides nothing as no round is ever read.
- *Queries*, screens, hooks, popup, content script, the menu, operating-system calls, migrations,
  wiring, hashing and signing: they show or configure, or are library calls. The agent's `main.go` is
  not in the repository, so how its goroutines are started is taken from the packages' own `Run` methods.

What a next step could add: the dwell tracker as a second set of handlers of `ExtensionQueue`, if anything comes to read the dwell;
and the token's refresh, once something calls it.

## 7. Running

    tlc -workers 2 -config RoundOverlap.cfg MCRoundLifecycle
    tlapm RoundLifecycleProofs.tla

Module and configuration of each run are listed in `PROJECT.json`, `runs`. The largest are `AgentDay`
(about 7.2 million distinct states, two minutes with two workers), `MobileApp` (4.7 million, two minutes and a half) and
`Announcements` (2.8 million, under a minute); `ExtensionQueue` and
`Judgement` (616,000) take about a minute, the others less. Of the proofs `TallyProofs` takes about eleven
minutes, `RoundLifecycleProofs` five, `EventProcessingProofs` one, the others less.
