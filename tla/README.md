# Vision App Creator: a verification project

TLA+ models of the Vision App Creator backend, TLC configurations that check
them on small instances, and TLAPS proofs of what matters most for every value
of the constants. All paths are relative to the repository;
`backend/src/vision_app` is written `vision_app`.

`PROJECT.json` is the index: the components, the runs, one mutant per checked
property (a plausible bug in a modelled definition that the run catches), the
source lines every definition stands for, the findings, the hazards and the
theorems.

    tlc -workers 2 -config Jobs.cfg MCJobs       # check a model
    tlapm JobsProofs.tla                         # check a module's proofs

## 1. The system

A user describes what to look for in a video, a *builder* turns the words into
an application specification, the application is calibrated and *published* as
a version, and *runs* of a version over an uploaded source produce *events*
with evidence. Events are reviewed by people, and may trigger webhook
*actions*. Users may delete sources, applications and workspaces.

One Python process (`create_app` in `vision_app/bootstrap.py`) serves the HTTP
API and executes the runs in the *local profile*; services are written against
ports (`vision_app/contracts/ports.py`), so that the same services may stand on
durable repositories and remote executors, whose calls suspend.

| Component | State | Operations | Talks to |
|---|---|---|---|
| Job dispatch service (`jobs/service.py`, `executors.py`) | one job record per run: state, invocation, attempt, fence, lease expiry, progress; the executor's invocation per run | create, dispatch, claim, heartbeat, commit_progress, finish, cancel, reconcile | durable repository (read, compare-and-swap), executor (submit, cancel), event sink |
| Local profile (`bootstrap.py`, `api/runs`, `api/v1`) | one task per submitted run | POST runs, cancel, review; the worker: claim, run the engine, finalize, handle failure | everything below, inside gated transactions |
| Local state snapshot (`persistence/snapshot.py`) | the snapshot file; the gate | transaction, checkpoint, restore, interruption of runs that were under way | all in-memory state |
| In-memory repository (`persistence/memory.py`) | runs, attempts, fences, progress, events, versions, keys | create_run, claim_attempt, commit_progress, commit_event, finalize_run, review_event, create/publish_version | engines, API |
| Runtime engine (`runtime/engine.py`) and semantic engine (`runtime/semantic_engine.py`) | frame loop, tracks, windows, call budget | run | sink, ledger, reasoner, evidence |
| Budget ledger (`operations/ledger.py`) | an account per owner: open reservations, estimated, measured and released amounts | reserve, settle, release, cancel | repository by compare-and-swap |
| Rules, signals, tracking (`rules`, `perception`, `geometry`, `media`) | per track sides, gaps and episodes; confirmed intervals of each lamp; numbers of tracked objects | probe, decode, detect, update, observe, flush | engine |
| Reasoning (`reasoning/service.py`, `providers/gemini`) and limits (`operations/limits.py`, `usage.py`) | the review queue, permits, counters; windows asked and answered; a proposed scene | review_candidate, annotate, analyze, classify, propose_scene | provider |
| Action outbox (`actions/outbox.py`, `eligibility.py`, `transport.py`) and action API (`api/actions`) | a delivery record per event revision, destination and permission version; requests counted per destination; the configuration that permits deliveries | enable, request a delivery; enqueue, deliver, send | resolver, receiver |
| Media (`api/media`, `storage`) and evidence (`evidence/extractor.py`) | upload grants, objects and their metadata files, asset records, previews, evidence | begin, receive, finalize, preview, delete, extract | file system, ffmpeg |
| Privacy deletion (`privacy/service.py`) | resources with lifecycle and generation, deletion jobs | tombstone, write_if_current, hard_delete | stores, media |
| Applications (`applications/services.py`) | drafts, versions, calibrations | save, validate, bind, publish | validator |
| Studio: builder (`builder`, `api/v1`, `api/builder`) and validator (`validation`) | conversations, seeds and sources of an application | turn, clarify, accept, calibrate, rebind, start a run | compiler, applications |

### What is hard

* Calls of the services suspend between a read and a write. Two dispatches, a
  cancellation and a worker of the same run act on each other's half-finished
  work (`jobs/service.py:112, 137, 175, 187`); two settlements of one owner
  collide (`operations/ledger.py:136`); two deliveries of one record count the
  same attempt (`actions/outbox.py:97`).
* A process dies or is restarted between any two saves, and a save may fail
  after the memory changed (`bootstrap.py:862, 931, 947`,
  `persistence/snapshot.py:389`).
* Two tables fence one attempt by different rules, and a write under a stale
  fence is dropped silently (`persistence/memory.py:420`).
* Answers get lost: of `submit`, of a webhook, of a POST that is repeated with
  its idempotency key.
* Some resources are taken before the block that gives them back
  (`runtime/engine.py:191`).
* The store's files survive a restart and the jobs that delete them do not; a
  preview or an extraction that began before a deletion ends after it
  (`api/media/router.py`, `evidence/extractor.py:185`).
* Events are written three times, by the engine, by the review of a model and by
  a person, each from a copy of its own (`runtime/engine.py:441`), while clients
  page through them and ask for their delivery.
* A frame that is missing, an object that is not seen for a while, a lamp nobody
  can read and a boundary that is touched have to mean the same in the tracker,
  the reducer, the intervals and the disposition.

PROJECT.json lists every such place under `hazards`, with the properties that
would catch it going wrong or the reason why none does.

### What makes each component correct

* Job service: one fence, one attempt; a live lease is not taken over; progress
  of a replaced attempt is refused; the sink hears only what was recorded; no
  closed run is handed out again.
* Local profile: a run has exactly one outcome, in both tables and in every
  snapshot; every run ends; confirmed
  cancellations and confirmed idempotency keys survive restarts.
* Ledger: reservations are made and ended one at a time within the limit,
  whatever collides.
* Outbox: attempts bound sends; delivered means accepted; what ended stays
  ended.
* Deletion: what is deleted stays deleted, and is called clean only when nothing
  of it is left.
* Applications: no edit is lost under another; what is published is the draft as
  it is; a calibration counts as confirmed only as a user saw it.
* Rules and signals: what the incremental reducers report happened in the video,
  what happened before an unbroken view is reported, and a red-phase event is
  supported only under a lamp that was red all along.
* Semantic analysis: requests stay within every budget, retries included; an
  event comes from a whole, valid answer; completed means every window assessed.
* Media: a client is served the bytes that were checked; a deletion stands,
  through replays and restarts, and leaves no evidence that nobody knows.
* Studio: what an author accepts is published, and a run that is admitted is one
  its engine can begin.
* Results: only supported events are delivered, of confirmed words; a cancelled
  run starts no further review (one that is under way may still retry); a reader
  who follows the cursors sees every event.

## 2. The modules

### JobRecords, Jobs, FencedProgress (job dispatch service)

`JobRecords` has the job record and what the service changes in it inside one
`_mutate`: `NewAttempt` (claim), `Submitted` (recording of the executor's
answer), `FinishedAs`, `CancelledAt`, and the guards `Claimable`, `LiveAt`,
`Valid` (`_validate_attempt`). `Jobs` and `LocalProfile` both use it.

`Jobs` has any number of processes that call the service over one durable
repository. A method is cut where it awaits; what it read before stays in
`frame[p]` and may be stale. `_mutate` (read, change a copy, compare-and-swap,
retry) is one action at its successful swap: it changes the very record the
swap replaces, and `_MAX_CAS_ATTEMPTS` retries are not bounded in the model.

| Code | Actions |
|---|---|
| `create` | `Create` |
| `dispatch` | `StartDispatch`, `DispatchRead`, `DispatchMark`, `Submit` (the answer may be lost), `RecordInvocation` |
| `claim` | `StartClaim`, `ClaimRejected`, `ClaimShared` (the same live lease), `ClaimNew` |
| `heartbeat` | `StartHeartbeat`, `Heartbeat` |
| `commit_progress` | `CommitProgress`, then `EmitProgress` to the sink |
| `finish`, `cancel` | `Finish`; `Cancel`, then `CancelSignal` |
| `reconcile` | `Reconcile`, the dispatch it makes, `ReconcileDecide` |
| a process dies; time passes | `Crash`; `Tick` |

`FencedProgress` is the abstract promise: a run is handed to numbered attempts,
the progress of the latest one only grows, and a closed run never moves again.
`KeepsPromise` is the refinement of the job records to it.

### LocalProfile (requests, workers, snapshot, restarts)

Every change of the local profile happens inside `snapshot.transaction()`, which
one task has at a time and which ends with a save. A transaction is therefore one
step with a parameter `saved`: the memory `mem` changes either way, the file
`disk` only if the save succeeded, and the client is told accordingly (`told`).

| Code | Actions |
|---|---|
| POST runs (`api/runs/router.py`, `api/v1/router.py`) | `StartRun`, `ReplayStart` |
| cancel and review routes | `CancelRun`, `ReviewEvent` |
| any other mutating request | `Checkpoint` |
| the worker in `bootstrap.py` | `Claim`, `ClaimRefused`, `Abort`, `Finalize`, `HandleFailure` |
| the engines as the worker sees them (their insides are in AnalysisRun and RunResults) | `EngineProgress`, `EngineEvent`, `EngineRepublish`, `EngineEnd`, `EngineFailed` |
| restart: `restore`, `_interrupt` | `Restart` with `InterruptRun` |

The repository's fences are `ClaimAttempt` and `Accepts` (`claim_attempt`,
`commit_event`, `commit_progress`), whose dropped writes the worker cannot see.

### BudgetLedger, BudgetAccount, BudgetPromise

`BudgetLedger` has clients that run an engine's lifecycle (`Run`, `Prepare`,
`AnalysisEnds` with `Returned`) and cancel reservations of others (`Cancel`),
each call being a `Read`, and a `Swap` that succeeds only on the revision it
read (`SwapLost` otherwise, at most `MaxTries` times). `PrepareFails` is the
window between the reservation and the `try`. `BudgetPromise` is the abstract
ledger: reservations are made and ended one at a time within the limit.
`BudgetAccount` is what the two share: the constants, the stored account, and the
account seen as a promise.

### ActionOutbox, OutboxRecords

The delivery records of one event to one destination, told apart as
`delivery_key` does by the event's revision and the permission's version.
`Enqueue` and `Deliver` get an event and a permission as the *caller* knows
them; `deliver` goes on as `Suppress`, or `Mark` (the attempt is written),
`Send`, `Resolve`, `Request` (transport and receiver), `Succeed` or `Fail`.
`Crash` cancels a task at any await: `CancelledError` is not an `Exception`, so
the handler at `outbox.py:117` does not run. `accepted` is the receiver's own
knowledge. `OutboxRecords` has the stored records and what is promised of them.

### Deletion

`DeletionService` over a repository that, like that of its tests, refuses
deleted resources and swaps by revision. A cleanup graph lists resources and
*items*, the artifacts of the media store and the files of a provider; what a
record holds is a number that grows with every write and is 0 once it is erased.

| Code | Actions |
|---|---|
| `tombstone` | `StartTombstone`, then `ReadTarget` and `SwapTarget` (or `SwapTargetLost`) for one resource after the other |
| `write_if_current` | `StartWrite`, `LookWrite`, `SwapWrite` |
| `hard_delete` | `StartHardDelete`, `CleanItem` or `CleanItemFails` for every item, `EraseResource` for every record |
| a cancelled call; a new process | `Crash`; `Restart`, which loses jobs and fences |

A job is known by its resources alone (`_job_id`), so graphs that differ in their
items are one deletion: `Scopes` are what jobs are keyed by. An artifact can be
deleted once (`Deletable`), a provider's file again and again, and a provider may
delete it and still answer with an error. `bootstrap.py`'s own repository adapter
does not refuse deleted assets; there the DELETE route does (`api/media/router.py:259`).

### Applications

The services behind the builder's routes: applications with a revision, a draft
and a published version, versions that never change, calibrations with a
revision and a confirmation. A client names the revision (and the draft) it
knows; every call reads, decides, and swaps on the revision it read. A
specification is *spatial* or *free*: what the validator asks of a calibration
is all that publication tells apart. `confirmed` is the users' own knowledge: the
scene and the drawing they saw when they asked to confirm.

| Code | Actions |
|---|---|
| `AppService.create`, `delete_owned` | `CreateApp`, `DeleteApp` |
| `AppService.revise` with `VersionService.create` | `StartRevise`, `ReadForRevise`, `ReadOwner`, `AddVersion`, `SwapDraft`: a swap that is lost leaves its version behind |
| the publish route and `AppService.publish` | `StartPublish`, `ReadCalibration` (the route's), `ReadForPublish`, `ReadVersion`, `SwapPublished` |
| `CalibrationService.create` | `CreateCalibration` |
| `confirm`, `revise_geometry`, `bind_source` | `StartUpdate` or `StartBind` with `ReadForBind` (whether the confirmation goes), then `ReadForUpdate`, `SwapCalibration` |
| a cancelled call | `Crash` |

A client names revisions it has seen. One that names a future revision is
outside the model: `bind_source` does not compare the revision at its first read,
only at its second. The v1 routes name the revision they have just read
themselves (`api/v1/router.py:492`), so for their clients `NoLostDraft` speaks of
what the route read, and a stale editor is not refused.

### MediaAssets

Uploads, previews and evidence of the local profile, over a store whose bytes and
metadata are files, records that are memory until a request saves them, and
deletion jobs, grants and previews that go with the process. A *content* stands
for size and hash together.

| Code | Actions |
|---|---|
| a mutating request saves when it ends (`persist_mutations`) | `Save`, which may fail |
| begin, PUT of the bytes, finalize (`api/media`, `api/v1`, `storage`) | `BeginUpload`, `ReceiveUpload`, `FinalizeUpload`; `Expire` |
| `delete_asset` with `tombstone`, `hard_delete`, `delete_artifact` | `DeleteAsset`, with what the file system did (`Removal`) |
| `read_preview` and its conversion | `StartPreview`, `TakePreview`, `EndPreview`, `Answered` |
| `EvidenceExtractor`: fence 1, thumbnail, clip, fence 2, cleanup, publication | `StartExtract`, `Extract`, `Recheck`, `Publish` |
| the process dies, also in the middle of a DELETE | `Crash`, `CrashInDelete` |

### Geometry, TimeRanges, TrackedRun

`TrackedRun` is what a tracked-rules run concludes from a video: the probe's
limits, the conversion of timestamps, the detector adapter's refusals, the gap
check and numbering of the tracker session, the lamp observer, the confirmed
intervals, the three reducers with their gap resets, the flush and the hard-gate
disposition. `Geometry` (sides, bands, point in polygon, over an integer grid
where every comparison is exact) and `TimeRanges` (merging) are its pure parts.

| Code | Actions |
|---|---|
| `decoder.probe` with `MediaLimits` | `Probe` |
| one turn of `RunEngine.run`'s loop: detect, update, observe signals, observe rules, count, progress | `TakeFrame` |
| `is_cancelled`; the decoder raises | `Cancel`; `DecodeFails` |
| flush of signals and rules, dispositions | `Complete` |

What is true of a place (`side`, `inside`) and of a look of a lamp (`shows`) is
told by the instance beside its coordinates and percentages, so the properties
speak of what was filmed and not of what the code computed.

### SemanticRun, ReasoningWindows, SceneProposal, AnalysisRun

`SemanticRun` is `GeminiSemanticEngine.run` with the transport's retries:

| Code | Actions |
|---|---|
| configuration, probe, windows against the budget | `Begin`, `Open` |
| one window: clip, requests, answer | `Clip`, `Attempt`, `Refused`, `Fatal`, `Answer`, `Accept` |
| its findings: evidence, event | `Build`, `Publish`, `Upsert` |
| coverage; the end | `Cover`, `Finish` |
| `check_cancelled`; `CancelledError` | `Halt`; `TaskCancelled` |
| the environment | `CancelRun`, `DeadlineIs`, `FencedOut` |

`ReasoningWindows` is `SemanticReasoningService.analyze` over `classify`
(`Answered`, `TimedOut`, `ProviderFails`, `Exhausted`, `Finish`), and
`SceneProposal` is `propose_scene` with the normalizer that guesses the
coordinate space (`Propose`, `ProviderFails`). `AnalysisRun` composes the four:
`EngineFor` chooses the engine as `bootstrap.py` does, and each keeps to its own
state. The last two are wired to nothing in the local profile.

### SpecValidator, Studio

`SpecValidator` is `validate_app_spec` as a set of issues. `Studio` is the v1
routes a browser tab calls to make an application of a video. A route under way
holds the snapshot's transaction and is one step; turns run beside everything.

| Code | Actions |
|---|---|
| applications, uploads, sources | `CreateApp`, `DeleteApp`, `CompleteUpload`, `DeleteVideo`, `AttachSource` |
| `submit_turn`, `submit_clarification` | `BeginTurn`, `Clarify` |
| `BuilderAgent.build` with its repairs, over the compiler of the mode | `CompileScripted`; `LoadScene`, `ProviderDrafts`; `CompileFails` |
| `accept_version` | `Accept` |
| `create_calibration` with the defaults of `_geometry_to_calibration_parts`; `bind_source` | `Calibrate`; `Rebind` |
| `start_run`; the worker's and the engine's first look | `StartRun`; `BeginRun` |
| the process starts again | `Restart` |

Tabs accept proposals of the builder only. `CompileFails` stands for every
answer without a proposal (needs input, unsupported, failed, timeout). The other
routes of a workspace are in `Applications`.

### RunResults

The events of one run after the rules have found them. The engine emits them and
keeps a copy of each, a model may annotate them, people review them, and clients
read them in pages and ask for deliveries, all while the run is under way.

| Code | Actions |
|---|---|
| `RunEngine` after the frames | `EndFrames`, `BeginReviews`, `EndReviews` |
| `_emit_event`: the write of an event, saved or not; the second write after a failed one (`runtime/engine.py:396`), which may fail too; a rule or the sink refuses | `Emit`, `EmitAgain`, `EmitFails` |
| `review_one`: the semaphore, the budget's timeout, `with_retry` | `StartReview`, `Answered`, `Transient`, `Permanent`, `TryAgain`, `DeadlinePassed`, `TimedOut` |
| the annotated copy is upserted | `Annotate`, `AnnotateFails` |
| the worker selects the attempt | `Finalize` |
| cancel, review (action API and v1), enable, deliveries, events | `CancelRun`, `Review`, `ReviewNow`, `Enable`, `CreateDelivery`, `ReadPage` |

`word` is the clients' own knowledge: the last human word on an event and the
revision it made. A write is in memory, where clients see it, before it is saved,
and the engine has its copy (`events[id]`) only afterwards: between a first write
that was not saved and the second (`Unsaved`) an event can be reviewed and
delivered, and the second write then puts it back as it was. A review's note that
is written but not saved is not an action of its own: the engine does not look at
its copy of that event again, so for every reader it is `Annotate`.

## 3. Runs

| Run | Question | Instance |
|---|---|---|
| `jobs` | Do fences and leases survive two processes interleaved at every await, lost submit answers and deaths? | 1 run, 2 processes, 2 attempts, clock 0..2, lease of 1, progress 0..1 |
| `local_profile` | Do both tables, the file and the clients' knowledge agree through failed saves and restarts? | 2 runs, 2 keys, 2 mishaps |
| `local_profile_live` | Does every run end? | 2 runs, 1 key, 1 progress update, 2 mishaps |
| `budget` | Do colliding updates keep the abstract ledger's promise? | 3 clients, 3 reservations of 2, limit 5, charges 0..2, 2 tries |
| `outbox` | Do deliveries made one at a time stay within their bounds? | 1 worker, 2 revisions, 2 attempts, 3 requests |
| `deletion` | Do deletions that overlap, fail and are repeated keep what is deleted deleted, and call clean only what is? | 2 processes, 2 resources, 3 graphs of which 2 are one job, 1 artifact, 1 provider file, 1 rewriting |
| `applications` | Do calls that overtake each other lose an edit, publish what is not the draft, or confirm what nobody saw? | 2 clients, 1 application, 2 versions, 1 calibration, 2 scenes, 2 drawings, revisions to 3 |
| `media` | Is what is served what was checked, does a deletion stand through replays, failures and crashes, is all evidence known? | 1 upload, 3 contents (one too long, one unplayable), 2 viewers, 2 extractions, 2 faults |
| `analysis` | Does each analysis report what the video shows, within its budget, and end? | tracked: videos of 4 to 7 frames with gaps of 1, 3 or 4 around the limits of 2 and 3, two objects, two lamps in three colours or none; semantic: up to 4 windows, 6 specifications; reasoning: 6 plans; scenes: 4 shapes of drawing |
| `analysis_lost` | One documented statement the code does not keep, see section 5 | as `analysis` |
| `studio` | Is what is accepted published, and what is admitted configured? Do turns end? | 1 application, 1 tab, 2 videos (one beyond the live limits), 2 versions, 1 calibration, 1 run |
| `results` | Do models, people and clients who write and read the same events agree on what may be delivered and read? | 2 events and another run's between them, queue of 1, 1 retry, pages of 1 or 2 in any order, 2 human reviews, 2 of the 3 verdicts, which no guard tells apart |

Why the bounds are enough: two processes are what every race of the job service
needs (one overtakes the other between its read and its write), two attempts
allow a takeover and a stale lease, and a clock of three instants with a lease
of one allows an expiry before, during and after a call. Two runs are needed for
an invocation id that two runs share; two mishaps for a failed save followed by a
restart. Three reservations of 2 under a limit of 5 is the smallest case in which
two fit and three do not, and two tries let a call lose once and exhaust once. A
limit of 3 requests lies between the 2 attempts of one delivery and the 4 of two.
Two processes make a deletion overlap a writer, another deletion or another pass
of itself; a graph of two resources can fail in the middle, and a second graph on
one of them can take it away. Two clients make any two calls on an application
or a calibration overlap, two versions make an overtaken edit visible, and three
revisions allow a confirmation, a change and the loser of both.
Two faults let a deletion fail and the process die after it, or die twice; two
viewers wait for one conversion; grants, records and jobs are per upload, so one
upload meets them all. Four frames are two on each side of a crossing with a gap
between any two of them, five leave and enter again, seven exceed the frame
limit of six; gaps lie below, between and above the reducer's and the tracker's
limits. Seven units of video are four windows of two, the last one short, against
budgets of four to nine requests. One tab's turns already overlap every route;
two tabs share nothing but the application, whose routes are single steps. A
queue of one with two events makes a review wait, and a foreign event between
the two, with two starts, puts equal starts and a page boundary anywhere.
The theorems of section 4 hold without these bounds.

**Fairness.** `LocalProfile!FairSpec`: the event loop resumes a run's worker
(`WF` on `Work(r)`), which is what a task of a running loop is owed; requests,
failed saves and restarts are never owed. `AnalysisRun!Spec`: the loop resumes the
semantic engine (`WF` on `Program`), and `asyncio.timeout` ends a request nobody
answers (`WF` on `Fatal`, which includes it); nobody owes an answer. `Studio!Spec`:
a turn's attempt goes on (`WF` on `Attempt(t)`), because `wait_for` ends a
compilation that does not. `RunResults!FairSpec`: the run and each review task are
resumed (`WF` on `Run` and `Reviewing(e)`), and every provider call ends by its
timeout at the latest; clients owe nothing. `Jobs!FairSpec` is stated for the same
reason; what it was to show does not hold (section 5), and no run uses it.

**Deadlock** is checked where the system never stops by itself (`Jobs`,
`LocalProfile`, `Deletion`; the last may always restart, so it says little
there). It is off where a run, a turn or a delivery ends, or a bound of the
instance is reached.

## 4. Proofs

Eight modules prove, for every value of the constants that satisfies the named
assumptions of the models. `JobsProofs` is about `Jobs` and, as its second part,
`BudgetLedger`; `ResultsProofs` about `RunResults` and `ActionOutbox`;
`AnalysisProofs` about the four analyses of `AnalysisRun`.

| Theorem | Argument |
|---|---|
| `JobsProofs!TypeCorrect`, `InvocationsAreReal` | type invariant, with the executor's numbering: invocations are those of `1..submissions`, one run each |
| `FenceSafety` | a lease, and a lease remembered by a reconcile, never has a higher fence than its record, and with the same fence it names the record's attempt, because attempt ids and fences only grow together |
| `NoTakeover` | claim's remembered time is never later than the clock, so a record that is live by the clock is live for claim |
| `RefinesFencedProgress` | every action maps to a grant, an advance, a close or a stutter |
| `BudgetTypeCorrect`, `RefinesBudgetPromise` | a copy with the account's revision *is* the account: revisions grow with every swap; so a swap applies its guard and its change to the account itself |
| `LocalProofs!LocalTypesCorrect`, `OutcomeIsShown`, `ProgressIsClosed` | memory and file are each a state in which both tables agree (an invariant of one memory, which every transaction and `_interrupt` keep), so it holds of whichever a restart reads; the worker's fence names the attempt its record has while the run is under way, which is why `finalize_run` selects the attempt the job shows |
| `KeysNameOneRun`, `CancellationStands` | what a client was told was saved, and every later memory and file keeps it: a key is given to a new run only while the memory has none for it, and no transaction leaves `cancelled` |
| `DeletionProofs!TypeCorrect`, `NoLateWrites`, `TombstonesAreKept`, `ErasureFollowsCleanup`, `CompletionIsTotal` | every step moves every record by `Moves`: a live one to a later revision, a deleted one at most to its erased form. So a copy of a live record that has the current revision is the record (`Fresh`), and a tombstone stays what a job or a suspended call remembers (`Stands`); what a pass has still to do and what it could not do cover what is not gone (`Covered`) |
| `ApplicationProofs!TypeCorrect`, `DraftsAreKept`, `PublicationIsOfTheDraft`, `DeletedAppsAreKept` | revisions only grow, so a copy with the application's revision is the application (`Fresh`), and a swap replaces exactly what its call decided on (`PutsDraft`, `PutsPublished`); a delete counts as a change and so defeats every copy |
| `ConfirmationsAreOfWhatIsThere` | what `bind_source` decided on its first read holds for the calibration as long as its revision is the one the client named (`Allowed`), and what is confirmed at that revision a user saw |
| `MediaProofs!TypeCorrect`, `ServesChecked`, `DeletedAreGone`, `NothingIsOrphaned`, `DeletionsStand` | four parts beside the types: an object is what its metadata says, and a grant takes bytes once (`Stored`); records are faithful to their metadata, their revisions count their states, and a deletion that is saved is in memory too (`Recorded`); jobs are of the first revision and done only if the metadata is deleted (`Remembered`); previews and extractions in hand are of checked contents and known evidence (`Viewed`, `Extracted`). Metadata only goes from ready to deleted, which carries all four through an interleaved deletion |
| `StudioProofs!TypeCorrect`, `NothingStaysADraft`, `RunsAreConfigured` | proposals and versions are what this mode's compiler makes and carry no error (`Compiled`), and drafts, published versions and runs name existing ones (`Linked`); every issue of a compiled semantic specification is an error, so a sound one is ready (`CompiledIsReady`), and every drawing yields a line of two points (`DrawnHasALine`) |
| `ResultsProofs!TypeCorrect`, `GatesStand`, `DeliveriesRestOnWords`, `CancellationStopsReviews` | the engine's copy, the stored document and what the rules found have one machine decision; an unreviewed document has revision 0 and a reviewed one is of its last word, so that an overwritten review authorizes nothing; a task only becomes busy where the cancellation was not seen |
| `PagesMissNothing` | the pages are exactly the stored events up to the cursor (`ReaderInv`), and no event is added any more when reading begins (`Settled`); a page holds the fewest events that fill it, which exist because a finite set of events has a first (`FirstEvents`, from `LeastNumber`). The hypothesis is that a workspace has no more events than `RepoLimit`: beyond it the repository cuts its list before the run's events are picked out, and pages do miss events (section 5) |
| `OutboxTypeCorrect`, `DeliveriesAreAccepted` | any number of workers: a worker at `succeed` works on an accepted delivery |
| `SerialDeliveriesAreBounded`, `SerialEndsStand` | under `OneAtATime`: the worker's record is the stored one, an attempt is written before each send, so sends never exceed the attempts written; without the hypothesis the bound is false (section 5) |
| `AnalysisProofs!RequestsAreBudgeted` | an attempt is only made while both limits leave a request, and every retry is one of them |
| `EventsAreOfWholeAnswers` | what waits in the queue are findings of the answer of the window under way, which was checked whole and valid before it was accepted (`Whole`) |
| `CompletedRunsAreAssessed` | the covered windows follow each other from 0, each with an accepted answer, and what was published is their findings in order (`SemanticInv`); the next window begins where the last one ends as long as the stride is the window, which the engine demands (`NextWindow`, `CoverStep`) |
| `ProposedRegionsStayInPlace` | unmistakable numbers are read in the space they were meant in (`GuessedAsMeant`); scaling is exact in fine units and clamps to the frame (`ScaledInPlace`), and ordering the edges keeps them in place or a unit apart (`OrderedInPlace`) |
| `NoMomentIsPassedOver` | every window up to `asked` is unknown or has an answer that is not uncertain (`DealtWith`, in `ReasoningInv`); windows without holes cover the source (`WindowsInPlan`, by division), and merging the unknown ones loses no moment (`MergedCovers`) |
| `SightingsMakeEpisodes` | accepted ranges lie in their windows; merged ranges with a gap of 0 cover nothing new (`MergedIsCovered`), are apart (`MergedApart`) and each starts with a sighting, whose evidence it has |
| `ReportedCrossingsAreReal` | what a track's state says is true of the frames (`Followed`): each episode is a crossing of one object, and the side it keeps is backed by a frame on the approach side from which the object was never lost. A number means one object among frames no farther apart than the tracker's gap (`Named`), and the rules lose sight sooner than the tracker forgets, so a number that is given again never continues another object's approach |
| `RedCrossingsAreUnderRed` | each lamp's confirmed red, open or closed, begins at a frame from which it was red in every frame up to the one that ended it (`Lit`) |
| `ReportedVisitsAreReal` | each range that is merged is a visit (`Stays`); with a gap of 0 a merged range covers no instant its parts do not (`MergedIsCovered`), so of the frames up to which the object is inside the last is the event's end: if it were not, another visit of the same number would go on at that very time (`NextLasts`), and by `Named` it is of the same object |
| `UnbrokenTracksAreReported` | the converse of the last three: what the state has collected of a track that was never lost leaves nothing out (`Counted`): it knows the last sample on the approach side, the visit under way, and an episode of every crossing and visit so far. A lamp that shows red is suspected of it since its first red frame at the latest, and a red that lasted is confirmed or in an interval that reaches the next frame (`RedsCounted`, from what one look does, `LampStepIs`). Such an interval overlaps a crossing during which it began, lasted or ended (`RedOverlaps`), so its event is not rejected, and every visit is part of a merged one, whatever the merge gap (`VisitReported`) |

The last four rest on `TrackedInv`, which joins these to the order of the frames
(`Watched`) and the flush (`Flushed`); the last one also on `CountedInv`, which is
inductive relative to `TrackedInv`. `Counted` speaks of numbers, not of objects: a
track is `Steady` when no two neighbouring frames of its number are farther apart
than the rules' gap, which is all the reducers see. `SteadyIfWhole` and
`NumberKept` take the property's objects to numbers. The property is stated of any
confirmation time. It leaves out a red filmed for no time at all (two frames of
one millisecond), which the code closes without an interval
(`signal/intervals.py`, `_close_confirmed`).

The hypothesis `ToldTruly` of the four is that the geometry finds a place on the
side of the line and inside or outside the zone where the scene says it is, and
that the lamp classifier calls red exactly what shows red: that is what `Geometry`
and `Classified` are for on the places and looks of the run. TLC evaluates it on
the instance, as `PlacesAsFilmed` of `MCAnalysisRun`.
The hypothesis `MergeGap = 0` of `ReportedVisitsAreReal` is the default of
`rules/config.py:32`, which nothing in the code overrides; with a longer gap a
merged event does span moments outside the zone, as it is meant to.

The assumptions are named in the models: `JobsAssumption`, `BudgetAssumption`,
`OutboxAssumption`, `DeletionAssumption`, `ApplicationAssumption`,
`RunResultsAssumption`, `StudioAssumption`, and for the analyses
`AnalysisAssumption` (what the schemas of a specification and of an answer admit),
`DrawingsAssumption` (a drawing is told in numbers of one kind, and the fine unit
divides by all of them), `PlansAssumption` (windows and strides are positive) and
`ScenesAssumption` (the rules' gap is at most the tracker's, a line is directed
from one side to the other, and a confirmation time is not negative).
`MediaAssets` needs none. TLC evaluates all of them on the instances.

Induction: `LeastNat` (from the well-foundedness of `<`) gives `Induct`, the
induction over sets of numbers, and `LeastNumber` and `LeastOf` the first and the
last element of finite sets; none of them has an operator as a parameter, so the
provers can use them. `merge_time_ranges` and the reader of the pages are
therefore defined over sets (what a range is joined to, the first events of a
list), which says the same as their loops over a sorted list.

What only TLC checks:

* liveness (`RunEnds` of `LocalProfile` and of the semantic engine, `TurnsEnd`,
  `RunIsFinalized`), which is out of the prover's reach;
* `BoundedSends` and `EndsStand` beyond `OneAtATime`, where the first is false.

## 5. Where documents and code disagree

One disagreement is a run whose counterexample is the behaviour:

* `analysis_lost`: DESIGN.md:527 says that one continuous episode produces one
  event. An episode that is over and confirmed is lost when its track is later
  not seen for longer than the gap, because the reset drops the track's finished
  episodes with its state (`rules/reducer.py:42`). While the track stays in view,
  everything is reported (`UnbrokenTracksAreCounted`, run `analysis`, proved in
  `UnbrokenTracksAreReported`).

The others were met while modelling; the models contain the behaviour, and what
is checked is what the code does keep.

Runs and jobs:

* A cancellation between submit and the recording of its answer never reaches the
  worker (`jobs/service.py:187`; PRD.md:889).
* DESIGN.md:563 draws the terminal states at the end of a job's life, but a
  dispatch that read a run as queued brings a cancelled run back to `dispatching`
  (`jobs/service.py:112`), and `cancel` and `finish` overwrite a terminal state.
  What is kept is `FencedProgress`: a closed run is never handed out again.
* Invocation ids start again with the process, so cancelling an old run may cancel
  a new one (`bootstrap.py:597`; PRD.md:583).
* A run whose preparation fails keeps its reservation (`runtime/engine.py:191`;
  DESIGN.md:587).
* The worker does not look at the calibration again (`bootstrap.py:881`;
  PRD.md:579).

Events, reviews and deliveries:

* An event that is written again, after a failed save or with the note of a model
  review, replaces the human review it got in between (`runtime/engine.py:411, 437`;
  DESIGN.md:339). The model review is not wired locally (`bootstrap.py:1180`).
* `ReasoningBudget.max_calls` never binds across events (`runtime/engine.py:431`;
  DESIGN.md:559), and `gather` keeps the errors of reviews for itself.
* Deliveries are eligible before the run is finalized (`bootstrap.py:802`;
  DESIGN.md:322, 541). Enabling again with another URL keeps the first
  (`bootstrap.py:651`). A delivery's id includes the idempotency key
  (DESIGN.md:310), so two keys are two deliveries of one event.
* Concurrent `deliver` calls of one record send more often than `max_attempts`
  (`actions/outbox.py:112`; PRD.md:925).
* `list_events` reads 10,000 events over all runs before it looks for the run's
  (`bootstrap.py:363`, `persistence/memory.py:618`), so in a larger workspace the
  pages of a run miss events; `PagesMissNothing` says that this is the only reason. A review that names a stale revision ends as a
  500 instead of a 409 (`bootstrap.py:829`); the v1 route names the revision it
  has just read, as `accept_version` does (`api/v1/router.py:489`; DESIGN.md:376).

Analyses:

* A stride longer than the window leaves time nobody looked at, and the answer may
  still be "absent". The retries turn a provider's timeout into an error of its
  own (`transport.py:146`), so `analyze` ends instead of marking the window
  unknown (`reasoning/service.py:88`).
* Timestamps that round to the same millisecond make a crossing or a visit of no
  length, and the run fails (`rules/reducer.py:162, 323`); so does a visit that
  opens where the video ends, and a progress row of a frame there
  (`runtime/engine.py:262`).
* Every region's red gates every rule (`runtime/engine.py:289`; DESIGN.md:399),
  `line_side` uses the infinite line, and a specification's object classes are
  not asked (`runtime/engine.py:102`).
* Tracker numbers start again after a gap (`byte_track.py:165`), and the decoder
  skips a frame when two targets match it (`decoder.py:245`).
* The coordinate space of a proposed scene is guessed point by point
  (`normalizer.py:44`): one drawing may be read in two spaces.

Sources and applications:

* DESIGN.md:644 promises that a repeated deletion is harmless; where the bytes went
  and the record did not, every repetition fails, and an upload that is finalized
  again after it stays "ready" without bytes.
* An application whose seed was deleted refuses every later live turn
  (`api/v1/router.py:436`). Lines always get the same governing signal
  (`api/v1/router.py:257`; PRD.md:708). A calibration is confirmed before a
  publication that may be refused, and the fingerprint that should end a
  confirmation on another source is a constant (IMPLEMENTATION_PLAN.md:438).
* Clarifications are a turn of the answers alone. The validator does not look for
  strides unlike windows, more than three conditions, repeated ids or a zone
  without a polygon; the engine and the drawing's defaults do
  (`AdmittedRunsAreConfigured`).
* The deletion routes of the action API find no job family in the local profile and
  always answer 404.

How far these reach: the interleavings of `Jobs`, `BudgetLedger` and the races of
`ActionOutbox` arise with repositories, executors, stores and resolvers whose
awaits suspend. In the local profile an uncontended `asyncio.Lock` does not
suspend and requests run inside gated transactions.

## 6. What is not modelled

* Cloud adapters, tracing, read-only routes and formats (snapshot, payload,
  signature): pure I/O. The web client: presentation, and polling of routes that
  are modelled. Evaluation: statistics over finished runs, without state.
* External, modelled by how the code uses them: ffmpeg and ffprobe, ByteTrack's
  association (an object keeps its number until the session resets), the
  detector, the providers, token verification. Identity has no state of its own;
  what belongs to whom is a guard of `Studio` and `MediaAssets`.
* Not wired anywhere, and left out: `GeminiCompilerModel.compile`,
  `reserve_quota_and_create_run`, the memory repository's deliveries and deletion
  marks, the geometry transforms, the GCS store.
* The analysis mode is fixed for a behaviour of `Studio`, as it is for a process.
* The worker's `except CancelledError` (`bootstrap.py:939`): nothing in the
  repository cancels a worker's task (`cancel` sets an event that the engine
  polls), so it runs only when the loop is torn down, where `Restart` follows.
* More than one workspace: every table is keyed by it, and the models are of one.

PROJECT.json gives the reason for each component that is partly or not modelled,
and for each hazard no property covers.

## 7. Plan

1. Delivery workers of the action API on top of `ActionOutbox`, once the local
   profile wires one; the reasoner's review, once it is wired, with its conflict
   on the event's revision.
2. The web client's polling and token refresh.
