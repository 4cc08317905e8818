# Extraction-Akki: a TLA+ verification project

Extraction-Akki ("Akki") is a FastAPI backend over MongoDB (`src/backend`) with a React
frontend (`src/frontend`).  Callers post objectives; the backend admits them through
governance gates, packages an answer from a registry of instances with lawful-basis and
floor checks, and writes every decision to an append-only ledger (the *Northena ledger*).
Around that core sit rule-change approval, an artifact store, a memory plane, perception
jobs and operator tools.  All Mongo access is asynchronous (motor): every `await` is a
point where another handler or worker of the same process may run, and the process may die
there.  Most documents are updated one at a time, without transactions.

## 1. Inventory

| Component | State | Operations | What is hard | Module |
|---|---|---|---|---|
| **Asynchronous objective delivery** `services/service_1/{async_state,async_worker,cancellation,idempotency,webhook}.py`, `routers/objectives.py`, startup hook in `server.py` | `objectives_async_state`, ledger rows, the in-process queue, the worker tasks | admit (two doors), claim, package, settle, cancel, webhook, recovery sweep, saturation rollback | crash between ledger row and transition, cancel racing worker, full queue, idempotent replay, restart | `AsyncDelivery`, `ObjectiveLifecycle` |
| **Service 1 over the estate** `services/{service_1,mtafiti,targeta,northena}` | the estate Registry, stored plans, ledger | synchronous run, dispatch, open-runs console | the Registry moves between two reads of a dispatch; plans of two runs share an identifier | `EstateService`, `EstateGrammar` |
| **Countersign checker** `services/checker/*`, `routers/checker.py` | `checker_requests`, ledger rows | initiate, countersign, object, suspend, void, advance_delay | handlers load a document, decide, and write the whole document back | `Checker` |
| **Artifact store** `services/artifact_store/*` | files under a key, receipts, rows | six-step put, put_once, sweep | a crash between two steps, two calls on a key, a sweep under a slow writer | `ArtifactStore` |
| **Memory plane** `services/memory/*`, `routers/memory.py` | planes, contributions, working sets, ledger | issue, contribute, publish, revoke, use, evict | a plane revoked under a call in flight | `MemoryPlane` |
| **Perception jobs** `services/perception/*`, `routers/workers.py` | jobs, idempotency records, samples | enqueue, claim, apply_result, sample | late or repeated results of several runs; retries | `PerceptionJobs` |
| **Perception workers, EAB-1 pipeline, units** `perception/{asr_worker,diarization_worker,model_registry,eab_1_pipeline}`, `layer_c`, `g1_defensibility`, `solva_depth`, `contracts/{extraction_params,five_rings}.py` | versioned model files, a dedup index | transcribe, diarize, merge, stamp, assert, segment, batch, deduplicate | boundaries; a class or a speaker nobody earned; silence | `AudioWorkers`, `ExtractionParams`, `UnitRings`, `OccurrencePipeline` |
| **Key grants and invites** `services/auth/*`, `routers/{team,engineer,auth}.py` | grants, invites, decision events, access tokens | register, decide, revoke, login, onboard | a revocation against tokens in circulation; racing decisions | `KeyGrants` |
| **Operator wizard** `services/wizard/*`, `routers/wizard_operator.py` | sessions in memory and in Mongo, milestones | turn, propose, agree, freeze, restart | two copies of one session | `OperatorWizard` |
| **Govern registries** `routers/govern.py` | staged uploads, versions | upload, commit | compare then insert | `GovernedRegistries` |
| **Retention** `services/{retention,compliance}`, `routers/compliance.py` | versioned window files, documents, rows | write windows, delete | a torn file; a rule that loosens | `RetentionRules` |
| **Use data** `routers/use_data.py` | wizard sessions, the auto-run ceiling | turn, reflect, plan, commit | whole-document writes; the ceiling moves | `UseDataSessions`, `CommissionVerdict` |
| **Connect, holdings** `routers/{connect,registry}.py` | sources, declared registries | add, connect, retry, view | look-up then insert; counts read apart from rows | `ConnectSources` |
| **Prove, gap register** `routers/registry.py` | seeded answers, gaps, traces | ask, queue, walk | look-up then insert; seeding after a crash | `ProveRegister` |
| **Instance intake** `routers/s2_onboard.py`, `services/multi_instance` | onboard contexts, initial-set ledger rows | onboard, backfill, read | look-up then insert; eight rows written one by one | `InstanceOnboard` |
| **Economics** `services/economics`, `routers/pricing.py` | tier-lock files, ledger rows, the flag | post a lock, quote | four writes of one post; flag in memory only | `TierLock` |
| **Promise registry** `services/registry/*` | documents | parse, validate, render, query | two forms of one registry | `PromiseRegistry`, `StandingQueries` |
| **SynIsense shield** `services/synisense/shield/*` | token map, streaming buffer | deidentify, call a model, reidentify whole or in pieces | a token cut between two pieces | `ShieldText`, `ShieldStream`, `ShieldCall` |
| **Census dimensions, opportunity briefs** | versioned vocabularies, records, briefs in memory | record, draft, ground, refresh | the census moves while a draft is out | `CensusDimensions`, `OpportunityBriefs` |
| **Outer gate, v2 gate; layers A and B; data sources, transforms, harnesses; contracts; frontend; salvage** | none that others read | formatting, adapters, rendering | | not modelled, see section 9 |

Interactions: handlers share Mongo with the workers and with one another; packaging reads the
Registry that runs write and writes the ledger; the checker gates retention and supplies the
auto-run ceiling; the wizard is meant to hand over to delivery, but its handoff raises (section 8);
the briefs go through the shield.  The
backend is one process with one event loop, and the deployment may run several.

What makes each component correct is stated by its properties, listed run by run below.

## 2. Asynchronous objective delivery: `AsyncDelivery`, `ObjectiveLifecycle`

### How the model corresponds to the code

An action is what the event loop runs between two awaits: at most one Mongo operation and
the in-process code up to the next one.  An objective is identified with the POST handler
that allocated its id, because `new_id("obj")` is called once per request.

| Variable | In the code |
|---|---|
| `status`, `undelivered` | the `objectives_async_state` document; `"absent"` when there is none |
| `ledger` | how many rows of each kind the objective's trace carries in the Northena ledger |
| `queue` | the `asyncio.Queue` of `async_worker.py` (1000 places unless configured) |
| `worker` | the call stack of each task that `start_workers` spawns |
| `post`, `cancel` | the requests being served, and what they answered |
| `server`, `crashes`, `todo` | the process: down, in its startup hook with the candidates of `recovery_sweep`, or serving |
| `left` | objectives this process has logged and given up on: the sweep's overflow, a dispatch answered 503, a raised attempt, an unmatched packaging result |
| `doorbells` | what the caller was told by webhook |

| Actions | In the code |
|---|---|
| `Arrive`, `Lookup`, `Quote`, `Insert`, `Recheck`, `Enqueue`, `Rollback` | `post_objective` and the fresh fork of `dispatch_v2`: idempotency lookup, quote, insert under the unique index, second lookup after `DuplicateKeyError`, `put_nowait`, `rollback_saturated_queue_admit` |
| `Take`, `Claim` | `worker_loop`, `atomic_claim_accepted_to_running` |
| `Package`, `Synthesise`, `CheckRefusal`, `EmitRefusal` | `_process_one` and the `package_*` functions, in the order of their ledger writes |
| `Settle`, `WorkerWebhook`, `RecordQuote` | `transition_to_delivered` and `transition_to_refused`, `fire_webhook`, the quote event |
| `CancelRead` ... `CancelWebhook` | `cancel_objective`, with the two updates of `transition_to_cancelled` apart |
| `Crash`, `Boot`, `Sweep`, `Serve` | death at any await (a graceful shutdown cancels the tasks, which is the same to the model), and the startup hook: indexes, recovery sweep, workers, then requests (`server.py:228`) |

`ObjectiveLifecycle` is the promise made about one objective, with no queue, worker or HTTP:
five statuses, the recovery reset, and the fence that only a live attempt settles an
objective.  `RefinesLifecycle` maps the live attempts to the objectives that workers hold in
a step of packaging.

### What is abstracted

* What the Registry holds decides a packaging result: `Package` may come to any result its
  form allows.  A body is a model value, and `FormOf` gives the form it asks for.
* `fire_webhook` makes up to five attempts; the model keeps the outcome: told, or marked
  undelivered.
* The sweep takes candidates in any order (the code sorts by `enqueue_time`), and the reset
  and the enqueue of one candidate are one step, as nothing else runs during the startup hook.
* A request's `GET` reads only and is left out.  Mongo errors inside a live process are not
  modelled: a step succeeds or the process dies.  An error in the startup hook is re-raised
  (`server.py:320`) and is a `Crash`.
* The `NotImplementedError` branch of the worker cannot be reached from the two doors.

### Runs

| Run | Bounds | Question and answer |
|---|---|---|
| `delivery` | 2 objectives, 2 workers, 1 cancel, 2 deaths | Do terminal statuses stay, is there one attempt per objective, is nothing stranded, do ledger and status agree?  Holds, and implements `ObjectiveLifecycle`. |
| `admission` | 3 requests, both doors, 1 key or none, 2 bodies of two forms, 1 worker, a queue of 1, 1 death, webhooks | Does every 202 under a key name one objective and one body while it exists, and is what was answered 503 by `/objectives` never packaged?  Holds. |
| `liveness` | 2 objectives, a queue of 2, 1 cancel, 1 death, fairness | Does every announced objective settle?  Holds for conclusions with a configured LLM key. |
| `qualified_settles` | 1 objective of the other form, fairness | Violated: a packaged `qualified_data` objective stays running. |

Two workers, two objectives and a cancel are what it takes for two attempts, or an attempt
and a cancel, to meet; two deaths allow a recovery to be interrupted and repeated; a queue
of one place with three requests is full while a worker is busy.  The proofs below lift the
safety properties to every number of each.  `MaxCrashes` bounds the deaths; every handler
runs once, so nothing else needs a bound.  Deadlock is not checked: the system rests when
all requests are answered and the queue is empty.

Fairness (`FairSpec`): the event loop runs each task that is ready, Mongo answers, and the
supervisor restarts a dead process.  Requests need not arrive and the process need not die.
`Take` and the steps of a worker have their own fairness: a woken task is always scheduled.
`AnnouncedSettles` needs `QueueMax` to be at least the number of requests.  With less, an
announced objective may wait in `left` for the next restart, or be deleted: a replay of the
key can be answered 202 for an objective that the original request then rolls back.

### Seen while modelling, without a run

* Recovery writes a second converge row, although `async_state.py` promises one
  (`ConclusionRowOnce`).
* A worker that lost to a cancel announces its own outcome (`DoorbellsTruthful`), and after a
  crash the webhook of a transition is not rung at all.
* A second request without a key is refused for reusing one: the unique index covers the stored
  null (`KeylessIsNotReuse`).
* A 202 replay may name an objective that the rollback then deletes, and a later request under
  the key gets another objective: four requests and a queue of one reach it.  `ReplaysAgree`
  therefore speaks of documents that exist.
* A crash between the below-floor row (`composed_conclusion.py:298`) and the transition has
  the retry write it again; only the worker's own refusals are checked for a duplicate.
* A trace may carry both a converge row and a cancelled row.
* A crash after a cancel's transition loses its ledger row.
* A cancel answers 404 for a running objective when the claim falls between its two updates.
* The dispatch door answers 503 for a full queue and leaves the accepted document behind.
* A saturated request's document may have been seen, by a replay of its key, before the
  rollback deletes it (`authorized_deletion.py:152` says it never has been).

## 3. Countersign checker: `Checker`

### How the model corresponds to the code

| Variable | In the code |
|---|---|
| `docs` | the `checker_requests` collection: for each `request_id` the documents that carry it, oldest first.  There is no unique index; reads and updates by id reach the first |
| `calls` | requests being served: operation, next await, caller, and the `RuleChangeRequest` that `_load` returned |
| `sweep` | the documents `void_admin_initiated_compliance_pending` has matched |
| `ledger`, `unlogged` | countersign rows written, and those whose writer died first |
| `clock` | seconds, as far as they matter: the `-g` suffix and the delay |

`Initiate`, `Fork` and `Insert` are the three awaits of `initiate`.  `Countersign`,
`Object`, `Suspend` and `AdvanceDelay` load and decide; `Persist` is the `_persist` that
follows, which sets every field of the model from the loaded copy; `WriteRow` is the
countersign row, written by the router afterwards.  `Fail` ends a call at any await.
`TeamDecision` is the branch of `approval_decision` that pushes a field the model forbids,
after which every load of the document fails.  `VoidFind` and `VoidUpdate` are the retrofit
sweep, which updates by id what it matched earlier by content.

Abstracted: the wording of annotations, who objects and who suspends (no code reads them),
and ledger rows other than the countersign rows.  A refused or idempotent call changes
nothing and is no action.  Suspension has two doors, the console's cancel and the master
administrator's, and one effect on the document.  `advance_delay` and the void sweep have no
caller outside the tests: `Library` says which of them somebody runs.  As the code stands
nobody does, and a tightening stays pending.

### Runs

| Run | Bounds | Question and answer |
|---|---|---|
| `checker` | one change of each class, 3 identities, 2 calls at a time, 2 documents, clock to 2, delay 1, both library operations, the void meeting the tightening | Is every dual-control change in effect signed by a second identity, has every tightening waited its own delay, is every signature on record or its writer dead, and who may move a settled request?  Holds. |

Every anomaly here is between two calls, so two `Handlers` show it; two documents are a
duplicate, or a generation and its successor; two ticks are a delay served and one cut
short.  The void sweep is let loose on the tightening only, which halves the instance; the
proofs cover a void of either class.  `MaxTime` and `MaxDocs` are the bounds.  No fairness is assumed, as the module makes
no liveness claim: nothing in the code makes a request settle.

### Seen while modelling, without a run

* A countersign that loaded a request before its suspension makes it effective.
* After a change has settled, each identical initiate adds a pending request
  (`OnePendingPerChange`).
* Two administrators may sign for both consoles (`SecondConsole`); `advance_delay` has no
  production caller.
* The console's cancel suspends without the `owner_suspended_tightening` row that the
  master administrator's door writes.
* Two overlapping countersigns are both ledgered; the document keeps the later signature.
* Two initiates that overlap insert two documents under one id, and re-initiations of one
  change in the same second share an id; the younger document can never be reached.
* A team decision makes a request impossible to load, and so impossible to suspend.

## 4. Components with a run of their own

An action of these modules is one Mongo operation with the code up to the next, or one file
operation.  A request in progress is a record in `calls`: its operation, where it is, and what
it has read.  `lost` holds the ledger rows owed by requests that died.  Callers that a role or
scope check turns away change nothing and do not appear.

| Run | Module | Bounds | Question and answer |
|---|---|---|---|
| `memory` | `MemoryPlane` | 1 plane, 2 contributions, 2 references, a working set of 1, 2 calls | Does the ledger rebuild the planes up to what dead calls owe, is a contribution visible only by an attempt on record, and who may change a revoked plane?  Holds: only accessors minted before the revocation. |
| `perception` | `PerceptionJobs` | 2 jobs, 1 key, 2 workers, 2 runs of up to one unit, 2 requests | Has a key one job unless two requests met on it; is what was answered 202 in its job (`AnsweredIsKept`); may progress move back?  Holds: units are lost, and progress moves back, only under a result that had read an older document. |
| `keys` | `KeyGrants` | 1 grant, registered or seeded, 1 invite, 2 requests | Do the grants, the ledger, the decision events, the access register and the approval queue agree (`GrantsOnRecord`), does an invite yield one token, does a revocation reach every session?  Holds. |
| `wizard` | `OperatorWizard` | 1 session, a mandatory and an optional field, 2 lists, 2 requests, any restarts | Is nothing frozen that its operator did not fill in and agree to?  Holds, and a settled session stays frozen. |
| `frozen_for_good` | | same | Violated: a turn that fetched the session before the freeze thaws the document. |

Two overlapping requests are what every anomaly here needs; one plane, grant or session each,
because the documents of different ones are never read together (two contributions and two
references, because working sets and ledgers are).  A worker is what `process_job` of the
repository is: one run hears a whole job, mints fresh ids for its units and gives one result at the
fixed offset.  What drives the workers is not in the repository, so a job may be run again, by
whoever has it, and a result posted at any time and any number of times; two runs of one job are what
it takes for results to cross.  Fairness is assumed in `keys` only: an access token expires after fifteen minutes
(`jwt_service.py`), whatever else happens.  Nothing else in these modules is claimed to happen.

## 5. The consoles: run `consoles`

`MCConsoles` puts machines that share no state side by side: a behaviour takes one of them and
leaves the others where they began, so the run costs the sum of the machines.

| Machine | Bounds | What holds |
|---|---|---|
| `GovernedRegistries` | 1 registry, 2 uploads of up to 2 rows, 2 commits at once, 3 versions | `EveryVersionExtendsOne`: a version repeats every row of some version numbered one below it, although two commits may take one number |
| `RetentionRules` | 1 class, the one a deletion finds documents of, windows 0 to 2 days, 4 days, 3 versions, 1 deletion at a time | `DeletedIsStillDue`: what the configured rule deleted, the latest readable rule would delete again; torn files, restarts and writes between a deletion's cutoff and its `delete_many` included |
| `UseDataSessions`, `CommissionVerdict` | 1 session, 2 requests, 5 bodies, ceilings with a malformed one | `RunsNowIsClean`: told to run now means every check passed and the budget was within the ceiling then in force |
| `ConnectSources` | 2 ids, 2 requests, 3 documents | `HoldingsAreHonest`: one measured row of an id; counts and rows of a view miss nothing that stayed |
| `ArtifactStore` | 3 puts on one key, one of them a put_once | `GovernedIsStored`, `LeftoverIsMarked` |
| `EstateService`, `EstateGrammar` | 2 runs of 8 bodies, 13 dispatch calls (one at a time), 6 drafts, 3 estates | `RunsOnRecord`: ledger, plans and trace agree with what runs did; `WarmAnswersHold`: what a dispatch tells comes from its reach, at its standard, under its licence, and is on record |
| `InstanceOnboard` | 2 intakes, 2 backfills, an instance with or without an earlier context | `OnboardingOnRecord`: a completed intake left the row of every value it set; a context lacks rows only under a running or dead intake; no row comes from nowhere; after a backfill's answer the sixth value is on record |

A put is begin, write tmp, verify, copy, head, receipt, row, collect; each may raise (rolled
back before the receipt, left to the sweep after it) or die, an operation cut short may leave
part of its file, and `disturbed` remembers the keys where two actors met or a marker aged
under its writer.  One key suffices: a step touches no other (the proof says so key by key).  The
bodies of the estate share a plan identifier under two floors, or an order of rows under two
snapshots, two have one source under two feeds, ranked by either, and they cover every refusal; `EstateBound` takes the
open-runs console with two runs, or a dispatch with one, because the console reads the runs' rows
only.

## 6. The tables: run `tables`

`MCTables` checks pure algorithms over listed inputs, and five small machines.

| Property | Over | What it says |
|---|---|---|
| `RegistryFormIsAsReported` | registry documents of up to two files; query documents with a log of up to 4 lines | documents that pass the gates have a machine form that agrees with the report; the standing queries lose no decision and no finding |
| `ShieldedTextIsSeenWhole` | texts of 3 letters under sets of hits; replies of up to 8 letters, cut anywhere, with 7 pending | shielding and reidentifying return the text but for masks, and the cuts of a stream cannot be seen |
| `ProveOnRecord` | `ProveRegister`: 2 seeded questions and a new one, 3 asks, 2 queue requests | what was told can be walked; a new question has a gap that is filed; a queued gap stays queued |
| `TierLockGoverns` | `TierLock`: 2 posts of either body, 2 keys, 2 quotes, 2 starts | the flag is up only by a lock that was told; what was told has a row that says so, unless posts of its key carried opposite bodies; a quote is told with its row, none while a told lock stands |
| `CensusAndBriefsStand` | `CensusDimensions`, `OpportunityBriefs`: 1 feed, 2 values, 2 recordings, 2 desks, 2 census names | records are in their vocabularies; every numeral a brief shows stands in the raw text of a read it was given, and one brief of a candidate and census at most is fresh, none of an older census among those the last refresh saw |
| `UnitsStandOnTheirSources` | `ExtractionParams`, `AudioWorkers`, `UnitRings`, `OccurrencePipeline`: parameter blocks, jobs of up to two recordings, cues and turns, class pairs, units under a floor, probe lists, blocks, spans | a job is complete when every recording can be read, and then each has its units, without a gap in its speech or an overlap; compared runs agree on their anchors; a speaker has the widest overlap; no unit is classed above its source; a conclusion is no stronger than what it rests on; segments and batches tile the recording; a repetition walks back to one canonical span |

Texts are sequences of letters with spans given, so what a recogniser matches is an input; a
registry document is a sequence of rows, with the cells no gate tells apart as one.  Durations
are small integers, the thresholds of the code scaled with them.  A brief is a set of items
(a fact or figure, a token, a mask), each with the numerals in its writing, because the grounding
gate looks at nothing else: `Numerals`, `Inside` and `LastFour` say what its expression finds in an
item, what stands within the writing of a fact, and which digits a mask shows.  In the instance a
figure has another within it, one fact is masked but for its last four digits, one wholly, and the
model makes up a figure; two posts, keys or census names are interchangeable.

## 7. Proofs

TLAPS checks these for every value of the constants that satisfies the assumptions
`ConstantsAssumption`, `CheckerAssumption`, `RegistriesAssumption`, `RetentionAssumption`,
`StoreAssumption`, `MemoryAssumption`, `GrantAssumption`, `WizardAssumption`,
`PerceptionAssumption`, `IntakeAssumption`, `UseDataAssumption`, `SourcesAssumption`,
`SamplesAssumption`, `ProveIdsAssumption`, `TierAssumption`, `EstateAssumption`,
`PlanIdAssumption`, `ShieldingsAssumption`, `StreamAssumption` and `DocumentsAssumption` (the sets may be of any size; TLC evaluates the assumptions in the runs).  They
say that bounds are numbers, that requests and rows have their fields, that kinds of identifiers
do not overlap, and that `None` is neither an identifier nor a document.  Three say more.
`PlanIdAssumption`: no plan identifier is the
mark of a ledger row without a plan.  `ShieldingsAssumption`: a hit is a span of its text that is not
empty, and of two hits one comes first, if only because it was found first.  `DocumentsAssumption`:
a document is a list of rows, of any length, and the expected findings are finitely many.

| Module | Theorem | Rests on |
|---|---|---|
| `AsyncDelivery_proofs` | `TypeCorrect` | `Typing`: `TypeOK` and that a busy worker holds an objective |
| | `OneAttemptHolds`, `TerminalIsFinalHolds` | `Places` |
| | `NothingStrandedHolds` | `Tracked`, with `Places` |
| | `OutcomeOnRecordHolds`, `AdmissionRefusalOnceHolds` | `Recorded` |
| | `SaturatedNeverRunsHolds` | `Untouched` |
| | `CancelRowTruthfulHolds` | `Cancelled` |
| | `ReplaysAgreeHolds` | `Replayed` |
| | `Refinement` | `Places` |
| `Checker_proofs` | `TypeCorrect`, `FourEyesHolds`, `WindowServedHolds`, `SignatureOnRecordHolds`, `SettledUnlessStaleHolds` | `IInv` |
| `Consoles_proofs` | `EveryVersionExtendsOneHolds`, `MarkedIsAVersionHolds` | `RegistriesInv` |
| | `DeletedIsStillDueHolds` | `RetentionInv` |
| | `OnboardingOnRecordHolds` | `OnboardInv` |
| | `RunsNowIsCleanHolds` | `UseDataInv` |
| | `HoldingsAreHonestHolds` | `SourcesInv` |
| | `ProveOnRecordHolds` | `ProveInv` |
| | `TierLockGovernsHolds` | `TierInv` and `SaysInv` |
| | `WarmAnswersHoldAlways` | `EstateInv` |
| | `RunsOnRecordHolds` | `RunsInv`, with `EstateInv` |
| | `GovernedIsStoredHolds`, `LeftoverIsMarkedHolds` | `StoreInv` |
| `MemoryPlane_proofs` | `MemoryTypeCorrect`, `LedgerRebuildsHolds`, `PublishedByCeremonyHolds`, `FrozenUnlessMintedHolds` | `MemoryInv` |
| `Registers_proofs` | `KeyTypeCorrect`, `GrantsOnRecordHolds`, `OnboardedOnceHolds` | `KeyInv` |
| | `CensusAndBriefsStandHolds` | `CensusInv` and `BriefsInv` |
| `OperatorWizard_proofs` | `WizardTypeCorrect`, `FrozenIsGovernedHolds`, `SettledFrozenStaysHolds` | `WizardInv` |
| `PerceptionJobs_proofs` | `JobsTypeCorrect`, `OneOfAKeyHolds`, `AnsweredIsKeptHolds`, `ProgressKeptHolds` | `JobsInv` |
| `Tables_proofs` | `ShieldTypeCorrect` | `StreamTypeOK` |
| | `ShieldedTextIsSeenWholeHolds` | `ShieldInv` |
| | `RegistryFormIsAsReportedHolds` | `FormOfLists` and `NothingIsLost` |

*Delivery.*  `OneAttempt` is not inductive: a `Take` could give a second worker an objective
that is queued twice, or queued while it is held.  `Places` says where an objective can be:
in the queue once, or with one worker, or due to be swept, and in none of these before its
own handler has let go of it; outside the serving state nothing runs.  That the sweep only
runs in a fresh process is what keeps a recovered objective from being held at the same
time.  `TerminalIsFinal` and the refinement follow step by step.  `NothingStranded` needs
`SweptOrTodo`, its counterpart for the startup hook: what is not yet queued again is still
due.  `Recorded` adds to the two ledger properties what a worker carries (`Carried`): a
worker about to settle with a result has its row on the trace, and one about to emit a
refusal has found none, which with one attempt at a time is still true when it emits.
`Untouched` says that an objective that its handler has not let go of, or has taken back,
has no packaging rows.  `Cancelled` ties a handler that is about to emit to a cancelled
document without a row, and says that only one handler can be in that place.  `Replayed` says
that documents have different keys, and that what a 202 names was admitted with the key and the
body of its request, also when it is gone.

*Checker.*  A document may change between a call's load and its overwrite, so nothing true
of the document is known to the call.  `IInv` instead says what remains true of the copy:
its consequence class agrees with the change, a countersign loaded a request that somebody
else initiated, an advance loaded a request whose delay had passed (time only grows), a call
about to write has a document to write to.  `FourEyes` and `WindowServed` then hold of every
copy written back, whatever it replaces.  `SettledUnlessStale` is the action property that
says what overwriting can still do.

*Govern registries.*  A commit compares with a version it has read and inserts much later.
`RegistriesInv` says what stays true of what it read: that version is still there, with the
number below the one the commit is about to take, and the rows it will write extend it.
Versions are only ever added, so no other commit can take that away.

*Retention.*  A write may only shorten a window without the checker, so a document past the
old window is past the new one, and days only go by.  A deletion by the configured rule takes its cutoff from one
file and deletes under another perhaps; `CutoffsHold` says that the cutoff is one the latest readable
rule still allows.  The property speaks of the latest file
that can be read; `FilesOK` supplies that only the latest can be torn, because a write begins
on a file that was read.

*Intake.*  `IntakeOK` says that the rows of an intake are those of the first keys of its list, as
many as it has counted, and that they only appear after its context.  An intake told onboarded has
counted eight, and the first eight keys are all of them; one that is refused found a context, and
has counted none.

*Use data.*  A verdict remembers how many ceilings there were when it was composed.  `CleanVerdict`
judges it by the ceiling after that many changes, which a later change cannot alter because
ceilings are only appended.  That no check failed is enough for each of the five: the first
failing check is the one of the smallest place, and there is none.

*Connect.*  An addition and a change of state both take the oldest document of an identifier, so
a younger one stays as it was inserted (`YoungerPending`).  The five counts are sizes of disjoint
sets of documents that together are all of them (`CountsAddUp`), taken in one read.

*Prove.*  A gap keeps the first document under its identifier, whoever inserts a second
(`OriginOK`).  An ask has its trace exactly when its envelope was told, and `AskOK` says what was
filed before.  `ProveIdsAssumption` is what keeps the samples apart from the asks: seeded
identifiers have a form that new ones have not.

*Tier lock.*  `TierLockGoverns` is far from inductive: `PostOK` adds that no two posts between the
file and the row share a path, nor a post and a row; `LockedOK` that the flag is up as long as a
lock was told in this run of the process and no unlocking has begun; `QuoteOK` that a quote has no
row before it is minted.  `SaysInv` is what the ledger says of the flag.  Nobody compares the bodies
posted under one key, so a row is some writer's of its key, and a post that takes it for its own
says the same or contests the key (`Contested`); that the flag is up only by a told lock follows
from every post in flight belonging to this run of the process.  That a warm quote is no dearer is arithmetic over one product
(`WarmIsNoDearer`).

*Warm answers.*  `WarmOK` relates a warm call to a Registry it is still to read again: it has moved,
or the feasibility read would still say warm, and then some row meets the standard
(`WarmHasRows`).  `SynthesisOK` says of a conclusion being worded what holds once it is told.  The
run lets one run meet one call; the theorem has any number of both.

*Runs.*  `RunOK` says of a run, at each place where it can stop, which rows it has written, that
the units measured so far have their sources in the Registry (which replaces rows, never removes
a source), and that a plan it names is stored.  `PlansOK` is what makes a shared identifier
nearly harmless: a stored plan has the targets of some run of its identifier, and two runs of one
identifier rank the same sources in one order, each under a feed that both have measured it with
(`OneIdOneOrder`); of a source with two feeds the plan may name the other one.  For that the ranking is stated as a counting
sort, the place of a record being the number of eligible records that go before it: a finite
total order puts each of them in a place of its own and leaves no place empty
(`PlacesAreTaken`), which needs cardinalities and no induction.

*Artifact store.*  `StoreInv` is stated key by key (`KeyOK`).  Where no two actors met there is
at most one call in progress and no sweep beside it, so what a call knows of its key (`CallOK`:
nothing there before the copy, its own bytes after the head check, its marker in between, no
row but its own) cannot be disturbed; `KeyUntouched` says that a step elsewhere shows nothing.
`SweepOK` says that what the sweep deletes has no row, `Accounted` is the second property.

*Memory.*  `LedgerRebuilds` compares records rebuilt from rows; `ToldOK` says it row by row: a
row is written or owed exactly when the document shows what it tells.  The step that writes a
document also begins to owe its row, and a row only moves from owed to written or lost, so a
death between the two changes nothing that is told.  `CallOK` says what a call has found of its
plane; it stays true because planes do not go and contributions do not move.
`FrozenUnlessMinted` then follows step by step: a handler that looks at a revoked plane is given
an accessor that does not count it as active, and every write needs one that does.

*Keys.*  `CallOK` says what a request has found of its grant or put on record of it, none of
which is undone: a grant never goes, a revocation is not taken back, events and rows are only
added.  `GrantOK` says where a state comes from, which `RegisterTells` needs for the order in
which the register looks at a grant's fields.  `OnboardedOnce` needs that one request at a time
holds the token of an approved invite: the atomic update lets one of the approvals have it.

*Briefs.*  A vocabulary is only appended to, by values it does not hold, so what a recording found is
there when its record is stored (`UpsertsKnown`); that none names a value twice is a cardinality kept
value by value.  A row says for ever what it said but for being stale (`Marked`), and `GroundedStands`
is the gate: every numeral found in a draft that passes is the value of an anchor, and every anchor's
value stands in its read.  So the last digits of a mask are shown only where they stand in a read.
`RefreshOK` says that the rows the last refresh saw are still there.  Slices, reads and the name of
the census are what the caller says, and nothing relates them.  The run `tables` lets recordings run
alone with all their sources, or beside the briefs with observations of one feed; the theorem is of
`BriefsSpec`, which has all of them together.

*Wizard.*  A request goes on from the snapshot it took, so `CallOK` says of a snapshot in flight
what `StoredOK` says of the document: one that commits was ready and agreed on.  `agreedOnce` only
grows, so a later edit or thaw takes nothing from it.  `SettledFrozenStays` follows because only a
session in memory, or a request that had it from there, writes a document that is not frozen.

*Perception.*  `Whole` says of a job, and of what a result has read of it however old, that its units
are of its own runs and that a complete one carries one of them whole, at the full offset.  `CrossOK`
says of a job that no two results met on that the copy of the one under way is what is there, so
writing it back loses nothing; `ResultsOK` adds that what was answered 202 has arrived.  `KeyOK` is about keys on which no two requests met and
nobody died: the job is recorded, or in the hands of the one request that inserted it, and there is
nothing yet where a request is about to insert.

*Shield, the text.*  The theorem is of any text and any hits, so it is about folds, flattenings and
recursive functions on sequences of any length.  The library's induction takes an operator, which the
prover cannot instantiate; `NatSetInduction` says the same of a set (one that holds 0 and every
successor of a member holds all numbers, or the rest would have a least one), and a statement about
all lengths is the set of the lengths it holds for.  With it a fold and a flattening unfold one
element at a time, and a recursive function has the value its body gives (a least place where it has
not would be at odds with the places it calls).  `InOrder` gives each hit the place that as many hits
come before as its number says; that `Before` is a total order, that two hits never share a place and
that there are as many places as hits make it a listing of all of them.  Along the listing the
invariant of `Resolved` is that what is kept is apart and in order and that every hit so far meets
something kept; a hit that is taken back leaves one that covers it.  Two different keys of a class
have different numbers because the set of keys counted grows strictly at each first occurrence, so a
token leads back to the span it was first given for, which is the one it stands for up to case.  Then
the redacted text, token by token with the letters in the clear behind it, gives the expected text
piece by piece.

*Shield, the stream.*  `CutsCannotBeSeen` is not inductive: it speaks of a flush now.  `StreamInv` says
that for anything still to come (`Continuing`) what was shown, with what the rest of the buffer will
give, is what one feed of all of it gives.  It is kept because draining in two goes is draining in
one, whatever comes next: a decision about a bracket is taken only on letters that later ones cannot
change.  That the whole is what `reidentify` shows is by going down the text from its end, where
nothing nested means that the first end behind an opening is that of its own token.

*Registry.*  The documents never change, so this theorem is about what is computed from them, for
documents of any length.  Everything that selects from a list is `EntriesAt`: `EntriesPicked` says
that its entries are those of an increasing list of places, and how it splits over a list glued of
two.  A file ends with a line of prose, so no table runs across a seam and the tables of two files
are the tables of the one and then of the other (`TablesJoin`); the two parsers, which glue the files
in different ways, therefore read the same rows but for the name of their source (`FunctionsInJoin`),
and the consolidated parser drops only rows whose identifier came before (`GatedIs`, `FormIs`).  What
the gates and the scans say of a row they say of its like (`LikeIsAsReported`); from there
`FormOfLists` follows by sets.  `LoadQ1` and the index of subjects are folds: `FoldsChain` unfolds
them into what is held after each line or source.  After a line, the log's reader has the decisions
of the headings before the open one, and of that one what was said since (`ReadUpto`); after a
source, the index has each subject spoken of so far, with the first to speak (`ClaimedUpto`).  A
green findings gate asks for as many ruled findings as it expects, and all of those: by counting,
each identifier is there once and there is no other (`EachNameOnce`), so the two lists, whose places
do not meet and are all, have each once (`CoveredAreListed`).

Only model-checked: `AnnouncedSettles` and `RevocationPropagates` (liveness);
`UnitsStandOnTheirSources`, whose modules sort and call themselves with operators the prover cannot
unfold; and the two violations.

## 8. Seen while modelling, without a run

The observations of delivery and of the checker stand at the end of sections 2 and 3.

*Service 1.*  A run refused after admission, or cut off by a crash, stays open in the console
for ever; `terminate_success` is written before the step that may still answer 503.  The plan
identifier leaves out the floor, so a later run overwrites the floor of an earlier plan.  A
refusal names the largest class among the units, a conclusion the smallest.  Regions are left out
too: of a source that a run has under two feeds, a run of another scope puts the other one in the
plan.  The run's trace may
show Registry rows that a later run has measured below its floor.  Empty prose without anchors
passes the grounding check and then fails the response schema, after its success row.

*Store and memory.*  A rollback removes the partial file before the final one, so a crash
between the two leaves data that nothing marks.  Two overlapping revocations write two rows; an
issue does not look for an existing plane; an accessor minted before a revocation keeps working.

*Perception and samples.*  The indexes are never created at startup; there is no lease, so the
unit of a worker that stops is never claimed again.  Every worker posts the fixed offset 3600 and
fresh `uuid4` ids, whatever checkpoint the job had reached, so a job that is run again carries both
sets of units, although completed units are "NEVER double-ingested" (`phase_9.md:111`).  `apply_result`
is called idempotent on offset and status (`job_dispatcher.py:111`); the code also compares the ids,
and `AnsweredIsKept` needs that it does.  Two results of one job that overlap may lose the units of
one, which was answered 202.

*Keys.*  A pending or declined grant is carried by a login
(`engineer_key_grant_service.py:237` against `team.py:480`; `DeclinedNeverCarried`).  A revocation
is "immediate" (`engineer_key_grant.py:50`) only after the fifteen minutes of a token in
circulation.  Approving a revoked grant flips its state, and one that was approved before it was
revoked is still shown as "active" in the access register, "takes effect at the grantee's next
login" (`team.py:406,483`), although no login carries it; `RegisterTells` says of which grants
this is so.  A crash after an approval loses the
token and its row.

*Instance intake.*  Two intakes that overlap insert two contexts and sixteen rows, and the second
is told "onboarded" although the read shows the first.  An intake that dies leaves its context
without some rows for ever, because the retry is refused; the backfill heals the sixth value only,
and writes its default beside the value of an intake under way.  The rows carry Python's salted
`hash` of the value (`s2_onboard.py:46`), which another process cannot recompute.

*Wizard and use data.*  The handoff of a frozen session raises an `AttributeError`:
`wizard_operator.py:428` calls a composer that `admission_handoff.py:23` no longer exports and that
`test_phase_8_b_1_auth_and_shims.py:312` wants to stay gone.  The blind update of `agree` may mark a list that has become
empty.  A restart forgets `_SESSIONS`.  In use data, of two turns that overlap one is lost; the
commit takes its scope and connected ids from the body; a malformed ceiling falls back to the seed.

*Govern and retention.*  An upload may be committed twice after a crash.  Rows may be lost when
two commits take the same version number.  A torn `retention.vN.json` makes every later write
answer 400 and every deletion 500; nothing applies a countersigned loosening; `GET` of the
configuration reads the environment, not the file.  `wizard_transcript` deletes from a collection
nobody writes.  Real holds are never listed.

*Connect.*  A source retried from `failed` stays in progress with no way out.  Adding a source and
declaring a registry look up and then insert.

*Prove.*  The seeded answer `not_extracted_yet` offers a gap that nobody files, so queueing it
answers 404.  A crash between the gap and its trace leaves an origin that does not walk.
Duplicate gaps are possible and queueing marks only the first.

*Economics.*  A retry after a crash between the ledger row and the flag answers 200 and never
raises the flag; a restart loses a lock the ledger records; two overlapping posts of one
key with opposite bodies can raise the flag with only the row of the lowering, although
`quote_service.py:63` says that both write a row (`Contested` in `TierLockGoverns`).

*Promise registry.*  The gates and queries judge the v0 document while the machine form is v1's.
A duplicate row is not removed by `parse_source`.

*Shield, census, briefs.*  `_ensure_spacy` remembers a load failure for ever, although the warm-up
log says "503 until the model loads".  The branch that prefers the higher layer is dead
(`deidentifier.py:623`; `HigherLayerPreferred`).  The streaming reidentifier has no caller, and
differs from the whole one for nested openings.  Grounding compares substrings, so "14" passes
for "140", and the last four digits of a mask pass when they are anchored in a read that states the
masked number.  Slices, reads and the census reference of a brief come from the caller, which nothing
checks against each other, and `generate_one_brief` has no caller outside the tests.  A brief begun before a refresh and written after it keeps the older census and is
fresh.  The spans that a recogniser finds have no blanks around
them, so the `strip` before a token is minted changes nothing.  A refused genre leaves its surface registered.

*Units.*  `register_model` writes the models alone, so the other tables of the registry's file
(`c1_candidates`) are not in the next version.  The occurrence writer's docstring (`a2_occurrence_writer.py:93`) has
the ceiling inherited from the canonical span, where the code always writes UTTERANCE.  The tension stage of `run_solva` (`reasoning/tension.py:15`) reads attributes that
`RelationalEdge` (`five_rings.py:169`) does not have, so any unit with an edge raises
(`TensionFails`) and no contradiction is ever surfaced.  A retried batch makes a canonical span
an occurrence of itself.  `reproducibility_keys` skips the optional anchors, so runs that differ
there compare equal.  The aggregator calls an unknown pair UTTERANCE under the row that the
stamper calls NON_FACTUAL.  The segmenter lets short silences split speech, drops blocks below
the minimum although a comment (`a1_segmentation.py:111`) says they are merged, and passes blocks above the maximum; the
last window may be short.  A fingerprint includes the offsets, so a clip that recurs elsewhere
never matches.  Nothing outside the tests calls this pipeline.

## 9. What is not modelled

`PROJECT.json` lists every component with its status and the reason.

* *Adapters, formatting, I/O*: data sources, transforms, the prompt texts, the health and
  harness endpoints; a model call is a choice between its outcomes.
* *Contracts*: pydantic schemas, except where a validation decides (`ExtractionParams`, rings,
  the bodies of the consoles).
* *The outer gate and the cumulative v2 gate*: the first is arithmetic over a request and appears
  as a choice of its outcomes; the second (`v2_gate.evaluate`) has no caller.
* *Pipelines without state that others read* (layers A and B), where a property would restate a
  score's formula.
* *Frontend, salvage, tools, reports*: rendering, retired code and scripts.
* *Reads*: a handler that only reads is left out unless what it shows is claimed.
* *Mongo errors in a live process*, except in the artifact store, where the code handles them.
* *Roles and scopes of a caller*, checked before anything is read or written.
* *Several processes*: the models of one process interleave requests at every await, which is
  what a second process adds to the documents; per-process state (queue, flag, sessions) is of
  the process modelled.

The map covers about 32 % of the implementation's lines.  The rest is mostly schemas, seeds,
rendering and adapters, which a model would copy rather than abstract.

## 10. Plan

Done: all of the components above, with proofs for delivery, the checker, the governed
registries, retention, the intake, use data, the sources, the prove console, the tier lock, the
runs and warm answers of Service 1, the artifact store, memory, the keys, the briefs, the wizard,
the worker plane, the shield, and the registry and its queries.
Left, in this order:

1. Proofs for what is left of the run `tables`: the worker counters, the segments and batches,
   once their definitions are functions the prover can unfold.
2. An abstract store (a key is absent, stored or torn) that `ArtifactStore` implements, with the
   readers as its users.
3. The cumulative disclosure counter, once something calls it.
4. `GovernedRegistries` composed with `Checker`, once code applies a countersigned change.
