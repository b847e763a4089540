# TLA+ models of Mordecai API

Mordecai API is the backend of an AI debt-collection service: an Express
application over Postgres (Sequelize) and Redis (BullMQ). It keeps tenants, debt
cases and automations, decides every fifteen minutes which cases are contacted,
holds telephone calls with debtors through Twilio and ElevenLabs, takes payment
agreements and disputes, and synchronises cases with property-management
systems (PMS). The workers that take jobs from the queues are another program;
they call functions of this repository.

Nothing in the repository locks rows, and few handlers use transactions. Each
`await` is a place where another request, job or webhook may run. The models
therefore split a handler at the awaits where it reads what it later relies on
or writes what another handler reads, and run several handlers at once.

Paths below are relative to the repository; the code is in `src/`, the
documents in `docs/`.

## 1. Inventory

| Part | State it keeps | Operations | Works with | What is hard |
|---|---|---|---|---|
| Collection tick and automations (`modules/collections`, `modules/automations`) | `collection_automations.status`, `case_automation_state` (one row per case and automation), `debt_cases.approval_status` | create, activate, pause, stop, delete, enroll, bulk approve / reject / exclude / pause / resume, the tick, recompute of stages | cases, disputes, SMS, email, calls, case build | ticks overlap; a tick walks over a page read earlier; enrolment decides on an approval read earlier |
| Board and activity (`automations/automation.repository.js`, `automation.service.js`) | none of its own | lists by tab and filter, totals, overview, bulk by filters, feed, timeline | cases, disputes, events, calls | two copies of each filter; a bulk that writes in four steps a list it read earlier |
| Cases, approvals, disputes (`modules/cases`, `modules/disputes`) | approval status, open disputes | pause, resume, open, resolve | engine, dialog | one approval column, many writers |
| Voice dialog (`modules/elevenlabs`) | `interaction_logs.ai_data.call_state`, `payment_agreements`, `case_disputes`, status of interaction and case | orchestrator step, agreement tool, dispute tool, registration, post-call webhook, status callback, expiry | Twilio calls, payment links, cases | whole JSON column written from a copy; retries; webhooks in any order; look-then-create |
| Voice engines (`modules/twilio/engines`) | promise chains, TTS queue, timers of one call | media frames, transcripts, barge-in, finalize | dialog, OpenAI, ElevenLabs | cancellation while a synthesis is in flight, a socket that opens late |
| PMS sync (`modules/property-managers`, `utils/pms-sync-lock.js`) | `pms_connections.status`, Redis lock, `sync_runs`, canonical tables, balances, aging, snapshots | trigger, full flow, the four steps, refresh, build, status change | queue, worker, maintenance | a lock that expires and has no owner; retries; crashes; steps that fail one by one |
| Maintenance (`automations/automation-*-*.service.js`) | none of its own | hourly and daily tasks per connection | PMS sync, case build | the same lock, dropped twice on failure |
| Strategies (`modules/strategies`) | stages with day ranges | create / update / switch off a stage, deletability, delete, the stage of a case | engine | checks outside the transaction that writes |
| SMS and email (`twilio/sms`, `email/ses`) | `interaction_logs` rows, events | send for a stage, a call, the demo; status report; link click | engine, dialog, Twilio, SES | reports overtaken or repeated; one JSON column with three writers; a failure after the provider's yes |
| Payment links (`modules/pay`) | link status, tries, OTP, sessions, disputes' evidence, proofs | open, verify, details, dispute, OTP, proof | disputes, SMS, email | read-then-increment of tries, unconditional writes of status |
| Memberships, invitations, tenants | membership rows, invitation rows, the owner | invite, accept, update, remove, leave, create a tenant | accounts, email | one tenant per user, last owner, two acceptances |
| Accounts (`modules/auth`, `modules/users`) | Cognito accounts, `users` rows, sessions | register, confirm, login, OAuth callback, me, profile | Cognito | look-then-create of rows, a look that may fail |
| Imports | batch status, debtors, cases | upload, process | cases, debtors | claim of a batch, a transaction per row, crash in the middle |
| Billing, templates, channels, branding, catalogue, discovery, dashboard, analytics, flow policies, HTTP shell | rows, or none | CRUD, rendering, aggregation | | little control of their own |

`PROJECT.json` lists every part with its files, and under `hazards` each place
of this code that a test would hardly reach, with the property that covers it.

What makes each part correct:

- **Engine**: no contact without approval; a decision (pause, reject, exclude,
  stop) takes effect up to what a running tick has already read; an operator's
  refusal is not undone by enrolment; every eligible row is reached; no contact
  during a dispute.
- **Dialog**: no agreement without an identified debtor, none on terms that were
  not read back, one per interaction; a dispute sticks; an interruption can be
  left; a closed dialog stays closed; a negotiated case status is kept.
- **PMS sync**: one sync at a time writes a connection's tables; the connection
  does not get stuck; the status means what it says.
- **Payment links**: bounded verification attempts, no session without a match, a
  blocked link stays so, evidence is not lost.
- **Voice engines**: words are kept, in order and answered; nothing that was
  spoken over is said.
- **Accounts and memberships**: one row per address, one tenant per user, an
  active owner in every tenant.
- **Imports**: a batch tells what became of its rows, and its end is final.
- **Board and activity**: what is shown adds up; a refusal holds.
- **Ledger, strategies, delivery**: the tables say what the PMS lists, totals
  add up, a case has the stage of its days, a message's row says what became of it.

## 2. Plan

`MC*` modules and `.cfg` files instantiate modules for TLC; `*Proofs` modules
hold the theorems.

| Module | Subject | State |
|---|---|---|
| `CollectionEngine` | tick, enrolment, decisions | checked, proved |
| `CallDialog` | one call: dialog, tools, webhooks | checked, proved |
| `PmsSync`, `SyncSlot` | sync of one connection, and its abstract specification | checked, proved |
| `PaymentLink` | one case's payment links: tries, codes, expiry, evidence, proofs | checked, proved |
| `VoicePipeline`, `RealtimeVoice`, `VoiceStream` | the two voice engines, and the stream that chooses one | checked, proved |
| `Accounts`, `Memberships`, `ImportBatch`, `CaseBoard`, `Activity`, composed in `BackOffice` | what the people of a tenant do | checked, proved |
| `PmsLedger`, `Strategies`, `Delivery`, composed in `CollectionFlow` | what collections are fed with, planned by and sent through | checked, proved |

Still to do: subjects that no module has yet: the pacing rules behind
`ready`/`held`/`waiting`, the amounts read from speech (`nlu/slot-extractor.service.js`),
and a composition of engine and dialog over one case.

`BackOffice` and `CollectionFlow` put parts that share no variable side by side
and choose one of them (`part`) in the initial state: every behaviour of a part
is a behaviour of the whole, and the invariants of a part are those of its
behaviours. `VoiceStream` chooses an engine in the same way, as
`TWILIO_ENGINE` does once.

## 3. The collection engine (`CollectionEngine`)

One PMS connection with its automations and cases. `automationStatus`,
`approval`, `rowStatus` and `openDispute` are columns; `pace` says whether the
pacing rules let a row through (`ready`), hold it (`held`) or make it wait for
`next_action_at` (`waiting`). `tick`, `enroller` and `operator` are the local
variables of handlers under way. `approvedBy` and `late` are history.

| Code | Model |
|---|---|
| `runCollectionTick` | `StartTick`, `SelectRows`, `ReadDisputes`, `SkipRow`, `Dispatch`, the write of the row after the channels, the end of a page; `TickFault` for what may throw |
| `enroll` | `EnrollRequest`, `EnrollList`, `EnrollCheck`, `EnrollApprove`, `EnrollCreate`, `EnrollSkip`, `EnrollEnd` |
| `bulkApprove`, `bulkReject`, `bulkExclude` | `BulkApprove`, `BulkReject`, `BulkExclude`, then `CloseRows` or `RefuseFail` |
| pause and resume of a case | `PauseCase`, `ResumeCase`, one step for each row |
| `runStrategyForCase` | `RunStrategy` (the checks), `RunRecorded` (the write of the row) or `RunFails` |
| disputes | `OpenDispute`, `ResolveDispute` |

What `runStrategyForCase` queues is not counted as a contact of a tick, and the return
of a stage without channels writes nothing, so that it is no step. Runs on demand may
overlap with everything, but for one case and automation one at a time (`onDemand`).

A bulk handler reads and updates its cases in one step: the SQL update has the
cases in its WHERE. A query that fails is a `SelectRows` followed by
`FailAutomation`. The approval mode of an automation is a constant.

Runs.

- `engine_all` has one of every actor and an automation that requires approval.
  It checks the types, that an approved enrolled case was approved by an
  operator (`ReviewedBeforeContact`), that a tick contacts a case at most once
  after it was taken out of the engine (`LateAtMostOncePerTick`: it works on what
  it read), and that enrolment never takes back an operator's refusal of an
  enrolled case (`RefusalStands`). The last holds for one enrolment at a time in
  one automation only (section 10).
- `engine_live` checks that a row that stays eligible is dispatched when the page
  holds all due rows.
- `engine_dispute` (a difference) shows a tick dispatching a case whose open
  dispute its own query returned.

Bounds: one automation, one tick, one or two cases, one enrolment and one bulk
handler, pages of one or two rows. More automations, enrolments and operators,
and ticks that overlap, are left to the theorems of section 11, which hold for
any number of them.

Fairness: `TickFairness`, weak fairness of the start and of each step of a tick:
the job is repeated every 15 minutes by the queue, and a tick is a loop whose
awaits return. It is assumed of `UpSpec` only, in which servers do not crash.

## 4. The voice dialog (`CallDialog`)

One interaction. `call` is the `call_state` inside `ai_data` (state, state to
return to, slots, proposals, snapshot of the terms); `status`, `caseStatus`,
`agreement` and `dispute` are rows. Each handler that loads the interaction
keeps a copy (`saw`) and writes the column from it: `step` (orchestrator),
`tool` (agreement), `filing` (dispute), `register`, `hook` (post-call webhook).
`leg` is the status callback, `verified` and `readBack` are history.

The pipeline of one utterance is a chain of operators in the order of the code:
slots from the extractor and from the action, sanitizing, defaults, the reducer's
target state, the transition table with its fallback, interruption and
resume, the prompt with the read-back. What the classifier and the extractor
make of words is chosen nondeterministically from the constant `Utterance`.

| Code | Model |
|---|---|
| `orchestrateCallStepFromTool` | `StepRead`, `StepWrite` |
| `createPaymentAgreementFromTool` | `ToolRead`, `ToolReject`, `ToolFind`, `ToolRepeat`, `ToolInvalid`, `ToolCreate`, `ToolRecord`, `ToolAnswer`, and `ToolCrash` between any two |
| `createDisputeFromTool` | `FilingRead`, `FilingReject`, `FilingFind`, `FilingCreate`, `FilingAnswer` |
| `handleElevenRegisterVoice`, `executeRegisterCallForInteraction` | `RegisterRead`, `RegisterWrite`, `RegisterFail` |
| `syncInteractionFromPostCall` (the post-call webhook) | `HookRead`, `HookClose`, `HookCase` |
| `handleVoiceStatusCallback` | `LegRead`, `LegWrite` |
| `closeStaleCallInteraction` | `CloseStale` |

A leg may end while its call is still queued. An update writes the columns that differ from
the row as it was read (`Changed`): a status or a case status that would not change is not
written, so that what another handler wrote in between stays.

Runs.

- `dialog_terms`: no agreement without identity, none on terms that were not read
  back, one at most per interaction while one request runs at a time (with
  failures and retries).
- `dialog_ask`: an interruption can be left, a dispute sticks.
- `dialog_end`: webhooks, callbacks, expiry and a crash in any order; only a
  handler that loaded the dialog before it was closed can open it again.

Bounds: two plans, two channels, one or two requests of a kind; utterances are
the ones the run is about (`Terse`, `Asking`, `Closing`), since each
slot is independent of the others apart from the rules in the reducer. The
run `dialog_end` starts from a dialog that awaits confirmation.

Assumptions on the environment: steps arrive after the registration; every tool
request names its interaction; a handler takes less time than the expiry of a
stale call; `MAX_STATE_STACK_DEPTH` is 1 as configured. Dispute proposals are not
modelled. An identity withdrawn in CONFIRM_AGREEMENT is not covered by
`NoAgreementWithoutIdentity`, which speaks of an identity that was never given.

## 5. PMS sync (`PmsSync`, `SyncSlot`)

One connection. `status` is `pms_connections.status`; `lock` the Redis key, with
the task that set it as history (the key holds `'1'`); `active` the owner of the
`sync_runs` row that is pending or running; `writer` who last wrote the tables of
each step; `cases` the leases with a debt case. `request` and `task` are program
counters: an API request goes on after it has enqueued its job, so both run.

| Code | Model |
|---|---|
| `triggerSync`, `enqueue…` | `RequestLoad`, `RequestConflict`, `RequestLock`, `RequestFail`, `RequestEnqueue`, `RequestMark` |
| the worker (external) | `TakeJob`, `Release`, the retry in `TaskThrew`, `Crash` |
| `runHourlyMaintenance`, `runDailyFullSync` | `MaintList`, `MaintLock`, `MaintSkip`, `SyncThrew`, `Release` twice on failure |
| `runSync` | `SyncCheck`, `SyncCreate`, `SyncStep`, `SyncConnected`, `SyncComplete`, and `SyncError`, `SyncClose` for its catch block |
| `runSyncFullFlow` | `FlowSyncError`, `Refresh`, `BuildNewCases`, `FlowConnected` |
| `updateStatus`, `create` on a disabled connection | `UpdateStatus` |

`SyncSlot` is the promise of `docs/PMS_SYNC_CANON.md`: one active sync, and only
it writes the tables. `PmsSync` implements it (`OneSyncAtATime`, by
`slot <- active`), which does not rest on the lock: the lock expires, is dropped
by those who do not hold it, and is taken without regard to the row.

Runs.

- `sync_any` (a full flow and a daily maintenance, with every fault, retry,
  expiry, crash and change of status) checks the types, that whoever is in the
  middle of a sync owns the row, and the refinement.
- `sync_live`: lock and row become free again and again while processes stay up.

Bounds: one request, one or two maintenance tasks, one lease; a run
looks at the kinds of task named in `MCKind`. Steps are the real four.

Fairness in `sync_live`: weak fairness of the expiry (Redis), of the worker
taking jobs, and of each task's next step; none of failures.

Not modelled here: what a step upserts (`PmsLedger`, section 9, has it), the
cursors, deletion of a connection, and a server without Redis, where
`acquireLock` lets everyone through and nothing can be enqueued.

## 6. The payment portal (`PaymentLink`)

The links of one case, the sessions they open, the disputes and the proofs a
debtor adds. A request is loaded with `Load` or `Enter` (a session), and each
write after an await is a step: `Expire`, `Click`, `Block`, `Count`, `Wrong`,
`Verified`, `SignSession`, `RecordCode`, `LookForOpen`, `OpenDispute`,
`FindDispute`, `AttachEvidence`, `StoreProof`; `Fail` ends it between any two.
`ResolveFind` and `ResolveCreate` are the resolver that the senders call. What a
debtor types matches or does not, nondeterministically; `matched` is history.

`portal` checks that a link is verified, and a session signed, only after a match
that counts (`VerifiedNeedsMatch`), that tries exceed their limit by the other
requests under way at most (`TriesBounded`), that a closed link is changed only by
a request that had loaded it open (`ClosedStays`), and that a key of evidence is
lost only to a request that had loaded the dispute before (`EvidenceKept`). The
last three state exactly what the missing locks allow.

Bounds: one link, two requests, two tries in place of five, two files, lists of one
file, three wrong codes. Two requests are what a lost update needs; a third repeats it.

## 7. The voice engines (`VoicePipeline`, `RealtimeVoice`, `VoiceStream`)

One call. In the pipeline, `stt` is the chain of transcriptions, `buffer` and `timer`
what waits for the end of the utterance, `llm` the answers under way, `queue`, `synth`
and `playing` the synthesis, `sends` the chain that writes frames, `gen` the generation
a barge-in increments. A handler runs to its next `await`; any other may run then. The
realtime engine is a relay: `waiting` holds the caller's audio until OpenAI's socket is
open, `text` holds the pieces of a response's text, `transcript` its entries, and `cut` is
history: the response that the end of the call fell into. That response alone may be in two
entries: `finalize` flushes what has come of it, and `response.done` the rest, while the
summary is awaited.

| Code | Model |
|---|---|
| `handleAudioFrame` | `Speak`, `BargeIn`, `ChunkFull`, `Silence` |
| `enqueueTranscription`, `finalizeUserUtterance`, its timer | `Transcribed`, `TranscriptionLost`, `EndUtterance`, `TimerFires` |
| `handleAssistantResponse`, `queueTts`, `processTtsQueue`, `sendAudioToTwilio` | `Respond`, `Write`, `Synthesised`, `SendFrame` |
| `finalize` | `Finalize`, `Summarised` (and `Saved`) |
| the realtime engine's sockets | `Open`, `Lose`, `Speaking`, `UserSaid`, `Answer`, `TextDelta`, `AudioDelta`, `Answered`, `Media` |

`voice` checks that words enter the transcript once and in order, through either engine,
and so do the pieces of the responses (`OrderKept`); that words or text never wait with nobody to take them (`NobodyWaits`);
that nothing that was to be said before a barge-in is sent after it, and that the realtime
engine leaves Twilio nothing to play while the caller speaks (`NothingStaleAired`); and that transcribed words become an utterance whatever fails
(`WordsSettle`).

Fairness: of the chain of transcriptions and of timers only, whose tasks end because
every request to the model has an answer, an error or a timeout; a promise chain runs
its next task when one ends. Nothing else needs to be fair.

Bounds: two chunks of speech, three of text, one barge-in, two frames a chunk, three
chunks of audio of which two may wait, two responses in three pieces. An order needs two, a barge-in
needs text before, under way and after it.

## 8. The back office (`BackOffice`)

- `Accounts`: the accounts of Cognito (external, modelled by what the code asks of it), a
  password and a social one for each address, `users` rows and sessions. `register` is
  `BeginRegister` (or `BeginRegisterUnseen`, when the look fails and the sign-up goes on)
  and `SignUp`; `ensureUserFromAuth` is `EnsureFind`, `EnsureCreate`, `EnsureFill`;
  `updateProfile` is `BeginUpdateMe` and `UpdateMe`; `Me`, `Confirm`, `Login`,
  `OauthCallback`, `Logout`. The identity of a request has an address here, that of the id
  token.
- `Memberships`: tenants, membership rows, invitations. Every request reads and
  decides in a `Begin…` step and writes in another; the owner who leaves has a third,
  `PickReplacement`. `Lapse` and `Expire` are the invitation's end and its record. An
  identity without an address (an access token alone, `auth-identity.js:26`) is not compared
  with that of the invitation: whoever holds the link accepts. `ENFORCE_SINGLE_TENANT` is
  taken to be on.
- `ImportBatch`: `Upload`, `BeginProcess`, `Claim`, `ReadSheet`, then for each row
  `FindDebtor`, `WriteRow` or `RollBack`, and `Finish` or `Fatal`; `Crash` at any point.
- `CaseBoard`: `getCases` with `findCaseStates` and `countCaseStates`,
  `getOverviewData` and `getSummary` as operators over the rows; `bulkByFilters` as
  `BulkFind`, `BulkWrite`, `BulkClose`, `BulkLog` and `BulkStops`. `Approve`, `Refuse` and
  `Close` (or `CloseFails`) of one case, `pause`, `resume` and `Dispute` run in between. A
  filter that names IN_DISPUTE is an error (`QueryFails`, section 10).
- `Activity`: the feed (`findEvents`, `groupsByCase`, `groupsByDay`) and the timeline
  (`getCaseTimeline`) as operators over the events and the calls.

`back_office` checks that an address gets no second row or account (`OneAccountEach`),
that a tenant keeps one active owner (`OwnerKept`) and nobody becomes active in two
(`OneTenantEach`), that a batch says what became of its rows (`BatchTellsAll`) and its
end stays (`Ended`), that what is shown adds up (`ViewsAddUp`) and that an enrolment is
closed just when its case was refused (`ClosedMeansRefused`). Nothing is locked, so none
of these holds without exception, and each says what may break it:

- `OneAccountEach`: a request that decided before another write, or after a look that failed.
- `OwnerKept`: a request that decided before another write.
- `OneTenantEach`: for a second tenant, such a request, or `updateMember`, which has no
  single-tenant rule; for coming back from disabled, `updateMember`, or an invitation that
  another user accepted, or that was made, or let somebody in, out of such a request.
- `BatchTellsAll`, `Ended`: two requests that claimed one batch; and rows that share an
  identifier.
- `ViewsAddUp`: rejected cases and paused enrolments are on no tab but that of disputes; a
  list of approved cases hides those in dispute, which its total counts.
- `ClosedMeansRefused`: an approval, by hand or by a bulk, of a case that is closed or half
  refused; a refusal under a bulk that approves; a pause or a resume of a closed case, which
  writes the status whatever it was; a second write that fails. `overridden` is the history
  of these.

What an exception names is not caught by the property. It pins down that these orders are
the only ones: a step outside them that broke the rule would be found.

Bounds: one address with its two accounts, two tenants, users and invitations (of one
role), two requests; sheets of up to two rows with one address and one telephone, two
workers; two cases of two ages, four sets of statuses and three acts of the people who
decide (`MaxActs`); three events on two days of one call. Two of each are what an overlap or a mix-up needs. Tenants, users, invitations,
requests and cases are symmetric.

## 9. The collection flow (`CollectionFlow`)

- `PmsLedger`: the PMS (external: property, leases, charges, payments as the mapper of
  the connector reads them) changes between syncs; a sync runs `syncDebtorsAndLeases`,
  `syncCharges`, `syncPayments` and `computeBalancesAndAging`, all of them or the last
  two, each in its transaction, and `StepFails` ends it before any. The lists are of the day
  of the fetch (`fetched`), which dates the balances that are given, and midnight may come
  before any step, which dates the aging. `done` is history: the steps that ran since
  something they read changed, and `crossed` the days that a sync over midnight left uneven.
- `Strategies`: `BeginSave` and `EndSave` are a request that creates or updates a stage,
  `BeginDelete` and `EndDelete` one that deletes the strategy, and `SaveStage`,
  `DeleteStage`, `Enroll`, `Recompute`, `Happens` run whole in between. Ranges may begin
  before the due date (negative days); a case has no negative days, as neither the import
  nor the sync gives it any.
- `Delivery`: one message. A sender goes through its steps (`Skip`, `Proceed`, `Queue`,
  `Accept` or `Refuse`, `RecordSent`, `Throw`, `RecordFailed`, `Crash`); the provider goes
  on by itself (`Progress`), and its reports come late, twice or overtaken (`Reportable`,
  `TakeReport`, `WriteReport`), as do the clicks on the link and the previews of it
  (`TakeClick`, `WriteClick`), which share one list and have a counter each. A status the
  code has no name for (`other`, such as canceled) is written as it is.

`collection_flow` checks the types; that the total of a day is the sum of what its leases owe, that what a
lease owes is in the balances of its day but for the days of a sync over midnight, and that
the risk is that of the newest aging row (`LedgerAddsUp`); and that after a round of all
steps with lists of the day the tables have what the PMS lists, and no case is taken for
younger than its oldest unpaid charge (`SyncedIsListed`).

It also checks that a case is given a stage that covers its days when there
is one, stages do not overlap and a deleted strategy had no past, unless two requests crossed
(`StagesFit`); that failed is said only of what was not delivered, unless something failed
after the provider's yes, and that every click and every preview is counted and listed up to
the limit, unless two requests crossed (`DeliveryTold`); and that a final status is taken
back only by a report that is older than one already written or of a status without a name,
or after such a failure (`FinalStays`).

Bounds: two leases, a charge of one unit 30 days old, a balance of two units or none, a
payment, two days, one change of the PMS; two stages over three days, of which one is before
the due date; a list of one event and two events of the link, two requests of the provider.
The run begins from leases that the PMS lists alike and charges that are open
(`MCCollectionFlow`): the one change tells the leases apart, or closes the charge. The age
makes the charge cross a bucket on the second day, the given balance differs from the
computed one, and the list overflows. The theorems have neither bounds nor this choice.

## 10. Differences seen while modelling

The run `engine_dispute` shows a difference between what a document or a comment says
and what the code does; `PROJECT.json` quotes it under `findings`. The following ones
were met in the same way; no run repeats them.

- **Two agreements.** `createPaymentAgreementFromTool` looks for an agreement of the
  interaction and creates one awaits later (`eleven.service.js:1870`), and no unique index
  covers it: two requests at once make two, though `docs/voice-fsm.md:43` says "Agreement
  tool is idempotent by `interaction_id`." `AgreementOnce` is checked for one request at
  a time.
- **A lock dropped twice.** A maintenance task that fails releases the lock in its
  `finally` block and again in the `catch` block of the loop
  (`automation-hourly-maintenance.service.js:89`), the second time perhaps that of another
  task; `pms-sync-lock.js:2` says it "Prevents concurrent sync/refresh/build".
- **Builds that find nothing.** The balances are read with `raw: true`, and the map is
  keyed by `b.pms_lease_id`, which such rows do not have (`case-build.service.js:55`); line
  2 says "Creates debt_cases for leases with balance that don't exist yet."
- **Paid charges stay open.** A paid charge leaves the export and is never written again,
  so it stays open in `ar_charges` and keeps the days past due and the risk of its lease,
  though `case-build.service.js:23` counts "from oldest unpaid charge". `NoCaseTooYoung`
  therefore has one direction only.
- **Proofs forgotten.** The agreement is loaded with its id alone (`pay.service.js:729`), so
  a new proof is merged with nothing and replaces the earlier ones.
- **Active in two tenants.** `updateMember` sets a member active without the single-tenant
  rule (`membership.service.js:318`). Inviting again returns a pending invitation, even one
  that has expired, without sending it.
- **Excluded and approved.** `bulkByFilters` told to approve what a filter naming EXCLUDED
  lists approves cases whose enrolment is closed, and it ignores the search text. A filter of
  APPROVED and EXCLUDED hides excluded cases in dispute while the total counts them, and
  the dispute filter is applied after the limit.
- **Paused cases on no tab.** `pause` and `resume` (`case.service.js:73`) write the status of
  an enrolment whatever it was, so a resumed case that was excluded is enrolled again; and
  the tabs ask for active or closed enrolments (`automation.repository.js:252`), so a paused
  one is listed on none, though the overview's total counts it.
- **A filter the database refuses.** IN_DISPUTE adds a literal on `"debt_cases"."id"`
  (`automation.repository.js:179` and `:310`), where the query calls the table `debtCase`.
- **An invitation for whoever has the link.** `acceptInvitation` compares addresses only when
  the identity has one (`membership.service.js:250`).
- **A sync over midnight.** A given balance has the day of the fetch
  (`rentvine.mapper.js:140`), the aging that of the last step (`sync-runner.service.js:521`): the
  new day has aging rows without balances until the next sync.
- **Filters that show everything.** A status or outcome that maps to no event type
  (`automation.service.js:525`) filters nothing.
- **Small ones.** An import writes null identifiers over those a debtor had; a computed
  balance of zero leaves an earlier row of the day (`sync-runner.service.js:583`); the
  portfolio snapshot of a day is not rewritten once nobody owes; payments are attributed to
  the current lease of their unit; `updateStage` checks a null maximum as the old one.
- **Starved rows.** The tick reads a page of 100 without ORDER BY
  (`collection-tick.service.js:109`), and rows held back by approval, cooldown,
  promise or budget keep matching: with more matching rows than a page holds, an
  eligible row may never be read, although the comment at line 60 says "process
  all active automations and their due cases". `engine_live` is therefore
  restricted to a page that takes every due row.
- **Several automations for a case.** `enroll()` looks for a row of the case in
  its own automation only (`automation.service.js:811`);
  `docs/CASE_APPROVAL_AND_DISPUTES.md:27` says "un case puede estar en un solo
  automation a la vez". The second enrolment writes the status its automation
  resolves to (line 820), so an approved case goes back to PENDING_APPROVAL and a
  refused one may become approved; line 25 of the document says "Un case aprobado
  está aprobado globalmente."
- **Negotiated status.** `syncInteractionFromPostCall` decides on the case status
  it loaded before it wrote the interaction (`eleven.service.js:1776`): when the
  agreement tool writes PAYMENT_PLAN in between, the webhook writes REFUSED over
  it, despite "Keep payment statuses when already negotiated." (line 1442).
- **Registering again.** A repeated voice webhook writes a `call_state` of the
  state and two stamps (`eleven.service.js:1694`) and drops the slots, the
  proposals and the state to resume; line 715 says "do not clobber a successful
  first leg".
- **Syncing for ever.** `triggerSync` writes the status after it enqueues the job
  (`property-managers.service.js:282`); a worker that is done by then is
  overwritten with `syncing`, and every later request is refused at line 262.
- **Disabled comes back.** `runSync` and `triggerSync` write the status whatever
  it has become (`sync-runner.service.js:881`); the swagger
  (`property-managers.swagger.js:119`) says a disabled connection "will no longer
  appear as connected in the UI".
- **Row left by a crash.** The `sync_runs` row of a worker that died stays
  `running`, and `runSync` refuses every later sync (`sync-runner.service.js:739`);
  only the lock has a time to live, "safety if worker crashes"
  (`pms-sync-lock.js:8`). `sync_live` is therefore restricted to processes that
  stay up.

## 11. Proofs

TLAPS checks every theorem for every value of the constants that satisfies the
assumptions named in the modules. Most of these say that the null value is none of
the rows, and that limits are numbers; the others are that the requests under way, and
the leases, charges and payments of a ledger and the cases of a board are finitely many,
and that there is an address. Unless it says otherwise, a theorem needs nothing more.

An invariant of a run is seldom inductive: it speaks of the tables, and a request that
has read them and not yet written can break it. The strengthening says, in each module,
what such a request still carries and how that relates to the tables now.

**The engine** (`CollectionEngineProofs`).
- `TypeCorrect`; `LateBound`, by an invariant that ties the counter of each tick slot to
  the set of rows the tick has still to visit (a row leaves the set when it is
  dispatched, so it is counted once).
- `ReviewBound`, when every automation requires approval, by an invariant on what
  enrolments under way have read.
- `RefusalIsKept`, for one automation and one `enroll()` at a time, without which it is
  false (section 10): `EnrollInv` says that what the `enroll()` under way is about to
  create has no row yet.

**The dialog** (`CallDialogProofs`).
- `DialogTypeCorrect`; `AgreementNeedsIdentity`, by `IdentityInv`: the stored dialog and
  every loaded copy beyond the identity states carry a confirmed identity, which a stale
  copy written back cannot lose; `ReopenedByStaleOnly`.
- `DisputeStays`, `InterruptionResumes` and `AgreedTermsReadBack` go the same way:
  `Loaded(S)` says that the stored dialog and every copy belong to a set `S`, and what
  remains is that a step of the dialog keeps `S`. The last two assume that Twilio asks
  for the voice URL once; a repeated webhook replaces the dialog (section 10).
- `OneAgreement`, for agreement requests that come one at a time (section 10): a request
  that has passed its look found no agreement, and none is made until it writes.

**The sync** (`PmsSyncProofs`): `SyncTypeCorrect` (a queued job has an attempt left);
`RowOwned`, inductive as it stands over the types; `OneSync`, the refinement: every step
of a task maps to a step of `SyncSlot` or to a stutter, by `SyncOwnsRow`.

**The portal** (`PaymentLinkProofs`): `PortalTypeCorrect`; `OnlyMatchVerifies`, since a
request past the comparison has matched; `TriesStayBounded`, as a request about to count
found the link below its limit: the comparisons made and those requests together stay
within the limit and the other requests under way; `ClosedLinkStays` and `EvidenceStays`,
which show that what undoes a row is a request that loaded an older one.

**The voice engines** (`VoiceStreamProofs`): `StreamTypeCorrect`; `StreamKeepsOrder`, by
`WordsInv` (the words of the transcript come before those of the buffer, and these
before the chain of transcriptions), `AudioInv` (what was relayed and what waits are
one increasing sequence, with gaps at what was dropped) and `TurnsInv` (what the buffer
holds is of the newest response and later than every entry, and is of a response that an
entry has only after the end of the call fell into it); `NothingLeftWaiting`;
`StaleNeverAired`, as text is born in the generation of its queue and no voice is of a
generation to come, and by `LineInv` for the realtime engine (Twilio plays only a stream
that is known, and so can be cleared).

**The back office** (`BackOfficeProofs`). A step is one of its
part or leaves the part alone (`PartSteps`), so that each part has its own invariant.
- `OneAccountKept`: `Fresh`, what a request that was not overtaken decided by is still so.
- `OwnerStays`, `OneTenantKept`: `MemberInv`, the same for requests on memberships, each
  with what it asked for (`Asked`, `StillTrue`), and that nobody is a member and invited, or
  invited twice, but after a race or the acceptance of another's invitation (`RowsInv`).
- `BatchTells`, `EndStands`: `SoleWorker`, a batch that one request claimed has one worker;
  `AtWork`, each row that worker has passed has its case, or was refused.
- `ClosedStaysRefused`: `BoardInv`, a case is settled, or overridden, or one of those a bulk
  or a manager is still at work on, and then it is as far as they have come.
- `ViewsShowAll`, of two halves. `BoardShowsAll`: the clauses that list and those that count
  let the same rows through (`CountsWhatItLists`), the tabs and the rest are parts of the
  cases, and the stages are parts of the active enrolments. `FeedShowsAll`: `ActivityInv` (an
  event has the number of its place), so that what is found is found once (`FoundOnce`) and
  the groups count it (`CountedBy`); and the events before a call come before those after it
  in the feed too (`EntriesOfParts`).
- `BackOfficeTypeCorrect`.

**The collection flow** (`CollectionFlowProofs`), again one invariant for each part.
- `StagesStayFit`: `StageInv`, active stages share no day unless two saves crossed, and a
  strategy under deletion has no past. That a case gets a stage that covers its days rests
  on the least and the greatest start of the stages.
- `DeliveryIsTold`, `FinalStaysSo`: `SenderInv` (what the row says at each step of the
  sender), `ReportInv` (reports under way are no later than the provider's) and `ClickInv`
  (a request that was not overtaken holds the row as it is, with the counters of clicks and
  previews and the list of both).
- `LedgerIsTrue`, `SyncBringsAll`: `LedgerInv`, each step that ran since its sources last
  changed has brought what they hold (`LeasesIn`, `ChargesIn`, `BalancesIn`), a day's
  totals are of a day that has come (`Dated`), the totals are sums of what is owed, and what
  is owed on a day is in its balances unless the day is `crossed`.
- `FlowTypeCorrect`.

`SumTheorems` has what the ledger, the board and the feed need of finite sets of numbers: a
least and a greatest one, that a sum is a number and the sizes of disjoint parts add up to
that of the whole (`CountByParts`, `CountByKey`), and that ranks have no gap (`PlaceNumbers`): the
log is filtered by the places of what is let through, in the order of their ranks, as the
prover has neither the definition of `SelectSeq` nor a fact about it. As the library's
induction theorems take an operator, these go by a smallest counterexample. TLC checked
`LedgerInv`, `DeliveryInv` and `StageInv` on the run before they were proved.

Only model-checked: liveness (`EveryEligibleRowDispatched`, `FreeAgain`, `WordsSettle`),
which is out of the prover's reach.

## Not modelled

The pacing rules of a dispatch (time windows, attempts a week, cooldown, promises): the
engine takes a row as ready, held or waiting. What the classifier and the extractor make
of words, wording, templates, codecs, prompts: data. Credentials, cursors and the deletion
of a connection. Flow policies: a single creation with the overlap check that
`Strategies` has for stages. Billing, catalogue, branding, discovery, dashboard,
analytics, payment channels, the back office lists, debt cases and debtors: rows with a
CRUD and reads. The worker is another program. `PROJECT.json` gives the reason for each part.

## 12. Running

    tlc -workers 2 -config MCSyncAny.cfg MCPmsSync
    tlapm PmsSyncProofs.tla

Each run's module, configuration and properties are in `PROJECT.json`, with the
source lines each definition stands for and, for each property of a passing
run, a mutant of the code under which TLC finds it violated.
