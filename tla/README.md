# Verification of LeadDataScraper

LeadDataScraper collects leads (uploads, Google Maps, audits, LLM enrichment) and
mails them in sequences through Instantly. This directory holds TLA+ modules for
the parts of the program in which several tasks, threads or processes change
shared rows and counters at the same time, the TLC configurations that check them
on small instances, and proofs checked by TLAPS. Paths below are relative to the
root of the repository; file names without a directory are under `src/`.

## 1. Inventory

| Component | State it keeps | Operations | Talks to |
|---|---|---|---|
| Outreach tables (`src/repositories/campaign_message_repo.py`, `supabase_schema.sql`) | `campaign_messages`, `suppressions`, `webhook_events` | conditional UPDATEs and INSERTs, one PostgREST call each, never a transaction over two of them | every process below |
| Dispatch tick (`src/workers/dispatch_tick.py`) | rows claimed in memory, `leads_payload`, `message_ids` | sweep stale claims, claim a batch, read, recheck suppressions, build, POST, reconcile errors | tables, Instantly |
| Instantly dispatcher (`src/integrations/instantly_sender.py`) | none that the tick uses | `push_leads` | Instantly |
| Webhook endpoint and its background tasks (`backend/main.py`) | one `webhook_events` row per event | record, answer, then handle `email_sent`, `email_bounced`, `lead_unsubscribed`, `reply_received` | tables, sequence advancer |
| Webhook sweeper (`src/workers/webhook_sweeper.py`) | the result of one SELECT | run the handler of every event left unprocessed after 60 s | tables, the handlers |
| Sequence advancer (`src/services/sequence_advancer.py`) | none | decide the branch and insert the row of the next step | tables |
| Thread builder, send window, templates, variants | none | pure decisions on one row, made inside the build loop | - |
| Task orchestrator, parallel auditor (`src/core/`) | `orchestration_jobs` rows, checkpoints, `_active_auditors`, detached tasks | launch, join, work off chunks of leads, discover, stop, recover | `leads`, scrapers, stats cache |
| Gemini budget (`src/utils/gemini_budget.py`, `gemini_call.py`) | tokens by date in a SQLite file, a lock per process | debit before a call, reconcile after it | every call of an LLM |
| Callers of the LLM (`src/core/agentic_router.py`, `src/processors/`, `enrichment_engine.py`) | the step of a request | route, query, draft, analyse, parse, map | Gemini budget, endpoints |
| Leads and who reads them (`supabase_helper.py`, `backend/main.py`, `frontend/app/page.tsx`) | `leads`, the cursor of each reader | upsert, page, export, poll, load more, delete | uploads, jobs, dashboard |
| Stats cache (`src/utils/stats_cache.py`) | payload with its time to live | get, rebuild, invalidate | `/stats` and the writers of leads |
| Uploads, campaigns, erasure, unsubscription (`csv_helper.py`, `backend/main.py`) | `leads`, `campaigns`, `campaign_messages`, `suppressions`, `account_deletions` | import, create, generate, start, pause, erase, unsubscribe | tables |
| Send window (`src/utils/send_window.py`) | none | is it open, when is it next | sequence advancer, dispatch tick |
| E-mail senders, templates, variants, logging, guards | none | I/O and pure text | outside services |

Where the difficulty is:

- **Concurrency without transactions.** Render starts a dispatch tick every five
  minutes and a sweeper every two (`render.yaml:62`, `:110`); every webhook runs
  as a background task of the API. They share rows and coordinate only by the
  WHERE clause of each statement, the partial UNIQUE index on
  (lead, sequence, step) and the UNIQUE key of `webhook_events`.
- **Two writers of one fact.** Whether a mail was sent is known to Instantly; the
  database learns it from `email_sent`, which can be late, lost after the 200,
  repeated, or handled after the reply to the mail.
- **Errors that look like data.** The repositories catch exceptions and answer
  "no row", "nothing found" or "nobody suppressed".
- **Crashes anywhere**: a tick between claim and POST, or after the POST; a
  background task after the 200; the sweeper between two events.

- **Detached tasks that share a row.** A launch without a list of leads joins any
  running job with a second worker; stops, discoveries and failures write the same
  `status`, unconditionally; the process may be redeployed under them.
- **Reads that are used later.** A worker writes back whole rows it fetched minutes
  before, a build of `/stats` stores what it read before an invalidation, a page
  is cut from a list that changes between two pages, and the budget reads the date
  before it has the lock.
- **Sequences of statements without a transaction**: the erasure of an account, the
  generation of messages, an unsubscription.

What makes the engine correct: a row is in one tick's hands at a time; a text is
mailed once; the id on a mail is that of the row whose text it has; what an
event confirmed or ended stays so; a follow-up has a cause; a reply or an
opt-out ends what it should end; a suppressed lead is not mailed; the queue
drains and every recorded event is processed. Of the rest: a job ends and is
never left without a worker; a stop is not lost; the daily ceiling holds and all
spending is counted; a question, a draft or a strategy whose call was refused says
so; an export lists once every lead that stayed where it was; a stale payload has a
cause; a letter keeps the address it was written for; an erasure and an
unsubscription answer what is so; a row is sent in its window.

`PROJECT.json` lists every component and, under `hazards`, where each of these
difficulties bites in the code, with the properties that watch it.

## 2. Modules

    OutreachTables                                LeadJobs            DailyCeiling
      |           \                                |      \              ^ implemented by
    DispatchTick   InstantlyWebhooks    MCLeadJobs   JobProofs       GeminiBudget
             \     /                                                      |
             Outreach  implements MessageLifecycle                    AiRequests
             /      \                                                /       \
    MCOutreach       OutreachProofs -> ConfirmationProofs   MCAiRequests  BudgetProofs
                         -> MailingProofs

    LeadTable -> LeadPages  \             CsvImport -> Campaigns -> MCCampaigns
              -> StatsCache -> Console                           -> CampaignProofs
                               /     \    SendWindow -> MCSendWindow
                        MCConsole   CacheProofs       -> WindowProofs

The parts share tables of the database but not, in the modules, variables: what
one part does to a table that another reads is an action of the reader's module
(`EraseJobs` and `EraseLeads` of `LeadJobs`, `WorkerFetches` and `WorkerWrites`
of `Console`, `FetchChunk` and `WriteBack` of `Campaigns`). A module of one process is about that process: two
steps of the event loop interleave only where the code awaits.

### The outreach engine

**OutreachTables.** `msgs`, `suppressions` and, external, `mail`: what Instantly
accepted, by provider id, with the row whose text it is (`body`) and the
`lds_message_id` it carries (`tag`). One operator per statement takes the table
and returns it updated; each has the statement's WHERE clause. `Occupied` is the
partial UNIQUE index: cancelled rows are not in it. Rows of status `absent` do
not exist. Timestamps are reduced to the two comparisons made with them: `sched`
(`scheduled_at <= now`) and `stale` (`dispatched_at` older than the claim
timeout). The texts, addresses and template data of a row are left out.

**DispatchTick.** A member of `Ticks` is a cron invocation; `tick[t]` is what it
has in memory. One action per round trip, in the order of `_run_tick`:

| Action | Code |
|---|---|
| `TickSweep` | step 1, `sweep_stale_claims`, errors swallowed |
| `TickSelect`, `TickClaim` | the two phases of `claim_due_batch`: SELECT ids, then the conditional UPDATE that returns the rows it flipped |
| `TickFetch` | step 3, four `fetch_many`; a read that fails is empty. Prior messages are looked up by `campaign_messages.id` |
| `TickRecheck` | step 4, `filter_suppressed`, fails open |
| `TickBuild` | step 5, one row at a time: fail, cancel, postpone or append the payload and overwrite `message_ids[lead]` |
| `ProviderAccept`, `ProviderReject` | Instantly consumes the entries of the POST |
| `TickResponse`, `TickHttpError`, `TickTransportError` | the outcomes of `push_leads` |
| `TickMarkFailed` | step 7, `mark_send_failed` per error |
| `TickStop` | the process dies, a runtime cap returns early, or `push_leads` raises |

**InstantlyWebhooks.** `ProviderEvent` is what Instantly has to report on an
accepted mail, `Deliver` and `DeliverFails` the endpoint: the event is recorded
(or found recorded) and a background task scheduled, or the call is answered
500. `HandleMark`, `HandleLookup`, `HandleCount`, `HandleSuppress`,
`HandleCancel`, `HandleAdvance` and `HandleStamp` are the round trips of a
handler, in the order of the four handlers of `backend/main.py`; `handler[h].row`
and `rowPid` are what the handler read and may be stale when it uses them.
A read of `HandleAdvance` that fails is found empty or, in `get_by_index`, ends the
handler: the event is stamped as an error or left to the sweeper, as the exception
decides. `HandlerCrash` ends a task anywhere. `SweepSelect` and `SweepNext` are the
sweeper: one SELECT, then every selected event without a second look. The
sweeper's LIMIT is left out: the instances have fewer events than it.

**Outreach** composes them, adds the passage of time (`BecomeDue`,
`BecomeStale`, `GraceEnds`) and states fairness and properties. **MCOutreach**
holds the enrolments a `.cfg` cannot write and the symmetry.

**MessageLifecycle** is what the table promises, without ticks, tasks, mails and
faults: the "State-machine matrix" of `campaign_message_repo.py` with the
dispatch queue and the UNIQUE index added. A message waits, is taken, is given
back or given up; it is confirmed once, by an id of its own; from then on a
bounce, a reply or an opt-out moves it, one message at a time; a step is
inserted where its key is free. `Outreach!LifecycleSpec` maps it to
`campaign_messages`: a row that is `failed`, or `bounced` without an id, was
given up. The matrix of the docstring starts at `pending`; in the code
`mark_sent` confirms a row wherever it is, so `Confirm` does as well.

### Faults of the engine

A fault is a step guarded by `Fault(k)`: its kind must be in `FaultKinds`, and at
most `MaxFaults` happen in a behaviour.

| Kind | What happens |
|---|---|
| `kill` | a tick ends where it stands |
| `crash` | a background task or the sweeper ends where it stands |
| `db` | a database call fails; where the code cannot tell, its effect may or may not have been committed |
| `reject`, `http`, `transport` | Instantly refuses an entry; answers with an error status; the connection breaks, whatever was consumed |
| `late` | the `email_sent` of an accepted mail is not handled before the claim times out (15 min) |
| `slow` | a task is still at work when the sweeper's grace (60 s) is over |
| `duplicate` | an event answered 200 is delivered again |
| `reorder` | other events of a mail are delivered before its `email_sent` is handled |

### Jobs

**LeadJobs** is `TaskOrchestrator` with `ParallelAuditor`. `launch[o]` holds
`_job_lock` of orchestrator `o` while a thread looks for a running job or inserts
one; `worker[w]` is a detached task of `_process_in_chunks` or
`_process_discovery`. The code between two yields is one action:

| Action | Code |
|---|---|
| `FindRunningJob`, `InsertJob`, `SpawnWorker` | `run_massive_pipeline`, round trip by round trip, up to `asyncio.create_task` |
| `StartWorker`, `NextChunk` | from the start, or from the sleep, over the check for a stop and `_fetch_chunk` to the next gather, or out of the loop |
| `FinishChunk` | the gather returns, the rows are upserted, the failures counted, the count written: up to the sleep, or out by the failed batches |
| `WorkerFails` | a database call of these raises |
| `RunDiscoveryJob`, `StartDiscovery`, `FinishDiscovery`, `DiscoveryFails` | `run_discovery_job`, `_process_discovery` behind its semaphore |
| `StopJob`, `StopAll` | `stop_job` with the auditor it finds, `/audit/stop` |
| `ClearLeads`, `EraseJobs`, `EraseLeads` | `/leads/clear`, and the two statements of the erasure that concern jobs |
| `Restart`, `HealZombies` | the next process recovers; the daily script fails what it finds abandoned |

"app" is the orchestrator that the endpoints share; "execute" is the one that
the agentic router makes for each plan, whose auditors and semaphore nothing else
can reach. One launch of the router at a time is modelled. What happens to a lead
is an outcome from the set that the code allows: done, failed, or cancelled if
the auditor was told to stop before one of its checks.

### The budget

**GeminiBudget**: `Guard` reads the date, `Check` and `Debit` are the SELECT and the
UPDATE of `check_budget` under the lock, `Answer` and `Record` are the answer and
`record_usage`, `CallFails` an exception of the SDK. `Midnight` and `Kill` may come
anywhere. **DailyCeiling** is what is promised: tokens are admitted for a day only
while they fit, and later only added. `AiRequests!DailySpec` maps it to the
counter: admitted is the counter less what reconciliations have added.
**AiRequests** has the requests that call Gemini, one action for each function
that decides what becomes of the outcome of a call. The kinds in `Reporting` answer
with it; those in `Silent` (audits, hunts and enrichments, of a job or asked for
through `/execute`, and uploads) answer that they are done, whatever came of it.

### The console

**LeadTable** is `leads` as readers meet it: keys and `created_at`; uploads and
discoveries, which leave the `created_at` of an existing row alone; and the
workers, which fetch whole rows (`held`) and write them back later as they were,
so that a lead deleted meanwhile returns, and one uploaded again moves back to its
old time. **LeadPages** are the export (`_stream_leads_csv`) and the dashboard
(`fetchLeads`, `loadMoreLeads`), both over `list_leads_recent`, with histories of the
leads that were there all along (`stayed`) and that no worker moved (`steady`);
`CursorKeys` and `FilterKeys` are the keys that the cursor's pattern and the
PostgREST filter let pass.
**StatsCache** is the cache of `/stats`. **Console** composes them with the writers:
an upload, which invalidates in a later step, discoveries, workers, the two
deletions of all leads. `reader` is chosen in `Init`: the export, the
dashboard and the requests for `/stats` neither read nor write each other's
state, so a behaviour that has one of them loses nothing.

### Uploads, campaigns, erasure, unsubscription

**CsvImport** is what a file makes of the table: the keys that
`load_csv_with_unique_key` gives its rows before the AI mapper has renamed the
columns, the address that is left when `_coalesce_duplicate_columns` has merged two
columns that the mapper calls `email`, and the upsert. A file is its rows, each with
a cell for every column of `Columns`, and the order of its two address columns.
All keys are strings of one column, as in the code, whether a file has brought
them (`/export/download` writes `unique_key`) or they are made; how they are put
together is a constant, and `MCCampaigns` concatenates. **Campaigns** has the
uploads, workers that fetch rows and write them back later (`held`), with an address
if one was missing and found, the campaign endpoints, the erasure statement
by statement (`called` separates the statement, made in a thread, from the
event loop's next step), the deletion of demo leads and the unsubscription. The
endpoints that call the database synchronously block the event loop: steps of
the loop carry the guard `gen.pc = "idle"`, threads do not.

### Send windows

**SendWindow** is `send_window.py` as functions of a time in slots, with the row
that the advancer schedules and the ticks that send or defer it.

Operators commented `Mutant:` are plausible bugs of the code next to the
definition they change; each property is violated under one of them.

## 3. Runs

Bounds of the engine. `MsgIds` and `Pids` bound the rows and the accepted mails; an
INSERT without a free row, and a POST without a free id, do not happen (a POST then
ends like a killed tick). Each instance has a row for every step of every
sequence, and usually one more for a step that is inserted again. `MaxFaults`
is one or two: every violation found needs one, and the passing runs have two
wherever two faults can combine. `BatchSize` is 1 or 2, so a batch can be cut
and can hold two rows. Symmetry permutes ticks and tasks, and is not used in
the liveness runs.

Bounds of the rest. Two jobs and two workers let a job be joined, replaced or
stopped while another runs; chunks of one of two leads make every job need two
chunks, or two retries, to end. Two requests at once with a ceiling of 4 fill,
refuse and overrun the budget, and `Amounts` go below, to and above every
estimate; a midnight and a death come anywhere. Three leads on pages of one row
make two page boundaries, one of them between leads of one `created_at`; a worker
fetches the lead that an upload can bring back alone. Four files (a website with two
addresses; the same lead exported and its address replaced; a website alone; a file whose second row has no key, which is refused), one
worker, campaign, generation, purge and unsubscription, and one statement that
fails, interleave freely: `MaxBatches`, `MaxPurges` and
`FaultKinds` name it. Four slots a day have every order of start, end, tick and
midnight; `Horizon` is two weeks, one for the delay and one for the window to
open. `MaxTime`, `LastDay` and `Room` bound the clocks and the launches.

Deadlock is checked but where the system of the instance may stop: when all jobs
and workers are used up (`jobs`, `jobs_end`), all requests answered (`budget`), or
the clock at its end (`window`).

| Run | Instance | Shows |
|---|---|---|
| `overlap` | two leads, one row each, a provider id to spare, two ticks, a task and the sweeper; kill, crash, duplicate, slow, reject, http | `ClaimExclusive`: no row is in the hands of two ticks. `MailedOnce`: no text is mailed twice. `RoundTripExact`: each mail carries its own row's id. `SendFailedWasNotAccepted`: a row given up was not accepted |
| `lifecycle` | one lead, two steps, one row to spare; two faults of every kind but reject and http | `TypeOK`. `ConfirmedNeverQueued`: a row with a provider id is out of the queue. `ProviderIdTraced`: the id is that of a mail tagged with the row. `FollowUpHasCause`: a follow-up exists only after a report on the step before. `WebhooksAreFinal`: opt-outs and bounces are final, a reply gives way only to an opt-out, a provider id is never replaced. `LifecycleSpec`: the table implements `MessageLifecycle` |
| `suppression` | one lead in two sequences, soft and hard bounces and opt-outs; crash | `SuppressedNotPosted`: a lead suppressed before the claim is not in the POST. `SuppressionFollows`: a processed opt-out, hard bounce or last soft strike has its suppression |
| `in_order` | one lead, three steps, the last one reply-only and threaded, an id for every row, two ticks, two tasks and the sweeper; crash; events in order | `ReplyStopsSequence`: after a processed reply no no-reply step waits. `ReplyWalksBranch`: a live reply-only step does. `ProcessedMeansApplied`: a processed `email_sent` has confirmed its row |
| `progress` | two steps, a tick, two tasks, the sweeper; kill, crash; `FairSpec` | `QueueDrains`: every queued row leaves the queue. `EventsProcessed`: every recorded event is processed, though Instantly will not deliver it again |
| `jobs` | audits of a list and of what is pending, joined by an /execute; discoveries, stops, purges; one failed upsert, failed call or crash | `AuditorsAreLive`: `stop_job` never reaches for an auditor that is not at work on that job. `NoOrphanedJob`: no job is left running without a worker. `ListedLeadsTriedOnce`: a completed list was worked off once. `StopIsUndoneBy`: who may overwrite a stop |
| `jobs_end` | a list, a sweep that only hunts, one of an /execute that audits and enriches; a crash or a failed call; `FairSpec` | `JobsEnd`: every job ends, but for the endless sweeps it names. `StopEndsWorkers`: a stop that is not undone ends all workers of the job |
| `budget` | two requests of every kind, a midnight, the death of the process; `FairSpec` | `BudgetHeld`: a day exceeds the ceiling only by what estimates missed. `SpendIsCounted`: nothing reported escapes the counter. `DailySpec`: the counter implements the ceiling. `RefusalIsReported`: a request of a kind in `Reporting` answers 503, or an error if it is a strategy, exactly if one of its calls was refused. `RequestsEnd` |
| `console` | three leads, all writers with one worker, a reader, two requests for `/stats`; `FairSpec` | `ExportedOnce`: an export lists once what stayed where it was. `ShownInFull`: the dashboard skips nothing of it. `StaleHasCause`: why a payload may be stale. `BuiltOnce`, `StatsAnswered`: no stampede, no request left waiting |
| `campaigns` | four files, two addresses, a demo lead, a worker, a campaign, one failure | `TypeOK`: messages refer to what exists. `LettersKeepAddressee`: a text goes to the address it was made for, if the key of its lead has named the address in every file that brought it. `ErasureAnswersTrue`: "deleted", "no rows removed" and the audit row are true, but for leads that a worker wrote back. `UnsubscribeReaches`: success means a suppression, but for the causes named |
| `window` | 36 windows, five offsets, every delay of a week, ticks one or two slots apart | `GivenFirstOpening`: the time given is the first that is open. `SentInFirstOpening`: a row does not wait through an opening that lasts as long as the ticks are apart |

`ReplyWalksBranch` is about a sequence's only reply. When a lead answers two
mails of one sequence, the handling of the earlier answer may cancel the
reply-only step that the later one has put in place.

### Disagreements between the code and what is said of it

`threaded_step` checks one property and TLC reports a violation, with no fault at
all: the advancer stores the provider's id in `in_reply_to_message_id`; the tick
looks prior messages up by row id, never finds one and postpones the row for ever
(`QueueDrains`; `src/services/thread_builder.py:41-49`: "we just need to wait").

The others are reached by changing a passing run as said; the properties named
that no run checks are defined for this purpose at the end of their module.

| Change | Violated | What is said, and what happens |
|---|---|---|
| `in_order` with `duplicate` | `ReplyStopsSequence` | `src/workers/webhook_sweeper.py:33-36`: handlers are "predicate-idempotent". The reply cancels the next step, the UNIQUE index does not count cancelled rows, and the same `email_sent` inserts that step again |
| `in_order` without fault, `ReplyOnly = {}` | `ReplyStopsSequence` | `docs/sequencing-architecture.md:71-73` and `src/repositories/campaign_message_repo.py:539-541`: the cancellation "re-fires on each subsequent `_sent` event", so that "the NEXT step gets cancelled". The `email_sent` handler (`backend/main.py:1765-1789`) only advances: the row that was in flight when the reply came is sent, and the step after it is inserted as pending |
| `suppression` with `db` | `SuppressedNotPosted` | `src/workers/dispatch_tick.py:275-277`: the "dispatcher's own precheck is the load-bearing gate". The tick builds the dispatcher without a database client, and that check then answers "nobody" |
| `overlap` with `late` | `MailedOnce` | `src/workers/dispatch_tick.py:3`: "idempotent; safe under crash / concurrent runs". When the webhook takes longer than the claim timeout, an accepted row is queued again |
| `jobs` with `StopReachesWorkers` | that | `src/core/task_orchestrator.py:76-79`, `647-662`: the stop is propagated "into the gather currently running". Of two workers of a job one auditor is registered, and those of the router's orchestrators never are |
| `jobs` with `OneDiscovery` | that | `src/core/task_orchestrator.py:70-74`: "Serialise discovery so only one Chromium runs". `src/core/agentic_router.py:785` makes an orchestrator, with a semaphore, for each discovery |
| `jobs` with deletions in `ListedLeadsTriedOnce` | that | `_fetch_chunk` slices by `processed_count`, which grows by the rows found: leads are worked on twice, or the job ends before its list |
| `jobs` with a request that lists a lead twice (`<<l1, l1, l2>>`, `ChunkSize` 2) | `ListedLeadsTriedOnce` | the same slice (`src/core/task_orchestrator.py:318-324`, `458`): two ids find one row, the next slice begins at the repetition, and the lead is worked on again. Neither `backend/main.py:308`, `356` nor the orchestrator removes repetitions |
| `budget` with `LockOf <- ServerAndScript` and two `Locks` | `BudgetHeld` | the ceiling "would be exceeded" check holds within one process; a script on the same machine has a lock of its own |
| `console` with `UploadsSeen` | that | `src/utils/stats_cache.py`: "never lies for longer than one batch of writes". An invalidation during a build is lost, and the payload read before is served for a full TTL |
| `console` with `SeenEverything` | that | `frontend/app/page.tsx:286-290`: `hasMore` is authoritative. A poll between a request for the next page and its answer leaves the board without the pages in between |
| `console` with `RowsAfterCursor` | that | a key outside of `_CURSOR_KEY_PATTERN`, which `csv_helper` makes, is no cursor: load-more returns the first page |
| `campaigns` with `UnsubscribedIsSuppressed` | that | `backend/main.py:1089-1090`: "False on any verification or dereference failure". A look-up of the lead that fails is logged, and success is answered |
| `campaigns` with two `CampaignIds` and `NoTextIsLeft` | that | `backend/main.py:3055`: every row tied to the account. A campaign created and generated while the erasure runs keeps texts made of the erased leads |
| `campaigns` with `LettersKeepTheirLead` | that | `src/utils/csv_helper.py:188-207` makes the key of the website and the address. An export carries it (`backend/main.py:3382-3383`), and the same file uploaded with another address puts that one under the key; so does a second address column that the mapper renames (`backend/main.py:2393-2425`), and another file under a website or a name alone. The pending messages, written for the first address, go to the second |
| `campaigns` with `NoLeadReturns` | that | `backend/main.py:3055`: "Hard-deletes every row tied to the operator's account". A worker that fetched a lead before writes it back after (`src/core/task_orchestrator.py:373`) |
| `budget` with `RefusalsAnswered503` | that | `src/utils/gemini_call.py:22-25`: "the exception propagates and the FastAPI exception handler maps it to HTTP 503", and `docs/runbooks/gemini-quota-exhausted.md:10-16`: "Any AI-backed endpoint", `/execute` among them. A strategy answers an error (`src/core/agentic_router.py:933`); `/execute` answers that a hunt or an enrichment is completed (`:298-358`, `:795-855`), as the refusal is swallowed below it |

### Where the positive results end

The passing runs state their conditions through `FaultKinds`, `Enrolment` and
`Verdicts`. These are the conditions that matter; widening the constant in the
`.cfg` shows each counterexample.

| Property | Does not survive | Because |
|---|---|---|
| `MailedOnce` | `late` or `db` | an accepted row is not confirmed before its claim times out, or its `mark_sent` failed and nothing repeats it; the sweep queues it again |
| `RoundTripExact` | `Enrolment <- TwoSequences` with `BatchSize` 2 | `message_ids` has one entry per lead, so two rows of a lead in a batch share the last one's id (`src/integrations/instantly_sender.py:157-161` promises "the exact originating row") |
| `SendFailedWasNotAccepted` | `transport` | Instantly may have consumed the POST whose connection broke (`src/repositories/campaign_message_repo.py:246-249`: "The send never happened") |
| `ProcessedMeansApplied` | `db` | a failed `mark_sent` is swallowed by the repository and the event is stamped processed (`backend/main.py:1643-1650` leaves it to the sweeper only for errors that reach the handler's caller) |
| `FailedHasCause` (no run checks it) | `db` | `fetch_many` answers an error with an empty result, and a lead that is not in it is failed for good (`src/workers/dispatch_tick.py:242-251` expects an exception) |
| `ExportedOnce` | leads that a worker moved (`NoneListedTwice` in `console`) | a lead is listed, cleared, and uploaded again, which puts it above the cursor; a worker that fetched it before writes it back with its old `created_at` (`src/core/task_orchestrator.py:373`), below the cursor, and it is listed a second time |
| `ReplyWalksBranch` | `reorder` | a reply handled before the `email_sent` of the mail it answers finds no row and is dropped (`docs/sequencing-architecture.md:75-81` says the advance happens "regardless") |
| `ReplyStopsSequence` | `duplicate`, `kill` with the stale sweep, `Verdicts = {"window"}`, or `ReplyOnly = {}` | the reply cancels pending rows only; one that is claimed at that moment escapes and is queued again (`docs/sequencing-architecture.md:60-73` lists only that it is sent) |

## 4. Fairness

`FairSpec` assumes weak fairness of the steps that some scheduler owns:

- `TickStep`: the cron starts a tick every five minutes and a tick that is not
  killed runs on; Instantly consumes a POST it received;
- `HandlerStep`, `Sweep`: the event loop runs a background task on; the sweeper's
  cron starts it every two minutes;
- `Elapse`, `Grace`: time passes;
- `Deliver` of an event not yet answered 200: Instantly retries until it is, and
  it reports every mail it accepted as sent.

Nothing is assumed of recipients (bounces, replies and opt-outs may never come),
of faults, or of a second delivery. `HandleAdvance` waits for a free row where
the table of the code has no limit, so `progress` has room for every row.

Of the rest:

- `LeadJobs`: the event loop runs every task that is ready, every wait of a worker
  is bounded by a timeout or the sleep of 120 s, a launch that holds the lock goes
  on, and the zombie sweep runs daily. Nothing is assumed of the operator.
- `AiRequests`: the code that awaits a call goes on (weak fairness of `Step`); a call
  ends within the client's timeout, and the lock, taken again and again by other
  calls, is not denied for ever (strong fairness of `Call`).
- `Console`: a build is one database call with a timeout; an `asyncio.Lock` is
  handed over in the order of its waiters, hence strong fairness of `Acquire`.
- `Campaigns` and `SendWindow` have safety properties only. That the ticks are at most
  `Period` apart is a guard of `Clock`.

## 5. Proofs

The constants are arbitrary here: any number of leads, rows, steps, jobs, workers,
calls, readers, overlapping ticks and tasks, files and uploads, every fault kind,
any ceiling and page size. The assumptions are the named ones of the modules
(`TablesAssumption`, `TickAssumption`, `WebhookAssumption`, `JobsAssumption`,
`BudgetAssumption`, `RequestsAssumption`, `TableAssumption`, `PagesAssumption`,
`FilesAssumption`, `CampaignsAssumption`, `WindowAssumption`, and `MailAssumption`:
a mail is not NULL), which TLC evaluates in the runs. A
theorem that needs more states it as a hypothesis; the table at the end of this
section lists them all, and 3 shows what happens without each.

### The outreach engine

- `OutreachProofs!TypeCorrect`: `Spec => []TypeOK`. `TypeOK` is not inductive: an
  INSERT copies the lead, sequence and step of the row a handler has read, so
  these must not be NULL. `TypeInv` adds that every existing row names a lead and
  a sequence (`RowsNamed`), every mail names existing rows (`MailsNamed`), every
  event is about a mail (`EventsMailed`), a tick holds existing rows only and has
  a tag for all it appended (`TickOK`), and a handler works on a recorded event
  and an existing row (`HandlerOK`). Most of the proof is `Updated`: whatever a
  statement does, a row that exists keeps existing with the same lead, sequence
  and step. One lemma per statement shows it, and one lemma per action uses it.
- `ConfirmationProofs!ConfirmedStaysOut`: `Spec => []ConfirmedNeverQueued`;
  `ProviderIdsTraced`: `Spec => []ProviderIdTraced`; `WebhooksFinal`:
  `Spec => WebhooksAreFinal`. The argument is `Forward`: each statement either
  leaves a confirmed row alone or moves it forward (sent, replied, then bounced or
  unsubscribed); the statements of the dispatch queue only match rows that are
  not confirmed.
- `ConfirmationProofs!FollowUpsHaveCause`: `Spec => []FollowUpHasCause`, with every
  fault. A row is inserted by a handler only, of an event that is recorded for as
  long as the handler lives and after, on the row the event's tag names (`CauseInv`).
- `ConfirmationProofs!SuppressionsFollow`: `Spec => []SuppressionFollows`, with every
  fault. `StrikeInv` says that behind `HandleSuppress` the suppression is there
  (`Settled`), and that a lead with as many recorded strikes as the threshold is
  suppressed or one of the strikes is still open: neither processed nor in the
  hands of a task that is past its count (`StrikesCount`). The last open strike
  counts all others, since an event is recorded before it is handled.
- `OutreachProofs!ClaimIsExclusive`: `Spec => []ClaimExclusive`. `ClaimInv` adds that
  no row held by a tick is queued or stale: it is dispatching and fresh, or
  something later. That is what keeps the sweep and a second claim off it.
- `ConfirmationProofs!LifecycleImplemented`: `Spec => LifecycleSpec`, the refinement. Each
  statement of `OutreachTables` is shown to be one kind of step of
  `MessageLifecycle` on the mapped table (an INSERT is `Insert`, the statements of
  the queue are `Queue`, `mark_sent` is `Confirm`, those of the webhooks are
  `React`), or a stutter; each action executes one statement. That a confirmed
  row's id is no other row's follows from `ProviderIdTraced`, as a mail has one
  tag; that the first rows have different keys is the UNIQUE index, which
  `TablesAssumption` states of `Enrolment`.
- `MailingProofs!SuppressedAreNotPosted`: if reads do not fail
  (`"db" \notin FaultKinds`), `[]SuppressedNotPosted`.
  `Rechecked` says of each stage of a tick what has been filtered from what it
  holds.
- `MailingProofs!MailsOnce`, `TagsAreExact`, `ProcessedIsApplied`: under `Prompt` (no
  failed database call, no `email_sent` later than the claim timeout) and
  `EnrolledOnce` (a lead is in one sequence, as `message_ids` is keyed by lead),
  `[]MailedOnce`, `[]RoundTripExact` and `[]ProcessedMeansApplied`. They stand or
  fall together, in one invariant. A row is mailed once because one that is about
  to be posted is nowhere mailed (`PostInv`); this holds because a mailed row is
  never pending again (`MailState`): its claim does not get stale while its
  `email_sent` is out, and an `email_sent` that is done has set the provider id
  (`TaskInv`). It has set it on the row that was mailed because the rows of a
  batch have different leads (`BatchOK`), and these do because a lead has one
  pending row: a step has one live row, and a later step exists only where all
  earlier ones are confirmed (`TableInv`).
- `MailingProofs!SendFailuresAreReal`: if in addition no POST is cut off after
  Instantly took an entry, `[]SendFailedWasNotAccepted`.
- `MailingProofs!RepliesWalkTheBranch`: under `Branching` (`Prompt`, `EnrolledOnce`, no
  task overtaken by the sweeper, no event delivered twice or before its
  `email_sent`, nothing reported but mails and replies), `[]ReplyWalksBranch`, for any set of reply-only
  steps. Three invariants. `TurnInv`: an event is in the hands of one task, first
  of the one its delivery started, then of the sweeper; and what is reported of a
  mail comes after its `email_sent` is processed. `TaskPath`: which calls a handler
  makes. `WalkInv`: a reply that is past its advance has the branch step in place
  (`BranchTaken`). The step is not cancelled later, because the only reply's task
  has made its cancel before, and nobody is suppressed (`Uneventful`).

`in_order` satisfies these hypotheses, so they can be met together; what each
keeps out is in the table below.

That ticks are killed only before their claim can be stale is part of the model
(`BecomeStale`): a tick lives 60 s at most, a claim 15 minutes. The proofs of
`ClaimIsExclusive` and `MailsOnce` rest on it.

### Jobs

- `JobProofs!AuditorsLive`, `JobsAttended`, `StopUndone` and `JobTypes` (the type
  invariant, which no run repeats). The first two rest on each other: the auditor
  registered for a job is a worker inside its try block, and a job that is
  "running" has a launch or a worker that will write its end. `Moves` says once what any step of a worker may do to its job,
  and each action is shown to be such a move.
- `JobProofs!ListsTriedOnce`: under `NoRepeats` (no request lists a lead twice),
  `[]ListedLeadsTriedOnce`. The invariant `WalkInv` ties the position of a worker
  in its list to what it has done: it has worked once on each lead before
  `processed_count` and on none behind it (`Walked`). `SliceSize` says that a
  slice of a list without repetitions has as many leads as rows, which is what
  makes counting rows and slicing the list the same; a launch takes its list
  unchanged from a request (`LaunchesOnce`), and the known leads stay in the table
  until a purge begins (`KnownRemain`).

### The budget

- `BudgetProofs!CeilingHolds`: `OneProcess /\ Spec => []BudgetHeld`. The bound alone is
  not inductive: a debit adds what was checked a step before. The invariant says
  that a call between check and debit holds the lock of its process, so there is
  one, and that its estimate fits under the ceiling on the day it has read,
  whatever overran since, because a reconciliation needs the lock as well. With
  one process there is one lock; without `OneProcess` the statement is false.
  `CounterImplementsCeiling`: `OneProcess /\ Spec => DailySpec`, from the same
  invariant: a debit is `Admit` or, of an empty estimate, a stutter; a
  reconciliation is `Overrun` or a stutter; all else leaves both counts alone.
- `BudgetProofs!SpendCounted`: `Spec => []SpendIsCounted`, for any number of
  processes: each step moves as much between the two sums. `SumLess` and `SumSwap`
  say what a sum over calls does when one of them leaves it or changes its value.
  They come from the recursion that defines the fold of the community modules, by
  a subset without smaller counterexample (`AllSubsets`), as induction theorems
  that take an operator cannot be instantiated.
- `BudgetProofs!RefusalsReported`: `Spec => []RefusalIsReported`, from the invariant
  that a request of a kind in `Reporting` that is not over has no answer and has met
  no refusal, and from where each kind of request can be. It says nothing of the
  kinds in `Silent`.

### The console

- `CacheProofs!StaleOnlyBy`: `Spec => []StaleHasCause`, and `BuiltByOne`:
  `Spec => BuiltOnce`. `CacheInv` adds that the payload under construction is
  accounted for as the cached one is, that there is one build at a time, and that
  nothing is fresh meanwhile.
- `CacheProofs!ExportsOnce` and `ShowsInFull`: `Spec => []ExportedOnce` and
  `Spec => []ShownInFull`. What a page holds is characterised without its sorting
  (`PageOK`): it is in order, behind its cursor, and nothing that belongs between
  the cursor and the page's end is missing. From that, the export has what it
  `Passed`, and the dashboard shows a `Window` of the table, with later inserts
  only above it. No write but a worker's changes the `created_at` of a row that
  exists; what a worker moves is no longer among the leads of which the two
  properties speak, and may go anywhere (`Stays`, `TableMoved`).
  `Sorted` of `LeadPages` is a definition of its own because the prover cannot
  expand the library's `SortSeq`.

### Campaigns, erasure, unsubscription

- `CampaignProofs!CampaignTypes` and `ErasuresAnswerTrue` need no hypothesis;
  `LettersFindAddressee` and `UnsubscribesReach` need `Unambiguous`. All are from
  `CampaignsInv`. `misnamed` collects the keys that in some file were not made of the
  website and the address that file stored: keys from a column, of a name, of a
  website alone, of a row number, and those of rows whose address another column has
  replaced. `LeadInv`: a lead under any other key, in the table or in the hands of a
  worker, has an address that its key can be read as (`Fits`), since an audit
  only fills in what is missing. `GenInv` and `MessageInv` carry this over from
  what a generation has read to the messages; with `Unambiguous` two addresses that
  fit one key are one. `EraseControl` and `EraseData` say, at each statement of an
  erasure, which tables are empty of what was there when it began, but for what a
  worker has written back, and what has been counted. `UnsubInv` follows the link
  through its two reads; `DemoInv` keeps the demo leads' keys apart from those of
  uploads.

### Send windows

- `WindowProofs!GivenFirstOpeningHolds`: `Spec => []GivenFirstOpening`, for every window,
  set of days, time zone and number of slots a day. `BumpIsFirstOpening` says that
  `BumpToWindow(t)` is the first open time from `t` on. A local time is whole days
  and a time of day in one way only (`SplitLocal`, `DayAndTime`), so between `t` and
  the start that is found every time is of a day that is not the step's, or before
  the start, or after the end; `FirstDay` finds the smallest of the eight days.
- `WindowProofs!SentInFirstOpeningHolds`: `Spec => []SentInFirstOpening`. `WindowInv`
  says that the row's time is the first opening since it was given, that the last
  tick is at most `Period` ago, and that it came before the row's time if the row
  still waits. An opening of `Period` slots that has passed would have had a tick,
  at or after the row's time.

### Hypotheses

| Theorem | Needs | Because |
|---|---|---|
| `SuppressedAreNotPosted` | no `db` | a recheck that fails answers as if nobody were suppressed |
| `MailsOnce`, `TagsAreExact`, `ProcessedIsApplied` | `Prompt`, `EnrolledOnce` | a lost or late confirmation returns an accepted row to the queue; two rows of a lead in a batch share a tag |
| `SendFailuresAreReal` | these, no `transport` | a broken connection is taken for a refusal |
| `RepliesWalkTheBranch` | `Branching` | a reply before its `email_sent` finds no row; a repeated call or another task cancels the step that the first has put in place; a suppressed lead's step is cancelled |
| `ListsTriedOnce` | `NoRepeats` | a list is sliced by the count of the rows found |
| `LettersFindAddressee`, `UnsubscribesReach` | `Unambiguous` | `a_b` with the address `c` and `a` with the address `b_c` have one key |
| `CeilingHolds`, `CounterImplementsCeiling` | `OneProcess` | the lock is that of a process |

Killed ticks, crashed tasks, lost, duplicated and reordered events, rejected
POSTs and failed calls are allowed in all theorems that do not exclude them here.

### Model-checked only

- `QueueDrains`, `EventsProcessed`, `JobsEnd`, `StopEndsWorkers`, `RequestsEnd` and
  `StatsAnswered`: liveness under fairness, and the ENABLED it is made of, are out
  of the prover's reach.
- `ReplyStopsSequence`: it holds of `in_order`, whose every step but the first two is
  reply-only and in which no claimed row goes back to the queue. It is violated
  in ordinary sequences, so there is no theorem worth its hypotheses.

All other properties of the passing runs are theorems.

## 6. Not modelled

Signature and size checks of the endpoint, payload scrubbing, unhandled event
types; the ledger and the suppression check of the dispatcher, which the tick
does not wire in; validation of payloads; letter case of addresses (a lead has
one address here); policies and grants of the schema; the words of bounce types;
segments and filters; the JSON export of an account, which is four reads without
a snapshot; changes to and from summer time, which move a window by an hour
(an offset is fixed here); the redeployment that loses the budget's file, after
which the day begins at zero; the selection of variants and the templates, which
are pure functions of a row. What scrapers, processors and LLM prompts find is a
choice among the outcomes that the code distinguishes. E-mail senders, logging,
request guards, seeds, migrations and the presentation of the frontend are I/O
and formatting without shared state.

Where a module leaves out what another has, or an error of the code: `SendWindow` has
a tick take every row that is due, without a batch limit, ticks that are killed, or a
prior message that is not ready (all in `DispatchTick`). A SQLite error inside
`record_usage` is not among the failures of `GeminiBudget`. That a worker writes back
leads erased meanwhile is a step of `Campaigns`, and such leads are exempted from
`ErasureAnswersTrue`. `Campaigns` clears, uploads and erases, but the job rows that
an erasure deletes are in `LeadJobs`.

## 7. Plan

Done: everything above. What is left are the decisions of one row, pure functions
to be compared with a reference: `decide_bounce_action` with its synonyms, and the
weighted selection of variants.
