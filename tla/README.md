# stream-orchestrator: TLA+ models and proofs

`stream-orchestrator` is a FastAPI service that answers chat of a live stream.
It stores chat messages, distils them into a long-term memory of each user,
and generates replies through pools of language models. This directory holds
models of the parts where something can go wrong between two steps, checked
with TLC on small instances and proved with TLAPS for all values of the
constants.

## 1. Inventory

One Python process, one SQLite file. `async def` routes (chat reply, dynamic
prompt, dossier) run on the event loop and give it up only while a model is
awaited; `def` routes (ingest, reset, prompt files, configuration) run on a
thread pool. Every request has its own SQLAlchemy session; every trace event
opens one more.

| Component | State | Operations | Must be correct |
|---|---|---|---|
| `services/chat_memory.py` | `chat_messages` | save, delete stream, count, select, mark attempted / processed | only what was read is marked; a processed message carries no error |
| `services/user_memory_service.py` | `user_memory_items` | `refresh_user_memory_if_needed` | memory and marks move together; a bounded, duplicate-free list; the lock is released |
| `services/llm_execution_service.py` | locals of the failover loop | `generate_text_with_pool` | current model first, none twice, "exhausted" only after all |
| `services/provider_state_store.py` | `provider_runtime_states` | get / set current model | the last model that answered |
| `services/llm_registry.py`, `integrations/llm/factory.py` | snapshot, client cache | build, apply, look up pool and client | a client has its own endpoint's credentials; routes never dangle |
| `services/llm_config_admin_service.py`, schema, source | `llm_profiles.yml` | validate, apply | file and snapshot agree |
| styles (`style_registry`, `styles_admin_service`, `style_prompt`) | `styles.yml`, snapshot | validate, apply, resolve | references do not dangle |
| tracing (`observability/`, `trace_read_service`) | `trace_runs`, `trace_events`, a context variable | start, event, finish, read | every run ends; its status says what happened |
| `services/router.py`, `features/`, `dossier.py` | none | ingest, choose a feature, run its handler | one handler per request, fallback on failure |
| `dynamic_prompt_service.py`, `prompt_store.py` | prompt files | render, generate, fallback; read, write | failures take the fallback route |
| `api/routes.py`, `api/admin_routes.py` | none | wrap a service call in a trace run; playground API | a trace failure does not fail the request |
| `static/admin/playground.js` | per text area: dirty, in flight | autosave, flush | no edit is lost |
| the rest: `main`, `config`, `db`, `logging_setup`, error handlers, other admin pages, model clients, unused tables, migrations, templates, the Streamer.bot client in `examples/` | | | wiring, I/O or external |

Interaction: dossier handler -> memory refresh -> failover loop -> model client;
each of them writes trace events; ingest, reset and the admin pages change the
same tables, files and snapshots from other threads.

The behaviours that are hard: overlap at the await of a model (two refreshes of
one user, two requests of one pool, a configuration applied in between); row
ids used after rows were deleted and their ids given out again; a write lock
shared by two connections of one call; an exception or crash between statements
of one transaction; answers dropped after they were recorded; caches keyed by
names that are shared. `PROJECT.json` lists each with its line and the
properties that would catch it.

## 2. Modules

| Module | Models | Uses | Proofs |
|---|---|---|---|
| `MemoryStore` | what a refresh promises whoever reads the two tables (abstract) | | |
| `UserMemory` | chat log, memory items, refresh, SQLite's write lock | `MemoryStore` (refined) | `UserMemoryProofs`, `UserMemoryRefinement` |
| `ModelPool` | what a pool of models promises (abstract) | | |
| `LLMFailover` | failover loop, registry, client cache, table of current models | `ModelPool` (refined) | `LLMFailoverProofs` |
| `TraceRun` | what the trace of a request promises (abstract) | | |
| `RequestTrace` | a request from route to response, with every trace write | `TraceRun` (refined) | `RequestTraceProofs` |
| `PromptPlayground` | the playground's prompt editors over the prompt files | | `PromptPlaygroundProofs`, `PromptPlaygroundNames` |
| `Styles` | styles file, its form, resolution of a reference, what traces tell of it | | |
| `ConfigAdmin` | models' configuration and styles, edited, applied, served, lost in a crash | `Styles` (extended) | `ConfigAdminProofs` |

`MC...` modules only give values to constants. `RequestTrace` composes the
components at the level of their trace events: it takes the memory refresh, the
failover loop and the dynamic prompts as sequences of writes that may raise,
each in the order of the code; what happens inside the refresh and the loop is
in `UserMemory` and `LLMFailover`, where the trace write is one step of its own.

## 3. MemoryStore and UserMemory

*Correspondence.* `messages` and `items` are the committed tables; a row keeps
the columns the protocol uses (stream, user, viewer role, processed, attempts,
last error; normalized key, evidence, confidence, creation and update time).
Text is abstracted to a key, a model's reply to an error code or a sequence of
candidates. `Replies` contains every batch, so that duplicates inside a batch and
candidates below the confidence threshold occur.
Session and lock are explicit: the first `UPDATE` of a refresh takes SQLite's
write lock (`lock`), from there `tx` is what its connection sees, and commit or
rollback ends both. A `SELECT` sees the committed rows. `loop` is the request
that runs on the event loop; it is free only while a refresh awaits a model.
Each statement of `refresh_user_memory_if_needed` that touches shared state is
an action (`StartRefresh`, `SelectMessages`, `Receive`, `MarkAttempted`,
`GiveUp`, `BeginMerge`, `MergeCandidate`, `EndMerge`, `Trim`, `MarkProcessed`,
`CommitRefresh`, `Report`); `FailToPrepare` is an exception of the registry or of
the prompt before the model is awaited, `Fault` a failure of the database in any
statement, `Crash` the death of the process, `TraceBlocked` the trace event that
is written through a second connection while the first holds the lock. `Ingest`
and `ResetStream` are the threads. `readers`, `deleted` and `faulted` are history:
who has read the message now stored under an id, which ids of its batch a reset
has deleted under a request, and who was hit by a database fault.

The failover loop stores the current model through the refresh's own session
(`LLMFailover` models that table). Its commit may fail and break the session;
that is a `Fault` between the await and the first `UPDATE`. It does not lead to
another await with a transaction open: the loop tries the next model only after
an exception that is retryable, by its name or text, which SQLite's are not
(`llm_execution_service.py:48-67`, `:175`); the refresh takes the exception for
a failed extraction, and its first `UPDATE` raises on the broken session.

`MemoryStore` is the abstract specification: the two tables, and the batch each
request has read and not settled (`reading`). A batch is read, and later, in one
step and at most once, it becomes memory and is marked processed (`Distil`), or is
marked as attempted with an error (`Fail`), or is dropped. `Learned` says what may
become of the items: other users' rows stay, a row is a known one that has grown
or a newer one with a key its user did not have, the list is bounded, and a row
that is missing made way for a full list of rows it does not beat. It knows no
lock, no transaction, no event loop and no merge. The mapping (`Held`) takes the
batch of a request between its reading and its commit, rollback or death.

*Assumptions taken from the platform.* SQLite in its default journal mode; an
`UPDATE` that matches no row takes the lock too; a plain integer primary key is
`max(rowid) + 1` and therefore reused after the highest row is deleted
(`NextId`; `models/chat.py:12` does not ask for `AUTOINCREMENT`). No other process
writes to the file, except as a `Fault`.

*Runs.*

| Run | Instance | Shows |
|---|---|---|
| `memory_race` | 2 requests, 1 user, 2 messages, 2 keys, batches of up to 2, 2 confidences, list limit 2 | everything in the list below, under every overlap, fault and crash |
| `memory_marks` | 2 streams, 3 message keys, 2 requests, resets | a refresh marks only what it has read, or what took the key of a message a reset deleted from its batch |
| `memory_ends` | 1 user, 2 requests, fairness | every refresh ends |
| `memory_rowids` | 1 stream, 2 message keys, resets | **violated**: a message that was never read is marked processed |
| `memory_self_lock` | traced requests | **violated**: a traced refresh whose model has answered raises with no fault |

Two requests are the smallest number that overlap; a third only repeats a pair,
since at most one holds the loop and the lock. Two messages give a batch with
one row deleted and one alive, and an id that is reused while its batch is in
flight. Two keys and a list of two make trimming with ties, a third row from
the same batch, and an update of an old row all happen; one row of evidence per
candidate is enough because evidence is only added and compared. Each request
runs once; a longer history is a different starting table, and tables grow
within the run. Requests are symmetric (the liveness run does not use that).
`CHECK_DEADLOCK FALSE`: each request runs once and the message keys are
bounded, so the system stops.

*Properties.* `ProcessedIsClean`: a processed message has no error, even when a
second refresh of the same batch fails. `LockInsideLoopRun`: the write lock is
never held across an await. `ItemsBounded`, `SameKeySameBatch`: the list is
bounded, and a key appears twice only if one reply named it twice (the code
reads the existing rows before the loop and does not add to them).
`MemoryMovesWithItsBatch`: items and processed marks change in one commit.
`TrimKeepsTheBest`, `SurvivorsGrow`: a row leaves only a full list of rows at
least as good, and what is known of a row never weakens.
`UnreadMarksFollowAReset`: a message is marked processed only by a successful
refresh that has it in its batch, and has read it unless a reset deleted the
message that had its key. `OnlyReadMessagesProcessed`, the same without the
exception, and `RaisesOnlyOnFault` are violated; `EveryRefreshEnds` as above.
`ImplementsMemoryStore`: the refinement. It says of a batch what the other
properties say of single messages and rows: all that is still there of what was
read is settled together, nothing else is touched, and no refresh settles twice.

*Fairness.* Weak fairness of each request's next step, not of faults or
threads: the event loop runs ready tasks in turn, and the model call returns or
raises, since the client library has a default timeout (the configured
`llm_timeout_seconds` is not passed to it).

*Findings.* (1) With the default database a refresh inside a traced request
cannot succeed once it has reached its first `UPDATE`: the trace event waits
for the lock the same call holds, times out, and the refresh is rolled back.
Chat reply and the playground's dossier run are traced; only a chat reply whose
trace failed to start is not. (2) Resetting a stream during the model call can
make new messages, stored under the reused ids, count as processed.

*Proofs* (`UserMemoryProofs`). `TypeCorrect`; `LockNeverAwaits`, by the
strengthening that the lock's owner also owns the loop (`LoopOwner`,
`LockOwner`); `ProcessedStaysClean`, by stating the same of the table the open
transaction sees (`TxView`) and that a transaction past the attempt mark has
counted every row of its batch; `MemoryBounded`, since a
transaction past the trim holds at most the limit for its user and the committed
items for the others; `MemoryAndMarksAreAtomic`, since before the commit
only `tx` differs from the committed rows; `OverlapsNeverDuplicateKeys`, since a
row added by a batch carries the batch's own clock value and was added only
because the committed items lacked its key; `TrimLosesOnlyTheWorst` and
`KnowledgeGrows`, by the history of rows (`RowHistory`): identities stay
distinct (a merge's clock value is new, and its places fall with the candidates
left), every committed row is still in the transaction, as it was or grown,
until the trim, and a grown row beats every row it beat before, so a row the
trim drops beats none of the rows that stay, also as it was committed. The
constants' assumptions are named in `UserMemory`; nothing else is assumed.

Two theorems bound the findings. `TracedRefreshesCommitNothing`: a traced refresh is
never past its first `UPDATE`, so in a traced request (1) is not a race but
certain, and neither memory nor the record of a failed extraction is ever
committed. `ResetsAloneMixUpIds` is `UnreadMarksFollowAReset`: only a reset that
deletes a message of the batch causes (2). Its invariant says that each id of a
batch was deleted by a reset or still holds a message its request has read
(`BatchIsThere`), and rests on a new message getting a free id.
`NextIdIsFree` needs the highest id in the table to exist, which is the lemma
`GreatestMember`: among the subsets of a finite set of numbers that have no
greatest member there is no smallest (well-foundedness of the subset order, for
induction is out of reach).

*The refinement* (`UserMemoryRefinement`). `RefreshesAreAtomic` is
`Spec => ImplementsMemoryStore`. Its inductive invariant `RefinementInv` adds to
what the other theorems use: a request in the stretch that holds a batch has a
non-empty one (`BatchHeld`); the open transaction sees the committed messages of
*now* with its own statements on top (`TxMessages`), which makes its commit a step
from the current table although it began earlier; each of its rows is of this
merge or comes from a committed row (`TxAncestors`); and ids are fresh
(`FreshIds`). `SettledRow` shows that marking attempted and then processed leaves
what `Done` says, `LearnedAtCommit` that the transaction's items at the commit are
`Learned`; `StepRefines` has one step per action.

## 4. LLMFailover

*Correspondence.* `snapshot` is the registry's configuration, `clients` its
cache from provider type and model name to the credentials of the client built
for them, `current` the `provider_runtime_states` table, `call` the locals of
`generate_text_with_pool`: pool, models, `ordered_models`, the turn and the
client that is awaited. `Files` are contents of `llm_profiles.yml`, valid or
not; `Valid` and `Snapshot` are `_build_snapshot` (empty strings and numeric
limits are left out), `Appliable` what the admin form accepts. Because all of
it runs on the event loop, a step goes from one await to the next: `Begin` up
to the first await; `Answer`, `Fail` and `LoseReply` from an await to the next
one or to the end. `LoseReply` is the exception raised after the model has
answered (state write, commit, trace event): the same handler runs and the
answer is dropped, with or without the new current model on disk. Whether an
exception counts as retryable is a free choice, for it depends on the
exception's name and text. `Misroute` is the `KeyError` of an unknown pool,
`Unsupported` the `ValueError` of an unknown provider type. `Apply` replaces the
snapshot and leaves requests in flight with what they captured; `Restart` reads
a file that may have been edited by hand. Slots in `Requests` are used again,
so runs are of any length; nothing is bounded but the sets.

`ModelPool` is the abstract specification: a request fixes a set of models of
one pool, asks the pool's current model first if it is among them, then others,
none twice; "exhausted" needs all of them; an answer makes its model current.

*Runs.* `llm_failover`: two slots, a pool of three models and a pool of one that
share a model name (as in `llm_profiles.yml.example`), five alternative files:
a key rotated under the same name and a model dropped, a pool and all features
dropped, an unsupported provider type, and two that must be rejected (dangling
route, duplicate name). It checks the type invariant, `CallsUseTheEndpoint` (the
awaited client has the credentials of the model whose turn it is),
`OnlyOverridesMisroute` (no accepted file leaves a feature without a pool) and
the refinement `ImplementsModelPool`. Two slots suffice for one request to move
the current model, or the cache entry, under another one's await. `llm_ends`:
`EveryGenerationEnds` under weak fairness of `Resume`, which the client
library's timeout justifies.

*Proofs* (`LLMFailoverProofs`). `OrderIsPermutation`: the attempt order contains
every model of the pool once and starts with the current one; the inductive
invariant `IInv` adds to the types that the snapshot is well formed, that a
calling request's order is a permutation of its models and its client that of
its turn, and that a resting one keeps nothing. From it follow `TypeCorrect`,
`ClientsAreNeverMixedUp`, `FeaturesAreAlwaysRouted` and, step by step,
`ImplementsPromise`: `Spec => Promise!Spec`. The invariant is needed because a
failed attempt maps to "ask a model not asked yet" only when the order has no
name twice, and the end of the loop to "exhausted" only when it has every name.

## 5. TraceRun and RequestTrace

*Correspondence.* `status` and `events` are the rows of `trace_runs` and
`trace_events`, `trace` the `TraceState` in the request's context variable, and
`job` the place in the code with the locals that decide the way on. A step goes
from one trace write, commit or await of a model to the next. The code writes
traces in two ways and the model keeps them apart: `Guarded` is
`_run_trace_safely`, which logs a failed write and goes on, `Unguarded` is a plain
call, whose exception takes the way an exception takes at that line (into the loop
over models, into the rollback of the refresh, into the route's handler). `Begin`,
`Opened`, `Finish`, `Close`, `Fail`, `Abort` are the wrapper of the routes; the
dossier form of the playground has no such wrapper and is the other branch of each
of them. A start of the trace that fails may leave a row that says "running" all
the same, for it is committed before it is read back; in the dossier form nothing
catches the exception (`Unopened`). `SaveStart` to `Result` are the router,
`AnswerChat`, `CompileDossier`, `WriteDossier` the handlers, `Refresh`,
`RefreshStep`, `Undo` the events of the memory refresh (`Barred`: a trace write
while the request's own session holds the write lock always raises, see finding
(1)), `GenerateStart` to `Exhausted` those of the failover loop, `Validate` to
`Fallback` the dynamic prompts. `DerivedStatus` is `_derive_success_status`. Which
handler matches a message, what a model answers and which query raises are free
choices.

`TraceRun` is the abstract specification: a run is opened at most once, closed
at most once and together with the response, with a verdict that fits the
response, and a crash leaves it open.

*Runs.* `request_trace`: one request, pools of up to two models, up to two trace
writes that fail, a crash at any step. One request is enough: each has its own
context, run and session, and nothing these properties speak of is shared (the
write lock they share with other requests appears as a write that fails). Two
models are a model and a next one; two lost writes make it possible to lose a
write and then the write that reports it. `CHECK_DEADLOCK FALSE`, because answered
requests stop.

*Properties.* `ResponseTellsIfSaved`: the response to an ingest says whether the
message is stored, although trace writes fail before and after the commit.
`DegradedMeansNoModelText`: a degraded run did not answer with a model's text.
`OpenRunsLostAWrite`: a run that is open after its request was answered lost a
write; all ways through the handlers close it otherwise. `FailuresWereMadeUpFor`:
a run that is called a success shows a model's success after each model's
failure, on every route. `ImplementsTraceRun`:
the refinement. `EveryRequestEnds`, under weak fairness of the request's next
step: model calls return or raise (the client library's timeout) and the event
loop or the worker thread goes on.

*What rests on finding (1).* The status is derived from all events of a run as a
set. A dossier generates twice, and if its extraction succeeded and its reply then
exhausted the pool the run would be called a success. It does not come to that: a
traced extraction ends at its own lock, so no closed run shows both. Whoever
repairs (1) loses `FailuresWereMadeUpFor` unless `_derive_success_status` is
changed too: with `RefreshStep` going on, its run and its proof fail.

*Proofs* (`RequestTraceProofs`). The inductive invariant `IInv` adds to the types
`LifeOK` (a working request has a running trace, or none and a lost write),
`IngestOK` (the places before and after the commit of an ingest) and `ReplyOK`
(a traced text has its success event). Almost every step is an instance of one
lemma, `MoveKeeps`: at most one trace write and a new place that `Allowed`
permits. `Invariance` gives `TypeCorrect`, `ResponsesAreTrue`,
`DegradedIsHonest`, `OpenRunsAreExplained`; `RunsKeepThePromise` is the
refinement, for any number of requests, models and lost writes.
`SuccessesAreEarned` is `FailuresWereMadeUpFor`, by `TellsInv`: a request whose trace
shows a model's success is past its only generation, or is a dossier whose
extraction has answered and which can only be undone, so no failure can follow in
a run that is closed as a success (`Told`).

## 6. PromptPlayground

*Correspondence.* `text`, `dirty`, `inflight`, `focus` are the two text areas and
their autosave managers, `chosen` the select, `shown` the prompt the editors were
last filled from, `handler` the asynchronous handlers that are running (the first
of them, `Opening`, is the page asking for the names of prompts), `file` the
prompt files and `requests` the saves. JavaScript runs one handler at a time up to
its next await: `Settled` says that none is about to go on, and only then is the
next event taken, a click, a key or an answer. `Choose`, `Submit`, `NewPrompt`,
`Reset`, `Focus`, `Type`, `Blur` are the user's events; `Flush` and `Flushed` are
`flushPendingSaves`, `Listed`, `Loaded`, `Answered` the rest of the handlers,
where a late list of names replaces a newer one; `SaveSucceeded` and `SaveFailed`
are the ends of `saveNow`, which let those who await it go on or fail. On the
server, whose plain routes run in threads, `Truncate` and `Write` are the two
halves of `PromptStore.write`, `Check` and `WriteBlank` the creation, `ListNames`
the list, `ReadFile` the reading for the editors or for a generation; any of them
may be answered with an error, which ends its handler (`RequestFails`). `Crash` is
the death of the server: what it works on is answered with an error and the files
stay as they are, truncated ones included. A text is the prompt it was written for
and a version; `edits` is history: the edits a run started with and nobody has
replaced since.

*Assumptions.* One tab. A request that failed at the page is no longer worked on
at the server. The chat and dossier editors use the same manager with a fixed
name; their load is not modelled.

*Runs.* `prompt_page`: two prompts, one of which has files at the start, two
handlers at a time, two edits, two clicks, one request that fails or a crash, and
one editor. Two edits of one editor are what an overtaken save needs, two handlers
what a switch under a run needs. With both editors the instance is too large for
liveness. `prompt_editors` has both, and two prompts with files, and checks
`RunUsesEdits` only: a flush must wait for one editor after the other, which its
mutant, that does not wait for the last, shows to be at stake. It is symmetric in
the prompts and the handlers. `prompt_wrong_name`: **violated**, see below.
`CHECK_DEADLOCK FALSE`: edits and clicks are bounded.

*Properties.* `NewerTextsStay`: typed texts reach a file in the order of typing.
`RunUsesEdits`: a run generates with the edits that were in the editors when it
was started. `EveryHandlerEnds`: no handler waits for ever, not even for a save
that fails. Fairness is weak, for each handler's next step and for each
editor's save: fetch ends with an answer or an error, and the browser handles
it. It is stated per editor because the saves of one editor could otherwise
postpone another's for ever. Nothing is expected of the user.

*Finding.* (3) The select already has its new value when its handler flushes
the editors, and `saveNow` reads the name from it: text that no save has carried
by then is written to the files of the prompt selected next. The shortest way
there, which `prompt_wrong_name` shows, is a text typed before any prompt is
selected: its blur save is refused because there is no name, and the flush of the
first selection sends it. The others are a blur save of a selected prompt that was
refused, text typed while a save was on its way, and text typed after the select had
changed and before the new prompt was loaded. Related, and modelled,
but promised nowhere: a text typed while an older save is on its way is marked
clean when that one returns.

*Proofs* (`PromptPlaygroundProofs`), for any parts of a prompt and any number of
prompts and handlers, without bounds. `TypeCorrect` needs `Sound`: a handler
that reads has a prompt's name and starts with the first part. `Effects` sorts
all steps into eight by what they do to files, requests and editors, and the
rest argues about those. `NewerTextsNeverLost` from `Order`: an editor has one
save on its way at a time (`Single`), nothing is newer than the last edit
(`Bounded`), and an unsaved edit is newer than every text of its part
(`Newest`), hence stays so when it is sent. `RunsSeeTheEdits` from `Runs`: an
edit of a run is unsent, on its way under the selected name, or saved
(`Pending`); those the flush has passed are saved; and what has been read for
them is what is in the editor. `EditKept` shows that every step but those that
make the run forget the edit keeps this.

`PromptPlaygroundNames` bounds the finding. `CarefulEditsStay`: if no save is refused
or lost, and the user types only while the editors show the selected prompt and no
switch, creation or opening is under way (`Careful`), every edit stays in its
prompt. Requests of other kinds may fail, and the server may die while no save is
on its way. TLC finds a violation as soon as any one of these conditions
is dropped, so (3) has these causes and no others. The invariant `HomeInv`: a text
no save carries yet is in the editor with the focus and of the prompt that is
selected and stays so (`Waiting`), and a save names the prompt of its text
(`Addressed`). It rests on `FocusAssumption`: no editor is called "none".

## 7. Styles and ConfigAdmin

*Correspondence.* `file` is `llm_profiles.yml`, `snapshot` the registry's,
`styles` `styles.yml`, which is read anew for every reply. `screen`, `form` and
`styleForm` are what each open tab shows; `OpenConfig` and `OpenStyles` are the
pages with the scripts that fill them, the edits are the forms' rows and selects,
with `Sync` for `syncFeatureProviderOptions`. `ReplaceFile` is `apply_form_data`
up to the rename of the temporary file and `Publish` the new snapshot; between
them the process may die, or somebody edit the file. `ApplyStyles` is the other
form. `EditConfigFile` and `EditStylesFile` are edits by hand, valid or not;
`Restart` succeeds only if the file can be loaded. `ExtractMemory` (of a dossier
only, before its reply), `BeginReply`, `ApplyStyle` and `RunDynamicPrompt` follow
one request and the style events of its trace. Whether a dossier gets past its
extraction is `RequestTrace`'s matter; here it may. `Styles` has the pure part:
validation, `Resolutions` of a reference (`random` picks any style), and the tone,
result and style that the trace pages show (`Tone`, `ResultOf`, `DerivedStyle`).

*Abstractions.* Names are trimmed and lower-cased already; instructions are left
out, titles present or not; a row's models are usable or not; numbers are in
range, out of range or not numbers. A missing file reads as its example or
bootstrap, so it is one of the contents. Which provider is the first of a file
is not kept. A form's row is named by the key it was listed under. A failed
write of the temporary file changes nothing. The pages answer 403 outside the
local, dev and test environments; that is left out. `edited` and `orphaned` are
history: the file was edited by hand since it was applied or loaded; the styles
removed, or referred to by hand, since the last apply.

*Run.* `config_admin`: one provider and the name of another, the features chat
and user memory, styles default and fun, two tabs (symmetric), one request, two
edits, one crash. Two tabs are what a stale form needs; two edits change a name
and the reference to it, or a form and a file. `CHECK_DEADLOCK FALSE`: after a
crash with a file that cannot be loaded the service does not start.

*Properties.* `ServedIsSaved`: outside an apply, snapshot and file agree unless
the file was edited by hand. `FormsKeepItLoadable`: the form never writes a file
that stops the next start, nor a snapshot that routes a feature to a missing
provider. `DanglingWasRemoved`: a reference dangles only because its style was
removed since the apply, however old the form in the tab was.
`TraceTellsStyle`: the trace names the style of the reply, and calls a style
that could not be applied a failure.

*Proofs* (`ConfigAdminProofs`), for any providers, styles, features, tabs and
requests. `IInv` adds to the properties what holds between `ReplaceFile` and
`Publish` (`PublishingInv`: the configuration to be published can be loaded, its
references are covered, and it is the file's unless that was edited), types of
everything, and that the events of a request are resolutions (`RequestsInv`).

## 8. Proved and only checked

Proved for every value of the constants: the 30 theorems listed in
`PROJECT.json`. They cover every safety property and every refinement of every
passing run. Only model-checked: the liveness properties `EveryRefreshEnds`,
`EveryGenerationEnds`, `EveryRequestEnds`, `EveryHandlerEnds` (liveness under
fairness is out of the prover's reach), and what the three violated runs show.
The theorems assume nothing but the constants' named assumptions, except
`CarefulEditsStay`, which says in its statement what it supposes of a behaviour.
What is proved about the three findings:

| Finding | Violated | Theorem | Says |
|---|---|---|---|
| (1) | `RaisesOnlyOnFault` | `TracedRefreshesCommitNothing` | in a traced request it always happens |
| (2) | `OnlyReadMessagesProcessed` | `ResetsAloneMixUpIds` | only a reset under a refresh causes it |
| (3) | `EditsStayInTheirPrompt` | `CarefulEditsStay` | only a save refused or lost, or typing during a switch, creation or opening, causes it |

`CarefulEditsStay` does not suppose the interesting part away: switches, creations,
runs, edits and failures of other requests go on.

Definitions named `Faulty...` are wrong variants of the definition that follows
them, each the way a plausible slip would make it; every property of a passing
run fails when one of them takes its definition's place.

## 9. Not modelled

- Formatting (`text_utils.py`), prompt texts, the rendering of templates and
  HTTP: character by character, with no state of their own.
- Which message matches which feature (`selector.py`, the handlers' triggers):
  a free choice in `RequestTrace`.
- Read-only queries: the context of a reply, lists and filters of traces.
- `traces.js`: its detail requests can be answered out of order, and the last
  answer is shown; nothing else depends on that page.
- The model clients beyond "returns or raises"; wiring, settings and logging.
- Evidence counted twice by overlapping refreshes, and the exception of an
  unsupported provider type, happen in the models; the code promises nothing of
  them and no property speaks of them.
- Unused tables, migrations, style sheets, the Streamer.bot client in
  `examples/`.
