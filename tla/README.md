# TLA+ models of the AI proxy backend

A verification project for `phasestarr/ai-proxy-poc`: a FastAPI backend that
proxies chat turns to OpenAI, Anthropic and Vertex AI, stores histories and
attachments in PostgreSQL, and streams answers to a React frontend over SSE.
Paths below are relative to the repository (`src/` here); Python paths to
`backend/app/`.

## 1. Inventory

How the process runs matters everywhere: one uvicorn worker, one event loop,
synchronous SQLAlchemy sessions (READ COMMITTED, `autoflush=False`,
`expire_on_commit=False`). `async` endpoints, the chat pipeline tasks and
housekeeping run on the loop, and a database call blocks it, a wait for a row
lock included. Plain `def` endpoints (title, pin, unpin, reads, authentication)
run in the thread pool, truly at the same time. Operators' commands are
processes of their own.

| component | state | operations | interacts with | hard behaviour | modelled |
|---|---|---|---|---|---|
| operation lease (`services/chat/operations.py`, `models/chat_history.py`) | `chat_operations` rows, owner columns and `lifecycle_state` of histories and drafts | begin, fence, transition, heartbeat, complete, recover, promote, reassign | every writer of a history | fences are unlocked reads; commits come later; deadlines; crashes | yes |
| chat endpoints (`api/v1/endpoints/chat.py`, `histories/service.py`) | titles, pin order, drafts | begin, change, complete or fail or time out | lease, attachments | thread pool against loop; failure paths after the deadline | partly |
| turn pipeline (`completions/orchestrator.py`, `provider_execution.py`, `turn_persistence.py`, `sse.py`) | message rows, blocks, the SSE sink | start, provider events, success, failure, timeout | lease, providers, context | late answers, lost leases, what the client is told | partly |
| provider clocks (`settings/chat.py`, `operations.py`) | in-memory timeouts, `deadline_at` | heartbeat, time out | turn pipeline | throttled writes, whole seconds | yes |
| provider context (`completions/context/`) | checkpoints | build, compact | messages | read before awaits, used after; excluded turns | yes |
| request builder and block accumulator (`request_builder.py`, `block_accumulator.py`) | the blocks of a turn | validate, merge, flush | usage, mappers | blocks that never end | partly |
| providers (`providers/`) | state of the stream mappers | map raw chunks, finalise | turn pipeline | orders of provider events | partly |
| attachments (`attachments/`, `workers/chat_attachment_cleanup.py`) | stored files, references, provider copies | attach, send, remove, discard, reconcile, purge, retry | lease, providers, housekeeping | row locks held across awaits, remote calls before commits | partly |
| maintenance tools (`maintenance/`) | none of their own | reconcile, delete copies, set and reset caps | database, providers | a snapshot that is stale when used | partly |
| housekeeping (`workers/`, `main.py`) | none of its own | close stale operations and rows, delete empty histories, drafts, files, sessions | everything | races with requests; `now` captured once | yes |
| authentication (`auth/`) | sessions, conflict tickets, OAuth transactions | log in, resolve, limit, log out, sweep | PostgreSQL | single use, limits under concurrency | partly |
| usage (`services/usage_caps.py`, `usage_ledger.py`, `db/redis/`) | caps, ledger, rate-limit windows | check, append, count | turn pipeline | check before, spend after | yes |
| schema, presenters, configuration | none | | | | no |
| frontend (`frontend/src/`) | transcript, model selection | SSE events to transcript | API | partial streams, aborts | no |

What makes each correct:

- lease: one live operation per history, owner columns that never dangle, no
  commit by an operation that lost its history, nothing live for ever;
- pipeline: row, operation and client tell the same outcome; every stream ends;
  the stored blocks are the shown ones;
- context: every stored answer is in, every failed turn out, also across
  compactions;
- provider clocks: a turn that is heard is not taken for dead, one that is dead
  is reclaimable in time;
- housekeeping: closes what nobody will, takes nothing that is in use;
- attachments: no reference without its file, no copy without a record, no turn
  dispatched with a copy that is gone, no file without an end;
- maintenance: database and providers agree after a run, and no record of a live
  copy is cleared;
- authentication: one session per login, sessions within the limit, no login
  consumed without a session;
- usage: caps and quotas hold up to what was under way when they were reached.

The full list of hazards, with the line where each bites and the properties that
cover it, is in `PROJECT.json`.

## 2. Modules

| module | models | how |
|---|---|---|
| `OperationRows` | the rows of the lease and what each transaction of `operations.py` does to them | row predicates and row updates, no processes |
| `ChatOperations` | all holders of an operation handle, housekeeping and crashes over those rows | EXTENDS `OperationRows`; a transaction is a *Check* step (fence) and a *Write* step (flush and commit) |
| `HistoryLease` | what the lease promises: one holder per history, one outcome per operation | abstract specification; `ChatOperations` implements it (`ImplementsLease`) |
| `ChatTurn` | one chat turn from POST to its last SSE event | EXTENDS `OperationRows`; a transaction is one step, except where two follow each other |
| `ContextCompaction` | summaries and checkpoints inside those turns | EXTENDS `ChatTurn` |
| `TurnStream` | the provider event loop of a turn: blocks, rows, lease, outcome, client | the part all providers share |
| `OpenAIStream`, `AnthropicStream`, `VertexStream` | the protocol of each provider and the stateful mapper that translates it | EXTEND `TurnStream` |
| `ProviderStreams` | a turn on any of the three; the properties of streams | composes the four |
| `ProviderHeartbeat` | idle timeout in memory against the deadline in the row | discrete clock |
| `BlankPageUploads` | a file uploaded from a page without a history: draft, promotion, housekeeping | rows of lease and draft, the coroutines, one loop |
| `StoredFiles` | one content: its row, who is attached, its copies at providers, all coroutines that touch them | an action is a stretch between two awaits |
| `SharedFile` | what stored files promise to histories | abstract specification; `StoredFiles` implements it (`KeepsWhatIsAttached`) |
| `AttachmentMaintenance` | the operator's tool for provider files, beside everything in `StoredFiles` | EXTENDS `StoredFiles` |
| `Sessions` | sessions of a user: logins, limit, conflict tickets, idle expiry, logout, sweep | an action is what a thread does between two points where PostgreSQL lets another in |
| `RateLimits` | the two counters in Redis | discrete clock, whole-second expiry |
| `UsageCaps` | ledger, check, spending, operators' commands | reads and commits of a command are steps of their own |
| `PinOrder` | places in the pinned section | threads that compute and then write |
| `MC*` | instances for TLC, and runs over several parts | |
| `*_proofs` | theorems checked by TLAPS | |

Definitions named "Slip: ..." in their comment are plausible mistakes in the
definition that follows. No specification uses them: each is put in the place of
its original to see that a property notices. Variables whose comment says
*(history)* only record what happened; no guard of the code's actions reads
them.

### OperationRows

`state`, `kind`, `scope` are the columns of `chat_operations`; `owner`, `life` of
`chat_histories`; `filled` says whether a history has a message or a file (the
counts of `delete_empty_history_for_operation`). An operation id stands for
`(id, owner_token)`, which are always written and cleared together. Time is
qualitative: `due[o]` holds the deadlines of `o` that have passed, so a deadline
may pass between any two steps, and a heartbeat takes it back. All histories
belong to one user: ownership by users is checked by every query and is not
modelled. `BeginRows` is one step because `begin_history_operation` locks the
history row `FOR UPDATE` before it reads anything else. The CHECK constraints
and foreign keys are `RowsTypeOK`, the partial unique index on live operations
is `NoLiveExcept`, and deletions cascade (`RemoveRows`).

### ChatOperations

`task[o]` is where the holder of the handle stands, `window[o]` the write whose
fence has passed, `seen[o]` the lifecycle state read with it, `sweep` what the
housekeeping transaction read. `assert_operation_current` takes no lock, and
SQLAlchemy sends the UPDATE, keyed by the id only, at the commit. Hence a Check and
a Write step. While a loop window is open no other loop step runs (`LoopFree`,
`MayRun`); steps of `update_metadata` operations, whose endpoints are plain `def`,
run at any time (`ThreadKinds`). With `ThreadKinds = {}` the module is the loop
alone. Operations loaded before an await and used after it (`HeldFence`) see
the operation row anew but the history as it was. `WriteAborts` is the flush
that fails: a row that is gone, or the live index. `Crash` drops all tasks and
open transactions at any step. `EmptyRead`/`EmptyWrite` and `SweepRead`/`SweepWrite` are
housekeeping, with its reads and its commit apart.

### ChatTurn and ContextCompaction

`pc`, `context`, `answered`, `msg`, `excluded`, `late`, `sink` follow the pipeline task,
the provider request, the assistant row and the SSE stream of each send. A
context is the set of earlier messages in it; an assistant row has no text while it
streams. Between the commit of `transition_operation` and
`persist_chat_turn_start`, and between the two fences of
`persist_chat_turn_success`, nothing else runs on the loop; a rename in the
thread pool, a crash or a deadline can come there, and those are the steps where
the interesting things happen. The other actions take the lease, the messages
and the stream in one step each.

`ContextCompaction` refines the preparation of a send: over budget (a free choice)
it reads everything visible, awaits a provider, and writes the summary and the
sequence it covers as the checkpoint. A summary stands for the set of messages
it was made from, so "remembered" is set membership.

### The streams

`TurnStream` takes the events a mapper makes of one raw chunk (`pending`) and
handles them in order: answer text, blocks to the client and to the accumulator
(`shown`, `accumulated`), blocks that end to `chat_message_blocks` (`rows`),
completions and the rule `is_strong_final_answer_event`. The lease may be
lost before any row is written, the provider may break off, finish or fall silent
between any two chunks. `sent` is what the provider has truly said. Fragments of
text and of a tool call are counted, not spelled.

Each provider module has a part that says which raw chunk may come next (the
provider's protocol, as far as the mapper depends on it; external) and the
mapper's own state and translation. A response has one final answer, and an answer that
was cut off is followed only by the completion that says so. The mapper's state is
what the Python objects keep: reasoning parts by item and summary index on
OpenAI, open content blocks by index on Anthropic, thoughts by ordinal of the chunk and
place in it on Vertex.

### BlankPageUploads, StoredFiles and AttachmentMaintenance

`BlankPageUploads` follows uploads of one auth session. An upload names its draft,
its operation and its history (the code gives draft and history one id).
Housekeeping flushes the operations and drafts it closes and then awaits the remote
deletions of expired drafts: `house` is what is flushed and not committed, and a
request that writes one of these rows stops the loop (`frozen`).

In `StoredFiles` one row of `stored_files` with its provider states is `row[f]`;
UNIQUE(user_id, sha256) leaves one content to look at. `work[t]` is a coroutine:
where it is suspended, the row and the ids it read before, the copies it has made or
is deleting. A send whose fence fails deletes the copies it has made, but not one that is
there again under the id the row had (`NewlyUploaded`); a reconciliation leaves a
copy as it was when its check fails (`SweepCalls`). `remote[p]` is what provider `p`
really holds; `Keyed` providers name
a copy after the row, so it can be overwritten but not doubled. A coroutine that is
suspended in a clean-up holds the row it deletes; one that then needs that row stops
the loop (`frozen`). `Faults` says what may go wrong in an instance: uploads and
deletions that fail, copies that vanish at the provider, operations that outlive
their deadline, crashes.

`AttachmentMaintenance` adds the tool: it reads the database, lists one provider
after another, then clears and deletes from that comparison, one provider call or
one transaction a step, while all of `StoredFiles` goes on.

### Sessions

`request[r]` is a thread between two statements another transaction may come
between, with the instant and the rows it goes by. `issue_session` holds the row of
the user from `LockUser` to `Issue`; a callback holds its OAuth row, a resolution
its ticket. A row that is gone at the flush (`StaleDataError`) rolls the request back,
grant included. Time is a small counter with the three TTLs. `source` of a
session (history) is the flow it came of. New rows take canonical fresh names
(`NextOf`), since a name never matters.

### Heartbeats, quotas, caps, pins

`ProviderHeartbeat`: `heard` is the last chunk the task received, `persisted` the last
one written to the row, `deadline` the stored deadline; the interval between writes is
derived as in `provider_heartbeat_interval_seconds`. `RateLimits`: counters of the
latest minute and hour with their expiry in whole seconds, and `passed` (history).
`UsageCaps`: a ledger row is its amount; caps and baselines are in the coarser unit the
sum is rounded to; a command reads user by user and writes the columns it
found different. `PinOrder`: `edit[t]` is a request that has begun, computed the next
place over all histories, and not yet committed.

## 3. Runs

| run | bounds | shows |
|---|---|---|
| `operations` | 2 operations, 2 histories, all types, metadata in threads | owner columns never dangle, one live operation per history, content goes only on request |
| `loop` | 2 operations, 1 history, all loop types | commits are fenced, leases are lost only past a deadline, the rows implement `HistoryLease`, no operation stays live |
| `turn` | 2 sends, 1 rename, 1 history | rows, operations, contexts and streams agree; streaming rows close and the loop's streams end |
| `compaction` | 3 sends, 1 history | no answer falls between a summary and what follows it; checkpoints do not go back |
| `streams` | 3 providers; up to 3 fragments of text, chunks and indices each | stored blocks are the shown ones, mappers never raise, the outcome is what the provider said |
| `bookkeeping` | idle 7 s, cap 16 s, half-second ticks; minutes of 6 and hours of 18 ticks; 2 chat requests, 2 operators; 3 histories, 2 threads | the stored deadline brackets the last chunk; quotas, caps and pins hold up to what the code can promise |
| `housekeeping` | 2 uploads; 1 request on one content, 1 provider, all chores of housekeeping and all faults | answers are true, dead uploads block no other, drafts and orphaned files go |
| `files` | 2 holders, 2 requests and housekeeping, 2 rows, 3 copies; 2 providers where only uploads fail | rows implement `SharedFile`; copies stay recorded; a turn names copies that exist |
| `maintenance` | 1 holder, 1 request, 2 providers, 3 copies, all three commands | an undisturbed reconciliation leaves both sides agreeing; a busy one clears no record of a live copy |
| `sessions` | 3 keys, 2 flows, 2 threads, TTLs of 2, horizon 2 | the limit, single use, the order of eviction, no login lost, no request waiting for ever |
| `files_freezes` | 2 requests, 1 provider | **violation** of `EveryRequestEnds` |
| `turn_hangs` | 1 send, 1 rename | **violation** of `StreamsEnd` |

`bookkeeping`, `sessions`, `files` and `housekeeping` take parts in turn: a behaviour
is one of a single part while the others rest, so the states add up and do not
multiply. The parts share no state, so nothing is lost by that; `MCBookkeeping`,
`MCSessions`, `MCStoredFiles` and `MCHousekeeping` say which parts there are.

Why the bounds are enough.

- The lease is per history, and a race needs the operation that loses it and the
  one that takes it. Histories interact only through housekeeping, which works on
  sets of them: `operations` has two. Three operations on one history were
  checked for the safety properties too, but are out of reach with
  liveness; `OwnerIsLive` and `OneLiveOperation` are proved for any number.
- In `ChatTurn` a context needs an earlier and a later turn, and the rename is what
  comes between the two fences. A summary needs a turn before, one streaming and
  one after.
- In `ProviderHeartbeat` an interval of two seconds (7 / 3) is neither the minimum
  nor the idle timeout, a tick is shorter than a second, and the horizon lets every
  deadline be seen passed. In `RateLimits` an hour is three minutes and a second two
  ticks: the expiry can fall short of the window's end. `MaxLedger` lets both
  requests overshoot the cap.
- A session limit of two with three keys lets an eviction choose and go wrong; the
  limit of one under `reject` makes every second login a conflict, with both
  resolutions. The two threads are the two logins, or a login and a use, that race.
- In `StoredFiles` a stale id needs a row that is deleted and one that replaces
  it (`MaxFile` 2), and a copy that is replaced while another is being deleted
  (`MaxCopy` 3). Ids are used again when nothing names them.
- Three uploads were checked as well as two; the theorems cover all.

Operations, uploads and sends are used once; rows that ended stay and can be
found by housekeeping. Symmetry is used only in runs without liveness
properties. Deadlock is not checked where the system may really stop: a frozen
process (`files`, `maintenance`, `housekeeping`, `files_freezes`), a turn that ended
(`streams`), and clocks or counters at their bound (`bookkeeping`).

Three properties hold only for a part of the faults, and say so where they are
defined. `NoCopyIsForgotten`: as long as the calls that delete copies succeed, nothing
vanishes at a provider, no operation outlives its deadline and no purge runs.
`DispatchedCopyIsThere`: as long as no operation outlives its
deadline, nothing vanishes at a provider and no purge runs; the removal of an operation past its deadline may
delete a copy another send is about to use. `ClearsOnlyTheDead`: for providers that
give each copy an id of its own; on Vertex an object is named after the row and may
be there again when the old reference is cleared.

Other properties have exceptions that a reader should know. `RowsAreWhatWasShown` excepts
the blocks a provider may show and never end (`MayStayOpen`: a tool Anthropic leaves
without a result, Vertex' tool block when the finishing chunk has no tool fields): they
are not stored, since a row is persisted only when its block ends (`docs/API.md:180`).
`FailedTurnsStayOut` is about turns that have been closed as failed, not about those that
were recovered and still stream (5 below). `DraftsGo` and `OrphansGo` allow for a
frozen process (2 below). `EvictsLeastRecentlySeen` is about evictions at the session limit,
not about the idle timeout (8 below). `FencedWrites` is about the loop without the
thread pool (3 below), and no property forbids equal places of two pins (15 below).

### Where code and documentation differ

Two divergences are kept as runs:

1. `turn_hangs`: `docs/API.md:218` says failures after the start are emitted as
   `error` events. A success that finds its lease gone
   (`provider_execution.py:229`) returns without any event, and the stream stays
   open.
2. `files_freezes`: `docs/MAINTENANCE.md:231` says uploads and deletions are bounded
   by `CHAT_VALIDATING_OPERATION_TIMEOUT_SECONDS`. `cleanup_orphan_stored_file`
   (`storage.py:147`) keeps a row locked while it awaits the providers; a request
   that waits for the row blocks the event loop, so the await never returns and no
   timeout fires. Housekeeping does the same with expired drafts
   (`workers/chat_execution_cleanup.py:73`).

Others were met while modelling. Each was seen as a counterexample of the property
one would like to state; the property that is kept is the one that holds.

3. `docs/ENVIRONMENT.md:100`: owners "must still hold their DB token immediately
   before committing". A metadata request in the thread pool can recover an expired
   lease between the fence of a loop transaction and its commit (`operations.py:317`).
   `FencedWrites` holds for the loop alone.
4. `docs/MAINTENANCE.md:237`: a delete is blocked while an operation is current.
   `delete_empty_history_for_operation` (`operations.py:345`) checks the old operation
   row and the counts, and deletes a history another operation has begun on.
   `ContentOnlyDeletedOnRequest` is what is left.
5. `docs/ARCHITECTURE.md:168`: a turn past its deadline is excluded from future
   context. A recovery by the next send (`operations.py:460`) leaves the turn as it is
   until housekeeping; that very send reads it. A compaction at that moment
   (`context/pipeline.py:74`) keeps its prompt in the summary for good.
6. `docs/ARCHITECTURE.md:171`: a failed turn is marked `excluded_from_context`. On
   OpenAI a completed commentary item counts as the final answer
   (`provider_execution.py:371`), so an error after it keeps the turn.
7. `docs/ENVIRONMENT.md:102`: another event must arrive before the idle timeout.
   Because heartbeats are throttled (`operations.py:252`), a turn can be timed out up to
   one interval earlier; `DeadlineFollowsChunks` states the bracket.
8. `docs/ARCHITECTURE.md:121`: the idle timeout is `last_seen_at` plus the TTL. A
   session is ended by a `last_seen_at` another request has moved since
   (`session_lifecycle.py:133`).
9. `docs/MAINTENANCE.md:220`: remote copies are deleted when unused. Reconciliation
   (`workers/chat_attachment_cleanup.py:71`) clears states after its awaits without
   looking again; a copy uploaded meanwhile loses its record.
10. `docs/ARCHITECTURE.md:229`: sends verify remote ids. The purge (`:104` of the same
    file) deletes by a `last_used_at` read before its awaits, after a send has verified.
11. `docs/ATTACHMENT_PROVIDER_FILES.md:40`: rows are `pending_delete` while copies are
    deleted. The state is flushed, not committed (`storage.py:160`): nobody sees it.
12. `docs/ATTACHMENT_PROVIDER_FILES.md:179`: the tool deletes files "that have no DB
    ref". An upload recorded between its snapshot and its listing is deleted too
    (`maintenance/attachment_provider_files.py:502`).
13. `db/redis/chat_coordination.py:41`: "{limit} requests per {window}". The counter's
    time to live is cut to whole seconds (`:91`), so it lapses before its window does.
    `AtMostTwice` and `CountsUntilLastSecond` are what holds.
14. `docs/USAGE_CAPS.md:10`: a reset unlocks the user. Of two resets the one that read
    earlier may commit later and move the baseline back (`maintenance/usage_caps.py:165`).
15. `docs/ARCHITECTURE.md:283`: "new pins append to the end". Two pins at once get the
    same place (`histories/service.py:116`). `PlacesAreKept` is what holds.

### Fairness

- `ChatOperations`: clocks advance, an opened transaction commits or aborts, and
  housekeeping gets its turn (strong fairness: other ready tasks may take the loop
  first, but asyncio's ready queue is first in first out; and a process is not killed
  in every sweep for ever). Nothing is assumed of users, providers or holders of
  handles.
- `ChatTurn`: code without an await runs on; the preparation ends because
  `asyncio.wait_for` bounds it; a provider stream ends by one of its two timeouts;
  clocks and housekeeping as above. A crash may come at any time and nothing is
  assumed to restart the tasks it ended.
- `Sessions`: a thread whose next step waits for no lock takes it, Microsoft answers or
  the call fails, and the sweep commits. Weak fairness, although a lock may be taken
  again between two chances: a thread that waits for one is in PostgreSQL's queue, and
  in these bounds no other thread can keep taking it.
- `StoredFiles`: coroutines resume, provider calls return or the deadline of the
  operation cancels them, housekeeping's rounds start and commit. Its deletions
  do not fail for ever, and a retry whose deletions have succeeded is not killed before
  its commit every time (strong fairness for both: neither failures nor restarts come at
  the same point of every round).
- `BlankPageUploads`: deadlines of operations and drafts pass, a request whose
  deadline has passed notices it, and housekeeping starts and commits (strong fairness:
  other rounds and requests may come first).

## 4. Proofs

TLAPS checks the following for every value of the constants. Each module of proofs also
proves the type invariants of the modules it is about, so no run repeats them.

### ChatOperations_proofs

For any sets of operations and histories, any kinds and any thread kinds: `TypeCorrect`,
`OwnersAreLive`, `OneLivePerHistory` and `ContentStays`. None
is inductive. The invariant `IInv` adds: ids not begun have no row (`Fresh`); a
task that will write has begun, and what its window holds fits its place (`Discipline`); at
most one loop holder at a time (`Exclusive`); what the sweep read stays true
enough until it commits (`SweepSound`); and what it read as empty is still empty when
it deletes (`ContentSound`). The hard case is a thread that begins
between the reads and the commit of housekeeping: the owner columns it set must
survive the sweep, because the sweep clears only histories it read as naming a
stale operation.

`FencesProtect` (`FencedWrites`), `LeaseStands` (`LeaseLostOnlyPastDeadline`) and
`RowsImplementLease` (`ImplementsLease`) have the hypothesis `ThreadKinds = {}`: they are
about the loop alone, as the run `loop` is, and are false beside the thread pool (3 above).
Their invariant `LInv` adds to `IInv` that a live operation owns its history (`Owned`), that one window is open at a time, the sweep's
included (`OneAtATime`), that what a fence saw still is so when it writes (`FencesHold`), and
that the sweep's reads are exact (`SweepExact`). The refinement maps every action to a step
of `HistoryLease` or a stutter, action by action.

### ContextCompaction_proofs

The first part is about `ChatTurn`, which `ContextCompaction` extends. For any sends, renames and histories: `RowsAgree` (`OutcomeMatchesMessage`),
`StreamTellsTheOutcome` (`ClientSeesOutcome`), `StartsKnowEverything`
(`ContextIsComplete`) and `FailuresAreNotRead` (`FailedTurnsStayOut`). The invariant says
that the lease is exclusive (`Leased`), that the place of each task says what its rows and
its client may be (`Sound`), and that a send that still holds its lease knows every
answer its history has (`Informed`). The hard cases are turns that somebody else
closes: the next request, which recovers the operation, and housekeeping, which closes every
streaming row of a history for one stale operation.

The second part is about compaction: `NoAnswerIsLost` (`AnswersAreRemembered`),
`CoverageOnlyGrows` (`CheckpointNeverFallsBack`) and `ContextIsComplete` once more, with
summaries. `CInv` adds that rows are numbered in the order of turns (`NumbersCount`), that a
checkpoint covers numbers some turn has reached (`CoversTurn`), that turns which may still be answered are
numbered after it (`AnswersComeAfter`), and that the summary under way of a send that holds
its lease has every answer and covers no less than the checkpoint (`Summarised`). That the
largest number in a finite set of rows exists is shown by well-foundedness.

### StoredFiles_proofs

For any holders, providers, requests, chores and faults: `ActiveMeansAttached`
(`ActiveIffAttached`) and `RowsKeepWhatIsAttached`, the refinement of `SharedFile`. A clean-up
decides on what it read before it awaited the providers. `FilesInv` says why that is safe:
there is at most one row (`OneRow`), at most one coroutine holds it, and what the holder
read is still so (`Lawful`), because everybody else freezes.

The second part is about the copies the providers hold. Ids alone do not say whose a copy
is: OpenAI and Anthropic give each copy an id, Vertex names it after the row. `Apart` says
that as long as no operation expires, a holder has one request at work (`Alone`), a send's
row stays attached to its holder (`SendersAttached`), and the copies an attachment has made
are named by nobody else (`OwnCopies`). So a step takes from a provider nothing a send
has verified or made (`Founded`), which is `DispatchesWhatIsThere`: uploads and deletions
may fail and the process may be restarted. `CopiesStayTracked` has more hypotheses
(`OnlyUploadsFail`), and its invariant `Followed` relates all parts: what each
coroutine has in hand fits the rows and the providers (`FitsWith`), the row has its copies
unless a clean-up has just deleted them (`Complete`), and each copy is a row's or that of
an attachment under way (`Owned`). No hypothesis can be dropped: in the model of the run,
TLC finds a forgotten copy with any one of the other faults or with the purge, and a
missing one dispatched with an expiry, a copy that vanishes or the purge.

The third part is about `AttachmentMaintenance`: the tool disturbs none of this
(`MaintenanceKeepsFiles`), `ReconciliationMends` (`ReconcilesFully`) and
`OnlyTheDeadAreCleared` (`ClearsOnlyTheDead`). `MaintenanceInv` adds that what is left to
clear is dead at its provider while the tool has it (`ClearsTheDead`), and, while
nothing else has moved, that the two sides differ exactly in what is left to
clear and to delete (`Mends`).

### MCStoredFiles_proofs

`NothingIsForgotten` (`NoCopyIsForgotten`) and `NothingMissingIsDispatched`
(`DispatchedCopyIsThere`), as the run `files` states them, for any values of its constants. The
parts of `MCStoredFiles` are instances of `StoredFiles`; the module instantiates
`StoredFiles_proofs` in the same way, shows that both make the same steps
(`InTimeSteps`, `UploadingSteps`), and cites its lemmas.

### Sessions_proofs

For any sets, limits, lifetimes and both strategies: `LimitIsKept`,
`LoginIsSpentOnce`, `EvictionIsFair` and `NothingIsWasted` (`NothingSpentInVain`). The limit
needs `LimitInv`: at most
one thread is between `LockUser` and `Issue` (`OneIssuer`), and the sessions it has set
aside leave room for one more, whatever logouts and sweeps do meanwhile (`RoomIsMade`).
Single use needs `LoginInv`: a flow or ticket is held by one thread at a time
(`HeldAlone`), is still open while it is held (`HeldIsOpen`), and has no
session while it is open (`Unspent`). For the order of eviction, what the issuer has set aside
is the oldest part of what it has read (`SetAsideIsOldest`). Nothing is wasted because an
open flow has no ticket yet, and what a sweep has read as over cannot open again
(`SweptIsSpent`).

Of `EveryRequestEnds`, which is model-checked, two parts need no fairness and are proved for
any number of requests. `LocksAreInOrder`: a request that others wait on, for its insert of
the user or its lock on the row, waits on nobody (`WaitedOnNeverWaits`), because only one
thread gets past the unique index and until the row is there nobody is further
(`InsertInv`); `GuardsAreWaits` ties the relation to the guards of the model.
`RequestsOnlyAdvance`: each step of a request lowers a count from at most four, and no other
step touches it. What is left to TLC is that a thread that may go on does, and that other
logins do not overtake one for ever.

### Bookkeeping_proofs

The four small accounts, which share no state:

- clocks, for all settings: `DeadlineBounds` and `HeardKeeps`. The deadline is that of the
  last persisted event, and the last chunk came less than an interval after it.
- quotas, for any lengths of windows and any limits: `NeverMoreThanTwice` and
  `HoldsUntilLastSecond`. A window is split into the life of its first counter and that of a
  second one set in the window's last second (`FirstLife`, `SecondLife`).
- caps, for any users, operators and commands: `NothingForgivenAhead` (what a command has
  read of the ledger is no more than the ledger is, since it only grows) and
  `OvershootStaysBounded`, by `WithinGrant`: what has been spent past the
  cap, together with what the requests under way may still spend, is covered by the requests
that were admitted before it was reached. The sum over
  requests under way is a sum over a finite set (`RequestsFinite`).
- pins, for any threads and histories: `NoPinMovesAnother`. An edit that is
  current is the only one on its history (`Leasing`, `LeaseIsUnique`), so a history for
  which a place has been computed is still unpinned when it is written (`PlaceIsFree`).

### BlankPageUploads_proofs

For any number of uploads: `NoUploadIsBlocked` and
`AnswersStayTrue`. The invariant says of each upload: before it begins it has no
rows (`NothingYet`); while it is live its operation is on its draft (`RunningOnDraft`), and a
staged file stays (`StagedStays`); there is no history before the answer (`NoAnswerYet`), and
after it the operation is on the history, out of reach of the draft's cascade
(`AnswerStays`). What a suspended round of housekeeping is to close is still there, and
what it is to delete is dead (`RoundIsSafe`), because requests that could change that stop
the loop.

### ProviderStreams_proofs

For any blocks, items, indices, chunks and lengths, on all three providers:
`StoredAsShown` (`RowsAreWhatWasShown`), `NoBlockTwice` (`NothingBreaks`) and
`WholeAnswers` (`OutcomeIsWhatWasSaid`). None of them can be seen from one chunk: a mapper
decides on its own state what a chunk ends, and the loop on what it has merged. So the
invariant relates the three parts. `TurnInv` is about the loop: what is pending
continues what has been shown, merged and stored, in an order the accumulator can take
(`Follows`). `OpenAIAt`, `AnthropicAt` and `VertexAt` are about each provider: which blocks
are closed, given where its protocol stands and what its mapper remembers. A step of the
loop keeps `Follows` whatever the provider is (`TakesKeeps`); a chunk keeps it when
what the mapper makes of it fits what the loop has (`Fits`), which is one lemma per
kind of chunk. Blocks still open at the end are flushed as one sequence (`FlattenSeq`); what it
contains is shown by a least counterexample, since induction over an operator is not to be had.

### Assumptions, and what is not proved

Assumptions on the constants, all evaluated by TLC in a run: `NullsAreNotIds`,
`KindsAssumption`, `RequestsPartition`, `SendsFinite`, `StoredFilesAssumption`,
`MaintenanceAssumption`, `TurnStreamAssumption`, `StreamsAssumption`, `SettingsAssumption`,
`SessionAssumption`, `ClockAssumption`, `LimitAssumption`, `BoundAssumption`,
`AmountAssumption`, `RequestsFinite`, `CommandAssumption`, `MissingAssumption`,
`PinOrderAssumption`, `CopyAssumption`. They say that null values are no ids, that sends and chat requests are
finitely many, that settings are in the ranges the settings modules demand, and that
bounds are numbers.

Only model-checked: all liveness (`DraftsGo`, `EveryRequestEnds`, `LiveOperationEnds`,
`LoopStreamsEnd`, `OrphansGo`, `StreamingRowsClose`), since the prover handles neither
fairness nor ENABLED; for `EveryRequestEnds` the order of the locks and the count of steps
are proved. Every other property of a passing run is stated by a theorem.

## 5. Not modelled, and the plan

Left out for good: provider clients and tools, settings, presenters, schemas,
deployment, rendering (I/O and data shapes), database outages. The usage metadata,
outcome texts and operator events of a turn change no state anything reads.

Left out of what is modelled:

- lease and turns: users, and the choice of a route, which is pure configuration;
- files: limits on tokens and size, and the activation of an attachment, which is
  here only as a lease holder; one content at a time;
- sessions: the anonymous guest of a request without a cookie, the deletion of
  orphaned users, `superseded_by`, cookies and the MSAL protocol; the sweep's row
  locks between flush and commit;
- usage: a compression that is paid for and not recorded when the lease is lost
  (`request_builder.py:113`) is in no variable the code has, and so in none here;
- streams: a Vertex chunk with nothing but usage after the finishing one, more than one
  candidate, text of whitespace only, and the difference between the start of a block
  and its first fragment. A Vertex tool block is stored only when the finishing
  chunk carries tool fields, and the model follows that;
- maintenance: the listing commands, the deployment smoke test.

Next, in this order:

1. Activation of attachments and their limits; anonymous guests.
2. The transcript of the frontend and its SSE parser, against `TurnStream`.
3. The schema migration `20260708_000022`, which closes live operations of an older
   schema, against `OperationRows`.
