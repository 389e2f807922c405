# A verification of Job_Runner in TLA+

Job_Runner is a single owner's job-application agent. A Postgres queue feeds a
pool of workers; workers crawl job boards, read the owner's mail, ask language
models and drive a browser through application forms; a FastAPI service and a
dashboard let the owner approve, reject and correct what the workers did. This
directory holds TLA+ models of the parts where an ordering of events can do
harm, the TLC configurations that check them, and proofs checked by TLAPS.

The harm that matters most is sending one application twice, sending one the
owner did not approve, or sending documents nobody chose. After that come mail
that is skipped, crawls that multiply or die out, hosts asked too often, texts
that leave the machine without a line in the audit trail, and records that no
longer agree with what they were derived from.

## Inventory

Paths are relative to `src/`.

| Component | State it keeps | Operations | What is hard | Here |
|---|---|---|---|---|
| Task queue and claim loop: `packages/core/queue.py`, `apps/worker/run.py`, `packages/crawler/defer.py` | `queue_tasks`: status, attempts, locked_by, lease_expires_at, run_after; the claim token of each execution | enqueue, claim, renew, complete, fail, release, defer, cancel, prune | expired leases, a worker id shared by an old and a new process, a counter that also goes down, spent rows failed by somebody else's claim | `JobQueue` |
| Apply handler: `apps/worker/apply_job.py` | the session's copy of the application, row locks, the fence row | handle_apply, _decide, _submit, park_failed | four commits with a click between two of them; stale copies; crashes anywhere | `ApplyLedger` |
| Application state machine: `packages/core/state.py` | `applications.status` | transition, begin_work | redelivered tasks, a check made against a copy | `ApplyLedger`, `LockOrder` |
| Submission ledger: `packages/core/submissions.py` | `applied_postings`, one row per attempt | find_existing, blocking, record, forget_unsent | several applications for one job; rows removed and restored | `ApplyLedger` |
| Owner's routes: `apps/api/routers/` | none | create, review, submitted, not-submitted, select, edit, compare | they act while a run does | `ApplyLedger`, `LockOrder`, `TailoredResumes` |
| Owner notifications: `packages/core/notify.py` | `notified` events | notify_if_parked | once per park, around a crash | `Doorbell` |
| Tracking and reminders: `packages/tracking/` | `application_tasks` | ring_due, edits, tasks made from mail | stamped before delivered, edited meanwhile | `Reminders` |
| Inbox: `apps/worker/inbox_job.py`, `packages/inbox/` | `mailbox_checkpoints`, the next poll | handle_inbox, route_message, ensure_inbox_poll | one successor; mailboxes that are read, deleted from and renumbered | `InboxPoll` |
| Crawl scheduling: `apps/worker/crawl_job.py`, `crawl_company_job.py`, `packages/crawler/dispatch.py`, `runs.py` | crawl runs, `next_due_at`, the tick's task | tick, dispatch, fold_into_run, close_if_complete, record_attempt | ticks that multiply, runs that close early or never | `CrawlTicks` |
| Host limits: `packages/crawler/host_budget.py`, `ratelimit.py`, `budget.py`, `fetch.py` | `next_allowed_at`, the request window, one process's counters | acquire, penalize, raise_delay, reserve, redirects, deferral | several workers; a slot reserved before a penalty | `HostSlots`, `LocalSlots` |
| Crawling and retention: `packages/crawler/crawl.py`, `retention.py`, `packages/matching/incremental.py`, `score.py` | postings, versions, vectors, matches, `board_hash` | poll, store, embed, score, prune | overlapping polls, texts that change under what was derived from them | `Postings` |
| Discovery and registry: `apps/worker/discover_company_job.py`, `deep_dive_job.py`, `packages/crawler/issues.py`, `find_boards.py`, `deep_dive.py` | `companies`, discovery notes | discovery, deep dive, sheets, the curated registry | several writers of one row, each from its own copy; several callers that start dives | `SiteReading`, `BoardRegistry`, `DiveStarts` |
| Language models: `packages/llm/` | the audit trail, the clock of each provider | route, mask, record, pace, retry, fall back | programs that share the trail and not the clock; midnight | `ModelCalls` |
| Tailoring: `packages/tailor/`, the document routes | résumé versions, files, pins, letters, the prepared document of a match | tailor, prepare, compare, select, edit, send | what was reviewed is tailored again before it is sent | `TailoredResumes` |
| Worker heartbeats, dashboard status stream, MCP server, API builder and web dashboard | display and clients | | nothing is decided by them | not modelled |
| ATS adapters, matching and ranking, storage, vault, configuration and doctor, backup, analytics, GitHub, scripts and migrations | files, numbers, text | | I/O, parsing, ranking | not modelled |

How they interact: producers (owner's routes, ticks, polls) insert task rows in
the transaction of what they are for. `run_once` claims a row in one
transaction, commits, and runs the handler of its kind in a second one while a
renewer extends the lease on a session of its own. The handler's last writes
and the task's completion commit together, but for the apply and inbox
handlers, which commit before; a failure rolls the handler back and commits the
task's failure, and for an application out of retries a third transaction fails
the application. The owner's routes lock the candidate (an advisory lock), then
the application's row. Crawling, matching and discovery meet in the rows of
`companies` and `postings`; fetchers meet in one row per host.

What makes each part correct: a task has one owner, a final outcome, and ends
(queue); a job receives one click unless the owner settled an attempt (ledger,
handler); nothing is sent unapproved with auto-submit off, and an application
that is queued or running is worked on (handler, routes); one ring per park and
per reminder; one fresh poll and no message skipped (inbox); one tick, reports
that add up (crawl); no host asked sooner than its delay; a table that agrees
with its board; one company per board; no upload without its line; what the
owner chose is what is sent.

## Modules

| Module | Models | Proved in |
|---|---|---|
| `TaskOwnership` | what the queue promises: an open task has at most one owner, and only the owner says what became of it (abstract) | |
| `JobQueue` | the rows of `queue_tasks`, the tokens, every operation on them | `JobQueueProofs` |
| `SendOnce` | what the ledger of applications promises: one attempt at a time, one send to an attempt, another only when the owner settled the last (abstract) | |
| `ApplyLedger` | implements `SendOnce`; extends `JobQueue`: applications, ledger, runs of the apply handler, the owner's routes | `ApplyLedgerProofs` |
| `InboxPoll` | extends `JobQueue`: polls, mailbox, checkpoint, routing | `PollsProofs` |
| `CrawlTicks` | extends `JobQueue`: ticks, company tasks, crawl runs | `CrawlProofs` |
| `HostFloor` | what a rate limiter promises of one host (abstract) | |
| `LocalSlots` | the limiter of one process; implements `HostFloor` | `TurnsProofs` |
| `HostSlots` | slots, penalties, redirects, deferral and the request window of all workers | `TurnsProofs` |
| `Doorbell`, `Reminders` | the announcement of parks; the owner's tasks and their ringing | `TurnsProofs` |
| `LockOrder` | the candidate's lock, the row locks and deadlock detection | `TurnsProofs` |
| `Postings` | one company's postings, and what is derived from their texts | `RecordsProofs` |
| `SiteReading`, `BoardRegistry` | what a site says of its board; who is polled for which | `RegistryProofs` |
| `DiveStarts` | how the dives of noted companies are started, statement by statement | `RegistryProofs` |
| `ModelCalls` | calls to language models | `WorkProofs` |
| `TailoredResumes` | the documents of one application | `WorkProofs` |
| `MCParts`, `MCWork` | parts that share no state, beside one another, and their constants | |
| `MCJobQueue`, `MCApplyLedger`, `MCInboxPoll`, `MCCrawlTicks` | constants for TLC | |

The four modules about tasks are composed: each application, poll and crawl
task *is* a row of `JobQueue`, claimed and lost by its actions. The others share
no variables. `MCParts` and `MCWork` put them beside one another, one part
moving in a behaviour, so that one run checks several; `TurnsProofs`,
`RecordsProofs` and `WorkProofs` show that every step of such a whole is a step
of each part or leaves it alone, and so that what each part was proved to
promise holds of the whole.

### JobQueue

A run is one execution of `run_once`, and several runs may present one worker
id. `status`, `attempts`, `lockedBy` are the columns; `lease` is the number of
ticks left of `lease_expires_at`; `due` says that `run_after` has come; `claim`
is the `ClaimedTask` token (task, attempt). `Owns(r)` is `_claim_predicates`,
which guards every outcome and renewal. `ClaimTask` has both statements of
`claim_task`: it fails all spent rows and then takes a ready row of the lowest
rank; `ClaimNothing` is the commit when there is none. `Crash` leaves the lease
on the row. Order by `run_after` within a rank is left out. `release_task` has
no caller in the repository; the action is there for the tasks in `Releasable`.

### ApplyLedger

`appStatus`, `approved` (`review_json["owner_approved"]`) and `fence` (the
application's row in `applied_postings`) are the database; `copy` is what a
run's session remembers, which nothing refreshes but `_submit`'s read under
lock (`expire_on_commit=False`). `locks` says that the run's open transaction
has written the row. `pc` is where the run is:

    idle -Claim-> claimed -ReadApplication-> flush -BeginWork-> pipeline
    pipeline -ParkForReview, RefuseSite-> write        -DecideToSubmit-> submit
    submit -MovedOn-> write   -ParkOnFence-> ack       -Arm-> armed
    armed -Click-> clicked    -RefuseBeforeClick-> write
    armed, clicked -Unconfirmed-> ack                  clicked -Confirmed-> ack
    write -WriteOutcome-> idle                         ack -Acknowledge-> idle
    anywhere -HandlerError-> failing -FailRun-> idle or marking -ReadToPark-> parking -ParkFailed-> idle

Each action is one transaction, or what a run does between two. `Arm` is the
commit of the fence, `Click` is `button.click()`; the crash (`Die`), the time
limit (`HandlerError`), the lapse of the lease and the owner's routes come
between any two. With `StaleSteps` a run goes on acting after its lease has
lapsed, until its next write of the task row is refused. `clicks`, `approvals`,
`settled`, `unresolved` record history; no action reads them. `JobOf` says which
applications are for one job and does not change. `needs_otp` is left out:
nothing moves an application into it. The candidate's advisory lock is held for
less than the code holds it, which allows more interleavings.

### InboxPoll

A poll locks the checkpoint and fetches (`Fetch`: UIDVALIDITY, the search, a
batch), then routes the batch, moves the mark, leaves a successor and commits
(`CommitBatch`), and its task is completed in the next transaction
(`Acknowledge`). Neither of the first two looks at the lease. Between them mail
arrives, is read, is deleted, or everything is renumbered. `MaintainSchedule` is
`ensure_inbox_poll`, `Prune` the hourly deletion of finished rows. How a
message links to an application, and what it is classified as, are constants.
`readEarly` is history: what the owner read before the first scan had come to
it, which that scan, asking for unread mail, cannot see.

### CrawlTicks

A tick's reading (`Sweep`: the due companies, the backlog) and its commit
(`CommitTick`) are two actions; the commit queues company tasks, opens the run,
leaves the successor and completes the tick, under the claim. A company task
folds its outcome into the run and closes it when it was the last. `lost` is
history: the company tasks that ended without a report. Time is two facts per
company: `next_due_at` has come, and its interval has passed.

### HostSlots, LocalSlots, HostFloor

All instants are kept as distances from now, so time goes on for ever in a
finite model. `HostSlots` has the one statement that hands a worker the marker
and pushes it out, the sleep outside any transaction, the request window, the
fetcher's gates in their order, redirects (each takes a slot; the one past the
last that is followed takes one too, and is refused), 429s and the deferral of a
busy host. `early` is history: workers that were asleep towards a slot when the
host asked for a back-off.
`LocalSlots` has the coroutines of one process, a look and its mark being one
action because no await lies between them.

### Doorbell, Reminders

`Doorbell`: `CommitAlone` is what `_submit` commits by itself, a park or the
confirmation; the task is completed later (`CloseTask`), if the claim still
holds. So a parked application may have an open task that is run again, and the
owner may approve it meanwhile (`Approve` queues another task beside the first).
`CommitEnd` is what is committed with the task's completion. Events carry the
clock their transaction *began* with, so two can be recorded in the other order.
`heard` and `again` are history: parks whose ringing was on record, and whether
the one an execution rings for was when it looked. `Reminders`: a reminder is
known by its number, a moved one is a new one, and an edit writes only the
columns that differ from what it read, as the ORM does.

### LockOrder

Each lock is a queue; the head holds it. A run that begins work on a resting
application writes its row and keeps it locked while the browser runs; the gate
then asks for the candidate. `Circle` is the smallest set with those a
transaction waits for and those they wait for; `Deadlock` aborts one of a circle.

### Postings, SiteReading, BoardRegistry, DiveStarts

`Postings`: a poll asks the board, reads the clock, then writes the company's
row, so polls are stored one after the other but perhaps not in the order they
asked. A matching pass reads texts, encodes them for minutes, and writes at its
end. It begins with the retention pass, in two steps: the DELETE's look
(`BeginPass`, what is stale and nobody's) and its deletion (`DeleteDoomed`),
which judges again what a poll has written since, and not what the owner has
done since. A new advert is not stored when it is old or abroad (`Kept`).
`raced` and `unsettled` are history: a vector written over an edit; a truncated
board or two polls stored in the other order. `BoardRegistry`: discoveries and
dives work from copies of the company's row and write the columns that differ;
`crossed` is history: rows one column of which was written from a copy that was
no longer the row. A company registered from a row that says nowhere to look is
"no_website", in neither schedule, until a sheet names its site or the curated
registry its board. Discoveries and dives wait while other work is claimable
(`ahead`, `YIELDING_KINDS`). `SiteReading` is the two looks at a site, as
operators. `BoardRegistry` starts the dives that are owed at one blow, as a
caller alone does. `DiveStarts` takes that apart: the select reads the notes and
the tasks as of its beginning (`BeginSelect`), locks row by row, skipping the
locked and judging again the changed (`TakeRow`), and marks the notes and queues
their tasks in one commit (`CommitStart`); `live` is the list of tasks that it
goes on judging by; `since` and `overlapped` are history: what others queued
meanwhile, and the notes that two queued so.

### ModelCalls, TailoredResumes

`ModelCalls`: a call whose text would leave (`Leaves`, `privacy.py`) is masked;
one that the trail counts as leaving (not `IsLocal`, `audit.py`) is then stamped,
counted and written under the trail's lock, waits for its turn, is sent, and after
a refusal for the rate backs off and is sent again. `settings.ollama` says where
ollama is: on this machine, at another address, or a hosted model under that name;
the second is masked and not counted. A structured answer of the providers in
`UnpacedJson` is asked for without a turn and without a retry. What a provider
does not answer ollama is asked, where the settings say so. Two programs share the
trail and not the clock. `TailoredResumes`: attempts of
the apply task, the owner's requests and an overnight batch each read the
application's row early and write what they changed late; documents have keys
(found again by the cache), file names that two may share, and a flag for the
PDF holding what it says. `overwrote` is history: a record written over one its
writer had not read.

## What the runs check

| Run | Instance | Properties |
|---|---|---|
| `queue` | 3 runs under 2 worker ids, 2 tasks of different rank, leases of 2 ticks, 3 attempts, 1 deferral; fairness | `TypeOK`, `TokenInv`, `OneOwner`, `FinishedStays`, `EveryTaskFinishes`, `ImplementsOwnership` |
| `apply_pool` | 2 runs, 2 applications for 1 job, 2 tasks, auto-submit on, 1 fault | `ApplyTypeOK`, `ClickBudget`, `OneRowPerJob`, `ImplementsSendOnce` |
| `apply_progress` | 1 run, 1 application, 3 tasks, auto-submit off, 1 fault; fairness | `EvidenceKept`, `ClickApproved`, `WorkHasTask`, `ClickIsFenced`, `ComesToRest` |
| `inbox_mail` | 2 runs, 3 tasks, 2 deliveries, batches of 1, one renumbering, 1 fault; a poll may begin worn | `NothingSkipped`, `ConclusionsHold`, `OneFreshPoll` |
| `crawl` | 2 runs, 4 tasks, 2 companies, 2 crawl runs, backlog of 1 or 2, 1 fault | `ReportsAddUp`, `QueueBounded`, `SweepGoesOn` |
| `parts_safe` | hosts (2 fetchers, 2 hosts, one with a longer Crawl-delay, a budget of 1), local (3 coroutines), doorbell (2 executions, 2 tasks, 2 parks of a kind), reminders (2 rows, 2 ringers), locks (2 applications, 2 requests), postings (2 adverts, 2 polls, a pass and the owner) | `PartsTypeOK`, `HostRespected`, `RingsAreOnce`, `LocksKeepOrder`, `TableIsBoard`, `TextIsFollowed`, `KeepsFloor`, `PrunesOnlyStale` |
| `parts_fair` | the same but local and doorbell, with inbox and registry; smaller; fairness | `WaitsEnd`, `DueIsHandled`, `TextIsEmbedded`, `PollingGoesOn`, `BoardIsFound` |
| `work_safe` | registry (2 companies, 2 executions, 2 boards), starts of dives (2 callers, 2 notes, at most 2 tasks to a note), calls (2 callers, one program or two, ollama here, elsewhere or hosted), documents (2 texts of a posting, 2 résumés, a letter) | `WorkTypeOK`, `RegistryHolds`, `StartedOnce`, `CallsAccounted`, `DocumentsHold`, `KeepsInterval` |
| `stuck_in_running`, `click_per_approval`, `submitted_is_terminal`, `reviewed_is_sent` | 1 run, 1 application; the documents | what a comment says and the code does not keep |

What they show:

- *Queue.* With an older execution under the same worker id still about, no two
  executions own a task. `TokenInv` is why: the attempt in a token is never ahead
  of the row's counter and no two live tokens agree, although `defer_task`
  lowers the counter; only the owner lowers it, below its own token. An outcome
  is final, every task ends, and leases and tokens together are the plain
  ownership of `TaskOwnership`.
- *One click.* `ClickBudget` counts the clicks made for a job, the runs between
  their fence's commit and the click, and the attempt the ledger would still
  allow: at most one, and one more for each attempt the owner settled. Seen
  through `Sending`, the ledger is `SendOnce`: the fence's commit begins an
  attempt, the click sends it, the owner's word settles it, and whatever else
  happens sends nothing.
- *Evidence and work.* With one run at a time a click is fenced when it
  happens, its row stays until the owner disowns it, and nothing is clicked
  before an approval. A queued or running application has a task, a run that is
  failing it, or a task that spent its last attempt.
- *Inbox.* What links to an application and lies below the mark is recorded,
  and concluded from once, whatever crashed or was renumbered; of the waiting
  polls at most one is fresh, and in the end one is left.
- *Crawl.* One crawl task; a batch that fits the backlog although it was counted
  before the commit; every company of a run reported, still to report, or lost.
- *Turns.* Slots a delay apart, the marker never before the end of a penalty and
  whoever takes a slot after it asleep through it, a window that counts its own
  reservations: of slots, not of what the network sees (see *Hosts* below). One
  ring per task and none for a park found announced; one ring per reminder;
  circles of locks only through the one place where a run keeps its row locked
  before asking for the candidate; and every wait ends.
- *Records.* The table is the board where the next poll would pass it over as
  unchanged; a version is of the text, and so is a vector unless a pass wrote it
  over an edit; what is pruned was nobody's when the DELETE looked, and closed
  or too old when it was deleted. Two companies are never polled for one board;
  a company is in one of the two schedules or was registered without a website;
  and one to be looked for, whose site names a board with openings, is polled
  for it in the end. A note's dive is started twice only by two callers of which
  neither could see the other's task.
- *Calls and documents.* What the trail counts as leaving has its line first, a
  day's lines are within the allowance, turns an interval apart; a document
  whose PDF failed its check reaches nobody, and the owner's choice and the
  approved letter are what is sent.

### Where documents and code differ

1. `stuck_in_running`: `_mark_application_failed` says "the application must not
   sit in `running` forever". The task's failure commits first; a worker that dies
   before the second transaction, or on the last attempt, leaves it there.
2. `click_per_approval`: the review route is "the approval gate". A run that
   parked its unconfirmed click and died before completing its task leaves the
   task to be redelivered; when the owner answered not-submitted in between, the
   redelivered run takes the application out of review by itself, finds the old
   `owner_approved` and clicks again.
3. `submitted_is_terminal`: a resumed run holds no lock and works on a copy; its
   park or failure overwrites the owner's `submitted`.
4. `reviewed_is_sent`: the review screen "exists to show the owner the document
   that is going to be sent". Approving starts from the top, and a résumé that was
   not pinned may be tailored again into another one.

### Limits of the code that the models showed

These are consequences of the code as it is that the properties had to except, or
that appeared while a property or an invariant was being found.

- *Apply.* A refusal before the click deletes or releases the row although
  `mark_submitted` confirmed it during the run (`apply_job.py:1295`,
  `applications.py:792`). With two runs, one of them stale, a click can be left
  without its fence or its evidence: r1 arms, its lease lapses, r2 parks the
  application, the owner answers not-submitted, r1 clicks with no row, or
  refuses and deletes the row of a later click. A stale run can also take up an
  application whose successor has completed its task.
- *Documents.* A late `review_json` replaces a newer one (compare, select, edit);
  a file name taken by another document's bytes; a prepared document is served
  though the posting was edited since.
- *Locks.* The worker locks row, then candidate; the owner's routes candidate,
  then row (`applications.py:779`). The row stays locked while the browser runs.
- *Queue users.* A company whose task waits longer than its interval is queued
  twice (`dispatch.py:138`); a run stays open when a company task is lost
  (`dispatch.py:228`).
- *Hosts.* A worker already asleep towards its slot does not hear of a penalty
  (`host_budget.py:193`) and sends inside it, against "backs the host off for
  everyone" (`host_budget.py:16`). Redirect hops on one host take slots and do not
  wait for them (`fetch.py:257`), and are not counted in the window
  (`fetch.py:311`). `HostRespected` is therefore about slots and reservations, and
  excepts the sleepers (`early`); no property says how far apart requests go out.
- *Bells.* A park that `_submit` commits can be approved before its task is
  completed; the two tasks may then end at once and, each having looked before
  the other's event, both ring for one park. An event recorded late, with a
  clock that is later than the next park's, hides that park (`notify.py:294`). A
  reminder moved while its predecessor rings keeps that one's stamp
  (`tracking.py:187`).
- *Postings.* After a truncated board, stored without its hash, a reverted edit
  is "unchanged" for ever; crossed polls leave a posting open (`crawl.py:596`);
  the vector of an old text is written over an edit's NULL (`score.py:427`),
  which is the one exception of `TextIsFollowed`; a match keeps its verdict when
  the text is edited, so nothing is stated of matches; what the owner does with
  a posting between the DELETE's look and its deletion is lost with it
  (`retention.py:104`), against "What is never deleted"; `score_and_store`
  stores no Match for an excluded posting (`score.py:323`), so
  `postings_needing_scoring` takes it again every pass and older ones may never
  be scored.
- *Registry.* A discovery that read "hint" writes FAILED over a verification
  committed meanwhile (`discover_company_job.py:495`); a row can be left verified
  with no slug, in neither schedule; a dive that answers late reopens its fixed
  note for the owner; `set_aside` and retirement leave open postings nobody polls.
  A company registered without a website is in neither schedule (`runs.py:334`)
  until a sheet names its site or the curated registry its board.
  Deep dives start on the owner's word or opt-in (`issues.py:147`,
  `dispatch.py:378`) and have the lowest rank: nothing makes one end, and no
  property says that one does.
- *Dives.* `start_deep_dives` says "two callers at once never start one note
  twice" (`issues.py:153`). A caller whose select began before another's commit
  may reach the row after it, unlocked; PostgreSQL at READ COMMITTED judges the
  changed row again, but with its subquery of live tasks as of the beginning:
  the note is queued, no task is seen, and a second one is queued (`overlapped`:
  without that exception TLC refutes `StartedOnce` for two callers in seven
  states). `BoardRegistry` and what is proved of it leave this out: there a note
  has one dive.
- *Models.* With `OLLAMA_BASE_URL` at another machine the text leaves this one:
  it is masked as remote (`privacy.py:366`), but the trail calls it local
  (`audit.py:100`), so that no allowance is used and a line that cannot be
  written does not stop it. `CallsAccounted` is about what the trail counts as
  leaving, a hosted model under ollama's name included. A structured answer of
  one provider is neither paced nor retried (`provider.py:765`). A line stamped
  before midnight and appended after it escapes both days' counts; one line
  stands for up to 1 + `MAX_RETRIES` requests; pacing is per process; a torn
  line of the trail refuses every later remote call; `FallbackProvider` asks on
  where `quota.py:11-20` says it "fails closed".

### Bounds, and why they are enough

Two applications for a job and two runs are what a conflict takes; three tasks
are a creation and two approvals. `MaxAttempts` is 2 in the composed runs: one
attempt that fails or is lost and one that is the last; `FailLimit`
(`RetryPolicy.max_attempts`) is its own constant because the code keeps the two
limits apart. `MaxFaults` bounds crashes and leases lapsing under a run; one
fault already makes the stale run, the redelivery and the lost outcome. A lease
of one tick makes every tick a lapse; the queue's run has two, so that a renewal
matters. In the inbox, `WornInit` starts from a poll on its last attempt, as two
crashes leave it, so that one fault reaches the end of a schedule. Two companies
and a backlog of one make a tick stop for want of room; two crawl runs make one
tick's tasks meet the next one's. Hosts have a floor of one step, one of them a
Crawl-delay of two, so that a delay is raised while workers sleep; back-offs are
of one step where there are two hosts, and of one or three where there is one.
In `parts_safe` fetchers, and executions of the apply task, are symmetric. In
`work_safe` the calls begin with one of four settings: one program or two, one
or two providers, chosen by quality or by name, ollama here, elsewhere or
hosted; no structured answer of gemini's takes a turn, so that one provider has
both ways. An allowance of 0, which is no limit, is in the theorem and in no
run. `UsedFailures` names which way crawls fail in a run. `Horizon` bounds
restarts of a fetcher while a marker is far out; `MaxChanges`, `MaxAsks`,
`MaxTurns`, `MaxMoves`, `MaxEdits`, `MaxDeaths`, `MaxParks`, `MaxClock`,
`MaxTime`, `MaxLines`, `MaxLosses`, `MaxResumes`, `MaxLetters`, `MaxIncidents`,
`MaxUid`, `MaxValidity`, `MaxDives`, `MaxRounds` and `MaxTries` are each named
where they are declared; the last two are limits of the code itself. Deadlock is
not checked: when nothing is due and the owner has nothing to do, the system
rests. Symmetry is used only where no liveness is checked. The safety theorems
hold for every value of these bounds.

### Fairness

In `queue`: a worker's loop polls every second, so a claim that stays possible
is made; clocks advance; and a run does not renew for ever, because its handler
is stopped at its kind's `TIME_LIMITS`. In `apply_progress`: the same, and a
run's handler takes some next step. In `parts_fair`, each part's own: time at a
host passes and a fetcher acts after its sleep; idle workers come round to what
is due; the database breaks a circle (`deadlock_timeout`) and `asyncio.timeout`
ends a run that hangs; matching passes begin and end; the supervisor looks at
the inbox schedule every minute, workers claim, rows are pruned; the tick offers
discoveries, other work that was queued before them is done, and a worker comes
to them. That last one is an assumption about load: discoveries have a low rank
(`run.py:116`) and would not be reached under work that comes without end; in
the model the bursts of other work are bounded by `MaxTurns`. `Duty(n)` joins
the n-th condition of every part, which is the same because one part moves in a
behaviour. Strong fairness is used for what is possible again and again only
while a worker is free or a claim is held: a poll's work, and taking up a
discovery. A deep dive has no fairness. Nothing is assumed of the owner, of
crashes, or of which way a form, a site or a model answers.

## What is proved

Every invariant below is inductive over the module's own steps, was checked by
TLC first, and is proved for every value of the constants that satisfies the
module's named assumption: any tasks, runs, limits, mail, companies, hosts,
postings, callers, documents. Sets whose members are counted are assumed finite.

- `JobQueueProofs`: `TypeCorrect`, `TokensUnique`, `ExclusiveOwner`,
  `OutcomesStay`. The invariant is `TypeOK` with `TokenInv`: a claim must draw a
  new number, which needs every live token at or below its row's counter, and
  giving an attempt back must not bring the counter below another's token.
  `QueueImplementsOwnership`: under the mapping of `JobQueue` the initial state
  is initial, and every step grants, closes, hands back or lapses one ownership
  of `TaskOwnership`, or several of them at once where spent rows are failed, or
  changes none. It assumes that "no worker" and "no claim" are not a run or a task.
- `ApplyLedgerProofs`: `RunsTheQueue` (every step is a step of the queue or
  leaves it alone), `ApplyTypeCorrect`, `OneRow`, `AttemptsAreBudgeted`,
  `OneClick`. `Arm` turns the one attempt the ledger allows into an armed run,
  `Click` an armed run into a click, only the owner's settling opens another.
  None needs a lease: the ledger holds even if every run is stale.
  `LedgerSendsOnce` is the refinement, step by step: a job's attempt is allowed
  while its row is absent or failed, the senders under way are its armed runs,
  and each action is one of `SendOnce`'s (`Arm` begins, `Click` sends, what
  stops an armed run drops, the owner's routes settle, what else closes a row
  withdraws) or leaves all four mapped variables alone; it rests on
  `ClickBudget` and on one row to a job. `ClicksAreApproved`: an approval in the
  database or in a copy was the owner's, and beyond the gate there is one.
  `EvidenceStays` and `ClicksAreFenced`, for any pool of runs, on the condition
  that the owner settles no attempt that is still under way
  (`SettlesOnlyWhatIsOver`); the invariant says that one run at a time is armed
  for a job, that its row is there, and that a run whose refusal would delete
  the row has nothing clicked behind it. `OneRunKeepsEvidence` removes the
  condition for a pool of one. Without either the property is false: the
  counterexample is under *Apply* above. `WorkIsCarried` assumes `FailLimit >=
  MaxAttempts` (both are `DEFAULT_MAX_ATTEMPTS`) and that no run acts on a
  lapsed lease beside another (`NoOvertaking`), and is false without them.
- `PollsProofs`: `PollsAreQueued`, `PollsDoNotMultiply`, `ConclusionsAreHeld`,
  `NothingIsSkipped`, `InboxTypeCorrect`. `ScanInv` adds to `NothingSkipped` that
  the mark a batch will move to was judged when it was fetched: what is awaited up
  to there is recorded or in the batch, under one lock on the checkpoint, while
  new mail is numbered above it; and that what is read during a first scan is
  known to be. `OneFreshPoll` rests on the queue's tokens, and `ConclusionInv`
  counts what was concluded as what is recorded.
- `CrawlProofs`: `CrawlIsHeld`, `CrawlTypeCorrect`, `BoundsAreKept`, `RunsAddUp`,
  `SweepIsCarried`. A tick that sweeps under a live claim is the one crawl task,
  so its batch with the company tasks queued stays within the backlog until it
  commits; a claim that was lost is not regained. A run that is not open has no
  task and has lost none, and each task that leaves the queue is counted once, as
  reported or as lost.
- `TurnsProofs`: `LocalKeepsFloor` (`LocalSlots` implements `HostFloor`);
  `HostIsRespected` (the marker lies past every slot with its gap and past every
  penalty, every delay is at least the floor and the recorded one; the
  reservations of this window and those of the one before are each within the
  budget; who sleeps and was not asleep already when a host backed off sleeps
  past the back-off); `DoorbellRingsOnce` (whose claim it is closes a task, and
  an execution comes to the bell only through that; a told park's event is as
  late as the park, so whoever looks after it is quiet); `RemindersRingOnce`
  (locks, stamps, and which reminders are spent); `LocksAreOrdered` (a
  transaction stands in a queue only for its row or the candidate, holding the
  lock or waiting for it; whoever holds a row and waits is a run at the gate; so
  a circle without one closes after two steps). `Parts...` are the same of
  `MCParts`. The types: `HostTypeCorrect`, where how far out a host's marker may
  lie is a consequence of three things: beyond the longest back-off only a slot
  moves it, and by one gap; a worker's fetch takes a bounded number of slots
  there and sleeps until its last one; and none restarts while the marker is
  there; `LocalTypeCorrect`, `DoorbellTypeCorrect` (a task may be open whatever
  the application's status), `ReminderTypeCorrect` (what a ringer carries has a
  time), `LockTypeCorrect`.
- `RegistryProofs`: `RegistryIsHeld` (who was asked about a found board has one; a
  dive at the discovery stage began with an unverified company).
  `RegistryTypeCorrect` is not of its own accord inductive: that a note put back by
  a dive has a kind needs that there is a note, so its invariant says that a dive
  that waits or runs is for a queued note, and that one execution has it.
  `DivesStartOnce`, for any callers: but for what overlapping starts queued, a note
  found without a task or locked still has none when its caller commits, and a note
  that waits for a dive or for the owner has none at all. `SoleStarterStartsOnce`:
  for one caller the exception is empty. `StartsTypeCorrect`.
- `RecordsProofs`: `BoardIsHeld`, `DerivedFollowsText`, `PruningSpares` (stamps
  are one poll's each, what a pass deletes was looked at and is stale still, a
  hash tells which listing was stored), `PostingsTypeCorrect`, and with
  `RegistryHolds` the same of `MCParts`. `PartsTypeCorrect` joins the types of
  all parts.
- `WorkProofs`: `UploadsAreRecorded`, `CallsAreAccounted`, `IntervalIsKept`,
  `DocumentsAreHeld`, and `WorkIsHeld`, the same of `MCWork` with the registry
  and the starts. A call on the trail is tied to its line by a number used once;
  of a day's late lines and the calls still to write one, the sum cannot grow
  once the day is over; where there is no allowance nothing is counted; what is
  said of the document that is sent is said of every place it may wait in: row,
  attempt, batch, cache, comparison. `ModelTypeCorrect`, `TailoredTypeCorrect`
  (stored documents are numbered without a gap, so there are no more of them
  than incidents allow) and `WorkTypeCorrect` are the types.

`inbox_mail` also starts from `WornInit`; the theorems are for `InboxSpec`.

### Only model-checked

Liveness (`EveryTaskFinishes`, `ComesToRest`, `WaitsEnd`, `DueIsHandled`,
`TextIsEmbedded`, `PollingGoesOn`, `BoardIsFound`) is beyond the prover. Every
invariant and action property of a passing run and the three refinements are
proved: `ClickIsFenced`, `EvidenceKept` and `WorkHasTask` under the conditions named
above, which their runs meet. Of `CrawlTicks` the type is proved and in no run.

## Not modelled

Matching, ranking, parsing, adapters, prompts and rendering are functions of
text and numbers, or I/O; where their outcome matters it is a choice or a
constant. The grouping of postings into one job is the constant `JobOf`. Not
modelled either: the bound that `prune_finished` keeps per kind, clock drift
between host and database, the merge of duplicate companies by hand, the
streaming of model answers, the pruning of the trail that its owner orders, the
dashboard, the MCP server, backup and reports.

## Plan

1. Registry and documents in one composition with the queue: discoveries and
   overnight batches as tasks, and two dives of one note in the registry.
2. Retention of the queue's finished rows, with the newest of each kind kept.
