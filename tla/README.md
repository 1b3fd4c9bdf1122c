# mailassist: TLA+ models of the mail worker and the web client

mailassist watches IMAP accounts, runs every new mail through a pipeline of AI plugins and
applies the results: labels, moves, drafts, calendar entries, approvals. Its core is a worker
that takes rows of the table `tracked_emails` through ARQ jobs. PostgreSQL, Valkey and the IMAP
servers change independently of each other, several coroutines write the same rows, and anything
may time out, crash or be retried. The web application beside it shows the same rows through a
query cache that pages, intervals and mutations refresh, and has three small protocols of its own.
This project models both, checks them with TLC and proves their main invariants with TLAPS. Source
paths below are relative to `src/backend/app/`, those that end in `.ts` or `.tsx` to
`src/frontend/src/`.

## 1. The system

| Component | State | Operations | Correct when |
|---|---|---|---|
| Scheduler (`workers/scheduler.py`) | none of its own; row locks of its transaction | reset of stale rows; count, batch, filter, round-robin dispatch | a row is dispatched by one run at a time; caps hold; every eligible mail gets its turn |
| process_mail job (`workers/mail_processor.py`) | progress in Valkey | fetch, parse, plugins, IMAP actions, verdict; timeout handler | one job per mail at a time; every run ends in a verdict or a requeue |
| Worker, watchdogs (`workers/worker.py`, `workers/health.py`) | cron table, event handlers | startup reset, stale reset, recovery of paused entities | no mail is lost by a crash; live work is not reset |
| ARQ (external, in Valkey) | `arq:job`, `arq:in-progress`, `arq:result` keys | enqueue, run, retry, expire | a job id is queued or running at most once |
| Queue API (`api/queue.py`) | request transaction | retry, cancel, list | a request takes effect or fails as a whole |
| Poller, IDLE monitor (`workers/mail_poller.py`, `workers/idle_monitor.py`) | IMAP connections, `initial_scan_done` | diff of UIDs, insert, relink after UIDVALIDITY change | each message has one row, also after moves and renumbering |
| Pause and recovery (`workers/health.py`, `services/mail.py`, `services/ai.py`, account and provider APIs) | `is_paused`, `manually_paused`, `consecutive_errors`, `paused_at` | pause on error, circuit breaker, probe, manual pause | a manual pause holds; whatever was paused automatically comes back |
| Pipeline (`workers/pipeline_orchestrator.py`, `workers/plugin_executor.py`) | result rows, approvals, cancel flag | plugins in order, skip, cancel, provider error | partial results are stored or rolled back consistently |
| Approvals (`api/approvals.py`, `workers/approval_executor.py`) | `approvals` rows | approve, reject, edit, delete, execute | an approved action is executed once; a rejected or expired one never |
| IMAP actions (`services/imap_actions.py`) | the mailbox | flags, labels, moves | row and mailbox agree on folder and UID |
| Drafts (`services/draft_upload.py`, `services/draft_cleanup.py`) | `ai_drafts` rows, Drafts folder | upload, clean up | a draft the user still needs is not deleted |
| Query cache of the web client (`App.tsx`, `services/`) | per query: data, staleness, a fetch; mutations under way | observe, fetch, invalidate, mutate | a change the user was told of is shown; a page that polls catches up |
| Pages (`pages/`, `components/`) | forms, dialogs, selections | handlers that send requests and invalidate queries | each handler invalidates what its requests change |
| CRUD routes (`api/`) | rows of their own | read, create, change, delete | (read and write sets only) |
| Mailbox checks (`hooks/use-account-operations.ts`) | store outside the components, an interval timer | start, test, follow a job | the timer runs exactly while a job is followed; every check ends |
| Dry run of the pipeline (`api/pipeline.py`, `pages/plugins.tsx`) | a stream of events, a list of steps | run, read, abort, time out | a finished test shows what became of each plugin; every test ends |
| Folder tree (`pages/smart-folders/`) | cached listing with optimistic changes, expanded rows | rename, delete, reset, exclude, roll back | a settled tree is the server's; its numbers count every mail |
| Rules, spam, contacts, calendar, notifications, plugins, auth, deployment | see `PROJECT.json` | | |

**How they interact.** The poller and the IDLE monitor insert rows as `queued`. The scheduler runs every
minute, after every finished job (each enqueues a run), when IDLE finds new mail, at startup and after a
reactivation. It locks rows one by one with `FOR UPDATE SKIP LOCKED`, enqueues an ARQ job for each, and
commits all of them as `processing` at the end; a request that unpauses or resets an account or a
provider runs the same code in the API process. ARQ runs the job, possibly before that commit; the job
writes its verdict in a transaction of its own, so its `UPDATE` waits for the scheduler's row lock.
Watchdogs (scheduler, health check, startup) return rows in `processing` to `queued` without asking ARQ.
The retry API enqueues a job and commits afterwards. So do the approval routes: a plugin that needs the
user's consent stores an approval, `approve` enqueues a job for it, and the job reads the committed row,
moves the mail, updates its row and stores the plugin's data in sessions of their own.

Jobs, polls, the probe of the health checks and the user all write an account's pause state, each
from a row it read earlier. The web client talks to the API alone. A page observes queries, a handler
sends mutations and afterwards declares queries stale by key, and the cache decides what to fetch;
intervals pick up what workers change. Checks, dry runs and folder changes keep state next to the
cache that survives their page or overlaps with itself. Some handlers show their change in the cache in
advance and put back what was there when it fails; and a route is answered before its session commits.

**What is hard.** Two stores without a common transaction (PostgreSQL and Valkey); deduplication keys
that outlive their jobs; resets that race live jobs; swallowed failures; a timeout handler that may
fire after the verdict; overlapping runs of a scheduler that counts before it locks; probes and
requests that overwrite each other's columns. In the client: answers that arrive after an
invalidation, callbacks dropped with their page, timer callbacks that overlap because they await,
streams cut within an event, rollbacks to a listing that another change has replaced, data served
between an answer and its commit. `PROJECT.json`
lists each hazard at its line with the properties that cover it.

## 2. Modules

| Module | Models | Kind |
|---|---|---|
| `MailQueue` | scheduler, process_mail job, watchdogs, retry request, ARQ keys | state machine with properties |
| `MailLifecycle` | what the queue promises about one mail | abstract specification, implemented by `MailQueue` |
| `MCMailQueue` | small instances of `MailQueue` | constants for TLC |
| `MailQueueProofs` | theorems about `MailQueue` | proofs |
| `ApprovalFlow` | approvals API, execute_approved_actions, what they leave in ARQ, on the server and in the row | state machine with properties |
| `ApprovalLifecycle` | what the approvals promise the user | abstract specification, implemented by `ApprovalFlow` |
| `MCApprovalFlow` | small instances of `ApprovalFlow` | constants for TLC |
| `ApprovalFlowProofs` | theorems about `ApprovalFlow` | proofs |
| `PauseControl` | pausing and recovery of one account: jobs, polls, breaker, probe, requests | state machine with properties |
| `ApiClient` | the endpoints the pages use, with their query keys | definitions |
| `ServerData` | which data each route reads or changes | definitions |
| `WebPages` | per page its queries, intervals and handlers | definitions |
| `QueryCache` | a query's life in the cache | state machine with properties |
| `MCQueryCache` | `QueryCache` with all queries of `WebPages` | constants for TLC |
| `QueryCacheProofs` | theorems about `QueryCache` | proofs |
| `AccountOperations` | mailbox checks and the jobs they follow | state machine with properties |
| `PipelineTest` | generator, stream and dialog of the dry run | state machine with properties |
| `PipelineTestProofs` | theorems about `PipelineTest` | proofs |
| `SmartFolders` | optimistic changes to the cached listing | state machine with properties |
| `SmartFoldersProofs` | theorems about `SmartFolders` | proofs |
| `FolderTree` | building the tree and the numbers on its rows | pure functions, state machine with a property |
| `FolderTreeProofs` | the theorem about `FolderTree` and lemmas about its functions | proofs |
| `AccountsProofs` | theorems about `AccountOperations` and `PauseControl` | proofs |
| `FoldFacts` | lemmas about `FoldLeft` and sums over finite sets, for any operator | lemmas |
| `MCComponents` | the last five state machines, one per behaviour | constants for TLC |

`PROJECT.json` maps every definition to the lines it translates. Definitions named `Bug...` are
mutants: a plausible mistake in the definition that follows them. No specification uses them; each
shows that one of the properties notices that mistake.

### MailQueue

| State | Code |
|---|---|
| `status`, `retries` | committed `tracked_emails.status`, `retry_count` |
| `aged` | rows in PROCESSING with `updated_at` before the cutoff of `stale_job_threshold_seconds` |
| `healthy` | users with an account and AI providers that are not paused |
| `job`, `results` | `arq:job` / `arq:in-progress` and `arq:result` of `process_mail:{account}:{uid}`; "orphan" is a job key whose worker died |
| `rpc`, `todo`, `turn`, `gleft`, `uleft`, `cur`, `held`, `sent` | a run of `_schedule`: place in it, candidates, their round-robin order, global and per-user slots left, row in hand, rows locked, rows enqueued |
| `wpc`, `wmail`, `wgoal`, `wsaw`, `late` | a running `process_mail`: place in it, its mail, the verdict to write, the status it read, whether it is in its timeout handler |
| `asked` | an open `retry_email` request and what its commit will write |
| `up`, `troubles` | the worker process; faults so far |
| `judged` | history, not in the code: mails that their own job has settled, until a retry puts another job into the queue |

| Actions | Code |
|---|---|
| `Begin`, `Load`, `ScheduleNow`, `LockRow`, `PassOver`, `Send`, `SendDuplicate`, `SendFails`, `Commit`, `RollBack` | `schedule_pending_mails`, `schedule_now`, `_schedule` |
| `Start`, `Decide`, `WriteRow`, `WriteFails`, `FailFolder`, `FailFolderFails`, `Timeout`, `Finish` | `process_mail`, `_update_tracked_status`, `_fail_queued_mails_for_folder`, the wrapper in `workers/worker.py` |
| `Crash`, `Restart`, `FailOrphan`, `ExpireResult`, `Age`, `HealthCheck` | death of the worker, `reset_orphaned_jobs`, ARQ and the clock, `cleanup_stale_running_jobs` |
| `Discover`, `Recover`, `RetryRequest`, `RetryCommit`, `RetryAbort` | row insertion, recovery of paused entities, `retry_email` |

What is abstracted: the queries of one `_schedule` before its first lock are one step (they read
committed rows and lock nothing). A mail keeps its folder and UID while it is queued, so its job
id is fixed. The phases of the pipeline between the start of a job and its verdict are one step.
`handle_spam_rejection` runs the pipeline under a job id of its own and is left out here. `Runs` are
scheduler runs of the worker and, those in `ApiRuns`, of the API process: the latter skip the reset of
stale rows, begin while the worker is down and survive its death.
`retry_count` is incremented from the committed value.

`MailLifecycle` says what all this is for: `stage` is absent, pending or settled; a job takes a
mail only when nobody holds it; only its holder, a job that found the folder gone, or the user
changes its stage. `MailQueue` implements it with `stage` read off `status`, `holders` off the
slots and `asked` off the open requests. The scheduler and every watchdog map to stuttering.

### ApprovalFlow

| State | Code |
|---|---|
| `status`, `edited`, `overdue` | committed `approvals.status`, whether `edited_actions` is set, whether `expires_at` has passed |
| `granted` | history, not in the code: the actions the committed approval covered |
| `qpc`, `qop`, `qon` | an open request: place in it, its route, its approval |
| `job`, `tries`, `results`, `respam` | ARQ's keys of `execute_approval:{id}`, `job_try`, result key; the `spam_reprocess` job |
| `xpc`, `xon`, `xsource`, `xfolder`, `xmoved` | a running `execute_approved_actions`: place in it, its approval, `source`, `current_folder` as loaded, `move_outcome.folder` |
| `applied`, `server`, `row` | the actions carried out; the folder the mail is in; `tracked_emails.current_folder` |

| Actions | Code |
|---|---|
| `Create`, `Expire` | `_create_approval`, `_create_manual_input_approval`; the clock |
| `Ask`, `Send`, `CommitRequest`, `AbortRequest` | a request: read and check; flush and enqueue; commit or rollback of `get_session` |
| `Start`, `Load`, `Execute`, `Record`, `Persist`, `Commit`, `Fail`, `Timeout`, `Finish` | `execute_approved_actions`: read, IMAP session, flush of `current_folder`, `_persist_plugin_data`, end of `get_session_ctx`, exceptions, ARQ's timeout |
| `Crash`, `PickUp`, `ExpireResult`, `Reprocess` | death and return of the worker, ARQ, `handle_spam_rejection` |

What is abstracted: PENDING and MANUAL_INPUT, which every handler treats alike, are one status. A
mail is known by its folder, UIDs are left out. A request that is refused changes nothing, also
when the row is overdue: EXPIRED is flushed and the 410 that follows rolls it back. Row locks are
modelled where they matter. The flush of a request locks its approval, and an `UPDATE` of
`current_folder`, part of a unique key, conflicts with the lock that the foreign key of a stored
result takes on the same mail. A job that raises is not run again by ARQ; one whose worker died is,
up to `max_tries`. `handle_spam_rejection` is one step.

`ApprovalLifecycle` says what all this is for. A request that found a row open decides it in one step,
later than others perhaps, but nothing revives a deleted row. An action is begun only while its
approval is committed, by one job at a time, in the version the row has at that moment, and carried
out until that job ends; the user's version is never replaced by the proposed one. `ApprovalFlow`
implements it with `intent` read off the open requests and `working` off the slots that are past their
status check. Row locks, ARQ's keys and tries, the mail's folders and the reprocessing of spam map to
stuttering. Who works belongs to `working`: with the versions alone, a second job in the same version
would look like nothing happening.

### PauseControl

| State | Code |
|---|---|
| `account` | the committed row: `is_paused`, `manually_paused`, `paused_reason`, `paused_at` (never, within the cooldown, before it), `consecutive_errors` up to the breaker's limit |
| `reachable` | the mail server |
| `probes`, `requests` | a run of `_recover_paused_accounts`, a request: place in it and the row it has read |
| `works` | a job or a poll (IDLE alike): place in it |
| `wish`, `crossed` | history: what the last committed request wanted, and whether it overlapped a probe or another change of the pause |

| Actions | Code |
|---|---|
| `Begin`, `Connect`, `PauseAccount`, `UpdateSyncStatus`, `CheckCircuitBreaker` | `process_mail`, `_poll_single_account`, `_pause_account`, `update_account_sync_status`, `check_circuit_breaker` |
| `Select`, `Probe`, `CommitProbe` | `_recover_paused_accounts`, `probe_imap_account` |
| `Ask`, `CommitRequest`, `AbortRequest` | `update_pause_state`, `reset_account_health`, commit or rollback of `get_session` |
| `Outage`, `CoolDown` | the server, the clock |

A session that loaded a row writes the columns whose value it changed, and no others (`Saved`); the
helpers that use an `UPDATE` write theirs whatever the row holds. A NULL reason is not different from
`'circuit_breaker'` in SQL, so the probe does not select it. A probe that dies before its commit has
written nothing and is left out; so are the events after a recovery.

### The web client's cache

`ApiClient` is the generated client: a query has a path, possibly parameters in its key (page number,
filters) and possibly an identifier it waits for. `ServerData` says of each route which kinds of data
it reads or changes, `WebPages` of each page which queries it observes and polls and of each handler
which requests it sends, which queries it declares stale, and where it does so: a callback of the hook
and the code after an `await` always run, a callback handed to `mutate()` is dropped when the page is
left or the hook is used again. `MCQueryCache` makes of them, for every query that is shown
somewhere, the record of what all pages have to do with it.

| State of `QueryCache` | Code |
|---|---|
| `query` | the query a behaviour follows |
| `page`, `here` | the route; whether the parameters chosen there are those of the entry |
| `seen`, `guess`, `stale`, `failed` | the entry: version of its data, less what was taken out in advance, `isInvalidated` or `staleTime` passed, its error |
| `fetch`, `answer` | the fetch and the version in its answer |
| `version`, `calls` | the data on the server; the mutations under way, each with what it overwrote in the cache |
| `announced` | history: the newest change a handler reported as done |

| Actions | Code |
|---|---|
| `Open`, `Choose` | navigation, page numbers, filters and selections: observers come and go |
| `Age`, `Collect`, `Tick`, `Retry`, `Reconnect` | `staleTime`, `gcTime`, `refetchInterval`, the user, `refetchOnReconnect` |
| `Serve`, `Land`, `FetchFails` | a GET reads the data; its answer arrives; it fails after its retry |
| `Start`, `Save`, `Saved` | `mutate` with what the handler does before (`onMutate`, `performOptimisticRemoval`); a handler of two requests, the second in the callback of the first |
| `Commit`, `Fail`, `Succeed` | the route's commit; `onError` with `rollback` or `invalidateQueries`; `onSuccess` with `invalidateQueries` |
| `SucceedEarly`, `CommitLate`, `CommitFails` | the same when the answer precedes the commit, which may then fail |
| `WorkerChanges` | jobs that write what the query reads |

TanStack Query is external: its rules are modelled as the code in `App.tsx` and the pages use
them. Queries do not influence each other, so a behaviour follows one of them.

A write into the cache (`setQueryData`) makes an entry fresh and leaves a fetch under way alone.
`Send` and `Fail` do what the handlers do: the approvals page takes the row out of its list without
cancelling a fetch, puts the old list back on an error, and refreshes it on 409 and 410; the hooks of
the folder tree cancel first, put back and always refresh. A call whose callbacks are gone is
forgotten: all that is left of it is its commit, which is one of `WorkerChanges`.

### The components of the web client with a protocol of their own

| Module | State | Actions |
|---|---|---|
| `AccountOperations` | `operations`, `testing`, `pollTimer` of the store; `asking`, what each callback of the timer has still to ask; `jobs`, `accounts` on the server | `StartTest`, `EndTest`, `StartPoll`, `PollQueued`, `PollRefused`, `Tick`, `Answered`, `Lost`; `Work`, `Forget`, `Delete` |
| `PipelineTest` | `fates`, `settings`, `server`, `at`, `executed` of the generator; `wire`; `buffer`, `loading`, `view` of the dialog | `Respond`, `SendInit`, `SendError`, `SkipPlugin`, `BeginPlugin`, `EndPlugin`, `SendDone`; `RunTest`, `Read`, `ReadEnd`, `Timeout`, `Break`, `Close` |
| `SmartFolders` | `mailbox` on the server; `shown`, `outdated`, `broken`, `fetching`, `arriving` of the cache entry; `changes`, each with the listing it would restore; `owed`, requests over for the page but not for the server; `overtaken`, history: one of them came true after the last listing was served | `handleDragEnd`, `handleToggleExclude`, `handleDelete` (a smart folder's reset included), `Perform`, `AnswerFirst`, `PerformLate`, `Refuse`, `Settle`; `Enter`, `Leave`, `GrowOld`, `FetchAgain`, `List`, `Arrive`, `ListFails` |
| `FolderTree` | `listing`, `expandedPaths` | `toggleExpanded`, `Refetched`; `buildFolderTree`, `computeTotals`, `Badge` are functions |

What is abstracted: a plugin's answer is one of five fates and an event on the wire two halves and a
blank line, enough for the network to cut it anywhere. A folder is the sequence of its names; one mail
in each makes a lost or doubled number visible. Toasts, forms and the order of rows are left out.

## 3. Runs

| Run | Instance | Shows |
|---|---|---|
| `safety` | 2 mails of one user in one folder, a scheduler run of the worker and one of the API, 2 job slots of which the scheduler leaves one free, 1 fault, retries | the safety invariants, `SettledIsFinal`, `ImplementsLifecycle` |
| `caps` | 3 mails of 2 users, 1 scheduler run, 2 slots, no retry request | `CapsRespected` |
| `liveness` | 2 mails, 1 run, 1 slot, 2 faults, retries | `EveryMailSettles` |
| `overlap` | 2 mails, 2 runs, no fault | `CapsRespected` is violated |
| `orphans` | 1 mail, 1 crash | `ResetRowsHaveNoJob` is violated |
| `starvation` | 4 mails of 2 users, 1 slot, one user stays paused | `HealthyUsersAreServed` is violated |
| `decisions` | 1 spam approval, 3 requests, 1 executor, 3 faults | the safety properties of the approvals, `ImplementsLifecycle` |
| `executions` | folder and summary approval of one mail, 2 executors, 1 fault | `ExecutionsEnd`, `ImplementsLifecycle` |
| `approval_race` | 1 approval, no fault | `ApprovalsAreExecuted` is violated |
| `approval_move` | 1 folder approval, no fault | `RowFollowsMail` is violated |
| `query_cache` | every query of every page; 2 mutations, 2 changes, 1 failing fetch | `AnnouncedChangesShow`, `PolledQueriesConverge` |
| `components` | one behaviour per component: 2 accounts, jobs and callbacks; 2 plugins and 2 tests; 3 folders and 2 changes; listings of 3 of 6 folders; 1 job, probe and request | the properties of `AccountOperations`, `PipelineTest`, `SmartFolders`, `FolderTree` and `PauseControl` |

**The properties.** `HeldRowsStayQueued`: between a run's row lock and its commit, nobody else touches
the row, so PROCESSING never overwrites a verdict, although the job is already in ARQ's queue and may
even have finished its pipeline. `OneJobPerMail`: resets, retries and deleted result keys requeue mails
whose jobs are alive; the job key alone keeps them from running twice. `SettledIsFinal`: a settled mail
is reopened by its user's retry, by the timeout of its own job, or by an error of its own job that has
given no verdict yet: a mail that another job failed with its folder has a job that may still find the
provider down and requeue it. Once its own job has settled it (`judged`), only that job's timeout is
left, and no job the scheduler has sent begins after that. `CapsRespected`: the per-user and global
caps, rows enqueued but not committed included. `EveryMailSettles`: no mail is lost to swallowed
updates, stale dedup keys, rollbacks or crashes. `OnlyGrantedIsApplied`: the job is enqueued before the
approval is committed and survives its rollback, yet nothing is done that was never approved.
`EditedActionsWin`: where the user had edited before approving, the edited actions are the ones carried
out, after any crash or delay. `OnlyDecidedAreDeleted`: requests that read the same row and commit one
after the other never delete what is open, reopen what is decided, or revive what is deleted.
`RejectionsAreReprocessed`: no rejection of spam is committed without its reprocessing job.
`RowFollowsMail`: after a move without faults the row names the mail's folder; it is violated, and
`SoleMovesAreRecorded` states it for the mails of `SolelyMoved`, which one approval moves and none both
moves and stores about. `ExecutionsEnd`: every execution ends, whatever locks it waits for.

`AnnouncedChangesShow`: when a handler reported a change as done, a page that shows the query and waits
for nothing shows it, whatever fetches were cancelled, overtaken or failed. It claims this for handlers
that declare stale what they change; `KnownStale` in `MCQueryCache` lists the pairs that do not, and the
assumption `KnownStaleIsExact` that no other pair, and every listed one, is such.
`PolledQueriesConverge`: a polled page left alone comes to show what the server has. `TimerRunsForJobs`:
overlapping callbacks neither leak the timer nor stop it while a job is followed. `EveryCheckEnds`: no
account's button stays disabled, unless the account is deleted, whose job is asked for until the tab is
closed. `FinishedTestsShowResults`, `NoStepLeftRunning`, `EveryTestEnds`: however the stream is cut,
stalled or broken, a test ends and its steps are right. `SettledTreeIsServers`: changes, rollbacks to
each other's listings and cancelled fetches leave no trace in a fresh listing, unless a request comes
true after that listing was served. `BadgesCountEveryMail`: the numbers one sees add up to all mails,
whatever order the folders came in and whatever is collapsed. `ManualPauseHolds`: neither job, poll,
breaker nor probe undoes a pause of the user that overlapped none of them. `AutomaticPausesEnd`: a pause
for an error ends once the server answers for good.

**What these properties except, because the code does it.** A probe that read the account before the
user paused it commits `is_paused = False` over his pause and leaves `manually_paused` set; a later
error then pauses the account in a way no probe ends. A resumption that read the row before a job paused
it clears the reason alone, and no probe sees a pause without a reason. The breaker's pauses are ended
by nobody: the probe skips them for a recovery "of its own" (`workers/health.py:360`) that has no
caller. In the client, the answer of a first load, and one that nobody observes, is not cancelled by an
invalidation, so an older answer may land after it; the announcement does not count then. Nor does it
count any longer when the approvals page writes older data over it, by an optimistic removal or its
rollback (`Overwrite` takes back what these data do not show, and no more), or when the data were served
after the answer and before the commit (`Missed`). `Settling`: between `onMutate` and `onSettled` of a
folder hook the page still waits for data. Polled lists, that of the approvals among them, converge all
the same once nobody changes anything: `PolledQueriesConverge` excepts none of this. In the folder tree
a request that comes true late leaves the tree behind until the next fetch (`overtaken`).

**What the violated ones show.** They are quoted with the code in `PROJECT.json` (findings).
`overlap`: free slots are counted without a lock, so parallel scheduler runs together exceed the
caps. `orphans`: the startup reset assumes that ARQ jobs die with the worker; their keys are in
Valkey and survive. `starvation`: the batch limit applies before mails of paused users are dropped,
so one user's backlog can keep all others waiting. `approval_race`: the job of an approval
may start before the approval is committed, find it pending and end; nothing runs it again.
`approval_move`: the job of a smart folder approval locks the mail's row in one session and waits
for that lock in another until ARQ cancels it; the mail has moved and its row has not.

**Bounds.** `MaxTroubles` bounds, together, the faults, the errors that requeue a mail, timeouts, lost
updates, retry requests and crashes; without it requeues go on forever. One of them under two
overlapping runs and two slots lets a recovery path meet every other actor, and what the proofs below
show holds without any bound; the liveness run has two, so that the recovery itself can fail.
`Retryable` bounds the mails whose user may press Retry. Two mails are enough for two runs to compete
and for one mail to fail another's folder; with one slot of the scheduler and two of ARQ
(`scheduler_reserved_slots` is the difference) a run goes on to the second mail when the first is taken
or its job is a duplicate, and runs that overlap send both; three mails of two users for the caps to
bind one user and not the other; four for a batch of three to hide the last. Three requests let two race
and a third delete the row between them; three tries are the code's `max_tries` (two in `executions`,
where one crash is all that can happen). Runs, slots, requests and executors are symmetric; the liveness
runs do not use that.

In the client, two mutations and two changes let one invalidate what the other has refetched, and one
failure comes between; what the proofs show needs no bound. `MaxLost`, `MaxRuns`, `MaxStarted`,
`MaxChanges` and `MaxFaults` bound lost answers, tests, folder changes, versions and failing fetches.
Two callbacks of the timer overlap, and a third would only wait behind the same accounts. Two plugins
give every order of skipped, failing, passing and ending ones, and a second test meets the remains of
the first. Three folders suffice for one to be moved below another while a third changes; six are
nested three deep with system names at the top and below. The connection tests of accounts share no
state with the checks and end before the first check (`TestsFirst`), which keeps the instance small.
`MaxErrors` is 2: one error counts and the next trips.

**Fairness.** Cron runs, ARQ's loop and clocks keep going: weak fairness on the steps of a run, of a
job and of ARQ. A writer that waits for a row lock competes with runs that lock the row one after
the other; PostgreSQL queues lock waiters, hence strong fairness on `WriteRow`, `FailFolder` and
`RetryCommit`. Nothing is assumed of users, of faults, of the expiry of result keys (the scheduler
must get past them by itself) or of the health check. `FairSpec` of `MailQueue` also assumes that
paused entities recover (`Recovery`); `starvation` drops that for its paused user. In `ApprovalFlow`
requests may hang forever; jobs, ARQ's timeout and its pick-up of dead jobs do happen.
In the client fetches are answered and intervals elapse while the tab is visible. A check's request
ends, its timer ticks, answers arrive or are lost, and the worker gets its jobs done. A request for a
dry run is answered or fails and the page goes on with what it has, its timeout included; of
the stream and the plugins nothing is assumed. `PauseControl` assumes that a cooldown elapses and
that the probe, a cron job of every minute, runs and ends; nothing is assumed of jobs and users.

**Deadlock** is checked in the runs of `MailQueue`. The approval runs switch it off: when every
approval is deleted and all jobs are over, nothing is left to do. So do `query_cache` and
`components`: a user may do nothing.

## 4. Proofs

All theorems hold for every number of mails, users, runs, slots, approvals, requests and executors, of
queries, handlers, accounts, callbacks, folder changes, jobs, probes, plugins, tests and listed
folders, under the named assumptions of the modules: mails and users are finite sets (cardinalities
count them), `NoMail` and `None` are no mail, approval or folder, the per-mail functions have their
types, a folder is a sequence of names (nonempty where the tree is built), no folder of the account is
called as the virtual row of the system folders (`__system__`, which the page uses as a path of its
own), and the bounds are naturals. TLC evaluates the assumptions in every run.

`MailQueueProofs` proves that `Consistency` is invariant and from it `TypeOK`, `HeldRowsStayQueued`,
`OneJobPerMail`, `SettledIsFinal` and `ImplementsLifecycle`. None of the first three is inductive alone.
A row stays QUEUED while it is held only if runs that are idle or loading hold none and send only rows
they hold (`RunsConsistent`). Two slots never share a mail only if a busy slot's mail has a running job
key (`JobsConsistent`), because ARQ starts waiting jobs only. Slots counted down stay natural because a
run sends only while both counters are positive. The refinement also needs that jobs and requests
concern rows that exist and that nothing runs while the worker is down but runs of the API
(`RowsExist`). `SettledIsFinal` needs `JudgedAreDone`: no job waits for a mail its own job has settled,
and the one that holds it is past its verdict or late. The proof that a step preserves the invariant has
one lemma per part, each with one case per action; that of the refinement maps each action to one of
`MailLifecycle` or to a stutter.

`SingleRunCaps` proves `CapsRespected` under two assumptions, at most one scheduler run and no retry
request; run `overlap` shows that the first is needed, and a retried mail is dispatched without asking
for a slot. `CapsConsistent` strengthens it: from its load to its commit, what a run has left and what
is claimed (PROCESSING, or sent by the open run) together stay below the caps. Only `Send` claims a
mail and it uses up a slot; every other step claims none (`ClaimNothing`).

`ApprovalFlowProofs` proves its `Consistency` in the same way and from it `TypeOK`,
`OnlyGrantedIsApplied`, `EditedActionsWin`, `RejectionsAreReprocessed` and `OnlyDecidedAreDeleted`.
The additional parts: at most one request has a flushed row in its hands, that row exists, and a
deletion is never asked for an open one (`RequestsConsistent`: the row lock at work); a job past its
status check works for a granted approval, with the user's actions if he had edited them
(`JobsConsistent`); an approved row has a grant, an edited grant an edited row, and tries follow the
job key (`RowsConsistent`). `ApprovalLifecycleImplemented` is the refinement. It needs two more
invariants: a job is in one slot at most (`SlotsConsistent`), so that nobody else works when a job
begins; and `EditsStay`, what was edited stays edited and a job acting after the user's version was
carried out acts in that version, too.

Of `RowFollowsMail` the part that holds is proved: `SoleMovesRecorded` states `SoleMovesAreRecorded`
without any assumption on which approvals there are. It is about the mails of `SolelyMoved`, each for
itself, and both conditions are needed. An approval that moves its mail and stores a row about it, as
every smart folder approval does, is what run `approval_move` shows; `StoredMovesLost` proves the
other side, that the row of a mail with such approvals only is never written. And let two approvals move
one mail in two slots, and TLC finds a row that names the folder of the loser without any fault. The
invariant, `MoveConsistent`, is about runs without a fault: the row is right, or one job is in its
record, persist or commit step with the folder the mail is in; and a job about to move has read the
row of a mail nobody else can move (`SoleMoversAlone`, by `SlotsConsistent`). Jobs of other approvals,
storing or moving, may be anywhere meanwhile.

`QueryCacheProofs` proves `TypeOK` and `AnnouncedChangesShow`. The property speaks of a cache at rest;
what leads there are `AnswersAreNew` (an answer under way is at least as new as what was announced) and
`OldDataAreStale` (data older than the announcement are marked as stale), together with `CallsCohere`
and `AnnouncedIsCommitted` (a mutation that has been answered carries a version the server has). A
change answered before its commit counts as announced from the commit on, if nothing was served in
between: as long as it is `late`, no answer is under way and no data at rest count as fresh (`Unserved`,
`LateAreUnserved`). It uses the assumption `Coherence`, that a handler refreshes what the user is told
of, and that one that cancels fetches refreshes whatever becomes of it, which TLC evaluates for all
pages.

`AccountsProofs` proves the types of the mailbox checks and `TimerRunsForJobs`, which is inductive:
every callback compares the operations it leaves behind with the timer in one step. It also proves the
types of the pause state and `ManualPauseHolds`, with `NoProbeOfPaused`: as long as the pause holds no
probe is under way, since the one that could end it must have read an account that was not paused by
the user. The lemma `SavedRow` says what a partial write of a row leaves.

`SmartFoldersProofs` proves `SettledTreeIsServers` from `Settled`: with no change under way and none
come true since the listing was served, an answer that is arriving is the mailbox; a closed page has no
fetch, so declaring the listing stale always reaches it; and a fetch that is aborted leaves a listing
known to be old. It holds for any mailbox and any number of changes. The types (`FoldersTypes`) rest on
`NamePaths`: renaming a path with all below it keeps sequences of names.

`PipelineTestProofs` proves the properties of the dry run from `PipelineInv`. Neither side of the
stream knows what the other has done, so the invariant compares them by what is still to come:
`Pending` are the events in the buffer and on the wire, and `Told`, the view after handling all of
them, shows what the server has done, wherever the network cuts. A step of the server adds one event
and changes `Told` by it; reading changes `Told` not at all, because parsing a stream in parts is
parsing it whole (`ParsedInParts`). `LastStepFacts` and `ResultFacts` say where the pipeline ends,
hence what a finished test must show.

`FolderTreeProofs` proves `BadgesCountEveryMail`. The page builds a tree folder by folder and sums up
by recursion; the proof replaces each by a set. `TreeIsBuilt`: the rows are the listed folders and
everything above them. `TotalsAreSizes`: the total of a row is the number of listed folders at or
below it, by `SumOfSizes` (a sum of sizes of disjoint sets is the size of their union, whatever order
the elements are taken in) and because the equation of the totals has one solution (`TotalsUnique`, by
induction on the length of the paths). `BadgeIsSize` does the same for the badge, which depends on
what is expanded and on the system row. What remains is that the sets behind the visible rows divide
the listed folders: each is counted somewhere (`SeenSomewhere`) and nowhere twice (`SeenOnce`).

`FoldFacts` holds what both need of folds. The operators of the community modules fold by a function
on sets that is chosen, so it must first be shown to exist (`FoldExists`); then a left fold is the end
of a walk along the sequence (`FoldLeftUnfolds`), and of two sequences in a row the fold of the second
from the result of the first. The induction is one over a set of numbers (`NatSetInduction`, from the
well-foundedness of `<`), since the library's principle takes an operator the provers cannot
instantiate; the folded operator is a constant of the module instead.

Every invariant and every safety property of a passing run is thus the subject of a theorem. Only
model-checked are the liveness properties `EveryMailSettles`, `ExecutionsEnd`,
`PolledQueriesConverge`, `EveryCheckEnds`, `EveryTestEnds` and `AutomaticPausesEnd`: they need
fairness and `ENABLED`, which are outside what the prover handles. `CapsRespected` is
proved under the assumptions above and violated without them, and of `RowFollowsMail` a part is proved,
as the runs show.
The other violated properties are not theorems.

## 5. Not modelled yet, and the plan

In this order; the list of hazards without a property in `PROJECT.json` is the work list.

1. `MailIdentity`: discovery by poller and IDLE monitor (`workers/mail_poller.py`,
   `workers/idle_monitor.py`), UIDVALIDITY relinking, the initial scan, relocation, moves by the
   pipeline and by the user, the unique keys. Abstract specification: one row per message that
   finally names its folder. Composes with the move of `ApprovalFlow`. To prove: the unique keys and
   that a relinked row is not taken for another message.
2. `Pipeline`: plugin order, the cancel flag and its expiry, provider errors that roll back the
   batch, approvals that already exist on reprocessing, `handle_spam_rejection` beside process_mail.
   It refines the one step `Decide` of `MailQueue`. To prove: results and verdict agree.
3. `DraftCleanup`, contact synchronisation; pure algorithms against reference definitions: rule
   evaluation, backoff, the round-robin order.

Why these are left: what is known of `MailIdentity` are mostly disagreements (a relink after a
UIDVALIDITY change can violate the unique keys; a verdict is written by folder and UID after the mail
has moved), each of which needs a run of its own, and the pipeline's interest is in what its plugins
store, which the models here treat as one step.

**Limits of what is modelled.** Sessions commit when the endpoint has returned and, with this version of
FastAPI, its response was sent (`core/database.py:58-64`). `QueryCache` and `SmartFolders` have both
orders, and commits that fail after a success was answered; `ApprovalFlow`, `MailQueue` and
`PauseControl` do not show answers. A request of the API that unpauses something runs the scheduler in
another session, which does not see it unpaused yet; in `MailQueue` eligibility is one flag that is
committed at once. An answer that is lost belongs to a request that was carried out, will be, or never
reached the server. Providers pause and recover as accounts do, with counters of their own, and are one
flag per user. The reprocessing guard of smart folders and other sessions that change folders are left
out. Known, stated nowhere as wrong by the documents, and not a property here: exclusions computed from
a rolled-back listing overwrite later ones, and concurrent edits of templates, tool modes and plugin
assignments lose updates, as the client sends whole values. Editing races of prompts are not modelled.
Code no route reaches (`pages/rules/`, `components/plugin-prompt-editor.tsx`) and calls without a route
in the backend (`addUrl`, `removeUrl`, `testNotification`) are left out.

Not planned: the rows of CRUD routes, authentication, notifications, calendar requests, rendering and
the deployment; they keep no protocol state of their own or only call out. Drafts and moves are left to
the modules above. The reasons are in `PROJECT.json`, component by component.

## 6. Running it

`tlc -config MailQueueSafety.cfg MCMailQueue` (and so on for each run of `PROJECT.json`,
`tlc -config QueryCache.cfg MCQueryCache` and `tlc -config Components.cfg MCComponents` among them)
checks a run, from a second to about four minutes. `tlapm MailQueueProofs.tla`, and likewise for
`ApprovalFlowProofs`, `QueryCacheProofs`, `AccountsProofs`, `SmartFoldersProofs`, `PipelineTestProofs`,
`FolderTreeProofs` and `FoldFacts`, checks the proofs, each in a minute or a few.
