----------------------------- MODULE MailQueue -----------------------------
(***************************************************************************)
(* The mail processing queue of the worker: tracked_emails rows, scheduler *)
(* transactions (workers/scheduler.py) that lock rows and enqueue ARQ jobs *)
(* before they commit, process_mail jobs (workers/mail_processor.py), the  *)
(* reset of stale and orphaned rows (workers/health.py), the retry request *)
(* of the queue API (api/queue.py) and ARQ's job and result keys.          *)
(*                                                                         *)
(* A row's ARQ job id is fixed here: a mail is not moved while it is       *)
(* queued.  Everything a user's accounts and AI providers contribute to    *)
(* eligibility is one flag per user, `healthy'.  handle_spam_rejection,    *)
(* which runs the same pipeline under a job id of its own, is left out.    *)
(***************************************************************************)
EXTENDS Naturals, FiniteSets

CONSTANTS
    Mails,          \* rows of tracked_emails, and their ARQ job ids
    Users,
    Runs,           \* scheduler runs that may overlap
    ApiRuns,        \* those that a request runs in the API process
    Slots,          \* ARQ slots for process_mail
    NoMail,         \* not a mail
    UserOf,         \* the user a mail belongs to
    FolderOf,       \* the IMAP folder a mail was found in
    CreatedAt,      \* rank of a mail by created_at
    ProcessSlots,   \* worker_max_jobs - scheduler_reserved_slots
    BatchPerSlot,   \* candidates loaded per free slot (3 in the code)
    MaxBatch,       \* scheduler_max_batch
    MaxConcurrent,  \* max_concurrent_processing of a user
    Retryable,      \* bound: the mails whose user may press Retry
    MaxTroubles     \* bound: requeues, timeouts, retries, faults and crashes

ASSUME NoMailAssumption == NoMail \notin Mails
ASSUME ApiRunsAssumption == ApiRuns \subseteq Runs
ASSUME FiniteAssumption == IsFiniteSet(Mails) /\ IsFiniteSet(Users)
ASSUME LayoutAssumption ==
    /\ UserOf \in [Mails -> Users]
    /\ CreatedAt \in [Mails -> Nat]
    /\ MaxConcurrent \in [Users -> Nat]
    /\ Retryable \subseteq Mails
ASSUME BoundsAssumption ==
    /\ ProcessSlots \in Nat \ {0}
    /\ BatchPerSlot \in Nat
    /\ MaxBatch \in Nat
    /\ MaxTroubles \in Nat

VARIABLES
    (* tracked_emails, as committed *)
    status,     \* status[m]: "absent" until the row is inserted
    retries,    \* retries[m]: retry_count
    aged,       \* rows in PROCESSING whose updated_at is past the cutoff
    judged,     \* history: mails that their own job has settled, and for which
                \* no retry has put another job into the queue since
    (* accounts and providers *)
    healthy,    \* users whose account and assigned providers are not paused
    (* ARQ, in Valkey *)
    job,        \* job[m]: "none", "waiting", "running" or "orphan"
    results,    \* jobs whose arq:result key exists
    (* scheduler runs *)
    rpc, todo, turn, gleft, uleft, cur, held, sent,
    (* process_mail jobs *)
    wpc, wmail, wgoal, wsaw, late,
    (* the rest *)
    asked,      \* asked[m]: what an open retry request will write
    up,         \* the worker process runs
    troubles    \* troubles so far, for the bound

rowVars == <<status, retries, aged, judged>>
arqVars == <<job, results>>
runVars == <<rpc, todo, turn, gleft, uleft, cur, held, sent>>
jobVars == <<wpc, wmail, wgoal, wsaw, late>>
envVars == <<asked, up, troubles>>
vars == <<rowVars, healthy, arqVars, runVars, jobVars, envVars>>

Status == {"absent", "queued", "processing", "completed", "failed"}
Settled == {"completed", "failed"}
Goals == {"completed", "failed", "folder_gone", "queued"}

Init ==
    /\ status = [m \in Mails |-> "absent"]
    /\ retries = [m \in Mails |-> 0]
    /\ aged = {}
    /\ judged = {}
    /\ healthy = Users
    /\ job = [m \in Mails |-> "none"]
    /\ results = {}
    /\ rpc = [r \in Runs |-> "idle"]
    /\ todo = [r \in Runs |-> {}]
    /\ turn = [r \in Runs |-> [m \in Mails |-> 0]]
    /\ gleft = [r \in Runs |-> 0]
    /\ uleft = [r \in Runs |-> [u \in Users |-> 0]]
    /\ cur = [r \in Runs |-> NoMail]
    /\ held = [r \in Runs |-> {}]
    /\ sent = [r \in Runs |-> {}]
    /\ wpc = [s \in Slots |-> "idle"]
    /\ wmail = [s \in Slots |-> NoMail]
    /\ wgoal = [s \in Slots |-> "queued"]
    /\ wsaw = [s \in Slots |-> "absent"]
    /\ late = [s \in Slots |-> FALSE]
    /\ asked = [m \in Mails |-> "no"]
    /\ up = TRUE
    /\ troubles = 0

-----------------------------------------------------------------------------
(* Helpers *)

InStatus(st) == {m \in Mails : status[m] = st}

\* Mutant: the rows are read without FOR UPDATE.
BugUnlocked(m) == m \in Mails

\* A row is locked from SELECT ... FOR UPDATE to the end of the run's
\* transaction; every other writer waits for it.
Unlocked(m) == \A r \in Runs : m \notin held[r]

\* Mutant: the dispatch looks at the result key only.
BugFresh(m) == m \notin results

\* enqueue_job refuses a job id whose job key or result key exists.
Fresh(m) == job[m] = "none" /\ m \notin results

Minus(a, b) == IF a > b THEN a - b ELSE 0
LeastOf(a, b) == IF a < b THEN a ELSE b

Trouble == troubles < MaxTroubles /\ troubles' = troubles + 1

-----------------------------------------------------------------------------
(* What a run loads: the candidates and the order in which it visits them *)

Precedes(m, n) ==
    \/ retries[m] < retries[n]
    \/ retries[m] = retries[n] /\ CreatedAt[m] < CreatedAt[n]

\* ORDER BY retry_count, created_at LIMIT limit
Batch(limit) ==
    {m \in InStatus("queued") :
        Cardinality({n \in InStatus("queued") : Precedes(n, m)}) < limit}

\* The place of m in its own user's queue.
Place(M, m) == Cardinality({n \in M : UserOf[n] = UserOf[m] /\ Precedes(n, m)})

FirstOf(M, m) == CHOOSE n \in M : UserOf[n] = UserOf[m] /\ Place(M, n) = 0

\* Round-robin: first mails of all users first, users in order of appearance.
VisitedBefore(M, n, m) ==
    \/ Place(M, n) < Place(M, m)
    \/ /\ Place(M, n) = Place(M, m)
       /\ Precedes(FirstOf(M, n), FirstOf(M, m))

TurnOf(M) ==
    [m \in Mails |-> IF m \in M THEN Cardinality({n \in M : VisitedBefore(M, n, m)})
                                ELSE 0]

GlobalFree == Minus(ProcessSlots, Cardinality(InStatus("processing")))

UserFree(u) ==
    Minus(MaxConcurrent[u],
          Cardinality({m \in InStatus("processing") : UserOf[m] = u}))

\* The limit applies before paused accounts and providers are filtered out.
Candidates ==
    {m \in Batch(LeastOf(BatchPerSlot * GlobalFree, MaxBatch)) : UserOf[m] \in healthy}

-----------------------------------------------------------------------------
(* Scheduler runs *)

EndRun(r) ==
    /\ rpc' = [rpc EXCEPT ![r] = "idle"]
    /\ todo' = [todo EXCEPT ![r] = {}]
    /\ turn' = [turn EXCEPT ![r] = [m \in Mails |-> 0]]
    /\ gleft' = [gleft EXCEPT ![r] = 0]
    /\ uleft' = [uleft EXCEPT ![r] = [u \in Users |-> 0]]
    /\ held' = [held EXCEPT ![r] = {}]
    /\ sent' = [sent EXCEPT ![r] = {}]
    /\ cur' = [cur EXCEPT ![r] = NoMail]

\* Mutant: the watchdog touches the rows but leaves them in PROCESSING.
BugResetStale == aged' = {} /\ UNCHANGED <<status, retries, judged>>

\* _reset_stale_processing: rows too long in PROCESSING go back to QUEUED.
ResetStale ==
    /\ status' = [m \in Mails |->
                    IF m \in aged /\ status[m] = "processing" THEN "queued" ELSE status[m]]
    /\ aged' = {}
    /\ UNCHANGED <<retries, judged>>

\* schedule_pending_mails, by cron or after a job: reset, commit, then schedule.
Begin(r) ==
    /\ up /\ r \notin ApiRuns /\ rpc[r] = "idle"
    /\ ResetStale
    /\ rpc' = [rpc EXCEPT ![r] = "load"]
    /\ UNCHANGED <<healthy, arqVars, todo, turn, gleft, uleft, cur, held, sent, jobVars, envVars>>

\* Steps 0 to 6 of _schedule: counts, candidates and their order, as committed.
Schedule(r) ==
    /\ IF GlobalFree = 0 \/ Candidates = {}
       THEN EndRun(r)
       ELSE /\ rpc' = [rpc EXCEPT ![r] = "pick"]
            /\ todo' = [todo EXCEPT ![r] = Candidates]
            /\ turn' = [turn EXCEPT ![r] = TurnOf(Candidates)]
            /\ gleft' = [gleft EXCEPT ![r] = GlobalFree]
            /\ uleft' = [uleft EXCEPT ![r] = [u \in Users |-> UserFree(u)]]
            /\ UNCHANGED <<cur, held, sent>>
    /\ UNCHANGED <<rowVars, healthy, arqVars, jobVars, envVars>>

Load(r) == rpc[r] = "load" /\ Schedule(r)

\* schedule_now skips the reset.  The worker calls it at startup and when an
\* entity is reactivated, the API when a user unpauses or resets an account or
\* a provider, whether there is a worker or not.
ScheduleNow(r) ==
    /\ up \/ r \in ApiRuns
    /\ rpc[r] = "idle"
    /\ Schedule(r)

\* The queue of a user without free slots is cleared.
Open(r) == {m \in todo[r] : uleft[r][UserOf[m]] > 0}

\* The next mail is taken off its queue.
Visit(r, m) ==
    /\ rpc[r] = "pick" /\ gleft[r] > 0
    /\ m \in Open(r)
    /\ \A n \in Open(r) : turn[r][m] <= turn[r][n]
    /\ todo' = [todo EXCEPT ![r] = @ \ {m}]
    /\ turn' = [turn EXCEPT ![r][m] = 0]

\* Mutant: the row is locked without asking whether it is still QUEUED.
BugLockRow(r, m) ==
    /\ Visit(r, m)
    /\ status[m] # "processing" /\ Unlocked(m)
    /\ held' = [held EXCEPT ![r] = @ \cup {m}]
    /\ cur' = [cur EXCEPT ![r] = m]
    /\ rpc' = [rpc EXCEPT ![r] = "send"]
    /\ UNCHANGED <<rowVars, healthy, arqVars, gleft, uleft, sent, jobVars, envVars>>

\* SELECT ... WHERE status = QUEUED FOR UPDATE SKIP LOCKED finds the row.
LockRow(r, m) ==
    /\ Visit(r, m)
    /\ status[m] = "queued" /\ Unlocked(m)
    /\ held' = [held EXCEPT ![r] = @ \cup {m}]
    /\ cur' = [cur EXCEPT ![r] = m]
    /\ rpc' = [rpc EXCEPT ![r] = "send"]
    /\ UNCHANGED <<rowVars, healthy, arqVars, gleft, uleft, sent, jobVars, envVars>>

\* ... or finds it taken by another run or no longer QUEUED.
PassOver(r, m) ==
    /\ Visit(r, m)
    /\ status[m] # "queued" \/ ~ Unlocked(m)
    /\ UNCHANGED <<rowVars, healthy, arqVars, rpc, gleft, uleft, cur, held, sent,
                   jobVars, envVars>>

Sending(r) ==
    /\ rpc[r] = "send"
    /\ rpc' = [rpc EXCEPT ![r] = "pick"]
    /\ cur' = [cur EXCEPT ![r] = NoMail]
    /\ UNCHANGED <<rowVars, healthy, todo, turn, held, jobVars, asked, up>>

\* Mutant: a dispatched mail does not use up a slot of its user.
BugSend(r) ==
    LET m == cur[r] IN
    /\ Sending(r)
    /\ Fresh(m)
    /\ job' = [job EXCEPT ![m] = "waiting"]
    /\ sent' = [sent EXCEPT ![r] = @ \cup {m}]
    /\ gleft' = [gleft EXCEPT ![r] = @ - 1]
    /\ UNCHANGED <<results, uleft, troubles>>

\* The job is in ARQ's queue while the row's PROCESSING is not committed yet.
Send(r) ==
    LET m == cur[r] IN
    /\ Sending(r)
    /\ Fresh(m)
    /\ job' = [job EXCEPT ![m] = "waiting"]
    /\ sent' = [sent EXCEPT ![r] = @ \cup {m}]
    /\ gleft' = [gleft EXCEPT ![r] = @ - 1]
    /\ uleft' = [uleft EXCEPT ![r][UserOf[m]] = @ - 1]
    /\ UNCHANGED <<results, troubles>>

\* Deduplicated: delete the result key (a failure is logged), put the row back
\* to QUEUED.
SendDuplicate(r) ==
    /\ Sending(r)
    /\ ~ Fresh(cur[r])
    /\ \/ results' = results \ {cur[r]} /\ UNCHANGED troubles
       \/ Trouble /\ UNCHANGED results
    /\ UNCHANGED <<job, sent, gleft, uleft>>

\* enqueue_job raises; the job may have reached Valkey all the same.
SendFails(r) ==
    /\ Sending(r)
    /\ Trouble
    /\ \/ UNCHANGED job
       \/ Fresh(cur[r]) /\ job' = [job EXCEPT ![cur[r]] = "waiting"]
    /\ UNCHANGED <<results, sent, gleft, uleft>>

Commit(r) ==
    /\ rpc[r] = "pick"
    /\ gleft[r] = 0 \/ Open(r) = {}
    /\ status' = [m \in Mails |-> IF m \in sent[r] THEN "processing" ELSE status[m]]
    /\ EndRun(r)
    /\ UNCHANGED <<retries, aged, judged, healthy, arqVars, jobVars, envVars>>

\* The database fails or the run times out: rollback, the jobs stay enqueued.
RollBack(r) ==
    /\ rpc[r] # "idle"
    /\ Trouble
    /\ EndRun(r)
    /\ UNCHANGED <<rowVars, healthy, arqVars, jobVars, asked, up>>

-----------------------------------------------------------------------------
(* process_mail jobs *)

\* ARQ starts a waiting job in a free slot.
Start(s, m) ==
    /\ up /\ wpc[s] = "idle"
    /\ job[m] = "waiting"
    /\ job' = [job EXCEPT ![m] = "running"]
    /\ wpc' = [wpc EXCEPT ![s] = "work"]
    /\ wmail' = [wmail EXCEPT ![s] = m]
    /\ UNCHANGED <<rowVars, healthy, results, runVars, wgoal, wsaw, late, envVars>>

\* _update_tracked_status selects the row, then writes what it decided.
ReadRow(s, goal) ==
    /\ wgoal' = [wgoal EXCEPT ![s] = goal]
    /\ wsaw' = [wsaw EXCEPT ![s] = status[wmail[s]]]
    /\ wpc' = [wpc EXCEPT ![s] = "write"]

\* Phases 1 to 4 end with a verdict.  An IMAP or provider error pauses the
\* account or the provider (when it is known) and requeues the mail.
Decide(s) ==
    /\ wpc[s] = "work"
    /\ \/ /\ \E goal \in {"completed", "failed", "folder_gone"} : ReadRow(s, goal)
          /\ UNCHANGED <<healthy, troubles>>
       \/ /\ ReadRow(s, "queued")
          /\ Trouble
          /\ healthy' \in {healthy, healthy \ {UserOf[wmail[s]]}}
    /\ UNCHANGED <<rowVars, arqVars, runVars, wmail, late, asked, up>>

\* The update is over; a missing folder is reported to the other mails next.
Written(s) ==
    /\ wpc[s] = "write"
    /\ wpc' = [wpc EXCEPT ![s] = IF wgoal[s] = "folder_gone" THEN "bulk" ELSE "finish"]
    /\ wgoal' = [wgoal EXCEPT ![s] = "queued"]
    /\ wsaw' = [wsaw EXCEPT ![s] = "absent"]
    /\ UNCHANGED <<healthy, arqVars, runVars, wmail, late, asked, up>>

\* Mutant: the verdict is written as it is, also when it is no status.
BugWriteRow(s) ==
    LET m == wmail[s] IN
    /\ Written(s)
    /\ Unlocked(m)
    /\ status' = IF wgoal[s] = wsaw[s] THEN status ELSE [status EXCEPT ![m] = wgoal[s]]
    /\ aged' = aged \ {m}
    /\ UNCHANGED <<retries, judged, troubles>>

\* The UPDATE waits for the row's lock.  SQLAlchemy leaves the status column
\* out of it when the verdict equals the status that was read.
WriteRow(s) ==
    LET m == wmail[s]
        new == IF wgoal[s] = "folder_gone" THEN "failed" ELSE wgoal[s]
    IN
    /\ Written(s)
    /\ Unlocked(m)
    /\ status' = IF new = wsaw[s] THEN status ELSE [status EXCEPT ![m] = new]
    /\ retries' = IF new = "queued" /\ wsaw[s] # "queued"
                  THEN [retries EXCEPT ![m] = @ + 1] ELSE retries
    /\ judged' = IF status'[m] \notin Settled THEN judged \ {m}
                 ELSE IF new \in Settled THEN judged \cup {m} ELSE judged
    /\ aged' = aged \ {m}
    /\ UNCHANGED troubles

\* A failing status update is logged and swallowed.  A job that raises before its
\* verdict, or whose account is gone, ends the same way: the row stays as it is.
WriteFails(s) ==
    /\ Written(s)
    /\ Trouble
    /\ UNCHANGED rowVars

\* _fail_queued_mails_for_folder: the folder is gone for every queued mail.
FailFolder(s) ==
    LET gone == {m \in InStatus("queued") : FolderOf[m] = FolderOf[wmail[s]]} IN
    /\ wpc[s] = "bulk"
    /\ \A m \in gone : Unlocked(m)
    /\ status' = [m \in Mails |-> IF m \in gone THEN "failed" ELSE status[m]]
    /\ wpc' = [wpc EXCEPT ![s] = "finish"]
    /\ UNCHANGED <<retries, aged, judged, healthy, arqVars, runVars, wmail, wgoal, wsaw, late,
                   envVars>>

\* So is a failing bulk update.
FailFolderFails(s) ==
    /\ wpc[s] = "bulk"
    /\ Trouble
    /\ wpc' = [wpc EXCEPT ![s] = "finish"]
    /\ UNCHANGED <<rowVars, healthy, arqVars, runVars, wmail, wgoal, wsaw, late, asked, up>>

\* ARQ cancels the job at its timeout, wherever it is, even after its verdict
\* was written; process_mail catches that and requeues the mail.
Timeout(s) ==
    /\ wpc[s] # "idle" /\ ~ late[s]
    /\ Trouble
    /\ ReadRow(s, "queued")
    /\ late' = [late EXCEPT ![s] = TRUE]
    /\ UNCHANGED <<rowVars, healthy, arqVars, runVars, wmail, asked, up>>

\* ARQ deletes the job key and keeps a result key.
Finish(s) ==
    /\ wpc[s] = "finish"
    /\ job' = [job EXCEPT ![wmail[s]] = "none"]
    /\ results' = results \cup {wmail[s]}
    /\ wpc' = [wpc EXCEPT ![s] = "idle"]
    /\ wmail' = [wmail EXCEPT ![s] = NoMail]
    /\ late' = [late EXCEPT ![s] = FALSE]
    /\ UNCHANGED <<rowVars, healthy, runVars, wgoal, wsaw, envVars>>

-----------------------------------------------------------------------------
(* Crash, restart and time *)

\* Open transactions of the worker roll back; Valkey keeps the keys of the jobs
\* that ran, and a run in the API process goes on.
Crash ==
    LET Ended(f, idle) == [r \in Runs |-> IF r \in ApiRuns THEN f[r] ELSE idle] IN
    /\ up /\ up' = FALSE
    /\ Trouble
    /\ job' = [m \in Mails |-> IF job[m] = "running" THEN "orphan" ELSE job[m]]
    /\ rpc' = Ended(rpc, "idle")
    /\ todo' = Ended(todo, {})
    /\ turn' = Ended(turn, [m \in Mails |-> 0])
    /\ gleft' = Ended(gleft, 0)
    /\ uleft' = Ended(uleft, [u \in Users |-> 0])
    /\ cur' = Ended(cur, NoMail)
    /\ held' = Ended(held, {})
    /\ sent' = Ended(sent, {})
    /\ wpc' = [s \in Slots |-> "idle"]
    /\ wmail' = [s \in Slots |-> NoMail]
    /\ wgoal' = [s \in Slots |-> "queued"]
    /\ wsaw' = [s \in Slots |-> "absent"]
    /\ late' = [s \in Slots |-> FALSE]
    /\ UNCHANGED <<rowVars, healthy, results, asked>>

\* reset_orphaned_jobs: every PROCESSING row is requeued, the result keys of
\* process_mail jobs are deleted (unless Valkey fails); job keys are not.
Restart ==
    /\ ~ up /\ up' = TRUE
    /\ status' = [m \in Mails |-> IF status[m] = "processing" THEN "queued" ELSE status[m]]
    /\ aged' = {}
    /\ \/ results' = {} /\ UNCHANGED troubles
       \/ Trouble /\ UNCHANGED results
    /\ UNCHANGED <<retries, judged, healthy, job, runVars, jobVars, asked>>

\* Mutant: the in-progress key expires before the job's timeout.
BugFailOrphan(m) ==
    /\ up /\ job[m] \in {"orphan", "running"}
    /\ job' = [job EXCEPT ![m] = "none"]
    /\ results' = results \cup {m}
    /\ UNCHANGED <<rowVars, healthy, runVars, jobVars, envVars>>

\* The in-progress key expires; ARQ picks the job up, finds its tries used up
\* (max_tries = 1) and fails it without running it.
FailOrphan(m) ==
    /\ up /\ job[m] = "orphan"
    /\ job' = [job EXCEPT ![m] = "none"]
    /\ results' = results \cup {m}
    /\ UNCHANGED <<rowVars, healthy, runVars, jobVars, envVars>>

\* keep_result is over.
ExpireResult(m) ==
    /\ m \in results
    /\ results' = results \ {m}
    /\ UNCHANGED <<rowVars, healthy, job, runVars, jobVars, envVars>>

\* stale_job_threshold_seconds have passed since updated_at.  A job may still
\* wait or run then: its timeout counts from its start, not from the dispatch.
Age(m) ==
    /\ status[m] = "processing" /\ m \notin aged
    /\ aged' = aged \cup {m}
    /\ UNCHANGED <<status, retries, judged, healthy, arqVars, runVars, jobVars, envVars>>

\* cleanup_stale_running_jobs, from the health check's cron.
HealthCheck ==
    /\ up /\ aged # {}
    /\ ResetStale
    /\ UNCHANGED <<healthy, arqVars, runVars, jobVars, envVars>>

-----------------------------------------------------------------------------
(* The rest of the system *)

\* The poller or the IDLE monitor inserts a row, ON CONFLICT DO NOTHING.
Discover(m) ==
    /\ up /\ status[m] = "absent"
    /\ status' = [status EXCEPT ![m] = "queued"]
    /\ UNCHANGED <<retries, aged, judged, healthy, arqVars, runVars, jobVars, envVars>>

\* The user's account and providers are probed and unpaused again.
Recover(u) ==
    /\ u \notin healthy
    /\ healthy' = healthy \cup {u}
    /\ UNCHANGED <<rowVars, arqVars, runVars, jobVars, envVars>>

\* Mutant: the retry request deletes the job key as well and always enqueues.
BugRetryRequest(m) ==
    /\ asked[m] = "no" /\ m \in Retryable
    /\ status[m] \notin {"absent", "processing"}
    /\ Trouble
    /\ results' = results \ {m}
    /\ job' = [job EXCEPT ![m] = "waiting"]
    /\ asked' = [asked EXCEPT ![m] = "processing"]
    /\ UNCHANGED <<rowVars, healthy, runVars, jobVars, up>>

\* retry_email, up to its enqueue_job: delete the result key (a failure is
\* suppressed) and enqueue.  When that gives no job, or raises after the job
\* reached Valkey or before, the row falls back to QUEUED.
RetryRequest(m) ==
    /\ asked[m] = "no" /\ m \in Retryable
    /\ status[m] \notin {"absent", "processing"}
    /\ Trouble
    /\ results' \in {results \ {m}, results}
    /\ \/ UNCHANGED job
       \/ /\ job[m] = "none" /\ m \notin results'
          /\ job' = [job EXCEPT ![m] = "waiting"]
    /\ \/ /\ job' # job
          /\ asked' = [asked EXCEPT ![m] = "processing"]
       \/ asked' = [asked EXCEPT ![m] = IF status[m] = "queued" THEN "keep" ELSE "queued"]
    /\ judged' = IF job' # job THEN judged \ {m} ELSE judged
    /\ UNCHANGED <<status, retries, aged, healthy, runVars, jobVars, up>>

\* The flush and the commit of retry_email's session.
RetryCommit(m) ==
    /\ asked[m] # "no"
    /\ Unlocked(m)
    /\ status' = IF asked[m] = "keep" THEN status ELSE [status EXCEPT ![m] = asked[m]]
    /\ retries' = [retries EXCEPT ![m] = @ + 1]
    /\ aged' = aged \ {m}
    /\ judged' = IF asked[m] = "keep" THEN judged ELSE judged \ {m}
    /\ asked' = [asked EXCEPT ![m] = "no"]
    /\ UNCHANGED <<healthy, arqVars, runVars, jobVars, up, troubles>>

RetryAbort(m) ==
    /\ asked[m] # "no"
    /\ Trouble
    /\ asked' = [asked EXCEPT ![m] = "no"]
    /\ UNCHANGED <<rowVars, healthy, arqVars, runVars, jobVars, up>>

-----------------------------------------------------------------------------
RunStep(r) ==
    \/ Begin(r) \/ Load(r) \/ ScheduleNow(r)
    \/ Send(r) \/ SendDuplicate(r) \/ SendFails(r) \/ Commit(r) \/ RollBack(r)
    \/ \E m \in Mails : LockRow(r, m) \/ PassOver(r, m)

JobStep(s) ==
    \/ Decide(s) \/ WriteRow(s) \/ WriteFails(s)
    \/ FailFolder(s) \/ FailFolderFails(s) \/ Timeout(s) \/ Finish(s)
    \/ \E m \in Mails : Start(s, m)

MailStep(m) ==
    \/ Discover(m) \/ RetryRequest(m) \/ RetryCommit(m) \/ RetryAbort(m)
    \/ FailOrphan(m) \/ ExpireResult(m) \/ Age(m)

Next ==
    \/ \E r \in Runs : RunStep(r)
    \/ \E s \in Slots : JobStep(s)
    \/ \E m \in Mails : MailStep(m)
    \/ \E u \in Users : Recover(u)
    \/ Crash \/ Restart \/ HealthCheck

Spec == Init /\ [][Next]_vars

-----------------------------------------------------------------------------
(* Properties *)

RowTypeOK ==
    /\ status \in [Mails -> Status]
    /\ retries \in [Mails -> Nat]
    /\ aged \in SUBSET Mails
    /\ judged \in SUBSET Mails

ArqTypeOK ==
    /\ job \in [Mails -> {"none", "waiting", "running", "orphan"}]
    /\ results \in SUBSET Mails

RunTypeOK ==
    /\ rpc \in [Runs -> {"idle", "load", "pick", "send"}]
    /\ todo \in [Runs -> SUBSET Mails]
    /\ turn \in [Runs -> [Mails -> Nat]]
    /\ gleft \in [Runs -> Nat]
    /\ uleft \in [Runs -> [Users -> Nat]]
    /\ cur \in [Runs -> Mails \cup {NoMail}]
    /\ held \in [Runs -> SUBSET Mails]
    /\ sent \in [Runs -> SUBSET Mails]

JobTypeOK ==
    /\ wpc \in [Slots -> {"idle", "work", "write", "bulk", "finish"}]
    /\ wmail \in [Slots -> Mails \cup {NoMail}]
    /\ wgoal \in [Slots -> Goals]
    /\ wsaw \in [Slots -> Status]
    /\ late \in [Slots -> BOOLEAN]

EnvTypeOK ==
    /\ healthy \in SUBSET Users
    /\ asked \in [Mails -> {"no", "keep", "queued", "processing"}]
    /\ up \in BOOLEAN
    /\ troubles \in 0..MaxTroubles

\* The tables, Valkey's keys and the local state of runs and jobs have the
\* values the code gives them: a status is one of TrackedEmailStatus, or no row
\* yet, and no verdict; the free slots of a run are never negative.
TypeOK == RowTypeOK /\ ArqTypeOK /\ RunTypeOK /\ JobTypeOK /\ EnvTypeOK

\* While a run holds a row, nobody else changes it: the row is still QUEUED as
\* committed and held by that run only, so the commit overwrites no verdict.
HeldRowsStayQueued ==
    \A r \in Runs : \A m \in held[r] :
        /\ status[m] = "queued"
        /\ \A q \in Runs \ {r} : m \notin held[q]

\* The job key keeps process_mail from running twice for a mail, whatever the
\* resets of the row, the retries and the deletions of its result key do.
OneJobPerMail ==
    \A s, t \in Slots :
        wpc[s] # "idle" /\ wpc[t] # "idle" /\ wmail[s] = wmail[t] => s = t

\* A settled mail is opened again by its user's retry; by the timeout of its own
\* job; or by an error of its own job that has given no verdict before: the mail
\* was failed with its folder by another mail's job meanwhile, or a retry put the
\* job into the queue.  Nobody else opens it, neither the scheduler nor a reset,
\* and no job that a run has sent begins after the mail's own job has settled it.
SettledIsFinal ==
    [][\A m \in Mails :
        status[m] \in Settled /\ status'[m] \notin Settled =>
            \/ asked[m] # "no" /\ asked'[m] = "no"
            \/ \E s \in Slots :
                /\ wmail[s] = m /\ wpc[s] = "write" /\ wgoal[s] = "queued"
                /\ late[s] \/ m \notin judged]_vars

(* What the proofs need beside the invariants above: the bookkeeping of runs,
   jobs and requests that makes them inductive. *)

\* Between its commits a run holds no row; it sends a row it holds and has not
\* sent before, and only while the slots it counted are not used up.
RunsConsistent ==
    \A r \in Runs :
        /\ rpc[r] \in {"idle", "load"} => held[r] = {}
        /\ sent[r] \subseteq held[r]
        /\ rpc[r] = "send" =>
            /\ cur[r] \in held[r] \ sent[r]
            /\ gleft[r] > 0
            /\ uleft[r][UserOf[cur[r]]] > 0

\* A busy slot works on a mail whose job key says that it runs.
JobsConsistent ==
    \A s \in Slots : wpc[s] # "idle" => wmail[s] \in Mails /\ job[wmail[s]] = "running"

\* No job waits for a mail that its own job has settled, and the job that holds
\* such a mail is the one that has settled it: it is past its verdict, or late.
JudgedAreDone ==
    \A m \in judged :
        /\ status[m] \in Settled
        /\ job[m] # "waiting"
        /\ \A s \in Slots : wmail[s] = m => wpc[s] \notin {"work", "write"} \/ late[s]

\* Only API runs go on without the worker, and only mails with a row are worked on.
RowsExist ==
    /\ ~ up => /\ \A r \in Runs \ ApiRuns : rpc[r] = "idle"
               /\ \A s \in Slots : wpc[s] = "idle"
    /\ \A m \in Mails : job[m] # "none" \/ asked[m] # "no" => status[m] # "absent"

Consistency ==
    TypeOK /\ HeldRowsStayQueued /\ OneJobPerMail
    /\ RunsConsistent /\ JobsConsistent /\ JudgedAreDone /\ RowsExist

\* PROCESSING rows of a user, those of runs that have not committed included.
InProcessing(u) ==
    {m \in Mails : UserOf[m] = u /\
        (status[m] = "processing" \/ \E r \in Runs : m \in sent[r])}

\* The caps a run enforces: max_concurrent_processing for each user and the
\* worker's slots for all of them.
CapsRespected ==
    /\ \A u \in Users : Cardinality(InProcessing(u)) <= MaxConcurrent[u]
    /\ Cardinality(UNION {InProcessing(u) : u \in Users}) <= ProcessSlots

\* reset_orphaned_jobs takes every PROCESSING mail for an orphan whose ARQ job
\* died with the previous worker process.
ResetRowsHaveNoJob ==
    [][Restart => \A m \in Mails : status[m] = "processing" => job[m] = "none"]_vars

(* What the worker does keeps happening: cron runs, ARQ's loop, the clock; and a
   run that has begun goes on.  A writer that waits for a row's lock gets it in
   the end, however many runs lock the row after each other: PostgreSQL queues
   the waiters. *)
Fairness ==
    /\ \A r \in Runs :
        /\ WF_vars(Begin(r)) /\ WF_vars(Load(r)) /\ WF_vars(Commit(r))
        /\ WF_vars(Send(r) \/ SendDuplicate(r))
        /\ WF_vars(\E m \in Mails : LockRow(r, m) \/ PassOver(r, m))
    /\ \A s \in Slots :
        /\ WF_vars(Decide(s)) /\ SF_vars(WriteRow(s)) /\ SF_vars(FailFolder(s))
        /\ WF_vars(Finish(s)) /\ WF_vars(\E m \in Mails : Start(s, m))
    /\ \A m \in Mails :
        /\ WF_vars(FailOrphan(m)) /\ WF_vars(Age(m)) /\ SF_vars(RetryCommit(m))
    /\ WF_vars(Restart)

\* Every paused account and provider is unpaused in the end.
Recovery == \A u \in Users : WF_vars(Recover(u))

FairSpec == Spec /\ Fairness /\ Recovery
StuckUserSpec == Spec /\ Fairness

\* No mail is lost: once discovered it is settled, through dedup keys left by
\* earlier runs, lost status updates, rollbacks and crashes.
EveryMailSettles ==
    \A m \in Mails : status[m] # "absent" ~> status[m] \in Settled

\* A mail of a user whose account and providers work is dispatched in the end,
\* whatever happens to the mails of other users.
HealthyUsersAreServed ==
    \A m \in Mails :
        [](UserOf[m] \in healthy) =>
            (status[m] = "queued" ~> status[m] # "queued" \/ job[m] # "none")

-----------------------------------------------------------------------------
(* The queue implements the life cycle of a mail *)

StageOf(st) ==
    IF st = "absent" THEN "absent" ELSE IF st \in Settled THEN "settled" ELSE "pending"

stageBar == [m \in Mails |-> StageOf(status[m])]
holdersBar == [m \in Mails |-> {s \in Slots : wpc[s] # "idle" /\ wmail[s] = m}]
askedBar == [m \in Mails |-> asked[m] # "no"]

Life == INSTANCE MailLifecycle WITH
    stage <- stageBar, holders <- holdersBar, asked <- askedBar

\* The scheduler's and the watchdogs' steps change no mail's stage; every step
\* of a job, a request or the worker is one the life cycle allows.
ImplementsLifecycle == Life!Spec
=============================================================================
