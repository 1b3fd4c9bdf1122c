-------------------------- MODULE AccountOperations --------------------------
(***************************************************************************)
(* The mailbox checks started on the mail accounts page                     *)
(* (hooks/use-account-operations.ts).  The store lives outside the          *)
(* components: per account an operation, first without and then with the    *)
(* job the server queued for it, and one interval timer that asks for the   *)
(* jobs.  The timer's callback awaits one answer after the other, so        *)
(* callbacks of several ticks overlap, and each goes on with the operations *)
(* that were there when it began.                                           *)
(***************************************************************************)
EXTENDS Naturals, FiniteSets

CONSTANTS
    Accounts,
    Jobs,       \* jobs the server may queue; a job is queued once
    Ticks,      \* bound: callbacks of the timer running at a time
    MaxLost,    \* bound: answers that do not arrive
    Idle,       \* no operation
    Starting    \* the request to queue a job is out

ASSUME AccountOperationsAssumption ==
    /\ Idle \notin Jobs /\ Starting \notin Jobs /\ Idle # Starting
    /\ MaxLost \in Nat

VARIABLES
    operations, \* account -> Idle, Starting or the job
    testing,    \* accounts whose connection is being tested
    pollTimer,  \* the interval is set
    asking,     \* tick -> the <<account, job>> it has still to ask for
    jobs,       \* job -> its state in the queue
    accounts,   \* accounts that have not been deleted
    lost        \* answers that did not arrive

accountVars == <<operations, testing, pollTimer, asking, jobs, accounts, lost>>

JobStatus == {"unused", "queued", "in_progress", "complete", "failed", "not_found"}
Over == {"complete", "failed", "not_found"}

Tracked(ops) == {a \in Accounts : ops[a] \in Jobs}
Stopped(ops) == pollTimer /\ Tracked(ops) # {}     \* stopPollingIfIdle

AccountsInit ==
    /\ operations = [a \in Accounts |-> Idle]
    /\ testing = {} /\ pollTimer = FALSE
    /\ asking = [t \in Ticks |-> {}]
    /\ jobs = [j \in Jobs |-> "unused"]
    /\ accounts = Accounts /\ lost = 0

-----------------------------------------------------------------------------
(* The connection test of an account: one request.                          *)
StartTest(a) ==
    /\ a \in accounts \ testing
    /\ testing' = testing \cup {a}
    /\ UNCHANGED <<operations, pollTimer, asking, jobs, accounts, lost>>

EndTest(a) ==
    /\ a \in testing
    /\ testing' = testing \ {a}
    /\ UNCHANGED <<operations, pollTimer, asking, jobs, accounts, lost>>

(* The button is disabled while the account has an operation.               *)
StartPoll(a) ==
    /\ a \in accounts /\ operations[a] = Idle
    /\ operations' = [operations EXCEPT ![a] = Starting]
    /\ UNCHANGED <<testing, pollTimer, asking, jobs, accounts, lost>>

PollQueued(a, j) ==         \* completePollMutation, startPolling
    /\ operations[a] = Starting
    /\ jobs[j] = "unused" /\ a \in accounts
    /\ operations' = [operations EXCEPT ![a] = j]
    /\ jobs' = [jobs EXCEPT ![j] = "queued"]
    /\ pollTimer' = TRUE
    /\ UNCHANGED <<testing, asking, accounts, lost>>

\* Mutant: the timer is stopped for all.
BugPollRefused(a) ==
    /\ operations[a] = Starting
    /\ operations' = [operations EXCEPT ![a] = Idle]
    /\ pollTimer' = FALSE
    /\ UNCHANGED <<testing, asking, jobs, accounts, lost>>

PollRefused(a) ==           \* failPollMutation: paused, gone, no job, or no answer
    /\ operations[a] = Starting
    /\ operations' = [operations EXCEPT ![a] = Idle]
    /\ pollTimer' = Stopped(operations')
    /\ UNCHANGED <<testing, asking, jobs, accounts, lost>>

-----------------------------------------------------------------------------
(* The timer.                                                               *)
Tick(t) ==
    /\ pollTimer /\ asking[t] = {}
    /\ asking' = [asking EXCEPT ![t] = {<<a, operations[a]>> : a \in Tracked(operations)}]
    /\ UNCHANGED <<operations, testing, pollTimer, jobs, accounts, lost>>

GoesOn(t, a, j) == asking' = [asking EXCEPT ![t] = @ \ {<<a, j>>}]

\* Mutant: a job whose result has expired is waited for.
BugAnswered(t, a, j) ==
    /\ <<a, j>> \in asking[t] /\ a \in accounts
    /\ GoesOn(t, a, j)
    /\ LET over == jobs[j] \in {"complete", "failed"} IN
       /\ operations' = IF over THEN [operations EXCEPT ![a] = Idle] ELSE operations
       /\ pollTimer' = IF over THEN Stopped(operations') ELSE pollTimer
    /\ UNCHANGED <<testing, jobs, accounts, lost>>

\* Whatever job the account's operation has by now, it is removed.
Answered(t, a, j) ==
    /\ <<a, j>> \in asking[t] /\ a \in accounts
    /\ GoesOn(t, a, j)
    /\ operations' = IF jobs[j] \in Over THEN [operations EXCEPT ![a] = Idle] ELSE operations
    /\ pollTimer' = IF jobs[j] \in Over THEN Stopped(operations') ELSE pollTimer
    /\ UNCHANGED <<testing, jobs, accounts, lost>>

Lost(t, a, j) ==            \* "keep polling, don't remove the job"
    /\ <<a, j>> \in asking[t]
    /\ a \in accounts => lost < MaxLost
    /\ GoesOn(t, a, j)
    /\ lost' = IF a \in accounts THEN lost + 1 ELSE lost
    /\ UNCHANGED <<operations, testing, pollTimer, jobs, accounts>>

-----------------------------------------------------------------------------
(* The queue and the worker; a result is kept for a while only.             *)
Work(j) ==
    /\ \/ jobs[j] = "queued" /\ jobs' = [jobs EXCEPT ![j] = "in_progress"]
       \/ jobs[j] = "in_progress" /\ \E s \in {"complete", "failed"} : jobs' = [jobs EXCEPT ![j] = s]
    /\ UNCHANGED <<operations, testing, pollTimer, asking, accounts, lost>>

\* Mutant: a state the page does not know.
BugForget(j) ==
    /\ jobs[j] \in {"complete", "failed"}
    /\ jobs' = [jobs EXCEPT ![j] = "expired"]
    /\ UNCHANGED <<operations, testing, pollTimer, asking, accounts, lost>>

Forget(j) ==
    /\ jobs[j] \in {"complete", "failed"}
    /\ jobs' = [jobs EXCEPT ![j] = "not_found"]
    /\ UNCHANGED <<operations, testing, pollTimer, asking, accounts, lost>>

Delete(a) ==
    /\ a \in accounts
    /\ accounts' = accounts \ {a}
    /\ UNCHANGED <<operations, testing, pollTimer, asking, jobs, lost>>

AccountsNext ==
    \/ \E a \in Accounts : \/ StartTest(a) \/ EndTest(a)
                           \/ StartPoll(a) \/ PollRefused(a) \/ Delete(a)
                           \/ \E j \in Jobs : PollQueued(a, j)
    \/ \E t \in Ticks : \/ Tick(t)
                        \/ \E a \in Accounts, j \in Jobs : Answered(t, a, j) \/ Lost(t, a, j)
    \/ \E j \in Jobs : Work(j) \/ Forget(j)

(* Requests end, the interval elapses, and the worker gets its jobs done.   *)
AccountsFairness ==
    /\ \A a \in Accounts : WF_accountVars(PollRefused(a) \/ \E j \in Jobs : PollQueued(a, j))
    /\ \A t \in Ticks : WF_accountVars(\E a \in Accounts, j \in Jobs : Answered(t, a, j) \/ Lost(t, a, j))
    /\ WF_accountVars(\E t \in Ticks : Tick(t))
    /\ WF_accountVars(\E j \in Jobs : Work(j))

AccountsSpec == AccountsInit /\ [][AccountsNext]_accountVars
-----------------------------------------------------------------------------
(* The variables have their types.                                          *)
AccountsTypeOK ==
    /\ operations \in [Accounts -> Jobs \cup {Idle, Starting}]
    /\ testing \subseteq Accounts /\ accounts \subseteq Accounts
    /\ pollTimer \in BOOLEAN
    /\ asking \in [Ticks -> SUBSET (Accounts \X Jobs)]
    /\ jobs \in [Jobs -> JobStatus]
    /\ lost \in 0 .. MaxLost

(* The timer runs exactly as long as a job is followed, whichever of the    *)
(* overlapping callbacks found which job over (startPolling,                *)
(* stopPollingIfIdle).                                                      *)
TimerRunsForJobs == pollTimer <=> Tracked(operations) # {}

(* No account's button stays disabled: every check ends on the page, unless *)
(* its account is deleted meanwhile.                                        *)
EveryCheckEnds ==
    \A a \in Accounts : operations[a] # Idle ~> (operations[a] = Idle \/ a \notin accounts)
=============================================================================
