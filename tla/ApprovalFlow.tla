---------------------------- MODULE ApprovalFlow ----------------------------
(***************************************************************************)
(* AI actions that wait for the user: the approvals table, the requests of *)
(* api/approvals.py that read a row and decide it at their commit, the ARQ *)
(* jobs they enqueue before it, and execute_approved_actions, which moves  *)
(* the mail on the IMAP server, writes its row and stores what the plugin  *)
(* found in sessions of their own (workers/approval_executor.py).          *)
(*                                                                         *)
(* "pending" stands for PENDING and MANUAL_INPUT, which every handler      *)
(* treats alike.  A mail is known by its folder; UIDs are left out.        *)
(***************************************************************************)
EXTENDS Naturals

CONSTANTS
    Approvals,      \* rows of approvals, and their ARQ job ids
    Mails,
    Requests,       \* HTTP requests that may be open together
    Executors,      \* ARQ slots for execute_approved_actions
    MailOf,         \* the mail an approval is about
    Imap,           \* approvals with IMAP actions (labels, flags, moves)
    DestOf,         \* folder an approval moves its mail to, or None
    Stores,         \* approvals with plugin data to store
    Spam,           \* approvals of the spam_detection plugin
    Inbox,          \* where the mails are found
    None,           \* no approval, no folder
    MaxTries,       \* max_tries of execute_approved_actions (3 in the code)
    MaxTroubles     \* bound: faults, timeouts of healthy jobs and crashes

Folders == {Inbox} \cup ({DestOf[a] : a \in Approvals} \ {None})

ASSUME NoneAssumption == None \notin Approvals /\ None # Inbox
ASSUME KindsAssumption ==
    /\ MailOf \in [Approvals -> Mails]
    /\ Stores \subseteq Approvals /\ Spam \subseteq Approvals
    /\ {a \in Approvals : DestOf[a] # None} \subseteq Imap
    /\ Imap \subseteq Approvals
ASSUME BoundsAssumption == MaxTries \in Nat \ {0} /\ MaxTroubles \in Nat

VARIABLES
    (* approvals, as committed *)
    status,     \* status[a]: "absent" until the pipeline creates the row
    edited,     \* approvals with edited_actions
    overdue,    \* approvals past expires_at
    granted,    \* history: the actions the user's approval covers
    (* requests *)
    qpc, qop, qon,
    (* ARQ, in Valkey *)
    job,        \* job[a] of execute_approval:{a}
    tries,      \* tries[a]: job_try
    results,    \* jobs whose result key exists
    respam,     \* respam[a]: the spam_reprocess job of a's mail
    (* execute_approved_actions *)
    xpc, xon, xsource, xfolder, xmoved,
    (* what it changes *)
    applied,    \* applied[a]: the actions carried out for a
    server,     \* server[m]: the folder the mail is in
    row,        \* row[m]: current_folder of its tracked_emails row
    troubles

approvalVars == <<status, edited, overdue, granted>>
requestVars == <<qpc, qop, qon>>
arqVars == <<job, tries, results, respam>>
execVars == <<xpc, xon, xsource, xfolder, xmoved>>
mailVars == <<applied, server, row>>
vars == <<approvalVars, requestVars, arqVars, execVars, mailVars, troubles>>

Status == {"absent", "pending", "approved", "rejected", "deleted"}
Operations == {"approve", "reject", "edit", "delete"}
Sources == {"no", "proposed", "edited"}

Init ==
    /\ status = [a \in Approvals |-> "absent"]
    /\ edited = {} /\ overdue = {}
    /\ granted = [a \in Approvals |-> "no"]
    /\ qpc = [q \in Requests |-> "idle"]
    /\ qop = [q \in Requests |-> "edit"]
    /\ qon = [q \in Requests |-> None]
    /\ job = [a \in Approvals |-> "none"]
    /\ tries = [a \in Approvals |-> 0]
    /\ results = {}
    /\ respam = [a \in Approvals |-> "none"]
    /\ xpc = [x \in Executors |-> "idle"]
    /\ xon = [x \in Executors |-> None]
    /\ xsource = [x \in Executors |-> "no"]
    /\ xfolder = [x \in Executors |-> Inbox]
    /\ xmoved = [x \in Executors |-> None]
    /\ applied = [a \in Approvals |-> "no"]
    /\ server = [m \in Mails |-> Inbox]
    /\ row = [m \in Mails |-> Inbox]
    /\ troubles = 0

Trouble == troubles < MaxTroubles /\ troubles' = troubles + 1

-----------------------------------------------------------------------------
(* The table *)

\* The pipeline stores an action that needs the user's approval.
Create(a) ==
    /\ status[a] = "absent"
    /\ status' = [status EXCEPT ![a] = "pending"]
    /\ UNCHANGED <<edited, overdue, granted, requestVars, arqVars, execVars, mailVars, troubles>>

\* approval_expiry_days have passed.
Expire(a) ==
    /\ status[a] = "pending" /\ a \notin overdue
    /\ overdue' = overdue \cup {a}
    /\ UNCHANGED <<status, edited, granted, requestVars, arqVars, execVars, mailVars, troubles>>

\* Mutant: delete_approval takes every row of the user.
BugAccepts(op, a) ==
    IF op = "delete" THEN status[a] \notin {"absent", "deleted"}
                     ELSE status[a] = "pending" /\ a \notin overdue

\* What a request finds in the row when it starts.  One that is refused (404,
\* 409, 410) changes nothing: get_session rolls the EXPIRED of a late row back,
\* because the 410 is an exception like any other.
Accepts(op, a) ==
    IF op = "delete" THEN status[a] \in {"approved", "rejected"}
                     ELSE status[a] = "pending" /\ a \notin overdue

\* _get_pending_or_404, or get_or_404 and the status check of delete_approval.
Ask(q, op, a) ==
    /\ qpc[q] = "idle"
    /\ Accepts(op, a)
    /\ qpc' = [qpc EXCEPT ![q] = "read"]
    /\ qop' = [qop EXCEPT ![q] = op]
    /\ qon' = [qon EXCEPT ![q] = a]
    /\ UNCHANGED <<approvalVars, arqVars, execVars, mailVars, troubles>>

CloseRequest(q) ==
    /\ qpc' = [qpc EXCEPT ![q] = "idle"]
    /\ qop' = [qop EXCEPT ![q] = "edit"]
    /\ qon' = [qon EXCEPT ![q] = None]

\* Mutant: nothing is flushed before the commit, so the row is not locked.
BugUnheld(a) == TRUE

\* The UPDATE or DELETE waits for the row's lock, which the flush of another
\* open session holds.
Unheld(a) == \A p \in Requests : qon[p] = a => qpc[p] # "sent"

\* Mutant: the enqueue is best effort, like the one after process_mail.
BugSend(q) ==
    LET a == qon[q] IN
    /\ qpc[q] = "read" /\ Trouble
    /\ Unheld(a)
    /\ qpc' = [qpc EXCEPT ![q] = "sent"]
    /\ UNCHANGED <<approvalVars, qop, qon, arqVars, execVars, mailVars>>

\* The flush takes the row's lock until the session ends, and fails when the
\* row is gone.  Then the job is enqueued: enqueue_job refuses a job id whose
\* job key or result key exists, and nobody looks at its answer.
Send(q) ==
    LET a == qon[q]
        gone == status[a] = "deleted" /\ qop[q] # "delete"
    IN
    /\ qpc[q] = "read"
    /\ Unheld(a)
    /\ IF gone THEN CloseRequest(q)
               ELSE qpc' = [qpc EXCEPT ![q] = "sent"] /\ UNCHANGED <<qop, qon>>
    /\ job' = IF ~ gone /\ qop[q] = "approve" /\ job[a] = "none" /\ a \notin results
              THEN [job EXCEPT ![a] = "waiting"] ELSE job
    /\ respam' = IF ~ gone /\ qop[q] = "reject" /\ a \in Spam /\ respam[a] = "none"
                 THEN [respam EXCEPT ![a] = "waiting"] ELSE respam
    /\ UNCHANGED <<approvalVars, tries, results, execVars, mailVars, troubles>>

\* get_session commits when the handler has returned.
CommitRequest(q) ==
    LET a == qon[q] IN
    /\ qpc[q] = "sent"
    /\ status' = [status EXCEPT ![a] =
                    CASE qop[q] = "approve" -> "approved"
                      [] qop[q] = "reject" -> "rejected"
                      [] qop[q] = "delete" -> "deleted"
                      [] OTHER -> @]
    /\ edited' = IF qop[q] = "edit" THEN edited \cup {a} ELSE edited
    /\ granted' = IF qop[q] = "approve" /\ granted[a] = "no"
                  THEN [granted EXCEPT ![a] = IF a \in edited THEN "edited" ELSE "proposed"]
                  ELSE granted
    /\ CloseRequest(q)
    /\ UNCHANGED <<overdue, arqVars, execVars, mailVars, troubles>>

\* Valkey or the database fails, or the client is gone: rollback, but a job
\* that was enqueued stays.
AbortRequest(q) ==
    /\ qpc[q] # "idle"
    /\ Trouble
    /\ CloseRequest(q)
    /\ UNCHANGED <<approvalVars, arqVars, execVars, mailVars>>

-----------------------------------------------------------------------------
(* execute_approved_actions *)

\* An approved move is written and its lock held until the job's own commit.
Holds(x, m) ==
    /\ xpc[x] \in {"persist", "commit"}
    /\ xmoved[x] # None
    /\ MailOf[xon[x]] = m

Free(m) == \A x \in Executors : ~ Holds(x, m)

Start(x, a) ==
    /\ xpc[x] = "idle"
    /\ job[a] = "waiting"
    /\ job' = [job EXCEPT ![a] = "running"]
    /\ tries' = [tries EXCEPT ![a] = @ + 1]
    /\ xpc' = [xpc EXCEPT ![x] = "load"]
    /\ xon' = [xon EXCEPT ![x] = a]
    /\ UNCHANGED <<approvalVars, requestVars, results, respam, xsource, xfolder, xmoved,
                   mailVars, troubles>>

\* Mutant: the proposed actions win over the user's.
BugSource(a) == "proposed"

\* edited_actions or proposed_action
Source(a) == IF a \in edited THEN "edited" ELSE "proposed"

\* Mutant: the status is not checked.
BugLoad(x) ==
    LET a == xon[x] IN
    /\ xpc[x] = "load"
    /\ xpc' = [xpc EXCEPT ![x] = IF a \in Imap THEN "imap" ELSE "persist"]
    /\ xsource' = [xsource EXCEPT ![x] = Source(a)]
    /\ xfolder' = [xfolder EXCEPT ![x] = row[MailOf[a]]]
    /\ UNCHANGED <<approvalVars, requestVars, arqVars, xon, xmoved, mailVars, troubles>>

\* The approval and its mail as committed; anything but APPROVED ends the job.
Load(x) ==
    LET a == xon[x] IN
    /\ xpc[x] = "load"
    /\ IF status[a] = "approved"
       THEN /\ xpc' = [xpc EXCEPT ![x] = IF a \in Imap THEN "imap" ELSE "persist"]
            /\ xsource' = [xsource EXCEPT ![x] = Source(a)]
            /\ xfolder' = [xfolder EXCEPT ![x] = row[MailOf[a]]]
       ELSE /\ xpc' = [xpc EXCEPT ![x] = "done"]
            /\ UNCHANGED <<xsource, xfolder>>
    /\ UNCHANGED <<approvalVars, requestVars, arqVars, xon, xmoved, mailVars, troubles>>

\* move_to is skipped when the row names the destination, move_to_spam is not.
Moves(a, folder) == DestOf[a] # None /\ (a \in Spam \/ DestOf[a] # folder)

\* execute_imap_actions: labels and flags, then the move from the folder the
\* row named.  The server may answer OK for a mail that is no longer there.
Execute(x) ==
    LET a == xon[x]
        m == MailOf[a]
    IN
    /\ xpc[x] = "imap"
    /\ applied' = [applied EXCEPT ![a] = xsource[x]]
    /\ xpc' = [xpc EXCEPT ![x] = "record"]
    /\ \/ /\ Moves(a, xfolder[x]) /\ server[m] = xfolder[x]
          /\ server' = [server EXCEPT ![m] = DestOf[a]]
          /\ xmoved' = [xmoved EXCEPT ![x] = DestOf[a]]
          /\ UNCHANGED troubles
       \/ /\ Moves(a, xfolder[x]) /\ server[m] # xfolder[x]
          /\ xmoved' \in {xmoved, [xmoved EXCEPT ![x] = DestOf[a]]}
          /\ UNCHANGED <<server, troubles>>
       \/ ~ Moves(a, xfolder[x]) /\ UNCHANGED <<server, xmoved, troubles>>
       \/ DestOf[a] # None /\ Trouble /\ UNCHANGED <<server, xmoved>>
    /\ UNCHANGED <<approvalVars, requestVars, arqVars, xon, xsource, xfolder, row>>

\* current_folder is flushed: the row stays locked.
Record(x) ==
    /\ xpc[x] = "record"
    /\ xmoved[x] # None => Free(MailOf[xon[x]])
    /\ xpc' = [xpc EXCEPT ![x] = "persist"]
    /\ UNCHANGED <<approvalVars, requestVars, arqVars, xon, xsource, xfolder, xmoved,
                   mailVars, troubles>>

\* Storing a row that refers to the mail locks the mail's row FOR KEY SHARE,
\* in a session of its own: it waits for any UPDATE of current_folder, which
\* is part of a unique key, the job's own included.
Persist(x) ==
    LET a == xon[x] IN
    /\ xpc[x] = "persist"
    /\ a \in Stores => Free(MailOf[a])
    /\ applied' = [applied EXCEPT ![a] = xsource[x]]
    /\ xpc' = [xpc EXCEPT ![x] = "commit"]
    /\ UNCHANGED <<approvalVars, requestVars, arqVars, xon, xsource, xfolder, xmoved,
                   server, row, troubles>>

\* Mutant: the session ends without a commit.
BugCommit(x) ==
    /\ xpc[x] = "commit"
    /\ xpc' = [xpc EXCEPT ![x] = "done"]
    /\ UNCHANGED <<approvalVars, requestVars, arqVars, xon, xsource, xfolder, xmoved,
                   mailVars, troubles>>

\* Mutant: the outcome is written whether or not the mail was moved.
BugOutcome(x) ==
    LET m == MailOf[xon[x]] IN
    /\ xpc[x] = "commit"
    /\ row' = [row EXCEPT ![m] = xmoved[x]]
    /\ xpc' = [xpc EXCEPT ![x] = "done"]
    /\ UNCHANGED <<approvalVars, requestVars, arqVars, xon, xsource, xfolder, xmoved,
                   applied, server, troubles>>

\* get_session_ctx commits; the row's new folder is visible from here on.
Commit(x) ==
    LET m == MailOf[xon[x]] IN
    /\ xpc[x] = "commit"
    /\ row' = IF xmoved[x] = None THEN row ELSE [row EXCEPT ![m] = xmoved[x]]
    /\ xpc' = [xpc EXCEPT ![x] = "done"]
    /\ UNCHANGED <<approvalVars, requestVars, arqVars, xon, xsource, xfolder, xmoved,
                   applied, server, troubles>>

\* Any exception or a timeout: rollback.  ARQ runs a job again when it was
\* cancelled or asked for it, not when it raised.
Fail(x) ==
    /\ xpc[x] \in {"load", "imap", "record", "persist", "commit"}
    /\ Trouble
    /\ xpc' = [xpc EXCEPT ![x] = "done"]
    /\ UNCHANGED <<approvalVars, requestVars, arqVars, xon, xsource, xfolder, xmoved, mailVars>>

\* Mutant: the timeout covers the IMAP session only.
BugTimeout(x) ==
    /\ xpc[x] = "imap" /\ Trouble
    /\ xpc' = [xpc EXCEPT ![x] = "done"]
    /\ UNCHANGED <<approvalVars, requestVars, arqVars, xon, xsource, xfolder, xmoved, mailVars>>

\* The job waits for a lock it holds itself, until ARQ's timeout of 120 s.
Timeout(x) ==
    /\ xpc[x] = "persist"
    /\ xon[x] \in Stores /\ Holds(x, MailOf[xon[x]])
    /\ xpc' = [xpc EXCEPT ![x] = "done"]
    /\ UNCHANGED <<approvalVars, requestVars, arqVars, xon, xsource, xfolder, xmoved,
                   mailVars, troubles>>

CloseJob(x) ==
    /\ xpc' = [xpc EXCEPT ![x] = "idle"]
    /\ xon' = [xon EXCEPT ![x] = None]
    /\ xsource' = [xsource EXCEPT ![x] = "no"]
    /\ xfolder' = [xfolder EXCEPT ![x] = Inbox]
    /\ xmoved' = [xmoved EXCEPT ![x] = None]

\* ARQ deletes the job key and its tries, and keeps a result key.
Finish(x) ==
    /\ xpc[x] = "done"
    /\ job' = [job EXCEPT ![xon[x]] = "none"]
    /\ tries' = [tries EXCEPT ![xon[x]] = 0]
    /\ results' = results \cup {xon[x]}
    /\ CloseJob(x)
    /\ UNCHANGED <<approvalVars, requestVars, respam, mailVars, troubles>>

\* The worker dies and comes back; open sessions roll back, keys stay.
Crash ==
    /\ Trouble
    /\ job' = [a \in Approvals |-> IF job[a] = "running" THEN "orphan" ELSE job[a]]
    /\ xpc' = [x \in Executors |-> "idle"]
    /\ xon' = [x \in Executors |-> None]
    /\ xsource' = [x \in Executors |-> "no"]
    /\ xfolder' = [x \in Executors |-> Inbox]
    /\ xmoved' = [x \in Executors |-> None]
    /\ UNCHANGED <<approvalVars, requestVars, tries, results, respam, mailVars>>

\* Mutant: the in-progress key expires while the job still runs.
BugPickUp(a) ==
    /\ job[a] \in {"running", "orphan"}
    /\ IF tries[a] < MaxTries
       THEN job' = [job EXCEPT ![a] = "waiting"] /\ UNCHANGED <<tries, results>>
       ELSE /\ job' = [job EXCEPT ![a] = "none"]
            /\ tries' = [tries EXCEPT ![a] = 0]
            /\ results' = results \cup {a}
    /\ UNCHANGED <<approvalVars, requestVars, respam, execVars, mailVars, troubles>>

\* The in-progress key of a dead job expires: it runs again, max_tries times.
PickUp(a) ==
    /\ job[a] = "orphan"
    /\ IF tries[a] < MaxTries
       THEN job' = [job EXCEPT ![a] = "waiting"] /\ UNCHANGED <<tries, results>>
       ELSE /\ job' = [job EXCEPT ![a] = "none"]
            /\ tries' = [tries EXCEPT ![a] = 0]
            /\ results' = results \cup {a}
    /\ UNCHANGED <<approvalVars, requestVars, respam, execVars, mailVars, troubles>>

\* keep_result is over.
ExpireResult(a) ==
    /\ a \in results
    /\ results' = results \ {a}
    /\ UNCHANGED <<approvalVars, requestVars, job, tries, respam, execVars, mailVars, troubles>>

\* handle_spam_rejection: process_mail once more, without spam detection.
Reprocess(a) ==
    /\ respam[a] = "waiting"
    /\ respam' = [respam EXCEPT ![a] = "done"]
    /\ UNCHANGED <<approvalVars, requestVars, job, tries, results, execVars, mailVars, troubles>>

-----------------------------------------------------------------------------
RequestStep(q) ==
    \/ \E op \in Operations, a \in Approvals : Ask(q, op, a)
    \/ Send(q) \/ CommitRequest(q) \/ AbortRequest(q)

JobStep(x) ==
    \/ \E a \in Approvals : Start(x, a)
    \/ Load(x) \/ Execute(x) \/ Record(x) \/ Persist(x) \/ Commit(x)
    \/ Fail(x) \/ Timeout(x) \/ Finish(x)

ApprovalStep(a) ==
    Create(a) \/ Expire(a) \/ PickUp(a) \/ ExpireResult(a) \/ Reprocess(a)

Next ==
    \/ \E q \in Requests : RequestStep(q)
    \/ \E x \in Executors : JobStep(x)
    \/ \E a \in Approvals : ApprovalStep(a)
    \/ Crash

Spec == Init /\ [][Next]_vars

\* The worker's loop runs, and ARQ's clock with it.
Fairness ==
    /\ \A x \in Executors :
        /\ WF_vars(\E a \in Approvals : Start(x, a))
        /\ WF_vars(Load(x)) /\ WF_vars(Execute(x)) /\ WF_vars(Record(x))
        /\ WF_vars(Persist(x)) /\ WF_vars(Commit(x)) /\ WF_vars(Timeout(x))
        /\ WF_vars(Finish(x))
    /\ \A a \in Approvals : WF_vars(PickUp(a))

FairSpec == Spec /\ Fairness

-----------------------------------------------------------------------------
(* Properties *)

\* Rows, keys and the local state of requests and jobs have the values the code
\* gives them; EXPIRED is never committed, and no job is tried too often.
TypeOK ==
    /\ status \in [Approvals -> Status]
    /\ edited \subseteq Approvals /\ overdue \subseteq Approvals
    /\ granted \in [Approvals -> Sources]
    /\ qpc \in [Requests -> {"idle", "read", "sent"}]
    /\ qop \in [Requests -> Operations]
    /\ qon \in [Requests -> Approvals \cup {None}]
    /\ job \in [Approvals -> {"none", "waiting", "running", "orphan"}]
    /\ tries \in [Approvals -> 0..MaxTries]
    /\ results \subseteq Approvals
    /\ respam \in [Approvals -> {"none", "waiting", "done"}]
    /\ xpc \in [Executors -> {"idle", "load", "imap", "record", "persist", "commit", "done"}]
    /\ xon \in [Executors -> Approvals \cup {None}]
    /\ xsource \in [Executors -> Sources]
    /\ xfolder \in [Executors -> Folders]
    /\ xmoved \in [Executors -> Folders \cup {None}]
    /\ applied \in [Approvals -> Sources]
    /\ server \in [Mails -> Folders]
    /\ row \in [Mails -> Folders]
    /\ troubles \in 0..MaxTroubles

\* Nothing is carried out that no committed approval of the user covers, though
\* the job is enqueued before the commit and survives its rollback.
OnlyGrantedIsApplied == \A a \in Approvals : applied[a] # "no" => granted[a] # "no"

\* The actions the user had edited when the approval was committed are the ones
\* carried out, however late, and however often after a crash.
EditedActionsWin ==
    \A a \in Approvals : granted[a] = "edited" /\ applied[a] # "no" => applied[a] = "edited"

\* A row leaves the queue by a decision: what still needs the user is never
\* deleted, a decided row never waits for the user again, and a request that
\* read a row before another one deleted it does not bring it back.
OnlyDecidedAreDeleted ==
    [][\A a \in Approvals :
        /\ status[a] = "pending" => status'[a] # "deleted"
        /\ status[a] \in {"approved", "rejected"} => status'[a] # "pending"
        /\ status[a] = "deleted" => status'[a] = "deleted"]_vars

\* A committed rejection of spam has its reprocessing job: the enqueue comes
\* first, and a request that could not enqueue does not commit.
RejectionsAreReprocessed ==
    \A a \in Spam : status[a] = "rejected" => respam[a] # "none"

(* What the proofs need beside the invariants above. *)

\* An open request works on a row that exists and was open to it; once its
\* flush went through it alone holds the row, which nobody has deleted.
RequestsConsistent ==
    \A q \in Requests : qpc[q] # "idle" =>
        /\ qon[q] \in Approvals
        /\ status[qon[q]] # "absent"
        /\ qop[q] = "delete" => status[qon[q]] # "pending"
        /\ qpc[q] = "sent" =>
            /\ status[qon[q]] = "deleted" => qop[q] = "delete"
            /\ qop[q] = "reject" /\ qon[q] \in Spam => respam[qon[q]] # "none"
            /\ \A p \in Requests \ {q} : qpc[p] = "sent" => qon[p] # qon[q]

\* A job past its status check works for a granted approval, with the user's
\* actions where the user had edited them.
JobsConsistent ==
    \A x \in Executors : xpc[x] # "idle" =>
        /\ xon[x] \in Approvals
        /\ xpc[x] \in {"imap", "record", "persist", "commit"} =>
            /\ granted[xon[x]] # "no"
            /\ xsource[x] # "no"
            /\ granted[xon[x]] = "edited" => xsource[x] = "edited"

\* Grants are recorded with the approval, edits are kept, and ARQ counts the
\* tries of a job from none to the last.
RowsConsistent ==
    \A a \in Approvals :
        /\ status[a] = "approved" => granted[a] # "no"
        /\ granted[a] = "edited" => a \in edited
        /\ job[a] = "none" => tries[a] = 0
        /\ job[a] = "waiting" => tries[a] < MaxTries

Consistency ==
    TypeOK /\ OnlyGrantedIsApplied /\ EditedActionsWin /\ RejectionsAreReprocessed
    /\ RequestsConsistent /\ JobsConsistent /\ RowsConsistent

\* A committed approval has its job, or its actions were carried out.
ApprovalsAreExecuted ==
    \A a \in Approvals :
        status[a] = "approved" => job[a] # "none" \/ applied[a] # "no"

\* The row of a mail that no job is moving names the folder the mail is in,
\* unless a fault came between the move and the commit.
RowFollows(m) ==
    \/ row[m] = server[m]
    \/ troubles > 0
    \/ \E x \in Executors : xmoved[x] = server[m] /\ MailOf[xon[x]] = m

\* The row of every mail follows it, as the comment in execute_approved_actions
\* has it; those that a smart folder approval moves do not (run approval_move).
RowFollowsMail == \A m \in Mails : RowFollows(m)

MoversOf(m) == {a \in Approvals : MailOf[a] = m /\ DestOf[a] # None}

\* Mails that one approval moves, at most, and none that stores a row about the
\* mail in the same job: spam and rules, never smart folders, which do both.
SolelyMoved ==
    {m \in Mails : /\ MoversOf(m) \cap Stores = {}
                   /\ \A a, b \in MoversOf(m) : a = b}

\* The row of a mail that is solely moved follows it, whatever requests and jobs
\* overlap, other approvals of the same mail store, and other mails go through.
SoleMovesAreRecorded == \A m \in SolelyMoved : RowFollows(m)

\* Every execution ends and frees its slot, locks held by itself included.
ExecutionsEnd == \A a \in Approvals : job[a] # "none" ~> job[a] = "none"

-----------------------------------------------------------------------------
(* The approvals implement their life cycle *)

\* The job is past its status check, and may act.
Working(x) == xpc[x] \in {"imap", "record", "persist", "commit"}

intentBar ==
    [q \in Requests |-> IF qpc[q] = "idle" THEN [op |-> "none", on |-> None]
                                          ELSE [op |-> qop[q], on |-> qon[q]]]
workingBar ==
    [a \in Approvals |-> {<<x, xsource[x]>> : x \in {y \in Executors : Working(y) /\ xon[y] = a}}]

Life == INSTANCE ApprovalLifecycle WITH
    decision <- status, versions <- edited, expired <- overdue,
    intent <- intentBar, working <- workingBar, done <- applied

\* Locks, keys, retries and crashes change no row and carry nothing out: every
\* step is one the user may know of, or none; in particular a job that starts
\* before its approval is committed, or is started again, begins nothing that
\* is not approved at that moment and nothing that is under way.
ImplementsLifecycle == Life!Spec
=============================================================================
