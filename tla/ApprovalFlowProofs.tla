------------------------- MODULE ApprovalFlowProofs -------------------------
(***************************************************************************)
(* Proofs about ApprovalFlow, for every number of approvals, mails, open   *)
(* requests and jobs.  Consistency is the inductive invariant: the type    *)
(* invariant, the three promises to the user, and what requests, jobs and  *)
(* rows must remember for a step to keep them.  Further invariants tell    *)
(* where a mail is while a job moves it, and that jobs for the same        *)
(* approval follow each other: with it every step is one of the life cycle.*)
(***************************************************************************)
EXTENDS ApprovalFlow, TLAPS

\* Every destination is a folder.
LEMMA Destinations == \A a \in Approvals : DestOf[a] \in Folders \cup {None}
BY DEF Folders

-----------------------------------------------------------------------------
(* The type invariant *)

\* Every variable keeps its type: the outcome of a move is written only when
\* there is one, and a job is started only while it has tries left.
LEMMA TypeStep ==
    ASSUME Consistency, [Next]_vars
    PROVE  TypeOK'
<1> USE DEF vars, approvalVars, requestVars, arqVars, execVars, mailVars
<1>1. TypeOK /\ RequestsConsistent /\ JobsConsistent /\ RowsConsistent
  BY DEF Consistency
<1>2. CASE UNCHANGED vars
  BY <1>1, <1>2 DEF TypeOK
<1>3. ASSUME NEW q \in Requests, RequestStep(q)
      PROVE  TypeOK'
  <2>1. ASSUME NEW op \in Operations, NEW a \in Approvals, Ask(q, op, a)
        PROVE  TypeOK'
    BY <1>1, <2>1 DEF Ask, TypeOK
  <2>2. CASE Send(q)
    BY <1>1, <2>2 DEF Send, CloseRequest, TypeOK, Operations
  <2>3. CASE CommitRequest(q)
    <3>1. qon[q] \in Approvals
      BY <1>1, <2>3 DEF CommitRequest, RequestsConsistent
    <3>2. status' \in [Approvals -> Status]
      BY <1>1, <2>3, <3>1 DEF CommitRequest, TypeOK, Status
    <3>3. edited' \subseteq Approvals /\ granted' \in [Approvals -> Sources]
      BY <1>1, <2>3, <3>1 DEF CommitRequest, TypeOK, Sources
    <3>4. /\ qpc' \in [Requests -> {"idle", "read", "sent"}]
          /\ qop' \in [Requests -> Operations]
          /\ qon' \in [Requests -> Approvals \cup {None}]
      BY <1>1, <2>3 DEF CommitRequest, CloseRequest, TypeOK, Operations
    <3>5. QED
      BY <1>1, <2>3, <3>2, <3>3, <3>4 DEF CommitRequest, TypeOK
  <2>4. CASE AbortRequest(q)
    BY <1>1, <2>4, BoundsAssumption DEF AbortRequest, CloseRequest, Trouble, TypeOK, Operations
  <2>5. QED
    BY <1>3, <2>1, <2>2, <2>3, <2>4 DEF RequestStep
<1>4. ASSUME NEW x \in Executors, JobStep(x)
      PROVE  TypeOK'
  <2>1. xpc[x] # "idle" => xon[x] \in Approvals /\ MailOf[xon[x]] \in Mails
    BY <1>1, KindsAssumption DEF JobsConsistent
  <2>2. ASSUME NEW a \in Approvals, Start(x, a)
        PROVE  TypeOK'
    <3>1. tries[a] + 1 \in 0..MaxTries
      BY <1>1, <2>2, BoundsAssumption DEF Start, RowsConsistent, TypeOK
    <3>2. QED
      BY <1>1, <2>2, <3>1 DEF Start, TypeOK
  <2>3. CASE Load(x)
    BY <1>1, <2>1, <2>3 DEF Load, Source, TypeOK, Sources
  <2>4. CASE Execute(x)
    <3>1. DestOf[xon[x]] \in Folders \cup {None}
      BY <2>1, <2>4, Destinations DEF Execute
    <3>2. applied' \in [Approvals -> Sources]
      BY <1>1, <2>1, <2>4 DEF Execute, TypeOK
    <3>3. xmoved' \in [Executors -> Folders \cup {None}]
      BY <1>1, <2>4, <3>1 DEF Execute, Moves, TypeOK
    <3>4. server' \in [Mails -> Folders]
      BY <1>1, <2>1, <2>4, <3>1 DEF Execute, Moves, TypeOK
    <3>5. troubles' \in 0..MaxTroubles
      BY <1>1, <2>4, BoundsAssumption DEF Execute, Trouble, TypeOK
    <3>6. QED
      BY <1>1, <2>4, <3>2, <3>3, <3>4, <3>5 DEF Execute, TypeOK
  <2>5. CASE Record(x) \/ Timeout(x)
    BY <1>1, <2>5 DEF Record, Timeout, TypeOK
  <2>6. CASE Persist(x)
    BY <1>1, <2>1, <2>6 DEF Persist, TypeOK
  <2>7. CASE Commit(x)
    BY <1>1, <2>1, <2>7 DEF Commit, TypeOK
  <2>8. CASE Fail(x)
    BY <1>1, <2>8, BoundsAssumption DEF Fail, Trouble, TypeOK
  <2>9. CASE Finish(x)
    <3>1. xon[x] \in Approvals /\ Inbox \in Folders /\ 0 \in 0..MaxTries
      BY <2>1, <2>9, BoundsAssumption DEF Finish, Folders
    <3>2. QED
      BY <1>1, <2>9, <3>1 DEF Finish, CloseJob, TypeOK, Sources
  <2>10. QED
    BY <1>4, <2>2, <2>3, <2>4, <2>5, <2>6, <2>7, <2>8, <2>9 DEF JobStep
<1>5. ASSUME NEW a \in Approvals, ApprovalStep(a)
      PROVE  TypeOK'
  <2>1. CASE Create(a)
    BY <1>1, <2>1 DEF Create, TypeOK, Status
  <2>2. CASE Expire(a)
    BY <1>1, <2>2 DEF Expire, TypeOK
  <2>3. CASE PickUp(a)
    BY <1>1, <2>3, BoundsAssumption DEF PickUp, TypeOK
  <2>4. CASE ExpireResult(a)
    BY <1>1, <2>4 DEF ExpireResult, TypeOK
  <2>5. CASE Reprocess(a)
    BY <1>1, <2>5 DEF Reprocess, TypeOK
  <2>6. QED
    BY <1>5, <2>1, <2>2, <2>3, <2>4, <2>5 DEF ApprovalStep
<1>6. CASE Crash
  <2>1. Inbox \in Folders
    BY DEF Folders
  <2>2. QED
    BY <1>1, <1>6, <2>1, BoundsAssumption DEF Crash, Trouble, TypeOK, Sources
<1>7. QED
  BY <1>2, <1>3, <1>4, <1>5, <1>6 DEF Next

-----------------------------------------------------------------------------
(* Requests *)

\* Only one session holds a row: the one that flushes finds no other, and the
\* one that commits leaves it.  A row is deleted by the holder alone.
LEMMA RequestStepConsistent ==
    ASSUME Consistency, [Next]_vars
    PROVE  RequestsConsistent'
<1> USE DEF vars, approvalVars, requestVars, arqVars, execVars, mailVars
<1>1. TypeOK /\ RequestsConsistent
  BY DEF Consistency
<1>2. CASE UNCHANGED <<status, requestVars, respam>>
  BY <1>1, <1>2 DEF RequestsConsistent
<1>3. ASSUME NEW q \in Requests, NEW op \in Operations, NEW a \in Approvals, Ask(q, op, a)
      PROVE  RequestsConsistent'
  BY <1>1, <1>3 DEF Ask, Accepts, RequestsConsistent, TypeOK
<1>4. ASSUME NEW q \in Requests, Send(q)
      PROVE  RequestsConsistent'
  <2>1. qon[q] \in Approvals
    BY <1>1, <1>4 DEF Send, RequestsConsistent
  <2>2. CASE status[qon[q]] = "deleted" /\ qop[q] # "delete"
    BY <1>1, <1>4, <2>1, <2>2 DEF Send, CloseRequest, RequestsConsistent, TypeOK
  <2>3. CASE ~ (status[qon[q]] = "deleted" /\ qop[q] # "delete")
    <3>1. /\ qpc' = [qpc EXCEPT ![q] = "sent"]
          /\ UNCHANGED <<status, qop, qon>>
          /\ \A p \in Requests : qon[p] = qon[q] => qpc[p] # "sent"
      BY <1>4, <2>3 DEF Send, Unheld
    <3>2. \A b \in Approvals : respam[b] # "none" => respam'[b] # "none"
      BY <1>1, <1>4, <2>1 DEF Send, TypeOK
    <3>3. qop[q] = "reject" /\ qon[q] \in Spam => respam'[qon[q]] # "none"
      BY <1>1, <1>4, <2>1, <2>3 DEF Send, TypeOK
    <3>4. ASSUME NEW p \in Requests, qpc'[p] # "idle"
          PROVE  /\ qon'[p] \in Approvals
                 /\ status'[qon'[p]] # "absent"
                 /\ qop'[p] = "delete" => status'[qon'[p]] # "pending"
                 /\ qpc'[p] = "sent" =>
                      /\ status'[qon'[p]] = "deleted" => qop'[p] = "delete"
                      /\ qop'[p] = "reject" /\ qon'[p] \in Spam => respam'[qon'[p]] # "none"
                      /\ \A r \in Requests \ {p} : qpc'[r] = "sent" => qon'[r] # qon'[p]
      <4>1. CASE p = q
        <5>1. qpc[q] = "read"
          BY <1>4 DEF Send
        <5>2. QED
          BY <1>1, <2>1, <2>3, <3>1, <3>3, <4>1, <5>1 DEF RequestsConsistent, TypeOK
      <4>2. CASE p # q
        <5>1. qpc'[p] = qpc[p]
          BY <1>1, <3>1, <4>2 DEF TypeOK
        <5>2. \A r \in Requests \ {p} : qpc'[r] = "sent" /\ qpc[p] = "sent" => qon[r] # qon[p]
          BY <1>1, <3>1, <3>4, <5>1 DEF RequestsConsistent, TypeOK
        <5>3. QED
          BY <1>1, <3>1, <3>2, <3>4, <5>1, <5>2 DEF RequestsConsistent
      <4>3. QED
        BY <4>1, <4>2
    <3>5. QED
      BY <3>4 DEF RequestsConsistent
  <2>4. QED
    BY <2>2, <2>3
<1>5. ASSUME NEW q \in Requests, CommitRequest(q)
      PROVE  RequestsConsistent'
  <2>1. /\ qon[q] \in Approvals /\ qpc[q] = "sent"
        /\ \A p \in Requests \ {q} : qpc[p] = "sent" => qon[p] # qon[q]
    BY <1>1, <1>5 DEF CommitRequest, RequestsConsistent
  <2>2. /\ qpc' = [qpc EXCEPT ![q] = "idle"]
        /\ \A p \in Requests \ {q} : qop'[p] = qop[p] /\ qon'[p] = qon[p]
        /\ respam' = respam
    BY <1>1, <1>5 DEF CommitRequest, CloseRequest, TypeOK
  <2>3. /\ \A b \in Approvals : b # qon[q] => status'[b] = status[b]
        /\ status'[qon[q]] # status[qon[q]] =>
              status'[qon[q]] \in {"approved", "rejected", "deleted"}
    BY <1>1, <1>5, <2>1 DEF CommitRequest, TypeOK
  <2>4. QED
    BY <1>1, <2>1, <2>2, <2>3 DEF RequestsConsistent, TypeOK
<1>6. ASSUME NEW q \in Requests, AbortRequest(q)
      PROVE  RequestsConsistent'
  BY <1>1, <1>6 DEF AbortRequest, CloseRequest, RequestsConsistent, TypeOK
<1>7. ASSUME NEW a \in Approvals, Create(a)
      PROVE  RequestsConsistent'
  BY <1>1, <1>7 DEF Create, RequestsConsistent, TypeOK
<1>8. ASSUME NEW a \in Approvals, Reprocess(a)
      PROVE  RequestsConsistent'
  BY <1>1, <1>8 DEF Reprocess, RequestsConsistent, TypeOK
<1>9. QED
  BY <1>2, <1>3, <1>4, <1>5, <1>6, <1>7, <1>8
  DEF Next, RequestStep, JobStep, ApprovalStep, Start, Load, Execute, Record, Persist, Commit,
      Fail, Timeout, Finish, Expire, PickUp, ExpireResult, Crash

-----------------------------------------------------------------------------
(* Rows and jobs *)

\* What a commit does to the history of grants: it is written once.
LEMMA GrantStep ==
    ASSUME Consistency, [Next]_vars, NEW a \in Approvals
    PROVE  /\ granted[a] # "no" => granted'[a] = granted[a]
           /\ granted'[a] = "edited" => a \in edited'
           /\ a \in edited => a \in edited'
           /\ status'[a] = "approved" => granted'[a] # "no"
<1> USE DEF vars, approvalVars, requestVars, arqVars, execVars, mailVars
<1>1. TypeOK /\ RowsConsistent
  BY DEF Consistency
<1>2. ASSUME NEW q \in Requests, CommitRequest(q)
      PROVE  /\ granted[a] # "no" => granted'[a] = granted[a]
             /\ granted'[a] = "edited" => a \in edited'
             /\ a \in edited => a \in edited'
             /\ status'[a] = "approved" => granted'[a] # "no"
  BY <1>1, <1>2 DEF CommitRequest, RowsConsistent, TypeOK
<1>3. ASSUME NEW b \in Approvals, Create(b)
      PROVE  /\ UNCHANGED <<granted, edited>>
             /\ status'[a] = "approved" => status[a] = "approved"
  BY <1>1, <1>3 DEF Create, TypeOK
<1>4. CASE UNCHANGED <<status, edited, granted>>
  BY <1>1, <1>4 DEF RowsConsistent
<1>5. QED
  BY <1>1, <1>2, <1>3, <1>4
  DEF RowsConsistent, Next, RequestStep, JobStep, ApprovalStep, Ask, Send, AbortRequest, Start,
      Load, Execute, Record, Persist, Commit, Fail, Timeout, Finish, Expire, PickUp,
      ExpireResult, Reprocess, Crash

\* ARQ's counter of tries goes with the job key.
LEMMA TriesStep ==
    ASSUME Consistency, [Next]_vars, NEW a \in Approvals
    PROVE  /\ job'[a] = "none" => tries'[a] = 0
           /\ job'[a] = "waiting" => tries'[a] < MaxTries
<1> USE DEF vars, approvalVars, requestVars, arqVars, execVars, mailVars
<1>1. TypeOK /\ RowsConsistent /\ JobsConsistent
  BY DEF Consistency
<1>2. CASE UNCHANGED <<job, tries>>
  BY <1>1, <1>2 DEF RowsConsistent
<1>3. ASSUME NEW q \in Requests, Send(q)
      PROVE  /\ job'[a] = "none" => tries'[a] = 0
             /\ job'[a] = "waiting" => tries'[a] < MaxTries
  BY <1>1, <1>3, BoundsAssumption DEF Send, RowsConsistent, TypeOK
<1>4. ASSUME NEW x \in Executors, NEW b \in Approvals, Start(x, b)
      PROVE  /\ job'[a] = "none" => tries'[a] = 0
             /\ job'[a] = "waiting" => tries'[a] < MaxTries
  BY <1>1, <1>4 DEF Start, RowsConsistent, TypeOK
<1>5. ASSUME NEW x \in Executors, Finish(x)
      PROVE  /\ job'[a] = "none" => tries'[a] = 0
             /\ job'[a] = "waiting" => tries'[a] < MaxTries
  BY <1>1, <1>5 DEF Finish, RowsConsistent, TypeOK
<1>6. ASSUME NEW b \in Approvals, PickUp(b)
      PROVE  /\ job'[a] = "none" => tries'[a] = 0
             /\ job'[a] = "waiting" => tries'[a] < MaxTries
  BY <1>1, <1>6 DEF PickUp, RowsConsistent, TypeOK
<1>7. CASE Crash
  BY <1>1, <1>7 DEF Crash, RowsConsistent, TypeOK
<1>8. QED
  BY <1>2, <1>3, <1>4, <1>5, <1>6, <1>7
  DEF Next, RequestStep, JobStep, ApprovalStep, Ask, CommitRequest, AbortRequest, Load,
      Execute, Record, Persist, Commit, Fail, Timeout, Create, Expire, ExpireResult, Reprocess

LEMMA RowStepConsistent ==
    ASSUME Consistency, [Next]_vars
    PROVE  RowsConsistent'
BY GrantStep, TriesStep DEF RowsConsistent

\* A job passes its status check only for a committed approval, and reads the
\* edits after it; grants and edits never shrink behind its back.
LEMMA JobStepConsistent ==
    ASSUME Consistency, [Next]_vars
    PROVE  JobsConsistent'
<1> USE DEF vars, approvalVars, requestVars, arqVars, execVars, mailVars
<1>1. TypeOK /\ RowsConsistent /\ JobsConsistent
  BY DEF Consistency
<1>2. \A a \in Approvals : granted[a] # "no" => granted'[a] = granted[a]
  BY GrantStep
<1>3. ASSUME NEW x \in Executors, xpc'[x] = xpc[x], xon'[x] = xon[x], xsource'[x] = xsource[x],
             xpc'[x] # "idle"
      PROVE  /\ xon'[x] \in Approvals
             /\ xpc'[x] \in {"imap", "record", "persist", "commit"} =>
                  /\ granted'[xon'[x]] # "no"
                  /\ xsource'[x] # "no"
                  /\ granted'[xon'[x]] = "edited" => xsource'[x] = "edited"
  BY <1>1, <1>2, <1>3 DEF JobsConsistent
<1>4. CASE UNCHANGED <<xpc, xon, xsource>>
  BY <1>3, <1>4 DEF JobsConsistent
<1>5. ASSUME NEW x \in Executors, JobStep(x), ~ UNCHANGED <<xpc, xon, xsource>>
      PROVE  JobsConsistent'
  <2>1. \A y \in Executors \ {x} : xpc'[y] = xpc[y] /\ xon'[y] = xon[y] /\ xsource'[y] = xsource[y]
    BY <1>1, <1>5
    DEF JobStep, Start, Load, Execute, Record, Persist, Commit, Fail, Timeout, Finish, CloseJob,
        TypeOK
  <2>2. ASSUME NEW a \in Approvals, Start(x, a)
        PROVE  xpc'[x] = "load" /\ xon'[x] = a
    BY <1>1, <2>2 DEF Start, TypeOK
  <2>3. CASE Load(x)
    <3>1. /\ xon' = xon /\ granted' = granted /\ xon[x] \in Approvals
          /\ xpc'[x] \in {"imap", "persist"} => status[xon[x]] = "approved"
          /\ xpc'[x] \in {"imap", "persist"} => xsource'[x] = Source(xon[x])
          /\ xpc'[x] \in {"imap", "persist", "done"}
      BY <1>1, <2>3 DEF Load, TypeOK, JobsConsistent
    <3>2. QED
      BY <1>1, <1>3, <2>1, <3>1 DEF JobsConsistent, RowsConsistent, Source
  <2>4. CASE Execute(x) \/ Record(x) \/ Persist(x)
    <3>1. /\ xon' = xon /\ xsource' = xsource /\ granted' = granted
          /\ xpc[x] \in {"imap", "record", "persist"}
      BY <2>4 DEF Execute, Record, Persist
    <3>2. QED
      BY <1>1, <1>3, <2>1, <3>1 DEF JobsConsistent
  <2>5. CASE Commit(x) \/ Fail(x) \/ Timeout(x)
    <3>1. xpc'[x] = "done" /\ xon' = xon /\ xpc[x] # "idle"
      BY <1>1, <2>5 DEF Commit, Fail, Timeout, TypeOK
    <3>2. QED
      BY <1>1, <1>3, <2>1, <3>1 DEF JobsConsistent
  <2>6. CASE Finish(x)
    <3>1. xpc'[x] = "idle"
      BY <1>1, <2>6 DEF Finish, CloseJob, TypeOK
    <3>2. QED
      BY <1>3, <2>1, <3>1 DEF JobsConsistent
  <2>7. QED
    BY <1>3, <1>5, <2>1, <2>2, <2>3, <2>4, <2>5, <2>6 DEF JobStep, JobsConsistent
<1>6. CASE Crash
  BY <1>6 DEF Crash, JobsConsistent
<1>7. QED
  BY <1>4, <1>5, <1>6
  DEF Next, RequestStep, ApprovalStep, Ask, Send, CommitRequest, AbortRequest, Create, Expire,
      PickUp, ExpireResult, Reprocess

-----------------------------------------------------------------------------
(* The promises *)

\* Actions are carried out by a job that passed its check, with its actions.
LEMMA PromiseStep ==
    ASSUME Consistency, [Next]_vars
    PROVE  OnlyGrantedIsApplied' /\ EditedActionsWin'
<1> USE DEF vars, approvalVars, requestVars, arqVars, execVars, mailVars
<1>1. TypeOK /\ OnlyGrantedIsApplied /\ EditedActionsWin /\ JobsConsistent
  BY DEF Consistency
<1>2. \A a \in Approvals : granted[a] # "no" => granted'[a] = granted[a]
  BY GrantStep
<1>3. CASE UNCHANGED applied
  BY <1>1, <1>2, <1>3 DEF OnlyGrantedIsApplied, EditedActionsWin
<1>4. ASSUME NEW x \in Executors, Execute(x) \/ Persist(x)
      PROVE  OnlyGrantedIsApplied' /\ EditedActionsWin'
  <2>1. /\ granted' = granted
        /\ xpc[x] \in {"imap", "persist"}
        /\ applied' = [applied EXCEPT ![xon[x]] = xsource[x]]
    BY <1>4 DEF Execute, Persist
  <2>2. /\ granted[xon[x]] # "no"
        /\ granted[xon[x]] = "edited" => xsource[x] = "edited"
    BY <1>1, <2>1 DEF JobsConsistent
  <2>3. QED
    BY <1>1, <2>1, <2>2 DEF OnlyGrantedIsApplied, EditedActionsWin, TypeOK
<1>5. QED
  BY <1>3, <1>4
  DEF Next, RequestStep, JobStep, ApprovalStep, Ask, Send, CommitRequest, AbortRequest, Start,
      Load, Record, Commit, Fail, Timeout, Finish, Create, Expire, PickUp, ExpireResult,
      Reprocess, Crash

\* A rejection of spam enqueued its job before it is committed.
LEMMA RejectionStep ==
    ASSUME Consistency, [Next]_vars
    PROVE  RejectionsAreReprocessed'
<1> USE DEF vars, approvalVars, requestVars, arqVars, execVars, mailVars
<1>1. TypeOK /\ RequestsConsistent /\ RejectionsAreReprocessed
  BY DEF Consistency
<1>2. Spam \subseteq Approvals
  BY KindsAssumption
<1>3. CASE UNCHANGED <<status, respam>>
  BY <1>1, <1>3 DEF RejectionsAreReprocessed
<1>4. ASSUME NEW q \in Requests, Send(q)
      PROVE  RejectionsAreReprocessed'
  BY <1>1, <1>2, <1>4 DEF Send, RejectionsAreReprocessed, TypeOK
<1>5. ASSUME NEW q \in Requests, CommitRequest(q)
      PROVE  RejectionsAreReprocessed'
  BY <1>1, <1>2, <1>5 DEF CommitRequest, RequestsConsistent, RejectionsAreReprocessed, TypeOK
<1>6. ASSUME NEW a \in Approvals, Create(a)
      PROVE  RejectionsAreReprocessed'
  BY <1>1, <1>2, <1>6 DEF Create, RejectionsAreReprocessed, TypeOK
<1>7. ASSUME NEW a \in Approvals, Reprocess(a)
      PROVE  RejectionsAreReprocessed'
  BY <1>1, <1>2, <1>7 DEF Reprocess, RejectionsAreReprocessed, TypeOK
<1>8. QED
  BY <1>3, <1>4, <1>5, <1>6, <1>7
  DEF Next, RequestStep, JobStep, ApprovalStep, Ask, AbortRequest, Start, Load, Execute, Record,
      Persist, Commit, Fail, Timeout, Finish, Expire, PickUp, ExpireResult, Crash

-----------------------------------------------------------------------------
(* The theorems *)

\* Before any row exists nothing is open, running, granted or applied.
LEMMA ConsistentInit == Init => Consistency
<1> SUFFICES ASSUME Init PROVE Consistency
  OBVIOUS
<1>1. Inbox \in Folders /\ 0 \in 0..MaxTries /\ 0 \in 0..MaxTroubles
  BY BoundsAssumption DEF Folders
<1>2. TypeOK
  BY <1>1 DEF Init, TypeOK, Status, Operations, Sources
<1>3. OnlyGrantedIsApplied /\ EditedActionsWin /\ RejectionsAreReprocessed
  BY KindsAssumption DEF Init, OnlyGrantedIsApplied, EditedActionsWin, RejectionsAreReprocessed
<1>4. RequestsConsistent /\ JobsConsistent /\ RowsConsistent
  BY DEF Init, RequestsConsistent, JobsConsistent, RowsConsistent
<1>5. QED
  BY <1>2, <1>3, <1>4 DEF Consistency

\* The inductive invariant, for every number of approvals, mails, requests and
\* jobs, every max_tries and however many faults.
THEOREM ApprovalConsistency == Spec => []Consistency
<1>1. Consistency /\ [Next]_vars => Consistency'
  BY TypeStep, RequestStepConsistent, RowStepConsistent, JobStepConsistent, PromiseStep,
     RejectionStep
  DEF Consistency
<1>2. QED
  BY <1>1, ConsistentInit, PTL DEF Spec

\* Every variable keeps its type: an approval's status is one the API knows, its
\* job's tries stay within max_tries, and the row keeps one place of its mail.
THEOREM ApprovalTypesCorrect == Spec => []TypeOK
<1>1. Consistency => TypeOK
  BY DEF Consistency
<1>2. QED
  BY <1>1, ApprovalConsistency, PTL

\* Nothing is carried out without a committed approval of the user.
THEOREM NothingUnapproved == Spec => []OnlyGrantedIsApplied
<1>1. Consistency => OnlyGrantedIsApplied
  BY DEF Consistency
<1>2. QED
  BY <1>1, ApprovalConsistency, PTL

\* What the user edited before approving is what is carried out.
THEOREM EditsAreHonoured == Spec => []EditedActionsWin
<1>1. Consistency => EditedActionsWin
  BY DEF Consistency
<1>2. QED
  BY <1>1, ApprovalConsistency, PTL

\* A committed rejection of spam has its reprocessing job.
THEOREM RejectionsCount == Spec => []RejectionsAreReprocessed
<1>1. Consistency => RejectionsAreReprocessed
  BY DEF Consistency
<1>2. QED
  BY <1>1, ApprovalConsistency, PTL

\* A row waits for the user, is decided, and may then be deleted, in this order.
THEOREM DecisionOrder == Spec => OnlyDecidedAreDeleted
<1> USE DEF vars, approvalVars, requestVars, arqVars, execVars, mailVars
<1> DEFINE Ordered(a) ==
      /\ status[a] = "pending" => status'[a] # "deleted"
      /\ status[a] \in {"approved", "rejected"} => status'[a] # "pending"
      /\ status[a] = "deleted" => status'[a] = "deleted"
<1>1. ASSUME Consistency, [Next]_vars, NEW a \in Approvals
      PROVE  Ordered(a)
  <2>1. TypeOK /\ RequestsConsistent
    BY <1>1 DEF Consistency
  <2>2. ASSUME NEW q \in Requests, CommitRequest(q)
        PROVE  Ordered(a)
    BY <2>1, <2>2 DEF CommitRequest, RequestsConsistent, TypeOK, Operations
  <2>3. ASSUME NEW b \in Approvals, Create(b)
        PROVE  Ordered(a)
    BY <2>1, <2>3 DEF Create, TypeOK
  <2>4. CASE UNCHANGED status
    BY <2>4
  <2>5. QED
    BY <1>1, <2>2, <2>3, <2>4
    DEF Next, RequestStep, JobStep, ApprovalStep, Ask, Send, AbortRequest, Start, Load, Execute,
        Record, Persist, Commit, Fail, Timeout, Finish, Expire, PickUp, ExpireResult, Reprocess,
        Crash
<1>2. Consistency /\ [Next]_vars => [\A a \in Approvals : Ordered(a)]_vars
  BY <1>1
<1>3. QED
  BY <1>2, ApprovalConsistency, PTL DEF Spec, OnlyDecidedAreDeleted

-----------------------------------------------------------------------------
(* The row and the mail *)

\* A job that was started is running, and runs in one slot only.
SlotsConsistent ==
    \A x \in Executors : xpc[x] # "idle" =>
        /\ job[xon[x]] = "running"
        /\ \A y \in Executors \ {x} : xpc[y] # "idle" => xon[y] # xon[x]

\* Before the first job every slot is idle.
LEMMA SlotsInit == Init => SlotsConsistent
BY DEF Init, SlotsConsistent

\* A job starts when it waits and ends in its slot; enqueueing it again, or
\* picking it up after a crash, finds it not running.
LEMMA SlotsStep ==
    ASSUME Consistency, SlotsConsistent, [Next]_vars
    PROVE  SlotsConsistent'
<1> USE DEF vars, approvalVars, requestVars, arqVars, execVars, mailVars
<1>1. TypeOK /\ JobsConsistent
  BY DEF Consistency
<1>2. CASE UNCHANGED <<job, xpc, xon>>
  BY <1>2 DEF SlotsConsistent
<1>3. ASSUME NEW q \in Requests, Send(q)
      PROVE  SlotsConsistent'
  <2>1. \A a \in Approvals : job[a] = "running" => job'[a] = "running"
    BY <1>1, <1>3 DEF Send, TypeOK
  <2>2. QED
    BY <1>1, <1>3, <2>1 DEF Send, SlotsConsistent, JobsConsistent
<1>4. ASSUME NEW x \in Executors, NEW a \in Approvals, Start(x, a)
      PROVE  SlotsConsistent'
  <2>1. /\ \A y \in Executors \ {x} : xpc'[y] = xpc[y] /\ xon'[y] = xon[y]
        /\ xon'[x] = a /\ job[a] = "waiting" /\ job'[a] = "running"
        /\ \A b \in Approvals : job[b] = "running" => job'[b] = "running"
    BY <1>1, <1>4 DEF Start, TypeOK
  <2>2. \A y \in Executors : xpc[y] # "idle" => xon[y] # a /\ xon[y] \in Approvals
    BY <1>1, <2>1 DEF SlotsConsistent, JobsConsistent
  <2>3. QED
    BY <2>1, <2>2 DEF SlotsConsistent
<1>5. ASSUME NEW x \in Executors,
             Load(x) \/ Execute(x) \/ Record(x) \/ Persist(x) \/ Commit(x) \/ Fail(x) \/ Timeout(x)
      PROVE  SlotsConsistent'
  <2>1. /\ \A y \in Executors : xpc'[y] # "idle" => xpc[y] # "idle"
        /\ UNCHANGED <<xon, job>>
    BY <1>1, <1>5 DEF Load, Execute, Record, Persist, Commit, Fail, Timeout, TypeOK
  <2>2. QED
    BY <2>1 DEF SlotsConsistent
<1>6. ASSUME NEW x \in Executors, Finish(x)
      PROVE  SlotsConsistent'
  <2>1. /\ \A y \in Executors \ {x} : xpc'[y] = xpc[y] /\ xon'[y] = xon[y]
        /\ xpc[x] # "idle" /\ xpc'[x] = "idle"
        /\ \A b \in Approvals \ {xon[x]} : job'[b] = job[b]
    BY <1>1, <1>6 DEF Finish, CloseJob, TypeOK
  <2>2. \A y \in Executors \ {x} : xpc[y] # "idle" => xon[y] \in Approvals \ {xon[x]}
    BY <1>1, <2>1 DEF SlotsConsistent, JobsConsistent
  <2>3. QED
    BY <2>1, <2>2 DEF SlotsConsistent
<1>7. CASE Crash
  BY <1>7 DEF Crash, SlotsConsistent
<1>8. ASSUME NEW a \in Approvals, PickUp(a)
      PROVE  SlotsConsistent'
  <2>1. /\ \A b \in Approvals : job[b] = "running" => job'[b] = "running"
        /\ UNCHANGED <<xpc, xon>>
    BY <1>1, <1>8 DEF PickUp, TypeOK
  <2>2. QED
    BY <1>1, <2>1 DEF SlotsConsistent, JobsConsistent
<1>9. QED
  BY <1>2, <1>3, <1>4, <1>5, <1>6, <1>7, <1>8
  DEF Next, RequestStep, JobStep, ApprovalStep, Ask, CommitRequest, AbortRequest, Create, Expire,
      ExpireResult, Reprocess

-----------------------------------------------------------------------------
\* The job moves its mail, between its reading of the row and its commit.
Moving(x) == xpc[x] \in {"imap", "record", "persist", "commit"} /\ DestOf[xon[x]] # None

\* No two jobs move the same mail at a time.
MoversAlone(m) ==
    \A x, y \in Executors :
        Moving(x) /\ Moving(y) /\ MailOf[xon[x]] = m /\ MailOf[xon[y]] = m => x = y

\* The session of the job holds what the row of the mail must become.
Carries(x, m) ==
    /\ xpc[x] \in {"record", "persist", "commit"}
    /\ xmoved[x] = server[m] /\ MailOf[xon[x]] = m

\* Without faults: the row of the mail is right, or one job is about to write it;
\* a job that moves it knows where it is, and only writes what it has done.
MoveConsistent(m) ==
    troubles = 0 =>
        /\ row[m] = server[m] \/ \E x \in Executors : Carries(x, m)
        /\ \A x \in Executors :
            /\ xpc[x] \in {"idle", "load", "imap"} => xmoved[x] = None
            /\ xpc[x] \in {"record", "persist", "commit"} /\ xmoved[x] # None => DestOf[xon[x]] # None
            /\ MailOf[xon[x]] = m =>
                /\ xpc[x] = "imap" /\ DestOf[xon[x]] # None => xfolder[x] = server[m]
                /\ xpc[x] \in {"record", "persist", "commit"} /\ xmoved[x] # None => xmoved[x] = server[m]

\* Every mail is where it was found.
LEMMA MovesInit ==
    ASSUME Init, NEW m \in Mails
    PROVE  MoveConsistent(m)
BY DEF Init, MoveConsistent

\* Troubles are counted, never forgotten.
LEMMA TroublesGrow ==
    ASSUME Consistency, [Next]_vars, troubles' = 0
    PROVE  troubles = 0
<1> USE DEF vars, approvalVars, requestVars, arqVars, execVars, mailVars
<1>1. troubles \in 0..MaxTroubles /\ MaxTroubles \in Nat
  BY BoundsAssumption DEF Consistency, TypeOK
<1>2. CASE troubles' = troubles
  BY <1>2
<1>3. CASE troubles' = troubles + 1
  BY <1>1, <1>3
<1>4. QED
  BY <1>2, <1>3
  DEF Next, RequestStep, JobStep, ApprovalStep, Ask, Send, CommitRequest, AbortRequest, Start, Load,
      Execute, Record, Persist, Commit, Fail, Timeout, Finish, Create, Expire, PickUp, ExpireResult,
      Reprocess, Crash, Trouble

\* A mail that no job moves is where its row says.
LEMMA RowIsRight ==
    ASSUME NEW m \in Mails, Consistency, MoveConsistent(m), troubles = 0,
           \A y \in Executors : Moving(y) => MailOf[xon[y]] # m
    PROVE  row[m] = server[m]
<1>1. server[m] # None
  BY NoneAssumption DEF Consistency, TypeOK, Folders
<1>2. ASSUME NEW y \in Executors, Carries(y, m)
      PROVE  FALSE
  BY <1>1, <1>2 DEF Carries, MoveConsistent, Moving
<1>3. QED
  BY <1>2 DEF MoveConsistent

\* A job is never in two slots, so no two jobs move a mail that is solely moved.
LEMMA SoleMoversAlone ==
    ASSUME Consistency, SlotsConsistent, NEW m \in SolelyMoved
    PROVE  MoversAlone(m)
BY DEF Consistency, JobsConsistent, SlotsConsistent, SolelyMoved, MoversOf, MoversAlone, Moving

\* A job that is alone with its mail finds it where the row says, moves it, and
\* writes where it put it; the jobs of other mails do not touch it.
LEMMA MoveStep ==
    ASSUME Consistency, NEW m \in SolelyMoved, MoveConsistent(m), MoversAlone(m), MoversAlone(m)',
           [Next]_vars
    PROVE  MoveConsistent(m)'
<1> SUFFICES ASSUME troubles' = 0
             PROVE  MoveConsistent(m)'
  BY DEF MoveConsistent
<1> USE DEF vars, approvalVars, requestVars, arqVars, execVars, mailVars
<1>1. troubles = 0 /\ TypeOK /\ JobsConsistent /\ m \in Mails
  BY TroublesGrow DEF Consistency, SolelyMoved
<1>2. ~ Trouble
  BY <1>1 DEF Trouble
<1>3. CASE UNCHANGED <<execVars, mailVars>>
  BY <1>1, <1>3 DEF MoveConsistent, Carries
<1>4. ASSUME NEW x \in Executors, JobStep(x)
      PROVE  MoveConsistent(m)'
  <2> DEFINE a == xon[x]
  <2>1. xpc[x] # "idle" => a \in Approvals /\ MailOf[a] \in Mails
    BY <1>1, KindsAssumption DEF JobsConsistent
  <2>2. \A y \in Executors \ {x} :
          xpc'[y] = xpc[y] /\ xon'[y] = xon[y] /\ xmoved'[y] = xmoved[y] /\ xfolder'[y] = xfolder[y]
    BY <1>1, <1>2, <1>4
    DEF JobStep, Start, Load, Execute, Record, Persist, Commit, Fail, Timeout, Finish, CloseJob, TypeOK
  <2>3. ASSUME NEW b \in Approvals, Start(x, b)
        PROVE  MoveConsistent(m)'
    <3>1. /\ xpc[x] = "idle" /\ xpc'[x] = "load" /\ UNCHANGED <<xmoved, xfolder, server, row>>
      BY <1>1, <2>3 DEF Start, TypeOK
    <3>2. QED
      BY <1>1, <2>2, <3>1 DEF MoveConsistent, Carries
  <2>4. CASE Load(x)
    <3>1. /\ xpc[x] = "load" /\ xpc'[x] \in {"imap", "persist", "done"}
          /\ xpc'[x] = "imap" => xfolder'[x] = row[MailOf[a]]
          /\ UNCHANGED <<xon, xmoved, server, row>>
      BY <1>1, <2>4 DEF Load, TypeOK
    <3>2. ASSUME xpc'[x] = "imap", DestOf[a] # None, MailOf[a] = m
          PROVE  row[m] = server[m]
      <4>1. Moving(x)' /\ ~ Moving(x)
        BY <3>1, <3>2 DEF Moving
      <4>2. \A y \in Executors \ {x} : Moving(y) => MailOf[xon[y]] # m
        BY <2>2, <3>1, <3>2, <4>1 DEF Moving, MoversAlone
      <4>3. QED
        BY <1>1, <4>1, <4>2, RowIsRight
    <3>3. QED
      BY <1>1, <2>2, <3>1, <3>2 DEF MoveConsistent, Carries
  <2>5. CASE Execute(x)
    <3>1. /\ xpc[x] = "imap" /\ xpc'[x] = "record" /\ xmoved[x] = None
          /\ UNCHANGED <<xon, xfolder, row>>
          /\ DestOf[a] # None /\ MailOf[a] = m => xfolder[x] = server[m]
      BY <1>1, <2>5 DEF Execute, TypeOK, MoveConsistent
    <3>2. CASE /\ server'[m] = server[m]
               /\ xmoved'[x] # None => DestOf[a] # None /\ MailOf[a] # m
      BY <1>1, <2>2, <3>1, <3>2 DEF MoveConsistent, Carries
    <3>3. CASE /\ DestOf[a] # None /\ MailOf[a] = m
               /\ server'[m] = DestOf[a]
               /\ xmoved'[x] = DestOf[a]
      <4>1. \A y \in Executors \ {x} : Moving(y) => MailOf[xon[y]] # m
        BY <3>1, <3>3 DEF Moving, MoversAlone
      <4>2. Carries(x, m)'
        BY <3>1, <3>3 DEF Carries
      <4>3. QED
        BY <1>1, <2>2, <3>1, <3>3, <4>1, <4>2 DEF MoveConsistent, Moving
    <3>4. CASE MailOf[a] = m
      BY <1>1, <1>2, <2>5, <3>1, <3>2, <3>3, <3>4 DEF Execute, Moves, TypeOK
    <3>5. CASE MailOf[a] # m
      <4>1. server'[m] = server[m] /\ (xmoved'[x] # None => DestOf[a] # None)
        BY <1>1, <1>2, <2>1, <2>5, <3>1, <3>5 DEF Execute, Moves, TypeOK
      <4>2. QED
        BY <3>2, <3>5, <4>1
    <3>6. QED
      BY <3>4, <3>5
  <2>6. CASE Record(x) \/ Persist(x)
    <3>1. /\ xpc[x] \in {"record", "persist"} /\ xpc'[x] \in {"record", "persist", "commit"}
          /\ UNCHANGED <<xon, xfolder, xmoved, server, row>>
      BY <1>1, <2>6 DEF Record, Persist, TypeOK
    <3>2. QED
      BY <1>1, <2>2, <3>1 DEF MoveConsistent, Carries
  <2>7. CASE Commit(x)
    <3>1. /\ xpc[x] = "commit" /\ xpc'[x] = "done"
          /\ UNCHANGED <<xon, xfolder, xmoved, server>>
          /\ row' = IF xmoved[x] = None THEN row ELSE [row EXCEPT ![MailOf[a]] = xmoved[x]]
      BY <1>1, <2>7 DEF Commit, TypeOK
    <3>2. server[m] # None
      BY <1>1, NoneAssumption DEF TypeOK, Folders
    <3>3. row'[m] = IF MailOf[a] = m /\ xmoved[x] # None THEN server[m] ELSE row[m]
      BY <1>1, <2>1, <3>1 DEF MoveConsistent, TypeOK
    <3>4. row'[m] = server'[m] \/ \E y \in Executors : Carries(y, m)'
      <4>1. CASE row[m] = server[m] \/ Carries(x, m)
        BY <3>1, <3>2, <3>3, <4>1 DEF Carries
      <4>2. ASSUME NEW y \in Executors \ {x}, Carries(y, m)
            PROVE  Carries(y, m)'
        BY <2>2, <3>1, <4>2 DEF Carries
      <4>3. QED
        BY <1>1, <4>1, <4>2 DEF MoveConsistent
    <3>5. QED
      BY <1>1, <2>2, <3>1, <3>4 DEF MoveConsistent
  <2>8. CASE Fail(x)
    BY <1>2, <2>8 DEF Fail
  <2>9. CASE Timeout(x)
    <3>1. /\ xpc[x] = "persist" /\ xpc'[x] = "done" /\ a \in Stores /\ xmoved[x] # None
          /\ UNCHANGED <<xon, xfolder, xmoved, server, row>>
      BY <1>1, <2>9 DEF Timeout, Holds, TypeOK
    <3>2. MailOf[a] # m
      BY <1>1, <2>1, <3>1 DEF MoveConsistent, SolelyMoved, MoversOf
    <3>3. QED
      BY <1>1, <2>2, <3>1, <3>2 DEF MoveConsistent, Carries
  <2>10. CASE Finish(x)
    <3>1. /\ xpc[x] = "done" /\ xpc'[x] = "idle" /\ xmoved'[x] = None
          /\ UNCHANGED <<server, row>>
      BY <1>1, <2>10 DEF Finish, CloseJob, TypeOK
    <3>2. \A y \in Executors : Carries(y, m) => y # x /\ Carries(y, m)'
      BY <2>2, <3>1 DEF Carries
    <3>3. QED
      BY <1>1, <2>2, <3>1, <3>2 DEF MoveConsistent, Carries
  <2>11. QED
    BY <1>4, <2>3, <2>4, <2>5, <2>6, <2>7, <2>8, <2>9, <2>10 DEF JobStep
<1>5. QED
  BY <1>2, <1>3, <1>4
  DEF Next, RequestStep, ApprovalStep, Ask, Send, CommitRequest, AbortRequest, Create, Expire,
      PickUp, ExpireResult, Reprocess, Crash

\* What the row of a mail that is solely moved rests on.
MovesConsistent == \A m \in SolelyMoved : MoveConsistent(m)

\* The row of a mail that one approval moves, and that no approval both moves and
\* stores about, follows it, unless a fault comes between the move and its commit;
\* whatever else is approved, stored or moved at the same time, smart folder
\* approvals of other mails included.
THEOREM SoleMovesRecorded == Spec => []SoleMovesAreRecorded
<1>1. Consistency /\ MovesConsistent => SoleMovesAreRecorded
  <2>1. ASSUME TypeOK PROVE troubles = 0 \/ troubles > 0
    BY <2>1, BoundsAssumption DEF TypeOK
  <2>2. QED
    BY <2>1 DEF Consistency, MovesConsistent, MoveConsistent, SoleMovesAreRecorded, RowFollows, Carries
<1>2. Init => MovesConsistent
  BY MovesInit DEF MovesConsistent, SolelyMoved
<1>3. /\ Consistency /\ Consistency' /\ SlotsConsistent /\ SlotsConsistent'
      /\ MovesConsistent /\ [Next]_vars
      => MovesConsistent'
  <2> SUFFICES ASSUME Consistency, Consistency', SlotsConsistent, SlotsConsistent',
                      MovesConsistent, [Next]_vars, NEW m \in SolelyMoved
               PROVE  MoveConsistent(m)'
    BY DEF MovesConsistent, SolelyMoved, MoversOf
  <2>1. MoversAlone(m)
    BY SoleMoversAlone
  <2>2. MoversAlone(m)'
    BY DEF Consistency, JobsConsistent, SlotsConsistent, SolelyMoved, MoversOf, MoversAlone, Moving
  <2>3. QED
    BY <2>1, <2>2, MoveStep DEF MovesConsistent
<1>4. Consistency /\ SlotsConsistent /\ [Next]_vars => SlotsConsistent'
  BY SlotsStep
<1>5. QED
  BY <1>1, <1>2, <1>3, <1>4, SlotsInit, ApprovalConsistency, PTL DEF Spec

\* A mail whose approvals all store what they move for, as smart folders do, keeps
\* its row, wherever it goes: the job never gets past the lock it holds itself.
StoredMovesAreLost ==
    \A m \in Mails : MoversOf(m) \subseteq Stores => row[m] = Inbox

\* The row of a mail that smart folder approvals move is never written, for any
\* number of requests, jobs, retries, faults and crashes.
THEOREM StoredMovesLost == Spec => []StoredMovesAreLost
<1> DEFINE Blocked ==
        \A x \in Executors :
            /\ xpc[x] \in {"idle", "load", "imap"} => xmoved[x] = None
            /\ xpc[x] \in {"record", "persist", "commit"} /\ xmoved[x] # None =>
                /\ DestOf[xon[x]] # None
                /\ xpc[x] = "commit" => xon[x] \notin Stores
<1> USE DEF vars, approvalVars, requestVars, arqVars, execVars, mailVars
<1>1. Init => Blocked /\ StoredMovesAreLost
  BY DEF Init, StoredMovesAreLost
<1>2. Consistency /\ Blocked /\ [Next]_vars => Blocked'
  <2> SUFFICES ASSUME Consistency, Blocked, [Next]_vars
               PROVE  Blocked'
    OBVIOUS
  <2>1. TypeOK
    BY DEF Consistency
  <2>2. CASE UNCHANGED execVars
    BY <2>2
  <2>3. ASSUME NEW x \in Executors, JobStep(x)
        PROVE  Blocked'
    <3>1. ASSUME NEW a \in Approvals, Start(x, a) PROVE Blocked'
      BY <2>1, <3>1 DEF Start, TypeOK
    <3>2. CASE Load(x)
      BY <2>1, <3>2 DEF Load, TypeOK
    <3>3. CASE Execute(x)
      BY <2>1, <3>3 DEF Execute, Moves, TypeOK
    <3>4. CASE Record(x)
      BY <2>1, <3>4 DEF Record, TypeOK
    <3>5. CASE Persist(x)
      <4>1. xon[x] \in Stores => xmoved[x] = None
        BY <2>1, <3>5 DEF Persist, Free, Holds
      <4>2. QED
        BY <2>1, <3>5, <4>1 DEF Persist, TypeOK
    <3>6. CASE Commit(x) \/ Fail(x) \/ Timeout(x)
      BY <2>1, <3>6 DEF Commit, Fail, Timeout, TypeOK
    <3>7. CASE Finish(x)
      BY <2>1, <3>7 DEF Finish, CloseJob, TypeOK
    <3>8. QED
      BY <2>3, <3>1, <3>2, <3>3, <3>4, <3>5, <3>6, <3>7 DEF JobStep
  <2>4. CASE Crash
    BY <2>4 DEF Crash
  <2>5. QED
    BY <2>2, <2>3, <2>4
    DEF Next, RequestStep, ApprovalStep, Ask, Send, CommitRequest, AbortRequest, Create, Expire,
        PickUp, ExpireResult, Reprocess
<1>3. Consistency /\ Blocked /\ StoredMovesAreLost /\ [Next]_vars => StoredMovesAreLost'
  <2> SUFFICES ASSUME Consistency, Blocked, StoredMovesAreLost, [Next]_vars
               PROVE  StoredMovesAreLost'
    OBVIOUS
  <2>1. CASE UNCHANGED row
    BY <2>1 DEF StoredMovesAreLost, MoversOf
  <2>2. ASSUME NEW x \in Executors, Commit(x)
        PROVE  StoredMovesAreLost'
    <3>1. xon[x] \in Approvals /\ (xmoved[x] # None => xon[x] \in MoversOf(MailOf[xon[x]]) \ Stores)
      BY <2>2 DEF Commit, Consistency, JobsConsistent, MoversOf
    <3>2. QED
      BY <2>2, <3>1 DEF Commit, StoredMovesAreLost, MoversOf, Consistency, TypeOK
  <2>3. QED
    BY <2>1, <2>2
    DEF Next, RequestStep, JobStep, ApprovalStep, Ask, Send, CommitRequest, AbortRequest, Create,
        Expire, PickUp, ExpireResult, Reprocess, Crash, Start, Load, Execute, Record, Persist, Fail,
        Timeout, Finish
<1>4. QED
  BY <1>1, <1>2, <1>3, ApprovalConsistency, PTL DEF Spec

-----------------------------------------------------------------------------
(* The approvals implement their life cycle *)

\* What the user had edited stays edited, and a job that may still act for an
\* action that was carried out in the user's version acts in that version.
EditsStay ==
    /\ \A a \in Approvals : applied[a] = "edited" => a \in edited
    /\ \A x \in Executors : Working(x) =>
        /\ xsource[x] = "edited" => xon[x] \in edited
        /\ applied[xon[x]] = "edited" => xsource[x] = "edited"

\* Nothing is carried out before the first approval.
LEMMA EditsInit == Init => EditsStay
BY DEF Init, EditsStay, Working

\* A job takes the user's version where there is one, and no other job for the
\* same approval can carry it out behind its back.
LEMMA EditsStep ==
    ASSUME Consistency, SlotsConsistent, EditsStay, [Next]_vars
    PROVE  EditsStay'
<1> USE DEF vars, approvalVars, requestVars, arqVars, execVars, mailVars
<1>1. TypeOK /\ JobsConsistent
  BY DEF Consistency
<1>2. CASE UNCHANGED <<edited, execVars, applied>>
  BY <1>2 DEF EditsStay, Working
<1>3. ASSUME NEW q \in Requests, CommitRequest(q)
      PROVE  EditsStay'
  <2>1. edited \subseteq edited' /\ UNCHANGED <<execVars, applied>>
    BY <1>3 DEF CommitRequest
  <2>2. QED
    BY <2>1 DEF EditsStay, Working
<1>4. ASSUME NEW x \in Executors, NEW a \in Approvals, Start(x, a)
      PROVE  EditsStay'
  <2>1. /\ ~ Working(x)'
        /\ \A y \in Executors \ {x} :
             Working(y)' = Working(y) /\ xon'[y] = xon[y] /\ xsource'[y] = xsource[y]
        /\ UNCHANGED <<edited, applied>>
    BY <1>1, <1>4 DEF Start, TypeOK, Working
  <2>2. QED
    BY <2>1 DEF EditsStay
<1>5. ASSUME NEW x \in Executors, Load(x)
      PROVE  EditsStay'
  <2>1. /\ xon[x] \in Approvals
        /\ Working(x)' => xsource'[x] = Source(xon[x])
        /\ \A y \in Executors \ {x} :
             Working(y)' = Working(y) /\ xsource'[y] = xsource[y]
        /\ UNCHANGED <<edited, applied, xon>>
    BY <1>1, <1>5 DEF Load, TypeOK, Working, JobsConsistent
  <2>2. QED
    BY <2>1 DEF EditsStay, Source
<1>6. ASSUME NEW x \in Executors, Execute(x) \/ Persist(x)
      PROVE  EditsStay'
  <2>1. /\ Working(x) /\ xon[x] \in Approvals /\ xpc[x] # "idle"
        /\ applied' = [applied EXCEPT ![xon[x]] = xsource[x]]
        /\ UNCHANGED <<edited, xon, xsource>>
        /\ \A y \in Executors : Working(y)' = Working(y)
    BY <1>1, <1>6 DEF Execute, Persist, TypeOK, Working, JobsConsistent
  <2>2. \A y \in Executors \ {x} : Working(y) => xon[y] # xon[x] /\ xon[y] \in Approvals
    BY <1>1, <2>1 DEF SlotsConsistent, Working, JobsConsistent
  <2>3. QED
    BY <1>1, <2>1, <2>2 DEF EditsStay, TypeOK
<1>7. ASSUME NEW x \in Executors,
             Record(x) \/ Commit(x) \/ Fail(x) \/ Timeout(x)
      PROVE  EditsStay'
  <2>1. /\ \A y \in Executors : Working(y)' => Working(y)
        /\ UNCHANGED <<edited, applied, xon, xsource>>
    BY <1>1, <1>7 DEF Record, Commit, Fail, Timeout, TypeOK, Working
  <2>2. QED
    BY <2>1 DEF EditsStay
<1>8. ASSUME NEW x \in Executors, Finish(x)
      PROVE  EditsStay'
  <2>1. /\ ~ Working(x)'
        /\ \A y \in Executors \ {x} :
             Working(y)' = Working(y) /\ xon'[y] = xon[y] /\ xsource'[y] = xsource[y]
        /\ UNCHANGED <<edited, applied>>
    BY <1>1, <1>8 DEF Finish, CloseJob, TypeOK, Working
  <2>2. QED
    BY <2>1 DEF EditsStay
<1>9. CASE Crash
  BY <1>9 DEF Crash, EditsStay, Working
<1>10. QED
  BY <1>2, <1>3, <1>4, <1>5, <1>6, <1>7, <1>8, <1>9
  DEF Next, RequestStep, JobStep, ApprovalStep, Ask, Send, CloseRequest, AbortRequest, Create,
      Expire, PickUp, ExpireResult, Reprocess

\* Nothing is asked and nobody works.
LEMMA LifeInit == Init => Life!Init
BY DEF Init, Life!Init, Life!NoIntent, intentBar, workingBar, Working

\* A step that leaves the working jobs and their sources alone changes nobody's work.
LEMMA SameWork ==
    ASSUME \A x \in Executors : /\ Working(x)' = Working(x)
                                /\ Working(x) => xon'[x] = xon[x] /\ xsource'[x] = xsource[x]
    PROVE  workingBar' = workingBar
BY DEF workingBar

\* One job ends its work; nobody else did the same.
LEMMA WorkEnds ==
    ASSUME Consistency, SlotsConsistent, NEW x \in Executors, Working(x), ~ Working(x)',
           \A y \in Executors \ {x} : /\ Working(y)' = Working(y)
                                      /\ xon'[y] = xon[y] /\ xsource'[y] = xsource[y]
    PROVE  workingBar' = [workingBar EXCEPT ![xon[x]] = {}]
<1>1. xon[x] \in Approvals
  BY DEF Consistency, JobsConsistent, Working
<1>2. workingBar'[xon[x]] = {}
  BY <1>1 DEF workingBar, SlotsConsistent, Working
<1>3. ASSUME NEW a \in Approvals, a # xon[x]
      PROVE  workingBar'[a] = workingBar[a]
  BY <1>3 DEF workingBar
<1>4. workingBar' = [a \in Approvals |-> workingBar'[a]]
  BY DEF workingBar
<1>5. QED
  BY <1>2, <1>3, <1>4 DEF workingBar

\* A request is answered.
LEMMA RequestEnds ==
    ASSUME TypeOK, NEW q \in Requests, qpc[q] # "idle", CloseRequest(q)
    PROVE  /\ intentBar[q] = [op |-> qop[q], on |-> qon[q]] /\ intentBar[q] # Life!NoIntent
           /\ intentBar' = [intentBar EXCEPT ![q] = Life!NoIntent]
<1>1. intentBar[q] = [op |-> qop[q], on |-> qon[q]] /\ qop[q] # "none"
  BY DEF intentBar, TypeOK, Operations
<1>2. intentBar' = [intentBar EXCEPT ![q] = Life!NoIntent]
  BY DEF CloseRequest, intentBar, TypeOK, Life!NoIntent
<1>3. QED
  BY <1>1, <1>2 DEF Life!NoIntent

\* Every step of the approvals is a step of their life cycle, or none.
LEMMA LifeStep ==
    ASSUME Consistency, SlotsConsistent, EditsStay, [Next]_vars
    PROVE  [Life!Next]_(Life!lifeVars)
<1> USE DEF vars, approvalVars, requestVars, arqVars, execVars, mailVars, Life!lifeVars
<1>1. TypeOK /\ RequestsConsistent /\ JobsConsistent
  BY DEF Consistency
<1>2. CASE UNCHANGED <<approvalVars, requestVars, execVars, applied>>
  BY <1>2 DEF intentBar, workingBar, Working
<1>3. ASSUME NEW a \in Approvals, Create(a)
      PROVE  Life!Create(a)
  BY <1>3 DEF Create, Life!Create, intentBar, workingBar, Working
<1>4. ASSUME NEW a \in Approvals, Expire(a)
      PROVE  Life!Expire(a)
  BY <1>4 DEF Expire, Life!Expire, intentBar, workingBar, Working
<1>5. ASSUME NEW q \in Requests, NEW op \in Operations, NEW a \in Approvals, Ask(q, op, a)
      PROVE  Life!Ask(q, op, a)
  <2>1. intentBar[q] = Life!NoIntent
    BY <1>5 DEF Ask, intentBar, Life!NoIntent
  <2>2. intentBar' = [intentBar EXCEPT ![q] = [op |-> op, on |-> a]]
    BY <1>1, <1>5 DEF Ask, intentBar, TypeOK
  <2>3. \/ op = "delete" /\ status[a] \in {"approved", "rejected"}
        \/ op \in {"approve", "reject", "edit"} /\ status[a] = "pending" /\ a \notin overdue
    BY <1>5 DEF Ask, Accepts, Operations
  <2>4. UNCHANGED <<status, edited, overdue, workingBar, applied>>
    BY <1>5 DEF Ask, workingBar, Working
  <2>5. QED
    BY <2>1, <2>2, <2>3, <2>4 DEF Life!Ask
<1>6. ASSUME NEW q \in Requests, Send(q)
      PROVE  UNCHANGED Life!lifeVars \/ Life!Drop(q)
  <2>1. UNCHANGED <<status, edited, overdue, workingBar, applied>> /\ qpc[q] # "idle"
    BY <1>6 DEF Send, workingBar, Working
  <2>2. CASE CloseRequest(q)
    BY <1>1, <2>1, <2>2, RequestEnds DEF Life!Drop
  <2>3. CASE qpc' = [qpc EXCEPT ![q] = "sent"] /\ UNCHANGED <<qop, qon>>
    <3>1. intentBar' = intentBar
      BY <1>1, <2>1, <2>3 DEF intentBar, TypeOK
    <3>2. QED
      BY <2>1, <3>1
  <2>4. QED
    BY <1>6, <2>2, <2>3 DEF Send
<1>7. ASSUME NEW q \in Requests, CommitRequest(q)
      PROVE  Life!Decide(q)
  <2>1. /\ intentBar[q] = [op |-> qop[q], on |-> qon[q]] /\ intentBar[q] # Life!NoIntent
        /\ intentBar' = [intentBar EXCEPT ![q] = Life!NoIntent]
    BY <1>1, <1>7, RequestEnds DEF CommitRequest
  <2>2. status[qon[q]] = "deleted" => qop[q] = "delete"
    BY <1>1, <1>7 DEF CommitRequest, RequestsConsistent
  <2>3. UNCHANGED <<overdue, workingBar, applied>>
    BY <1>7 DEF CommitRequest, workingBar, Working
  <2>4. intentBar[q].op = qop[q] /\ intentBar[q].on = qon[q]
    BY <2>1
  <2>5. QED
    BY <1>7, <2>1, <2>2, <2>3, <2>4 DEF CommitRequest, Life!Decide
<1>8. ASSUME NEW q \in Requests, AbortRequest(q)
      PROVE  Life!Drop(q)
  <2>1. UNCHANGED <<status, edited, overdue, workingBar, applied>>
    BY <1>8 DEF AbortRequest, workingBar, Working
  <2>2. QED
    BY <1>1, <1>8, <2>1, RequestEnds DEF AbortRequest, Life!Drop
<1>9. ASSUME NEW x \in Executors, JobStep(x)
      PROVE  UNCHANGED <<approvalVars, intentBar>>
  BY <1>9
  DEF JobStep, Start, Load, Execute, Record, Persist, Commit, Fail, Timeout, Finish, intentBar
<1>10. ASSUME NEW x \in Executors, NEW a \in Approvals, Start(x, a)
       PROVE  UNCHANGED <<workingBar, applied>>
  <2>1. \A y \in Executors : /\ Working(y)' = Working(y)
                             /\ Working(y) => xon'[y] = xon[y] /\ xsource'[y] = xsource[y]
    BY <1>1, <1>10 DEF Start, Working, TypeOK
  <2>2. QED
    BY <1>10, <2>1, SameWork DEF Start
<1>11. ASSUME NEW x \in Executors, Load(x)
       PROVE  UNCHANGED <<workingBar, applied>> \/ (xon[x] \in Approvals /\ Life!Begin(x, xon[x]))
  <2>1. xon[x] \in Approvals /\ ~ Working(x) /\ xpc[x] # "idle" /\ UNCHANGED <<xon, applied>>
    BY <1>1, <1>11 DEF Load, Working, JobsConsistent
  <2>2. CASE status[xon[x]] = "approved"
    <3> DEFINE a == xon[x]
    <3>1. workingBar[a] = {}
      BY <1>1, <2>1 DEF workingBar, SlotsConsistent, Working
    <3>2. /\ Working(x)' /\ xsource'[x] = Source(a)
          /\ \A y \in Executors \ {x} : Working(y)' = Working(y) /\ xsource'[y] = xsource[y]
      BY <1>1, <1>11, <2>2 DEF Load, Working, TypeOK
    <3>3. workingBar'[a] = {<<x, Source(a)>>}
      <4>1. \A y \in Executors : Working(y)' /\ xon'[y] = a <=> y = x
        BY <2>1, <3>2, <1>1 DEF SlotsConsistent, Working
      <4>2. workingBar'[a] = {<<y, xsource'[y]>> : y \in {z \in Executors : Working(z)' /\ xon'[z] = a}}
        BY <2>1 DEF workingBar
      <4>3. QED
        BY <3>2, <4>1, <4>2
    <3>4. ASSUME NEW b \in Approvals, b # a
          PROVE  workingBar'[b] = workingBar[b]
      BY <2>1, <3>2, <3>4 DEF workingBar
    <3>5. workingBar' = [workingBar EXCEPT ![a] = {<<x, Source(a)>>}]
      BY <3>3, <3>4 DEF workingBar
    <3>6. QED
      BY <1>9, <1>11, <2>1, <2>2, <3>1, <3>5 DEF Life!Begin, Source, JobStep
  <2>3. CASE status[xon[x]] # "approved"
    <3>1. \A y \in Executors : /\ Working(y)' = Working(y)
                               /\ Working(y) => xon'[y] = xon[y] /\ xsource'[y] = xsource[y]
      BY <1>1, <1>11, <2>1, <2>3 DEF Load, Working, TypeOK
    <3>2. QED
      BY <2>1, <3>1, SameWork
  <2>4. QED
    BY <2>2, <2>3
<1>12. ASSUME NEW x \in Executors, Execute(x) \/ Persist(x)
       PROVE  xon[x] \in Approvals /\ Life!CarryOut(x, xon[x])
  <2>1. /\ Working(x) /\ xon[x] \in Approvals /\ xsource[x] \in {"proposed", "edited"}
        /\ applied' = [applied EXCEPT ![xon[x]] = xsource[x]]
        /\ UNCHANGED <<xon, xsource>>
        /\ \A y \in Executors : Working(y)' = Working(y)
    BY <1>1, <1>12 DEF Execute, Persist, TypeOK, Sources, Working, JobsConsistent
  <2>2. workingBar' = workingBar
    BY <2>1, SameWork
  <2>3. <<x, xsource[x]>> \in workingBar[xon[x]]
    BY <2>1 DEF workingBar
  <2>4. applied[xon[x]] = "edited" => xsource[x] = "edited"
    BY <2>1 DEF EditsStay
  <2>5. UNCHANGED <<status, edited, overdue, intentBar>>
    BY <1>9, <1>12 DEF JobStep
  <2>6. QED
    BY <2>1, <2>2, <2>3, <2>4, <2>5 DEF Life!CarryOut
<1>13. ASSUME NEW x \in Executors, Record(x)
       PROVE  UNCHANGED <<workingBar, applied>>
  <2>1. \A y \in Executors : Working(y)' = Working(y)
    BY <1>1, <1>13 DEF Record, Working, TypeOK
  <2>2. QED
    BY <1>13, <2>1, SameWork DEF Record
<1>14. ASSUME NEW x \in Executors, Commit(x) \/ Fail(x) \/ Timeout(x)
       PROVE  UNCHANGED <<workingBar, applied>> \/ (xon[x] \in Approvals /\ Life!End(xon[x]))
  <2>1. /\ ~ Working(x)' /\ UNCHANGED <<xon, xsource, applied>>
        /\ \A y \in Executors \ {x} : Working(y)' = Working(y)
        /\ xpc[x] # "idle"
    BY <1>1, <1>14 DEF Commit, Fail, Timeout, Working, TypeOK
  <2>2. CASE Working(x)
    <3>1. workingBar' = [workingBar EXCEPT ![xon[x]] = {}]
      BY <2>1, <2>2, WorkEnds
    <3>2. UNCHANGED <<status, edited, overdue, intentBar>>
      BY <1>9, <1>14 DEF JobStep
    <3>3. QED
      BY <1>1, <2>1, <3>1, <3>2 DEF Life!End, JobsConsistent
  <2>3. CASE ~ Working(x)
    <3>1. \A y \in Executors : Working(y)' = Working(y)
      BY <2>1, <2>3 DEF Working
    <3>2. QED
      BY <2>1, <3>1, SameWork
  <2>4. QED
    BY <2>2, <2>3
<1>15. ASSUME NEW x \in Executors, Finish(x)
       PROVE  UNCHANGED <<workingBar, applied>>
  <2>1. \A y \in Executors : /\ Working(y)' = Working(y)
                             /\ Working(y) => xon'[y] = xon[y] /\ xsource'[y] = xsource[y]
    BY <1>1, <1>15 DEF Finish, CloseJob, Working, TypeOK
  <2>2. QED
    BY <1>15, <2>1, SameWork DEF Finish
<1>16. ASSUME Crash
       PROVE  Life!WorkerLost
  <2>1. workingBar' = [a \in Approvals |-> {}]
    BY <1>16 DEF Crash, workingBar, Working
  <2>2. QED
    BY <1>16, <2>1 DEF Crash, Life!WorkerLost, intentBar
<1>17. QED
  <2>1. CASE \E q \in Requests : RequestStep(q)
    BY <2>1, <1>5, <1>6, <1>7, <1>8 DEF RequestStep, Life!Next, Operations
  <2>2. CASE \E x \in Executors : JobStep(x)
    <3>1. PICK x \in Executors : JobStep(x)
      BY <2>2
    <3>2. CASE UNCHANGED <<workingBar, applied>>
      BY <1>9, <3>1, <3>2
    <3>3. CASE \E a \in Approvals : Life!Begin(x, a) \/ Life!CarryOut(x, a) \/ Life!End(a)
      BY <3>3 DEF Life!Next
    <3>4. QED
      BY <3>1, <3>2, <3>3, <1>10, <1>11, <1>12, <1>13, <1>14, <1>15 DEF JobStep
  <2>3. CASE \E a \in Approvals : ApprovalStep(a)
    BY <2>3, <1>2, <1>3, <1>4 DEF ApprovalStep, PickUp, ExpireResult, Reprocess, Life!Next
  <2>4. CASE Crash
    BY <2>4, <1>16 DEF Life!Next
  <2>5. CASE UNCHANGED vars
    BY <2>5, <1>2
  <2>6. QED
    BY <2>1, <2>2, <2>3, <2>4, <2>5 DEF Next

\* With all their locks, keys, retries and crashes the approvals take only steps
\* of their life cycle: api/approvals.py and execute_approved_actions together
\* decide rows and carry actions out as if each did it alone and at once.
THEOREM ApprovalLifecycleImplemented == Spec => ImplementsLifecycle
<1>1. SlotsConsistent /\ EditsStay /\ Consistency /\ [Next]_vars => SlotsConsistent' /\ EditsStay'
  BY SlotsStep, EditsStep
<1>2. Consistency /\ SlotsConsistent /\ EditsStay /\ [Next]_vars => [Life!Next]_(Life!lifeVars)
  BY LifeStep
<1>3. QED
  BY <1>1, <1>2, LifeInit, SlotsInit, EditsInit, ApprovalConsistency, PTL
  DEF Spec, ImplementsLifecycle, Life!Spec
=============================================================================
