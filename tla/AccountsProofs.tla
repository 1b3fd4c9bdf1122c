---------------------------- MODULE AccountsProofs ----------------------------
(***************************************************************************)
(* Theorems about a user's mail accounts: the page that tests and polls     *)
(* them (AccountOperations), for every number of accounts, jobs and         *)
(* overlapping callbacks of the timer, and their pausing (PauseControl),    *)
(* for every number of probes, jobs and requests.                           *)
(***************************************************************************)
EXTENDS AccountOperations, PauseControl, TLAPS

-----------------------------------------------------------------------------
(* The mailbox checks.                                                      *)
LEMMA AccountsInitType == AccountsInit => AccountsTypeOK
<1> SUFFICES ASSUME AccountsInit PROVE AccountsTypeOK
  OBVIOUS
<1> USE AccountOperationsAssumption DEF AccountsInit
<1>1. operations \in [Accounts -> Jobs \cup {Idle, Starting}]
  OBVIOUS
<1>2. testing \subseteq Accounts /\ accounts \subseteq Accounts
  OBVIOUS
<1>3. FALSE \in BOOLEAN
  OBVIOUS
<1>4. asking \in [Ticks -> SUBSET (Accounts \X Jobs)]
  OBVIOUS
<1>5. jobs \in [Jobs -> JobStatus]
  BY DEF JobStatus
<1>6. lost \in 0 .. MaxLost
  OBVIOUS
<1> QED BY <1>1, <1>2, <1>3, <1>4, <1>5, <1>6 DEF AccountsTypeOK

LEMMA AccountsTypeStep == AccountsTypeOK /\ [AccountsNext]_accountVars => AccountsTypeOK'
<1> SUFFICES ASSUME AccountsTypeOK, [AccountsNext]_accountVars
             PROVE  AccountsTypeOK'
  OBVIOUS
<1> USE AccountOperationsAssumption DEF AccountsTypeOK, JobStatus
<1>1. CASE UNCHANGED accountVars
  BY <1>1 DEF accountVars
<1>2. CASE \E a \in Accounts : \/ StartTest(a) \/ EndTest(a)
                               \/ StartPoll(a) \/ PollRefused(a) \/ Delete(a)
  <2>1. PICK a \in Accounts : StartTest(a) \/ EndTest(a) \/ StartPoll(a) \/ PollRefused(a) \/ Delete(a)
    BY <1>2
  <2>2. CASE StartTest(a) \/ EndTest(a)
    BY <2>2 DEF StartTest, EndTest
  <2>3. CASE StartPoll(a)
    BY <2>3 DEF StartPoll
  <2>4. CASE PollRefused(a)
    BY <2>4 DEF PollRefused, Stopped
  <2>5. CASE Delete(a)
    BY <2>5 DEF Delete
  <2> QED BY <2>1, <2>2, <2>3, <2>4, <2>5
<1>3. CASE \E a \in Accounts, j \in Jobs : PollQueued(a, j)
  BY <1>3 DEF PollQueued
<1>4. CASE \E t \in Ticks : Tick(t)
  <2>1. PICK t \in Ticks : Tick(t)
    BY <1>4
  <2>2. {<<a, operations[a]>> : a \in Tracked(operations)} \in SUBSET (Accounts \X Jobs)
    BY DEF Tracked
  <2>3. asking' \in [Ticks -> SUBSET (Accounts \X Jobs)]
    BY <2>1, <2>2 DEF Tick
  <2> QED BY <2>1, <2>3 DEF Tick
<1>5. CASE \E t \in Ticks, a \in Accounts, j \in Jobs : Answered(t, a, j)
  BY <1>5 DEF Answered, GoesOn, Stopped
<1>6. CASE \E t \in Ticks, a \in Accounts, j \in Jobs : Lost(t, a, j)
  BY <1>6 DEF Lost, GoesOn
<1>7. CASE \E j \in Jobs : Work(j) \/ Forget(j)
  BY <1>7 DEF Work, Forget
<1> QED BY <1>1, <1>2, <1>3, <1>4, <1>5, <1>6, <1>7 DEF AccountsNext

(* The variables have their types.                                          *)
THEOREM AccountsTypeCorrect == AccountsSpec => []AccountsTypeOK
BY AccountsInitType, AccountsTypeStep, PTL DEF AccountsSpec

-----------------------------------------------------------------------------
(* The timer.  An operation that is put away or begun is not followed, one  *)
(* whose job is known is; nothing else changes what is followed.            *)
LEMMA TimerInit == AccountsInit => TimerRunsForJobs
BY AccountOperationsAssumption DEF AccountsInit, TimerRunsForJobs, Tracked

LEMMA TimerStep ==
  ASSUME AccountsTypeOK, TimerRunsForJobs, [AccountsNext]_accountVars
  PROVE  TimerRunsForJobs'
<1>0. operations \in [Accounts -> Jobs \cup {Idle, Starting}] /\ pollTimer \in BOOLEAN
  BY DEF AccountsTypeOK
<1> USE AccountOperationsAssumption DEF TimerRunsForJobs, Tracked
<1>1. CASE UNCHANGED <<operations, pollTimer>>
  BY <1>1
<1>2. CASE \E a \in Accounts : StartPoll(a)
  <2>1. PICK a \in Accounts : StartPoll(a)
    BY <1>2
  <2>2. \A b \in Accounts : operations'[b] \in Jobs <=> operations[b] \in Jobs
    BY <1>0, <2>1 DEF StartPoll
  <2> QED BY <2>1, <2>2 DEF StartPoll
<1>3. CASE \E a \in Accounts, j \in Jobs : PollQueued(a, j)
  <2>1. PICK a \in Accounts, j \in Jobs : PollQueued(a, j)
    BY <1>3
  <2>2. operations'[a] \in Jobs /\ pollTimer'
    BY <1>0, <2>1 DEF PollQueued
  <2> QED BY <2>2
<1>4. CASE \E a \in Accounts : PollRefused(a)
  <2>1. PICK a \in Accounts : PollRefused(a)
    BY <1>4
  <2>2. \A b \in Accounts : operations'[b] \in Jobs <=> operations[b] \in Jobs
    BY <1>0, <2>1 DEF PollRefused
  <2>3. pollTimer' <=> pollTimer /\ Tracked(operations') # {}
    BY <2>1 DEF PollRefused, Stopped
  <2> QED BY <2>2, <2>3
<1>5. CASE \E t \in Ticks, a \in Accounts, j \in Jobs : Answered(t, a, j)
  <2>1. PICK t \in Ticks, a \in Accounts, j \in Jobs : Answered(t, a, j)
    BY <1>5
  <2>2. CASE jobs[j] \in Over
    <3>1. \A b \in Accounts : operations'[b] \in Jobs => operations[b] \in Jobs
      BY <1>0, <2>1, <2>2 DEF Answered
    <3>2. pollTimer' <=> pollTimer /\ Tracked(operations') # {}
      BY <2>1, <2>2 DEF Answered, Stopped
    <3> QED BY <3>1, <3>2
  <2>3. CASE jobs[j] \notin Over
    BY <2>1, <2>3 DEF Answered
  <2> QED BY <2>2, <2>3
<1>6. [AccountsNext]_accountVars =>
        \/ UNCHANGED <<operations, pollTimer>>
        \/ \E a \in Accounts : StartPoll(a) \/ PollRefused(a) \/ \E j \in Jobs : PollQueued(a, j)
        \/ \E t \in Ticks, a \in Accounts, j \in Jobs : Answered(t, a, j)
  BY DEF AccountsNext, accountVars, StartTest, EndTest, Delete, Tick, Lost, Work, Forget
<1> QED BY <1>1, <1>2, <1>3, <1>4, <1>5, <1>6

(* The interval timer is set exactly while a job is followed.               *)
THEOREM TimerCorrect == AccountsSpec => []TimerRunsForJobs
<1>1. AccountsTypeOK /\ TimerRunsForJobs /\ [AccountsNext]_accountVars => TimerRunsForJobs'
  BY TimerStep
<1> QED BY <1>1, TimerInit, AccountsTypeCorrect, PTL DEF AccountsSpec

-----------------------------------------------------------------------------
(* The pauses.                                                              *)

\* While the pause holds no probe is under way, so that none can end it.
NoProbeOfPaused ==
    wish = "pause" /\ ~crossed =>
        /\ account.paused /\ account.manual
        /\ \A p \in Probes : probes[p].at = "idle"

PauseInv == PauseTypeOK /\ NoProbeOfPaused

-----------------------------------------------------------------------------
(* What a session saves of a row is a row, column by column the one wanted  *)
(* or the one that is there (Saved).                                        *)
LEMMA SavedRow ==
    ASSUME account \in AccountRows, NEW saw \in AccountRows, NEW wanted \in AccountRows
    PROVE  /\ Saved(saw, wanted) \in AccountRows
           /\ Saved(saw, wanted).paused = IF wanted.paused # saw.paused THEN wanted.paused ELSE account.paused
           /\ Saved(saw, wanted).manual = IF wanted.manual # saw.manual THEN wanted.manual ELSE account.manual
<1> DEFINE S == Saved(saw, wanted)
<1>1. DOMAIN account = {"paused", "manual", "reason", "since", "errors"}
  BY DEF AccountRows
<1>2. S = [c \in {"paused", "manual", "reason", "since", "errors"} |->
              IF Changed(saw, wanted, c) THEN wanted[c] ELSE account[c]]
  BY <1>1 DEF Saved
<1>3. S = [paused |-> S.paused, manual |-> S.manual, reason |-> S.reason,
           since |-> S.since, errors |-> S.errors]
  BY <1>2
<1>4. /\ S.paused \in BOOLEAN /\ S.manual \in BOOLEAN
      /\ S.reason \in {"none", "error", "circuit breaker", "user"}
      /\ S.since \in {"never", "now", "long ago"} /\ S.errors \in 0 .. MaxErrors
  BY <1>2 DEF AccountRows
<1>5. S \in AccountRows
  BY <1>3, <1>4 DEF AccountRows
<1>6. /\ S.paused = IF wanted.paused # saw.paused THEN wanted.paused ELSE account.paused
      /\ S.manual = IF wanted.manual # saw.manual THEN wanted.manual ELSE account.manual
  BY <1>2 DEF Changed
<1> QED BY <1>5, <1>6

(* A row that was never touched is a row.                                   *)
LEMMA FreshRow == Fresh \in AccountRows
BY PauseControlAssumption DEF Fresh, AccountRows

(* The counter of the circuit breaker stays in its range.                   *)
LEMMA CountedInRange == \A errors \in 0 .. MaxErrors : Counted(errors) \in 0 .. MaxErrors
BY PauseControlAssumption DEF Counted

-----------------------------------------------------------------------------
LEMMA InitInv == PauseInit => PauseInv
<1> SUFFICES ASSUME PauseInit PROVE PauseInv
  OBVIOUS
<1> USE DEF PauseInit
<1>1. account \in AccountRows
  BY FreshRow
<1>2. reachable \in BOOLEAN /\ crossed \in BOOLEAN
  OBVIOUS
<1>3. probes \in [Probes -> [at : {"idle", "probing", "recovered", "unreachable"}, saw : AccountRows]]
  BY FreshRow
<1>4. works \in [Works -> {"idle", "job", "poll", "synced", "job failed", "poll failed",
                          "counted", "tripping"}]
  OBVIOUS
<1>5. requests \in [Requests -> [wants : {"none", "pause", "run"}, saw : AccountRows]]
  BY FreshRow
<1>6. wish \in {"pause", "run"} /\ wish # "pause"
  OBVIOUS
<1> QED BY <1>1, <1>2, <1>3, <1>4, <1>5, <1>6 DEF PauseInv, PauseTypeOK, NoProbeOfPaused

(* The world and the jobs: they pause, they never resume.                   *)
LEMMA WorksKeepInv ==
    ASSUME PauseInv,
           \/ Outage \/ CoolDown
           \/ \E w \in Works : \/ Begin(w) \/ Connect(w) \/ PauseAccount(w)
                               \/ UpdateSyncStatus(w) \/ CheckCircuitBreaker(w)
    PROVE  PauseInv'
<1> USE DEF PauseInv
<1>1. CASE Outage
  BY <1>1 DEF Outage, PauseTypeOK, NoProbeOfPaused
<1>2. CASE CoolDown
  BY <1>2 DEF CoolDown, PauseTypeOK, NoProbeOfPaused, AccountRows
<1>3. ASSUME NEW w \in Works, Begin(w)
      PROVE  PauseInv'
  BY <1>3 DEF Begin, PauseTypeOK, NoProbeOfPaused
<1>4. ASSUME NEW w \in Works, Connect(w)
      PROVE  PauseInv'
  BY <1>4 DEF Connect, PauseTypeOK, NoProbeOfPaused
<1>5. ASSUME NEW w \in Works, PauseAccount(w)
      PROVE  PauseInv'
  <2>1. Counted(account.errors) \in 0 .. MaxErrors
    BY CountedInRange DEF PauseTypeOK, AccountRows
  <2>2. account' \in AccountRows /\ (account.paused /\ account.manual => account'.paused /\ account'.manual)
    BY <1>5, <2>1 DEF PauseAccount, PauseTypeOK, AccountRows
  <2> QED BY <1>5, <2>2 DEF PauseAccount, PauseTypeOK, NoProbeOfPaused
<1>6. ASSUME NEW w \in Works, UpdateSyncStatus(w)
      PROVE  PauseInv'
  <2>1. Counted(account.errors) \in 0 .. MaxErrors /\ 0 \in 0 .. MaxErrors
    <3>1. Counted(account.errors) \in 0 .. MaxErrors
      BY CountedInRange DEF PauseTypeOK, AccountRows
    <3>2. 0 \in 0 .. MaxErrors
      BY PauseControlAssumption
    <3> QED BY <3>1, <3>2
  <2>2. account' \in AccountRows /\ (account.paused /\ account.manual => account'.paused /\ account'.manual)
    BY <1>6, <2>1 DEF UpdateSyncStatus, PauseTypeOK, AccountRows
  <2> QED BY <1>6, <2>2 DEF UpdateSyncStatus, PauseTypeOK, NoProbeOfPaused
<1>7. ASSUME NEW w \in Works, CheckCircuitBreaker(w)
      PROVE  PauseInv'
  <2>1. account' \in AccountRows /\ (account.paused /\ account.manual => account'.paused /\ account'.manual)
    BY <1>7 DEF CheckCircuitBreaker, PauseTypeOK, AccountRows
  <2> QED BY <1>7, <2>1 DEF CheckCircuitBreaker, PauseTypeOK, NoProbeOfPaused
<1> QED BY <1>1, <1>2, <1>3, <1>4, <1>5, <1>6, <1>7

(* The probe: it is not begun for a pause of the user.                      *)
LEMMA ProbesKeepInv ==
    ASSUME PauseInv, NEW p \in Probes, Select(p) \/ Probe(p) \/ CommitProbe(p)
    PROVE  PauseInv'
<1> USE DEF PauseInv
<1>1. CASE Select(p)
  BY <1>1 DEF Select, PauseTypeOK, NoProbeOfPaused
<1>2. CASE Probe(p)
  BY <1>2, FreshRow DEF Probe, PauseTypeOK, NoProbeOfPaused
<1>3. CASE CommitProbe(p)
  <2> DEFINE saw == probes[p].saw
             wanted == [Fresh EXCEPT !.manual = saw.manual]
  <2>1. account \in AccountRows /\ saw \in AccountRows /\ wanted \in AccountRows
    BY FreshRow DEF PauseTypeOK, AccountRows, Fresh
  <2>2. Recovered(saw) \in AccountRows
    BY <2>1, SavedRow DEF Recovered
  <2>3. account' \in AccountRows
    BY <1>3, <2>1, <2>2 DEF CommitProbe, AccountRows
  <2>4. PauseTypeOK'
    BY <1>3, <2>3, FreshRow DEF CommitProbe, PauseTypeOK
  <2>5. probes[p].at # "idle" /\ wish' = wish /\ crossed' = crossed
    BY <1>3 DEF CommitProbe
  <2> QED BY <2>4, <2>5 DEF NoProbeOfPaused
<1> QED BY <1>1, <1>2, <1>3

(* The user's requests: a pause that is saved, and crosses nothing, is the  *)
(* whole pause, whatever columns had their values already.                  *)
LEMMA RequestsKeepInv ==
    ASSUME PauseInv, NEW q \in Requests, Ask(q) \/ CommitRequest(q) \/ AbortRequest(q)
    PROVE  PauseInv'
<1> USE DEF PauseInv
<1>1. CASE Ask(q)
  <2>1. PICK wants \in {"pause", "run"} :
            requests' = [requests EXCEPT ![q] = [wants |-> wants, saw |-> account]]
    BY <1>1 DEF Ask
  <2>2. [wants |-> wants, saw |-> account] \in [wants : {"none", "pause", "run"}, saw : AccountRows]
    BY DEF PauseTypeOK
  <2>3. requests' \in [Requests -> [wants : {"none", "pause", "run"}, saw : AccountRows]]
    BY <2>1, <2>2 DEF PauseTypeOK
  <2>4. UNCHANGED <<account, reachable, probes, works, wish, crossed>>
    BY <1>1 DEF Ask
  <2> QED BY <2>3, <2>4 DEF PauseTypeOK, NoProbeOfPaused
<1>2. CASE CommitRequest(q)
  <2> DEFINE saw == requests[q].saw
  <2>1. account \in AccountRows /\ saw \in AccountRows /\ Wanted(q) \in AccountRows
    BY FreshRow DEF PauseTypeOK, AccountRows, Wanted
  <2>2. account' \in AccountRows
    BY <1>2, <2>1, SavedRow DEF CommitRequest
  <2>3. PauseTypeOK'
    BY <1>2, <2>2, FreshRow DEF CommitRequest, PauseTypeOK
  <2>4. NoProbeOfPaused'
    <3> SUFFICES ASSUME wish' = "pause", ~crossed'
                 PROVE  /\ account'.paused /\ account'.manual
                        /\ \A p \in Probes : probes'[p].at = "idle"
      BY DEF NoProbeOfPaused
    <3>1. requests[q].wants = "pause"
      BY <1>2 DEF CommitRequest
    <3>2. Wanted(q).paused /\ Wanted(q).manual
      BY <2>1, <3>1 DEF Wanted, AccountRows
    <3>3. saw.paused = account.paused /\ saw.manual = account.manual
      BY <1>2 DEF CommitRequest
    <3>4. account'.paused /\ account'.manual
      <4>1. account' = Saved(saw, Wanted(q))
        BY <1>2 DEF CommitRequest
      <4>2. /\ account'.paused = IF Wanted(q).paused # saw.paused THEN Wanted(q).paused ELSE account.paused
            /\ account'.manual = IF Wanted(q).manual # saw.manual THEN Wanted(q).manual ELSE account.manual
        BY <2>1, <4>1, SavedRow
      <4>3. account'.paused = Wanted(q).paused /\ account'.manual = Wanted(q).manual
        BY <3>3, <4>2
      <4> QED BY <3>2, <4>3
    <3>5. \A p \in Probes : probes'[p].at = "idle"
      BY <1>2 DEF CommitRequest
    <3> QED BY <3>4, <3>5
  <2> QED BY <2>3, <2>4
<1>3. CASE AbortRequest(q)
  BY <1>3, FreshRow DEF AbortRequest, PauseTypeOK, NoProbeOfPaused
<1> QED BY <1>1, <1>2, <1>3

LEMMA NextKeepsInv == PauseInv /\ [PauseNext]_pauseVars => PauseInv'
<1> SUFFICES ASSUME PauseInv, [PauseNext]_pauseVars
             PROVE  PauseInv'
  OBVIOUS
<1>1. CASE UNCHANGED pauseVars
  BY <1>1 DEF pauseVars, PauseInv, PauseTypeOK, NoProbeOfPaused
<1>2. CASE PauseNext
  BY <1>2, WorksKeepInv, ProbesKeepInv, RequestsKeepInv DEF PauseNext
<1> QED BY <1>1, <1>2

LEMMA PauseInvariant == PauseSpec => []PauseInv
BY InitInv, NextKeepsInv, PTL DEF PauseSpec

-----------------------------------------------------------------------------
(* Every row that is committed, or that a probe or a request has read, is   *)
(* one the columns can hold.                                                *)
THEOREM PauseTypeCorrect == PauseSpec => []PauseTypeOK
<1>1. PauseInv => PauseTypeOK
  BY DEF PauseInv
<1> QED BY <1>1, PauseInvariant, PTL

(* A pause of the user that overlapped no probe and no other change of the  *)
(* pause holds until the user ends it (update_pause_state, health.py:359).  *)
THEOREM ManualPauseCorrect == PauseSpec => []ManualPauseHolds
<1>1. PauseInv => ManualPauseHolds
  BY DEF PauseInv, NoProbeOfPaused, ManualPauseHolds
<1> QED BY <1>1, PauseInvariant, PTL
=============================================================================
