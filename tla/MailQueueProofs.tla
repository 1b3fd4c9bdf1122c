-------------------------- MODULE MailQueueProofs --------------------------
(***************************************************************************)
(* Proofs about MailQueue, for every number of mails, users, scheduler     *)
(* runs and job slots.  Consistency is the inductive invariant: the type   *)
(* invariant, the row locks, the exclusiveness of jobs, and the            *)
(* bookkeeping that carries them from step to step.  Each of its parts is  *)
(* preserved by a lemma of its own, with one step per action.              *)
(***************************************************************************)
EXTENDS MailQueue, FiniteSetTheorems, TLAPS

-----------------------------------------------------------------------------
(* What a run counts *)

\* A set of rows has a number.
LEMMA RowCount ==
    ASSUME NEW M \in SUBSET Mails
    PROVE  Cardinality(M) \in Nat
BY FiniteAssumption, FS_Subset, FS_CardinalityType

\* Free slots are never negative, even when more mails are in PROCESSING than
\* the cap allows.
LEMMA FreeSlots ==
    /\ GlobalFree \in Nat
    /\ \A u \in Users : UserFree(u) \in Nat
<1>1. /\ Cardinality(InStatus("processing")) \in Nat
      /\ \A u \in Users :
            Cardinality({m \in InStatus("processing") : UserOf[m] = u}) \in Nat
  BY RowCount DEF InStatus
<1>2. /\ ProcessSlots \in Nat
      /\ \A u \in Users : MaxConcurrent[u] \in Nat
  BY BoundsAssumption, LayoutAssumption
<1>3. QED
  BY <1>1, <1>2 DEF GlobalFree, UserFree, Minus

\* A run's candidates are mails, and each has a turn.
LEMMA CandidateTurns ==
    /\ Candidates \in SUBSET Mails
    /\ TurnOf(Candidates) \in [Mails -> Nat]
<1>1. Candidates \in SUBSET Mails
  BY DEF Candidates, Batch, InStatus
<1>2. \A m \in Mails : Cardinality({n \in Candidates : VisitedBefore(Candidates, n, m)}) \in Nat
  BY <1>1, RowCount
<1>3. QED
  BY <1>1, <1>2 DEF TurnOf

-----------------------------------------------------------------------------
(* The type invariant is preserved, one group of variables at a time *)

\* Whatever is written to a row is a status of it.
LEMMA RowTypes ==
    ASSUME Consistency, [Next]_vars
    PROVE  RowTypeOK'
<1> USE DEF vars, rowVars, arqVars, runVars, jobVars, envVars
<1>1. TypeOK /\ JobsConsistent
  BY DEF Consistency
<1>2. CASE UNCHANGED <<rowVars>>
  BY <1>1, <1>2 DEF TypeOK, RowTypeOK, Status
<1>3. ASSUME NEW r \in Runs, Begin(r)
      PROVE  RowTypeOK'
  BY <1>1, <1>3 DEF Begin, ResetStale, TypeOK, RowTypeOK, Status
<1>4. ASSUME NEW r \in Runs, Commit(r)
      PROVE  RowTypeOK'
  BY <1>1, <1>4 DEF Commit, EndRun, Open, TypeOK, RowTypeOK, Status
<1>5. ASSUME NEW s \in Slots, WriteRow(s)
      PROVE  RowTypeOK'
  BY <1>1, <1>5
  DEF WriteRow, Written, TypeOK, RowTypeOK, JobTypeOK, JobsConsistent, Status, Goals
<1>6. ASSUME NEW s \in Slots, FailFolder(s)
      PROVE  RowTypeOK'
  BY <1>1, <1>6 DEF FailFolder, InStatus, Unlocked, TypeOK, RowTypeOK, Status
<1>7. ASSUME NEW m \in Mails, Discover(m)
      PROVE  RowTypeOK'
  BY <1>1, <1>7 DEF Discover, TypeOK, RowTypeOK, Status
<1>8. ASSUME NEW m \in Mails, RetryCommit(m)
      PROVE  RowTypeOK'
  BY <1>1, <1>8 DEF RetryCommit, TypeOK, RowTypeOK, EnvTypeOK, Status
<1>9. ASSUME NEW m \in Mails, Age(m)
      PROVE  RowTypeOK'
  BY <1>1, <1>9 DEF Age, TypeOK, RowTypeOK, Status
<1>10. ASSUME Restart
      PROVE  RowTypeOK'
  BY <1>1, <1>10 DEF Restart, Trouble, TypeOK, RowTypeOK, Status
<1>11. ASSUME HealthCheck
      PROVE  RowTypeOK'
  BY <1>1, <1>11 DEF HealthCheck, ResetStale, TypeOK, RowTypeOK, Status
<1>12. ASSUME NEW m \in Mails, RetryRequest(m)
      PROVE  RowTypeOK'
  BY <1>1, <1>12 DEF RetryRequest, TypeOK, RowTypeOK, Status
<1>13. QED
  BY <1>2, <1>3, <1>4, <1>5, <1>6, <1>7, <1>8, <1>9, <1>10, <1>11,
     <1>12
  DEF Next, RunStep, JobStep, MailStep, Load, ScheduleNow, Schedule, Send, SendDuplicate,
      SendFails, RollBack,
      LockRow, PassOver, Decide, WriteFails, FailFolderFails, Timeout, Finish, Start,
      RetryAbort, FailOrphan, ExpireResult, Recover, Crash, EndRun,
      Sending, ReadRow, Written

\* ARQ's keys: only a job that has a mail finishes.
LEMMA ArqTypes ==
    ASSUME Consistency, [Next]_vars
    PROVE  ArqTypeOK'
<1> USE DEF vars, rowVars, arqVars, runVars, jobVars, envVars
<1>1. TypeOK /\ JobsConsistent
  BY DEF Consistency
<1>2. CASE UNCHANGED <<arqVars>>
  BY <1>1, <1>2 DEF TypeOK, ArqTypeOK
<1>3. ASSUME NEW r \in Runs, Send(r)
      PROVE  ArqTypeOK'
  BY <1>1, <1>3 DEF Send, Sending, TypeOK, ArqTypeOK
<1>4. ASSUME NEW r \in Runs, SendDuplicate(r)
      PROVE  ArqTypeOK'
  BY <1>1, <1>4 DEF SendDuplicate, Sending, Trouble, TypeOK, ArqTypeOK
<1>5. ASSUME NEW r \in Runs, SendFails(r)
      PROVE  ArqTypeOK'
  BY <1>1, <1>5 DEF SendFails, Sending, Trouble, Fresh, TypeOK, ArqTypeOK
<1>6. ASSUME NEW s \in Slots, Finish(s)
      PROVE  ArqTypeOK'
  BY <1>1, <1>6 DEF Finish, TypeOK, ArqTypeOK, JobTypeOK, JobsConsistent
<1>7. ASSUME NEW s \in Slots, NEW m \in Mails, Start(s, m)
      PROVE  ArqTypeOK'
  BY <1>1, <1>7 DEF Start, TypeOK, ArqTypeOK
<1>8. ASSUME NEW m \in Mails, RetryRequest(m)
      PROVE  ArqTypeOK'
  BY <1>1, <1>8 DEF RetryRequest, Trouble, TypeOK, ArqTypeOK
<1>9. ASSUME NEW m \in Mails, FailOrphan(m)
      PROVE  ArqTypeOK'
  BY <1>1, <1>9 DEF FailOrphan, TypeOK, ArqTypeOK
<1>10. ASSUME NEW m \in Mails, ExpireResult(m)
      PROVE  ArqTypeOK'
  BY <1>1, <1>10 DEF ExpireResult, TypeOK, ArqTypeOK
<1>11. ASSUME Crash
      PROVE  ArqTypeOK'
  BY <1>1, <1>11 DEF Crash, Trouble, TypeOK, ArqTypeOK
<1>12. ASSUME Restart
      PROVE  ArqTypeOK'
  BY <1>1, <1>12 DEF Restart, Trouble, TypeOK, ArqTypeOK
<1>13. QED
  BY <1>2, <1>3, <1>4, <1>5, <1>6, <1>7, <1>8, <1>9, <1>10, <1>11, <1>12
  DEF Next, RunStep, JobStep, MailStep, Begin, Load, ScheduleNow, Schedule, Commit, RollBack,
      LockRow, PassOver,
      Decide, WriteRow, WriteFails, FailFolder, FailFolderFails, Timeout, Discover,
      RetryCommit, RetryAbort, Age, Recover, HealthCheck, ResetStale, EndRun, ReadRow,
      Written

\* The slots a run has left: it sends only while both counters are positive.
LEMMA RunTypes ==
    ASSUME Consistency, [Next]_vars
    PROVE  RunTypeOK'
<1> USE DEF vars, rowVars, arqVars, runVars, jobVars, envVars
<1>1. TypeOK /\ RunsConsistent
  BY DEF Consistency
<1>2. CASE UNCHANGED <<runVars>>
  BY <1>1, <1>2 DEF TypeOK, RunTypeOK
<1>3. ASSUME NEW r \in Runs, Begin(r)
      PROVE  RunTypeOK'
  BY <1>1, <1>3 DEF Begin, ResetStale, TypeOK, RunTypeOK
<1>4. ASSUME NEW r \in Runs, Load(r) \/ ScheduleNow(r)
      PROVE  RunTypeOK'
  <2>1. /\ Candidates \in SUBSET Mails /\ TurnOf(Candidates) \in [Mails -> Nat]
        /\ GlobalFree \in Nat /\ [u \in Users |-> UserFree(u)] \in [Users -> Nat]
    BY FreeSlots, CandidateTurns
  <2>2. CASE EndRun(r)
    BY <1>1, <2>2 DEF EndRun, TypeOK, RunTypeOK
  <2>3. CASE ~ EndRun(r)
    <3>1. /\ rpc' = [rpc EXCEPT ![r] = "pick"]
          /\ todo' = [todo EXCEPT ![r] = Candidates]
          /\ turn' = [turn EXCEPT ![r] = TurnOf(Candidates)]
          /\ gleft' = [gleft EXCEPT ![r] = GlobalFree]
          /\ uleft' = [uleft EXCEPT ![r] = [u \in Users |-> UserFree(u)]]
          /\ UNCHANGED <<cur, held, sent>>
      BY <1>4, <2>3 DEF Load, ScheduleNow, Schedule
    <3>2. QED
      BY <1>1, <2>1, <3>1 DEF TypeOK, RunTypeOK
  <2>4. QED
    BY <2>2, <2>3
<1>5. ASSUME NEW r \in Runs, Send(r)
      PROVE  RunTypeOK'
  BY <1>1, <1>5, LayoutAssumption DEF Send, Sending, TypeOK, RunTypeOK, RunsConsistent
<1>6. ASSUME NEW r \in Runs, SendDuplicate(r)
      PROVE  RunTypeOK'
  BY <1>1, <1>6 DEF SendDuplicate, Sending, Trouble, TypeOK, RunTypeOK
<1>7. ASSUME NEW r \in Runs, SendFails(r)
      PROVE  RunTypeOK'
  BY <1>1, <1>7 DEF SendFails, Sending, Trouble, Fresh, TypeOK, RunTypeOK
<1>8. ASSUME NEW r \in Runs, Commit(r)
      PROVE  RunTypeOK'
  BY <1>1, <1>8 DEF Commit, EndRun, Open, TypeOK, RunTypeOK
<1>9. ASSUME NEW r \in Runs, RollBack(r)
      PROVE  RunTypeOK'
  BY <1>1, <1>9 DEF RollBack, EndRun, Trouble, TypeOK, RunTypeOK
<1>10. ASSUME NEW r \in Runs, NEW m \in Mails, LockRow(r, m)
      PROVE  RunTypeOK'
  BY <1>1, <1>10 DEF LockRow, Visit, Unlocked, Open, TypeOK, RunTypeOK
<1>11. ASSUME NEW r \in Runs, NEW m \in Mails, PassOver(r, m)
      PROVE  RunTypeOK'
  BY <1>1, <1>11 DEF PassOver, Visit, TypeOK, RunTypeOK
<1>12. ASSUME Crash
      PROVE  RunTypeOK'
  BY <1>1, <1>12 DEF Crash, Trouble, TypeOK, RunTypeOK
<1>13. QED
  BY <1>2, <1>3, <1>4, <1>5, <1>6, <1>7, <1>8, <1>9, <1>10, <1>11, <1>12
  DEF Next, RunStep, JobStep, MailStep, Decide, WriteRow, WriteFails, FailFolder,
      FailFolderFails, Timeout, Finish, Start, Discover, RetryRequest, RetryCommit,
      RetryAbort, FailOrphan, ExpireResult, Age, Recover, Restart, HealthCheck, ReadRow,
      Written, ResetStale

\* What a job decides and what it saw of its row.
LEMMA JobTypes ==
    ASSUME Consistency, [Next]_vars
    PROVE  JobTypeOK'
<1> USE DEF vars, rowVars, arqVars, runVars, jobVars, envVars
<1>1. TypeOK /\ JobsConsistent
  BY DEF Consistency
<1>2. CASE UNCHANGED <<jobVars>>
  BY <1>1, <1>2 DEF TypeOK, JobTypeOK
<1>3. ASSUME NEW s \in Slots, Decide(s)
      PROVE  JobTypeOK'
  BY <1>1, <1>3
  DEF Decide, ReadRow, TypeOK, JobTypeOK, RowTypeOK, JobsConsistent, Goals, Status
<1>4. ASSUME NEW s \in Slots, WriteRow(s)
      PROVE  JobTypeOK'
  BY <1>1, <1>4
  DEF WriteRow, Written, TypeOK, JobTypeOK, RowTypeOK, JobsConsistent, Goals, Status
<1>5. ASSUME NEW s \in Slots, WriteFails(s)
      PROVE  JobTypeOK'
  BY <1>1, <1>5
  DEF WriteFails, Written, TypeOK, JobTypeOK, RowTypeOK, JobsConsistent, Goals, Status
<1>6. ASSUME NEW s \in Slots, FailFolder(s)
      PROVE  JobTypeOK'
  BY <1>1, <1>6 DEF FailFolder, InStatus, Unlocked, TypeOK, JobTypeOK
<1>7. ASSUME NEW s \in Slots, FailFolderFails(s)
      PROVE  JobTypeOK'
  BY <1>1, <1>7 DEF FailFolderFails, Trouble, TypeOK, JobTypeOK
<1>8. ASSUME NEW s \in Slots, Timeout(s)
      PROVE  JobTypeOK'
  BY <1>1, <1>8
  DEF Timeout, ReadRow, TypeOK, JobTypeOK, RowTypeOK, JobsConsistent, Goals, Status
<1>9. ASSUME NEW s \in Slots, Finish(s)
      PROVE  JobTypeOK'
  BY <1>1, <1>9 DEF Finish, TypeOK, JobTypeOK
<1>10. ASSUME NEW s \in Slots, NEW m \in Mails, Start(s, m)
      PROVE  JobTypeOK'
  BY <1>1, <1>10 DEF Start, TypeOK, JobTypeOK
<1>11. ASSUME Crash
      PROVE  JobTypeOK'
  BY <1>1, <1>11 DEF Crash, TypeOK, JobTypeOK, RowTypeOK, JobsConsistent, Goals, Status
<1>12. QED
  BY <1>2, <1>3, <1>4, <1>5, <1>6, <1>7, <1>8, <1>9, <1>10, <1>11
  DEF Next, RunStep, JobStep, MailStep, Begin, Load, ScheduleNow, Schedule, Send,
      SendDuplicate, SendFails,
      Commit, RollBack, LockRow, PassOver, Discover, RetryRequest, RetryCommit,
      RetryAbort, FailOrphan, ExpireResult, Age, Recover, Restart, HealthCheck,
      ResetStale, EndRun, Sending

\* Faults are counted up to the bound.
LEMMA TroubleCount ==
    ASSUME EnvTypeOK, Trouble
    PROVE  troubles' \in 0..MaxTroubles
BY BoundsAssumption DEF EnvTypeOK, Trouble

\* Requests, the worker, paused users and the bound.
LEMMA EnvTypes ==
    ASSUME Consistency, [Next]_vars
    PROVE  EnvTypeOK'
<1> USE DEF vars, rowVars, arqVars, runVars, jobVars, envVars
<1>1. TypeOK
  BY DEF Consistency
<1>2. CASE UNCHANGED <<healthy, envVars>>
  BY <1>1, <1>2 DEF TypeOK, EnvTypeOK
<1>3. ASSUME NEW r \in Runs, SendDuplicate(r)
      PROVE  EnvTypeOK'
  BY <1>1, <1>3, TroubleCount DEF SendDuplicate, Sending, TypeOK, EnvTypeOK
<1>4. ASSUME NEW r \in Runs, SendFails(r)
      PROVE  EnvTypeOK'
  BY <1>1, <1>4, TroubleCount DEF SendFails, Sending, TypeOK, EnvTypeOK
<1>5. ASSUME NEW r \in Runs, RollBack(r)
      PROVE  EnvTypeOK'
  BY <1>1, <1>5, TroubleCount DEF RollBack, EndRun, TypeOK, EnvTypeOK
<1>6. ASSUME NEW s \in Slots, Decide(s)
      PROVE  EnvTypeOK'
  BY <1>1, <1>6, TroubleCount DEF Decide, ReadRow, TypeOK, EnvTypeOK
<1>7. ASSUME NEW s \in Slots, WriteFails(s)
      PROVE  EnvTypeOK'
  BY <1>1, <1>7, TroubleCount DEF WriteFails, Written, TypeOK, EnvTypeOK
<1>8. ASSUME NEW s \in Slots, FailFolderFails(s)
      PROVE  EnvTypeOK'
  BY <1>1, <1>8, TroubleCount DEF FailFolderFails, TypeOK, EnvTypeOK
<1>9. ASSUME NEW s \in Slots, Timeout(s)
      PROVE  EnvTypeOK'
  BY <1>1, <1>9, TroubleCount DEF Timeout, ReadRow, TypeOK, EnvTypeOK
<1>10. ASSUME NEW m \in Mails, RetryRequest(m)
      PROVE  EnvTypeOK'
  BY <1>1, <1>10, TroubleCount DEF RetryRequest, TypeOK, EnvTypeOK
<1>11. ASSUME NEW m \in Mails, RetryCommit(m)
      PROVE  EnvTypeOK'
  BY <1>1, <1>11 DEF RetryCommit, Unlocked, TypeOK, EnvTypeOK
<1>12. ASSUME NEW m \in Mails, RetryAbort(m)
      PROVE  EnvTypeOK'
  BY <1>1, <1>12, TroubleCount DEF RetryAbort, TypeOK, EnvTypeOK
<1>13. ASSUME NEW u \in Users, Recover(u)
      PROVE  EnvTypeOK'
  BY <1>1, <1>13 DEF Recover, TypeOK, EnvTypeOK
<1>14. ASSUME Crash
      PROVE  EnvTypeOK'
  BY <1>1, <1>14, TroubleCount DEF Crash, TypeOK, EnvTypeOK
<1>15. ASSUME Restart
      PROVE  EnvTypeOK'
  BY <1>1, <1>15, TroubleCount DEF Restart, TypeOK, EnvTypeOK
<1>16. QED
  BY <1>2, <1>3, <1>4, <1>5, <1>6, <1>7, <1>8, <1>9, <1>10, <1>11, <1>12, <1>13, <1>14,
     <1>15
  DEF Next, RunStep, JobStep, MailStep, Begin, Load, ScheduleNow, Schedule, Send, Commit,
      LockRow, PassOver,
      WriteRow, FailFolder, Finish, Start, Discover, FailOrphan, ExpireResult, Age,
      HealthCheck, ResetStale, EndRun, Sending, Written

-----------------------------------------------------------------------------
(* The other parts of Consistency are preserved *)

\* Every writer of a row asks for its lock or leaves QUEUED rows alone.
LEMMA RowLocks ==
    ASSUME Consistency, [Next]_vars
    PROVE  HeldRowsStayQueued'
<1> USE DEF vars, rowVars, arqVars, runVars, jobVars, envVars
<1>1. TypeOK /\ RunsConsistent /\ HeldRowsStayQueued
  BY DEF Consistency
<1>2. CASE UNCHANGED <<status, held>>
  BY <1>1, <1>2 DEF TypeOK, RowTypeOK, RunTypeOK, RunsConsistent, HeldRowsStayQueued
<1>3. ASSUME NEW r \in Runs, Begin(r)
      PROVE  HeldRowsStayQueued'
  BY <1>1, <1>3
  DEF Begin, ResetStale, TypeOK, RowTypeOK, RunTypeOK, RunsConsistent, HeldRowsStayQueued
<1>4. ASSUME NEW r \in Runs, Load(r) \/ ScheduleNow(r)
      PROVE  HeldRowsStayQueued'
  <2>1. CASE EndRun(r)
    BY <1>1, <1>4, <2>1 DEF Load, ScheduleNow, Schedule, EndRun, TypeOK, RunTypeOK,
        HeldRowsStayQueued
  <2>2. CASE ~ EndRun(r)
    BY <1>1, <1>4, <2>2 DEF Load, ScheduleNow, Schedule, TypeOK, RunTypeOK, HeldRowsStayQueued
  <2>3. QED
    BY <2>1, <2>2
<1>5. ASSUME NEW r \in Runs, Commit(r)
      PROVE  HeldRowsStayQueued'
  BY <1>1, <1>5
  DEF Commit, EndRun, Open, TypeOK, RowTypeOK, RunTypeOK, RunsConsistent,
      HeldRowsStayQueued
<1>6. ASSUME NEW r \in Runs, RollBack(r)
      PROVE  HeldRowsStayQueued'
  BY <1>1, <1>6
  DEF RollBack, EndRun, Trouble, TypeOK, RowTypeOK, RunTypeOK, RunsConsistent,
      HeldRowsStayQueued
<1>7. ASSUME NEW r \in Runs, NEW m \in Mails, LockRow(r, m)
      PROVE  HeldRowsStayQueued'
  BY <1>1, <1>7
  DEF LockRow, Visit, Unlocked, Open, TypeOK, RowTypeOK, RunTypeOK, RunsConsistent,
      HeldRowsStayQueued
<1>8. ASSUME NEW s \in Slots, WriteRow(s)
      PROVE  HeldRowsStayQueued'
  BY <1>1, <1>8
  DEF WriteRow, Written, Unlocked, TypeOK, RowTypeOK, RunTypeOK, RunsConsistent,
      HeldRowsStayQueued
<1>9. ASSUME NEW s \in Slots, FailFolder(s)
      PROVE  HeldRowsStayQueued'
  BY <1>1, <1>9
  DEF FailFolder, InStatus, Unlocked, TypeOK, RowTypeOK, RunTypeOK, RunsConsistent,
      HeldRowsStayQueued
<1>10. ASSUME NEW m \in Mails, Discover(m)
      PROVE  HeldRowsStayQueued'
  BY <1>1, <1>10
  DEF Discover, TypeOK, RowTypeOK, RunTypeOK, RunsConsistent, HeldRowsStayQueued
<1>11. ASSUME NEW m \in Mails, RetryCommit(m)
      PROVE  HeldRowsStayQueued'
  BY <1>1, <1>11
  DEF RetryCommit, Unlocked, TypeOK, RowTypeOK, RunTypeOK, RunsConsistent,
      HeldRowsStayQueued
<1>12. ASSUME Crash
      PROVE  HeldRowsStayQueued'
  BY <1>1, <1>12
  DEF Crash, Trouble, TypeOK, RowTypeOK, RunTypeOK, RunsConsistent, HeldRowsStayQueued
<1>13. ASSUME Restart
      PROVE  HeldRowsStayQueued'
  BY <1>1, <1>13
  DEF Restart, Trouble, TypeOK, RowTypeOK, RunTypeOK, RunsConsistent, HeldRowsStayQueued
<1>14. ASSUME HealthCheck
      PROVE  HeldRowsStayQueued'
  BY <1>1, <1>14
  DEF HealthCheck, ResetStale, TypeOK, RowTypeOK, RunTypeOK, RunsConsistent,
      HeldRowsStayQueued
<1>15. QED
  BY <1>2, <1>3, <1>4, <1>5, <1>6, <1>7, <1>8, <1>9, <1>10, <1>11, <1>12, <1>13, <1>14
  DEF Next, RunStep, JobStep, MailStep, Send, SendDuplicate, SendFails, PassOver, Decide,
      WriteFails, FailFolderFails, Timeout, Finish, Start, RetryRequest, RetryAbort,
      FailOrphan, ExpireResult, Age, Recover, Sending, ReadRow, Written

\* A run holds rows only between its first lock and its commit or rollback.
LEMMA RunBooks ==
    ASSUME Consistency, [Next]_vars
    PROVE  RunsConsistent'
<1> USE DEF vars, rowVars, arqVars, runVars, jobVars, envVars
<1>1. TypeOK /\ RunsConsistent
  BY DEF Consistency
<1>2. CASE UNCHANGED <<runVars>>
  BY <1>1, <1>2 DEF TypeOK, RunTypeOK, RunsConsistent
<1>3. ASSUME NEW r \in Runs, Begin(r)
      PROVE  RunsConsistent'
  BY <1>1, <1>3 DEF Begin, ResetStale, TypeOK, RunTypeOK, RunsConsistent
<1>4. ASSUME NEW r \in Runs, Load(r) \/ ScheduleNow(r)
      PROVE  RunsConsistent'
  <2>1. CASE EndRun(r)
    BY <1>1, <1>4, <2>1 DEF Load, ScheduleNow, Schedule, EndRun, TypeOK, RunTypeOK, RunsConsistent
  <2>2. CASE ~ EndRun(r)
    <3>1. /\ rpc[r] \in {"idle", "load"}
          /\ rpc' = [rpc EXCEPT ![r] = "pick"]
          /\ UNCHANGED <<cur, held, sent>>
      BY <1>4, <2>2 DEF Load, ScheduleNow, Schedule
    <3>2. \A q \in Runs \ {r} : gleft'[q] = gleft[q] /\ uleft'[q] = uleft[q]
      BY <1>1, <1>4, <2>2 DEF Load, ScheduleNow, Schedule, TypeOK, RunTypeOK
    <3>3. QED
      BY <1>1, <3>1, <3>2 DEF TypeOK, RunTypeOK, RunsConsistent
  <2>3. QED
    BY <2>1, <2>2
<1>5. ASSUME NEW r \in Runs, Send(r)
      PROVE  RunsConsistent'
  BY <1>1, <1>5 DEF Send, Sending, TypeOK, RunTypeOK, RunsConsistent
<1>6. ASSUME NEW r \in Runs, SendDuplicate(r)
      PROVE  RunsConsistent'
  BY <1>1, <1>6 DEF SendDuplicate, Sending, Trouble, TypeOK, RunTypeOK, RunsConsistent
<1>7. ASSUME NEW r \in Runs, SendFails(r)
      PROVE  RunsConsistent'
  BY <1>1, <1>7 DEF SendFails, Sending, Trouble, Fresh, TypeOK, RunTypeOK, RunsConsistent
<1>8. ASSUME NEW r \in Runs, Commit(r)
      PROVE  RunsConsistent'
  BY <1>1, <1>8 DEF Commit, EndRun, Open, TypeOK, RunTypeOK, RunsConsistent
<1>9. ASSUME NEW r \in Runs, RollBack(r)
      PROVE  RunsConsistent'
  BY <1>1, <1>9 DEF RollBack, EndRun, Trouble, TypeOK, RunTypeOK, RunsConsistent
<1>10. ASSUME NEW r \in Runs, NEW m \in Mails, LockRow(r, m)
      PROVE  RunsConsistent'
  BY <1>1, <1>10 DEF LockRow, Visit, Unlocked, Open, TypeOK, RunTypeOK, RunsConsistent
<1>11. ASSUME NEW r \in Runs, NEW m \in Mails, PassOver(r, m)
      PROVE  RunsConsistent'
  BY <1>1, <1>11 DEF PassOver, Visit, TypeOK, RunTypeOK, RunsConsistent
<1>12. ASSUME Crash
      PROVE  RunsConsistent'
  BY <1>1, <1>12 DEF Crash, Trouble, TypeOK, RunTypeOK, RunsConsistent
<1>13. QED
  BY <1>2, <1>3, <1>4, <1>5, <1>6, <1>7, <1>8, <1>9, <1>10, <1>11, <1>12
  DEF Next, RunStep, JobStep, MailStep, Decide, WriteRow, WriteFails, FailFolder,
      FailFolderFails, Timeout, Finish, Start, Discover, RetryRequest, RetryCommit,
      RetryAbort, FailOrphan, ExpireResult, Age, Recover, Restart, HealthCheck, ReadRow,
      Written, ResetStale

\* A running job keeps its job key until it finishes.
LEMMA JobBooks ==
    ASSUME Consistency, [Next]_vars
    PROVE  JobsConsistent'
<1> USE DEF vars, rowVars, arqVars, runVars, jobVars, envVars
<1>1. TypeOK /\ JobsConsistent /\ OneJobPerMail
  BY DEF Consistency
<1>2. CASE UNCHANGED <<wpc, wmail, job>>
  BY <1>1, <1>2 DEF TypeOK, ArqTypeOK, JobTypeOK, JobsConsistent, OneJobPerMail
<1>3. ASSUME NEW r \in Runs, Send(r)
      PROVE  JobsConsistent'
  BY <1>1, <1>3 DEF Send, Sending, Fresh, TypeOK, ArqTypeOK, JobTypeOK, JobsConsistent
<1>4. ASSUME NEW r \in Runs, SendFails(r)
      PROVE  JobsConsistent'
  BY <1>1, <1>4
  DEF SendFails, Sending, Trouble, Fresh, TypeOK, ArqTypeOK, JobTypeOK, JobsConsistent,
      OneJobPerMail
<1>5. ASSUME NEW s \in Slots, Decide(s)
      PROVE  JobsConsistent'
  BY <1>1, <1>5
  DEF Decide, ReadRow, Trouble, TypeOK, ArqTypeOK, JobTypeOK, JobsConsistent,
      OneJobPerMail
<1>6. ASSUME NEW s \in Slots, WriteRow(s)
      PROVE  JobsConsistent'
  BY <1>1, <1>6
  DEF WriteRow, Written, Unlocked, TypeOK, ArqTypeOK, JobTypeOK, JobsConsistent,
      OneJobPerMail
<1>7. ASSUME NEW s \in Slots, WriteFails(s)
      PROVE  JobsConsistent'
  BY <1>1, <1>7
  DEF WriteFails, Written, Trouble, TypeOK, ArqTypeOK, JobTypeOK, JobsConsistent,
      OneJobPerMail
<1>8. ASSUME NEW s \in Slots, FailFolder(s)
      PROVE  JobsConsistent'
  BY <1>1, <1>8
  DEF FailFolder, InStatus, Unlocked, TypeOK, ArqTypeOK, JobTypeOK, JobsConsistent,
      OneJobPerMail
<1>9. ASSUME NEW s \in Slots, FailFolderFails(s)
      PROVE  JobsConsistent'
  BY <1>1, <1>9
  DEF FailFolderFails, Trouble, TypeOK, ArqTypeOK, JobTypeOK, JobsConsistent,
      OneJobPerMail
<1>10. ASSUME NEW s \in Slots, Timeout(s)
      PROVE  JobsConsistent'
  BY <1>1, <1>10
  DEF Timeout, ReadRow, Trouble, TypeOK, ArqTypeOK, JobTypeOK, JobsConsistent,
      OneJobPerMail
<1>11. ASSUME NEW s \in Slots, Finish(s)
      PROVE  JobsConsistent'
  BY <1>1, <1>11 DEF Finish, TypeOK, ArqTypeOK, JobTypeOK, JobsConsistent, OneJobPerMail
<1>12. ASSUME NEW s \in Slots, NEW m \in Mails, Start(s, m)
      PROVE  JobsConsistent'
  BY <1>1, <1>12 DEF Start, TypeOK, ArqTypeOK, JobTypeOK, JobsConsistent, OneJobPerMail
<1>13. ASSUME NEW m \in Mails, RetryRequest(m)
      PROVE  JobsConsistent'
  BY <1>1, <1>13
  DEF RetryRequest, Trouble, TypeOK, ArqTypeOK, JobTypeOK, JobsConsistent, OneJobPerMail
<1>14. ASSUME NEW m \in Mails, FailOrphan(m)
      PROVE  JobsConsistent'
  BY <1>1, <1>14
  DEF FailOrphan, TypeOK, ArqTypeOK, JobTypeOK, JobsConsistent, OneJobPerMail
<1>15. ASSUME Crash
      PROVE  JobsConsistent'
  BY <1>1, <1>15
  DEF Crash, Trouble, TypeOK, ArqTypeOK, JobTypeOK, JobsConsistent, OneJobPerMail
<1>16. QED
  BY <1>2, <1>3, <1>4, <1>5, <1>6, <1>7, <1>8, <1>9, <1>10, <1>11, <1>12, <1>13, <1>14,
     <1>15
  DEF Next, RunStep, JobStep, MailStep, Begin, Load, ScheduleNow, Schedule, SendDuplicate,
      Commit, RollBack,
      LockRow, PassOver, Discover, RetryCommit, RetryAbort, ExpireResult, Age, Recover,
      Restart, HealthCheck, ResetStale, EndRun, Sending

\* A job starts only from a job key that says `waiting', so no slot works on it.
LEMMA OneJob ==
    ASSUME Consistency, [Next]_vars
    PROVE  OneJobPerMail'
<1> USE DEF vars, rowVars, arqVars, runVars, jobVars, envVars
<1>1. TypeOK /\ JobsConsistent /\ OneJobPerMail
  BY DEF Consistency
<1>2. CASE UNCHANGED <<wpc, wmail>>
  BY <1>1, <1>2 DEF TypeOK, JobTypeOK, JobsConsistent, OneJobPerMail
<1>3. ASSUME NEW s \in Slots, Decide(s)
      PROVE  OneJobPerMail'
  BY <1>1, <1>3
  DEF Decide, ReadRow, Trouble, TypeOK, JobTypeOK, JobsConsistent, OneJobPerMail
<1>4. ASSUME NEW s \in Slots, WriteRow(s)
      PROVE  OneJobPerMail'
  BY <1>1, <1>4
  DEF WriteRow, Written, Unlocked, TypeOK, JobTypeOK, JobsConsistent, OneJobPerMail
<1>5. ASSUME NEW s \in Slots, WriteFails(s)
      PROVE  OneJobPerMail'
  BY <1>1, <1>5
  DEF WriteFails, Written, Trouble, TypeOK, JobTypeOK, JobsConsistent, OneJobPerMail
<1>6. ASSUME NEW s \in Slots, FailFolder(s)
      PROVE  OneJobPerMail'
  BY <1>1, <1>6
  DEF FailFolder, InStatus, Unlocked, TypeOK, JobTypeOK, JobsConsistent, OneJobPerMail
<1>7. ASSUME NEW s \in Slots, FailFolderFails(s)
      PROVE  OneJobPerMail'
  BY <1>1, <1>7
  DEF FailFolderFails, Trouble, TypeOK, JobTypeOK, JobsConsistent, OneJobPerMail
<1>8. ASSUME NEW s \in Slots, Timeout(s)
      PROVE  OneJobPerMail'
  BY <1>1, <1>8
  DEF Timeout, ReadRow, Trouble, TypeOK, JobTypeOK, JobsConsistent, OneJobPerMail
<1>9. ASSUME NEW s \in Slots, Finish(s)
      PROVE  OneJobPerMail'
  BY <1>1, <1>9 DEF Finish, TypeOK, JobTypeOK, JobsConsistent, OneJobPerMail
<1>10. ASSUME NEW s \in Slots, NEW m \in Mails, Start(s, m)
      PROVE  OneJobPerMail'
  BY <1>1, <1>10 DEF Start, TypeOK, JobTypeOK, JobsConsistent, OneJobPerMail
<1>11. ASSUME Crash
      PROVE  OneJobPerMail'
  BY <1>1, <1>11 DEF Crash, Trouble, TypeOK, JobTypeOK, JobsConsistent, OneJobPerMail
<1>12. QED
  BY <1>2, <1>3, <1>4, <1>5, <1>6, <1>7, <1>8, <1>9, <1>10, <1>11
  DEF Next, RunStep, JobStep, MailStep, Begin, Load, ScheduleNow, Schedule, Send,
      SendDuplicate, SendFails,
      Commit, RollBack, LockRow, PassOver, Discover, RetryRequest, RetryCommit,
      RetryAbort, FailOrphan, ExpireResult, Age, Recover, Restart, HealthCheck,
      ResetStale, EndRun, Sending

\* Whoever puts a job into the queue finds the mail unsettled, or is a retry.
LEMMA Judged ==
    ASSUME Consistency, [Next]_vars
    PROVE  JudgedAreDone'
<1> USE DEF vars, rowVars, arqVars, runVars, jobVars, envVars, Settled
<1>1. /\ RowTypeOK /\ ArqTypeOK /\ JobTypeOK /\ RunTypeOK /\ EnvTypeOK
      /\ HeldRowsStayQueued /\ OneJobPerMail
      /\ RunsConsistent /\ JobsConsistent /\ JudgedAreDone
  BY DEF Consistency, TypeOK
<1>2. CASE UNCHANGED <<status, judged, job, wpc, wmail, late>>
  BY <1>1, <1>2 DEF JudgedAreDone
<1>3. ASSUME ResetStale, UNCHANGED <<job, wpc, wmail, late>>
      PROVE  JudgedAreDone'
  BY <1>1, <1>3 DEF ResetStale, RowTypeOK, JudgedAreDone
<1>4. ASSUME NEW r \in Runs, Send(r) \/ SendFails(r)
      PROVE  JudgedAreDone'
  <2>1. cur[r] \in Mails /\ cur[r] \notin judged
    BY <1>1, <1>4
    DEF Send, SendFails, Sending, RunTypeOK, RunsConsistent, HeldRowsStayQueued,
        JudgedAreDone
  <2>2. \A m \in Mails \ {cur[r]} : job'[m] = job[m]
    BY <1>1, <1>4 DEF Send, SendFails, Sending, ArqTypeOK
  <2>3. UNCHANGED <<status, judged, wpc, wmail, late>>
    BY <1>4 DEF Send, SendFails, Sending
  <2>4. QED
    BY <1>1, <2>1, <2>2, <2>3 DEF JudgedAreDone, RowTypeOK
<1>5. ASSUME NEW r \in Runs, Commit(r)
      PROVE  JudgedAreDone'
  BY <1>1, <1>5
  DEF Commit, RowTypeOK, RunsConsistent, HeldRowsStayQueued, JudgedAreDone
<1>6. ASSUME NEW s \in Slots, NEW m \in Mails, Start(s, m)
      PROVE  JudgedAreDone'
  BY <1>1, <1>6 DEF Start, ArqTypeOK, JobTypeOK, RowTypeOK, JudgedAreDone
<1>7. ASSUME NEW s \in Slots, Decide(s)
      PROVE  JudgedAreDone'
  BY <1>1, <1>7 DEF Decide, ReadRow, JobTypeOK, JudgedAreDone
<1>8. ASSUME NEW s \in Slots, Timeout(s)
      PROVE  JudgedAreDone'
  BY <1>1, <1>8 DEF Timeout, ReadRow, JobTypeOK, JudgedAreDone
<1>9. ASSUME NEW s \in Slots, WriteRow(s)
      PROVE  JudgedAreDone'
  <2>1. /\ wmail[s] \in Mails /\ job[wmail[s]] = "running"
        /\ \A t \in Slots : wmail[t] = wmail[s] /\ wpc[t] # "idle" => t = s
    BY <1>1, <1>9 DEF WriteRow, Written, JobsConsistent, OneJobPerMail
  <2>2. /\ wpc'[s] \in {"bulk", "finish"}
        /\ \A t \in Slots \ {s} : wpc'[t] = wpc[t]
        /\ UNCHANGED <<job, wmail, late>>
    BY <1>1, <1>9 DEF WriteRow, Written, JobTypeOK
  <2>3. /\ wmail[s] \in judged' => status'[wmail[s]] \in Settled
        /\ judged' \ {wmail[s]} = judged \ {wmail[s]}
        /\ \A m \in Mails \ {wmail[s]} : status'[m] = status[m]
    BY <1>1, <1>9, <2>1 DEF WriteRow, Written, RowTypeOK, JudgedAreDone
  <2>4. QED
    BY <1>1, <2>1, <2>2, <2>3 DEF JudgedAreDone, RowTypeOK, ArqTypeOK
<1>10. ASSUME NEW s \in Slots, WriteFails(s)
       PROVE  JudgedAreDone'
  BY <1>1, <1>10 DEF WriteFails, Written, JobTypeOK, JudgedAreDone
<1>11. ASSUME NEW s \in Slots, FailFolder(s) \/ FailFolderFails(s)
       PROVE  JudgedAreDone'
  BY <1>1, <1>11 DEF FailFolder, FailFolderFails, RowTypeOK, JobTypeOK, JudgedAreDone
<1>12. ASSUME NEW s \in Slots, Finish(s)
       PROVE  JudgedAreDone'
  BY <1>1, <1>12 DEF Finish, RowTypeOK, ArqTypeOK, JobTypeOK, JudgedAreDone
<1>13. ASSUME NEW m \in Mails, Discover(m)
       PROVE  JudgedAreDone'
  BY <1>1, <1>13 DEF Discover, RowTypeOK, JudgedAreDone
<1>14. ASSUME NEW m \in Mails, RetryRequest(m)
       PROVE  JudgedAreDone'
  <2>1. CASE job' = job
    BY <1>1, <1>14, <2>1 DEF RetryRequest, JudgedAreDone
  <2>2. CASE job' # job
    BY <1>1, <1>14, <2>2 DEF RetryRequest, ArqTypeOK, RowTypeOK, JudgedAreDone
  <2>3. QED
    BY <2>1, <2>2
<1>15. ASSUME NEW m \in Mails, RetryCommit(m)
       PROVE  JudgedAreDone'
  BY <1>1, <1>15 DEF RetryCommit, RowTypeOK, JudgedAreDone
<1>16. ASSUME NEW m \in Mails, FailOrphan(m)
       PROVE  JudgedAreDone'
  BY <1>1, <1>16 DEF FailOrphan, RowTypeOK, ArqTypeOK, JudgedAreDone
<1>17. CASE Crash
  BY <1>1, <1>17 DEF Crash, RowTypeOK, ArqTypeOK, JudgedAreDone
<1>18. CASE Restart
  BY <1>1, <1>18 DEF Restart, RowTypeOK, JudgedAreDone
<1>19. QED
  BY <1>2, <1>3, <1>4, <1>5, <1>6, <1>7, <1>8, <1>9, <1>10, <1>11, <1>12, <1>13, <1>14,
     <1>15, <1>16, <1>17, <1>18
  DEF Next, RunStep, JobStep, MailStep, Begin, Load, ScheduleNow, Schedule, LockRow,
      PassOver, SendDuplicate, Sending, RollBack, RetryAbort, ExpireResult, Age, Recover,
      HealthCheck

\* Only mails with a row are dispatched, and a row is never deleted.
LEMMA Rows ==
    ASSUME Consistency, [Next]_vars
    PROVE  RowsExist'
<1> USE DEF vars, rowVars, arqVars, runVars, jobVars, envVars
<1>1. TypeOK /\ HeldRowsStayQueued /\ RunsConsistent /\ JobsConsistent /\ RowsExist
  BY DEF Consistency
<1>2. CASE UNCHANGED <<up, rpc, wpc, job, asked, status>>
  BY <1>1, <1>2 DEF RowsExist
<1>3. ASSUME NEW r \in Runs, Begin(r)
      PROVE  RowsExist'
  BY <1>1, <1>3 DEF Begin, ResetStale, RowsExist
<1>4. ASSUME NEW r \in Runs, Load(r) \/ ScheduleNow(r)
      PROVE  RowsExist'
  <2>1. CASE EndRun(r)
    BY <1>1, <1>4, <2>1 DEF Load, ScheduleNow, Schedule, EndRun, TypeOK, RunTypeOK, RowsExist
  <2>2. CASE ~ EndRun(r)
    BY <1>1, <1>4, <2>2 DEF Load, ScheduleNow, Schedule, TypeOK, RunTypeOK, RowsExist
  <2>3. QED
    BY <2>1, <2>2
<1>5. ASSUME NEW r \in Runs, Send(r)
      PROVE  RowsExist'
  BY <1>1, <1>5
  DEF Send, Sending, TypeOK, ArqTypeOK, RunTypeOK, RunsConsistent, HeldRowsStayQueued,
      RowsExist
<1>6. ASSUME NEW r \in Runs, SendDuplicate(r)
      PROVE  RowsExist'
  BY <1>1, <1>6 DEF SendDuplicate, Sending, Trouble, RowsExist
<1>7. ASSUME NEW r \in Runs, SendFails(r)
      PROVE  RowsExist'
  BY <1>1, <1>7
  DEF SendFails, Sending, TypeOK, ArqTypeOK, RunTypeOK, RunsConsistent,
      HeldRowsStayQueued, RowsExist
<1>8. ASSUME NEW r \in Runs, Commit(r)
      PROVE  RowsExist'
  BY <1>1, <1>8 DEF Commit, EndRun, Open, RowsExist
<1>9. ASSUME NEW r \in Runs, RollBack(r)
      PROVE  RowsExist'
  BY <1>1, <1>9 DEF RollBack, EndRun, Trouble, RowsExist
<1>10. ASSUME NEW r \in Runs, NEW m \in Mails, LockRow(r, m)
      PROVE  RowsExist'
  BY <1>1, <1>10 DEF LockRow, Visit, Unlocked, Open, RowsExist
<1>11. ASSUME NEW s \in Slots, Decide(s)
      PROVE  RowsExist'
  BY <1>1, <1>11 DEF Decide, ReadRow, Trouble, RowsExist
<1>12. ASSUME NEW s \in Slots, WriteRow(s)
      PROVE  RowsExist'
  BY <1>1, <1>12
  DEF WriteRow, Written, TypeOK, RowTypeOK, JobTypeOK, Goals, JobsConsistent, RowsExist
<1>13. ASSUME NEW s \in Slots, WriteFails(s)
      PROVE  RowsExist'
  BY <1>1, <1>13 DEF WriteFails, Written, Trouble, RowsExist
<1>14. ASSUME NEW s \in Slots, FailFolder(s)
      PROVE  RowsExist'
  BY <1>1, <1>14 DEF FailFolder, InStatus, Unlocked, RowsExist
<1>15. ASSUME NEW s \in Slots, FailFolderFails(s)
      PROVE  RowsExist'
  BY <1>1, <1>15 DEF FailFolderFails, Trouble, RowsExist
<1>16. ASSUME NEW s \in Slots, Timeout(s)
      PROVE  RowsExist'
  BY <1>1, <1>16 DEF Timeout, ReadRow, Trouble, RowsExist
<1>17. ASSUME NEW s \in Slots, Finish(s)
      PROVE  RowsExist'
  BY <1>1, <1>17 DEF Finish, RowsExist
<1>18. ASSUME NEW s \in Slots, NEW m \in Mails, Start(s, m)
      PROVE  RowsExist'
  BY <1>1, <1>18 DEF Start, RowsExist
<1>19. ASSUME NEW m \in Mails, Discover(m)
      PROVE  RowsExist'
  BY <1>1, <1>19 DEF Discover, RowsExist
<1>20. ASSUME NEW m \in Mails, RetryRequest(m)
      PROVE  RowsExist'
  BY <1>1, <1>20 DEF RetryRequest, TypeOK, ArqTypeOK, EnvTypeOK, RowsExist
<1>21. ASSUME NEW m \in Mails, RetryCommit(m)
      PROVE  RowsExist'
  BY <1>1, <1>21 DEF RetryCommit, TypeOK, RowTypeOK, EnvTypeOK, RowsExist
<1>22. ASSUME NEW m \in Mails, RetryAbort(m)
      PROVE  RowsExist'
  BY <1>1, <1>22 DEF RetryAbort, Trouble, RowsExist
<1>23. ASSUME NEW m \in Mails, FailOrphan(m)
      PROVE  RowsExist'
  BY <1>1, <1>23 DEF FailOrphan, RowsExist
<1>24. ASSUME Crash
      PROVE  RowsExist'
  BY <1>1, <1>24 DEF Crash, Trouble, RowsExist
<1>25. ASSUME Restart
      PROVE  RowsExist'
  BY <1>1, <1>25 DEF Restart, Trouble, RowsExist
<1>26. ASSUME HealthCheck
      PROVE  RowsExist'
  BY <1>1, <1>26 DEF HealthCheck, ResetStale, RowsExist
<1>27. QED
  BY <1>2, <1>3, <1>4, <1>5, <1>6, <1>7, <1>8, <1>9, <1>10, <1>11, <1>12, <1>13, <1>14,
     <1>15, <1>16, <1>17, <1>18, <1>19, <1>20, <1>21, <1>22, <1>23, <1>24, <1>25, <1>26
  DEF Next, RunStep, JobStep, MailStep, PassOver, ExpireResult, Age, Recover

-----------------------------------------------------------------------------
(* Consistency is an invariant *)

LEMMA ConsistencyInit == Init => Consistency
<1> SUFFICES ASSUME Init PROVE Consistency
  OBVIOUS
<1>1. RowTypeOK /\ ArqTypeOK
  BY DEF Init, RowTypeOK, ArqTypeOK, Status
<1>2. RunTypeOK
  BY DEF Init, RunTypeOK
<1>3. JobTypeOK /\ EnvTypeOK
  BY BoundsAssumption DEF Init, JobTypeOK, EnvTypeOK, Status, Goals
<1>4. HeldRowsStayQueued /\ OneJobPerMail /\ RunsConsistent /\ JobsConsistent
      /\ JudgedAreDone /\ RowsExist
  BY DEF Init, HeldRowsStayQueued, OneJobPerMail, RunsConsistent, JobsConsistent,
         JudgedAreDone, RowsExist
<1>5. QED
  BY <1>1, <1>2, <1>3, <1>4 DEF Consistency, TypeOK

LEMMA ConsistencyStep == Consistency /\ [Next]_vars => Consistency'
BY RowTypes, ArqTypes, RunTypes, JobTypes, EnvTypes, RowLocks, RunBooks, JobBooks,
   OneJob, Judged, Rows
DEF Consistency, TypeOK

\* What the scheduler, the jobs, the watchdogs and the retry request rely on in
\* each other: row locks, job keys and the bookkeeping that ties them together.
THEOREM ConsistencyInvariant == Spec => []Consistency
BY ConsistencyInit, ConsistencyStep, PTL DEF Spec

\* Every variable keeps its type; in particular no verdict that is not a status
\* is written to a row, and no run's count of free slots goes below zero.
THEOREM TypeCorrectness == Spec => []TypeOK
<1>1. Consistency => TypeOK
  BY DEF Consistency
<1>2. QED
  BY <1>1, ConsistencyInvariant, PTL

\* Between FOR UPDATE and the end of the run nobody else changes the row.
THEOREM LockedRows == Spec => []HeldRowsStayQueued
<1>1. Consistency => HeldRowsStayQueued
  BY DEF Consistency
<1>2. QED
  BY <1>1, ConsistencyInvariant, PTL

\* process_mail never runs twice at a time for one mail.
THEOREM ExclusiveProcessing == Spec => []OneJobPerMail
<1>1. Consistency => OneJobPerMail
  BY DEF Consistency
<1>2. QED
  BY <1>1, ConsistencyInvariant, PTL

-----------------------------------------------------------------------------
(* Settled mails stay settled *)

\* The action of SettledIsFinal.
SettledStep ==
    \A m \in Mails :
        status[m] \in Settled /\ status'[m] \notin Settled =>
            \/ asked[m] # "no" /\ asked'[m] = "no"
            \/ \E s \in Slots :
                /\ wmail[s] = m /\ wpc[s] = "write" /\ wgoal[s] = "queued"
                /\ late[s] \/ m \notin judged

LEMMA SettledStepHolds ==
    ASSUME Consistency, [Next]_vars
    PROVE  SettledStep
<1> USE DEF vars, rowVars, arqVars, runVars, jobVars, envVars, SettledStep, Settled
<1>1. /\ RowTypeOK /\ JobTypeOK /\ EnvTypeOK
      /\ RunsConsistent /\ HeldRowsStayQueued /\ JobsConsistent /\ JudgedAreDone
  BY DEF Consistency, TypeOK
<1>2. CASE UNCHANGED status
  BY <1>2
<1>3. ASSUME ResetStale
      PROVE  SettledStep
  BY <1>1, <1>3 DEF ResetStale, RowTypeOK
<1>4. ASSUME NEW r \in Runs, Commit(r)
      PROVE  SettledStep
  BY <1>1, <1>4 DEF Commit, RowTypeOK, RunsConsistent, HeldRowsStayQueued
<1>5. ASSUME NEW s \in Slots, WriteRow(s)
      PROVE  SettledStep
  BY <1>1, <1>5 DEF WriteRow, Written, RowTypeOK, JobTypeOK, JobsConsistent, JudgedAreDone, Goals
<1>6. ASSUME NEW s \in Slots, FailFolder(s)
      PROVE  SettledStep
  BY <1>1, <1>6 DEF FailFolder, RowTypeOK
<1>7. ASSUME NEW m \in Mails, Discover(m)
      PROVE  SettledStep
  BY <1>1, <1>7 DEF Discover, RowTypeOK
<1>8. ASSUME NEW m \in Mails, RetryCommit(m)
      PROVE  SettledStep
  BY <1>1, <1>8 DEF RetryCommit, RowTypeOK, EnvTypeOK
<1>9. ASSUME Restart
      PROVE  SettledStep
  BY <1>1, <1>9 DEF Restart, RowTypeOK
<1>10. QED
  BY <1>2, <1>3, <1>4, <1>5, <1>6, <1>7, <1>8, <1>9
  DEF Next, RunStep, JobStep, MailStep, Begin, Load, ScheduleNow, Schedule, LockRow, PassOver,
      Send,
      SendDuplicate, SendFails, Sending, RollBack, Start, Decide, WriteFails, Written,
      FailFolderFails, Timeout, Finish, RetryRequest, RetryAbort, FailOrphan,
      ExpireResult, Age, Recover, Crash, HealthCheck

\* A settled mail is taken back by a retry, by the timeout of its own job, or by
\* its own job's error when that job has not judged it (another mail's job failed
\* it with its folder, or a retry queued the job): no dispatch, watchdog, restart
\* or rollback does, and no job is sent for a mail its own job has settled.
THEOREM Finality == Spec => SettledIsFinal
<1>1. Consistency /\ [Next]_vars => [SettledStep]_vars
  BY SettledStepHolds
<1>2. Spec => [][SettledStep]_vars
  BY <1>1, ConsistencyInvariant, PTL DEF Spec
<1>3. QED
  BY <1>2 DEF SettledIsFinal, SettledStep

-----------------------------------------------------------------------------
(* The caps, when only one scheduler run is open at a time *)

\* Mails that are PROCESSING, or will be when the open run commits.
Claimed == {m \in Mails : status[m] = "processing" \/ \E r \in Runs : m \in sent[r]}

\* A run's counters are what the caps leave, so sending one more mail of an
\* open user stays below them.  Without retries nobody else claims a mail.
CapsConsistent ==
    /\ \A m \in Mails : asked[m] = "no"
    /\ Cardinality(Claimed) <= ProcessSlots
    /\ \A u \in Users : Cardinality(InProcessing(u)) <= MaxConcurrent[u]
    /\ \A r \in Runs : rpc[r] \in {"pick", "send"} =>
        /\ Cardinality(Claimed) + gleft[r] <= ProcessSlots
        /\ \A u \in Users : Cardinality(InProcessing(u)) + uleft[r][u] <= MaxConcurrent[u]

\* What the caps count are mails.
LEMMA ClaimedMails ==
    /\ Claimed \in SUBSET Mails /\ IsFiniteSet(Claimed) /\ Cardinality(Claimed) \in Nat
    /\ \A u \in Users : /\ InProcessing(u) \in SUBSET Claimed
                        /\ IsFiniteSet(InProcessing(u))
                        /\ Cardinality(InProcessing(u)) \in Nat
<1>1. Claimed \in SUBSET Mails /\ \A u \in Users : InProcessing(u) \in SUBSET Claimed
  BY DEF Claimed, InProcessing
<1>2. QED
  BY <1>1, FiniteAssumption, FS_Subset, FS_CardinalityType

LEMMA ClaimedMailsNext ==
    /\ Claimed' \in SUBSET Mails /\ IsFiniteSet(Claimed') /\ Cardinality(Claimed') \in Nat
    /\ \A u \in Users : /\ InProcessing(u)' \in SUBSET Claimed'
                        /\ IsFiniteSet(InProcessing(u)')
                        /\ Cardinality(InProcessing(u)') \in Nat
<1>1. Claimed' \in SUBSET Mails /\ \A u \in Users : InProcessing(u)' \in SUBSET Claimed'
  BY DEF Claimed, InProcessing
<1>2. QED
  BY <1>1, FiniteAssumption, FS_Subset, FS_CardinalityType

\* One more element raises a count by at most one.
LEMMA OneMore ==
    ASSUME NEW S, IsFiniteSet(S), NEW x
    PROVE  Cardinality(S \cup {x}) <= Cardinality(S) + 1
<1>1. Cardinality(S) \in Nat
  BY FS_CardinalityType
<1>2. Cardinality(S \cup {x}) = IF x \in S THEN Cardinality(S) ELSE Cardinality(S) + 1
  BY FS_AddElement, Zenon
<1>3. QED
  BY <1>1, <1>2

\* A step that claims no mail and counts nothing anew keeps the caps.
LEMMA ClaimNothing ==
    ASSUME Consistency, CapsConsistent,
           \A m \in Mails : asked'[m] = "no",
           Claimed' \in SUBSET Claimed,
           \A r \in Runs : rpc'[r] \in {"pick", "send"} =>
               rpc[r] \in {"pick", "send"} /\ gleft'[r] = gleft[r] /\ uleft'[r] = uleft[r]
    PROVE  CapsConsistent'
<1>1. \A u \in Users : InProcessing(u)' \in SUBSET InProcessing(u)
  BY DEF Claimed, InProcessing
<1>2. /\ Cardinality(Claimed') <= Cardinality(Claimed)
      /\ \A u \in Users : Cardinality(InProcessing(u)') <= Cardinality(InProcessing(u))
  BY <1>1, ClaimedMails, FS_Subset
<1>3. /\ ProcessSlots \in Nat /\ \A u \in Users : MaxConcurrent[u] \in Nat
      /\ \A r \in Runs : gleft[r] \in Nat /\ \A u \in Users : uleft[r][u] \in Nat
  BY BoundsAssumption, LayoutAssumption DEF Consistency, TypeOK, RunTypeOK
<1>4. QED
  BY <1>2, <1>3, ClaimedMails, ClaimedMailsNext DEF CapsConsistent

\* The one run counts all claimed mails: nothing is sent before it loads.
LEMMA LoadCounts ==
    ASSUME \A r, q \in Runs : r = q,
           Consistency, CapsConsistent, NEW r \in Runs, Load(r) \/ ScheduleNow(r)
    PROVE  CapsConsistent'
<1>1. CASE EndRun(r)
  <2>1. /\ \A m \in Mails : asked'[m] = "no"
        /\ Claimed' \in SUBSET Claimed
        /\ \A q \in Runs : rpc'[q] \notin {"pick", "send"}
    BY <1>1 DEF Load, ScheduleNow, Schedule, EndRun, rowVars, envVars, Claimed,
        CapsConsistent, Consistency,
                TypeOK, RunTypeOK
  <2>2. QED
    BY <2>1, ClaimNothing
<1>2. CASE ~ EndRun(r)
  <2>1. /\ UNCHANGED <<status, sent, asked>>
        /\ gleft' = [gleft EXCEPT ![r] = GlobalFree]
        /\ uleft' = [uleft EXCEPT ![r] = [u \in Users |-> UserFree(u)]]
    BY <1>2 DEF Load, ScheduleNow, Schedule, rowVars, envVars
  <2>2. Claimed' = Claimed /\ \A u \in Users : InProcessing(u)' = InProcessing(u)
    BY <2>1 DEF Claimed, InProcessing
  <2>3. \A q \in Runs : sent[q] = {}
    BY DEF Load, ScheduleNow, Schedule, Consistency, RunsConsistent
  <2>4. /\ Claimed = InStatus("processing")
        /\ \A u \in Users :
              InProcessing(u) = {m \in InStatus("processing") : UserOf[m] = u}
    BY <2>3 DEF Claimed, InProcessing, InStatus
  <2>5. /\ ProcessSlots \in Nat /\ \A u \in Users : MaxConcurrent[u] \in Nat
    BY BoundsAssumption, LayoutAssumption
  <2>6. /\ gleft'[r] = ProcessSlots - Cardinality(Claimed)
        /\ \A u \in Users : uleft'[r][u] = MaxConcurrent[u] - Cardinality(InProcessing(u))
    <3>1. /\ gleft'[r] = Minus(ProcessSlots, Cardinality(Claimed))
          /\ \A u \in Users :
                uleft'[r][u] = Minus(MaxConcurrent[u], Cardinality(InProcessing(u)))
      BY <2>1, <2>4 DEF Consistency, TypeOK, RunTypeOK, GlobalFree, UserFree
    <3>2. QED
      BY <2>5, <3>1, ClaimedMails DEF Minus, CapsConsistent
  <2>7. QED
    BY <2>1, <2>2, <2>5, <2>6, ClaimedMails DEF CapsConsistent
<1>3. QED
  BY <1>1, <1>2

\* Sending claims one mail and uses up one slot of the worker and of its user.
LEMMA SendCounts ==
    ASSUME \A r, q \in Runs : r = q,
           Consistency, CapsConsistent, NEW r \in Runs, Send(r)
    PROVE  CapsConsistent'
<1>0. PICK m \in Mails, owner \in Users : m = cur[r] /\ owner = UserOf[m]
  BY LayoutAssumption
  DEF Send, Sending, Consistency, TypeOK, RunTypeOK, RunsConsistent
<1>1. /\ rpc[r] = "send" /\ gleft[r] \in Nat /\ gleft[r] > 0
      /\ \A u \in Users : uleft[r][u] \in Nat
      /\ uleft[r][owner] > 0
  BY <1>0
  DEF Send, Sending, Consistency, TypeOK, RunTypeOK, RunsConsistent
<1>2. /\ UNCHANGED <<status, asked>>
      /\ sent'[r] = sent[r] \cup {m}
      /\ gleft'[r] = gleft[r] - 1
      /\ uleft'[r][owner] = uleft[r][owner] - 1
      /\ \A u \in Users \ {owner} : uleft'[r][u] = uleft[r][u]
  BY <1>0, <1>1 DEF Send, Sending, rowVars, Consistency, TypeOK, RunTypeOK
<1>3. /\ Claimed' = Claimed \cup {m}
      /\ InProcessing(owner)' = InProcessing(owner) \cup {m}
      /\ \A u \in Users \ {owner} : InProcessing(u)' = InProcessing(u)
  <2>1. ASSUME NEW n \in Mails
        PROVE  (\E q \in Runs : n \in sent'[q]) <=> n = m \/ \E q \in Runs : n \in sent[q]
    BY <1>2
  <2>2. Claimed' = Claimed \cup {m}
    BY <1>0, <1>2, <2>1 DEF Claimed
  <2>3. InProcessing(owner)' = InProcessing(owner) \cup {m}
    BY <1>0, <1>2, <2>1 DEF InProcessing
  <2>4. ASSUME NEW u \in Users \ {owner}
        PROVE  InProcessing(u)' = InProcessing(u)
    BY <1>0, <1>2, <2>1 DEF InProcessing
  <2>5. QED
    BY <2>2, <2>3, <2>4
<1>4. /\ Cardinality(Claimed') <= Cardinality(Claimed) + 1
      /\ Cardinality(InProcessing(owner)') <= Cardinality(InProcessing(owner)) + 1
  BY <1>1, <1>3, ClaimedMails, OneMore
<1>5. ProcessSlots \in Nat /\ \A u \in Users : MaxConcurrent[u] \in Nat
  BY BoundsAssumption, LayoutAssumption
<1>6. /\ Cardinality(Claimed) + gleft[r] <= ProcessSlots
      /\ \A u \in Users : Cardinality(InProcessing(u)) + uleft[r][u] <= MaxConcurrent[u]
  BY <1>1 DEF CapsConsistent
<1>7. Cardinality(Claimed') + gleft'[r] <= ProcessSlots
  BY <1>1, <1>2, <1>4, <1>5, <1>6, ClaimedMails, ClaimedMailsNext
<1>8. ASSUME NEW u \in Users
      PROVE  Cardinality(InProcessing(u)') + uleft'[r][u] <= MaxConcurrent[u]
  <2>1. CASE u = owner
    <3>1. /\ Cardinality(InProcessing(owner)') \in Nat
          /\ Cardinality(InProcessing(owner)) \in Nat
          /\ uleft[r][owner] \in Nat /\ MaxConcurrent[owner] \in Nat
      BY <1>1, <1>5, ClaimedMails, ClaimedMailsNext
    <3>2. Cardinality(InProcessing(owner)) + uleft[r][owner] <= MaxConcurrent[owner]
      BY <1>1, <1>6
    <3>3. Cardinality(InProcessing(owner)') + uleft'[r][owner] <= MaxConcurrent[owner]
      BY <1>2, <1>4, <3>1, <3>2
    <3>4. QED
      BY <2>1, <3>3
  <2>2. CASE u # owner
    <3>1. Cardinality(InProcessing(u)') = Cardinality(InProcessing(u))
      BY <1>3, <2>2
    <3>2. uleft'[r][u] = uleft[r][u]
      BY <1>2, <2>2
    <3>3. QED
      BY <1>6, <3>1, <3>2
  <2>3. QED
    BY <2>1, <2>2
<1>9. gleft'[r] \in Nat /\ \A u \in Users : uleft'[r][u] \in Nat
  BY <1>1, <1>2
<1>10. QED
  BY <1>2, <1>5, <1>7, <1>8, <1>9, ClaimedMailsNext DEF CapsConsistent

LEMMA CapsStep ==
    ASSUME \A r, q \in Runs : r = q, Retryable = {},
           Consistency, CapsConsistent, [Next]_vars
    PROVE  CapsConsistent'
<1> USE DEF vars, rowVars, arqVars, runVars, jobVars, envVars
<1>1. /\ RowTypeOK /\ RunTypeOK /\ JobTypeOK /\ JobsConsistent
      /\ \A m \in Mails : asked[m] = "no"
  BY DEF Consistency, TypeOK, CapsConsistent
<1>2. CASE UNCHANGED <<status, rpc, gleft, uleft, sent, asked>>
  BY <1>1, <1>2, ClaimNothing DEF Claimed
<1>3. ASSUME NEW r \in Runs, Begin(r)
      PROVE  CapsConsistent'
  BY <1>1, <1>3, ClaimNothing DEF Begin, ResetStale, RowTypeOK, RunTypeOK, Claimed
<1>4. ASSUME NEW r \in Runs, SendDuplicate(r) \/ SendFails(r)
      PROVE  CapsConsistent'
  BY <1>1, <1>4, ClaimNothing DEF SendDuplicate, SendFails, Sending, RunTypeOK, Claimed
<1>5. ASSUME NEW r \in Runs, Commit(r)
      PROVE  CapsConsistent'
  <2>1. Claimed' \in SUBSET Claimed
    BY <1>1, <1>5 DEF Commit, EndRun, RowTypeOK, RunTypeOK, Claimed
  <2>2. QED
    BY <1>1, <1>5, <2>1, ClaimNothing DEF Commit, EndRun, RunTypeOK
<1>6. ASSUME NEW r \in Runs, RollBack(r)
      PROVE  CapsConsistent'
  BY <1>1, <1>6, ClaimNothing DEF RollBack, EndRun, RunTypeOK, Claimed
<1>7. ASSUME NEW r \in Runs, NEW m \in Mails, LockRow(r, m) \/ PassOver(r, m)
      PROVE  CapsConsistent'
  BY <1>1, <1>7, ClaimNothing DEF LockRow, PassOver, Visit, RunTypeOK, Claimed
<1>8. ASSUME NEW s \in Slots, WriteRow(s)
      PROVE  CapsConsistent'
  <2>1. Claimed' \in SUBSET Claimed
    BY <1>1, <1>8 DEF WriteRow, Written, RowTypeOK, JobTypeOK, Goals, JobsConsistent, Claimed
  <2>2. QED
    BY <1>1, <1>8, <2>1, ClaimNothing DEF WriteRow, Written
<1>9. ASSUME NEW s \in Slots, FailFolder(s)
      PROVE  CapsConsistent'
  BY <1>1, <1>9, ClaimNothing DEF FailFolder, RowTypeOK, Claimed
<1>10. ASSUME NEW m \in Mails, Discover(m)
       PROVE  CapsConsistent'
  BY <1>1, <1>10, ClaimNothing DEF Discover, RowTypeOK, Claimed
<1>11. ASSUME NEW m \in Mails, RetryRequest(m) \/ RetryCommit(m) \/ RetryAbort(m)
       PROVE  FALSE
  BY <1>1, <1>11 DEF RetryRequest, RetryCommit, RetryAbort
<1>12. CASE Crash
  BY <1>1, <1>12, ClaimNothing DEF Crash, Claimed
<1>13. CASE Restart
  BY <1>1, <1>13, ClaimNothing DEF Restart, RowTypeOK, Claimed
<1>14. CASE HealthCheck
  BY <1>1, <1>14, ClaimNothing DEF HealthCheck, ResetStale, RowTypeOK, Claimed
<1>15. QED
  BY <1>2, <1>3, <1>4, <1>5, <1>6, <1>7, <1>8, <1>9, <1>10, <1>11, <1>12, <1>13, <1>14,
     LoadCounts, SendCounts
  DEF Next, RunStep, JobStep, MailStep, Decide, WriteFails, Written, ReadRow,
      FailFolderFails, Timeout, Finish, Start, FailOrphan, ExpireResult, Age, Recover

\* max_concurrent_processing and the worker's slots are never exceeded while one
\* scheduler run is open at a time and no user presses Retry: the counts a run
\* takes before it locks its first row stay true to its commit, through resets,
\* late verdicts, crashes and restarts.
THEOREM SingleRunCaps ==
    ASSUME \A r, q \in Runs : r = q, Retryable = {}
    PROVE  Spec => []CapsRespected
<1>1. Init => CapsConsistent
  <2> SUFFICES ASSUME Init PROVE CapsConsistent
    OBVIOUS
  <2>1. Claimed = {} /\ \A u \in Users : InProcessing(u) = {}
    BY DEF Init, Claimed, InProcessing
  <2>2. Cardinality(Claimed) = 0 /\ \A u \in Users : Cardinality(InProcessing(u)) = 0
    BY <2>1, FS_EmptySet
  <2>3. QED
    BY <2>2, BoundsAssumption, LayoutAssumption DEF Init, CapsConsistent
<1>2. Consistency /\ CapsConsistent /\ [Next]_vars => CapsConsistent'
  BY CapsStep
<1>3. CapsConsistent => CapsRespected
  <2>1. UNION {InProcessing(u) : u \in Users} = Claimed
    BY LayoutAssumption DEF InProcessing, Claimed
  <2>2. QED
    BY <2>1 DEF CapsConsistent, CapsRespected
<1>4. QED
  BY <1>1, <1>2, <1>3, ConsistencyInvariant, PTL DEF Spec

-----------------------------------------------------------------------------
(* The queue implements the life cycle *)

\* Rows keep their stage unless a step of the life cycle is taken.
LEMMA SameStages ==
    ASSUME \A m \in Mails : StageOf(status'[m]) = StageOf(status[m])
    PROVE  stageBar' = stageBar
BY DEF stageBar

LEMMA SameHolders ==
    ASSUME \A s \in Slots : (wpc'[s] # "idle" <=> wpc[s] # "idle") /\ wmail'[s] = wmail[s]
    PROVE  holdersBar' = holdersBar
BY DEF holdersBar

LEMMA LifeInit == Init => Life!Init
<1> SUFFICES ASSUME Init PROVE Life!Init
  OBVIOUS
<1>1. stageBar = [m \in Mails |-> "absent"]
  BY DEF Init, stageBar, StageOf
<1>2. holdersBar = [m \in Mails |-> {}]
  BY DEF Init, holdersBar
<1>3. askedBar = [m \in Mails |-> FALSE]
  BY DEF Init, askedBar
<1>4. QED
  BY <1>1, <1>2, <1>3 DEF Life!Init

LEMMA LifeStep ==
    ASSUME Consistency, [Next]_vars
    PROVE  [Life!Next]_(Life!lifeVars)
<1> USE DEF vars, rowVars, arqVars, runVars, jobVars, envVars, Life!lifeVars
<1>1. /\ RowTypeOK /\ ArqTypeOK /\ JobTypeOK /\ EnvTypeOK
      /\ RunsConsistent /\ HeldRowsStayQueued /\ JobsConsistent /\ OneJobPerMail /\ RowsExist
  BY DEF Consistency, TypeOK
<1>2. CASE UNCHANGED <<status, wpc, wmail, asked>>
  BY <1>2 DEF stageBar, holdersBar, askedBar
<1>3. ASSUME ResetStale, UNCHANGED <<wpc, wmail, asked>>
      PROVE  UNCHANGED Life!lifeVars
  <2>1. stageBar' = stageBar
    BY <1>1, <1>3, SameStages DEF ResetStale, RowTypeOK, StageOf, Settled
  <2>2. QED
    BY <1>3, <2>1 DEF holdersBar, askedBar
<1>4. ASSUME NEW r \in Runs, Commit(r)
      PROVE  UNCHANGED Life!lifeVars
  <2>1. stageBar' = stageBar
    BY <1>1, <1>4, SameStages
    DEF Commit, RowTypeOK, StageOf, Settled, RunsConsistent, HeldRowsStayQueued
  <2>2. QED
    BY <1>4, <2>1 DEF Commit, holdersBar, askedBar
<1>5. ASSUME NEW s \in Slots, NEW m \in Mails, Start(s, m)
      PROVE  Life!Take(s, m)
  <2>1. holdersBar[m] = {}
    BY <1>1, <1>5 DEF Start, holdersBar, JobsConsistent
  <2>2. holdersBar' = [holdersBar EXCEPT ![m] = {s}]
    <3>1. ASSUME NEW n \in Mails, n # m
          PROVE  holdersBar'[n] = holdersBar[n]
      BY <1>1, <1>5, <3>1 DEF Start, holdersBar, JobTypeOK
    <3>2. holdersBar'[m] = {s}
      BY <1>1, <1>5, <2>1 DEF Start, holdersBar, JobTypeOK
    <3>3. QED
      BY <3>1, <3>2 DEF holdersBar
  <2>3. UNCHANGED <<stageBar, askedBar>>
    BY <1>5 DEF Start, stageBar, askedBar
  <2>4. QED
    BY <2>1, <2>2, <2>3 DEF Life!Take
<1>6. ASSUME NEW s \in Slots, Decide(s) \/ WriteFails(s) \/ FailFolderFails(s) \/ Timeout(s)
      PROVE  UNCHANGED Life!lifeVars
  <2>1. holdersBar' = holdersBar
    BY <1>1, <1>6, SameHolders
    DEF Decide, WriteFails, FailFolderFails, Timeout, ReadRow, Written, JobTypeOK
  <2>2. QED
    BY <1>6, <2>1
    DEF Decide, WriteFails, FailFolderFails, Timeout, ReadRow, Written, stageBar,
        askedBar
<1>7. ASSUME NEW s \in Slots, WriteRow(s)
      PROVE  wmail[s] \in Mails /\ Life!Judge(s, wmail[s])
  <2>1. /\ wmail[s] \in Mails /\ wpc[s] = "write"
        /\ status[wmail[s]] \in Status \ {"absent"}
    BY <1>1, <1>7 DEF WriteRow, Written, JobsConsistent, RowsExist, RowTypeOK
  <2>2. s \in holdersBar[wmail[s]] /\ stageBar[wmail[s]] # "absent"
    BY <2>1 DEF holdersBar, stageBar, StageOf
  <2>3. holdersBar' = holdersBar
    BY <1>1, <1>7, SameHolders DEF WriteRow, Written, JobTypeOK
  <2>4. /\ status'[wmail[s]] \in Status \ {"absent"}
        /\ \A m \in Mails \ {wmail[s]} : status'[m] = status[m]
    BY <1>1, <1>7, <2>1 DEF WriteRow, Written, RowTypeOK, JobTypeOK, Goals, Status
  <2>5. stageBar' = [stageBar EXCEPT ![wmail[s]] = StageOf(status'[wmail[s]])]
    BY <2>1, <2>4 DEF stageBar
  <2>6. StageOf(status'[wmail[s]]) \in {"pending", "settled"}
    BY <2>4 DEF StageOf
  <2>7. askedBar' = askedBar
    BY <1>7 DEF WriteRow, Written, askedBar
  <2>8. QED
    BY <2>1, <2>2, <2>3, <2>5, <2>6, <2>7 DEF Life!Judge
<1>8. ASSUME NEW s \in Slots, FailFolder(s)
      PROVE  \E M \in SUBSET Mails : Life!SettleFolder(M)
  <2> DEFINE gone == {m \in InStatus("queued") : FolderOf[m] = FolderOf[wmail[s]]}
  <2>1. gone \in SUBSET Mails /\ \A m \in gone : stageBar[m] = "pending"
    BY DEF InStatus, stageBar, StageOf, Settled
  <2>2. wmail[s] \in Mails /\ s \in holdersBar[wmail[s]]
    BY <1>1, <1>8 DEF FailFolder, JobsConsistent, holdersBar
  <2>3. status' = [m \in Mails |-> IF m \in gone THEN "failed" ELSE status[m]]
    BY <1>8 DEF FailFolder
  <2>4. stageBar' = [m \in Mails |-> IF m \in gone THEN "settled" ELSE stageBar[m]]
    BY <2>3 DEF stageBar, StageOf, Settled
  <2>5. holdersBar' = holdersBar
    BY <1>1, <1>8, SameHolders DEF FailFolder, JobTypeOK
  <2>6. askedBar' = askedBar
    BY <1>8 DEF FailFolder, askedBar
  <2>7. Life!SettleFolder(gone)
    BY <2>1, <2>2, <2>4, <2>5, <2>6 DEF Life!SettleFolder
  <2>8. QED
    BY <2>1, <2>7
<1>9. ASSUME NEW s \in Slots, Finish(s)
      PROVE  wmail[s] \in Mails /\ Life!Release(s, wmail[s])
  <2>1. wmail[s] \in Mails /\ s \in holdersBar[wmail[s]]
    BY <1>1, <1>9 DEF Finish, JobsConsistent, holdersBar
  <2>2. ASSUME NEW n \in Mails
        PROVE  holdersBar'[n] = IF n = wmail[s] THEN holdersBar[n] \ {s} ELSE holdersBar[n]
    BY <1>1, <1>9 DEF Finish, holdersBar, JobTypeOK
  <2>3. holdersBar' = [holdersBar EXCEPT ![wmail[s]] = @ \ {s}]
    BY <2>1, <2>2 DEF holdersBar
  <2>4. UNCHANGED <<stageBar, askedBar>>
    BY <1>9 DEF Finish, stageBar, askedBar
  <2>5. QED
    BY <2>1, <2>3, <2>4 DEF Life!Release
<1>10. ASSUME Crash
       PROVE  Life!WorkerLost
  <2>1. holdersBar' = [m \in Mails |-> {}]
    BY <1>10 DEF Crash, holdersBar
  <2>2. QED
    BY <1>10, <2>1 DEF Crash, stageBar, askedBar, Life!WorkerLost
<1>11. ASSUME Restart
       PROVE  UNCHANGED Life!lifeVars
  <2>1. stageBar' = stageBar
    BY <1>1, <1>11, SameStages DEF Restart, RowTypeOK, StageOf, Settled
  <2>2. QED
    BY <1>11, <2>1 DEF Restart, holdersBar, askedBar
<1>12. ASSUME NEW m \in Mails, Discover(m)
       PROVE  Life!Discover(m)
  <2>1. /\ stageBar[m] = "absent"
        /\ stageBar' = [stageBar EXCEPT ![m] = "pending"]
    BY <1>1, <1>12 DEF Discover, RowTypeOK, stageBar, StageOf, Settled
  <2>2. QED
    BY <1>12, <2>1 DEF Discover, Life!Discover, holdersBar, askedBar
<1>13. ASSUME NEW m \in Mails, RetryRequest(m)
       PROVE  Life!Ask(m)
  <2>1. stageBar[m] # "absent"
    BY <1>1, <1>13 DEF RetryRequest, stageBar, StageOf
  <2>2. ~ askedBar[m] /\ askedBar' = [askedBar EXCEPT ![m] = TRUE]
    BY <1>1, <1>13 DEF RetryRequest, askedBar, EnvTypeOK
  <2>3. UNCHANGED <<stageBar, holdersBar>>
    BY <1>13 DEF RetryRequest, stageBar, holdersBar
  <2>4. QED
    BY <2>1, <2>2, <2>3 DEF Life!Ask
<1>14. ASSUME NEW m \in Mails, RetryCommit(m)
       PROVE  Life!Reopen(m) \/ Life!DropRequest(m)
  <2>1. askedBar[m] /\ askedBar' = [askedBar EXCEPT ![m] = FALSE]
    BY <1>1, <1>14 DEF RetryCommit, askedBar, EnvTypeOK
  <2>2. holdersBar' = holdersBar
    BY <1>14 DEF RetryCommit, holdersBar
  <2>3. CASE asked[m] = "keep"
    BY <1>14, <2>1, <2>2, <2>3 DEF RetryCommit, Life!DropRequest, stageBar
  <2>4. CASE asked[m] # "keep"
    <3>1. asked[m] \in {"queued", "processing"} /\ status' = [status EXCEPT ![m] = asked[m]]
      BY <1>1, <1>14, <2>4 DEF RetryCommit, EnvTypeOK
    <3>2. stageBar' = [stageBar EXCEPT ![m] = "pending"]
      BY <1>1, <3>1 DEF stageBar, StageOf, Settled, RowTypeOK
    <3>3. QED
      BY <2>1, <2>2, <3>2 DEF Life!Reopen
  <2>5. QED
    BY <2>3, <2>4
<1>15. ASSUME NEW m \in Mails, RetryAbort(m)
       PROVE  Life!DropRequest(m)
  <2>1. askedBar[m] /\ askedBar' = [askedBar EXCEPT ![m] = FALSE]
    BY <1>1, <1>15 DEF RetryAbort, askedBar, EnvTypeOK
  <2>2. QED
    BY <1>15, <2>1 DEF RetryAbort, Life!DropRequest, stageBar, holdersBar
<1>16. QED
  <2>1. CASE \E r \in Runs : RunStep(r)
    BY <2>1, <1>2, <1>3, <1>4
    DEF RunStep, Begin, Load, ScheduleNow, Schedule, LockRow, PassOver, Send, SendDuplicate,
        SendFails, Sending,
        RollBack
  <2>2. CASE \E s \in Slots : JobStep(s)
    BY <2>2, <1>5, <1>6, <1>7, <1>8, <1>9 DEF JobStep, Life!Next
  <2>3. CASE \E m \in Mails : MailStep(m)
    BY <2>3, <1>2, <1>12, <1>13, <1>14, <1>15
    DEF MailStep, FailOrphan, ExpireResult, Age, Life!Next
  <2>4. CASE (\E u \in Users : Recover(u)) \/ Crash \/ Restart \/ HealthCheck
    BY <2>4, <1>2, <1>3, <1>10, <1>11 DEF Recover, HealthCheck, Life!Next
  <2>5. CASE UNCHANGED vars
    BY <2>5, <1>2
  <2>6. QED
    BY <2>1, <2>2, <2>3, <2>4, <2>5 DEF Next

\* With all its runs, locks, keys, crashes and retries, the queue takes only
\* steps of the life cycle of a mail.
THEOREM LifecycleImplemented == Spec => ImplementsLifecycle
<1>1. Consistency /\ [Next]_vars => [Life!Next]_(Life!lifeVars)
  BY LifeStep
<1>2. QED
  BY <1>1, LifeInit, ConsistencyInvariant, PTL DEF Spec, ImplementsLifecycle, Life!Spec
=============================================================================
