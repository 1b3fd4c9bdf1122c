----------------------------- MODULE PauseControl -----------------------------
(***************************************************************************)
(* When a mail account is paused and when it comes back.  Jobs that cannot  *)
(* reach the mail server pause it, polls count errors until the circuit     *)
(* breaker does, the user pauses and unpauses it, and a probe that runs     *)
(* every minute (workers/health.py) brings back what errors paused.  All of *)
(* them read the account first and write it after a call of seconds, and    *)
(* what they write are the columns that differ from what they read.         *)
(***************************************************************************)
EXTENDS Naturals

CONSTANTS
    Probes,     \* runs of recover_paused_providers that may overlap
    Works,      \* jobs and polls of the account under way at a time
    Requests,   \* open pause, unpause and reset requests
    MaxErrors   \* max_errors of the circuit breaker

ASSUME PauseControlAssumption == MaxErrors \in Nat \ {0}

VARIABLES
    account,    \* the committed row
    reachable,  \* the mail server answers
    probes,     \* probe -> where it is, and the row it has read
    works,      \* work -> where it is
    requests,   \* request -> what it wants, and the row it has read
    wish,       \* history: the last request that was committed
    crossed     \* history: that request overlapped a probe or another write

pauseVars == <<account, reachable, probes, works, requests, wish, crossed>>

Fresh == [paused |-> FALSE, manual |-> FALSE, reason |-> "none", since |-> "never", errors |-> 0]

PauseInit ==
    /\ account = Fresh /\ reachable = TRUE
    /\ probes = [p \in Probes |-> [at |-> "idle", saw |-> Fresh]]
    /\ works = [w \in Works |-> "idle"]
    /\ requests = [q \in Requests |-> [wants |-> "none", saw |-> Fresh]]
    /\ wish = "run" /\ crossed = FALSE

-----------------------------------------------------------------------------
\* The session writes the columns that were changed; a time of today always is.
Changed(saw, wanted, c) == wanted[c] # saw[c] \/ (c = "since" /\ wanted.since = "now")

Saved(saw, wanted) ==
    [c \in DOMAIN account |-> IF Changed(saw, wanted, c) THEN wanted[c] ELSE account[c]]

Counted(errors) == IF errors < MaxErrors THEN errors + 1 ELSE MaxErrors     \* only compared with it

(* The world: the server goes and comes back, a cooldown elapses.           *)
Outage ==
    /\ reachable' = ~reachable
    /\ UNCHANGED <<account, probes, works, requests, wish, crossed>>

CoolDown ==
    /\ account.since = "now"
    /\ account' = [account EXCEPT !.since = "long ago"]
    /\ UNCHANGED <<reachable, probes, works, requests, wish, crossed>>

-----------------------------------------------------------------------------
(* Jobs and polls.  A job does not ask whether its account is paused, a     *)
(* poll does, before it connects.                                           *)
Begin(w) ==
    /\ works[w] = "idle"
    /\ \/ works' = [works EXCEPT ![w] = "job"]
       \/ ~account.paused /\ works' = [works EXCEPT ![w] = "poll"]
    /\ UNCHANGED <<account, reachable, probes, requests, wish, crossed>>

Connect(w) ==
    /\ works[w] \in {"job", "poll"}
    /\ works' = [works EXCEPT ![w] = IF reachable THEN (IF @ = "job" THEN "idle" ELSE "synced")
                                     ELSE (IF @ = "job" THEN "job failed" ELSE "poll failed")]
    /\ UNCHANGED <<account, reachable, probes, requests, wish, crossed>>

PauseAccount(w) ==      \* _pause_account; its failure is logged and forgotten
    /\ works[w] = "job failed"
    /\ \/ account' = [account EXCEPT !.paused = TRUE, !.reason = "error", !.since = "now",
                                     !.errors = Counted(@)]
       \/ UNCHANGED account
    /\ works' = [works EXCEPT ![w] = "idle"]
    /\ UNCHANGED <<reachable, probes, requests, wish, crossed>>

\* Mutant: a success takes one error back instead of all of them.
BugUpdateSyncStatus(w) ==
    /\ works[w] \in {"synced", "poll failed"}
    /\ account' = [account EXCEPT !.errors = IF works[w] = "synced" THEN @ - 1 ELSE Counted(@)]
    /\ works' = [works EXCEPT ![w] = IF @ = "synced" THEN "idle" ELSE "counted"]
    /\ UNCHANGED <<reachable, probes, requests, wish, crossed>>

UpdateSyncStatus(w) ==  \* update_account_sync_status
    /\ \/ /\ works[w] = "synced"
          /\ account' = [account EXCEPT !.errors = 0]
          /\ works' = [works EXCEPT ![w] = "idle"]
       \/ /\ works[w] = "poll failed"
          /\ account' = [account EXCEPT !.errors = Counted(@)]
          /\ works' = [works EXCEPT ![w] = "counted"]
    /\ UNCHANGED <<reachable, probes, requests, wish, crossed>>

CheckCircuitBreaker(w) ==   \* reads, and writes in a second statement
    /\ \/ /\ works[w] = "counted"
          /\ works' = [works EXCEPT ![w] = IF account.errors >= MaxErrors /\ ~account.paused
                                           THEN "tripping" ELSE "idle"]
          /\ UNCHANGED account
       \/ /\ works[w] = "tripping"
          /\ account' = [account EXCEPT !.paused = TRUE, !.reason = "circuit breaker", !.since = "now"]
          /\ works' = [works EXCEPT ![w] = "idle"]
    /\ UNCHANGED <<reachable, probes, requests, wish, crossed>>

-----------------------------------------------------------------------------
(* The probe of recover_paused_providers.  One that dies before its commit  *)
(* has written nothing and is left out: the next minute brings another.     *)
\* Mutant: the filter on manually_paused is forgotten.
BugSelect(p) ==
    /\ probes[p].at = "idle"
    /\ account.paused /\ account.reason \notin {"circuit breaker", "none"} /\ account.since # "now"
    /\ probes' = [probes EXCEPT ![p] = [at |-> "probing", saw |-> account]]
    /\ UNCHANGED <<account, reachable, works, requests, wish, crossed>>

Select(p) ==
    /\ probes[p].at = "idle"
    /\ account.paused /\ ~account.manual
    /\ account.reason \notin {"circuit breaker", "none"}      \* in SQL a NULL is not different
    /\ account.since # "now"
    /\ probes' = [probes EXCEPT ![p] = [at |-> "probing", saw |-> account]]
    /\ UNCHANGED <<account, reachable, works, requests, wish, crossed>>

Probe(p) ==
    /\ probes[p].at = "probing"
    /\ probes' = [probes EXCEPT ![p] = IF reachable THEN [@ EXCEPT !.at = "recovered"]
                                       ELSE [at |-> "unreachable", saw |-> Fresh]]
    /\ UNCHANGED <<account, reachable, works, requests, wish, crossed>>

\* Mutant: the error counter is reset, the pause is not.
BugRecovered(saw) == Saved(saw, [saw EXCEPT !.errors = 0])

Recovered(saw) == Saved(saw, [Fresh EXCEPT !.manual = saw.manual])

CommitProbe(p) ==
    /\ \/ /\ probes[p].at = "recovered"
          /\ account' = Recovered(probes[p].saw)
       \/ /\ probes[p].at = "unreachable"
          /\ account' = [account EXCEPT !.since = "now"]
    /\ probes' = [probes EXCEPT ![p] = [at |-> "idle", saw |-> Fresh]]
    /\ UNCHANGED <<reachable, works, requests, wish, crossed>>

-----------------------------------------------------------------------------
(* The user (update_pause_state, reset_account_health).                     *)
Ask(q) ==
    /\ requests[q].wants = "none"
    /\ \E wants \in {"pause", "run"} : requests' = [requests EXCEPT ![q] = [wants |-> wants, saw |-> account]]
    /\ UNCHANGED <<account, reachable, probes, works, wish, crossed>>

Wanted(q) ==
    IF requests[q].wants = "run" THEN Fresh
    ELSE [requests[q].saw EXCEPT !.paused = TRUE, !.manual = TRUE, !.reason = "user", !.since = "now"]

CommitRequest(q) ==
    LET saw == requests[q].saw IN
    /\ requests[q].wants # "none"
    /\ account' = Saved(saw, Wanted(q))
    /\ wish' = requests[q].wants
    /\ crossed' = (wish' = "pause" /\ \/ \E p \in Probes : probes[p].at # "idle"
                                      \/ saw.paused # account.paused \/ saw.manual # account.manual)
    /\ requests' = [requests EXCEPT ![q] = [wants |-> "none", saw |-> Fresh]]
    /\ UNCHANGED <<reachable, probes, works>>

AbortRequest(q) ==
    /\ requests[q].wants # "none"
    /\ requests' = [requests EXCEPT ![q] = [wants |-> "none", saw |-> Fresh]]
    /\ UNCHANGED <<account, reachable, probes, works, wish, crossed>>

PauseNext ==
    \/ Outage \/ CoolDown
    \/ \E w \in Works : \/ Begin(w) \/ Connect(w) \/ PauseAccount(w)
                        \/ UpdateSyncStatus(w) \/ CheckCircuitBreaker(w)
    \/ \E p \in Probes : Select(p) \/ Probe(p) \/ CommitProbe(p)
    \/ \E q \in Requests : Ask(q) \/ CommitRequest(q) \/ AbortRequest(q)

PauseSpec == PauseInit /\ [][PauseNext]_pauseVars

(* A cooldown elapses, and the cron job of the probe runs every minute and   *)
(* ends.  Of the worker's jobs nothing is assumed.                          *)
PauseFairness ==
    /\ WF_pauseVars(CoolDown)
    /\ WF_pauseVars(\E p \in Probes : Select(p) \/ Probe(p) \/ CommitProbe(p))

-----------------------------------------------------------------------------
AccountRows == [paused : BOOLEAN, manual : BOOLEAN, reason : {"none", "error", "circuit breaker", "user"},
         since : {"never", "now", "long ago"}, errors : 0..MaxErrors]

(* Every row, the ones a probe or a request has read included, is one the   *)
(* columns can hold, and the breaker's counter stays in its range.          *)
PauseTypeOK ==
    /\ account \in AccountRows /\ reachable \in BOOLEAN /\ crossed \in BOOLEAN
    /\ probes \in [Probes -> [at : {"idle", "probing", "recovered", "unreachable"}, saw : AccountRows]]
    /\ works \in [Works -> {"idle", "job", "poll", "synced", "job failed", "poll failed",
                            "counted", "tripping"}]
    /\ requests \in [Requests -> [wants : {"none", "pause", "run"}, saw : AccountRows]]
    /\ wish \in {"pause", "run"}

(* A user's pause that overlapped no probe and no other change of the pause *)
(* holds until the user ends it, whatever jobs, polls and probes do: it is  *)
(* "skipped by auto-recovery so only the user can unpause"                  *)
(* (models/mail.py:74).  One that did overlap a probe may be ended by it.   *)
ManualPauseHolds == wish = "pause" => crossed \/ (account.paused /\ account.manual)

(* An account that an error paused does not stay so with a server that      *)
(* answers for good (_recover_paused_accounts): it is used again, or else   *)
(* the pause has become the user's; the breaker's, whose pauses no probe    *)
(* ends (health.py:360); or one without a reason, left by a resumption that *)
(* read the row before the pause, which the probe's filter does not see.    *)
PausedByError == account.paused /\ ~account.manual /\ account.reason = "error"
AutomaticPausesEnd == []<>~(reachable /\ PausedByError)
=============================================================================
