--------------------------- MODULE MailLifecycle ---------------------------
(***************************************************************************)
(* What the processing queue promises about one tracked mail, without its  *)
(* scheduler, its job queue or its row locks: a mail is worked on by at    *)
(* most one process_mail job at a time, and once it is settled only the    *)
(* user or the one job that holds it can open it again.                    *)
(***************************************************************************)
EXTENDS Naturals, FiniteSets

CONSTANTS Mails,   \* the rows of tracked_emails
          Slots    \* the job slots of the worker

VARIABLES stage,    \* stage[m]: "absent", "pending" or "settled"
          holders,  \* holders[m]: the slots whose job works on m
          asked     \* asked[m]: a retry request of the user is open for m

lifeVars == <<stage, holders, asked>>

Stages == {"absent", "pending", "settled"}

Init ==
    /\ stage = [m \in Mails |-> "absent"]
    /\ holders = [m \in Mails |-> {}]
    /\ asked = [m \in Mails |-> FALSE]

\* The poller or the IDLE monitor inserts the row.
Discover(m) ==
    /\ stage[m] = "absent"
    /\ stage' = [stage EXCEPT ![m] = "pending"]
    /\ UNCHANGED <<holders, asked>>

\* A job claims the mail; nobody else may hold it.
Take(s, m) ==
    /\ holders[m] = {}
    /\ holders' = [holders EXCEPT ![m] = {s}]
    /\ UNCHANGED <<stage, asked>>

\* The holder writes its verdict: done with the mail, or back to the queue.
Judge(s, m) ==
    /\ s \in holders[m]
    /\ stage[m] # "absent"
    /\ \E v \in {"pending", "settled"} : stage' = [stage EXCEPT ![m] = v]
    /\ UNCHANGED <<holders, asked>>

\* A job that finds its folder gone settles pending mails it does not hold.
SettleFolder(M) ==
    /\ \A m \in M : stage[m] = "pending"
    /\ \E s \in Slots, m \in Mails : s \in holders[m]
    /\ stage' = [m \in Mails |-> IF m \in M THEN "settled" ELSE stage[m]]
    /\ UNCHANGED <<holders, asked>>

Release(s, m) ==
    /\ s \in holders[m]
    /\ holders' = [holders EXCEPT ![m] = @ \ {s}]
    /\ UNCHANGED <<stage, asked>>

\* The worker dies and every job with it.
WorkerLost ==
    /\ holders' = [m \in Mails |-> {}]
    /\ UNCHANGED <<stage, asked>>

Ask(m) ==
    /\ stage[m] # "absent"
    /\ ~ asked[m]
    /\ asked' = [asked EXCEPT ![m] = TRUE]
    /\ UNCHANGED <<stage, holders>>

\* The request commits: the mail is pending again, or was before.
Reopen(m) ==
    /\ asked[m]
    /\ asked' = [asked EXCEPT ![m] = FALSE]
    /\ stage' = [stage EXCEPT ![m] = "pending"]
    /\ UNCHANGED holders

\* The request fails, or changes nothing but the retry counter.
DropRequest(m) ==
    /\ asked[m]
    /\ asked' = [asked EXCEPT ![m] = FALSE]
    /\ UNCHANGED <<stage, holders>>

Next ==
    \/ \E M \in SUBSET Mails : SettleFolder(M)
    \/ \E m \in Mails : Discover(m) \/ Ask(m) \/ Reopen(m) \/ DropRequest(m)
    \/ \E s \in Slots, m \in Mails : Take(s, m) \/ Judge(s, m) \/ Release(s, m)
    \/ WorkerLost

Spec == Init /\ [][Next]_lifeVars
=============================================================================
