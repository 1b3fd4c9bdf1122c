---------------------------- MODULE MCMailQueue ----------------------------
(* Small instances of MailQueue for TLC. *)
EXTENDS MailQueue, TLC

CONSTANTS m1, m2, m3, m4, u1, u2

\* Two mails of one user, in one folder.
OneUser == [m \in Mails |-> u1]
\* m1 and m3 belong to u1, the others to u2.
TwoUsers == [m \in Mails |-> IF m \in {m1, m3} THEN u1 ELSE u2]
\* The three oldest mails belong to u1.
Crowd == [m \in Mails |-> IF m = m4 THEN u2 ELSE u1]

SameFolder == [m \in Mails |-> "INBOX"]
OwnFolder == [m \in Mails |-> m]

Age4 == m1 :> 1 @@ m2 :> 2 @@ m3 :> 3 @@ m4 :> 4
Oldest == [m \in Mails |-> Age4[m]]

One == [u \in Users |-> 1]
Two == [u \in Users |-> 2]

\* Runs of the worker, runs of the API and slots are interchangeable.
Interchange ==
    Permutations(Runs \ ApiRuns) \cup Permutations(ApiRuns) \cup Permutations(Slots)
=============================================================================
