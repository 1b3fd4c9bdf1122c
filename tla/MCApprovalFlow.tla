--------------------------- MODULE MCApprovalFlow ---------------------------
(* Small instances of ApprovalFlow for TLC. *)
EXTENDS ApprovalFlow, TLC

CONSTANTS spam, summary, folder, mail

OneMail == [a \in Approvals |-> mail]

\* Spam goes to Junk, a smart folder to Work; a summary moves nothing.
Dest == [a \in {spam, summary, folder} |->
            CASE a = spam -> "Junk" [] a = folder -> "Work" [] OTHER -> None]

\* Requests and slots are interchangeable.
Interchange == Permutations(Requests) \cup Permutations(Executors)
=============================================================================
