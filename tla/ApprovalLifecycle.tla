------------------------- MODULE ApprovalLifecycle -------------------------
(***************************************************************************)
(* What the approvals promise the user, without row locks, sessions, ARQ   *)
(* keys or tries: a request decides a row it found open in one step, a row *)
(* that was deleted stays deleted, and an action is begun only while its   *)
(* approval is committed, in the version the row has then, and in one      *)
(* version at a time.                                                      *)
(***************************************************************************)
CONSTANTS Approvals,  \* the rows of approvals
          Requests,   \* HTTP requests that may be open together
          Executors,  \* who may carry actions out
          None        \* no approval

VARIABLES decision,   \* decision[a]: what the committed row says
          versions,   \* approvals that have a version of the user's
          expired,    \* approvals that are too old to be decided
          intent,     \* intent[q]: what an open request is admitted to do
          working,    \* working[a]: who is carrying out which version
          done        \* done[a]: the version carried out last

\* A request that is not there.
NoIntent == [op |-> "none", on |-> None]

lifeVars == <<decision, versions, expired, intent, working, done>>

Init ==
    /\ decision = [a \in Approvals |-> "absent"]
    /\ versions = {} /\ expired = {}
    /\ intent = [q \in Requests |-> NoIntent]
    /\ working = [a \in Approvals |-> {}]
    /\ done = [a \in Approvals |-> "no"]

Create(a) ==
    /\ decision[a] = "absent"
    /\ decision' = [decision EXCEPT ![a] = "pending"]
    /\ UNCHANGED <<versions, expired, intent, working, done>>

Expire(a) ==
    /\ decision[a] = "pending"
    /\ expired' = expired \cup {a}
    /\ UNCHANGED <<decision, versions, intent, working, done>>

\* The user may decide what is open and in time, and delete what is decided.
Ask(q, op, a) ==
    /\ intent[q] = NoIntent
    /\ \/ op = "delete" /\ decision[a] \in {"approved", "rejected"}
       \/ op \in {"approve", "reject", "edit"} /\ decision[a] = "pending" /\ a \notin expired
    /\ intent' = [intent EXCEPT ![q] = [op |-> op, on |-> a]]
    /\ UNCHANGED <<decision, versions, expired, working, done>>

\* The last of several decides; a deletion is the end.
Decide(q) ==
    LET op == intent[q].op
        a == intent[q].on
    IN
    /\ intent[q] # NoIntent
    /\ decision[a] = "deleted" => op = "delete"
    /\ decision' = [decision EXCEPT ![a] =
                      CASE op = "approve" -> "approved"
                        [] op = "reject" -> "rejected"
                        [] op = "delete" -> "deleted"
                        [] OTHER -> @]
    /\ versions' = IF op = "edit" THEN versions \cup {a} ELSE versions
    /\ intent' = [intent EXCEPT ![q] = NoIntent]
    /\ UNCHANGED <<expired, working, done>>

\* A request that fails, or comes too late, changes nothing.
Drop(q) ==
    /\ intent[q] # NoIntent
    /\ intent' = [intent EXCEPT ![q] = NoIntent]
    /\ UNCHANGED <<decision, versions, expired, working, done>>

\* Nobody else may be at it.
Begin(x, a) ==
    /\ decision[a] = "approved"
    /\ working[a] = {}
    /\ working' = [working EXCEPT ![a] =
                     {<<x, IF a \in versions THEN "edited" ELSE "proposed">>}]
    /\ UNCHANGED <<decision, versions, expired, intent, done>>

\* On the mail server, or in the database; the user's version is never replaced
\* by the proposed one.
CarryOut(x, a) ==
    /\ \E v \in {"proposed", "edited"} :
        /\ <<x, v>> \in working[a]
        /\ done[a] = "edited" => v = "edited"
        /\ done' = [done EXCEPT ![a] = v]
    /\ UNCHANGED <<decision, versions, expired, intent, working>>

End(a) ==
    /\ working' = [working EXCEPT ![a] = {}]
    /\ UNCHANGED <<decision, versions, expired, intent, done>>

WorkerLost ==
    /\ working' = [a \in Approvals |-> {}]
    /\ UNCHANGED <<decision, versions, expired, intent, done>>

Next ==
    \/ \E q \in Requests :
        \/ \E op \in {"approve", "reject", "edit", "delete"}, a \in Approvals : Ask(q, op, a)
        \/ Decide(q) \/ Drop(q)
    \/ \E a \in Approvals :
        \/ Create(a) \/ Expire(a) \/ End(a)
        \/ \E x \in Executors : Begin(x, a) \/ CarryOut(x, a)
    \/ WorkerLost

Spec == Init /\ [][Next]_lifeVars
=============================================================================
