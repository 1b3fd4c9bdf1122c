-------------------------- MODULE QueryCacheProofs --------------------------
(***************************************************************************)
(* What the query cache promises for any application that keeps Coherence:  *)
(* any pages, queries, handlers, any number of mutations at a time and any  *)
(* bounds.                                                                  *)
(***************************************************************************)
EXTENDS QueryCache, TLAPS

(* The query followed is one of the application's, and its calls are what   *)
(* Coherence says of their handlers: one that cancels fetches is not        *)
(* forgotten before it has refreshed the query.                             *)
CallsCohere ==
    /\ query \in Queries
    /\ \A c \in Slots :
          /\ calls[c].told \/ calls[c].cancels => calls[c].refreshes /\ calls[c].whole
          /\ calls[c].cancels => ~calls[c].bound /\ calls[c].state \in {"sent", "done"}

(* No change is announced that the server does not have.                    *)
AnnouncedIsCommitted ==
    /\ announced <= version
    /\ \A c \in Slots : calls[c].at <= version

(* No answer on its way is older than what has been announced.              *)
AnswersAreNew == fetch = "answered" => answer >= announced

(* Data older than what has been announced are known to be stale, or will   *)
(* be declared stale when a change under way ends.                          *)
OldDataAreStale == Known /\ seen < announced => stale \/ Settling

(* A change answered before its commit is still to be fetched.              *)
Unserved ==
    /\ fetch # "answered"
    /\ Known => stale \/ Settling
    /\ ~(Active /\ Known /\ fetch = "idle" /\ ~failed /\ ~Settling)
LateAreUnserved == \A c \in Slots : calls[c].state = "late" => Unserved

Fresh == AnswersAreNew /\ OldDataAreStale /\ LateAreUnserved /\ AnnouncedChangesShow

IInv == TypeOK /\ CallsCohere /\ AnnouncedIsCommitted /\ Fresh

(* A call has its type if its handler has.                                  *)
LEMMA CallsAreTyped ==
    ASSUME TypeOK, NEW h \in HandlerType, NEW mine \in BOOLEAN
    PROVE  /\ Call(h, mine) \in CallType
           /\ Call(h, mine).at = 0 /\ Call(h, mine).state = "sent"
           /\ Call(h, mine).bound = (h.via = "call")
           /\ Call(h, mine).told = h.told /\ Call(h, mine).refreshes = h.refreshes
           /\ Call(h, mine).whole = h.whole /\ Call(h, mine).cancels = (h.cancels /\ mine)
PROOF
    <1>1. 0 \in Versions
        BY Parameters DEF Versions
    <1>2. h.op \in {None} \cup STRING
        BY DEF HandlerType
    <1>3. (h.via = "call") \in BOOLEAN /\ (h.writes /\ mine) \in BOOLEAN /\ (h.cancels /\ mine) \in BOOLEAN
          /\ (h.writes /\ mine /\ guess) \in BOOLEAN
        OBVIOUS
    <1>4. /\ h.touches \in BOOLEAN /\ h.refreshes \in BOOLEAN
          /\ h.whole \in BOOLEAN /\ h.told \in BOOLEAN
        BY DEF HandlerType
    <1>5. (IF h.writes /\ mine THEN seen ELSE None) \in Versions \cup {None}
        BY DEF TypeOK
    <1>6. Call(h, mine) \in CallType
        BY <1>1, <1>2, <1>3, <1>4, <1>5 DEF Call, CallType
    <1>7. /\ Call(h, mine).at = 0 /\ Call(h, mine).state = "sent"
          /\ Call(h, mine).bound = (h.via = "call")
          /\ Call(h, mine).told = h.told /\ Call(h, mine).refreshes = h.refreshes
          /\ Call(h, mine).whole = h.whole /\ Call(h, mine).cancels = (h.cancels /\ mine)
        BY DEF Call
    <1> QED BY <1>6, <1>7

(* So has a free slot, one whose change was answered early, and one that    *)
(* has sent its first request.                                              *)
LEMMA OthersAreTyped ==
    /\ Free \in CallType /\ Free.state = "free" /\ Free.at = 0
    /\ ~Free.told /\ ~Free.cancels /\ ~Free.bound
    /\ [Free EXCEPT !.state = "late"] \in CallType
    /\ \A op \in STRING, w \in BOOLEAN :
          [Free EXCEPT !.state = "saving", !.op = op, !.bound = TRUE, !.writes = w] \in CallType
PROOF
    <1>1. 0 \in Versions /\ FALSE \in BOOLEAN /\ TRUE \in BOOLEAN
        BY Parameters DEF Versions
    <1>2. Free \in CallType
        BY <1>1 DEF Free, CallType
    <1>3. [Free EXCEPT !.state = "late"] \in CallType
        BY <1>1 DEF Free, CallType
    <1>4. ASSUME NEW op \in STRING, NEW w \in BOOLEAN
          PROVE  [Free EXCEPT !.state = "saving", !.op = op, !.bound = TRUE, !.writes = w] \in CallType
        BY <1>1 DEF Free, CallType
    <1>5. /\ Free.state = "free" /\ Free.at = 0
          /\ ~Free.told /\ ~Free.cancels /\ ~Free.bound
        BY DEF Free
    <1> QED BY <1>2, <1>3, <1>4, <1>5

(* The invariant holds at first.                                            *)
LEMMA InitInv == Init => IInv
PROOF
    <1> SUFFICES ASSUME Init PROVE IInv
        OBVIOUS
    <1>1. query \in QueryType /\ 0 \in Versions /\ 0 \in 0 .. MaxFaults
        BY Parameters DEF Init, Versions
    <1>2. page \in Places
        BY Parameters DEF Init, Places
    <1>3. calls \in [Slots -> CallType]
        BY OthersAreTyped DEF Init
    <1>4. \A c \in Slots : calls[c] = Free
        BY DEF Init
    <1>5. TypeOK
        BY <1>1, <1>2, <1>3 DEF Init, TypeOK
    <1>6. CallsCohere
        BY <1>4, OthersAreTyped DEF Init, CallsCohere
    <1>7. AnnouncedIsCommitted
        <2>1. \A c \in Slots : calls[c].at = 0
            BY <1>4, OthersAreTyped
        <2> QED BY <2>1 DEF Init, AnnouncedIsCommitted
    <1>8. LateAreUnserved
        BY <1>4, OthersAreTyped DEF LateAreUnserved
    <1>9. AnswersAreNew /\ OldDataAreStale /\ AnnouncedChangesShow
        BY DEF Init, AnswersAreNew, OldDataAreStale, AnnouncedChangesShow, Known
    <1> QED BY <1>5, <1>6, <1>7, <1>8, <1>9 DEF IInv, Fresh

(* Every action keeps the types.                                             *)
LEMMA TypeStep == TypeOK /\ CallsCohere /\ [Next]_vars => TypeOK'
PROOF
    <1> SUFFICES ASSUME TypeOK /\ CallsCohere, [Next]_vars PROVE TypeOK'
        OBVIOUS
    <1>a. /\ MaxChanges \in Nat /\ MaxFaults \in Nat /\ None \notin Nat
          /\ 0 \in Versions /\ query \in QueryType
        BY Parameters DEF Versions, CallsCohere
    <1>b. Free \in CallType /\ calls \in [Slots -> CallType]
        BY OthersAreTyped DEF TypeOK
    <1>c. ASSUME NEW op PROVE Taken(op) \in [Slots -> CallType]
        BY <1>b DEF Taken
    <1>d. ASSUME NEW cs \in [Slots -> CallType] PROVE Missed(cs) \in [Slots -> CallType]
        BY <1>b DEF Missed
    <1>e. ASSUME NEW c \in Slots, NEW h \in HandlerType, NEW mine \in BOOLEAN, Send(c, h, mine) PROVE TypeOK'
        <2>1. [Taken(h.op) EXCEPT ![c] = Call(h, mine)] \in [Slots -> CallType]
            BY <1>c, CallsAreTyped
        <2>2. Missed([Taken(h.op) EXCEPT ![c] = Call(h, mine)]) \in [Slots -> CallType]
            BY <2>1, <1>d
        <2>3. calls' \in [Slots -> CallType]
            BY <2>1, <2>2, <1>e DEF Send, Overwrite
        <2>4. Known => Older(announced, seen) \in Versions
            BY DEF TypeOK, Older, Known
        <2>5. announced' \in Versions
            BY <2>4, <1>e DEF Send, Overwrite, TypeOK
        <2>6. guess' \in BOOLEAN /\ stale' \in BOOLEAN /\ failed' \in BOOLEAN
            BY <1>e DEF Send, Overwrite, TypeOK
        <2>7. fetch' \in {"idle", "sent", "answered"} /\ answer' \in Versions
            BY <1>a, <1>e DEF Send, TypeOK
        <2> QED BY <2>3, <2>5, <2>6, <2>7, <1>e DEF TypeOK, Places, Send
    <1>1. ASSUME NEW p \in Places, Open(p) PROVE TypeOK'
        <2>1. calls' \in [Slots -> CallType]
            BY <1>b, <1>1 DEF Open, Unmounted
        <2>2. page' \in Places' /\ here' \in BOOLEAN
            BY <1>1 DEF Open, Places
        <2> QED BY <1>a, <2>1, <2>2, <1>1 DEF TypeOK, Open, Observe
    <1>2. ASSUME Choose PROVE TypeOK'
        BY <1>a, <1>2 DEF TypeOK, Places, Choose, Observe
    <1>3. ASSUME Age PROVE TypeOK'
        BY <1>a, <1>3 DEF TypeOK, Places, Age
    <1>4. ASSUME Collect PROVE TypeOK'
        BY <1>a, <1>4 DEF TypeOK, Places, Collect
    <1>5. ASSUME Tick \/ Retry \/ Reconnect PROVE TypeOK'
        BY <1>a, <1>5 DEF TypeOK, Places, Tick, Retry, Reconnect, Request
    <1>6. ASSUME Serve PROVE TypeOK'
        <2>1. calls' \in [Slots -> CallType]
            BY <1>b, <1>d, <1>6 DEF Serve
        <2> QED BY <1>a, <2>1, <1>6 DEF TypeOK, Places, Serve
    <1>7. ASSUME Land PROVE TypeOK'
        BY <1>a, <1>7 DEF TypeOK, Places, Land
    <1>8. ASSUME FetchFails PROVE TypeOK'
        BY <1>a, <1>8 DEF TypeOK, Places, FetchFails, Known
    <1>9. ASSUME NEW c \in Slots, NEW h \in query.handlers, Start(c, h) \/ Saved(c, h) PROVE TypeOK'
        <2>1. h \in HandlerType /\ here \in BOOLEAN /\ calls[c].writes \in BOOLEAN
            BY <1>a, <1>b DEF QueryType, TypeOK, CallType
        <2>2. Send(c, h, here) \/ Send(c, h, calls[c].writes)
            BY <1>9 DEF Start, Saved
        <2> QED BY <1>e, <2>1, <2>2
    <1>10. ASSUME NEW c \in Slots, NEW h \in query.handlers, Save(c, h) PROVE TypeOK'
        <2>1. h.saves \in STRING /\ (h.writes /\ here) \in BOOLEAN
            BY <1>a, <1>10 DEF Save, QueryType, HandlerType
        <2>2. calls' \in [Slots -> CallType]
            BY <1>c, <1>10, <2>1, OthersAreTyped DEF Save
        <2> QED BY <1>10, <2>2 DEF TypeOK, Save, Places, cache
    <1>11. ASSUME NEW c \in Slots, Commit(c) PROVE TypeOK'
        <2>1. version' \in Versions
            BY <1>a, <1>11 DEF Commit, TypeOK, Versions
        <2>2. [calls[c] EXCEPT !.state = "done", !.at = version'] \in CallType
            BY <2>1, <1>b DEF CallType
        <2>3. calls' = [calls EXCEPT ![c] = [calls[c] EXCEPT !.state = "done", !.at = version']]
            BY <1>11, <1>b DEF Commit, CallType
        <2>4. calls' \in [Slots -> CallType]
            BY <2>2, <2>3, <1>b
        <2> QED BY <1>11, <2>1, <2>4 DEF TypeOK, Commit, Places, cache
    <1>12. ASSUME NEW c \in Slots, Fail(c) PROVE TypeOK'
        <2>1. [calls EXCEPT ![c] = Free] \in [Slots -> CallType]
            BY <1>b
        <2>2. Missed([calls EXCEPT ![c] = Free]) \in [Slots -> CallType]
            BY <2>1, <1>d
        <2>3. calls' \in [Slots -> CallType]
            BY <2>1, <2>2, <1>12 DEF Fail, Overwrite
        <2>4. calls[c].snap \in Versions \cup {None} /\ calls[c].was \in BOOLEAN
            BY <1>b DEF CallType
        <2>5. seen' \in Versions \cup {None} /\ guess' \in BOOLEAN /\ failed' \in BOOLEAN
            BY <2>4, <1>12 DEF Fail, PutBack, Overwrite, TypeOK, cache
        <2>6. stale' \in BOOLEAN
            BY <1>12 DEF Fail, Invalidate, Overwrite, TypeOK, cache
        <2>7. fetch' \in {"idle", "sent", "answered"} /\ answer' \in Versions
            BY <1>a, <1>12 DEF Fail, Invalidate, TypeOK, cache
        <2>8. announced' \in Versions
            BY <2>4, <1>12 DEF Fail, Overwrite, Older, TypeOK
        <2> QED BY <1>12, <2>3, <2>5, <2>6, <2>7, <2>8 DEF TypeOK, Fail, Places
    <1>13. ASSUME NEW c \in Slots, Succeed(c) \/ SucceedEarly(c) PROVE TypeOK'
        <2>1. calls' \in [Slots -> CallType]
            BY <1>b, <1>13, OthersAreTyped DEF Succeed, SucceedEarly
        <2>2. announced' \in Versions
            BY <1>b, <1>13 DEF Succeed, SucceedEarly, TypeOK, CallType
        <2>3. Refresh(c)
            BY <1>13 DEF Succeed, SucceedEarly
        <2>4. CASE Reaches(c)
            BY <1>a, <1>13, <2>1, <2>2, <2>3, <2>4 DEF TypeOK, Succeed, SucceedEarly, Refresh, Invalidate, Places
        <2>5. CASE ~Reaches(c)
            BY <1>13, <2>1, <2>2, <2>3, <2>5 DEF TypeOK, Succeed, SucceedEarly, Refresh, Places, cache
        <2> QED BY <2>4, <2>5
    <1>14. ASSUME NEW c \in Slots, CommitLate(c) \/ CommitFails(c) PROVE TypeOK'
        <2>1. calls' \in [Slots -> CallType]
            BY <1>b, <1>14 DEF CommitLate, CommitFails
        <2>2. version' \in Versions /\ announced' \in Versions
            BY <1>a, <1>14 DEF CommitLate, CommitFails, TypeOK, Versions
        <2> QED BY <1>14, <2>1, <2>2 DEF TypeOK, CommitLate, CommitFails, Places, cache
    <1>15. ASSUME WorkerChanges PROVE TypeOK'
        BY <1>a, <1>15 DEF TypeOK, Versions, Places, WorkerChanges, cache
    <1>16. ASSUME UNCHANGED vars PROVE TypeOK'
        BY <1>a, <1>16 DEF TypeOK, Places, vars, cache
    <1> QED BY <1>1, <1>2, <1>3, <1>4, <1>5, <1>6, <1>7, <1>8, <1>9, <1>10, <1>11, <1>12, <1>13, <1>14, <1>15, <1>16 DEF Next

(* Every action keeps what is known of the calls and of the changes announced. *)
LEMMA CallsStep == TypeOK /\ CallsCohere /\ AnnouncedIsCommitted /\ [Next]_vars => (CallsCohere /\ AnnouncedIsCommitted)'
PROOF
    <1> SUFFICES ASSUME TypeOK, CallsCohere, AnnouncedIsCommitted, [Next]_vars
                 PROVE  (CallsCohere /\ AnnouncedIsCommitted)'
        OBVIOUS
    <1> DEFINE Coheres(r) == /\ r.told \/ r.cancels => r.refreshes /\ r.whole
                             /\ r.cancels => ~r.bound /\ r.state \in {"sent", "done"}
    <1>a. /\ announced \in Nat /\ version \in Nat /\ calls \in [Slots -> CallType]
          /\ query \in Queries /\ query \in QueryType /\ announced <= version
          /\ \A c \in Slots : calls[c].at \in Nat /\ calls[c].at <= version /\ Coheres(calls[c])
        BY Parameters DEF TypeOK, CallType, Versions, CallsCohere, AnnouncedIsCommitted
    <1>b. Coheres(Free) /\ Free.at = 0
        BY OthersAreTyped
    <1>c. ASSUME query' = query, announced' <= version',
                 \A c \in Slots : Coheres(calls'[c]) /\ calls'[c].at <= version'
          PROVE  (CallsCohere /\ AnnouncedIsCommitted)'
        BY <1>a, <1>c DEF CallsCohere, AnnouncedIsCommitted
    <1>d. ASSUME query' = query, version' \in Nat, version' >= version, announced' <= version',
                 \A c \in Slots : calls'[c] \in {calls[c], Free}
          PROVE  (CallsCohere /\ AnnouncedIsCommitted)'
        <2>1. ASSUME NEW c \in Slots PROVE Coheres(calls'[c]) /\ calls'[c].at <= version'
            <3>1. CASE calls'[c] = Free
                BY <1>b, <1>d, <3>1
            <3>2. CASE calls'[c] = calls[c]
                BY <1>a, <1>d, <3>2
            <3> QED BY <3>1, <3>2, <1>d
        <2> QED BY <2>1, <1>c, <1>d
    <1>e. ASSUME NEW c \in Slots, NEW h \in query.handlers, NEW mine \in BOOLEAN, Send(c, h, mine)
          PROVE  (CallsCohere /\ AnnouncedIsCommitted)'
        <2>1. h \in HandlerType /\ (h.told \/ h.cancels => h.refreshes /\ h.whole) /\ (h.cancels => h.via = "hook")
            BY <1>a, Coherence DEF QueryType
        <2>2. Coheres(Call(h, mine)) /\ Call(h, mine).at = 0 /\ Call(h, mine).state # "late"
            BY <2>1, CallsAreTyped
        <2>3. calls'[c] = Call(h, mine)
            BY <1>a, <1>e, <2>2 DEF Send, Overwrite, Missed, Taken
        <2>4. \A d \in Slots \ {c} : calls'[d] \in {calls[d], Free}
            BY <1>a, <1>e DEF Send, Overwrite, Missed, Taken
        <2>5. announced' <= announced /\ announced' <= version' /\ version' = version /\ query' = query
            BY Parameters, <1>a, <1>e DEF Send, Overwrite, Older, Known, TypeOK, Versions
        <2>6. ASSUME NEW d \in Slots PROVE Coheres(calls'[d]) /\ calls'[d].at <= version'
            <3>1. CASE d = c
                BY <1>a, <2>2, <2>3, <2>5, <3>1
            <3>2. CASE calls'[d] = Free
                BY <1>a, <1>b, <2>5, <3>2
            <3>3. CASE calls'[d] = calls[d]
                BY <1>a, <2>5, <3>3
            <3> QED BY <3>1, <3>2, <3>3, <2>4
        <2> QED BY <1>c, <2>5, <2>6
    <1>1. ASSUME NEW p \in Places, Open(p) PROVE (CallsCohere /\ AnnouncedIsCommitted)'
        BY <1>a, <1>d, <1>1 DEF Open, Unmounted
    <1>2. ASSUME UNCHANGED <<query, version, calls, announced>> PROVE (CallsCohere /\ AnnouncedIsCommitted)'
        BY <1>2 DEF CallsCohere, AnnouncedIsCommitted
    <1>3. ASSUME Choose \/ Age \/ Collect \/ Tick \/ Retry \/ Reconnect \/ Land \/ FetchFails
          PROVE  (CallsCohere /\ AnnouncedIsCommitted)'
        BY <1>2, <1>3 DEF Choose, Age, Collect, Tick, Retry, Reconnect, Request, Land, FetchFails
    <1>4. ASSUME Serve PROVE (CallsCohere /\ AnnouncedIsCommitted)'
        BY <1>a, <1>d, <1>4 DEF Serve, Missed
    <1>5. ASSUME NEW c \in Slots, NEW h \in query.handlers, Start(c, h) \/ Saved(c, h)
          PROVE  (CallsCohere /\ AnnouncedIsCommitted)'
        <2>1. here \in BOOLEAN /\ calls[c].writes \in BOOLEAN
            BY DEF TypeOK, CallType
        <2>2. Send(c, h, here) \/ Send(c, h, calls[c].writes)
            BY <1>5 DEF Start, Saved
        <2> QED BY <1>e, <2>1, <2>2
    <1>6. ASSUME NEW c \in Slots, NEW h \in query.handlers, Save(c, h) PROVE (CallsCohere /\ AnnouncedIsCommitted)'
        <2>1. ASSUME NEW d \in Slots PROVE Coheres(calls'[d]) /\ calls'[d].at <= version'
            <3>1. CASE d = c
                <4>1. calls'[d] = [Free EXCEPT !.state = "saving", !.op = h.saves, !.bound = TRUE, !.writes = h.writes /\ here]
                    BY <1>a, <1>6, <3>1 DEF Save, Taken
                <4>2. ~calls'[d].told /\ ~calls'[d].cancels /\ calls'[d].at = 0
                    BY <4>1 DEF Free
                <4>3. version' = version
                    BY <1>6 DEF Save
                <4> QED BY <1>a, <4>2, <4>3
            <3>2. CASE d # c
                <4>1. calls'[d] \in {calls[d], Free} /\ version' = version
                    BY <1>a, <1>6, <3>2 DEF Save, Taken
                <4>2. CASE calls'[d] = Free
                    BY <1>a, <1>b, <4>1, <4>2
                <4>3. CASE calls'[d] = calls[d]
                    BY <1>a, <4>1, <4>3
                <4> QED BY <4>1, <4>2, <4>3
            <3> QED BY <3>1, <3>2
        <2> QED BY <1>a, <1>c, <2>1, <1>6 DEF Save
    <1>7. ASSUME NEW c \in Slots, Commit(c) PROVE (CallsCohere /\ AnnouncedIsCommitted)'
        <2>1. version' \in Nat /\ version' >= version /\ query' = query /\ announced' = announced
            BY <1>a, <1>7 DEF Commit, cache
        <2>2. ASSUME NEW d \in Slots PROVE Coheres(calls'[d]) /\ calls'[d].at <= version'
            <3>1. CASE d = c
                <4>1. calls[d] \in CallType /\ calls'[d] = [calls[d] EXCEPT !.state = "done", !.at = version']
                    BY <1>a, <1>7, <3>1 DEF Commit, CallType
                <4>2. /\ calls'[d].at = version' /\ calls'[d].state = "done" /\ calls'[d].bound = calls[d].bound
                      /\ calls'[d].told = calls[d].told /\ calls'[d].cancels = calls[d].cancels
                      /\ calls'[d].refreshes = calls[d].refreshes /\ calls'[d].whole = calls[d].whole
                    BY <4>1 DEF CallType
                <4> QED BY <1>a, <2>1, <4>2
            <3>2. CASE d # c
                BY <1>a, <1>7, <2>1, <3>2 DEF Commit
            <3> QED BY <3>1, <3>2
        <2> QED BY <1>a, <1>c, <2>1, <2>2
    <1>8. ASSUME NEW c \in Slots, Fail(c) PROVE (CallsCohere /\ AnnouncedIsCommitted)'
        <2>1. \A d \in Slots : calls'[d] \in {calls[d], Free}
            BY <1>a, <1>8 DEF Fail, Overwrite, Missed
        <2>2. calls[c].snap # None => calls[c].snap \in Nat
            BY Parameters, <1>a DEF CallType, Versions
        <2>3. announced' <= announced /\ version' = version /\ query' = query /\ announced' <= version'
            BY <1>a, <2>2, <1>8 DEF Fail, Overwrite, Older, cache
        <2> QED BY <1>a, <1>d, <2>1, <2>3
    <1>9. ASSUME NEW c \in Slots, Succeed(c) \/ CommitFails(c) PROVE (CallsCohere /\ AnnouncedIsCommitted)'
        <2>1. \A d \in Slots : calls'[d] \in {calls[d], Free}
            BY <1>a, <1>9 DEF Succeed, CommitFails
        <2>2. announced' <= version' /\ version' = version /\ query' = query
            BY <1>a, <1>9 DEF Succeed, CommitFails, cache
        <2> QED BY <1>a, <1>d, <2>1, <2>2
    <1>10. ASSUME NEW c \in Slots, SucceedEarly(c) PROVE (CallsCohere /\ AnnouncedIsCommitted)'
        <2>1. ASSUME NEW d \in Slots PROVE Coheres(calls'[d]) /\ calls'[d].at <= version'
            <3>1. calls'[d] \in {calls[d], Free, [Free EXCEPT !.state = "late"]} /\ version' = version
                BY <1>a, <1>10 DEF SucceedEarly
            <3>2. CASE calls'[d] = calls[d]
                BY <1>a, <3>1, <3>2
            <3>3. CASE calls'[d] = Free
                BY <1>a, <1>b, <3>1, <3>3
            <3>4. CASE calls'[d] = [Free EXCEPT !.state = "late"]
                <4>1. ~calls'[d].told /\ ~calls'[d].cancels /\ calls'[d].at = 0
                    BY <3>4 DEF Free
                <4> QED BY <1>a, <3>1, <4>1
            <3> QED BY <3>1, <3>2, <3>3, <3>4
        <2> QED BY <1>a, <1>c, <2>1, <1>10 DEF SucceedEarly
    <1>11. ASSUME NEW c \in Slots, CommitLate(c) PROVE (CallsCohere /\ AnnouncedIsCommitted)'
        <2>1. \A d \in Slots : calls'[d] \in {calls[d], Free}
            BY <1>a, <1>11 DEF CommitLate
        <2>2. version' = version + 1 /\ announced' = version' /\ query' = query
            BY <1>11 DEF CommitLate
        <2> QED BY <1>a, <1>d, <2>1, <2>2
    <1>12. ASSUME WorkerChanges PROVE (CallsCohere /\ AnnouncedIsCommitted)'
        BY <1>a, <1>d, <1>12 DEF WorkerChanges, cache
    <1>13. ASSUME UNCHANGED vars PROVE (CallsCohere /\ AnnouncedIsCommitted)'
        BY <1>2, <1>13 DEF vars
    <1> QED BY <1>1, <1>3, <1>4, <1>5, <1>6, <1>7, <1>8, <1>9, <1>10, <1>11, <1>12, <1>13 DEF Next

(* A change under way that fetches when it ends is not forgotten by what    *)
(* forgets callbacks and changes answered early.                            *)
LEMMA SettlingKept ==
    ASSUME CallsCohere, Settling,
           \A c \in Slots : calls'[c] = calls[c] \/ calls[c].bound \/ calls[c].state \in {"free", "saving", "late"}
    PROVE  Settling'
BY DEF CallsCohere, Settling

(* Every action keeps the cache up with what is announced.                  *)
LEMMA FreshStep == IInv /\ [Next]_vars => Fresh'
PROOF
    <1> SUFFICES ASSUME IInv, [Next]_vars PROVE Fresh'
        OBVIOUS
    <1> USE DEF AnswersAreNew, OldDataAreStale, AnnouncedChangesShow, LateAreUnserved, Unserved, Fresh
    <1>a. /\ announced \in Nat /\ version \in Nat /\ answer \in Nat /\ None \notin Nat
          /\ Known => seen \in Nat
          /\ announced <= version /\ calls \in [Slots -> CallType]
          /\ CallsCohere /\ query \in QueryType
        BY Parameters DEF IInv, TypeOK, Versions, AnnouncedIsCommitted, Known, CallsCohere
    <1>b. Fresh
        BY DEF IInv
    <1>c. \A c \in Slots : calls[c].snap # None => calls[c].snap \in Nat
        BY Parameters, <1>a DEF CallType, Versions
    <1>d. Free.state # "late" /\ ~Free.cancels /\ Free \in CallType
        BY OthersAreTyped
    \* An observer comes or goes.
    <1>e. ASSUME UNCHANGED <<query, seen, stale, failed, announced>>,
                 Settling => Settling',
                 \A c \in Slots : calls'[c].state = "late" => calls[c].state = "late",
                 fetch' = "answered" => fetch = "answered" /\ answer' = answer,
                 Active' /\ fetch' = "idle" => fetch = "idle" /\ (Active \/ ~Known \/ ~stale)
          PROVE  Fresh'
        <2>1. Known' = Known
            BY <1>e DEF Known
        <2>2. AnswersAreNew' /\ OldDataAreStale'
            BY <1>b, <1>e, <2>1
        <2>3. AnnouncedChangesShow'
            <3> SUFFICES ASSUME Active', Known', fetch' = "idle", ~failed', ~Settling' PROVE seen' >= announced'
                OBVIOUS
            <3>1. Known /\ fetch = "idle" /\ ~failed /\ ~Settling /\ (Active \/ ~stale)
                BY <1>e, <2>1
            <3>2. seen >= announced
                BY <1>a, <1>b, <3>1
            <3> QED BY <1>e, <3>2
        <2>4. LateAreUnserved'
            <3> SUFFICES ASSUME NEW c \in Slots, calls'[c].state = "late" PROVE Unserved'
                OBVIOUS
            <3>1. Unserved
                BY <1>b, <1>e
            <3> QED BY <1>e, <2>1, <3>1
        <2> QED BY <2>2, <2>3, <2>4
    <1>1. ASSUME NEW p \in Places, Open(p) PROVE Fresh'
        <2>1. UNCHANGED <<query, seen, stale, failed, announced>>
            BY <1>1 DEF Open
        <2>2. \A c \in Slots : calls'[c] = calls[c] \/ (calls[c].bound /\ calls'[c] = Free)
            BY <1>a, <1>1 DEF Open, Unmounted
        <2>3. Settling => Settling'
            BY <1>a, <2>2, SettlingKept
        <2>4. \A c \in Slots : calls'[c].state = "late" => calls[c].state = "late"
            BY <1>d, <2>2
        <2>5. fetch' = "answered" => fetch = "answered" /\ answer' = answer
            BY <1>1 DEF Open, Observe
        <2>6. Active' = Observed(p, TRUE)
            BY <1>1 DEF Open, Active, Observed
        <2>7. Active' /\ fetch' = "idle" => fetch = "idle" /\ (Active \/ ~Known \/ ~stale)
            BY <2>6, <1>1 DEF Open, Observe
        <2> QED BY <1>e, <2>1, <2>3, <2>4, <2>5, <2>7
    <1>2. ASSUME Choose PROVE Fresh'
        <2>1. UNCHANGED <<query, seen, stale, failed, announced, calls>>
            BY <1>2 DEF Choose
        <2>2. Settling => Settling'
            BY <2>1 DEF Settling
        <2>3. fetch' = "answered" => fetch = "answered" /\ answer' = answer
            BY <1>2 DEF Choose, Observe
        <2>4. Active' = Observed(page, ~here)
            BY <1>2 DEF Choose, Active, Observed
        <2>5. Active' /\ fetch' = "idle" => fetch = "idle" /\ (Active \/ ~Known \/ ~stale)
            BY <2>4, <1>2 DEF Choose, Observe
        <2> QED BY <1>e, <2>1, <2>2, <2>3, <2>5
    <1>3. ASSUME Age PROVE Fresh'
        BY <1>a, <1>b, <1>3 DEF Known, Active, Observed, Settling, Age
    <1>4. ASSUME Collect PROVE Fresh'
        BY <1>a, <1>b, <1>4 DEF Known, Active, Observed, Settling, Collect
    <1>5. ASSUME Tick \/ Retry \/ Reconnect PROVE Fresh'
        BY <1>a, <1>b, <1>5 DEF Known, Active, Observed, Settling, Tick, Retry, Reconnect, Request
    <1>6. ASSUME Serve PROVE Fresh'
        <2>1. \A c \in Slots : /\ calls'[c].state # "late"
                               /\ calls'[c] = calls[c] \/ calls[c].state = "late"
            BY <1>a, <1>d, <1>6 DEF Serve, Missed
        <2>2. Settling => Settling'
            BY <1>a, <2>1, SettlingKept
        <2>3. LateAreUnserved'
            BY <2>1
        <2>4. Known' = Known /\ UNCHANGED <<seen, stale, announced>> /\ fetch' = "answered" /\ answer' = version
            BY <1>6 DEF Serve, Known
        <2>5. AnswersAreNew' /\ OldDataAreStale' /\ AnnouncedChangesShow'
            BY <1>a, <1>b, <2>2, <2>4
        <2> QED BY <2>3, <2>5
    <1>7. ASSUME Land PROVE Fresh'
        <2>1. UNCHANGED <<calls, announced>> /\ seen' = answer /\ fetch = "answered" /\ fetch' = "idle"
            BY <1>7 DEF Land
        <2>2. answer >= announced
            BY <1>b, <2>1
        <2>3. LateAreUnserved'
            BY <1>b, <2>1
        <2> QED BY <1>a, <2>1, <2>2, <2>3
    <1>8. ASSUME FetchFails PROVE Fresh'
        BY <1>a, <1>b, <1>8 DEF Known, Active, Observed, Settling, FetchFails
    \* What a handler's request does to the cache, and what follows of the others' calls.
    <1>f. ASSUME NEW c \in Slots, NEW h \in HandlerType, NEW mine \in BOOLEAN,
                 calls[c].state \in {"free", "saving"}, Send(c, h, mine)
          PROVE  Fresh'
        <2> DEFINE r == Call(h, mine)
                   cs == [Taken(h.op) EXCEPT ![c] = r]
        <2>1. r.state = "sent" /\ r.cancels = (h.cancels /\ mine)
            BY CallsAreTyped DEF IInv
        <2>2. UNCHANGED <<query, page, here, seen, version>>
            BY <1>f DEF Send
        <2>3. Known' = Known /\ Active' = Active
            BY <2>2 DEF Known, Active, Observed
        <2>4. \A d \in Slots : d # c => calls'[d] = calls[d] \/ (calls'[d] = Free /\ (calls[d].bound \/ calls[d].state = "late"))
            BY <1>a, <1>f DEF Send, Overwrite, Missed, Taken, Pending
        <2>5. calls'[c] = r
            BY <1>a, <1>f, <2>1 DEF Send, Overwrite, Missed, Taken
        <2>6. Settling => Settling'
            BY <1>a, <1>f, <2>4, SettlingKept
        <2>7. \A d \in Slots : calls'[d].state = "late" => calls[d].state = "late"
            BY <1>d, <2>1, <2>4, <2>5
        <2>8. CASE h.cancels /\ mine
            <3>1. Settling'
                BY <2>1, <2>5, <2>8 DEF Settling
            <3>2. fetch' = "idle"
                BY <1>f, <2>8 DEF Send
            <3> QED BY <3>1, <3>2
        <2>9. CASE ~(h.cancels /\ mine) /\ h.writes /\ mine /\ Known
            <3>1. UNCHANGED <<fetch, answer>> /\ Overwrite(seen, cs)
                BY <1>f, <2>9 DEF Send
            <3>2. announced' = Older(announced, seen) /\ seen' = seen /\ announced' <= announced /\ announced' <= seen
                BY <1>a, <2>2, <2>9, <3>1 DEF Overwrite, Older
            <3>3. \A d \in Slots : calls'[d].state # "late"
                BY <1>a, <1>d, <2>1, <3>1 DEF Overwrite, Missed, Taken
            <3>4. announced' \in Nat
                BY <1>a, <2>9, <3>2 DEF Older
            <3> QED BY <1>a, <1>b, <2>3, <2>9, <3>1, <3>2, <3>3, <3>4
        <2>10. CASE ~(h.cancels /\ mine) /\ ~(h.writes /\ mine /\ Known)
            <3>1. UNCHANGED <<fetch, answer, stale, failed, announced>>
                BY <1>f, <2>10 DEF Send
            <3> QED BY <1>e, <2>2, <2>3, <2>6, <2>7, <3>1
        <2> QED BY <2>8, <2>9, <2>10
    <1>9. ASSUME NEW c \in Slots, NEW h \in query.handlers, Start(c, h) \/ Saved(c, h) PROVE Fresh'
        <2>1. h \in HandlerType /\ here \in BOOLEAN /\ calls[c].writes \in BOOLEAN
            BY <1>a DEF IInv, TypeOK, QueryType, CallType
        <2>2. calls[c].state \in {"free", "saving"} /\ (Send(c, h, here) \/ Send(c, h, calls[c].writes))
            BY <1>9 DEF Start, Saved
        <2> QED BY <1>f, <2>1, <2>2
    \* Nothing happens to the cache.
    <1>g. ASSUME UNCHANGED <<query, page, here, seen, stale, failed, fetch, answer, announced>>,
                 Settling => Settling',
                 \A c \in Slots : calls'[c].state = "late" => calls[c].state = "late"
          PROVE  Fresh'
        BY <1>e, <1>g DEF Active, Observed
    <1>10. ASSUME NEW c \in Slots, NEW h \in query.handlers, Save(c, h) PROVE Fresh'
        <2>1. calls'[c] = [Free EXCEPT !.state = "saving", !.op = h.saves, !.bound = TRUE, !.writes = h.writes /\ here]
            BY <1>a, <1>10 DEF Save, Taken
        <2>2. calls'[c].state = "saving"
            BY <2>1 DEF Free
        <2>3. \A d \in Slots : d # c => calls'[d] = calls[d] \/ (calls'[d] = Free /\ calls[d].bound)
            BY <1>a, <1>10 DEF Save, Taken, Pending
        <2>4. calls[c].state = "free"
            BY <1>10 DEF Save
        <2>5. Settling => Settling'
            BY <1>a, <2>3, <2>4, SettlingKept
        <2>6. \A d \in Slots : calls'[d].state = "late" => calls[d].state = "late"
            BY <1>d, <2>2, <2>3
        <2> QED BY <1>g, <2>5, <2>6, <1>10 DEF Save, cache
    <1>11. ASSUME NEW c \in Slots, Commit(c) PROVE Fresh'
        <2>1. \A d \in Slots : /\ calls'[d].cancels = calls[d].cancels
                               /\ calls'[d].state = IF d = c THEN "done" ELSE calls[d].state
            BY <1>a, <1>11 DEF Commit, CallType
        <2>2. Settling => Settling'
            BY <2>1 DEF Settling
        <2>3. \A d \in Slots : calls'[d].state = "late" => calls[d].state = "late"
            BY <2>1
        <2>4. UNCHANGED <<query, page, here, seen, stale, failed, fetch, answer, announced>>
            BY <1>11 DEF Commit, cache
        <2> QED BY <1>g, <2>2, <2>3, <2>4
    \* What is observed is fetched again.
    <1>h. ASSUME UNCHANGED <<query, page, here, announced>>, Invalidate,
                 \A d \in Slots : calls'[d].state = "late" => (Sweeps /\ seen' = seen) \/ calls[d].state = "late"
          PROVE  Fresh'
        <2>1. Active' = Active /\ Known' = (seen' # None)
            BY <1>h DEF Active, Observed, Known
        <2>2. Known' => stale'
            BY <2>1, <1>h DEF Invalidate
        <2>3. Active' /\ Known' => fetch' = "sent"
            BY <2>1, <1>h DEF Invalidate
        <2>4. fetch' = "answered" => fetch = "answered" /\ answer' = answer /\ ~(Active /\ Known')
            BY <2>1, <1>h DEF Invalidate
        <2>5. OldDataAreStale' /\ AnnouncedChangesShow' /\ AnswersAreNew'
            BY <1>b, <1>h, <2>2, <2>3, <2>4
        <2>6. ASSUME NEW d \in Slots, calls'[d].state = "late" PROVE Unserved'
            <3>1. fetch' # "answered"
                <4>1. CASE Sweeps /\ seen' = seen
                    BY <2>1, <2>4, <4>1 DEF Sweeps, Known
                <4>2. CASE calls[d].state = "late"
                    BY <1>b, <2>4, <4>2
                <4> QED BY <4>1, <4>2, <2>6, <1>h
            <3> QED BY <2>2, <2>3, <3>1
        <2> QED BY <2>5, <2>6
    <1>12. ASSUME NEW c \in Slots, Fail(c) PROVE Fresh'
        <2> DEFINE cs == [calls EXCEPT ![c] = Free]
        <2>1. UNCHANGED <<query, page, here, version>>
            BY <1>12 DEF Fail
        <2>2. \A d \in Slots : cs[d] = IF d = c THEN Free ELSE calls[d]
            BY <1>a
        <2>3. \A d \in Slots : cs[d].state = "late" => calls[d].state = "late"
            BY <1>d, <2>2
        <2>4. CASE calls[c].cancels
            <3>1. Invalidate /\ calls' = cs /\ announced' = announced
                BY <1>12, <2>4 DEF Fail
            <3> QED BY <1>h, <2>1, <2>3, <3>1
        <2>5. CASE ~calls[c].cancels
            <3>1. \/ Invalidate /\ UNCHANGED <<seen, announced>> /\ calls' = cs
                  \/ /\ calls[c].snap # None /\ seen' = calls[c].snap
                     /\ Overwrite(calls[c].snap, cs) /\ UNCHANGED <<fetch, answer>>
                  \/ calls' = cs /\ UNCHANGED <<cache, announced>>
                BY <1>12, <2>5 DEF Fail
            <3>2. CASE Invalidate /\ UNCHANGED <<seen, announced>> /\ calls' = cs
                BY <1>h, <2>1, <2>3, <3>2
            <3>3. CASE /\ calls[c].snap # None /\ seen' = calls[c].snap
                       /\ Overwrite(calls[c].snap, cs) /\ UNCHANGED <<fetch, answer>>
                <4>1. announced' \in Nat /\ announced' <= announced /\ announced' <= seen' /\ seen' \in Nat
                    BY <1>a, <1>c, <3>3 DEF Overwrite, Older
                <4>2. \A d \in Slots : calls'[d].state # "late"
                    BY <1>d, <2>2, <3>3 DEF Overwrite, Missed
                <4> QED BY <1>a, <1>b, <3>3, <4>1, <4>2
            <3>4. CASE calls' = cs /\ UNCHANGED <<cache, announced>>
                <4>1. Settling => Settling'
                    BY <2>2, <2>5, <3>4 DEF Settling
                <4> QED BY <1>g, <2>1, <2>3, <3>4, <4>1 DEF cache
            <3> QED BY <3>1, <3>2, <3>3, <3>4
        <2> QED BY <2>4, <2>5
    \* A handler has refreshed what it is to refresh.
    <1>i. ASSUME NEW c \in Slots, Refresh(c), UNCHANGED <<query, page, here, announced>>,
                 \A d \in Slots \ {c} : calls'[d] = calls[d],
                 calls'[c].state = "late" => Sweeps /\ Reaches(c)
          PROVE  Fresh'
        <2>1. CASE Reaches(c)
            BY <1>h, <1>i, <2>1 DEF Refresh
        <2>2. CASE ~Reaches(c)
            <3>1. ~calls[c].cancels
                BY <1>a, <2>2 DEF CallsCohere, Reaches
            <3>2. Settling => Settling'
                BY <1>i, <3>1 DEF Settling
            <3>3. \A d \in Slots : calls'[d].state = "late" => calls[d].state = "late"
                BY <1>i, <2>2
            <3> QED BY <1>g, <1>i, <2>2, <3>2, <3>3 DEF Refresh, cache
        <2> QED BY <2>1, <2>2
    <1>13. ASSUME NEW c \in Slots, Succeed(c) PROVE Fresh'
        <2>1. calls' = [calls EXCEPT ![c] = Free] /\ Refresh(c) /\ UNCHANGED <<query, page, here>>
            BY <1>13 DEF Succeed
        <2>2. (\A d \in Slots \ {c} : calls'[d] = calls[d]) /\ calls'[c] = Free
            BY <1>a, <2>1
        <2>3. CASE announced' = announced
            BY <1>d, <1>i, <2>1, <2>2, <2>3
        <2>4. CASE announced' # announced
            <3>1. calls[c].told /\ Sweeps
                BY <2>4, <1>13 DEF Succeed
            <3>2. Reaches(c)
                BY <1>a, <3>1 DEF CallsCohere, Reaches
            <3>3. Invalidate /\ UNCHANGED <<seen, failed>>
                BY <2>1, <3>2 DEF Refresh
            <3>4. Known' = Known /\ Active' = Active
                BY <2>1, <3>3 DEF Known, Active, Observed
            <3>5. fetch' # "answered" /\ (Known => stale') /\ (Active /\ Known => fetch' = "sent")
                BY <3>1, <3>3 DEF Invalidate, Sweeps, Known
            <3> QED BY <3>4, <3>5
        <2> QED BY <2>3, <2>4
    <1>14. ASSUME NEW c \in Slots, SucceedEarly(c) PROVE Fresh'
        <2>1. Refresh(c) /\ UNCHANGED <<query, page, here, announced>>
              /\ calls' = [calls EXCEPT ![c] = IF calls[c].told /\ Sweeps THEN [Free EXCEPT !.state = "late"] ELSE Free]
            BY <1>14 DEF SucceedEarly
        <2>2. calls'[c] = IF calls[c].told /\ Sweeps THEN [Free EXCEPT !.state = "late"] ELSE Free
            BY <1>a, <2>1
        <2>3. calls'[c].state = "late" => calls[c].told /\ Sweeps
            BY <1>d, <2>2
        <2>4. calls[c].told => Reaches(c)
            BY <1>a DEF CallsCohere, Reaches
        <2>5. \A d \in Slots \ {c} : calls'[d] = calls[d]
            BY <1>a, <2>1
        <2> QED BY <1>i, <2>1, <2>3, <2>4, <2>5
    <1>15. ASSUME NEW c \in Slots, CommitLate(c) \/ CommitFails(c) PROVE Fresh'
        <2>1. /\ calls[c].state = "late" /\ calls' = [calls EXCEPT ![c] = Free]
              /\ UNCHANGED <<query, page, here, cache>>
            BY <1>15 DEF CommitLate, CommitFails
        <2>2. Unserved
            BY <1>b, <2>1
        <2>3. \A d \in Slots : calls'[d] = IF d = c THEN Free ELSE calls[d]
            BY <1>a, <2>1
        <2>4. Settling => Settling'
            BY <1>a, <2>1, <2>3, SettlingKept
        <2>5. UNCHANGED <<seen, stale, failed, fetch, answer>>
            BY <2>1 DEF cache
        <2>6. Known' = Known /\ Active' = Active
            BY <2>1, <2>5 DEF Known, Active, Observed
        <2>7. AnswersAreNew' /\ OldDataAreStale' /\ AnnouncedChangesShow'
            BY <2>2, <2>4, <2>5, <2>6
        <2>8. Unserved'
            BY <2>2, <2>4, <2>5, <2>6
        <2> QED BY <2>7, <2>8
    <1>16. ASSUME WorkerChanges PROVE Fresh'
        BY <1>g, <1>16 DEF Settling, WorkerChanges, cache
    <1>17. ASSUME UNCHANGED vars PROVE Fresh'
        BY <1>g, <1>17 DEF Settling, vars, cache
    <1> QED BY <1>1, <1>2, <1>3, <1>4, <1>5, <1>6, <1>7, <1>8, <1>9, <1>10, <1>11, <1>12, <1>13, <1>14, <1>15, <1>16, <1>17 DEF Next

(* The cache keeps its invariant, and with it the properties.               *)
THEOREM CacheInvariant == Spec => []IInv
PROOF
    <1>1. IInv /\ [Next]_vars => IInv'
        BY TypeStep, CallsStep, FreshStep DEF IInv
    <1> QED BY InitInv, <1>1, PTL DEF Spec

(* The state of the query cache always has its type.                        *)
THEOREM TypeCorrect == Spec => []TypeOK
PROOF
    <1>1. IInv => TypeOK
        BY DEF IInv
    <1> QED BY CacheInvariant, <1>1, PTL

(* For all pages, queries and handlers that keep Coherence, a change the    *)
(* user was told of is on the screen (queryClient and invalidateQueries,    *)
(* App.tsx and the pages).                                                  *)
THEOREM ChangesShow == Spec => []AnnouncedChangesShow
PROOF
    <1>1. IInv => AnnouncedChangesShow
        BY DEF IInv, Fresh
    <1> QED BY CacheInvariant, <1>1, PTL
=============================================================================
