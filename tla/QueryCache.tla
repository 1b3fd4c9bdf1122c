----------------------------- MODULE QueryCache -----------------------------
(***************************************************************************)
(* The query cache of the web application (App.tsx, TanStack Query v5) as   *)
(* one of its queries lives it.  Pages come and go and with them the        *)
(* observers of the query; its data age, are fetched, invalidated, dropped; *)
(* handlers of all pages send mutations, the server answers them and, then  *)
(* or before, commits them, and when an answer arrives the handler          *)
(* invalidates what it knows to be stale, unless its page has been left and *)
(* its callback with it.  Some handlers show their change before it is made *)
(* and put back what was there before when it fails.                        *)
(*                                                                         *)
(* Data are versions: the server's is "version", the one in the cache is    *)
(* "seen".  Every query goes through the same actions, so a behaviour       *)
(* follows one, with what the pages have to do with it.                     *)
(***************************************************************************)
EXTENDS Naturals

CONSTANTS
    Queries,    \* the queries and what the pages do with them: see QueryType
    Away,       \* a page that shows nothing (NotFound)
    Frame,      \* the frame around all pages (sidebar)
    Slots,      \* mutations under way at a time
    MaxChanges, \* bound: versions of the data
    MaxFaults,  \* bound: failing fetches
    None

\* A handler of a page, as it concerns one query.
HandlerType ==
    [page : STRING,
     op : {None} \cup STRING,            \* the mutation it gives callbacks to
     via : {"hook", "await", "call"},   \* where it refreshes: see WebPages
     once : BOOLEAN,                    \* its control is disabled meanwhile
     touches : BOOLEAN,                 \* it changes what the query reads
     refreshes : BOOLEAN,               \* it declares the query stale,
     whole : BOOLEAN,                   \* under all keys
     told : BOOLEAN,                    \* the user expects the query to follow
     saves : {None} \cup STRING,         \* the request it sends first
     writes : BOOLEAN,                  \* it shows its change in advance,
     cancels : BOOLEAN]                 \* cancels a fetch first, refreshes on errors

QueryType ==
    [name : STRING,
     shown : SUBSET STRING,     \* the pages that observe it,
     polled : SUBSET STRING,    \* and refetch it in an interval
     framed : BOOLEAN,          \* the frame observes it
     varied : BOOLEAN,          \* it has parameters: page number, filter, selection
     aborted : BOOLEAN,         \* its fetch is aborted with the last observer
     handlers : SUBSET HandlerType]

ASSUME Parameters ==
    /\ Queries \subseteq QueryType
    /\ Away \in STRING /\ Frame \in STRING \ {Away}
    /\ MaxChanges \in Nat /\ MaxFaults \in Nat
    /\ None \notin Nat

(* What a handler is said to change it refreshes, under every key; so does  *)
(* a mutation hook that cancels fetches, whose callbacks always run.        *)
ASSUME Coherence ==
    \A q \in Queries : \A h \in q.handlers :
        /\ h.told \/ h.cancels => h.refreshes /\ h.whole
        /\ h.cancels => h.via = "hook"

VARIABLES
    query,      \* the query this behaviour is about
    page,       \* the route
    here,       \* the parameters chosen on the page are the ones followed
    seen,       \* version in the cache, or None
    guess,      \* less what a handler has taken out in advance
    stale,      \* invalidated or older than staleTime
    failed,     \* the last fetch failed
    fetch,      \* "idle", "sent", or "answered"
    answer,     \* the version on its way in an answer
    version,    \* version on the server
    calls,      \* slot -> mutation under way
    announced,  \* newest change a handler has reported as done (history)
    faults      \* failed fetches so far

vars == <<query, page, here, seen, guess, stale, failed, fetch, answer, version, calls, announced, faults>>
cache == <<seen, guess, stale, failed, fetch, answer>>

Versions == 0 .. MaxChanges
Free ==
    [state |-> "free", at |-> 0, op |-> None, bound |-> FALSE,
     touches |-> FALSE, refreshes |-> FALSE, whole |-> FALSE, told |-> FALSE,
     writes |-> FALSE, cancels |-> FALSE, snap |-> None, was |-> FALSE]

(* What is left of a handler's call when it is under way, and of what it    *)
(* overwrote, if its parameters were "mine", the ones followed.  A call     *)
(* whose callbacks are gone is forgotten: all it may still do is commit, as *)
(* WorkerChanges does.                                                      *)
Call(h, mine) ==
    [state |-> "sent", at |-> 0, op |-> h.op, bound |-> h.via = "call",
     touches |-> h.touches, refreshes |-> h.refreshes, whole |-> h.whole, told |-> h.told,
     writes |-> h.writes /\ mine, cancels |-> h.cancels /\ mine,
     snap |-> IF h.writes /\ mine THEN seen ELSE None, was |-> h.writes /\ mine /\ guess]

\* For a query all other pages are as good as Away.
Places == ({Away} \cup query.shown \cup { h.page : h \in query.handlers }) \ {Frame}

Observed(p, at) == query.framed \/ (p \in query.shown /\ at)
Active == Observed(page, here)
Known == seen # None

\* A change is under way that fetches the data when it ends, however it ends.
Settling == \E c \in Slots : calls[c].cancels

Init ==
    /\ query \in Queries
    /\ page = Away /\ here = TRUE
    /\ seen = None /\ guess = FALSE /\ stale = FALSE /\ failed = FALSE
    /\ fetch = IF Observed(page, here) THEN "sent" ELSE "idle"
    /\ answer = 0 /\ version = 0 /\ announced = 0 /\ faults = 0
    /\ calls = [c \in Slots |-> Free]

-----------------------------------------------------------------------------
(* Observers.  The first observer of a query fetches if there are no data   *)
(* or stale ones; with the last observer goes the fetch, if its signal is   *)
(* passed to the request, as the generated client does.                     *)
Observe(p, at) ==
    /\ fetch' = IF ~Observed(p, at) THEN (IF query.aborted THEN "idle" ELSE fetch)
                ELSE IF fetch = "idle" /\ ~Active /\ (~Known \/ stale) THEN "sent"
                ELSE fetch
    /\ answer' = IF fetch' = "answered" THEN answer ELSE 0

(* The callbacks given to mutate() are dropped with the component; those    *)
(* of the hook and the code after an await are not.                         *)
Unmounted == [c \in Slots |-> IF calls[c].bound THEN Free ELSE calls[c]]

Open(p) ==
    /\ p \in Places \ {page}
    /\ page' = p /\ here' = TRUE
    /\ Observe(p, TRUE)
    /\ calls' = Unmounted
    /\ UNCHANGED <<query, seen, guess, stale, failed, version, announced, faults>>

(* Another page number, filter or selection is another key.                 *)
Choose ==
    /\ query.varied /\ page \in query.shown
    /\ here' = ~here
    /\ Observe(page, ~here)
    /\ UNCHANGED <<query, page, seen, guess, stale, failed, version, calls, announced, faults>>

-----------------------------------------------------------------------------
(* Fetches.                                                                 *)
Age ==      \* staleTime has passed
    /\ Known /\ ~stale
    /\ stale' = TRUE
    /\ UNCHANGED <<query, page, here, seen, guess, failed, fetch, answer, version, calls, announced, faults>>

Collect ==  \* gcTime has passed without an observer
    /\ Known /\ ~Active /\ fetch = "idle"
    /\ seen' = None /\ guess' = FALSE /\ stale' = FALSE /\ failed' = FALSE
    /\ UNCHANGED <<query, page, here, fetch, answer, version, calls, announced, faults>>

Request ==
    /\ Active /\ fetch = "idle"
    /\ fetch' = "sent"
    /\ UNCHANGED <<query, page, here, seen, guess, stale, failed, answer, version, calls, announced, faults>>

\* Mutant: the interval stops after an error.
BugTick == page \in query.polled /\ ~failed /\ Request

Tick == page \in query.polled /\ Request     \* refetchInterval
Retry == failed /\ Request                      \* the user asks again
Reconnect == stale /\ Request                   \* refetchOnReconnect

\* Mutant: an answer without data is cached.
BugServe ==
    /\ fetch = "sent"
    /\ fetch' = "answered" /\ answer' = None
    /\ UNCHANGED <<query, page, here, seen, guess, stale, failed, version, calls, announced, faults>>

(* Changes answered but not committed are missed by the data served, or     *)
(* written, now: what the user was told of them does not come true.         *)
Missed(cs) == [c \in Slots |-> IF cs[c].state = "late" THEN Free ELSE cs[c]]

Serve ==
    /\ fetch = "sent"
    /\ fetch' = "answered" /\ answer' = version
    /\ calls' = Missed(calls)
    /\ UNCHANGED <<query, page, here, seen, guess, stale, failed, version, announced, faults>>

Land ==
    /\ fetch = "answered"
    /\ seen' = answer /\ guess' = FALSE /\ stale' = FALSE /\ failed' = FALSE
    /\ fetch' = "idle" /\ answer' = 0
    /\ UNCHANGED <<query, page, here, version, calls, announced, faults>>

FetchFails ==   \* after the one retry
    /\ fetch # "idle" /\ faults < MaxFaults
    /\ fetch' = "idle" /\ answer' = 0
    /\ failed' = TRUE /\ stale' = Known
    /\ faults' = faults + 1
    /\ UNCHANGED <<query, page, here, seen, guess, version, calls, announced>>

-----------------------------------------------------------------------------
(* Mutations.                                                               *)
Pending(op) == {c \in Slots : calls[c].bound /\ calls[c].op = op}

\* A second mutate() on the same hook takes the callbacks of the first away.
Taken(op) == [c \in Slots |-> IF c \in Pending(op) THEN Free ELSE calls[c]]

Older(v, w) == IF v < w THEN v ELSE w

(* Data older than what has been announced are written into the cache and   *)
(* count as fresh: what was announced is taken back.                        *)
Overwrite(v, cs) ==
    /\ stale' = FALSE /\ failed' = FALSE
    /\ announced' = Older(announced, v)
    /\ calls' = Missed(cs)

(* The request is sent, its change shown in advance: onMutate cancels the   *)
(* fetch under way, performOptimisticRemoval leaves it.                     *)
Send(c, h, mine) ==
    LET cs == [Taken(h.op) EXCEPT ![c] = Call(h, mine)] IN
    /\ IF h.writes /\ mine /\ Known
       THEN /\ guess' = TRUE
            /\ IF h.cancels THEN stale' = FALSE /\ failed' = FALSE /\ announced' = announced /\ calls' = cs
                            ELSE Overwrite(seen, cs)
       ELSE calls' = cs /\ UNCHANGED <<guess, stale, failed, announced>>
    /\ IF h.cancels /\ mine THEN fetch' = "idle" /\ answer' = 0 ELSE UNCHANGED <<fetch, answer>>
    /\ UNCHANGED <<query, page, here, seen, version, faults>>

\* The page may disable its button while the request is out.
Start(c, h) ==
    /\ calls[c].state = "free"
    /\ h.page \in {page, Frame} /\ h.saves = None
    /\ h.once => Pending(h.op) = {}
    /\ Send(c, h, here)

Save(c, h) ==
    /\ calls[c].state = "free"
    /\ h.page \in {page, Frame} /\ h.saves # None
    /\ calls' = [Taken(h.saves) EXCEPT ![c] =
                    [Free EXCEPT !.state = "saving", !.op = h.saves, !.bound = TRUE, !.writes = h.writes /\ here]]
    /\ UNCHANGED <<query, page, here, cache, version, announced, faults>>

(* The first request has succeeded: its callback sends the second one, and  *)
(* writes under the key it was made for.  What the first request changed is *)
(* committed before this or after: it is one of WorkerChanges.              *)
Saved(c, h) ==
    /\ calls[c].state = "saving" /\ calls[c].op = h.saves
    /\ Send(c, h, calls[c].writes)

Commit(c) ==
    /\ calls[c].state = "sent"
    /\ calls[c].touches => version < MaxChanges
    /\ version' = IF calls[c].touches THEN version + 1 ELSE version
    /\ calls' = [calls EXCEPT ![c].state = "done", ![c].at = version']
    /\ UNCHANGED <<query, page, here, cache, announced, faults>>

\* Mutant: a fetch under way is not cancelled.
BugInvalidate ==
    /\ stale' = (seen' # None)
    /\ fetch' = IF Active /\ fetch = "idle" THEN "sent" ELSE fetch
    /\ UNCHANGED answer

(* invalidateQueries: mark the entry, and refetch it if it is observed,     *)
(* without waiting for a fetch under way unless that is the first one.      *)
Invalidate ==
    /\ stale' = (seen' # None)
    /\ fetch' = IF Active /\ (seen' # None \/ fetch = "idle") THEN "sent" ELSE fetch
    /\ answer' = IF fetch' = "answered" THEN answer ELSE 0

\* setQueryData with what the call has overwritten, if there was anything.
PutBack(c) ==
    IF calls[c].snap # None
    THEN seen' = calls[c].snap /\ guess' = calls[c].was /\ failed' = FALSE
    ELSE UNCHANGED <<seen, guess, failed>>

(* Refused by the server, or the answer is lost.  Most handlers only say    *)
(* so.  The approvals page puts its list back, or refreshes it if the       *)
(* server says that the approval was decided or has expired (409, 410); the *)
(* hooks of the folder tree do both.                                        *)
Fail(c) ==
    LET cs == [calls EXCEPT ![c] = Free] IN
    /\ calls[c].state \in {"saving", "sent", "done"}
    /\ \/ /\ calls[c].cancels
          /\ PutBack(c) /\ Invalidate
          /\ calls' = cs /\ UNCHANGED announced
       \/ /\ ~calls[c].cancels /\ calls[c].writes
          /\ calls[c].state = "sent"
          /\ UNCHANGED <<seen, guess, failed, announced>> /\ Invalidate
          /\ calls' = cs
       \/ /\ ~calls[c].cancels /\ calls[c].snap # None
          /\ seen' = calls[c].snap /\ guess' = calls[c].was
          /\ Overwrite(calls[c].snap, cs)
          /\ UNCHANGED <<fetch, answer>>
       \/ /\ ~calls[c].cancels /\ calls[c].snap = None
          /\ calls' = cs /\ UNCHANGED <<cache, announced>>
    /\ UNCHANGED <<query, page, here, version, faults>>

Reaches(c) == calls[c].refreshes /\ (calls[c].whole \/ here)

(* An older answer on its way that the invalidation does not cancel, of a   *)
(* first load or of a fetch nobody observes, is not fetched again.          *)
Sweeps == fetch # "answered" \/ (Known /\ Active)

Refresh(c) == IF Reaches(c) THEN UNCHANGED <<seen, guess, failed>> /\ Invalidate ELSE UNCHANGED cache

\* The user is told.
Succeed(c) ==
    /\ calls[c].state = "done"
    /\ Refresh(c)
    /\ announced' = IF calls[c].told /\ Sweeps /\ calls[c].at > announced
                    THEN calls[c].at ELSE announced
    /\ calls' = [calls EXCEPT ![c] = Free]
    /\ UNCHANGED <<query, page, here, version, faults>>

(* The answer precedes the commit: the endpoint has flushed its change, and *)
(* get_session commits once the response is sent.                           *)
SucceedEarly(c) ==
    /\ calls[c].state = "sent" /\ calls[c].touches
    /\ Refresh(c)
    /\ calls' = [calls EXCEPT ![c] = IF calls[c].told /\ Sweeps THEN [Free EXCEPT !.state = "late"] ELSE Free]
    /\ UNCHANGED <<query, page, here, version, announced, faults>>

\* The user was told before; it comes true if no data were served in between.
CommitLate(c) ==
    /\ calls[c].state = "late" /\ version < MaxChanges
    /\ version' = version + 1
    /\ announced' = version'
    /\ calls' = [calls EXCEPT ![c] = Free]
    /\ UNCHANGED <<query, page, here, cache, faults>>

CommitFails(c) ==
    /\ calls[c].state = "late"
    /\ calls' = [calls EXCEPT ![c] = Free]
    /\ UNCHANGED <<query, page, here, cache, version, announced, faults>>

WorkerChanges ==    \* a background job writes what the query reads
    /\ version < MaxChanges
    /\ version' = version + 1
    /\ UNCHANGED <<query, page, here, cache, calls, announced, faults>>

Next ==
    \/ \E p \in Places : Open(p)
    \/ Choose \/ Age \/ Collect \/ Tick \/ Retry \/ Reconnect
    \/ Serve \/ Land \/ FetchFails
    \/ \E c \in Slots : \/ \E h \in query.handlers : Start(c, h) \/ Save(c, h) \/ Saved(c, h)
                        \/ Commit(c) \/ Fail(c) \/ Succeed(c)
                        \/ SucceedEarly(c) \/ CommitLate(c) \/ CommitFails(c)
    \/ WorkerChanges

(* Requests are answered and intervals elapse while the tab is visible;     *)
(* nothing is assumed of the user or of his mutations.                      *)
Fairness == WF_vars(Serve) /\ WF_vars(Land) /\ WF_vars(Tick)

Spec == Init /\ [][Next]_vars
FairSpec == Spec /\ Fairness
-----------------------------------------------------------------------------
CallType ==
    [state : {"free", "saving", "sent", "done", "late"}, at : Versions, op : {None} \cup STRING,
     bound : BOOLEAN, touches : BOOLEAN, refreshes : BOOLEAN,
     whole : BOOLEAN, told : BOOLEAN, writes : BOOLEAN, cancels : BOOLEAN,
     snap : Versions \cup {None}, was : BOOLEAN]

(* The variables have their types (query never changes).                    *)
TypeOK ==
    /\ page \in Places /\ here \in BOOLEAN
    /\ seen \in Versions \cup {None}
    /\ guess \in BOOLEAN /\ stale \in BOOLEAN /\ failed \in BOOLEAN
    /\ fetch \in {"idle", "sent", "answered"} /\ answer \in Versions
    /\ version \in Versions /\ announced \in Versions
    /\ calls \in [Slots -> CallType]
    /\ faults \in 0 .. MaxFaults

(* A change the user was told of is on the screen: whatever pages were      *)
(* opened, fetches cancelled, aborted, failed or still under way in the     *)
(* meantime, a page that shows the query and waits for nothing, neither for *)
(* an answer nor for a change that fetches when it ends, shows the change.  *)
(* Two things undo it, and nothing else does: data older than the change    *)
(* are written into the cache by a page (Overwrite), or were served when    *)
(* the change had been answered but not committed (Missed).                 *)
AnnouncedChangesShow ==
    Active /\ Known /\ fetch = "idle" /\ ~failed /\ ~Settling => seen >= announced

(* A page left open and alone comes to show what the server has, whoever    *)
(* changed it, whatever fetches failed and whatever was shown in advance,   *)
(* if it polls.                                                             *)
LeftAlone == page \in query.polled /\ here /\ \A c \in Slots : calls[c] = Free
PolledQueriesConverge == <>[]LeftAlone => <>[](seen = version /\ ~guess)
=============================================================================
