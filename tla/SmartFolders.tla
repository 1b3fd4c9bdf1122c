----------------------------- MODULE SmartFolders -----------------------------
(***************************************************************************)
(* Changes to an account's mail folders (pages/smart-folders): a folder is  *)
(* dragged into another, deleted, reset, or excluded from processing.       *)
(* Every change but a reset shows in the cached listing before the server   *)
(* has heard of it, remembers what was there before to put it back on an    *)
(* error, and ends by declaring the listing stale.  Dragging is never       *)
(* disabled, so changes overlap, and one may be rolled back to a listing    *)
(* that another has changed since.                                          *)
(*                                                                         *)
(* A folder is the sequence of its names.                                   *)
(***************************************************************************)
EXTENDS Naturals, Sequences, SequencesExt

CONSTANTS
    Initial,    \* the account's folders at first
    SystemNames,\* names of system folders
    Changes,    \* changes under way at a time
    MaxStarted, \* bound: changes started
    NoListing   \* nothing cached

\* A folder is the sequence of its names.
ASSUME SmartFoldersAssumption == Initial \subseteq Seq(STRING) /\ MaxStarted \in Nat

VARIABLES
    mailbox,    \* what the server has: folders, and paths excluded
    panel,      \* the page is open
    shown,      \* what the cache has
    outdated,   \* the entry is invalidated, or older than staleTime
    broken,     \* the last fetch failed: an error instead of the tree
    fetching,   \* "idle", "sent" or "answered"
    arriving,   \* the listing in the answer
    changes,    \* change -> the request under way
    owed,       \* requests that are over for the page, but not for the server
    overtaken,  \* one of them came true after the last listing was served (history)
    started     \* changes started

folderVars == <<mailbox, panel, shown, outdated, broken, fetching, arriving, changes, owed, overtaken, started>>
serverVars == <<mailbox, owed, overtaken>>
listingCache == <<shown, outdated, broken, fetching, arriving>>

NoChange == [state |-> "free", op |-> "none", path |-> <<>>, to |-> <<>>, list |-> {},
             before |-> NoListing, last |-> FALSE]

FoldersInit ==
    /\ mailbox = [folders |-> Initial, excluded |-> {}]
    /\ panel = FALSE
    /\ shown = NoListing /\ outdated = TRUE /\ broken = FALSE
    /\ fetching = "idle" /\ arriving = NoListing
    /\ changes = [c \in Changes |-> NoChange] /\ started = 0
    /\ owed = {} /\ overtaken = FALSE

-----------------------------------------------------------------------------
\* The tree has a row for every listed folder and those above.
TreeRows == UNION { Prefixes(f) \ {<<>>} : f \in shown.folders }
SystemRow(p) == Len(p) = 1 /\ p[1] \in SystemNames
Inferiors(p, folders) == { f \in folders : IsStrictPrefix(p, f) }
Moved(from, to, f) == IF IsPrefix(from, f) THEN to \o SubSeq(f, Len(from) + 1, Len(f)) ELSE f

\* isPending tells of the last mutate() of a hook that is still mounted.
IsPending(op) == \E c \in Changes : changes[c].op = op /\ changes[c].last
IsMutating == IsPending("exclude") \/ IsPending("rename")
Operable(p) == panel /\ shown # NoListing /\ ~broken /\ p \in TreeRows /\ ~SystemRow(p)

\* Changes are interchangeable: one that is free is taken.
NextChange == CHOOSE c \in Changes : changes[c].state = "free"

\* onMutate: the fetch is cancelled and the change shown, which makes the entry fresh.
Mutate(c, r, optimistic) ==
    /\ changes[c].state = "free" /\ c = NextChange /\ started < MaxStarted
    /\ started' = started + 1
    /\ changes' = [d \in Changes |->
                      IF d = c THEN [r EXCEPT !.state = "sent", !.last = TRUE,
                                              !.before = IF r.op = "reset" THEN NoListing ELSE shown]
                      ELSE IF changes[d].op = r.op THEN [changes[d] EXCEPT !.last = FALSE]
                      ELSE changes[d]]
    /\ shown' = optimistic
    /\ outdated' = (outdated /\ r.op = "reset")
    /\ fetching' = "idle" /\ arriving' = NoListing
    /\ UNCHANGED <<serverVars, panel, broken>>

handleDragEnd(c, from, over) ==
    LET to == Append(over, Last(from)) IN
    /\ Operable(from)
    /\ over \in TreeRows \ {from} /\ ~SystemRow(over)
    /\ ~IsStrictPrefix(from, over) /\ to # from
    /\ Mutate(c, [NoChange EXCEPT !.op = "rename", !.path = from, !.to = to],
              [shown EXCEPT !.folders = { Moved(from, to, f) : f \in @ }])

handleToggleExclude(c, p) ==
    LET list == IF p \in shown.excluded THEN shown.excluded \ {p} ELSE shown.excluded \cup {p} IN
    /\ Operable(p) /\ ~IsMutating
    /\ Mutate(c, [NoChange EXCEPT !.op = "exclude", !.list = list], [shown EXCEPT !.excluded = list])

\* A smart folder is reset, another one deleted, after a dialog that hides the tree.
handleDelete(c, p) ==
    /\ Operable(p) /\ ~IsMutating /\ ~IsPending("delete") /\ ~IsPending("reset")
    /\ \/ Mutate(c, [NoChange EXCEPT !.op = "delete", !.path = p],
                 [shown EXCEPT !.folders = @ \ (Inferiors(p, @) \cup {p})])
       \/ Mutate(c, [NoChange EXCEPT !.op = "reset", !.path = p], shown)

-----------------------------------------------------------------------------
(* The server.  The mail server may refuse anything; it renames a folder    *)
(* with all below it, but deletes it alone.                                 *)
Possible(r) ==
    CASE r.op = "rename"  -> r.to \notin mailbox.folders /\ \E f \in mailbox.folders : IsPrefix(r.path, f)
      [] r.op = "exclude" -> TRUE
      [] OTHER            -> r.path \in mailbox.folders

Effect(r) ==
    CASE r.op = "rename"  -> [mailbox EXCEPT !.folders = { Moved(r.path, r.to, f) : f \in @ }]
      [] r.op = "exclude" -> [mailbox EXCEPT !.excluded = r.list]
      [] OTHER            -> [mailbox EXCEPT !.folders = @ \ {r.path}]

\* An answer has come, or will not come: what was asked for is forgotten.
Concluded(c, s) ==
    changes' = [changes EXCEPT ![c] = [NoChange EXCEPT !.state = s, !.op = changes[c].op, !.last = changes[c].last,
                                         !.before = IF s = "failed" THEN changes[c].before ELSE NoListing]]

\* Before the answer is handled.
Perform(c) ==
    /\ changes[c].state = "sent" /\ Possible(changes[c])
    /\ mailbox' = Effect(changes[c])
    /\ Concluded(c, "done") \/ Concluded(c, "failed")   \* an answer that is lost looks like an error
    /\ UNCHANGED <<panel, listingCache, owed, overtaken, started>>

(* The answer comes first: an exclusion is only flushed when it is answered, *)
(* get_session commits after the response; and any request may go on when   *)
(* its connection is lost.                                                  *)
AnswerFirst(c) ==
    /\ changes[c].state = "sent"
    /\ (changes[c].op = "exclude" /\ Concluded(c, "done")) \/ Concluded(c, "failed")
    /\ owed' = owed \cup {[changes[c] EXCEPT !.before = NoListing, !.last = FALSE]}
    /\ UNCHANGED <<mailbox, panel, listingCache, overtaken, started>>

\* A commit may also fail, and a request be refused after all: then it stays owed.
PerformLate(r) ==
    /\ Possible(r)
    /\ mailbox' = Effect(r)
    /\ owed' = owed \ {r} /\ overtaken' = TRUE
    /\ UNCHANGED <<panel, listingCache, changes, started>>

\* Mutant: a state nobody waits for.
BugRefuse(c) ==
    /\ changes[c].state = "sent"
    /\ changes' = [changes EXCEPT ![c].state = "refused"]
    /\ UNCHANGED <<serverVars, panel, listingCache, started>>

Refuse(c) ==
    /\ changes[c].state = "sent"
    /\ Concluded(c, "failed")
    /\ UNCHANGED <<serverVars, panel, listingCache, started>>

-----------------------------------------------------------------------------
\* invalidateQueries: what is observed is fetched again, instead of a fetch under way.
Refetch ==
    /\ outdated' = TRUE
    /\ fetching' = IF panel THEN "sent" ELSE "idle"
    /\ arriving' = NoListing

\* Mutant: the listing is fetched again after a success only.
BugSettle(c) ==
    /\ changes[c].state \in {"done", "failed"}
    /\ IF changes[c].state = "failed" /\ changes[c].before # NoListing
       THEN shown' = changes[c].before /\ broken' = FALSE
       ELSE UNCHANGED <<shown, broken>>
    /\ IF changes[c].state = "done" THEN Refetch ELSE UNCHANGED <<outdated, fetching, arriving>>
    /\ changes' = [changes EXCEPT ![c] = NoChange]
    /\ UNCHANGED <<serverVars, panel, started>>

Settle(c) ==        \* onError, onSettled
    /\ changes[c].state \in {"done", "failed"}
    /\ IF changes[c].state = "failed" /\ changes[c].before # NoListing
       THEN shown' = changes[c].before /\ broken' = FALSE
       ELSE UNCHANGED <<shown, broken>>
    /\ Refetch
    /\ changes' = [changes EXCEPT ![c] = NoChange]
    /\ UNCHANGED <<serverVars, panel, started>>

-----------------------------------------------------------------------------
(* The query.  A fetch goes with the page; the hooks' callbacks do not.     *)
Enter ==
    /\ ~panel /\ panel' = TRUE
    /\ fetching' = IF outdated THEN "sent" ELSE "idle"
    /\ UNCHANGED <<serverVars, shown, outdated, broken, arriving, changes, started>>

Leave ==
    /\ panel /\ panel' = FALSE
    /\ fetching' = "idle" /\ arriving' = NoListing
    /\ changes' = [c \in Changes |-> [changes[c] EXCEPT !.last = FALSE]]
    /\ UNCHANGED <<serverVars, shown, outdated, broken, started>>

GrowOld ==
    /\ shown # NoListing /\ outdated' = TRUE
    /\ UNCHANGED <<serverVars, panel, shown, broken, fetching, arriving, changes, started>>

FetchAgain ==       \* the user's Retry, or the network is back
    /\ panel /\ fetching = "idle" /\ (broken \/ outdated)
    /\ fetching' = "sent"
    /\ UNCHANGED <<serverVars, panel, shown, outdated, broken, arriving, changes, started>>

List ==
    /\ fetching = "sent"
    /\ fetching' = "answered" /\ arriving' = mailbox /\ overtaken' = FALSE
    /\ UNCHANGED <<mailbox, owed, panel, shown, outdated, broken, changes, started>>

Arrive ==
    /\ fetching = "answered"
    /\ shown' = arriving /\ outdated' = FALSE /\ broken' = FALSE
    /\ fetching' = "idle" /\ arriving' = NoListing
    /\ UNCHANGED <<serverVars, panel, changes, started>>

ListFails ==
    /\ fetching # "idle"
    /\ outdated' = TRUE /\ broken' = TRUE
    /\ fetching' = "idle" /\ arriving' = NoListing
    /\ UNCHANGED <<serverVars, panel, shown, changes, started>>

FoldersNext ==
    \/ \E c \in Changes :
          \/ started < MaxStarted /\ shown # NoListing /\ \E p \in TreeRows :
                \/ \E over \in TreeRows : handleDragEnd(c, p, over)
                \/ handleToggleExclude(c, p) \/ handleDelete(c, p)
          \/ Perform(c) \/ AnswerFirst(c) \/ Refuse(c) \/ Settle(c)
    \/ \E r \in owed : PerformLate(r)
    \/ Enter \/ Leave \/ GrowOld \/ FetchAgain \/ List \/ Arrive \/ ListFails

FoldersSpec == FoldersInit /\ [][FoldersNext]_folderVars
-----------------------------------------------------------------------------
Listing == [folders : SUBSET Seq(STRING), excluded : SUBSET Seq(STRING)]

(* The variables have their types.                                          *)
FoldersTypeOK ==
    /\ mailbox \in Listing /\ shown \in Listing \cup {NoListing}
    /\ panel \in BOOLEAN /\ outdated \in BOOLEAN /\ broken \in BOOLEAN
    /\ fetching \in {"idle", "sent", "answered"} /\ arriving \in Listing \cup {NoListing}
    /\ overtaken \in BOOLEAN /\ started \in 0 .. MaxStarted
    /\ \A c \in Changes : changes[c].state \in {"free", "sent", "done", "failed"}

(* Once nothing is under way, the tree is the server's: however optimistic  *)
(* changes, rollbacks to each other's listings and cancelled fetches        *)
(* overlapped, none of them leaves its traces in a fresh listing.  Only a   *)
(* request that comes true after the listing that was to show it has been   *)
(* served leaves the tree behind the server, until it is fetched again.     *)
SettledTreeIsServers ==
    (\A c \in Changes : changes[c].state = "free") /\ fetching = "idle" /\ ~outdated
        => shown = mailbox \/ overtaken
=============================================================================
