---------------------------- MODULE MCQueryCache ----------------------------
(* QueryCache with the pages of WebPages. *)
EXTENDS QueryCache, WebPages

Names(queries) == { q.name : q \in queries }
ShownQueries == layoutQueries \cup UNION Range(WebShown)
NotAborted == {listTools, listChannels, listEvents}

PagesOf(table, q) == { p \in DOMAIN table : q \in table[p] }
Touches(h, q) == Data[q.name] \cap h.changes # {}
Refreshes(h, q) == q.name \in h.refreshed

(* A query that is refetched in an interval wherever it is shown catches up by itself. *)
CatchesUp(q) == PagesOf(WebShown, q) \subseteq PagesOf(WebPolled, q)

(* The changes that leave another query stale, for as long as its data are *)
(* young enough not to be refetched when a page that shows it is opened.   *)
KnownStale ==
    { <<"removeLabel", "getLabelSummary">>, <<"removeNewsletter", "listNewsletters">>,
      <<"unlinkMail", "listContactMails">>, <<"movePlugin", "listPlugins">>,
      <<"newContact", "listAllSenders">>, <<"createFromSummary", "listAllSenders">>,
      <<"createFromSummary", "listContacts">>, <<"handleSync", "listAllSenders">>,
      <<"saveCardDav", "listAllSenders">>, <<"saveCardDav", "listContacts">>,
      <<"removeAccount", "listRules">>, <<"saveAccount", "listImapFolders">>,
      <<"removeAccount", "listImapFolders">>,
      <<"useUpdateExcludedFolders", "listMailAccounts">>,
      <<"useResetSmartFolder", "listAllSenders">>, <<"useResetSmartFolder", "listQueue">>,
      <<"useReprocessSmartFolder", "listQueue">>,
      <<"retryFailed", "listQueue">>, <<"resolveFailed", "listQueue">> }
    \cup { <<h.name, "listBlocklist">> : h \in spamButtons }

Concerning(q) ==
    { [page |-> h.page, op |-> IF h.via = "call" THEN h.op ELSE None, via |-> h.via, once |-> h.once,
       touches |-> Touches(h, q), refreshes |-> Refreshes(h, q), whole |-> h.whole,
       told |-> Touches(h, q) /\ ~CatchesUp(q) /\ <<h.name, q.name>> \notin KnownStale,
       saves |-> IF h.first = h.op THEN None ELSE h.first,
       writes |-> q.name \in h.writes, cancels |-> q.name \in h.cancels] :
      h \in { g \in WebHandlers : Touches(g, q) \/ Refreshes(g, q) } }

WebQueries ==
    { [name |-> q.name, shown |-> PagesOf(WebShown, q), polled |-> PagesOf(WebPolled, q),
       framed |-> q \in layoutQueries, varied |-> q.keyed \/ q.gated, aborted |-> q \notin NotAborted,
       handlers |-> Concerning(q)] : q \in ShownQueries }

(* KnownStale is the whole truth: no pair is listed that the pages do refresh. *)
ASSUME KnownStaleIsExact ==
    KnownStale =
        UNION { { <<h.name, q.name>> :
                    h \in { g \in WebHandlers : Touches(g, q) /\ ~(Refreshes(g, q) /\ g.whole) } }
                : q \in { r \in ShownQueries : ~CatchesUp(r) } }

(* No two queries share a key. *)
ASSUME KeysAreDistinct ==
    \A q, r \in ShownQueries : q.path = r.path => q = r
=============================================================================
