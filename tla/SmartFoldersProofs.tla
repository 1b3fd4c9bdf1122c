-------------------------- MODULE SmartFoldersProofs --------------------------
(* SettledTreeIsServers and the types, for every number of changes under    *)
(* way, all folders and every mail server.  The first proof uses nothing of *)
(* what renaming and deleting do to a listing; the second is about that.    *)
EXTENDS SmartFolders, SequenceTheorems, TLAPS

(* Nothing is under way.                                                    *)
Quiet == \A c \in Changes : changes[c].state = "free"

(* What makes it inductive: the answer on its way to a page where nothing   *)
(* is under way is the server's present state, unless a request came true since; without a page there is no   *)
(* fetch, so declaring the listing stale always reaches it; and a fetch     *)
(* that is aborted leaves behind a listing known to be old.                 *)
Settled ==
    /\ SettledTreeIsServers
    /\ Quiet /\ fetching = "answered" => arriving = mailbox \/ overtaken
    /\ ~panel => fetching = "idle"
    /\ fetching # "idle" \/ broken => outdated

(* Every change has a record, which has a state.                            *)
ChangesAreRecords ==
    /\ DOMAIN changes = Changes
    /\ changes = [c \in Changes |-> changes[c]]
    /\ \A c \in Changes : "state" \in DOMAIN changes[c]

FoldersInv == Settled /\ ChangesAreRecords

-----------------------------------------------------------------------------
(* The page starts closed, and its cache empty and old.                     *)
LEMMA FoldersInvInit == FoldersInit => FoldersInv
<1> SUFFICES ASSUME FoldersInit PROVE FoldersInv
  OBVIOUS
<1>1. Settled
  BY DEF FoldersInit, Settled, SettledTreeIsServers
<1>2. "state" \in DOMAIN NoChange
  BY DEF NoChange
<1>3. ChangesAreRecords
  BY <1>2 DEF FoldersInit, ChangesAreRecords
<1> QED BY <1>1, <1>3 DEF FoldersInv

(* A change is shown: it is under way, so nothing is claimed of the tree.   *)
LEMMA MutateStep ==
  ASSUME FoldersInv, NEW c \in Changes, NEW r, NEW optimistic,
         "state" \in DOMAIN r, ~broken, Mutate(c, r, optimistic)
  PROVE  FoldersInv'
<1> USE DEF FoldersInv
<1>1. ChangesAreRecords'
  BY DEF Mutate, ChangesAreRecords
<1>2. changes'[c].state = "sent"
  BY DEF Mutate, ChangesAreRecords
<1>3. fetching' = "idle" /\ ~broken'
  BY DEF Mutate
<1>4. Settled'
  BY <1>2, <1>3 DEF Settled, SettledTreeIsServers, Quiet
<1> QED BY <1>1, <1>4

(* Every handler shows its change, if it does anything.                     *)
LEMMA HandlersStep ==
  ASSUME FoldersInv, NEW c \in Changes, NEW p,
         \/ \E over \in TreeRows : handleDragEnd(c, p, over)
         \/ handleToggleExclude(c, p)
         \/ handleDelete(c, p)
  PROVE  FoldersInv'
<1>1. CASE \E over \in TreeRows : handleDragEnd(c, p, over)
  <2>1. PICK over \in TreeRows : handleDragEnd(c, p, over)
    BY <1>1
  <2> DEFINE r == [NoChange EXCEPT !.op = "rename", !.path = p, !.to = Append(over, Last(p))]
  <2>2. "state" \in DOMAIN r
    BY DEF NoChange
  <2>3. ~broken /\ \E optimistic : Mutate(c, r, optimistic)
    BY <2>1 DEF handleDragEnd, Operable
  <2> HIDE DEF r
  <2> QED BY <2>2, <2>3, MutateStep
<1>2. CASE handleToggleExclude(c, p)
  <2>1. PICK list : /\ list = IF p \in shown.excluded THEN shown.excluded \ {p} ELSE shown.excluded \cup {p}
                    /\ ~broken
                    /\ Mutate(c, [NoChange EXCEPT !.op = "exclude", !.list = list], [shown EXCEPT !.excluded = list])
    BY <1>2 DEF handleToggleExclude, Operable
  <2> DEFINE r == [NoChange EXCEPT !.op = "exclude", !.list = list]
  <2>2. "state" \in DOMAIN r
    BY DEF NoChange
  <2>3. ~broken /\ \E optimistic : Mutate(c, r, optimistic)
    BY <2>1
  <2> HIDE DEF r
  <2> QED BY <2>2, <2>3, MutateStep
<1>3. CASE handleDelete(c, p)
  <2>1. PICK op \in {"delete", "reset"} :
            ~broken /\ \E optimistic : Mutate(c, [NoChange EXCEPT !.op = op, !.path = p], optimistic)
    BY <1>3 DEF handleDelete, Operable
  <2> DEFINE r == [NoChange EXCEPT !.op = op, !.path = p]
  <2>2. "state" \in DOMAIN r
    BY DEF NoChange
  <2>3. ~broken /\ \E optimistic : Mutate(c, r, optimistic)
    BY <2>1
  <2> HIDE DEF r
  <2> QED BY <2>2, <2>3, MutateStep
<1> QED BY <1>1, <1>2, <1>3

(* What is over for the page is not settled yet.                            *)
LEMMA ServerStep ==
  ASSUME FoldersInv, NEW c \in Changes, Perform(c) \/ AnswerFirst(c) \/ Refuse(c)
  PROVE  FoldersInv'
<1> USE DEF FoldersInv
<1>1. PICK s \in {"done", "failed"} : Concluded(c, s) /\ UNCHANGED <<panel, listingCache>>
  BY DEF Perform, AnswerFirst, Refuse
<1> DEFINE r == [NoChange EXCEPT !.state = s, !.op = changes[c].op, !.last = changes[c].last,
                                 !.before = IF s = "failed" THEN changes[c].before ELSE NoListing]
<1>2. changes' = [changes EXCEPT ![c] = r]
  BY <1>1 DEF Concluded
<1>3. r.state = s /\ "state" \in DOMAIN r
  BY DEF NoChange
<1> HIDE DEF r
<1>4. ChangesAreRecords'
  BY <1>2, <1>3 DEF ChangesAreRecords
<1>5. changes'[c].state = s
  BY <1>2, <1>3 DEF ChangesAreRecords
<1>6. Settled'
  BY <1>1, <1>5 DEF Settled, SettledTreeIsServers, Quiet, listingCache
<1> QED BY <1>4, <1>6

(* A request that comes true when it is over may overtake the listing that  *)
(* was fetched for it.                                                      *)
LEMMA LateStep ==
  ASSUME FoldersInv, NEW r \in owed, PerformLate(r)
  PROVE  FoldersInv'
<1> USE DEF FoldersInv
<1>1. overtaken' /\ UNCHANGED <<panel, listingCache, changes>>
  BY DEF PerformLate
<1>2. ChangesAreRecords'
  BY <1>1 DEF ChangesAreRecords
<1>3. Settled'
  BY <1>1 DEF Settled, SettledTreeIsServers, listingCache
<1> QED BY <1>2, <1>3

(* Whoever settles last has the tree fetched after all changes.             *)
LEMMA SettleStep ==
  ASSUME FoldersInv, NEW c \in Changes, Settle(c)
  PROVE  FoldersInv'
<1> USE DEF FoldersInv
<1>1. "state" \in DOMAIN NoChange
  BY DEF NoChange
<1>2. ChangesAreRecords'
  BY <1>1 DEF Settle, ChangesAreRecords
<1>3. outdated' /\ (panel' => fetching' = "sent") /\ (~panel' => fetching' = "idle")
  BY DEF Settle, Refetch
<1>4. Settled'
  BY <1>3 DEF Settled, SettledTreeIsServers, Quiet
<1> QED BY <1>2, <1>4

(* An answer brings the listing of its time; leaving the page aborts the    *)
(* fetch of a listing that stays outdated.                                  *)
LEMMA QueryStep ==
  ASSUME FoldersInv, Enter \/ Leave \/ GrowOld \/ FetchAgain \/ List \/ Arrive \/ ListFails
  PROVE  FoldersInv'
<1> USE DEF FoldersInv
<1>1. CASE Leave
  <2>1. \A c \in Changes : changes'[c].state = changes[c].state
    BY <1>1 DEF Leave, ChangesAreRecords
  <2>2. ChangesAreRecords'
    BY <1>1 DEF Leave, ChangesAreRecords
  <2>3. Settled'
    BY <1>1, <2>1 DEF Leave, serverVars, Settled, SettledTreeIsServers, Quiet
  <2> QED BY <2>2, <2>3
<1>2. CASE Enter
  BY <1>2 DEF Enter, serverVars, Settled, SettledTreeIsServers, Quiet, ChangesAreRecords
<1>3. CASE GrowOld
  BY <1>3 DEF GrowOld, serverVars, Settled, SettledTreeIsServers, Quiet, ChangesAreRecords
<1>4. CASE FetchAgain
  BY <1>4 DEF FetchAgain, serverVars, Settled, SettledTreeIsServers, Quiet, ChangesAreRecords
<1>5. CASE List
  BY <1>5 DEF List, Settled, SettledTreeIsServers, Quiet, ChangesAreRecords
<1>6. CASE Arrive
  BY <1>6 DEF Arrive, serverVars, Settled, SettledTreeIsServers, Quiet, ChangesAreRecords
<1>7. CASE ListFails
  BY <1>7 DEF ListFails, serverVars, Settled, SettledTreeIsServers, Quiet, ChangesAreRecords
<1> QED BY <1>1, <1>2, <1>3, <1>4, <1>5, <1>6, <1>7

(* Every step of the hooks, the query and the server keeps the invariant.   *)
LEMMA FoldersInvStep == FoldersInv /\ [FoldersNext]_folderVars => FoldersInv'
<1> SUFFICES ASSUME FoldersInv, [FoldersNext]_folderVars PROVE FoldersInv'
  OBVIOUS
<1>1. CASE UNCHANGED folderVars
  BY <1>1 DEF folderVars, FoldersInv, Settled, SettledTreeIsServers, Quiet, ChangesAreRecords
<1>2. CASE FoldersNext
  BY <1>2, HandlersStep, ServerStep, LateStep, SettleStep, QueryStep DEF FoldersNext
<1> QED BY <1>1, <1>2

(* After whatever overlapping changes, rollbacks and aborted fetches, a     *)
(* fresh tree that waits for nothing shows the server's folders, unless a   *)
(* request came true after the listing had been served.                     *)
THEOREM TreeCorrect == FoldersSpec => []SettledTreeIsServers
<1>1. FoldersInv => SettledTreeIsServers
  BY DEF FoldersInv, Settled
<1> QED BY <1>1, FoldersInvInit, FoldersInvStep, PTL DEF FoldersSpec

-----------------------------------------------------------------------------
(* Types *)

(* A folder is a sequence of names.                                         *)
Names == Seq(STRING)

(* What the handlers do to sequences of names gives sequences of names.     *)
LEMMA NamePaths ==
  /\ <<>> \in Names
  /\ \A s \in Names : s # <<>> => Last(s) \in STRING
  /\ \A s \in Names, n \in STRING : Append(s, n) \in Names
  /\ \A s, t \in Names : s \o t \in Names
  /\ \A s \in Names : \A m \in 1..(Len(s)+1), n \in 0..Len(s) : SubSeq(s, m, n) \in Names
  /\ \A s \in Names : Len(s) \in Nat
<1>1. \A s \in Names : Len(s) \in Nat
  BY DEF Names
<1>2. \A s \in Names : s # <<>> => Last(s) \in STRING
  BY DEF Names, Last
<1>3. \A s \in Names, n \in STRING : Append(s, n) \in Names
  BY AppendProperties DEF Names
<1>4. \A s, t \in Names : s \o t \in Names
  BY DEF Names
<1>5. \A s \in Names : \A m \in 1..(Len(s)+1), n \in 0..Len(s) : SubSeq(s, m, n) \in Names
  BY SubSeqProperties DEF Names
<1>6. <<>> \in Names
  BY DEF Names
<1> QED BY <1>1, <1>2, <1>3, <1>4, <1>5, <1>6

(* A folder that goes where another went is a folder.                       *)
LEMMA MovedType == \A from, to, f \in Names : Moved(from, to, f) \in Names
<1> SUFFICES ASSUME NEW from \in Names, NEW to \in Names, NEW f \in Names,
                    Len(from) <= Len(f)
             PROVE  to \o SubSeq(f, Len(from) + 1, Len(f)) \in Names
  BY DEF Moved, IsPrefix
<1>1. /\ Len(from) + 1 \in 1..(Len(f) + 1) /\ Len(f) \in 0..Len(f)
  BY NamePaths
<1>2. SubSeq(f, Len(from) + 1, Len(f)) \in Names
  BY <1>1, NamePaths
<1> QED BY <1>2, NamePaths

(* A row of the tree is a folder of a level at least one.                   *)
LEMMA RowsAreNames ==
  ASSUME shown \in Listing
  PROVE  \A p \in TreeRows : p \in Names /\ p # <<>>
<1> SUFFICES ASSUME NEW f \in Names, NEW l \in 0..Len(f) PROVE SubSeq(f, 1, l) \in Names
  BY DEF TreeRows, Prefixes, Listing, Names
<1>1. 1 \in 1..(Len(f) + 1)
  BY NamePaths
<1> QED BY <1>1, NamePaths

(* What the cache may hold, and what a request remembers.                   *)
Shown == Listing \cup {NoListing}
Change == [state : {"free", "sent", "done", "failed"},
           op : {"none", "rename", "exclude", "delete", "reset"},
           path : Names, to : Names, list : SUBSET Names,
           before : Shown, last : BOOLEAN]

(* The types the steps need: a change carries folders, and the listing it   *)
(* puts back is one that was shown; so does a request that is owed.         *)
FoldersTypes == FoldersTypeOK /\ changes \in [Changes -> Change] /\ owed \subseteq Change

(* Where there is no request, the record is still one.                      *)
LEMMA NoChangeType == NoChange \in Change
BY NamePaths DEF NoChange, Change, Shown

(* The page starts with the account's folders and nothing cached.           *)
LEMMA TypesInit == FoldersInit => FoldersTypes
<1> SUFFICES ASSUME FoldersInit PROVE FoldersTypes
  OBVIOUS
<1>1. mailbox \in Listing /\ started \in 0 .. MaxStarted
  BY SmartFoldersAssumption DEF FoldersInit, Listing
<1>2. changes \in [Changes -> Change]
  BY NoChangeType DEF FoldersInit
<1>3. \A c \in Changes : changes[c].state = "free"
  BY DEF FoldersInit, NoChange
<1>4. owed = {} /\ overtaken = FALSE
  BY DEF FoldersInit
<1> QED BY <1>1, <1>2, <1>3, <1>4 DEF FoldersInit, FoldersTypes, FoldersTypeOK

(* A change has a state the hooks know.                                     *)
LEMMA ChangeStates ==
  ASSUME NEW f \in [Changes -> Change]
  PROVE  \A c \in Changes : f[c].state \in {"free", "sent", "done", "failed"}
BY DEF Change

(* onMutate: whatever the handler shows is a listing.                       *)
LEMMA MutateTypes ==
  ASSUME FoldersTypes, NEW c \in Changes, NEW r \in Change, NEW optimistic \in Shown,
         Mutate(c, r, optimistic)
  PROVE  FoldersTypes'
<1>1. FoldersTypeOK /\ changes \in [Changes -> Change]
  BY DEF FoldersTypes
<1>2. shown \in Shown
  BY <1>1 DEF FoldersTypeOK, Shown
<1>3. ASSUME NEW before \in Shown
      PROVE  [r EXCEPT !.state = "sent", !.last = TRUE, !.before = before] \in Change
  BY <1>3 DEF Change
<1>4. [r EXCEPT !.state = "sent", !.last = TRUE,
               !.before = IF r.op = "reset" THEN NoListing ELSE shown] \in Change
  BY <1>2, <1>3 DEF Shown
<1>5. \A d \in Changes : [changes[d] EXCEPT !.last = FALSE] \in Change
  BY <1>1 DEF Change
<1>6. changes' \in [Changes -> Change]
  BY <1>1, <1>4, <1>5 DEF Mutate
<1>7. \A d \in Changes : changes'[d].state \in {"free", "sent", "done", "failed"}
  BY <1>6, ChangeStates
<1>8. started' \in 0 .. MaxStarted /\ outdated' \in BOOLEAN
  BY <1>1, SmartFoldersAssumption DEF Mutate, FoldersTypeOK
<1>9. UNCHANGED <<mailbox, owed, overtaken>>
  BY DEF Mutate, serverVars
<1>10. FoldersTypeOK'
  BY <1>1, <1>7, <1>8, <1>9 DEF Mutate, FoldersTypeOK, Shown
<1> QED BY <1>6, <1>9, <1>10 DEF FoldersTypes

(* Dragging, excluding, deleting and resetting show listings of folders.    *)
LEMMA HandlersTypes ==
  ASSUME FoldersTypes, NEW c \in Changes, shown # NoListing, NEW p \in TreeRows,
         \/ \E over \in TreeRows : handleDragEnd(c, p, over)
         \/ handleToggleExclude(c, p)
         \/ handleDelete(c, p)
  PROVE  FoldersTypes'
<1>1. shown \in Listing /\ Listing \subseteq Shown
  BY DEF FoldersTypes, FoldersTypeOK, Shown
<1>2. /\ p \in Names /\ p # <<>>
      /\ \A over \in TreeRows : over \in Names
  BY <1>1, RowsAreNames
<1>3. CASE \E over \in TreeRows : handleDragEnd(c, p, over)
  <2>1. PICK over \in TreeRows : handleDragEnd(c, p, over)
    BY <1>3
  <2> DEFINE to == Append(over, Last(p))
             r == [NoChange EXCEPT !.op = "rename", !.path = p, !.to = to]
             optimistic == [shown EXCEPT !.folders = { Moved(p, to, f) : f \in @ }]
  <2>2. to \in Names
    BY <1>2, NamePaths
  <2>3. Mutate(c, r, optimistic)
    BY <2>1 DEF handleDragEnd
  <2> HIDE DEF to
  <2>4. r \in Change
    BY <1>2, <2>2, NoChangeType DEF Change
  <2>5. { Moved(p, to, f) : f \in shown.folders } \subseteq Names
    BY <1>1, <1>2, <2>2, MovedType DEF Listing, Names
  <2>6. optimistic \in Shown
    BY <1>1, <2>5 DEF Listing, Names
  <2> HIDE DEF r, optimistic
  <2> QED BY <2>3, <2>4, <2>6, MutateTypes
<1>4. CASE handleToggleExclude(c, p)
  <2> DEFINE list == IF p \in shown.excluded THEN shown.excluded \ {p} ELSE shown.excluded \cup {p}
             r == [NoChange EXCEPT !.op = "exclude", !.list = list]
             optimistic == [shown EXCEPT !.excluded = list]
  <2>1. Mutate(c, r, optimistic)
    BY <1>4 DEF handleToggleExclude
  <2>2. list \in SUBSET Names
    BY <1>1, <1>2 DEF Listing, Names
  <2> HIDE DEF list
  <2>3. r \in Change
    BY <2>2, NoChangeType DEF Change
  <2>4. optimistic \in Shown
    BY <1>1, <2>2 DEF Listing, Names
  <2> HIDE DEF r, optimistic
  <2> QED BY <2>1, <2>3, <2>4, MutateTypes
<1>5. CASE handleDelete(c, p)
  <2>1. PICK op \in {"delete", "reset"}, optimistic \in Shown :
          Mutate(c, [NoChange EXCEPT !.op = op, !.path = p], optimistic)
    <3> DEFINE rest == [shown EXCEPT !.folders = @ \ (Inferiors(p, @) \cup {p})]
    <3>1. rest \in Shown /\ shown \in Shown
      BY <1>1 DEF Listing
    <3>2. \/ Mutate(c, [NoChange EXCEPT !.op = "delete", !.path = p], rest)
          \/ Mutate(c, [NoChange EXCEPT !.op = "reset", !.path = p], shown)
      BY <1>5 DEF handleDelete
    <3> HIDE DEF rest
    <3> QED BY <3>1, <3>2
  <2> DEFINE r == [NoChange EXCEPT !.op = op, !.path = p]
  <2>2. r \in Change
    BY <1>2, NoChangeType DEF Change
  <2>3. Mutate(c, r, optimistic)
    BY <2>1
  <2> HIDE DEF r
  <2> QED BY <2>2, <2>3, MutateTypes
<1> QED BY <1>3, <1>4, <1>5

(* The mail server makes folders of folders.                                *)
LEMMA EffectType ==
  ASSUME mailbox \in Listing, NEW r \in Change
  PROVE  Effect(r) \in Listing
<1>1. r.path \in Names /\ r.to \in Names /\ r.list \in SUBSET Names
  BY DEF Change
<1>2. mailbox.folders \in SUBSET Names /\ mailbox.excluded \in SUBSET Names
  BY DEF Listing, Names
<1>3. { Moved(r.path, r.to, f) : f \in mailbox.folders } \in SUBSET Names
  BY <1>1, <1>2, MovedType
<1>4. \A s \in SUBSET Names : /\ [mailbox EXCEPT !.folders = s] \in Listing
                              /\ [mailbox EXCEPT !.excluded = s] \in Listing
  BY DEF Listing, Names
<1> DEFINE renamed == { Moved(r.path, r.to, f) : f \in mailbox.folders }
           rest == mailbox.folders \ {r.path}
<1>5. rest \in SUBSET Names
  BY <1>2
<1>6. \/ Effect(r) = [mailbox EXCEPT !.folders = renamed]
      \/ Effect(r) = [mailbox EXCEPT !.excluded = r.list]
      \/ Effect(r) = [mailbox EXCEPT !.folders = rest]
  BY DEF Effect
<1> HIDE DEF renamed, rest
<1> QED BY <1>1, <1>3, <1>4, <1>5, <1>6 DEF renamed

(* Every step of the hooks, the query and the server keeps the types.       *)
LEMMA FoldersTypesStep == FoldersTypes /\ [FoldersNext]_folderVars => FoldersTypes'
<1> SUFFICES ASSUME FoldersTypes, [FoldersNext]_folderVars PROVE FoldersTypes'
  OBVIOUS
<1>1. FoldersTypeOK /\ changes \in [Changes -> Change] /\ owed \subseteq Change
  BY DEF FoldersTypes
<1>2. CASE UNCHANGED folderVars
  BY <1>1, <1>2 DEF folderVars, FoldersTypes, FoldersTypeOK
<1>3. ASSUME NEW c \in Changes, shown # NoListing, NEW p \in TreeRows,
             \/ \E over \in TreeRows : handleDragEnd(c, p, over)
             \/ handleToggleExclude(c, p) \/ handleDelete(c, p)
      PROVE  FoldersTypes'
  BY <1>3, HandlersTypes
<1>4. ASSUME NEW c \in Changes, Perform(c) \/ AnswerFirst(c) \/ Refuse(c)
      PROVE  FoldersTypes'
  <2>1. PICK s \in {"done", "failed"} : Concluded(c, s) /\ UNCHANGED <<panel, listingCache, started, overtaken>>
    BY <1>4 DEF Perform, AnswerFirst, Refuse, serverVars
  <2> DEFINE r == [NoChange EXCEPT !.state = s, !.op = changes[c].op, !.last = changes[c].last,
                                   !.before = IF s = "failed" THEN changes[c].before ELSE NoListing]
  <2>2. r \in Change
    BY <1>1, NoChangeType DEF Change, Shown
  <2>3. changes' = [changes EXCEPT ![c] = r]
    BY <2>1 DEF Concluded
  <2>4. changes' \in [Changes -> Change]
    BY <1>1, <2>2, <2>3
  <2>5. \A d \in Changes : changes'[d].state \in {"free", "sent", "done", "failed"}
    BY <2>4, ChangeStates
  <2>6. mailbox' \in Listing
    BY <1>1, <1>4, EffectType DEF Perform, AnswerFirst, Refuse, serverVars, FoldersTypeOK
  <2>7. [changes[c] EXCEPT !.before = NoListing, !.last = FALSE] \in Change
    BY <1>1 DEF Change, Shown
  <2>8. owed' \subseteq Change
    BY <1>1, <1>4, <2>7 DEF Perform, AnswerFirst, Refuse, serverVars
  <2> QED BY <1>1, <2>1, <2>4, <2>5, <2>6, <2>8 DEF FoldersTypes, FoldersTypeOK, listingCache
<1>8. ASSUME NEW r \in owed, PerformLate(r)
      PROVE  FoldersTypes'
  <2>1. mailbox' \in Listing
    BY <1>1, <1>8, EffectType DEF PerformLate, FoldersTypeOK
  <2> QED BY <1>1, <1>8, <2>1 DEF PerformLate, FoldersTypes, FoldersTypeOK, listingCache
<1>5. ASSUME NEW c \in Changes, Settle(c)
      PROVE  FoldersTypes'
  <2>1. changes' \in [Changes -> Change]
    BY <1>1, <1>5, NoChangeType DEF Settle
  <2>2. \A d \in Changes : changes'[d].state \in {"free", "sent", "done", "failed"}
    BY <2>1, ChangeStates
  <2>3. changes[c].before \in Shown
    BY <1>1 DEF Change
  <2>4. shown' \in Shown /\ broken' \in BOOLEAN
    BY <1>1, <1>5, <2>3 DEF Settle, FoldersTypeOK, Shown
  <2> QED BY <1>1, <1>5, <2>1, <2>2, <2>4 DEF Settle, Refetch, serverVars, FoldersTypes, FoldersTypeOK, Shown
<1>6. CASE Leave
  <2>1. \A d \in Changes : [changes[d] EXCEPT !.last = FALSE] \in Change
    BY <1>1 DEF Change
  <2>2. changes' \in [Changes -> Change]
    BY <1>6, <2>1 DEF Leave
  <2>3. \A d \in Changes : changes'[d].state \in {"free", "sent", "done", "failed"}
    BY <2>2, ChangeStates
  <2> QED BY <1>1, <1>6, <2>2, <2>3 DEF Leave, serverVars, FoldersTypes, FoldersTypeOK
<1>7. CASE Enter \/ GrowOld \/ FetchAgain \/ List \/ Arrive \/ ListFails
  BY <1>1, <1>7 DEF Enter, GrowOld, FetchAgain, List, Arrive, ListFails, serverVars, FoldersTypes, FoldersTypeOK
<1> QED BY <1>2, <1>3, <1>4, <1>5, <1>6, <1>7, <1>8 DEF FoldersNext

(* The variables keep their types, for all folders, any number of changes,  *)
(* and every order of rollbacks: a listing that is put back is a listing.   *)
THEOREM FoldersTypeCorrect == FoldersSpec => []FoldersTypeOK
<1>1. FoldersTypes => FoldersTypeOK
  BY DEF FoldersTypes
<1> QED BY <1>1, TypesInit, FoldersTypesStep, PTL DEF FoldersSpec
=============================================================================
