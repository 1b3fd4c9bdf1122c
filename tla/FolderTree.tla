------------------------------ MODULE FolderTree ------------------------------
(***************************************************************************)
(* The tree of an account's mail folders (pages/smart-folders,              *)
(* folder-tree-utils.ts).  The server lists the folders in any order, with  *)
(* or without the folders above them; the page builds the tree, groups the  *)
(* system folders, and shows a number of mails on each row: of the folder   *)
(* alone, or of all below it while the row is collapsed.                    *)
(*                                                                         *)
(* A folder is the sequence of its names and holds one mail.                *)
(***************************************************************************)
EXTENDS Naturals, FiniteSets, Sequences, SequencesExt, FiniteSetsExt

CONSTANTS
    Folders,    \* folders an account may have
    System,     \* names of system folders: inbox, sent, trash, ...
    Group,      \* the virtual row of the system folders
    MaxListed   \* bound: folders in a listing

ASSUME FolderTreeAssumption ==
    /\ \A f \in Folders : f \in Seq(STRING) /\ f # <<>>
    /\ \A f \in Folders : Group \notin Prefixes(f)     \* nor is it above one
    /\ MaxListed \in Nat

VARIABLES
    listing,        \* the folders, as the server lists them
    expandedPaths   \* rows that are expanded; they stay so when rows go

treeVars == <<listing, expandedPaths>>

isSystemFolder(p) == Len(p) = 1 /\ p[1] \in System

\* Mutant: the rows above are made anew for every folder.
BugAddFolder(tree, f) ==
    [p \in DOMAIN tree \cup (Prefixes(f) \ {<<>>}) |->
        IF p = f THEN 1 ELSE IF p \in DOMAIN tree \ Prefixes(f) THEN tree[p] ELSE 0]

\* nodeMap: missing folders above are added, and only the folder itself counts.
AddFolder(tree, f) ==
    [p \in DOMAIN tree \cup (Prefixes(f) \ {<<>>}) |->
        IF p = f THEN 1 ELSE IF p \in DOMAIN tree THEN tree[p] ELSE 0]

buildFolderTree(folders) == FoldLeft(AddFolder, [p \in {} |-> 0], folders)

ChildrenOf(tree, p) == { c \in DOMAIN tree : Front(c) = p }

computeTotals(tree) ==
    LET total[p \in DOMAIN tree] ==
            tree[p] + MapThenSumSet(LAMBDA c : total[c], ChildrenOf(tree, p))
    IN  total

-----------------------------------------------------------------------------
\* The rows: the top-level system folders are below a row of their own.
RowParent(p) == IF Len(p) > 1 THEN Front(p) ELSE IF isSystemFolder(p) THEN Group ELSE <<>>

Rows(tree) ==
    DOMAIN tree \cup (IF \E p \in DOMAIN tree : isSystemFolder(p) THEN {Group} ELSE {})

RowVisible(p) ==
    IF p = Group THEN TRUE
    ELSE /\ \A q \in Prefixes(p) \ {<<>>, p} : q \in expandedPaths
         /\ isSystemFolder(<<p[1]>>) => Group \in expandedPaths

Badge(tree, p) ==
    IF p = Group
    THEN IF Group \in expandedPaths THEN 0
         ELSE MapThenSumSet(LAMBDA s : computeTotals(tree)[s], { q \in DOMAIN tree : isSystemFolder(q) })
    ELSE IF ChildrenOf(tree, p) # {} /\ p \notin expandedPaths THEN computeTotals(tree)[p] ELSE tree[p]

-----------------------------------------------------------------------------
Listings == UNION { SetToSeqs(s) : s \in { t \in SUBSET Folders : Cardinality(t) \in 1 .. MaxListed } }

TreeInit == listing \in Listings /\ expandedPaths = {}

toggleExpanded(p) ==
    /\ p \in Rows(buildFolderTree(listing)) /\ RowVisible(p)
    /\ expandedPaths' = IF p \in expandedPaths THEN expandedPaths \ {p} ELSE expandedPaths \cup {p}
    /\ UNCHANGED listing

Refetched ==        \* a folder came, went or was moved
    /\ \E i \in 1 .. Len(listing), f \in Folders \ Range(listing) :
          \/ listing' = RemoveAt(listing, i) /\ Len(listing) > 1
          \/ listing' = [listing EXCEPT ![i] = f]
    /\ UNCHANGED expandedPaths

TreeNext == (\E p \in Folders \cup {Group} : toggleExpanded(p)) \/ Refetched
TreeSpec == TreeInit /\ [][TreeNext]_treeVars
-----------------------------------------------------------------------------
(* The numbers on the rows one sees always add up to all mails: whatever    *)
(* order the folders were listed in, whichever of them are missing in it,   *)
(* and whatever has been expanded, before or after the last fetch           *)
(* (buildFolderTree, computeTotals, mailCountBadge).                        *)
BadgesCountEveryMail ==
    LET tree == buildFolderTree(listing) IN
    MapThenSumSet(LAMBDA p : Badge(tree, p), { q \in Rows(tree) : RowVisible(q) }) = Len(listing)
=============================================================================
