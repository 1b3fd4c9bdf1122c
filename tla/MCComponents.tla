---------------------------- MODULE MCComponents ----------------------------
(* The pages with a protocol of their own, and the pausing of accounts; a    *)
(* behaviour is about one of them, "part".                                   *)
EXTENDS AccountOperations, PipelineTest, SmartFolders, FolderTree, PauseControl

VARIABLE part

ComponentsInit ==
    /\ part \in {"mail-accounts", "plugins", "smart-folders", "tree", "pause"}
    /\ AccountsInit /\ PipelineInit /\ FoldersInit /\ PauseInit
    /\ IF part = "tree" THEN TreeInit ELSE listing = <<>> /\ expandedPaths = {}

\* Connection tests share nothing with checks of new mail; here they end before the first one.
TestsFirst == testing' = {} \/ \A j \in Jobs : jobs'[j] = "unused"

ComponentsNext ==
    /\ UNCHANGED part
    /\ \/ /\ part = "mail-accounts" /\ AccountsNext /\ TestsFirst
          /\ UNCHANGED <<pipelineVars, folderVars, treeVars, pauseVars>>
       \/ part = "plugins" /\ PipelineNext /\ UNCHANGED <<accountVars, folderVars, treeVars, pauseVars>>
       \/ part = "smart-folders" /\ FoldersNext /\ UNCHANGED <<accountVars, pipelineVars, treeVars, pauseVars>>
       \/ part = "tree" /\ TreeNext /\ UNCHANGED <<accountVars, pipelineVars, folderVars, pauseVars>>
       \/ part = "pause" /\ PauseNext /\ UNCHANGED <<accountVars, pipelineVars, folderVars, treeVars>>

componentsVars == <<part, accountVars, pipelineVars, folderVars, treeVars, pauseVars>>

(* What is fair in a part that is not followed is never enabled.            *)
ComponentsSpec ==
    ComponentsInit /\ [][ComponentsNext]_componentsVars /\ AccountsFairness /\ PipelineFairness /\ PauseFairness

MCSystem == {"inbox", "sent"}
MCGroup == <<"__system__">>
MCFolders == {<<"inbox">>, <<"inbox", "a">>, <<"a">>, <<"a", "b">>, <<"a", "b", "inbox">>, <<"sent">>}
MCInitial == {<<"inbox">>, <<"a">>, <<"b">>}
=============================================================================
