------------------------------ MODULE WebPages ------------------------------
(***************************************************************************)
(* The pages of the web application: the queries each observes, those it    *)
(* refetches in an interval, and its handlers, each with the requests it    *)
(* sends and the queries it declares stale when they have succeeded.        *)
(*                                                                         *)
(* Where a handler does the latter decides when it happens: a callback of   *)
(* the mutation hook ("hook") and the code after an await ("await") always  *)
(* run; a callback handed to mutate() ("call") is dropped when the page is  *)
(* left or the same hook is used again.  Some show their change in the      *)
(* cache before it is made (setQueryData), and put it back on an error.     *)
(***************************************************************************)
EXTENDS ApiClient, ServerData, Sequences, SequencesExt

Handler(page, name, via, ops, refreshed) ==
    [page |-> page, name |-> name, via |-> via, once |-> FALSE, whole |-> TRUE,
     first |-> Head(ops).name, op |-> Last(ops).name, writes |-> {}, cancels |-> {},
     changes |-> UNION { Data[o.name] : o \in Range(ops) },
     refreshed |-> { q.name : q \in refreshed }]

Hook(page, name, ops, refreshed)     == Handler(page, name, "hook", ops, refreshed)
Awaited(page, name, ops, refreshed)  == Handler(page, name, "await", ops, refreshed)
Callback(page, name, ops, refreshed) == Handler(page, name, "call", ops, refreshed)

\* The page disables the control while the request is out.
Once(h) == [h EXCEPT !.once = TRUE]
\* Only the key with the parameters shown is declared stale.
OnlyShown(h) == [h EXCEPT !.whole = FALSE]
Also(h, data) == [h EXCEPT !.changes = @ \cup data]
\* It shows its change in advance.
Optimistic(h, queries) == [h EXCEPT !.writes = { q.name : q \in queries }]
\* It cancels their fetches when it begins, and refreshes them on errors too.
Cancelling(h, queries) == [h EXCEPT !.cancels = { q.name : q \in queries }]

-----------------------------------------------------------------------------
\* The frame: components/layout/sidebar.tsx, hooks/use-auth.ts
layoutQueries == {getSettings, listPlugins, getCurrentUser}
handleTimezoneChange == Awaited("layout", "handleTimezoneChange", <<updateSettings>>, {getSettings})
handleLanguageChange == Awaited("layout", "handleLanguageChange", <<updateSettings>>, {getSettings})

\* pages/dashboard
dashboardQueries == {getDashboardStats, listMailAccounts, listProviders}
dashboardPolled == {getDashboardStats}
dashboardApprovals == {listApprovals}
dashboardFailed == {getFailedMails}
dashboardJobs == {getCronJobs, getJobQueueStatus}
dashboardApprove == Once(Callback("dashboard", "dashboardApprove", <<approveAction>>, {listApprovals}))
dashboardReject == Once(Callback("dashboard", "dashboardReject", <<rejectAction>>, {listApprovals}))
retryFailed == Hook("dashboard", "retryFailed", <<retryFailedMail>>, {getFailedMails, getDashboardStats})
resolveFailed == Hook("dashboard", "resolveFailed", <<resolveFailedMail>>, {getFailedMails, getDashboardStats})
triggerCron == Hook("dashboard", "triggerCron", <<triggerCronJob>>, {getCronJobs})

\* pages/approvals
approvalsQueries == {listApprovals}
handleApprove == Optimistic(Callback("approvals", "handleApprove", <<approveAction>>,
                                     {listApprovals, listAssignedFolders}), {listApprovals})
handleReject == Optimistic(Callback("approvals", "handleReject", <<rejectAction>>, {listApprovals}), {listApprovals})
handleSaveAndApprove == Optimistic(Callback("approvals", "handleSaveAndApprove", <<editApproval, approveAction>>,
                                            {listApprovals, listAssignedFolders}), {listApprovals})

\* pages/queue.tsx; it polls only while it shows a mail being processed
queueQueries == {listMailAccounts, listQueue}
queueRetry == Callback("queue", "queueRetry", <<retryEmail>>, {listQueue})
queueCancel == Callback("queue", "queueCancel", <<cancelEmail>>, {listQueue})

\* pages/rules.tsx
rulesQueries == {listRules}
saveNewRule == Once(Callback("rules", "saveNewRule", <<createRule>>, {listRules}))
saveRule == Once(Callback("rules", "saveRule", <<updateRule>>, {listRules}))
handleToggleActive == Callback("rules", "handleToggleActive", <<updateRule>>, {listRules})
handleDeleteRule == Once(Callback("rules", "handleDeleteRule", <<deleteRule>>, {listRules}))
handleMoveUp == Once(Callback("rules", "handleMoveUp", <<reorderRules>>, {listRules}))
handleMoveDown == Once(Callback("rules", "handleMoveDown", <<reorderRules>>, {listRules}))

\* pages/ai-settings
aiSettingsQueries == {listProviders, listPlugins, getSettings}
unpauseProvider == Hook("ai-settings", "unpauseProvider", <<pauseProvider>>, {listProviders})
pauseOneProvider == Hook("ai-settings", "pauseOneProvider", <<pauseProvider>>, {listProviders})
resetHealth == Hook("ai-settings", "resetHealth", <<resetProviderHealth>>, {listProviders})
saveAISettings == Awaited("ai-settings", "saveAISettings", <<updateSettings>>, {getSettings})
togglePluginAssignment == Awaited("ai-settings", "togglePluginAssignment", <<updateSettings>>, {getSettings})
newProvider == Hook("ai-settings", "newProvider", <<createProvider>>, {listProviders, getSettings})
saveProvider == Hook("ai-settings", "saveProvider", <<updateProvider>>, {listProviders})
removeProvider == Hook("ai-settings", "removeProvider", <<deleteProvider>>, {listProviders})

\* pages/mail-accounts
mailAccountsQueries == {listMailAccounts, getSettings}
newAccount == Hook("mail-accounts", "newAccount", <<createMailAccount>>, {listMailAccounts})
saveAccount == Hook("mail-accounts", "saveAccount", <<updateMailAccount>>, {listMailAccounts})
removeAccount == Hook("mail-accounts", "removeAccount", <<deleteMailAccount>>, {listMailAccounts})
unpauseAccount == Hook("mail-accounts", "unpauseAccount", <<pauseMailAccount>>, {listMailAccounts})
pauseAccount == Hook("mail-accounts", "pauseAccount", <<pauseMailAccount>>, {listMailAccounts})
resetAccount == Hook("mail-accounts", "resetAccount", <<resetAccountHealth>>, {listMailAccounts})
saveMailSettings == Awaited("mail-accounts", "saveMailSettings", <<updateSettings>>, {getSettings})

\* pages/plugins.tsx, pages/tools.tsx
pluginsQueries == {listPlugins, getSettings}
saveApprovalMode == Awaited("plugins", "saveApprovalMode", <<updateSettings>>, {getSettings})
movePlugin == Once(Also(Callback("plugins", "movePlugin", <<updateSettings>>, {getSettings}), {"plugin order"}))
toolsQueries == {listTools}
toggleTool == Hook("tools", "toggleTool", <<updateToolMode>>, {listTools, getSettings})

\* pages/prompts.tsx
promptsQueries == {listPlugins, getSettings, listPrompts, getPrompt, listPromptVariables}
savePrompt == Once(Callback("prompts", "savePrompt", <<updatePrompt>>, {getPrompt, listPrompts}))
resetOnePrompt == Once(Callback("prompts", "resetOnePrompt", <<resetPrompt>>, {getPrompt, listPrompts}))

\* pages/notifications.tsx, components/notifications/template-editor.tsx
notificationsQueries == {listChannels, listEvents, listMailAccounts}
notificationsPolled == {listChannels}
templateQueries == {getNotificationConfig}
removeChannel == Hook("notifications", "removeChannel", <<deleteChannel>>, {listChannels})
saveChannel == Hook("notifications", "saveChannel", <<updateChannel>>, {listChannels})
newChannel == Hook("notifications", "newChannel", <<createChannel>>, {listChannels})
onSaveTemplate == Awaited("notifications", "onSaveTemplate", <<updateNotificationConfig>>, {getNotificationConfig})
onResetTemplate == Awaited("notifications", "onResetTemplate", <<updateNotificationConfig>>, {getNotificationConfig})

\* components/spam-button.tsx, in the lists of mails
SpamButton(page, op, refreshed) == Once(Callback(page, page \o " spam", <<op>>, refreshed))
spamButtons ==
    { SpamButton("summaries", reportSpam, {}),
      SpamButton("auto-reply", reportSpam, {listAutoReplies}),
      SpamButton("newsletters", reportSpam, {listNewsletters}),
      SpamButton("coupons", reportSpam, {listCoupons}),
      SpamButton("otp-codes", reportSpam, {listOtpCodes}),
      SpamButton("calendar", reportSpam, {listCalendarEvents}),
      SpamButton("contacts", createBlocklistEntry, {}) }

\* pages/spam.tsx
spamQueries == {listApprovals, listBlocklist}
handleUnblock == Awaited("spam", "handleUnblock", <<deleteBlocklistEntry>>, {listBlocklist})
handleBlock == Awaited("spam", "handleBlock", <<createBlocklistEntry>>, {listBlocklist})

\* The lists of what the plugins found
summariesQueries == {listSummaries}
removeSummary == Awaited("summaries", "removeSummary", <<deleteSummary>>, {listSummaries})
createFromSummary == Hook("summaries", "createFromSummary", <<createContact>>, {})
autoReplyQueries == {listAutoReplies}
removeReply == Awaited("auto-reply", "removeReply", <<deleteAutoReply>>, {listAutoReplies})
saveReply == Awaited("auto-reply", "saveReply", <<updateAutoReply>>, {listAutoReplies})
newslettersQueries == {listNewsletters}
removeNewsletter == OnlyShown(Awaited("newsletters", "removeNewsletter", <<deleteNewsletter>>, {listNewsletters}))
couponsQueries == {listCoupons}
removeCoupon == Awaited("coupons", "removeCoupon", <<deleteCoupon>>, {listCoupons})
toggleUsed == Awaited("coupons", "toggleUsed", <<updateCoupon>>, {listCoupons})
otpCodesQueries == {listOtpCodes}
removeCode == Awaited("otp-codes", "removeCode", <<deleteOtpCode>>, {listOtpCodes})
labelingQueries == {listAppliedLabels, getLabelSummary}
removeLabel == Awaited("labeling", "removeLabel", <<deleteAppliedLabel>>, {listAppliedLabels})

\* pages/contacts
contactsQueries == {getContactsConfig}
linkedMailsQueries == {listContactMails}
mappingsQueries == {listContacts, listAllSenders}
handleSync == Once(Callback("contacts", "handleSync", <<syncContacts>>, {listContacts, getContactsConfig}))
saveCardDav == Once(Callback("contacts", "saveCardDav", <<upsertContactsConfig>>, {getContactsConfig}))
unlinkMail == OnlyShown(Hook("contacts", "unlinkMail", <<unlinkContactMail>>, {listContactMails}))
handleAssign == Once(Callback("contacts", "handleAssign", <<assignEmailToContact>>, {listContacts, listAllSenders}))
handleRemoveEmail == Once(Callback("contacts", "handleRemoveEmail", <<removeEmailFromContact>>, {listContacts, listAllSenders}))
newContact == Hook("contacts", "newContact", <<createContact>>, {listContacts})

\* pages/calendar.tsx, components/calendar
calendarQueries == {getCalendarConfig}
eventsQueries == {listCalendarEvents}
handleDeleteEvent == Awaited("calendar", "handleDeleteEvent", <<deleteCalendarEvent>>, {listCalendarEvents})
handleSyncEvent == Awaited("calendar", "handleSyncEvent", <<syncCalendarEvent>>, {listCalendarEvents})
saveCalDav == Awaited("calendar", "saveCalDav", <<updateCalendarConfig>>, {getCalendarConfig})

\* pages/smart-folders
smartFoldersQueries == {listMailAccounts, getFolderSummary, listImapFolders}
ChangesListing(name, op) ==
    Cancelling(Optimistic(Hook("smart-folders", name, <<op>>, {listImapFolders}), {listImapFolders}), {listImapFolders})
useDeleteImapFolder == ChangesListing("useDeleteImapFolder", deleteImapFolder)
useRenameImapFolder == ChangesListing("useRenameImapFolder", renameImapFolder)
useUpdateExcludedFolders == ChangesListing("useUpdateExcludedFolders", updateExcludedFolders)
useResetSmartFolder ==
    LET refreshed == {getFolderSummary, listAssignedFolders, listImapFolders} IN
    Cancelling(Optimistic(Hook("smart-folders", "useResetSmartFolder", <<resetSmartFolder>>, refreshed),
                          {getFolderSummary}), refreshed)
useReprocessSmartFolder == Hook("smart-folders", "useReprocessSmartFolder", <<reprocessSmartFolder>>,
                                {getFolderSummary, listAssignedFolders})

-----------------------------------------------------------------------------
\* The routes of App.tsx
WebShown ==
    ("dashboard" :> dashboardQueries \cup dashboardApprovals \cup dashboardFailed \cup dashboardJobs) @@
    ("approvals" :> approvalsQueries) @@ ("queue" :> queueQueries) @@ ("rules" :> rulesQueries) @@
    ("ai-settings" :> aiSettingsQueries) @@ ("mail-accounts" :> mailAccountsQueries) @@
    ("plugins" :> pluginsQueries) @@ ("tools" :> toolsQueries) @@ ("prompts" :> promptsQueries) @@
    ("notifications" :> notificationsQueries \cup templateQueries) @@
    ("spam" :> spamQueries) @@ ("summaries" :> summariesQueries) @@
    ("auto-reply" :> autoReplyQueries) @@ ("newsletters" :> newslettersQueries) @@
    ("coupons" :> couponsQueries) @@ ("otp-codes" :> otpCodesQueries) @@ ("labeling" :> labelingQueries) @@
    ("contacts" :> contactsQueries \cup linkedMailsQueries \cup mappingsQueries) @@
    ("calendar" :> calendarQueries \cup eventsQueries) @@ ("smart-folders" :> smartFoldersQueries)

WebPolled ==
    ("dashboard" :> dashboardPolled \cup dashboardFailed \cup dashboardJobs) @@
    ("approvals" :> approvalsQueries) @@ ("notifications" :> notificationsPolled) @@
    ("coupons" :> couponsQueries) @@ ("otp-codes" :> otpCodesQueries)

WebHandlers ==
    { handleTimezoneChange, handleLanguageChange,
      dashboardApprove, dashboardReject, retryFailed, resolveFailed, triggerCron,
      handleApprove, handleReject, handleSaveAndApprove, queueRetry, queueCancel,
      saveNewRule, saveRule, handleToggleActive, handleDeleteRule, handleMoveUp, handleMoveDown,
      unpauseProvider, pauseOneProvider, resetHealth, saveAISettings, togglePluginAssignment,
      newProvider, saveProvider, removeProvider,
      newAccount, saveAccount, removeAccount, unpauseAccount, pauseAccount, resetAccount, saveMailSettings,
      saveApprovalMode, movePlugin, toggleTool, savePrompt, resetOnePrompt,
      removeChannel, saveChannel, newChannel, onSaveTemplate, onResetTemplate,
      handleUnblock, handleBlock, removeSummary, createFromSummary, removeReply, saveReply,
      removeNewsletter, removeCoupon, toggleUsed, removeCode, removeLabel,
      handleSync, saveCardDav, unlinkMail, handleAssign, handleRemoveEmail, newContact,
      handleDeleteEvent, handleSyncEvent, saveCalDav,
      useDeleteImapFolder, useRenameImapFolder, useResetSmartFolder, useReprocessSmartFolder,
      useUpdateExcludedFolders } \cup spamButtons
=============================================================================
