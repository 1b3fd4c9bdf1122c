----------------------------- MODULE ServerData -----------------------------
(***************************************************************************)
(* What the endpoints of the API (backend/app/api, one record per router)   *)
(* have to do with the data: a GET reads them, every other verb changes     *)
(* them.  Data are named by kind; a query reads the kinds a page shows of    *)
(* its answer.  What only the worker writes (processed mails, jobs that     *)
(* run) is left to QueryCache!WorkerChanges.                                *)
(***************************************************************************)
EXTENDS TLC

ai_providers ==
    [listProviders |-> {"providers"}, updateProvider |-> {"providers"},
     deleteProvider |-> {"providers"}, pauseProvider |-> {"providers"},
     resetProviderHealth |-> {"providers"}, testProvider |-> {},
     \* the first provider is assigned to every plugin
     createProvider |-> {"providers", "settings"},
     listPlugins |-> {"plugin order"}, listTools |-> {"tool modes"}]

approvals ==
    [listApprovals |-> {"approvals"}, approveAction |-> {"approvals"},
     rejectAction |-> {"approvals"}, editApproval |-> {"approvals"}]

auth == [getCurrentUser |-> {"session"}, logout |-> {"session"}]

auto_replies ==
    [listAutoReplies |-> {"auto replies"}, updateAutoReply |-> {"auto replies"},
     deleteAutoReply |-> {"auto replies"}]

calendar ==
    [getCalendarConfig |-> {"caldav"}, updateCalendarConfig |-> {"caldav"},
     testCalendarConfig |-> {}]

calendar_events ==
    [listCalendarEvents |-> {"events"}, deleteCalendarEvent |-> {"events"},
     syncCalendarEvent |-> {"events"}]

contacts ==
    [getContactsConfig |-> {"carddav"}, testContactsConfig |-> {},
     \* saving the address book's coordinates synchronises at once
     upsertContactsConfig |-> {"carddav", "contacts"},
     syncContacts |-> {"carddav", "contacts"},
     listContacts |-> {"contacts"}, createContact |-> {"contacts"},
     assignEmailToContact |-> {"contacts"}, removeEmailFromContact |-> {"contacts"},
     extractContactFromSender |-> {},
     \* senders are listed with the contact they belong to
     listAllSenders |-> {"contacts", "mails"},
     listContactMails |-> {"contact mails"}, unlinkContactMail |-> {"contact mails"}]

coupons ==
    [listCoupons |-> {"coupons"}, updateCoupon |-> {"coupons"}, deleteCoupon |-> {"coupons"}]

dashboard ==
    [getDashboardStats |-> {"accounts", "providers", "approvals", "rules", "mail status"},
     getJobQueueStatus |-> {"jobs", "mail status"}, getCronJobs |-> {"jobs"},
     triggerCronJob |-> {"jobs"}, getFailedMails |-> {"mail status"},
     retryFailedMail |-> {"mail status"}, resolveFailedMail |-> {"mail status"}]

folders ==
    [listAssignedFolders |-> {"assigned folders"}, getFolderSummary |-> {"assigned folders"},
     \* a reset empties and deletes the folder and drops rows of its mails
     resetSmartFolder |-> {"assigned folders", "imap folders", "mail status", "mails"},
     reprocessSmartFolder |-> {"mail status"}]

labels ==
    [listAppliedLabels |-> {"labels"}, getLabelSummary |-> {"labels"},
     deleteAppliedLabel |-> {"labels"}]

(* The form of an account edits its excluded folders too; its rules go with *)
(* a deleted account (MailAccount.rules cascades).                          *)
mail_accounts ==
    [listMailAccounts |-> {"accounts", "exclusions"}, createMailAccount |-> {"accounts"},
     updateMailAccount |-> {"accounts", "exclusions"},
     deleteMailAccount |-> {"accounts", "exclusions", "rules"},
     pauseMailAccount |-> {"accounts"}, resetAccountHealth |-> {"accounts"},
     testMailAccount |-> {}, pollAccountNow |-> {"jobs"},
     listImapFolders |-> {"imap folders", "exclusions"},
     deleteImapFolder |-> {"imap folders"}, renameImapFolder |-> {"imap folders"},
     updateExcludedFolders |-> {"exclusions"}]

newsletters == [listNewsletters |-> {"newsletters"}, deleteNewsletter |-> {"newsletters"}]

notifications ==
    [getNotificationConfig |-> {"templates"}, updateNotificationConfig |-> {"templates"},
     getDefaultTemplate |-> {}, previewNotification |-> {},
     listChannels |-> {"channels"}, createChannel |-> {"channels"},
     updateChannel |-> {"channels"}, deleteChannel |-> {"channels"},
     testChannel |-> {}, listEvents |-> {}]

otp == [listOtpCodes |-> {"codes"}, deleteOtpCode |-> {"codes"}]

pipeline == [testPipeline |-> {}]

prompts ==
    [listPrompts |-> {"prompts"}, getPrompt |-> {"prompts"}, updatePrompt |-> {"prompts"},
     resetPrompt |-> {"prompts"}, previewPrompt |-> {}, listPromptVariables |-> {}]

queue ==
    [listQueue |-> {"mail status"}, retryEmail |-> {"mail status"},
     cancelEmail |-> {"mail status"}]

rules ==
    [listRules |-> {"rules"}, createRule |-> {"rules"}, updateRule |-> {"rules"},
     deleteRule |-> {"rules"}, reorderRules |-> {"rules"}, testRule |-> {}, nlToRule |-> {}]

(* An update names the fields it changes: the order of the plugins is one   *)
(* of them, which the handler that sends it adds.                           *)
settings ==
    [getSettings |-> {"settings", "plugin order", "tool modes"},
     updateSettings |-> {"settings"}, updateToolMode |-> {"tool modes"}]

spam ==
    [listBlocklist |-> {"blocklist"}, createBlocklistEntry |-> {"blocklist"},
     deleteBlocklistEntry |-> {"blocklist"}, reportSpam |-> {"blocklist"},
     reportContactSpam |-> {"blocklist", "contacts"}]

summaries == [listSummaries |-> {"summaries"}, deleteSummary |-> {"summaries"}]

\* endpoint -> the kinds of data it reads or changes
Data ==
    ai_providers @@ approvals @@ auth @@ auto_replies @@ calendar @@ calendar_events
    @@ contacts @@ coupons @@ dashboard @@ folders @@ labels @@ mail_accounts
    @@ newsletters @@ notifications @@ otp @@ pipeline @@ prompts @@ queue @@ rules
    @@ settings @@ spam @@ summaries
=============================================================================
