------------------------------ MODULE ApiClient ------------------------------
(***************************************************************************)
(* The generated client of the web application                             *)
(* (src/frontend/src/services/api): one definition per endpoint a page      *)
(* uses.  A query is known in the query cache by its key, whose first       *)
(* element is the endpoint's path; a list adds its parameters (page,        *)
(* filters) to the key, a detail waits until its identifier is known.       *)
(* A mutation has no key: the pages say what it makes stale.                *)
(***************************************************************************)

Query(name, path, keyed, gated) ==
    [name |-> name, verb |-> "GET", path |-> path, keyed |-> keyed, gated |-> gated]

Fixed(name, path)       == Query(name, path, FALSE, FALSE)
Paged(name, path)       == Query(name, path, TRUE, FALSE)
Detail(name, path)      == Query(name, path, FALSE, TRUE)
PagedDetail(name, path) == Query(name, path, TRUE, TRUE)

Mutation(name, verb, path) ==
    [name |-> name, verb |-> verb, path |-> path, keyed |-> FALSE, gated |-> FALSE]

-----------------------------------------------------------------------------
\* ai-providers
listProviders == Fixed("listProviders", "/api/ai-providers")
createProvider == Mutation("createProvider", "POST", "/api/ai-providers")
listPlugins == Fixed("listPlugins", "/api/ai-providers/plugins")
updateProvider == Mutation("updateProvider", "PUT", "/api/ai-providers/{providerId}")
deleteProvider == Mutation("deleteProvider", "DELETE", "/api/ai-providers/{providerId}")
testProvider == Mutation("testProvider", "POST", "/api/ai-providers/{providerId}/test")
resetProviderHealth == Mutation("resetProviderHealth", "POST", "/api/ai-providers/{providerId}/reset-health")
pauseProvider == Mutation("pauseProvider", "PATCH", "/api/ai-providers/{providerId}/pause")

\* approvals
listApprovals == Paged("listApprovals", "/api/approvals")
approveAction == Mutation("approveAction", "POST", "/api/approvals/{approvalId}/approve")
rejectAction == Mutation("rejectAction", "POST", "/api/approvals/{approvalId}/reject")
editApproval == Mutation("editApproval", "PATCH", "/api/approvals/{approvalId}")

\* auth
logout == Mutation("logout", "POST", "/auth/logout")
getCurrentUser == Fixed("getCurrentUser", "/auth/me")

\* auto-replies
listAutoReplies == Paged("listAutoReplies", "/api/auto-replies")
updateAutoReply == Mutation("updateAutoReply", "PATCH", "/api/auto-replies/{replyId}")
deleteAutoReply == Mutation("deleteAutoReply", "DELETE", "/api/auto-replies/{replyId}")

\* calendar-events
listCalendarEvents == Paged("listCalendarEvents", "/api/calendar-events")
deleteCalendarEvent == Mutation("deleteCalendarEvent", "DELETE", "/api/calendar-events/{eventId}")
syncCalendarEvent == Mutation("syncCalendarEvent", "POST", "/api/calendar-events/{eventId}/sync")

\* calendar
getCalendarConfig == Fixed("getCalendarConfig", "/api/calendar/config")
updateCalendarConfig == Mutation("updateCalendarConfig", "PUT", "/api/calendar/config")
testCalendarConfig == Mutation("testCalendarConfig", "POST", "/api/calendar/config/test")

\* contacts
getContactsConfig == Fixed("getContactsConfig", "/api/contacts/config")
upsertContactsConfig == Mutation("upsertContactsConfig", "PUT", "/api/contacts/config")
testContactsConfig == Mutation("testContactsConfig", "POST", "/api/contacts/config/test")
syncContacts == Mutation("syncContacts", "POST", "/api/contacts/sync")
listContacts == Paged("listContacts", "/api/contacts")
createContact == Mutation("createContact", "POST", "/api/contacts")
listAllSenders == Paged("listAllSenders", "/api/contacts/senders")
extractContactFromSender == Mutation("extractContactFromSender", "POST", "/api/contacts/extract-from-sender")
listContactMails == PagedDetail("listContactMails", "/api/contacts/{contactId}/mails")
unlinkContactMail == Mutation("unlinkContactMail", "DELETE", "/api/contacts/{contactId}/mails/{assignmentId}")
assignEmailToContact == Mutation("assignEmailToContact", "POST", "/api/contacts/{contactId}/emails")
removeEmailFromContact == Mutation("removeEmailFromContact", "DELETE", "/api/contacts/{contactId}/emails")

\* coupons
listCoupons == Paged("listCoupons", "/api/coupons")
updateCoupon == Mutation("updateCoupon", "PATCH", "/api/coupons/{couponId}")
deleteCoupon == Mutation("deleteCoupon", "DELETE", "/api/coupons/{couponId}")

\* dashboard
getDashboardStats == Fixed("getDashboardStats", "/api/dashboard/stats")
getJobQueueStatus == Paged("getJobQueueStatus", "/api/dashboard/jobs")
getCronJobs == Fixed("getCronJobs", "/api/dashboard/crons")
triggerCronJob == Mutation("triggerCronJob", "POST", "/api/dashboard/crons/{cronName}/trigger")
getFailedMails == Paged("getFailedMails", "/api/dashboard/failed-mails")
retryFailedMail == Mutation("retryFailedMail", "POST", "/api/dashboard/failed-mails/{trackedEmailId}/retry")
resolveFailedMail == Mutation("resolveFailedMail", "POST", "/api/dashboard/failed-mails/{trackedEmailId}/resolve")

\* folders
listAssignedFolders == Paged("listAssignedFolders", "/api/folders")
getFolderSummary == Fixed("getFolderSummary", "/api/folders/summary")
resetSmartFolder == Mutation("resetSmartFolder", "DELETE", "/api/folders/by-name/{folderName}")
reprocessSmartFolder == Mutation("reprocessSmartFolder", "POST", "/api/folders/by-name/{folderName}/reprocess")

\* labels
listAppliedLabels == Paged("listAppliedLabels", "/api/labels")
getLabelSummary == Fixed("getLabelSummary", "/api/labels/summary")
deleteAppliedLabel == Mutation("deleteAppliedLabel", "DELETE", "/api/labels/{labelId}")

\* mail-accounts
listMailAccounts == Fixed("listMailAccounts", "/api/mail-accounts")
createMailAccount == Mutation("createMailAccount", "POST", "/api/mail-accounts")
updateMailAccount == Mutation("updateMailAccount", "PUT", "/api/mail-accounts/{accountId}")
deleteMailAccount == Mutation("deleteMailAccount", "DELETE", "/api/mail-accounts/{accountId}")
testMailAccount == Mutation("testMailAccount", "POST", "/api/mail-accounts/{accountId}/test")
resetAccountHealth == Mutation("resetAccountHealth", "POST", "/api/mail-accounts/{accountId}/reset-health")
pauseMailAccount == Mutation("pauseMailAccount", "PATCH", "/api/mail-accounts/{accountId}/pause")
listImapFolders == PagedDetail("listImapFolders", "/api/mail-accounts/{accountId}/folders")
pollAccountNow == Mutation("pollAccountNow", "POST", "/api/mail-accounts/{accountId}/poll")
deleteImapFolder == Mutation("deleteImapFolder", "DELETE", "/api/mail-accounts/{accountId}/folders/{folderPath}")
renameImapFolder == Mutation("renameImapFolder", "POST", "/api/mail-accounts/{accountId}/folders/rename")
updateExcludedFolders == Mutation("updateExcludedFolders", "PUT", "/api/mail-accounts/{accountId}/excluded-folders")

\* newsletters
listNewsletters == Paged("listNewsletters", "/api/newsletters")
deleteNewsletter == Mutation("deleteNewsletter", "DELETE", "/api/newsletters/{newsletterId}")

\* notifications
getNotificationConfig == Fixed("getNotificationConfig", "/api/notifications/config")
updateNotificationConfig == Mutation("updateNotificationConfig", "PUT", "/api/notifications/config")
getDefaultTemplate == Detail("getDefaultTemplate", "/api/notifications/templates/default/{eventType}")
previewNotification == Mutation("previewNotification", "POST", "/api/notifications/preview")

\* otp
listOtpCodes == Paged("listOtpCodes", "/api/otp-codes")
deleteOtpCode == Mutation("deleteOtpCode", "DELETE", "/api/otp-codes/{otpId}")

\* pipeline
testPipeline == Mutation("testPipeline", "POST", "/api/pipeline/test")

\* prompts
listPrompts == Fixed("listPrompts", "/api/prompts")
listPromptVariables == Fixed("listPromptVariables", "/api/prompts/variables")
getPrompt == Detail("getPrompt", "/api/prompts/{functionType}")
updatePrompt == Mutation("updatePrompt", "PUT", "/api/prompts/{functionType}")
resetPrompt == Mutation("resetPrompt", "POST", "/api/prompts/{functionType}/reset")
previewPrompt == Mutation("previewPrompt", "POST", "/api/prompts/{functionType}/preview")

\* queue
listQueue == Paged("listQueue", "/api/queue")
retryEmail == Mutation("retryEmail", "POST", "/api/queue/{emailId}/retry")
cancelEmail == Mutation("cancelEmail", "POST", "/api/queue/{emailId}/cancel")

\* rules
reorderRules == Mutation("reorderRules", "PUT", "/api/rules/reorder")
nlToRule == Mutation("nlToRule", "POST", "/api/rules/from-natural-language")
listRules == Paged("listRules", "/api/rules")
createRule == Mutation("createRule", "POST", "/api/rules")
updateRule == Mutation("updateRule", "PUT", "/api/rules/{ruleId}")
deleteRule == Mutation("deleteRule", "DELETE", "/api/rules/{ruleId}")
testRule == Mutation("testRule", "POST", "/api/rules/{ruleId}/test")

\* settings
getSettings == Fixed("getSettings", "/api/settings")
updateSettings == Mutation("updateSettings", "PUT", "/api/settings")

\* spam
reportSpam == Mutation("reportSpam", "POST", "/api/spam/report")
reportContactSpam == Mutation("reportContactSpam", "POST", "/api/spam/report-contact")
listBlocklist == Paged("listBlocklist", "/api/spam/blocklist")
createBlocklistEntry == Mutation("createBlocklistEntry", "POST", "/api/spam/blocklist")
deleteBlocklistEntry == Mutation("deleteBlocklistEntry", "DELETE", "/api/spam/blocklist/{entryId}")

\* summaries
listSummaries == Paged("listSummaries", "/api/summaries")
deleteSummary == Mutation("deleteSummary", "DELETE", "/api/summaries/{summaryId}")

\* tools (written by hand)
listTools == Fixed("listTools", "/api/ai-providers/tools")
updateToolMode == Mutation("updateToolMode", "PUT", "/api/settings")

\* pages/notifications.tsx: requests of the channels dialog, written by hand
listChannels == Fixed("listChannels", "notification-channels")
createChannel == Mutation("createChannel", "POST", "/api/notifications/channels")
updateChannel == Mutation("updateChannel", "PATCH", "/api/notifications/channels/{id}")
deleteChannel == Mutation("deleteChannel", "DELETE", "/api/notifications/channels/{id}")
testChannel == Mutation("testChannel", "POST", "/api/notifications/channels/{id}/test")
listEvents == Fixed("listEvents", "notification-events")

=============================================================================
