\* One approval, no faults: the job may run before the approval is committed.
SPECIFICATION Spec
CONSTANTS
    spam = spam  summary = summary  folder = folder  mail = mail
    None = None
    Inbox = "INBOX"
    Approvals = {summary}
    Mails = {mail}
    Requests = {q1}
    Executors = {x1}
    MailOf <- OneMail
    DestOf <- Dest
    Imap = {}
    Stores = {summary}
    Spam = {}
    MaxTries = 3
    MaxTroubles = 0
INVARIANT ApprovalsAreExecuted
CHECK_DEADLOCK FALSE
