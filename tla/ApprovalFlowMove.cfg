\* One smart folder approval, no faults: the job waits for its own row lock.
SPECIFICATION Spec
CONSTANTS
    spam = spam  summary = summary  folder = folder  mail = mail
    None = None
    Inbox = "INBOX"
    Approvals = {folder}
    Mails = {mail}
    Requests = {q1}
    Executors = {x1}
    MailOf <- OneMail
    DestOf <- Dest
    Imap = {folder}
    Stores = {folder}
    Spam = {}
    MaxTries = 3
    MaxTroubles = 0
INVARIANT RowFollowsMail
CHECK_DEADLOCK FALSE
