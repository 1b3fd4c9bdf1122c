\* A folder and a summary approval of one mail: two jobs meet on its row; once all
\* approvals are decided and deleted, nothing is left to do.
SPECIFICATION FairSpec
CONSTANTS
    spam = spam  summary = summary  folder = folder  mail = mail
    None = None
    Inbox = "INBOX"
    Approvals = {folder, summary}
    Mails = {mail}
    Requests = {q1}
    Executors = {x1, x2}
    MailOf <- OneMail
    DestOf <- Dest
    Imap = {folder}
    Stores = {folder, summary}
    Spam = {}
    MaxTries = 2
    MaxTroubles = 1
PROPERTIES ExecutionsEnd ImplementsLifecycle
CHECK_DEADLOCK FALSE
