\* One approval, three open requests, three faults: decisions and what they cause;
\* once the approval is deleted nothing is left to do.
SPECIFICATION Spec
CONSTANTS
    spam = spam  summary = summary  folder = folder  mail = mail
    None = None
    Inbox = "INBOX"
    Approvals = {spam}
    Mails = {mail}
    Requests = {q1, q2, q3}
    Executors = {x1}
    MailOf <- OneMail
    DestOf <- Dest
    Imap = {spam}
    Stores = {}
    Spam = {spam}
    MaxTries = 3
    MaxTroubles = 3
SYMMETRY Interchange
INVARIANTS TypeOK OnlyGrantedIsApplied EditedActionsWin RejectionsAreReprocessed SoleMovesAreRecorded Consistency
PROPERTIES OnlyDecidedAreDeleted ImplementsLifecycle
CHECK_DEADLOCK FALSE
