\* One scheduler run at a time, no Retry button: the caps hold.
SPECIFICATION Spec
CONSTANTS
    m1 = m1  m2 = m2  m3 = m3  m4 = m4  u1 = u1  u2 = u2
    NoMail = NoMail
    CreatedAt <- Oldest
    BatchPerSlot = 3
    MaxBatch = 500
    Mails = {m1, m2, m3}
    Users = {u1, u2}
    Runs = {r1}
    ApiRuns = {}
    Slots = {s1, s2}
    UserOf <- TwoUsers
    FolderOf <- OwnFolder
    ProcessSlots = 2
    MaxConcurrent <- One
    Retryable = {}
    MaxTroubles = 1
SYMMETRY Interchange
INVARIANT CapsRespected
