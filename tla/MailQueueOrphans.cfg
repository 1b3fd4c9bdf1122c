\* A worker that crashes with a job running or waiting.
SPECIFICATION Spec
CONSTANTS
    m1 = m1  m2 = m2  m3 = m3  m4 = m4  u1 = u1  u2 = u2
    NoMail = NoMail
    CreatedAt <- Oldest
    BatchPerSlot = 3
    MaxBatch = 500
    Mails = {m1}
    Users = {u1}
    Runs = {r1}
    ApiRuns = {}
    Slots = {s1}
    UserOf <- OneUser
    FolderOf <- OwnFolder
    ProcessSlots = 1
    MaxConcurrent <- One
    Retryable = {}
    MaxTroubles = 1
PROPERTY ResetRowsHaveNoJob
