\* Two overlapping scheduler runs, max_concurrent_processing 1.
SPECIFICATION Spec
CONSTANTS
    m1 = m1  m2 = m2  m3 = m3  m4 = m4  u1 = u1  u2 = u2
    NoMail = NoMail
    CreatedAt <- Oldest
    BatchPerSlot = 3
    MaxBatch = 500
    Mails = {m1, m2}
    Users = {u1}
    Runs = {r1, r2}
    ApiRuns = {}
    Slots = {s1}
    UserOf <- OneUser
    FolderOf <- OwnFolder
    ProcessSlots = 2
    MaxConcurrent <- One
    Retryable = {}
    MaxTroubles = 0
INVARIANT CapsRespected
