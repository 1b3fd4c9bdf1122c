\* The three oldest mails are of a user whose account stays paused.
SPECIFICATION StuckUserSpec
CONSTANTS
    m1 = m1  m2 = m2  m3 = m3  m4 = m4  u1 = u1  u2 = u2
    NoMail = NoMail
    CreatedAt <- Oldest
    BatchPerSlot = 3
    MaxBatch = 500
    Mails = {m1, m2, m3, m4}
    Users = {u1, u2}
    Runs = {r1}
    ApiRuns = {}
    Slots = {s1}
    UserOf <- Crowd
    FolderOf <- OwnFolder
    ProcessSlots = 1
    MaxConcurrent <- One
    Retryable = {}
    MaxTroubles = 1
PROPERTY HealthyUsersAreServed
