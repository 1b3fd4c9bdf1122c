\* Two overlapping scheduler runs of the worker and the API, two mails of one user;
\* ARQ has two slots, the scheduler leaves one of them free.
SPECIFICATION Spec
CONSTANTS
    m1 = m1  m2 = m2  m3 = m3  m4 = m4  u1 = u1  u2 = u2
    Mails = {m1, m2}
    Users = {u1}
    Runs = {r1, r2}
    ApiRuns = {r2}
    Slots = {s1, s2}
    NoMail = NoMail
    UserOf <- OneUser
    FolderOf <- SameFolder
    CreatedAt <- Oldest
    ProcessSlots = 1
    BatchPerSlot = 3
    MaxBatch = 500
    MaxConcurrent <- Two
    Retryable = {m1}
    MaxTroubles = 1
SYMMETRY Interchange
INVARIANTS TypeOK HeldRowsStayQueued OneJobPerMail Consistency
PROPERTIES SettledIsFinal ImplementsLifecycle
