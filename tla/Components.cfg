SPECIFICATION ComponentsSpec
CONSTANTS
    Accounts = {a1, a2}
    Jobs = {j1, j2}
    Ticks = {t1, t2}
    MaxLost = 1
    Idle = Idle
    Starting = Starting
    Steps = 2
    MaxRuns = 2
    Initial <- MCInitial
    SystemNames <- MCSystem
    Changes = {c1, c2}
    MaxStarted = 2
    NoListing = NoListing
    Folders <- MCFolders
    System <- MCSystem
    Group <- MCGroup
    MaxListed = 3
    Probes = {p1}
    Works = {w1}
    Requests = {q1}
    MaxErrors = 2
INVARIANTS
    AccountsTypeOK TimerRunsForJobs
    PipelineTypeOK NoStepLeftRunning FinishedTestsShowResults
    FoldersTypeOK SettledTreeIsServers
    BadgesCountEveryMail
    PauseTypeOK ManualPauseHolds
PROPERTIES
    EveryCheckEnds EveryTestEnds AutomaticPausesEnd
CHECK_DEADLOCK FALSE
