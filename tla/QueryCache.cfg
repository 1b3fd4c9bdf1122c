\* Every query of every page, one behaviour each; two mutations under way, one
\* failing fetch, two changes.
SPECIFICATION FairSpec
CONSTANTS
    None = None
    Queries <- WebQueries
    Away = "not-found"
    Frame = "layout"
    Slots = {c1, c2}
    MaxChanges = 2
    MaxFaults = 1
INVARIANT TypeOK
INVARIANT AnnouncedChangesShow
CHECK_DEADLOCK FALSE
PROPERTY PolledQueriesConverge
