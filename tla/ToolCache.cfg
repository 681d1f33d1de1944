SPECIFICATION FairSpec
CONSTANTS
    Tasks = {t1, t2}
    NoTask = NoTask
    NoCache = NoCache
    MaxCalls = 3
    MaxInvalidations = 1
    MaxChanges = 1
INVARIANTS
    PopulatedIsCurrent
    NoRedundantFetch
PROPERTIES
    Fresh
    EveryCallReturns
