SPECIFICATION FairSpec
CONSTANTS
    h1 = h1
    h2 = h2
    c1 = c1
    Calls = {c1}
    Hrefs <- MCHrefs
    Requests <- MCRequests
    Events <- MCEvents
    Tasks <- MCTasks
    Statuses <- MCStatuses
    Upper <- MCUpper
    Limit = 2
    Second = 2
    MaxChanges = 2
    Times = {1, 2, 4, 6, 8}
    None = None
INVARIANTS IInv ListsOneMoment FailureHasCause WindowsTile
PROPERTIES EveryListingEnds ListingsAreAtomic
CHECK_DEADLOCK FALSE
