SPECIFICATION Spec
CONSTANTS
    h1 = h1
    h2 = h2
    c1 = c1
    Calls = {c1}
    Hrefs <- MCHrefs
    Requests <- MCRequests
    Events <- MCSeries
    Tasks <- MCTasks
    Statuses <- MCStatuses
    Upper <- MCUpper
    Limit = 3
    Second = 2
    MaxChanges = 0
    Times = {1, 2, 4, 6, 8}
    None = None
INVARIANTS SeriesAreListedWhole
CHECK_DEADLOCK FALSE
