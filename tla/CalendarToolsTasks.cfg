SPECIFICATION Spec
CONSTANTS
    Calls = {c1, c2}
    cal = cal
    u1 = u1
    f1 = f1
    f2 = f2
    text = text
    old = old
    new = new
    plain = plain
    alarm = alarm
    None = None
    Calendars = {cal}
    Uids <- MCUids
    FreshUids = {f1}
    Values = {text, old, new}
    EmptyText = text
    Extras = {plain, alarm}
    NoExtra = plain
    DerivedEnd <- MCDerivedEnd
    Requests <- TaskRequests
    OtherDocs <- AllDocs
    MaxClock = 1
    SendsEtag = TRUE
SYMMETRY CallSymmetry
INVARIANTS IInv
PROPERTIES CallsAreAtomic
CHECK_DEADLOCK FALSE
