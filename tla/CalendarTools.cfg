SPECIFICATION FairSpec
CONSTANTS
    Calls = {c1, c2}
    cal = cal
    u1 = u1
    f1 = f1
    f2 = f2
    text = text
    old = old
    new = new
    plain = plain
    alarm = alarm
    None = None
    Calendars = {cal}
    Uids <- MCUids
    FreshUids = {f1, f2}
    Values = {text, old, new}
    EmptyText = text
    Extras = {plain, alarm}
    NoExtra = plain
    DerivedEnd <- MCDerivedEnd
    Requests <- EventRequests
    OtherDocs <- EventDocs
    MaxClock = 2
    SendsEtag = TRUE
INVARIANTS AnswersTellTheTruth
PROPERTIES NoLostUpdate UpdateIsWhatWasAsked CreateNeverOverwrites CallsAreAtomic EveryCallIsAnswered
CHECK_DEADLOCK FALSE
