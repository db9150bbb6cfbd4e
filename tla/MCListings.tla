------------------------------ MODULE MCListings ------------------------------
(* Small instances of Listings for TLC: windows, and events before, across,   *)
(* at and after their bounds.                                                 *)
EXTENDS Listings

CONSTANTS h1, h2, c1

Single(start, end) ==
    [readable |-> TRUE,
     event |-> [start |-> start, end |-> end, recurs |-> FALSE, occurrences |-> <<start>>]]

Spoilt(doc) == [doc EXCEPT !.readable = FALSE]

\* A series whose first occurrence, at 0, is excluded.
Series(occurrences, duration) ==
    [readable |-> TRUE,
     event |-> [start |-> 0, end |-> duration, recurs |-> TRUE, occurrences |-> occurrences]]

\* In the second the first window ends in; across the bounds of both windows and
\* past the limit; without a duration, where they start and meet.  A second is
\* two units long.
MCEvents ==
    {Single(6, 8), Series(<<2, 4, 8>>, 4), Series(<<4, 6>>, 0), Spoilt(Single(4, 8))}

\* One series, all of it within the limit.
MCSeries == {Series(<<2, 4, 8>>, 4)}

MCStatuses == {"COMPLETED", "completed", "NEEDS-ACTION"}

MCUpper == [s \in MCStatuses |-> IF s = "completed" THEN "COMPLETED" ELSE s]

TaskDoc(status, due) == [readable |-> TRUE, status |-> status, due |-> due]

MCTasks ==
    {TaskDoc("completed", 2), TaskDoc("NEEDS-ACTION", None), Spoilt(TaskDoc("COMPLETED", 3))}

Window(start, end) == [op |-> "events", start |-> start, end |-> end]

Filter(status, after, before) ==
    [op |-> "tasks", status |-> status, dueAfter |-> after, dueBefore |-> before]

\* Two listings of each kind, and a window that ends before it starts.
MCRequests ==
    {Window(3, 7), Window(4, 10), Window(6, 2), Filter("COMPLETED", None, None),
     Filter(None, 1, None)}

MCHrefs == {h1, h2}
=============================================================================
