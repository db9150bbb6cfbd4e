--------------------------- MODULE CalendarContents ---------------------------
(***************************************************************************)
(* What a calendar holds and what it says of a window or of a filter, by   *)
(* RFC 5545 and RFC 4791 and as the listing tools describe what they list. *)
(***************************************************************************)
EXTENDS Integers, Sequences

CONSTANTS
    Requests,       \* what listings may ask for
    Hrefs,          \* resources of the calendar
    Events, Tasks,  \* the documents it may hold
    Statuses,       \* the texts of a STATUS
    Upper,          \* the upper-case form of each
    Limit,          \* occurrences generated of a series (10000)
    Second,         \* units of time in a second; documents hold whole seconds
    None            \* no document, no date, no status, no filter

\* A VEVENT: it happens at its start, or recurs at all its occurrences, in
\* order (RRULE and EXDATE are resolved by the calcard library).  Its end may be
\* before its start.
Vevent == [start : Nat, end : Int, recurs : BOOLEAN, occurrences : Seq(Nat)]

EventDocument == [readable : BOOLEAN, event : Vevent]

Task == [readable : BOOLEAN, status : Statuses \cup {None}, due : Nat \cup {None}]

Windows == [op : {"events"}, start : Nat, end : Nat]

Filters == [op : {"tasks"}, status : Statuses \cup {None},
            dueAfter : Nat \cup {None}, dueBefore : Nat \cup {None}]

ASSUME ContentsAssumption ==
    /\ Requests \subseteq Windows \cup Filters
    /\ Events \subseteq EventDocument
    /\ Tasks \subseteq Task
    /\ Upper \in [Statuses -> Statuses]
    /\ Limit \in Nat /\ Second \in Nat \ {0}
    /\ None \notin Nat \cup Statuses \cup EventDocument \cup Tasks \cup Requests

Docs == Events \cup Tasks

\* A calendar at a moment: the document of each resource, and its ETag.
Moments == [store : [Hrefs -> Docs \cup {None}], version : [Hrefs -> Nat]]

-----------------------------------------------------------------------------

Elements(seq) == {seq[i] : i \in DOMAIN seq}

Starts(e) == IF e.recurs THEN Elements(e.occurrences) ELSE {e.start}

\* An occurrence goes on for its duration; one without lasts for its start.
Instants(s, e) == {s} \cup s..(s + (e.end - e.start) - 1)

\* An occurrence is in a window if one of its instants is.
Happens(s, e, w) == \E t \in Instants(s, e) : w.start <= t /\ t < w.end

Occurrences(e, w) == {s \in Starts(e) : Happens(s, e, w)}

Instance(s, e) ==
    [start |-> s, end |-> s + (e.end - e.start), instance |-> e.recurs]

\* The occurrences calcard generates: the first ones, up to the limit.
Generated(e) == {e.occurrences[i] : i \in {j \in DOMAIN e.occurrences : j <= Limit}}

\* "only tasks whose status matches", "due date at or after", "strictly before",
\* "without a due date are excluded" (src/src/mcp/tools.rs:48-56).
Wanted(task, f) ==
    /\ f.status # None => task.status # None /\ Upper[task.status] = Upper[f.status]
    /\ f.dueAfter # None => task.due # None /\ task.due >= f.dueAfter
    /\ f.dueBefore # None => task.due # None /\ task.due < f.dueBefore

Item(h, m, i) == [href |-> h, etag |-> m.version[h], item |-> i]

\* What a listing of everything asked for would show of one moment.
Shown(m, r) ==
    IF r.op = "events"
      THEN UNION {{Item(h, m, Instance(s, m.store[h].event)) :
                     s \in Occurrences(m.store[h].event, r)} :
                  h \in {x \in Hrefs : m.store[x] \in Events}}
      ELSE {Item(h, m, m.store[h]) :
              h \in {x \in Hrefs : m.store[x] \in Tasks /\ Wanted(m.store[x], r)}}

\* The window as it is written into the REPORT, without fractions of a second.
Sent(r) ==
    IF r.op = "events"
      THEN [r EXCEPT !.start = @ - (@ % Second), !.end = @ - (@ % Second)]
      ELSE r

\* Of the occurrences in a window these are shown, expanded saying whether the
\* server carried out the <expand> it was asked for: not what is over at the
\* start of the window, having no duration; nothing of an event of which
\* everything is in the second the window ends in; of a series the occurrences
\* up to the limit, or the first one the server put in their place.
Visible(s, e, r, expanded) ==
    /\ s + (e.end - e.start) > r.start
    /\ Occurrences(e, Sent(r)) # {}
    /\ e.recurs /\ ~expanded => s \in Generated(e)
    /\ e.recurs /\ expanded => \A o \in Occurrences(e, Sent(r)) : s <= o

\* An occurrence that the server made an event of its own is no instance.
VisibleInstance(s, e, expanded) ==
    [Instance(s, e) EXCEPT !.instance = e.recurs /\ ~expanded]

\* The part of what there is to show of a moment that a listing does show.
View(m, r, expanded) ==
    IF r.op = "events"
      THEN UNION {LET e == m.store[h].event
                  IN  {Item(h, m, VisibleInstance(s, e, expanded)) :
                         s \in {o \in Occurrences(e, r) : Visible(o, e, r, expanded)}} :
                  h \in {x \in Hrefs : m.store[x] \in Events}}
      ELSE Shown(m, r)

\* The documents a listing is about, of which one may be unreadable.
HeldFor(m, r) ==
    {h \in Hrefs : m.store[h] \in (IF r.op = "events" THEN Events ELSE Tasks)}

Unreadable(m, r) == {h \in HeldFor(m, r) : ~m.store[h].readable}
=============================================================================
