-------------------------------- MODULE Listings --------------------------------
(***************************************************************************)
(* The listing tools list_events and list_tasks (src/mcp/tools.rs), the    *)
(* REPORT they make (src/caldav/client.rs, src/caldav/xml.rs) and the      *)
(* expansion of recurring events (src/ical.rs).  A listing waits for one   *)
(* answer; the server reads the calendar when it serves the REPORT, while  *)
(* other clients change it.  The server and those clients are external.    *)
(***************************************************************************)
EXTENDS CalendarContents

CONSTANTS
    Calls,       \* listings
    MaxChanges,  \* bound: changes by other clients
    Times        \* times at which two windows may meet

ASSUME ListingAssumption ==
    /\ MaxChanges \in Nat
    /\ Times \subseteq Nat

VARIABLES
    store,    \* server: the document of each resource, or None
    version,  \* server: its ETag
    changes,  \* how often other clients changed a resource
    request,  \* the request of each call, None before it starts
    phase,    \* "idle", "report" at the await of the REPORT, "done"
    report,   \* the answer under way: a status, and entries of a multistatus
    answer,   \* what the tool returned
    listed,   \* the events or tasks of an "ok" answer
    moments   \* history: what the calendar held while the call ran

server == <<store, version, changes>>
vars == <<store, version, changes, request, phase, report, answer, listed, moments>>

Nothing == [status |-> "none", entries |-> {}]

Moment == [store |-> store, version |-> version]

Init ==
    /\ store \in [Hrefs -> Events \cup Tasks \cup {None}]
    /\ version = [h \in Hrefs |-> 0]
    /\ changes = 0
    /\ request = [c \in Calls |-> None]
    /\ phase = [c \in Calls |-> "idle"]
    /\ report = [c \in Calls |-> Nothing]
    /\ answer = [c \in Calls |-> "none"]
    /\ listed = [c \in Calls |-> {}]
    /\ moments = [c \in Calls |-> {}]

-----------------------------------------------------------------------------
(***************************************************************************)
(* The program.                                                            *)
(***************************************************************************)

\* A faulty variant of Overlaps: only what starts in the window.
StartsIn(s, d, w) == w.start <= s /\ s < w.end

\* The check of expand_event, of a single event and of each occurrence.
Overlaps(s, d, w) == s < w.end /\ s + d > w.start

\* expand_event
Expand(e, w) ==
    {Instance(s, e) : s \in {x \in IF e.recurs THEN Generated(e) ELSE {e.start} :
                               Overlaps(x, e.end - e.start, w)}}

\* The status filter of list_tasks, without regard to case.
StatusFits(task, f) ==
    f.status # None => task.status # None /\ Upper[task.status] = Upper[f.status]

\* A faulty variant of DueFits: what is due at the inclusive bound is left out.
DueFitsStrictly(task, f) ==
    \/ f.dueAfter = None /\ f.dueBefore = None
    \/ /\ task.due # None
       /\ f.dueAfter # None => task.due > f.dueAfter
       /\ f.dueBefore # None => task.due < f.dueBefore

\* The due filter: with a bound, a task without a date does not fit.
DueFits(task, f) ==
    \/ f.dueAfter = None /\ f.dueBefore = None
    \/ /\ task.due # None
       /\ f.dueAfter # None => task.due >= f.dueAfter
       /\ f.dueBefore # None => task.due < f.dueBefore

\* One entry of the multistatus: an event stands for its instances, of the
\* first VEVENT of its document, a task for itself.
ListEntry(entry, r) ==
    IF r.op = "events"
      THEN {[href |-> entry.href, etag |-> entry.etag, item |-> i] :
              i \in Expand(entry.data.event, r)}
      ELSE {[href |-> entry.href, etag |-> entry.etag, item |-> task] :
              task \in {x \in {entry.data} : StatusFits(x, r) /\ DueFits(x, r)}}

Call(c) ==
    /\ phase[c] = "idle"
    /\ \E r \in Requests : request' = [request EXCEPT ![c] = r]
    /\ phase' = [phase EXCEPT ![c] = "report"]
    /\ moments' = [moments EXCEPT ![c] = {Moment}]
    /\ UNCHANGED <<server, report, answer, listed>>

Return(c, what) ==
    /\ phase' = [phase EXCEPT ![c] = "done"]
    /\ answer' = [answer EXCEPT ![c] = what]
    /\ report' = [report EXCEPT ![c] = Nothing]
    /\ UNCHANGED <<server, request, moments>>

\* Entries without calendar-data are passed over.
Data(c) == {entry \in report[c].entries : entry.data # None}

\* The events or tasks of the report.
Read(c) == UNION {ListEntry(entry, request[c]) : entry \in Data(c)}

\* A faulty variant of ListingFails: an entry without data is a failure too.
ListingFailsBare(c) ==
    /\ phase[c] = "report"
    /\ \/ /\ report[c].status \notin {"none", "multistatus"}
          /\ Return(c, report[c].status)
       \/ /\ report[c].status = "multistatus"
          /\ \/ \E entry \in Data(c) : ~entry.data.readable
             \/ Data(c) # report[c].entries
          /\ Return(c, "ical")
    /\ UNCHANGED listed

\* dav() on 4xx or 5xx, parse_multistatus on a body that is not XML, and
\* parse_todo or expand_event on one object that cannot be read.
ListingFails(c) ==
    /\ phase[c] = "report"
    /\ \/ /\ report[c].status \notin {"none", "multistatus"}
          /\ Return(c, report[c].status)
       \/ /\ report[c].status = "multistatus"
          /\ \E entry \in Data(c) : ~entry.data.readable
          /\ Return(c, "ical")
    /\ UNCHANGED listed

\* A faulty variant of ListingAnswers: objects that cannot be read are left out.
ListingAnswersRest(c) ==
    /\ phase[c] = "report"
    /\ report[c].status = "multistatus"
    /\ listed' = [listed EXCEPT ![c] = UNION {ListEntry(entry, request[c]) :
                                             entry \in {e \in Data(c) : e.data.readable}}]
    /\ Return(c, "ok")

ListingAnswers(c) ==
    /\ phase[c] = "report"
    /\ report[c].status = "multistatus"
    /\ \A entry \in Data(c) : entry.data.readable
    /\ listed' = [listed EXCEPT ![c] = Read(c)]
    /\ Return(c, "ok")

\* A faulty variant of GiveUp: a client without a timeout.
GiveUpBroken(c) ==
    /\ phase[c] = "report"
    /\ report[c].status = "server_error"
    /\ Return(c, "timeout")
    /\ UNCHANGED listed

\* The 30 s timeout, or a connection that breaks.
GiveUp(c) ==
    /\ phase[c] = "report"
    /\ Return(c, "timeout")
    /\ UNCHANGED listed

ListingStep(c) == ListingFails(c) \/ ListingAnswers(c) \/ GiveUp(c)

-----------------------------------------------------------------------------
(***************************************************************************)
(* The server and the other clients.                                       *)
(***************************************************************************)

\* calendar_query_body: the component asked for and, for events, a window.
\* The filter is carried out by the server, by RFC 4791.
Selected(doc, r) ==
    IF r.op = "events" THEN doc \in Events /\ Occurrences(doc.event, r) # {}
    ELSE doc \in Tasks

Proper(r) == r.op = "events" => r.start < r.end

\* What a server that carries out <expand> makes of a series: one VEVENT per
\* occurrence in the window, without a recurrence rule, the first one first.
Expanded(doc, w) ==
    IF doc.event.recurs
      THEN LET s == CHOOSE x \in Occurrences(doc.event, w) :
                      \A y \in Occurrences(doc.event, w) : x <= y
           IN  [doc EXCEPT !.event.start = s,
                           !.event.end = s + (doc.event.end - doc.event.start),
                           !.event.recurs = FALSE]
      ELSE doc

\* Whether the server carries out the <expand> it is asked for is its choice.
DataOf(doc, r, expanded) ==
    IF r.op = "events" /\ expanded THEN Expanded(doc, r) ELSE doc

Entries(m, r, expanded) ==
    {[href |-> h, etag |-> m.version[h], data |-> DataOf(m.store[h], r, expanded)] :
       h \in {x \in Hrefs : Selected(m.store[x], r)}}

Gone(h) == [href |-> h, etag |-> None, data |-> None]

\* The server reads the calendar; of what it no longer finds it may send an
\* entry without data.  It refuses a window that ends before it starts.
ServeReport(c) ==
    /\ phase[c] = "report"
    /\ report[c] = Nothing
    /\ Proper(Sent(request[c]))
    /\ \E expanded \in BOOLEAN, gone \in SUBSET {h \in Hrefs : store[h] = None} :
         report' = [report EXCEPT ![c] =
           [status |-> "multistatus",
            entries |-> Entries(Moment, Sent(request[c]), expanded) \cup {Gone(h) : h \in gone}]]
    /\ UNCHANGED <<server, request, phase, answer, listed, moments>>

Failures == {"client_error", "server_error", "xml"}

ServeFailure(c) ==
    /\ phase[c] = "report"
    /\ report[c] = Nothing
    /\ \E status \in Failures : report' = [report EXCEPT ![c] = [Nothing EXCEPT !.status = status]]
    /\ UNCHANGED <<server, request, phase, answer, listed, moments>>

Change(h) ==
    /\ changes < MaxChanges
    /\ store' \in {[store EXCEPT ![h] = doc] : doc \in Events \cup Tasks \cup {None}}
    /\ version' = [version EXCEPT ![h] = @ + 1]
    /\ changes' = changes + 1
    /\ moments' = [c \in Calls |-> IF phase[c] = "report" THEN moments[c] \cup {Moment'}
                                                         ELSE moments[c]]
    /\ UNCHANGED <<request, phase, report, answer, listed>>

Next ==
    \/ \E c \in Calls : Call(c) \/ ListingStep(c) \/ ServeReport(c) \/ ServeFailure(c)
    \/ \E h \in Hrefs : Change(h)

Spec == Init /\ [][Next]_vars

\* A waiting call is polled, at the latest when its timeout fires; nothing is
\* assumed of the server.
FairSpec == Spec /\ \A c \in Calls : WF_vars(ListingStep(c))

-----------------------------------------------------------------------------
(***************************************************************************)
(* Properties.                                                             *)
(***************************************************************************)

TypeOK ==
    /\ store \in [Hrefs -> Docs \cup {None}]
    /\ version \in [Hrefs -> Nat]
    /\ changes \in Nat
    /\ request \in [Calls -> Requests \cup {None}]
    /\ phase \in [Calls -> {"idle", "report", "done"}]
    /\ DOMAIN report = Calls
    /\ answer \in [Calls -> {"none", "ok", "ical", "timeout"} \cup Failures]
    /\ DOMAIN listed = Calls
    /\ moments \in [Calls -> SUBSET Moments]

Ok(c) == phase[c] = "done" /\ answer[c] = "ok"

\* "list_events - List events in a calendar within a time window"
\* (src/README.md:251), list_tasks likewise: a successful listing shows what there
\* was to show at one moment of the call, no mix of two, nothing added and
\* nothing left out but what View says, whatever other clients do meanwhile,
\* with the ETags of that moment.
ListsOneMoment ==
    \A c \in Calls : Ok(c) =>
      \E m \in moments[c], expanded \in BOOLEAN : listed[c] = View(m, request[c], expanded)

\* "server-side `expand` so recurring series come back as concrete instances"
\* (docs/superpowers/specs/2026-07-29-mcp-caldav-fastmail-design.md:143-145): the
\* occurrences a listing would show if the server sent every series as it is, it
\* shows whatever the server makes of <expand>.
SeriesAreListedWhole ==
    \A c \in Calls : Ok(c) =>
      \E m \in moments[c] : \A full \in View(m, request[c], FALSE) :
        \E i \in listed[c] : i.href = full.href /\ i.item.start = full.item.start

\* A listing fails because of an object only if one that was asked for could
\* not be read while it ran: not for an object of the other kind, nor for one
\* without an occurrence in the window.
FailureHasCause ==
    \A c \in Calls : answer[c] = "ical" =>
      \E m \in moments[c], h \in Hrefs :
        Selected(m.store[h], Sent(request[c])) /\ ~m.store[h].readable

\* What the program makes of the calendar of one moment.
Listing(m, r, expanded) ==
    UNION {ListEntry(entry, r) : entry \in Entries(m, Sent(r), expanded)}

\* Every request under way has the present among its moments, every report was
\* taken from one of them, and every listing was made from such a report.
Consistent(c) ==
    /\ phase[c] = "idle" => request[c] = None
    /\ phase[c] # "idle" => request[c] \in Requests
    /\ phase[c] # "done" => answer[c] = "none"
    /\ phase[c] = "report" => Moment \in moments[c]
    /\ report[c] # Nothing => phase[c] = "report"
    /\ report[c].status \in {"none", "multistatus"} \cup Failures
    /\ report[c].status = "multistatus" =>
         /\ Proper(Sent(request[c]))
         /\ \E m \in moments[c], expanded \in BOOLEAN, gone \in SUBSET Hrefs :
              report[c].entries =
                Entries(m, Sent(request[c]), expanded) \cup {Gone(h) : h \in gone}
    /\ Ok(c) =>
         /\ Proper(Sent(request[c]))
         /\ \E m \in moments[c], expanded \in BOOLEAN :
              listed[c] = Listing(m, request[c], expanded)

\* The inductive invariant of Spec (ListingsProofs): the listings are those of a
\* snapshot, and a failure because of an object has its cause.
IInv == TypeOK /\ FailureHasCause /\ \A c \in Calls : Consistent(c)

\* The two requests that r falls into at the moment t.
Before(r, t) ==
    IF r.op = "events" THEN [r EXCEPT !.end = t] ELSE [r EXCEPT !.dueBefore = t]

After(r, t) ==
    IF r.op = "events" THEN [r EXCEPT !.start = t] ELSE [r EXCEPT !.dueAfter = t]

\* A request of events falls apart within its window; one of tasks only if it
\* asks for a due date, as a task without one is in neither part.
Divides(t, r) ==
    IF r.op = "events"
      THEN r.start < t /\ t < r.end /\ t % Second = 0
      ELSE /\ r.dueAfter # None \/ r.dueBefore # None
           /\ r.dueAfter # None => r.dueAfter <= t
           /\ r.dueBefore # None => t <= r.dueBefore

\* What neither of two windows that meet at t lists, though the whole does: what
\* is over as the second one starts, having no duration, and what starts in the
\* second that it ends in.
BetweenParts(i, r, t) ==
    /\ r.op = "events" /\ i.item.start >= t
    /\ i.item.end <= t \/ i.item.start >= Sent(r).end

\* The first occurrence in the second window stands for a series there, if the
\* server expands it, and another one in the whole window.
StandsForSeries(i, m, r, expanded) ==
    expanded /\ r.op = "events" /\ m.store[i.href].event.recurs

\* Windows are half-open ("inclusive", "exclusive", src/src/mcp/tools.rs:25-30, 47-53):
\* what a listing shows is what listings of the two parts of its window, of the
\* same moment, would show together, so that nothing falls between two windows
\* but what BetweenParts says.
WindowsTile ==
    \A c \in Calls : Ok(c) =>
      \E m \in moments[c], expanded \in BOOLEAN :
        /\ listed[c] = Listing(m, request[c], expanded)
        /\ \A t \in Times : Divides(t, request[c]) =>
             LET before == Listing(m, Before(request[c], t), expanded)
                 after  == Listing(m, After(request[c], t), expanded)
             IN  /\ \A i \in listed[c] \ (before \cup after) : BetweenParts(i, request[c], t)
                 /\ before \subseteq listed[c]
                 /\ \A i \in after \ listed[c] : StandsForSeries(i, m, request[c], expanded)

\* The listing looks at the calendar when the server serves its REPORT.
Looked(c) == report[c].status = "multistatus"

Seen(c) == IF Looked(c) THEN Read(c) ELSE {}

Flawed(c) == Looked(c) /\ \E entry \in Data(c) : ~entry.data.readable

Verdict(c) ==
    IF phase[c] # "done" THEN "none"
    ELSE IF answer[c] = "ok" THEN "ok"
    ELSE IF answer[c] = "ical" THEN "flawed"
    ELSE "failed"

Atomic == INSTANCE AtomicListings WITH
    calendar <- Moment,
    asked    <- request,
    looked   <- [c \in Calls |-> Looked(c)],
    seen     <- [c \in Calls |-> Seen(c)],
    flawed   <- [c \in Calls |-> Flawed(c)],
    verdict  <- [c \in Calls |-> Verdict(c)],
    shown    <- listed

\* Every behaviour of the listings, however late their answers arrive and
\* whatever other clients do, is one of listings that look at the calendar in
\* one step between call and answer.
ListingsAreAtomic == Atomic!Spec

\* Every listing is answered, by the timeout if not by the server.
EveryListingEnds == \A c \in Calls : phase[c] = "report" ~> phase[c] = "done"
=============================================================================
