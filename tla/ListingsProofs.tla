----------------------------- MODULE ListingsProofs -----------------------------
(***************************************************************************)
(* Proofs about Listings: for every calendar, window, filter and number of *)
(* calls, and whatever the server makes of <expand>, a listing shows one   *)
(* moment of the calendar as View says, what is listed of a window is what *)
(* is listed of its parts, and the listings implement AtomicListings.      *)
(***************************************************************************)
EXTENDS Listings, TLAPS, WellFoundedInduction

-----------------------------------------------------------------------------
(***************************************************************************)
(* Occurrences.                                                            *)
(***************************************************************************)

\* Occurrences are points in time; the generated ones are among them.
LEMMA StartsInNat ==
    ASSUME NEW e \in Vevent
    PROVE  Starts(e) \subseteq Nat /\ Generated(e) \subseteq Elements(e.occurrences)
<1>1. e.start \in Nat /\ e.occurrences \in Seq(Nat)
    BY DEF Vevent
<1>2. Elements(e.occurrences) \subseteq Nat
    BY <1>1 DEF Elements
<1>3. Generated(e) \subseteq Elements(e.occurrences)
    BY DEF Generated, Elements
<1> QED BY <1>1, <1>2, <1>3 DEF Starts

\* The documents of a moment.
LEMMA EventOfMoment ==
    ASSUME NEW doc \in Events
    PROVE  doc.event \in Vevent /\ doc \in EventDocument
BY ContentsAssumption DEF EventDocument

Earlier == {p \in Nat \X Nat : p[1] < p[2]}

LEMMA EarlierWellFounded == IsWellFoundedOn(Earlier, Nat)
BY NatLessThanWellFounded DEF OpToRel, Earlier

\* Of the occurrences in a window one is the first.
LEMMA FirstOccurrence ==
    ASSUME NEW e \in Vevent, NEW w, Occurrences(e, w) # {}
    PROVE  LET s == CHOOSE x \in Occurrences(e, w) : \A y \in Occurrences(e, w) : x <= y
           IN  s \in Occurrences(e, w) /\ \A y \in Occurrences(e, w) : s <= y
<1> DEFINE S == Occurrences(e, w)
<1>1. S \subseteq Nat /\ S # {}
    BY StartsInNat DEF Occurrences
<1> HIDE DEF S
<1>2. PICK x \in S : \A y \in S : <<y, x>> \notin Earlier
    BY <1>1, EarlierWellFounded, WFMin
<1>3. \A y \in S : x <= y
  <2>1. \A y \in S : ~(y < x)
      BY <1>1, <1>2 DEF Earlier
  <2>2. \A a, b \in Nat : ~(a < b) => b <= a
      OBVIOUS
  <2> QED BY <1>1, <2>1, <2>2, Zenon
<1>4. \E s \in S : \A y \in S : s <= y
    BY <1>3
<1>5. LET s == CHOOSE z \in S : \A y \in S : z <= y
      IN  s \in S /\ \A y \in S : s <= y
    BY <1>4
<1> QED BY <1>5 DEF S

\* What the server's expansion makes of a series is a document, as readable as
\* the series, of a single event at its first occurrence in the window.
LEMMA ExpandedSeries ==
    ASSUME NEW doc \in Events, NEW w, Occurrences(doc.event, w) # {}, doc.event.recurs
    PROVE  /\ Expanded(doc, w) \in EventDocument
           /\ Expanded(doc, w).readable = doc.readable
           /\ \E s \in Occurrences(doc.event, w) :
                 /\ \A y \in Occurrences(doc.event, w) : s <= y
                 /\ Expanded(doc, w).event =
                      [start |-> s, end |-> s + (doc.event.end - doc.event.start),
                       recurs |-> FALSE, occurrences |-> doc.event.occurrences]
<1> DEFINE e == doc.event
           s == CHOOSE x \in Occurrences(e, w) : \A y \in Occurrences(e, w) : x <= y
           end == s + (e.end - e.start)
           single == [start |-> s, end |-> end, recurs |-> FALSE, occurrences |-> e.occurrences]
<1>1. e \in Vevent /\ doc \in EventDocument
    BY EventOfMoment
<1>2. s \in Occurrences(e, w) /\ \A y \in Occurrences(e, w) : s <= y
    BY <1>1, FirstOccurrence
<1>3. s \in Nat
    BY <1>1, <1>2, StartsInNat DEF Occurrences
<1>4. e.start \in Nat /\ e.end \in Int /\ e.occurrences \in Seq(Nat)
    BY <1>1 DEF Vevent
<1>5. Expanded(doc, w) = [doc EXCEPT !.event.start = s, !.event.end = end, !.event.recurs = FALSE]
    BY DEF Expanded
<1> HIDE DEF s
<1>6. end \in Int
    BY <1>3, <1>4
<1>7. Expanded(doc, w) = [readable |-> doc.readable, event |-> single]
  <2> HIDE DEF end
  <2> QED BY <1>1, <1>5 DEF EventDocument, Vevent
<1>8. single \in Vevent
  <2> HIDE DEF end
  <2> QED BY <1>3, <1>4, <1>6 DEF Vevent
<1>9. Expanded(doc, w) \in EventDocument
  <2> HIDE DEF single
  <2> QED BY <1>1, <1>7, <1>8 DEF EventDocument
<1>10. Expanded(doc, w).readable = doc.readable /\ Expanded(doc, w).event = single
  <2> HIDE DEF single
  <2> QED BY <1>7
<1> QED BY <1>2, <1>9, <1>10

-----------------------------------------------------------------------------
(***************************************************************************)
(* What a report holds.                                                    *)
(***************************************************************************)

\* What the server sends of a selected document is there, and as readable.
LEMMA DataIsThere ==
    ASSUME NEW doc, NEW r, Selected(doc, r), NEW expanded \in BOOLEAN
    PROVE  /\ DataOf(doc, r, expanded) # None
           /\ DataOf(doc, r, expanded).readable = doc.readable
<1>1. doc \in Events \cup Tasks
    BY DEF Selected
<1>2. doc # None
    BY <1>1, ContentsAssumption
<1>3. CASE r.op = "events" /\ expanded /\ doc.event.recurs
  <2>1. doc \in Events /\ Occurrences(doc.event, r) # {}
      BY <1>3 DEF Selected
  <2>2. /\ DataOf(doc, r, expanded) \in EventDocument
        /\ DataOf(doc, r, expanded).readable = doc.readable
      BY <1>3, <2>1, ExpandedSeries DEF DataOf
  <2> QED BY <2>2, ContentsAssumption
<1>4. CASE ~(r.op = "events" /\ expanded /\ doc.event.recurs)
  <2>1. DataOf(doc, r, expanded) = doc
      BY <1>4 DEF DataOf, Expanded
  <2> QED BY <1>2, <2>1
<1> QED BY <1>3, <1>4

\* The entries with data are the ones taken from the calendar.
LEMMA EntriesHaveData ==
    ASSUME NEW m, NEW r, NEW expanded \in BOOLEAN, NEW entry \in Entries(m, r, expanded)
    PROVE  \E h \in Hrefs : /\ Selected(m.store[h], r)
                            /\ entry.href = h /\ entry.etag = m.version[h]
                            /\ entry.data = DataOf(m.store[h], r, expanded) /\ entry.data # None
                            /\ entry.data.readable = m.store[h].readable
<1>1. PICK h \in Hrefs : /\ Selected(m.store[h], r)
                         /\ entry = [href |-> h, etag |-> m.version[h],
                                     data |-> DataOf(m.store[h], r, expanded)]
    BY DEF Entries
<1>2. /\ DataOf(m.store[h], r, expanded) # None
      /\ DataOf(m.store[h], r, expanded).readable = m.store[h].readable
    BY <1>1, DataIsThere
<1> QED BY <1>1, <1>2

\* Leaving out the entries without data leaves what the server selected.
LEMMA DataIsEntries ==
    ASSUME NEW c \in Calls, NEW m, NEW r, NEW expanded \in BOOLEAN, NEW gone,
           report[c].entries = Entries(m, r, expanded) \cup {Gone(h) : h \in gone}
    PROVE  Data(c) = Entries(m, r, expanded)
<1>1. \A h : Gone(h).data = None
    BY DEF Gone
<1>2. \A entry \in Entries(m, r, expanded) : entry.data # None
    BY EntriesHaveData
<1> QED BY <1>1, <1>2 DEF Data

-----------------------------------------------------------------------------
(***************************************************************************)
(* The invariant.                                                          *)
(***************************************************************************)

\* The initial states: nothing was asked, nothing was answered.
LEMMA InitIInv == Init => IInv
<1> SUFFICES ASSUME Init PROVE IInv
    OBVIOUS
<1>1. TypeOK
    BY DEF Init, TypeOK, Docs
<1>2. FailureHasCause
    BY DEF Init, FailureHasCause
<1>3. \A c \in Calls : Consistent(c)
    BY DEF Init, Consistent, Nothing, Ok
<1> QED BY <1>1, <1>2, <1>3 DEF IInv

\* A call that a step leaves alone stays consistent.
LEMMA OthersConsistent ==
    ASSUME NEW c \in Calls, Consistent(c),
           request'[c] = request[c], phase'[c] = phase[c], report'[c] = report[c],
           answer'[c] = answer[c], listed'[c] = listed[c],
           moments[c] \subseteq moments'[c],
           phase[c] = "report" => Moment' \in moments'[c]
    PROVE  Consistent(c)'
<1>1. Ok(c)' <=> Ok(c)
    BY DEF Ok
<1>2. /\ phase'[c] = "idle" => request'[c] = None
      /\ phase'[c] # "idle" => request'[c] \in Requests
      /\ phase'[c] # "done" => answer'[c] = "none"
      /\ phase'[c] = "report" => Moment' \in moments'[c]
      /\ report'[c] # Nothing => phase'[c] = "report"
      /\ report'[c].status \in {"none", "multistatus"} \cup Failures
    BY DEF Consistent
<1>3. report'[c].status = "multistatus" =>
         /\ Proper(Sent(request'[c]))
         /\ \E m \in moments'[c], expanded \in BOOLEAN, gone \in SUBSET Hrefs :
              report'[c].entries =
                Entries(m, Sent(request'[c]), expanded) \cup {Gone(h) : h \in gone}
  <2> SUFFICES ASSUME report[c].status = "multistatus"
               PROVE  /\ Proper(Sent(request[c]))
                      /\ \E m \in moments'[c], expanded \in BOOLEAN, gone \in SUBSET Hrefs :
                           report[c].entries = Entries(m, Sent(request[c]), expanded)
                                                 \cup {Gone(h) : h \in gone}
      OBVIOUS
  <2>1. Proper(Sent(request[c]))
      BY DEF Consistent
  <2>2. PICK m \in moments[c], expanded \in BOOLEAN, gone \in SUBSET Hrefs :
           report[c].entries = Entries(m, Sent(request[c]), expanded) \cup {Gone(h) : h \in gone}
      BY DEF Consistent
  <2> QED BY <2>1, <2>2
<1>4. Ok(c)' =>
         /\ Proper(Sent(request'[c]))
         /\ \E m \in moments'[c], expanded \in BOOLEAN :
              listed'[c] = Listing(m, request'[c], expanded)
  <2> SUFFICES ASSUME Ok(c)
               PROVE  /\ Proper(Sent(request[c]))
                      /\ \E m \in moments'[c], expanded \in BOOLEAN :
                           listed[c] = Listing(m, request[c], expanded)
      BY <1>1
  <2> QED BY DEF Consistent
<1> QED BY <1>1, <1>2, <1>3, <1>4 DEF Consistent

\* Of every call a step leaves its failure alone, or has a cause for it.
LEMMA OthersHaveCause ==
    ASSUME FailureHasCause,
           \A d \in Calls : moments[d] \subseteq moments'[d] \/ answer'[d] # "ical",
           \A d \in Calls : answer'[d] = "ical" => answer[d] = "ical" /\ request'[d] = request[d]
    PROVE  FailureHasCause'
<1> SUFFICES ASSUME NEW d \in Calls, answer'[d] = "ical"
             PROVE  \E m \in moments'[d], h \in Hrefs :
                       Selected(m.store[h], Sent(request'[d])) /\ ~m.store[h].readable
    BY DEF FailureHasCause
<1>1. \E m \in moments[d], h \in Hrefs :
         Selected(m.store[h], Sent(request[d])) /\ ~m.store[h].readable
    BY DEF FailureHasCause
<1> QED BY <1>1

-----------------------------------------------------------------------------
(***************************************************************************)
(* The steps of the program.                                               *)
(***************************************************************************)

\* A new request starts with the present as its only moment.
LEMMA CallStep ==
    ASSUME IInv, NEW c \in Calls, Call(c)
    PROVE  IInv'
<1> USE DEF IInv
<1>1. PICK r \in Requests : request' = [request EXCEPT ![c] = r]
    BY DEF Call
<1>2. Moment' = Moment
    BY DEF Call, Moment, server
<1>3. Moment \in Moments
    BY DEF Moment, Moments, TypeOK
<1>4. TypeOK'
  <2>1. moments' \in [Calls -> SUBSET Moments]
      BY <1>3 DEF Call, TypeOK
  <2> QED BY <1>1, <2>1 DEF Call, TypeOK, server
<1>5. answer[c] = "none" /\ phase[c] = "idle" /\ Consistent(c)
    BY DEF Call, Consistent
<1>6. FailureHasCause'
  <2>1. \A d \in Calls : answer'[d] = "ical" => d # c
      BY <1>5 DEF Call
  <2>2. \A d \in Calls : d # c => moments'[d] = moments[d] /\ request'[d] = request[d]
      BY <1>1 DEF Call, TypeOK
  <2>3. \A d \in Calls : moments[d] \subseteq moments'[d] \/ answer'[d] # "ical"
      BY <2>1, <2>2
  <2>4. \A d \in Calls : answer'[d] = "ical" => answer[d] = "ical" /\ request'[d] = request[d]
      BY <2>1, <2>2 DEF Call
  <2> QED BY <2>3, <2>4, OthersHaveCause
<1>7. ASSUME NEW d \in Calls PROVE Consistent(d)'
  <2>1. CASE d = c
    <3>1. /\ request'[c] = r /\ phase'[c] = "report" /\ moments'[c] = {Moment}
          /\ report'[c] = report[c] /\ answer'[c] = "none"
        BY <1>1, <1>5 DEF Call, TypeOK
    <3>2. report[c] = Nothing
        BY <1>5 DEF Consistent
    <3>3. report'[c].status = "none"
        BY <3>1, <3>2 DEF Nothing
    <3>4. ~Ok(c)'
        BY <3>1 DEF Ok
    <3> QED BY <2>1, <3>1, <3>2, <3>3, <3>4, <1>2 DEF Consistent
  <2>2. CASE d # c
    <3>1. /\ request'[d] = request[d] /\ phase'[d] = phase[d] /\ moments'[d] = moments[d]
          /\ report'[d] = report[d] /\ answer'[d] = answer[d] /\ listed'[d] = listed[d]
        BY <1>1, <2>2 DEF Call, TypeOK
    <3>2. phase[d] = "report" => Moment' \in moments'[d]
        BY <1>2, <3>1 DEF Consistent
    <3> QED BY <3>1, <3>2, OthersConsistent
  <2> QED BY <2>1, <2>2
<1> QED BY <1>4, <1>6, <1>7

\* What a return leaves behind, whatever it returns.
LEMMA ReturnStep ==
    ASSUME IInv, NEW c \in Calls, phase[c] = "report",
           NEW what \in {"ok", "ical", "timeout"} \cup Failures, Return(c, what),
           DOMAIN listed' = Calls, \A d \in Calls : d # c => listed'[d] = listed[d],
           what = "ical" => \E m \in moments[c], h \in Hrefs :
                              Selected(m.store[h], Sent(request[c])) /\ ~m.store[h].readable,
           what = "ok" => /\ Proper(Sent(request[c]))
                          /\ \E m \in moments[c], expanded \in BOOLEAN :
                               listed'[c] = Listing(m, request[c], expanded)
    PROVE  IInv'
<1> USE DEF IInv
<1>1. Moment' = Moment
    BY DEF Return, Moment, server
<1>2. TypeOK'
    BY DEF Return, TypeOK, server
<1>3. /\ phase'[c] = "done" /\ answer'[c] = what /\ report'[c] = Nothing
      /\ request' = request /\ moments' = moments
    BY DEF Return, TypeOK
<1>4. \A d \in Calls : d # c => /\ phase'[d] = phase[d] /\ answer'[d] = answer[d]
                                /\ report'[d] = report[d]
    BY DEF Return, TypeOK
<1>5. FailureHasCause'
  <2> SUFFICES ASSUME NEW d \in Calls, answer'[d] = "ical"
               PROVE  \E m \in moments[d], h \in Hrefs :
                        Selected(m.store[h], Sent(request[d])) /\ ~m.store[h].readable
      BY <1>3 DEF FailureHasCause
  <2>1. CASE d = c
      BY <2>1, <1>3
  <2>2. CASE d # c
      BY <2>2, <1>4 DEF FailureHasCause
  <2> QED BY <2>1, <2>2
<1>6. ASSUME NEW d \in Calls PROVE Consistent(d)'
  <2>1. CASE d = c
    <3>1. request[c] \in Requests
        BY DEF Consistent
    <3>2. report'[c].status = "none"
        BY <1>3 DEF Nothing
    <3>3. Ok(c)' => what = "ok"
        BY <1>3 DEF Ok
    <3> QED BY <2>1, <1>3, <3>1, <3>2, <3>3 DEF Consistent
  <2>2. CASE d # c
    <3>1. phase[d] = "report" => Moment' \in moments'[d]
        BY <1>1, <1>3 DEF Consistent
    <3> QED BY <2>2, <1>3, <1>4, <3>1, OthersConsistent
  <2> QED BY <2>1, <2>2
<1> QED BY <1>2, <1>5, <1>6

\* A failure because of an object has the object for a cause.
LEMMA FailsStep ==
    ASSUME IInv, NEW c \in Calls, ListingFails(c)
    PROVE  IInv'
<1> USE DEF IInv
<1>1. phase[c] = "report" /\ listed' = listed /\ Consistent(c) /\ DOMAIN listed = Calls
    BY DEF ListingFails, TypeOK
<1>2. CASE /\ report[c].status \notin {"none", "multistatus"}
           /\ Return(c, report[c].status)
  <2>1. report[c].status \in Failures
      BY <1>1, <1>2 DEF Consistent
  <2>2. report[c].status # "ical" /\ report[c].status # "ok"
      BY <2>1 DEF Failures
  <2> QED BY <1>1, <1>2, <2>1, <2>2, ReturnStep
<1>3. CASE /\ report[c].status = "multistatus"
           /\ \E entry \in Data(c) : ~entry.data.readable
           /\ Return(c, "ical")
  <2>1. PICK m \in moments[c], expanded \in BOOLEAN, gone \in SUBSET Hrefs :
           report[c].entries = Entries(m, Sent(request[c]), expanded) \cup {Gone(h) : h \in gone}
      BY <1>1, <1>3 DEF Consistent
  <2>2. Data(c) = Entries(m, Sent(request[c]), expanded)
      BY <2>1, DataIsEntries
  <2>3. PICK entry \in Entries(m, Sent(request[c]), expanded) : ~entry.data.readable
      BY <1>3, <2>2
  <2>4. \E h \in Hrefs : Selected(m.store[h], Sent(request[c])) /\ ~m.store[h].readable
      BY <2>3, EntriesHaveData
  <2> QED BY <1>1, <1>3, <2>4, ReturnStep
<1> QED BY <1>2, <1>3 DEF ListingFails

\* An answer lists what the program makes of the moment the report is from.
LEMMA AnswersStep ==
    ASSUME IInv, NEW c \in Calls, ListingAnswers(c)
    PROVE  IInv'
<1> USE DEF IInv
<1>1. phase[c] = "report" /\ Consistent(c) /\ DOMAIN listed = Calls
    BY DEF ListingAnswers, TypeOK
<1>2. /\ Return(c, "ok") /\ report[c].status = "multistatus"
      /\ listed' = [listed EXCEPT ![c] = Read(c)]
    BY DEF ListingAnswers
<1>3. PICK m \in moments[c], expanded \in BOOLEAN, gone \in SUBSET Hrefs :
         report[c].entries = Entries(m, Sent(request[c]), expanded) \cup {Gone(h) : h \in gone}
    BY <1>1, <1>2 DEF Consistent
<1>4. Data(c) = Entries(m, Sent(request[c]), expanded)
    BY <1>3, DataIsEntries
<1>5. listed'[c] = Read(c)
    BY <1>1, <1>2
<1>6. listed'[c] = Listing(m, request[c], expanded)
    BY <1>4, <1>5 DEF Listing, Read
<1>7. Proper(Sent(request[c]))
    BY <1>1, <1>2 DEF Consistent
<1>8. DOMAIN listed' = Calls /\ \A d \in Calls : d # c => listed'[d] = listed[d]
    BY <1>1, <1>2
<1> QED BY <1>1, <1>2, <1>6, <1>7, <1>8, ReturnStep

\* A call that gives up claims nothing.
LEMMA GiveUpStep ==
    ASSUME IInv, NEW c \in Calls, GiveUp(c)
    PROVE  IInv'
<1>1. /\ phase[c] = "report" /\ listed' = listed /\ DOMAIN listed = Calls
      /\ Return(c, "timeout")
    BY DEF GiveUp, TypeOK, IInv
<1> QED BY <1>1, ReturnStep

-----------------------------------------------------------------------------
(***************************************************************************)
(* The steps of the server and of the other clients.                       *)
(***************************************************************************)

\* A report that arrives, of one call only, is a failure or the present.
LEMMA ReportStep ==
    ASSUME IInv, NEW c \in Calls, phase[c] = "report", NEW rep,
           report' = [report EXCEPT ![c] = rep],
           UNCHANGED <<server, request, phase, answer, listed, moments>>,
           \/ rep.status \in Failures
           \/ /\ rep.status = "multistatus" /\ Proper(Sent(request[c]))
              /\ \E expanded \in BOOLEAN, gone \in SUBSET Hrefs :
                   rep.entries =
                     Entries(Moment, Sent(request[c]), expanded) \cup {Gone(h) : h \in gone}
    PROVE  IInv'
<1> USE DEF IInv
<1>1. Moment' = Moment
    BY DEF Moment, server
<1>2. TypeOK'
    BY DEF TypeOK, server
<1>3. FailureHasCause'
    BY OthersHaveCause
<1>4. ASSUME NEW d \in Calls PROVE Consistent(d)'
  <2>1. CASE d = c
    <3>1. report'[c] = rep
        BY DEF TypeOK
    <3>2. Consistent(c) /\ Moment \in moments[c] /\ request[c] \in Requests /\ answer[c] = "none"
        BY DEF Consistent
    <3>3. ~Ok(c)'
        BY DEF Ok
    <3>4. rep.status \in {"none", "multistatus"} \cup Failures
        OBVIOUS
    <3>5. rep.status = "multistatus" =>
            /\ Proper(Sent(request[c]))
            /\ \E m \in moments[c], expanded \in BOOLEAN, gone \in SUBSET Hrefs :
                 rep.entries =
                   Entries(m, Sent(request[c]), expanded) \cup {Gone(h) : h \in gone}
        BY <3>2 DEF Failures
    <3> QED BY <2>1, <1>1, <3>1, <3>2, <3>3, <3>4, <3>5 DEF Consistent
  <2>2. CASE d # c
    <3>1. report'[d] = report[d]
        BY <2>2 DEF TypeOK
    <3>2. phase[d] = "report" => Moment' \in moments'[d]
        BY <1>1 DEF Consistent
    <3> QED BY <3>1, <3>2, OthersConsistent
  <2> QED BY <2>1, <2>2
<1> QED BY <1>2, <1>3, <1>4

\* The server reads the calendar of this moment.
LEMMA ServeReportStep ==
    ASSUME IInv, NEW c \in Calls, ServeReport(c)
    PROVE  IInv'
<1>1. PICK expanded \in BOOLEAN, gone \in SUBSET {h \in Hrefs : store[h] = None} :
         report' = [report EXCEPT ![c] =
           [status |-> "multistatus",
            entries |-> Entries(Moment, Sent(request[c]), expanded) \cup {Gone(h) : h \in gone}]]
    BY DEF ServeReport
<1> DEFINE rep == [status |-> "multistatus",
                   entries |-> Entries(Moment, Sent(request[c]), expanded) \cup {Gone(h) : h \in gone}]
<1>2. rep.status = "multistatus"
    OBVIOUS
<1>3. rep.entries = Entries(Moment, Sent(request[c]), expanded) \cup {Gone(h) : h \in gone}
    OBVIOUS
<1>4. report' = [report EXCEPT ![c] = rep]
    BY <1>1
<1>5. gone \in SUBSET Hrefs
    OBVIOUS
<1>6. phase[c] = "report" /\ Proper(Sent(request[c]))
      /\ UNCHANGED <<server, request, phase, answer, listed, moments>>
    BY DEF ServeReport
<1> HIDE DEF rep
<1> QED BY <1>2, <1>3, <1>4, <1>5, <1>6, ReportStep

\* The server fails, or answers what is not a multistatus.
LEMMA ServeFailureStep ==
    ASSUME IInv, NEW c \in Calls, ServeFailure(c)
    PROVE  IInv'
<1>1. PICK status \in Failures :
         report' = [report EXCEPT ![c] = [Nothing EXCEPT !.status = status]]
    BY DEF ServeFailure
<1>2. [Nothing EXCEPT !.status = status].status \in Failures
    BY DEF Nothing
<1> QED BY <1>1, <1>2, ReportStep DEF ServeFailure

\* Another client writes: the present changes, and is a moment of every call
\* under way.
LEMMA ChangeStep ==
    ASSUME IInv, NEW h \in Hrefs, Change(h)
    PROVE  IInv'
<1> USE DEF IInv
<1>1. Moment' \in Moments
    BY DEF Change, Moment, Moments, TypeOK, Docs
<1>2. TypeOK'
    BY <1>1 DEF Change, Moment, TypeOK, Docs
<1>3. \A c \in Calls : moments[c] \subseteq moments'[c]
    BY DEF Change, TypeOK
<1>4. FailureHasCause'
    BY <1>3, OthersHaveCause DEF Change
<1>5. ASSUME NEW c \in Calls PROVE Consistent(c)'
    BY <1>3, OthersConsistent DEF Change, TypeOK
<1> QED BY <1>2, <1>4, <1>5

\* Every step of the system preserves the invariant.
LEMMA NextIInv ==
    ASSUME IInv, [Next]_vars
    PROVE  IInv'
<1>1. ASSUME NEW c \in Calls, Call(c) PROVE IInv'
    BY <1>1, CallStep
<1>2. ASSUME NEW c \in Calls, ListingStep(c) PROVE IInv'
    BY <1>2, FailsStep, AnswersStep, GiveUpStep DEF ListingStep
<1>3. ASSUME NEW c \in Calls, ServeReport(c) PROVE IInv'
    BY <1>3, ServeReportStep
<1>4. ASSUME NEW c \in Calls, ServeFailure(c) PROVE IInv'
    BY <1>4, ServeFailureStep
<1>5. ASSUME NEW h \in Hrefs, Change(h) PROVE IInv'
    BY <1>5, ChangeStep
<1>6. CASE UNCHANGED vars
  <2>1. \A c \in Calls : Consistent(c)'
    <3> SUFFICES ASSUME NEW c \in Calls PROVE Consistent(c)'
        OBVIOUS
    <3>1. Consistent(c)
        BY DEF IInv
    <3>2. phase[c] = "report" => Moment' \in moments'[c]
        BY <1>6, <3>1 DEF Consistent, vars, server, Moment
    <3> QED BY <1>6, <3>1, <3>2, OthersConsistent DEF vars, server
  <2>2. FailureHasCause'
      BY <1>6, OthersHaveCause DEF vars, server, IInv
  <2>3. TypeOK'
      BY <1>6 DEF TypeOK, vars, server, IInv
  <2> QED BY <2>1, <2>2, <2>3 DEF IInv
<1> QED BY <1>1, <1>2, <1>3, <1>4, <1>5, <1>6 DEF Next

\* Whatever other clients do, every report is of one moment of its call, and
\* every listing and every failure because of an object is made from it.
THEOREM ListingsInvariance == Spec => []IInv
<1>1. IInv /\ [Next]_vars => IInv'
    BY NextIInv
<1> QED BY InitIInv, <1>1, PTL DEF Spec

\* A listing fails because of an object only if one it asked for was unreadable.
THEOREM FailuresHaveCause == Spec => []FailureHasCause
<1>1. IInv => FailureHasCause
    BY DEF IInv
<1> QED BY ListingsInvariance, <1>1, PTL

-----------------------------------------------------------------------------
(***************************************************************************)
(* What happens in a window.                                               *)
(***************************************************************************)

\* What happens in a window starts before it ends, and in it or goes on into it.
LEMMA HappensIn ==
    ASSUME NEW s \in Nat, NEW e \in Vevent, NEW w \in Windows
    PROVE  Happens(s, e, w) <=>
             /\ w.start < w.end /\ s < w.end
             /\ w.start <= s \/ s + (e.end - e.start) > w.start
<1>1. e.start \in Nat /\ e.end \in Int /\ w.start \in Nat /\ w.end \in Nat
    BY DEF Vevent, Windows
<1> DEFINE d == e.end - e.start
<1>2. d \in Int
    BY <1>1
<1>3. Instants(s, e) = {s} \cup s..(s + d - 1)
    BY DEF Instants
<1> HIDE DEF d
<1>4. ASSUME Happens(s, e, w)
      PROVE  w.start < w.end /\ s < w.end /\ (w.start <= s \/ s + d > w.start)
  <2>1. PICK t \in Instants(s, e) : w.start <= t /\ t < w.end
      BY <1>4 DEF Happens
  <2>2. t = s \/ (t \in Int /\ s <= t /\ t <= s + d - 1)
      BY <1>2, <1>3, <2>1
  <2> QED BY <1>1, <1>2, <2>1, <2>2
<1>5. ASSUME w.start < w.end, s < w.end, w.start <= s \/ s + d > w.start
      PROVE  Happens(s, e, w)
  <2>1. CASE w.start <= s
      BY <1>3, <1>5, <2>1 DEF Happens
  <2>2. CASE s < w.start
    <3>1. w.start \in s..(s + d - 1)
        BY <1>1, <1>2, <1>5, <2>2
    <3> QED BY <1>1, <1>3, <1>5, <3>1 DEF Happens
  <2> QED BY <1>1, <2>1, <2>2
<1> QED BY <1>4, <1>5 DEF d

\* The check lets through what happens in the window and is not over as it starts.
LEMMA OverlapsIn ==
    ASSUME NEW s \in Nat, NEW e \in Vevent, NEW w \in Windows, w.start < w.end
    PROVE  Overlaps(s, e.end - e.start, w) <=>
             Happens(s, e, w) /\ s + (e.end - e.start) > w.start
<1>1. e.start \in Nat /\ e.end \in Int /\ w.start \in Nat /\ w.end \in Nat
    BY DEF Vevent, Windows
<1> QED BY <1>1, HappensIn DEF Overlaps

\* A window or a filter is one or the other.
LEMMA RequestKinds ==
    ASSUME NEW r \in Requests
    PROVE  (r \in Windows /\ r.op = "events") \/ (r \in Filters /\ r.op = "tasks")
BY ContentsAssumption DEF Windows, Filters

\* Rounding down to a full second keeps the order, loosely.
LEMMA RoundingDown ==
    ASSUME NEW a \in Nat, NEW b \in Nat
    PROVE  /\ a - (a % Second) \in Nat /\ a - (a % Second) <= a
           /\ a - (a % Second) < b - (b % Second) => a < b
<1> DEFINE p == a \div Second
           q == b \div Second
<1>1. Second \in Nat /\ Second > 0
    BY ContentsAssumption
<1>2. /\ p \in Nat /\ a % Second \in Nat /\ a % Second < Second
      /\ a = Second * p + (a % Second)
    BY <1>1
<1>3. /\ q \in Nat /\ b % Second \in Nat /\ b % Second < Second
      /\ b = Second * q + (b % Second)
    BY <1>1
<1> HIDE DEF p, q
<1>4. Second * p \in Nat /\ Second * q \in Nat
    BY <1>1, <1>2, <1>3
<1>5. a - (a % Second) = Second * p /\ b - (b % Second) = Second * q
    BY <1>2, <1>3, <1>4
<1>6. ASSUME Second * p < Second * q PROVE a < b
  <2>1. p < q
    <3>1. q <= p => Second * q <= Second * p
        BY <1>1, <1>2, <1>3
    <3> QED BY <1>2, <1>3, <1>4, <1>6, <3>1
  <2>2. Second * (p + 1) <= Second * q
      BY <1>1, <1>2, <1>3, <2>1
  <2>3. Second * (p + 1) = Second * p + Second
      BY <1>1, <1>2
  <2> QED BY <1>1, <1>2, <1>3, <1>4, <2>2, <2>3
<1> QED BY <1>2, <1>4, <1>5, <1>6

\* The window sent starts no later, and ends no later, than the one asked for;
\* a time on a full second that is in the one is in the other or at its end.
LEMMA SentWindow ==
    ASSUME NEW r \in Windows
    PROVE  /\ Sent(r) \in Windows /\ Sent(r).op = "events"
           /\ Sent(r).start <= r.start /\ Sent(r).end <= r.end
           /\ r.start % Second = 0 => Sent(r).start = r.start
           /\ r.end % Second = 0 => Sent(r).end = r.end
           /\ Sent(r).start < Sent(r).end => r.start < r.end
           /\ \A t \in Nat : t % Second = 0 /\ t < r.end => t <= Sent(r).end
<1>1. r.op = "events" /\ r.start \in Nat /\ r.end \in Nat
    BY DEF Windows
<1>2. Sent(r) = [op |-> "events", start |-> r.start - (r.start % Second),
                 end |-> r.end - (r.end % Second)]
    BY <1>1 DEF Sent, Windows
<1>3. /\ r.start - (r.start % Second) \in Nat /\ r.start - (r.start % Second) <= r.start
      /\ r.end - (r.end % Second) \in Nat /\ r.end - (r.end % Second) <= r.end
      /\ r.start - (r.start % Second) < r.end - (r.end % Second) => r.start < r.end
    BY <1>1, RoundingDown
<1>4. /\ r.start % Second = 0 => r.start - (r.start % Second) = r.start
      /\ r.end % Second = 0 => r.end - (r.end % Second) = r.end
    BY <1>1
<1>5. ASSUME NEW t \in Nat, t % Second = 0, t < r.end
      PROVE  t <= r.end - (r.end % Second)
  <2>1. t - (t % Second) = t
      BY <1>5
  <2>2. r.end - (r.end % Second) < t - (t % Second) => r.end < t
      BY <1>1, RoundingDown
  <2> QED BY <1>1, <1>3, <1>5, <2>1, <2>2
<1>6. Sent(r).op = "events" /\ Sent(r).start = r.start - (r.start % Second)
      /\ Sent(r).end = r.end - (r.end % Second)
    BY <1>2
<1>7. Sent(r) \in Windows
    BY <1>2, <1>3 DEF Windows
<1> QED BY <1>3, <1>4, <1>5, <1>6, <1>7

\* What is not sent to the server as a window is sent as it is.
LEMMA SentFilter ==
    ASSUME NEW r \in Filters
    PROVE  Sent(r) = r /\ r.op = "tasks"
BY DEF Sent, Filters

-----------------------------------------------------------------------------
(***************************************************************************)
(* A listing of a moment shows that moment.                                *)
(***************************************************************************)

\* What a listing shows of one event.
SeenOf(e, r, expanded) ==
    {VisibleInstance(s, e, expanded) : s \in {o \in Occurrences(e, r) : Visible(o, e, r, expanded)}}

\* Of an event sent as it is, the program makes what View says.
LEMMA ExpandAsItIs ==
    ASSUME NEW e \in Vevent, NEW r \in Windows, r.start < r.end, NEW expanded \in BOOLEAN,
           ~(e.recurs /\ expanded), Occurrences(e, Sent(r)) # {}
    PROVE  Expand(e, r) = SeenOf(e, r, expanded)
<1> DEFINE d == e.end - e.start
           candidates == IF e.recurs THEN Generated(e) ELSE {e.start}
<1>1. e.recurs \in BOOLEAN /\ candidates \subseteq Starts(e) /\ Starts(e) \subseteq Nat
    BY StartsInNat DEF Vevent, Starts
<1>2. \A s \in Starts(e) : s \in candidates <=> (e.recurs /\ ~expanded => s \in Generated(e))
    BY DEF Starts
<1>3. \A s \in Starts(e) : Overlaps(s, d, r) <=> Happens(s, e, r) /\ s + d > r.start
    BY <1>1, OverlapsIn
<1>4. \A s : s \in candidates /\ Overlaps(s, d, r) <=>
               s \in Occurrences(e, r) /\ Visible(s, e, r, expanded)
  <2> HIDE DEF d, candidates
  <2>1. \A s : Visible(s, e, r, expanded) <=>
                 s + d > r.start /\ (e.recurs /\ ~expanded => s \in Generated(e))
      BY DEF Visible, d
  <2> QED BY <1>1, <1>2, <1>3, <2>1 DEF Occurrences
<1>5. \A s : VisibleInstance(s, e, expanded) = Instance(s, e)
  <2>1. (e.recurs /\ ~expanded) = e.recurs
      BY <1>1
  <2> QED BY <2>1 DEF VisibleInstance, Instance
<1>6. Expand(e, r) = {Instance(s, e) : s \in {o \in candidates : Overlaps(o, d, r)}}
    BY DEF Expand
<1> HIDE DEF d, candidates
<1>7. {o \in candidates : Overlaps(o, d, r)} = {o \in Occurrences(e, r) : Visible(o, e, r, expanded)}
    BY <1>4
<1> QED BY <1>5, <1>6, <1>7 DEF SeenOf

\* Of a series the server expanded, likewise.
LEMMA ExpandFirst ==
    ASSUME NEW e \in Vevent, NEW r \in Windows, r.start < r.end, e.recurs,
           NEW first \in Occurrences(e, Sent(r)), \A y \in Occurrences(e, Sent(r)) : first <= y,
           NEW single, single = [start |-> first, end |-> first + (e.end - e.start),
                                 recurs |-> FALSE, occurrences |-> e.occurrences]
    PROVE  Expand(single, r) = SeenOf(e, r, TRUE)
<1> DEFINE d == e.end - e.start
<1>1. d \in Int /\ r.start \in Nat /\ r.end \in Nat
    BY DEF Vevent, Windows
<1>2. first \in Starts(e) /\ Starts(e) \subseteq Nat
    BY StartsInNat DEF Occurrences
<1>3. /\ Sent(r) \in Windows /\ Sent(r).start \in Nat /\ Sent(r).end \in Nat
      /\ Sent(r).start <= r.start /\ Sent(r).end <= r.end
    BY SentWindow DEF Windows
<1>4. ~single.recurs /\ single.start = first /\ single.end - single.start = d
    BY <1>1, <1>2
<1>5. Expand(single, r) = {Instance(s, single) : s \in {o \in {first} : Overlaps(o, d, r)}}
    BY <1>4 DEF Expand
<1>6. VisibleInstance(first, e, TRUE) = Instance(first, single)
  <2>1. single.recurs = FALSE /\ (e.recurs /\ ~TRUE) = FALSE
      OBVIOUS
  <2>2. Instance(first, single) = [start |-> first, end |-> first + d, instance |-> FALSE]
      BY <1>4, <2>1 DEF Instance
  <2>3. \A flag : [Instance(first, e) EXCEPT !.instance = flag]
                     = [start |-> first, end |-> first + d, instance |-> flag]
      BY DEF Instance
  <2>4. VisibleInstance(first, e, TRUE) = [Instance(first, e) EXCEPT !.instance = FALSE]
      BY <2>1 DEF VisibleInstance
  <2> QED BY <2>2, <2>3, <2>4
<1>7. Overlaps(first, d, r) <=> Happens(first, e, r) /\ first + d > r.start
    BY <1>2, OverlapsIn
<1>8. \A s : Visible(s, e, r, TRUE) <=>
               s + d > r.start /\ \A y \in Occurrences(e, Sent(r)) : s <= y
    BY DEF Visible
<1> HIDE DEF d
<1>9. ASSUME NEW s \in Occurrences(e, r), Visible(s, e, r, TRUE)
      PROVE  s = first
  <2>1. s \in Starts(e) /\ s \in Nat /\ Happens(s, e, r)
      BY <1>2, <1>9 DEF Occurrences
  <2>2. s <= first /\ s + d > r.start
      BY <1>8, <1>9
  <2>3. first < Sent(r).end /\ Sent(r).start < Sent(r).end
      BY <1>2, <1>3, HappensIn DEF Occurrences
  <2>4. Happens(s, e, Sent(r))
    <3>1. s < Sent(r).end /\ s + d > Sent(r).start
        BY <1>1, <1>2, <1>3, <2>1, <2>2, <2>3
    <3> QED BY <1>3, <2>1, <2>3, <3>1, HappensIn DEF d
  <2>5. first <= s
      BY <2>1, <2>4 DEF Occurrences
  <2> QED BY <1>2, <2>1, <2>2, <2>5
<1>10. {o \in {first} : Overlaps(o, d, r)} = {o \in Occurrences(e, r) : Visible(o, e, r, TRUE)}
  <2>1. Overlaps(first, d, r) <=> first \in Occurrences(e, r) /\ Visible(first, e, r, TRUE)
      BY <1>2, <1>7, <1>8 DEF Occurrences
  <2> QED BY <1>9, <2>1
<1>11. \A s \in {o \in {first} : Overlaps(o, d, r)} : Instance(s, single) = VisibleInstance(s, e, TRUE)
    BY <1>6
<1> HIDE DEF Instance, VisibleInstance
<1> QED BY <1>5, <1>10, <1>11 DEF SeenOf

\* What the program makes of what the server sends of an event is what View says
\* of it; the server sends nothing of an event of which View shows nothing.
LEMMA SeenOfEvent ==
    ASSUME NEW doc \in Events, NEW r \in Windows, r.start < r.end, NEW expanded \in BOOLEAN
    PROVE  IF Selected(doc, Sent(r))
             THEN Expand(DataOf(doc, Sent(r), expanded).event, r) = SeenOf(doc.event, r, expanded)
             ELSE SeenOf(doc.event, r, expanded) = {}
<1>1. doc.event \in Vevent /\ Sent(r).op = "events"
    BY EventOfMoment, SentWindow
<1>2. Selected(doc, Sent(r)) <=> Occurrences(doc.event, Sent(r)) # {}
    BY <1>1 DEF Selected
<1>3. CASE ~Selected(doc, Sent(r))
    BY <1>2, <1>3 DEF SeenOf, Visible
<1>4. CASE Selected(doc, Sent(r)) /\ ~(doc.event.recurs /\ expanded)
  <2>1. DataOf(doc, Sent(r), expanded) = doc
      BY <1>4 DEF DataOf, Expanded
  <2> QED BY <1>1, <1>2, <1>4, <2>1, ExpandAsItIs
<1>5. CASE Selected(doc, Sent(r)) /\ doc.event.recurs /\ expanded
  <2>1. DataOf(doc, Sent(r), expanded) = Expanded(doc, Sent(r)) /\ expanded = TRUE
      BY <1>1, <1>5 DEF DataOf
  <2>2. PICK first \in Occurrences(doc.event, Sent(r)) :
          /\ \A y \in Occurrences(doc.event, Sent(r)) : first <= y
          /\ Expanded(doc, Sent(r)).event =
               [start |-> first, end |-> first + (doc.event.end - doc.event.start),
                recurs |-> FALSE, occurrences |-> doc.event.occurrences]
      BY <1>2, <1>5, ExpandedSeries
  <2>3. Expand(Expanded(doc, Sent(r)).event, r) = SeenOf(doc.event, r, TRUE)
      BY <1>1, <1>5, <2>2, ExpandFirst
  <2> QED BY <1>5, <2>1, <2>3
<1> QED BY <1>3, <1>4, <1>5

\* View, resource by resource.
IsSeen(i, m, r, expanded) ==
    \E h \in Hrefs : /\ m.store[h] \in Events
                     /\ \E shown \in SeenOf(m.store[h].event, r, expanded) : i = Item(h, m, shown)

LEMMA ViewOfEvents ==
    ASSUME NEW m, NEW r, r.op = "events", NEW expanded \in BOOLEAN, NEW i
    PROVE  i \in View(m, r, expanded) <=> IsSeen(i, m, r, expanded)
<1> DEFINE Of(h) == {Item(h, m, VisibleInstance(s, m.store[h].event, expanded)) :
                       s \in {o \in Occurrences(m.store[h].event, r) :
                                Visible(o, m.store[h].event, r, expanded)}}
<1>1. View(m, r, expanded) = UNION {Of(h) : h \in {x \in Hrefs : m.store[x] \in Events}}
    BY DEF View
<1>2. \A h : i \in Of(h) <=> \E shown \in SeenOf(m.store[h].event, r, expanded) :
                               i = Item(h, m, shown)
    BY DEF SeenOf
<1> HIDE DEF Of
<1> QED BY <1>1, <1>2 DEF IsSeen

LEMMA ListingOfEvents ==
    ASSUME NEW m, NEW r \in Windows, NEW expanded \in BOOLEAN, NEW i
    PROVE  i \in Listing(m, r, expanded) <=>
             \E h \in Hrefs :
               /\ Selected(m.store[h], Sent(r))
               /\ \E shown \in Expand(DataOf(m.store[h], Sent(r), expanded).event, r) :
                    i = Item(h, m, shown)
<1> DEFINE Made(h) == [href |-> h, etag |-> m.version[h],
                       data |-> DataOf(m.store[h], Sent(r), expanded)]
<1>1. i \in Listing(m, r, expanded) <=>
        \E h \in Hrefs : Selected(m.store[h], Sent(r)) /\ i \in ListEntry(Made(h), r)
    BY DEF Listing, Entries
<1>2. ASSUME NEW h \in Hrefs
      PROVE  i \in ListEntry(Made(h), r) <=>
               \E shown \in Expand(DataOf(m.store[h], Sent(r), expanded).event, r) :
                 i = Item(h, m, shown)
    BY DEF ListEntry, Item, Windows
<1> HIDE DEF Made
<1> QED BY <1>1, <1>2

\* A request of which there may be something to list: no window that ends before
\* it starts.
Sensible(r) == (r \in Windows /\ r.start < r.end) \/ r \in Filters

\* The tasks that fit are the ones that were asked for.
LEMMA FitsWanted ==
    ASSUME NEW task, NEW f
    PROVE  StatusFits(task, f) /\ DueFits(task, f) <=> Wanted(task, f)
BY DEF StatusFits, DueFits, Wanted

\* What the program makes of a moment is what there was to see.
LEMMA ListingIsView ==
    ASSUME NEW m, NEW r, Sensible(r), NEW expanded \in BOOLEAN
    PROVE  Listing(m, r, expanded) = View(m, r, expanded)
<1>1. CASE r \in Windows /\ r.start < r.end
  <2>1. r.op = "events" /\ Sent(r).op = "events"
      BY <1>1, SentWindow DEF Windows
  <2>2. \A h : Selected(m.store[h], Sent(r)) => m.store[h] \in Events
      BY <2>1 DEF Selected
  <2>3. ASSUME NEW i PROVE i \in Listing(m, r, expanded) <=> i \in View(m, r, expanded)
    <3>1. ASSUME NEW h \in Hrefs, m.store[h] \in Events
          PROVE  /\ Selected(m.store[h], Sent(r)) =>
                      Expand(DataOf(m.store[h], Sent(r), expanded).event, r)
                        = SeenOf(m.store[h].event, r, expanded)
                 /\ ~Selected(m.store[h], Sent(r)) => SeenOf(m.store[h].event, r, expanded) = {}
        BY <1>1, <3>1, SeenOfEvent
    <3>2. i \in View(m, r, expanded) <=> IsSeen(i, m, r, expanded)
        BY <2>1, ViewOfEvents
    <3> QED BY <1>1, <2>2, <3>1, <3>2, ListingOfEvents DEF IsSeen
  <2> QED BY <2>3
<1>2. CASE r \in Filters
  <2>1. Sent(r) = r /\ r.op = "tasks"
      BY <1>2, SentFilter
  <2> DEFINE Made(h) == [href |-> h, etag |-> m.version[h], data |-> m.store[h]]
             Fitting == {x \in Hrefs : m.store[x] \in Tasks /\ Wanted(m.store[x], r)}
  <2>2. Entries(m, r, expanded) = {Made(h) : h \in {x \in Hrefs : m.store[x] \in Tasks}}
      BY <2>1 DEF Entries, DataOf, Selected
  <2>3. \A h : ListEntry(Made(h), r) =
                 {Item(h, m, task) : task \in {x \in {m.store[h]} : Wanted(x, r)}}
      BY <2>1, FitsWanted DEF ListEntry, Item
  <2>4. View(m, r, expanded) = {Item(h, m, m.store[h]) : h \in Fitting}
      BY <2>1 DEF View, Shown
  <2>5. Listing(m, r, expanded) = UNION {ListEntry(entry, r) : entry \in Entries(m, r, expanded)}
      BY <2>1 DEF Listing
  <2> HIDE DEF Made
  <2> QED BY <2>2, <2>3, <2>4, <2>5
<1> QED BY <1>1, <1>2 DEF Sensible

\* A request the server accepts is one.
LEMMA ProperIsSensible ==
    ASSUME NEW r \in Requests, Proper(Sent(r))
    PROVE  Sensible(r)
BY RequestKinds, SentWindow DEF Proper, Sensible

-----------------------------------------------------------------------------
(***************************************************************************)
(* Windows and filters that meet.                                          *)
(***************************************************************************)

\* The parts of a window: windows that meet, and so do the ones that are sent.
LEMMA PartsOfWindow ==
    ASSUME NEW r \in Windows, NEW t \in Nat, Divides(t, r)
    PROVE  LET before == Before(r, t)
               after  == After(r, t)
           IN  /\ before \in Windows /\ before.op = "events"
               /\ after \in Windows /\ after.op = "events"
               /\ before.start = r.start /\ before.end = t
               /\ after.start = t /\ after.end = r.end
               /\ r.start < t /\ t < r.end
               /\ Sent(before).start = Sent(r).start /\ Sent(before).end = t
               /\ Sent(after).start = t /\ Sent(after).end = Sent(r).end
               /\ Sent(r).start <= r.start /\ t <= Sent(r).end /\ Sent(r).end <= r.end
<1> DEFINE before == Before(r, t)
           after  == After(r, t)
<1>1. r.op = "events" /\ r.start \in Nat /\ r.end \in Nat
    BY DEF Windows
<1>2. /\ before = [op |-> "events", start |-> r.start, end |-> t]
      /\ after = [op |-> "events", start |-> t, end |-> r.end]
    BY <1>1 DEF Before, After, Windows
<1>3. /\ before \in Windows /\ before.op = "events" /\ before.start = r.start /\ before.end = t
      /\ after \in Windows /\ after.op = "events" /\ after.start = t /\ after.end = r.end
    BY <1>1, <1>2 DEF Windows
<1> HIDE DEF before, after
<1>4. r.start < t /\ t < r.end /\ t % Second = 0
    BY <1>1 DEF Divides
<1>5. Sent(before).end = t /\ Sent(after).start = t
    BY <1>3, <1>4, SentWindow
<1>6. Sent(before).start = Sent(r).start /\ Sent(after).end = Sent(r).end
    BY <1>1, <1>3 DEF Sent
<1>7. Sent(r).start <= r.start /\ t <= Sent(r).end /\ Sent(r).end <= r.end
    BY <1>4, SentWindow
<1> QED BY <1>3, <1>4, <1>5, <1>6, <1>7 DEF before, after

\* An occurrence is shown of a window, or of one of its parts.
Showing(s, e, w, expanded) == s \in Occurrences(e, w) /\ Visible(s, e, w, expanded)

LEMMA OccurrencesTile ==
    ASSUME NEW e \in Vevent, NEW r \in Windows, NEW t \in Nat, Divides(t, r),
           NEW expanded \in BOOLEAN, NEW s \in Starts(e)
    PROVE  /\ Showing(s, e, r, expanded) =>
                \/ Showing(s, e, Before(r, t), expanded)
                \/ Showing(s, e, After(r, t), expanded)
                \/ s >= t /\ (s + (e.end - e.start) <= t \/ s >= Sent(r).end)
           /\ Showing(s, e, Before(r, t), expanded) => Showing(s, e, r, expanded)
           /\ Showing(s, e, After(r, t), expanded) =>
                Showing(s, e, r, expanded) \/ (expanded /\ e.recurs)
<1> DEFINE before == Before(r, t)
           after  == After(r, t)
           d == e.end - e.start
<1>1. /\ Starts(e) \subseteq Nat /\ d \in Int
      /\ r.start \in Nat /\ r.end \in Nat /\ Sent(r).start \in Nat /\ Sent(r).end \in Nat
    BY StartsInNat, SentWindow DEF Vevent, Windows
<1>2. /\ before \in Windows /\ after \in Windows
      /\ Sent(r) \in Windows /\ Sent(before) \in Windows /\ Sent(after) \in Windows
    BY PartsOfWindow, SentWindow
<1>3. /\ before.start = r.start /\ before.end = t /\ after.start = t /\ after.end = r.end
      /\ r.start < t /\ t < r.end
      /\ Sent(before).start = Sent(r).start /\ Sent(before).end = t
      /\ Sent(after).start = t /\ Sent(after).end = Sent(r).end
      /\ Sent(r).start <= r.start /\ t <= Sent(r).end /\ Sent(r).end <= r.end
    BY PartsOfWindow
<1> HIDE DEF before, after
<1>4. \A w \in Windows, y \in Starts(e) :
        y \in Occurrences(e, w) <=> /\ w.start < w.end /\ y < w.end
                                    /\ w.start <= y \/ y + d > w.start
    BY <1>1, HappensIn DEF Occurrences
<1>5. \A w : Visible(s, e, w, expanded) <=>
        /\ s + d > w.start
        /\ Occurrences(e, Sent(w)) # {}
        /\ e.recurs /\ ~expanded => s \in Generated(e)
        /\ e.recurs /\ expanded => \A y \in Occurrences(e, Sent(w)) : s <= y
    BY DEF Visible
<1> HIDE DEF d
<1>6. \A w : Occurrences(e, w) \subseteq Starts(e)
    BY DEF Occurrences
\* The occurrences in the windows that are sent.
<1>7. /\ Occurrences(e, Sent(before)) \subseteq Occurrences(e, Sent(r))
      /\ Occurrences(e, Sent(after)) \subseteq Occurrences(e, Sent(r))
      /\ \A y \in Occurrences(e, Sent(r)) : y < t => y \in Occurrences(e, Sent(before))
  <2>1. Sent(before).start < Sent(before).end
      BY <1>1, <1>3
  <2>2. ASSUME NEW y \in Starts(e)
        PROVE  /\ y \in Occurrences(e, Sent(before)) => y \in Occurrences(e, Sent(r))
               /\ y \in Occurrences(e, Sent(after)) => y \in Occurrences(e, Sent(r))
               /\ y \in Occurrences(e, Sent(r)) /\ y < t => y \in Occurrences(e, Sent(before))
      BY <1>1, <1>2, <1>3, <1>4, <2>1
  <2> QED BY <1>6, <2>2
<1>8. s \in Nat
    BY <1>1
<1>9. ASSUME Showing(s, e, r, expanded), s < t
      PROVE  Showing(s, e, before, expanded)
  <2>1. s \in Occurrences(e, r) /\ s + d > r.start
      BY <1>5, <1>9 DEF Showing
  <2>2. s \in Occurrences(e, before) /\ s \in Occurrences(e, Sent(before))
      BY <1>1, <1>2, <1>3, <1>4, <1>8, <1>9, <2>1
  <2>3. Visible(s, e, before, expanded)
      BY <1>3, <1>5, <1>7, <1>9, <2>1, <2>2 DEF Showing
  <2> QED BY <2>2, <2>3 DEF Showing
<1>10. ASSUME Showing(s, e, r, expanded), s >= t, s + d > t, s < Sent(r).end
       PROVE  Showing(s, e, after, expanded)
  <2>1. s \in Occurrences(e, after) /\ s \in Occurrences(e, Sent(after))
      BY <1>1, <1>2, <1>3, <1>4, <1>8, <1>10
  <2>2. Visible(s, e, after, expanded)
      BY <1>3, <1>5, <1>7, <1>10, <2>1 DEF Showing
  <2> QED BY <2>1, <2>2 DEF Showing
<1>11. ASSUME Showing(s, e, before, expanded)
       PROVE  Showing(s, e, r, expanded)
  <2>1. s \in Occurrences(e, before) /\ s + d > r.start
      BY <1>3, <1>5, <1>11 DEF Showing
  <2>2. s \in Occurrences(e, r) /\ s < t
      BY <1>1, <1>2, <1>3, <1>4, <1>8, <2>1
  <2>3. e.recurs /\ expanded => \A y \in Occurrences(e, Sent(r)) : s <= y
    <3>1. ASSUME e.recurs, expanded, NEW y \in Occurrences(e, Sent(r)) PROVE s <= y
      <4>1. y \in Nat
          BY <1>1, <1>6
      <4>2. CASE y < t
          BY <1>5, <1>7, <1>11, <3>1, <4>2 DEF Showing
      <4>3. CASE t <= y
          BY <1>8, <2>2, <4>1, <4>3
      <4> QED BY <4>1, <4>2, <4>3
    <3> QED BY <3>1
  <2>4. Visible(s, e, r, expanded)
      BY <1>3, <1>5, <1>7, <1>11, <2>1, <2>3 DEF Showing
  <2> QED BY <2>2, <2>4 DEF Showing
<1>12. ASSUME Showing(s, e, after, expanded), ~(expanded /\ e.recurs)
       PROVE  Showing(s, e, r, expanded)
  <2>1. s \in Occurrences(e, after) /\ s + d > t
      BY <1>3, <1>5, <1>12 DEF Showing
  <2>2. s \in Occurrences(e, r) /\ s + d > r.start
      BY <1>1, <1>2, <1>3, <1>4, <1>8, <2>1
  <2>3. Visible(s, e, r, expanded)
      BY <1>5, <1>7, <1>12, <2>2 DEF Showing
  <2> QED BY <2>2, <2>3 DEF Showing
<1>13. s < t \/ (s >= t /\ (s + d <= t \/ s + d > t) /\ (s >= Sent(r).end \/ s < Sent(r).end))
    BY <1>1, <1>8
<1> QED BY <1>9, <1>10, <1>11, <1>12, <1>13 DEF before, after, d

\* What is shown of one event of a window, and of its parts.
LEMMA SeenTile ==
    ASSUME NEW m, NEW h, m.store[h] \in Events, NEW r \in Windows, NEW t \in Nat, Divides(t, r),
           NEW expanded \in BOOLEAN, NEW shown
    PROVE  LET Of(w) == SeenOf(m.store[h].event, w, expanded)
           IN  /\ shown \in Of(r) =>
                    \/ shown \in Of(Before(r, t)) \cup Of(After(r, t))
                    \/ BetweenParts(Item(h, m, shown), r, t)
               /\ shown \in Of(Before(r, t)) => shown \in Of(r)
               /\ shown \in Of(After(r, t)) =>
                    \/ shown \in Of(r)
                    \/ StandsForSeries(Item(h, m, shown), m, r, expanded)
<1> DEFINE e == m.store[h].event
           Of(w) == SeenOf(e, w, expanded)
<1>1. e \in Vevent
    BY EventOfMoment
<1>2. r.op = "events"
    BY DEF Windows
<1>3. \A w : shown \in Of(w) <=>
        \E s \in Starts(e) : Showing(s, e, w, expanded) /\ shown = VisibleInstance(s, e, expanded)
    BY DEF SeenOf, Showing, Occurrences
<1>4. ASSUME NEW s, shown = VisibleInstance(s, e, expanded)
      PROVE  shown.start = s /\ shown.end = s + (e.end - e.start)
    BY <1>4 DEF VisibleInstance, Instance
<1>5. Item(h, m, shown).item = shown /\ Item(h, m, shown).href = h
    BY DEF Item
<1> HIDE DEF Of
<1>6. ASSUME shown \in Of(r)
      PROVE  shown \in Of(Before(r, t)) \cup Of(After(r, t)) \/ BetweenParts(Item(h, m, shown), r, t)
  <2>1. PICK s \in Starts(e) : Showing(s, e, r, expanded) /\ shown = VisibleInstance(s, e, expanded)
      BY <1>3, <1>6
  <2>2. \/ Showing(s, e, Before(r, t), expanded)
        \/ Showing(s, e, After(r, t), expanded)
        \/ s >= t /\ (s + (e.end - e.start) <= t \/ s >= Sent(r).end)
      BY <1>1, <2>1, OccurrencesTile
  <2>3. shown.start = s /\ shown.end = s + (e.end - e.start)
      BY <1>4, <2>1
  <2> QED BY <1>2, <1>3, <1>5, <2>1, <2>2, <2>3 DEF BetweenParts
<1>7. ASSUME shown \in Of(Before(r, t)) PROVE shown \in Of(r)
    BY <1>1, <1>3, <1>7, OccurrencesTile
<1>8. ASSUME shown \in Of(After(r, t))
      PROVE  shown \in Of(r) \/ StandsForSeries(Item(h, m, shown), m, r, expanded)
  <2>1. PICK s \in Starts(e) : /\ Showing(s, e, After(r, t), expanded)
                               /\ shown = VisibleInstance(s, e, expanded)
      BY <1>3, <1>8
  <2>2. Showing(s, e, r, expanded) \/ (expanded /\ e.recurs)
      BY <1>1, <2>1, OccurrencesTile
  <2> QED BY <1>2, <1>3, <1>5, <2>1, <2>2 DEF StandsForSeries
<1> QED BY <1>6, <1>7, <1>8 DEF Of

\* The due dates of a filter that asks for one.
LEMMA DueTile ==
    ASSUME NEW f \in Filters, NEW t \in Nat, Divides(t, f), NEW task \in Tasks
    PROVE  Wanted(task, f) <=> Wanted(task, Before(f, t)) \/ Wanted(task, After(f, t))
<1>1. task.due \in Nat \cup {None} /\ None \notin Nat
    BY ContentsAssumption DEF Task
<1>2. /\ f.op = "tasks"
      /\ f.dueAfter \in Nat \cup {None} /\ f.dueBefore \in Nat \cup {None}
      /\ f.dueAfter # None \/ f.dueBefore # None
      /\ f.dueAfter # None => f.dueAfter <= t
      /\ f.dueBefore # None => t <= f.dueBefore
    BY DEF Divides, Filters
<1>3. /\ Before(f, t).status = f.status /\ Before(f, t).dueAfter = f.dueAfter
      /\ Before(f, t).dueBefore = t
      /\ After(f, t).status = f.status /\ After(f, t).dueAfter = t
      /\ After(f, t).dueBefore = f.dueBefore
    BY <1>2 DEF Before, After, Filters
<1> DEFINE Fits(g) == g.status # None => task.status # None /\ Upper[task.status] = Upper[g.status]
           Due(g) == /\ g.dueAfter # None => task.due # None /\ task.due >= g.dueAfter
                     /\ g.dueBefore # None => task.due # None /\ task.due < g.dueBefore
<1>4. \A g : Wanted(task, g) <=> Fits(g) /\ Due(g)
    BY DEF Wanted
<1>5. (Fits(Before(f, t)) <=> Fits(f)) /\ (Fits(After(f, t)) <=> Fits(f))
    BY <1>3
<1>6. Due(f) <=> Due(Before(f, t)) \/ Due(After(f, t))
  <2>1. CASE task.due = None
      BY <1>1, <1>2, <1>3, <2>1
  <2>2. CASE task.due \in Nat
      BY <1>1, <1>2, <1>3, <2>2
  <2> QED BY <1>1, <2>1, <2>2
<1> HIDE DEF Fits, Due
<1> QED BY <1>4, <1>5, <1>6

\* What is listed of a moment for a request, and for its parts.
LEMMA ViewTile ==
    ASSUME NEW m, NEW r \in Requests, NEW t \in Nat, Divides(t, r), NEW expanded \in BOOLEAN
    PROVE  LET all    == View(m, r, expanded)
               before == View(m, Before(r, t), expanded)
               after  == View(m, After(r, t), expanded)
           IN  /\ \A i \in all \ (before \cup after) : BetweenParts(i, r, t)
               /\ before \subseteq all
               /\ \A i \in after \ all : StandsForSeries(i, m, r, expanded)
               /\ Sensible(Before(r, t)) /\ Sensible(After(r, t))
<1>1. CASE r \in Windows /\ r.op = "events"
  <2>1. /\ Before(r, t) \in Windows /\ Before(r, t).op = "events"
        /\ After(r, t) \in Windows /\ After(r, t).op = "events"
        /\ Before(r, t).start < Before(r, t).end /\ After(r, t).start < After(r, t).end
      BY <1>1, PartsOfWindow
  <2>2. ASSUME NEW w, w.op = "events", NEW i
        PROVE  i \in View(m, w, expanded) <=> IsSeen(i, m, w, expanded)
      BY <2>2, ViewOfEvents
  <2> DEFINE Held == {x \in Hrefs : m.store[x] \in Events}
             Of(h, w) == SeenOf(m.store[h].event, w, expanded)
  <2>7. \A w, i : w.op = "events" =>
          (i \in View(m, w, expanded) <=>
             \E h \in Held : \E shown \in Of(h, w) : i = Item(h, m, shown))
      BY <2>2 DEF IsSeen
  <2>3. \A h \in Held : \A shown :
          /\ shown \in Of(h, r) => \/ shown \in Of(h, Before(r, t)) \cup Of(h, After(r, t))
                                   \/ BetweenParts(Item(h, m, shown), r, t)
          /\ shown \in Of(h, Before(r, t)) => shown \in Of(h, r)
          /\ shown \in Of(h, After(r, t)) =>
               shown \in Of(h, r) \/ StandsForSeries(Item(h, m, shown), m, r, expanded)
      BY <1>1, SeenTile
  <2> HIDE DEF Of, Held
  <2>4. ASSUME NEW i \in View(m, r, expanded)
        PROVE  \/ i \in View(m, Before(r, t), expanded) \cup View(m, After(r, t), expanded)
               \/ BetweenParts(i, r, t)
    <3>1. PICK h \in Held : \E shown \in Of(h, r) : i = Item(h, m, shown)
        BY <1>1, <2>7
    <3>2. PICK shown \in Of(h, r) : i = Item(h, m, shown)
        BY <3>1
    <3> QED BY <3>2, <2>1, <2>7, <2>3, <3>1
  <2>5. ASSUME NEW i \in View(m, Before(r, t), expanded)
        PROVE  i \in View(m, r, expanded)
    <3>1. PICK h \in Held : \E shown \in Of(h, Before(r, t)) : i = Item(h, m, shown)
        BY <2>1, <2>7
    <3>2. PICK shown \in Of(h, Before(r, t)) : i = Item(h, m, shown)
        BY <3>1
    <3> QED BY <3>2, <1>1, <2>7, <2>3, <3>1
  <2>6. ASSUME NEW i \in View(m, After(r, t), expanded)
        PROVE  i \in View(m, r, expanded) \/ StandsForSeries(i, m, r, expanded)
    <3>1. PICK h \in Held : \E shown \in Of(h, After(r, t)) : i = Item(h, m, shown)
        BY <2>1, <2>7
    <3>2. PICK shown \in Of(h, After(r, t)) : i = Item(h, m, shown)
        BY <3>1
    <3> QED BY <3>2, <1>1, <2>7, <2>3, <3>1
  <2> QED BY <2>1, <2>4, <2>5, <2>6 DEF Sensible
<1>2. CASE r \in Filters /\ r.op = "tasks"
  <2>1. /\ Before(r, t) \in Filters /\ Before(r, t).op = "tasks"
        /\ After(r, t) \in Filters /\ After(r, t).op = "tasks"
      BY <1>2 DEF Before, After, Filters
  <2> DEFINE Held(w) == {x \in Hrefs : m.store[x] \in Tasks /\ Wanted(m.store[x], w)}
  <2>2. \A w : w.op = "tasks" => View(m, w, expanded) = {Item(h, m, m.store[h]) : h \in Held(w)}
      BY DEF View, Shown
  <2>3. Held(r) = Held(Before(r, t)) \cup Held(After(r, t))
      BY <1>2, DueTile
  <2> HIDE DEF Held
  <2> QED BY <1>2, <2>1, <2>2, <2>3 DEF Sensible
<1> QED BY <1>1, <1>2, RequestKinds

-----------------------------------------------------------------------------
(***************************************************************************)
(* The listings implement AtomicListings: a listing looks at the calendar  *)
(* when its REPORT is served.                                              *)
(***************************************************************************)

\* The two specifications speak of the same calendar.
LEMMA SameContents ==
    /\ Atomic!Moments = Moments
    /\ \A m, r, expanded : Atomic!View(m, r, expanded) = View(m, r, expanded)
    /\ \A m, r : Atomic!Unreadable(m, r) = Unreadable(m, r)
<1>1. Atomic!Moments = Moments
    BY DEF Atomic!Moments, Moments, Atomic!Docs, Docs
<1>2. \A e, w : Atomic!Occurrences(e, w) = Occurrences(e, w)
    BY DEF Atomic!Occurrences, Occurrences, Atomic!Starts, Starts, Atomic!Elements, Elements,
           Atomic!Happens, Happens, Atomic!Instants, Instants
<1>3. \A s, e : Atomic!Instance(s, e) = Instance(s, e)
    BY DEF Atomic!Instance, Instance
<1>4. \A h, m, i : Atomic!Item(h, m, i) = Item(h, m, i)
    BY DEF Atomic!Item, Item
<1>5. \A task, f : Atomic!Wanted(task, f) <=> Wanted(task, f)
    BY DEF Atomic!Wanted, Wanted
<1>6. \A m, r : Atomic!Shown(m, r) = Shown(m, r)
  <2> TAKE m, r
  <2> DEFINE Held == {x \in Hrefs : m.store[x] \in Events}
             Of(h) == {Item(h, m, Instance(s, m.store[h].event)) :
                         s \in Occurrences(m.store[h].event, r)}
             AtomicOf(h) == {Atomic!Item(h, m, Atomic!Instance(s, m.store[h].event)) :
                               s \in Atomic!Occurrences(m.store[h].event, r)}
             Fitting == {Item(h, m, m.store[h]) :
                           h \in {x \in Hrefs : m.store[x] \in Tasks /\ Wanted(m.store[x], r)}}
             AtomicFitting ==
               {Atomic!Item(h, m, m.store[h]) :
                  h \in {x \in Hrefs : m.store[x] \in Tasks /\ Atomic!Wanted(m.store[x], r)}}
  <2>1. \A h : AtomicOf(h) = Of(h)
      BY <1>2, <1>3, <1>4
  <2>2. AtomicFitting = Fitting
      BY <1>4, <1>5
  <2>3. /\ Shown(m, r) = IF r.op = "events" THEN UNION {Of(h) : h \in Held} ELSE Fitting
        /\ Atomic!Shown(m, r) = IF r.op = "events" THEN UNION {AtomicOf(h) : h \in Held}
                                                  ELSE AtomicFitting
      BY DEF Shown, Atomic!Shown
  <2> HIDE DEF Of, AtomicOf, Fitting, AtomicFitting
  <2>4. UNION {AtomicOf(h) : h \in Held} = UNION {Of(h) : h \in Held}
      BY <2>1
  <2> QED BY <2>2, <2>3, <2>4
<1>7. \A e : Atomic!Generated(e) = Generated(e)
    BY DEF Atomic!Generated, Generated
<1>8. \A m, r, expanded : Atomic!View(m, r, expanded) = View(m, r, expanded)
  <2> TAKE m, r, expanded
  <2>1. \A s, e : Atomic!Visible(s, e, r, expanded) <=> Visible(s, e, r, expanded)
    <3>1. Atomic!Sent(r) = Sent(r)
        BY DEF Atomic!Sent, Sent
    <3> QED BY <1>2, <1>7, <3>1 DEF Atomic!Visible, Visible
  <2>2. \A s, e : Atomic!VisibleInstance(s, e, expanded) = VisibleInstance(s, e, expanded)
      BY <1>3 DEF Atomic!VisibleInstance, VisibleInstance
  <2> DEFINE Held == {x \in Hrefs : m.store[x] \in Events}
             Of(h) == {Item(h, m, VisibleInstance(s, m.store[h].event, expanded)) :
                         s \in {o \in Occurrences(m.store[h].event, r) :
                                  Visible(o, m.store[h].event, r, expanded)}}
             AtomicOf(h) == {Atomic!Item(h, m, Atomic!VisibleInstance(s, m.store[h].event, expanded)) :
                               s \in {o \in Atomic!Occurrences(m.store[h].event, r) :
                                        Atomic!Visible(o, m.store[h].event, r, expanded)}}
  <2>3. \A h : AtomicOf(h) = Of(h)
      BY <1>2, <1>4, <2>1, <2>2
  <2>4. /\ View(m, r, expanded) = IF r.op = "events" THEN UNION {Of(h) : h \in Held}
                                                     ELSE Shown(m, r)
        /\ Atomic!View(m, r, expanded) = IF r.op = "events" THEN UNION {AtomicOf(h) : h \in Held}
                                                            ELSE Atomic!Shown(m, r)
      BY DEF View, Atomic!View
  <2> HIDE DEF Of, AtomicOf
  <2>5. UNION {AtomicOf(h) : h \in Held} = UNION {Of(h) : h \in Held}
      BY <2>3
  <2> QED BY <1>6, <2>4, <2>5
<1>9. \A m, r : Atomic!Unreadable(m, r) = Unreadable(m, r)
    BY DEF Atomic!Unreadable, Unreadable, Atomic!HeldFor, HeldFor
<1> QED BY <1>1, <1>8, <1>9

\* What the abstract state is computed from, of the call c, is untouched.
SameAbs(c) ==
    /\ Looked(c)' = Looked(c) /\ Seen(c)' = Seen(c)
    /\ Flawed(c)' = Flawed(c) /\ Verdict(c)' = Verdict(c)

LEMMA SameIsSameAbs ==
    ASSUME NEW c \in Calls, phase'[c] = phase[c], report'[c] = report[c],
           answer'[c] = answer[c], request'[c] = request[c] \/ ~Looked(c)
    PROVE  SameAbs(c)
<1>1. Looked(c)' = Looked(c) /\ Data(c)' = Data(c)
    BY DEF Looked, Data
<1>2. Flawed(c)' = Flawed(c)
    BY <1>1 DEF Flawed
<1>3. Verdict(c)' = Verdict(c)
    BY DEF Verdict
<1>4. Seen(c)' = Seen(c)
    BY <1>1 DEF Seen, Read
<1> QED BY <1>1, <1>2, <1>3, <1>4 DEF SameAbs

\* A step that moves nothing of the abstract state is a stutter.
LEMMA Stutter ==
    ASSUME UNCHANGED <<store, version, request, listed>>, \A c \in Calls : SameAbs(c)
    PROVE  UNCHANGED Atomic!vars
<1>1. Moment' = Moment
    BY DEF Moment
<1> QED BY <1>1 DEF Atomic!vars, SameAbs

\* From the calls one by one to the functions of the abstract state.
LEMMA LiftCall ==
    ASSUME NEW c \in Calls, \A d \in Calls \ {c} : SameAbs(d)
    PROVE  /\ [d \in Calls |-> Looked(d)]' = [[d \in Calls |-> Looked(d)] EXCEPT ![c] = Looked(c)']
           /\ [d \in Calls |-> Seen(d)]' = [[d \in Calls |-> Seen(d)] EXCEPT ![c] = Seen(c)']
           /\ [d \in Calls |-> Flawed(d)]' = [[d \in Calls |-> Flawed(d)] EXCEPT ![c] = Flawed(c)']
           /\ [d \in Calls |-> Verdict(d)]' = [[d \in Calls |-> Verdict(d)] EXCEPT ![c] = Verdict(c)']
<1>1. \A d \in Calls : /\ Looked(d)' = IF d = c THEN Looked(c)' ELSE Looked(d)
                       /\ Flawed(d)' = IF d = c THEN Flawed(c)' ELSE Flawed(d)
    BY DEF SameAbs
<1>2. \A d \in Calls : /\ Seen(d)' = IF d = c THEN Seen(c)' ELSE Seen(d)
                       /\ Verdict(d)' = IF d = c THEN Verdict(c)' ELSE Verdict(d)
    BY DEF SameAbs
<1>3. /\ [d \in Calls |-> Looked(d)]' = [[d \in Calls |-> Looked(d)] EXCEPT ![c] = Looked(c)']
      /\ [d \in Calls |-> Flawed(d)]' = [[d \in Calls |-> Flawed(d)] EXCEPT ![c] = Flawed(c)']
    BY <1>1
<1>4. /\ [d \in Calls |-> Seen(d)]' = [[d \in Calls |-> Seen(d)] EXCEPT ![c] = Seen(c)']
      /\ [d \in Calls |-> Verdict(d)]' = [[d \in Calls |-> Verdict(d)] EXCEPT ![c] = Verdict(c)']
    BY <1>2
<1> QED BY <1>3, <1>4

\* A call that is not waiting has nothing under way.
LEMMA NotLooked ==
    ASSUME IInv, NEW c \in Calls
    PROVE  /\ phase[c] # "report" => ~Looked(c)
           /\ report[c] = Nothing => ~Looked(c)
<1>1. report[c] # Nothing => phase[c] = "report"
    BY DEF IInv, Consistent
<1> QED BY <1>1 DEF Looked, Nothing

LEMMA InitAbs == Init => Atomic!Init
<1> SUFFICES ASSUME Init PROVE Atomic!Init
    OBVIOUS
<1>1. Moment \in Moments
    BY DEF Init, Moment, Moments, Docs
<1>2. \A c \in Calls : /\ Looked(c) = FALSE /\ Seen(c) = {} /\ Flawed(c) = FALSE
                       /\ Verdict(c) = "none"
    BY DEF Init, Nothing, Looked, Seen, Flawed, Verdict
<1> QED BY <1>1, <1>2, SameContents DEF Init, Atomic!Init

LEMMA BeginAbs ==
    ASSUME IInv, NEW c \in Calls, Call(c), request[c] = None
    PROVE  Atomic!Begin(c)
<1>1. PICK r \in Requests : request' = [request EXCEPT ![c] = r]
    BY DEF Call
<1>2. /\ phase[c] = "idle" /\ phase'[c] = "report" /\ UNCHANGED <<server, report, answer, listed>>
      /\ \A d \in Calls \ {c} : phase'[d] = phase[d] /\ request'[d] = request[d]
    BY <1>1 DEF Call, IInv, TypeOK
<1>3. \A d \in Calls \ {c} : SameAbs(d)
    BY <1>2, SameIsSameAbs
<1>4. SameAbs(c)
  <2>1. ~Looked(c) /\ ~Looked(c)'
      BY <1>2, NotLooked DEF Looked
  <2> QED BY <1>2, <2>1 DEF SameAbs, Seen, Flawed, Verdict, Looked
<1>5. Moment' = Moment
    BY <1>2 DEF Moment, server
<1>6. UNCHANGED <<Moment, [d \in Calls |-> Looked(d)], [d \in Calls |-> Seen(d)],
                  [d \in Calls |-> Flawed(d)], [d \in Calls |-> Verdict(d)], listed>>
    BY <1>2, <1>3, <1>4, <1>5 DEF SameAbs
<1> QED BY <1>1, <1>6 DEF Atomic!Begin

\* Whatever a call returns, it is over.
LEMMA ReturnAbs ==
    ASSUME IInv, NEW c \in Calls, phase[c] = "report",
           NEW what \in {"ok", "ical", "timeout"} \cup Failures, Return(c, what)
    PROVE  /\ what = "ok" => Atomic!Close(c, "ok")
           /\ what = "ical" => Atomic!Close(c, "flawed")
           /\ what \notin {"ok", "ical"} => Atomic!Close(c, "failed")
<1> DEFINE told == IF what = "ok" THEN "ok" ELSE IF what = "ical" THEN "flawed" ELSE "failed"
<1>1. /\ phase'[c] = "done" /\ answer'[c] = what /\ report'[c] = Nothing
      /\ UNCHANGED <<server, request, moments>>
      /\ \A d \in Calls \ {c} : /\ phase'[d] = phase[d] /\ answer'[d] = answer[d]
                                /\ report'[d] = report[d]
    BY DEF Return, IInv, TypeOK
<1>2. \A d \in Calls \ {c} : SameAbs(d)
    BY <1>1, SameIsSameAbs
<1>3. Verdict(c) = "none" /\ Verdict(c)' = told
    BY <1>1 DEF Verdict
<1>4. Looked(c)' = FALSE
    BY <1>1 DEF Looked, Nothing
<1>5. Seen(c)' = {} /\ Flawed(c)' = FALSE
    BY <1>4 DEF Seen, Flawed
<1>6. request[c] # None
    BY ContentsAssumption DEF IInv, Consistent
<1>7. UNCHANGED <<Moment, request>>
    BY <1>1 DEF Moment, server
<1>8. [d \in Calls |-> Verdict(d)][c] = "none"
    BY <1>3
<1> HIDE DEF told
<1>9. Atomic!Close(c, told)
    BY <1>2, <1>3, <1>4, <1>5, <1>6, <1>7, <1>8, LiftCall DEF Atomic!Close
<1> QED BY <1>9 DEF told

\* A listing that answers shows what it saw.
LEMMA AnswersAbs ==
    ASSUME IInv, NEW c \in Calls, ListingAnswers(c)
    PROVE  Atomic!Answer(c)
<1>1. /\ phase[c] = "report" /\ Looked(c) /\ ~Flawed(c) /\ Return(c, "ok")
      /\ listed' = [listed EXCEPT ![c] = Seen(c)]
    BY DEF ListingAnswers, Looked, Flawed, Seen
<1>2. Atomic!Close(c, "ok")
    BY <1>1, ReturnAbs
<1>3. [d \in Calls |-> Looked(d)][c] /\ ~[d \in Calls |-> Flawed(d)][c]
    BY <1>1
<1>4. [d \in Calls |-> Seen(d)][c] = Seen(c)
    OBVIOUS
<1> QED BY <1>1, <1>2, <1>3, <1>4 DEF Atomic!Answer

\* One that fails met a flaw, or the exchange failed.
LEMMA FailsAbs ==
    ASSUME IInv, NEW c \in Calls, ListingFails(c) \/ GiveUp(c)
    PROVE  Atomic!Refuse(c) \/ Atomic!Fail(c)
<1>1. phase[c] = "report" /\ listed' = listed
    BY DEF ListingFails, GiveUp
<1>2. CASE GiveUp(c)
  <2>1. Return(c, "timeout")
      BY <1>2 DEF GiveUp
  <2> QED BY <1>1, <2>1, ReturnAbs DEF Atomic!Fail
<1>3. CASE report[c].status \notin {"none", "multistatus"} /\ Return(c, report[c].status)
  <2>1. report[c].status \in Failures
      BY <1>3 DEF IInv, Consistent
  <2>2. report[c].status \notin {"ok", "ical"}
      BY <2>1 DEF Failures
  <2> QED BY <1>1, <1>3, <2>1, <2>2, ReturnAbs DEF Atomic!Fail
<1>4. CASE /\ report[c].status = "multistatus" /\ Return(c, "ical")
           /\ \E entry \in Data(c) : ~entry.data.readable
  <2>1. Looked(c) /\ Flawed(c)
      BY <1>4 DEF Looked, Flawed
  <2>2. [d \in Calls |-> Looked(d)][c] /\ [d \in Calls |-> Flawed(d)][c]
      BY <2>1
  <2> QED BY <1>1, <1>4, <2>2, ReturnAbs DEF Atomic!Refuse
<1> QED BY <1>2, <1>3, <1>4 DEF ListingFails

\* The look: the report holds what there was to see, and a document that cannot
\* be read is met only if there is one, and if something of it would be shown.
LEMMA LookAbs ==
    ASSUME IInv, NEW c \in Calls, ServeReport(c)
    PROVE  Atomic!Look(c)
<1> DEFINE r == request[c]
<1>1. /\ phase[c] = "report" /\ report[c] = Nothing /\ Proper(Sent(r))
      /\ UNCHANGED <<server, request, phase, answer, listed, moments>>
    BY DEF ServeReport
<1>2. PICK expanded \in BOOLEAN, gone \in SUBSET {h \in Hrefs : store[h] = None} :
         report' = [report EXCEPT ![c] =
           [status |-> "multistatus",
            entries |-> Entries(Moment, Sent(r), expanded) \cup {Gone(h) : h \in gone}]]
    BY DEF ServeReport
<1> DEFINE now == Entries(Moment, Sent(r), expanded)
<1>3. /\ report'[c].status = "multistatus"
      /\ report'[c].entries = Entries(Moment, Sent(r), expanded) \cup {Gone(h) : h \in gone}
      /\ \A d \in Calls \ {c} : report'[d] = report[d]
    BY <1>2 DEF IInv, TypeOK
<1>4. r \in Requests /\ r # None /\ Sensible(r) /\ answer[c] = "none"
    BY <1>1, ContentsAssumption, ProperIsSensible DEF IInv, Consistent
<1>5. \A d \in Calls \ {c} : SameAbs(d)
    BY <1>1, <1>3, SameIsSameAbs
<1>6. Data(c)' = now
  <2>1. \A h : Gone(h).data = None
      BY DEF Gone
  <2>2. \A entry \in now : entry.data # None
      BY EntriesHaveData
  <2> QED BY <1>3, <2>1, <2>2 DEF Data
<1> HIDE DEF now
<1>7. ~Looked(c) /\ Looked(c)' = TRUE /\ Verdict(c) = "none" /\ Verdict(c)' = "none"
    BY <1>1, <1>3, NotLooked DEF Looked, Verdict
<1>8. Seen(c)' = View(Moment, r, expanded)
  <2>1. Seen(c)' = UNION {ListEntry(entry, r) : entry \in now}
      BY <1>1, <1>6, <1>7 DEF Seen, Read
  <2>2. Seen(c)' = Listing(Moment, r, expanded)
      BY <2>1 DEF Listing, now
  <2> QED BY <1>1, <1>4, <2>2, ListingIsView
<1>9. Flawed(c)' \in BOOLEAN /\ (Flawed(c)' <=> \E entry \in now : ~entry.data.readable)
    BY <1>6, <1>7 DEF Flawed
<1>10. Flawed(c)' => Unreadable(Moment, r) # {}
  <2> SUFFICES ASSUME NEW entry \in now, ~entry.data.readable
               PROVE  Unreadable(Moment, r) # {}
      BY <1>9
  <2>1. PICK h \in Hrefs : Selected(Moment.store[h], Sent(r)) /\ ~Moment.store[h].readable
      BY EntriesHaveData DEF now
  <2>2. Sent(r).op = r.op
      BY <1>4, RequestKinds, SentWindow DEF Sent
  <2> QED BY <2>1, <2>2 DEF Unreadable, HeldFor, Selected
<1>11. ~Flawed(c)' => \A i \in View(Moment, r, expanded) : i.href \notin Unreadable(Moment, r)
  <2> SUFFICES ASSUME \A entry \in now : entry.data.readable, NEW i \in Listing(Moment, r, expanded)
               PROVE  i.href \notin Unreadable(Moment, r)
      BY <1>1, <1>4, <1>9, ListingIsView
  <2>1. PICK entry \in now : i \in ListEntry(entry, r)
      BY DEF Listing, now
  <2>2. i.href = entry.href
      BY <2>1 DEF ListEntry
  <2>3. entry.data.readable = Moment.store[entry.href].readable
      BY EntriesHaveData DEF now
  <2> QED BY <2>1, <2>2, <2>3 DEF Unreadable
<1>12. Atomic!MayMeet(Moment, r, expanded, Flawed(c)')
    BY <1>10, <1>11, SameContents DEF Atomic!MayMeet
<1>13. /\ [d \in Calls |-> Looked(d)]' = [[d \in Calls |-> Looked(d)] EXCEPT ![c] = TRUE]
       /\ [d \in Calls |-> Seen(d)]' = [[d \in Calls |-> Seen(d)] EXCEPT ![c] = View(Moment, r, expanded)]
       /\ [d \in Calls |-> Flawed(d)]' = [[d \in Calls |-> Flawed(d)] EXCEPT ![c] = Flawed(c)']
    BY <1>5, <1>7, <1>8, LiftCall
<1>14. UNCHANGED <<Moment, request, [d \in Calls |-> Verdict(d)], listed>>
  <2>1. \A d \in Calls : Verdict(d)' = Verdict(d)
      BY <1>5, <1>7 DEF SameAbs
  <2> QED BY <1>1, <2>1 DEF Moment, server
<1>15. ~[d \in Calls |-> Looked(d)][c] /\ [d \in Calls |-> Verdict(d)][c] = "none"
    BY <1>7
<1>16. Atomic!View(Moment, r, expanded) = View(Moment, r, expanded)
    BY SameContents
<1> QED BY <1>4, <1>9, <1>12, <1>13, <1>14, <1>15, <1>16 DEF Atomic!Look

\* Another client's write moves the calendar only.
LEMMA ChangeAbs ==
    ASSUME IInv, IInv', NEW h \in Hrefs, Change(h)
    PROVE  Atomic!OtherClient
<1>1. UNCHANGED <<request, phase, report, answer, listed>>
    BY DEF Change
<1>2. \A c \in Calls : SameAbs(c)
    BY <1>1, SameIsSameAbs
<1>3. Moment' \in Moments
    BY DEF Moment, Moments, IInv, TypeOK
<1> QED BY <1>1, <1>2, <1>3, SameContents DEF Atomic!OtherClient, SameAbs

-----------------------------------------------------------------------------
(***************************************************************************)
(* The theorems.                                                           *)
(***************************************************************************)

\* A successful listing shows one moment of its call, all that View says of it and
\* no mix of two, for every calendar, window and filter, and whatever the server
\* makes of <expand>.
THEOREM ListingsShowOneMoment == Spec => []ListsOneMoment
<1>1. ASSUME IInv PROVE ListsOneMoment
  <2> SUFFICES ASSUME NEW c \in Calls, Ok(c)
               PROVE  \E m \in moments[c], expanded \in BOOLEAN :
                        listed[c] = View(m, request[c], expanded)
      BY DEF ListsOneMoment
  <2>1. Sensible(request[c])
      BY <1>1, ProperIsSensible DEF IInv, Consistent, Ok
  <2>2. PICK m \in moments[c], expanded \in BOOLEAN : listed[c] = Listing(m, request[c], expanded)
      BY <1>1 DEF IInv, Consistent
  <2> QED BY <2>1, <2>2, ListingIsView
<1> QED BY <1>1, ListingsInvariance, PTL

\* Two windows, or two due filters, that meet leave nothing out between them but
\* what is over as the second one starts and what starts in the second it ends in:
\* for every calendar, window, filter and time on a full second at which the parts
\* meet, events without a duration, series past the limit and windows with
\* fractions of a second included.
THEOREM AdjacentWindowsTile == Spec => []WindowsTile
<1>1. ASSUME IInv PROVE WindowsTile
  <2> SUFFICES ASSUME NEW c \in Calls, Ok(c)
               PROVE  \E m \in moments[c], expanded \in BOOLEAN :
                 /\ listed[c] = Listing(m, request[c], expanded)
                 /\ \A t \in Times : Divides(t, request[c]) =>
                      LET before == Listing(m, Before(request[c], t), expanded)
                          after  == Listing(m, After(request[c], t), expanded)
                      IN  /\ \A i \in listed[c] \ (before \cup after) :
                                BetweenParts(i, request[c], t)
                          /\ before \subseteq listed[c]
                          /\ \A i \in after \ listed[c] :
                                StandsForSeries(i, m, request[c], expanded)
      BY DEF WindowsTile
  <2> DEFINE r == request[c]
  <2>1. r \in Requests /\ Sensible(r)
      BY <1>1, ProperIsSensible DEF IInv, Consistent, Ok
  <2>2. PICK m \in moments[c], expanded \in BOOLEAN : listed[c] = Listing(m, r, expanded)
      BY <1>1 DEF IInv, Consistent
  <2> HIDE DEF r
  <2>3. listed[c] = View(m, r, expanded)
      BY <2>1, <2>2, ListingIsView
  <2>4. ASSUME NEW t \in Times, Divides(t, r)
        PROVE  LET before == Listing(m, Before(r, t), expanded)
                   after  == Listing(m, After(r, t), expanded)
               IN  /\ \A i \in listed[c] \ (before \cup after) : BetweenParts(i, r, t)
                   /\ before \subseteq listed[c]
                   /\ \A i \in after \ listed[c] : StandsForSeries(i, m, r, expanded)
    <3>1. t \in Nat
        BY ListingAssumption
    <3>2. Sensible(Before(r, t)) /\ Sensible(After(r, t))
        BY <2>1, <2>4, <3>1, ViewTile
    <3>3. /\ Listing(m, Before(r, t), expanded) = View(m, Before(r, t), expanded)
          /\ Listing(m, After(r, t), expanded) = View(m, After(r, t), expanded)
        BY <3>2, ListingIsView
    <3>4. /\ \A i \in View(m, r, expanded) \ (View(m, Before(r, t), expanded)
                                               \cup View(m, After(r, t), expanded)) :
               BetweenParts(i, r, t)
          /\ View(m, Before(r, t), expanded) \subseteq View(m, r, expanded)
          /\ \A i \in View(m, After(r, t), expanded) \ View(m, r, expanded) :
               StandsForSeries(i, m, r, expanded)
        BY <2>1, <2>4, <3>1, ViewTile
    <3> QED BY <2>3, <3>3, <3>4
  <2> QED BY <2>2, <2>4 DEF r
<1> QED BY <1>1, ListingsInvariance, PTL

\* Every step is a step of the atomic listings or is not seen by them.
LEMMA StepAbs ==
    ASSUME IInv, IInv', [Next]_vars
    PROVE  [Atomic!Next]_(Atomic!vars)
<1>1. ASSUME NEW c \in Calls, Call(c) PROVE Atomic!Begin(c)
    BY <1>1, BeginAbs DEF Call, IInv, Consistent
<1>2. ASSUME NEW c \in Calls, ListingStep(c)
      PROVE  Atomic!Answer(c) \/ Atomic!Refuse(c) \/ Atomic!Fail(c)
    BY <1>2, AnswersAbs, FailsAbs DEF ListingStep
<1>3. ASSUME NEW c \in Calls, ServeReport(c) PROVE Atomic!Look(c)
    BY <1>3, LookAbs
<1>4. ASSUME NEW c \in Calls, ServeFailure(c) PROVE UNCHANGED Atomic!vars
  <2>1. PICK status \in Failures :
          report' = [report EXCEPT ![c] = [Nothing EXCEPT !.status = status]]
      BY <1>4 DEF ServeFailure
  <2>2. /\ report[c] = Nothing /\ UNCHANGED <<server, request, phase, answer, listed>>
        /\ report'[c].status = status /\ \A d \in Calls \ {c} : report'[d] = report[d]
      BY <1>4, <2>1 DEF ServeFailure, Nothing, IInv, TypeOK
  <2>3. ~Looked(c) /\ ~Looked(c)'
      BY <2>2, NotLooked DEF Looked, Failures
  <2>4. SameAbs(c)
      BY <2>2, <2>3 DEF SameAbs, Looked, Seen, Flawed, Verdict
  <2>5. \A d \in Calls \ {c} : SameAbs(d)
      BY <2>2, SameIsSameAbs
  <2> QED BY <2>2, <2>4, <2>5, Stutter DEF server
<1>5. ASSUME NEW h \in Hrefs, Change(h) PROVE Atomic!OtherClient
    BY <1>5, ChangeAbs
<1>6. CASE UNCHANGED vars
    BY <1>6, SameIsSameAbs, Stutter DEF vars, server
<1> QED BY <1>1, <1>2, <1>3, <1>4, <1>5, <1>6 DEF Next, Atomic!Next

\* The listings, however late their reports are read and whatever is written
\* meanwhile, are listings that look at the calendar in one step between call and
\* answer, for every calendar and request and whatever the server makes of <expand>.
THEOREM ListingsRefinement == Spec => ListingsAreAtomic
<1>1. IInv /\ IInv' /\ [Next]_vars => [Atomic!Next]_(Atomic!vars)
    BY StepAbs
<1> QED BY InitAbs, <1>1, ListingsInvariance, PTL DEF Spec, ListingsAreAtomic, Atomic!Spec
=============================================================================
