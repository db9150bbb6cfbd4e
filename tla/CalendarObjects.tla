--------------------------- MODULE CalendarObjects ---------------------------
(***************************************************************************)
(* The data the calendar tools handle: the iCalendar document the CalDAV   *)
(* server stores under an href, the Event or Todo the program reads out of *)
(* it, and the operations between the two (src/ical.rs, caldav/model.rs).  *)
(* A document is its first VEVENT or VTODO: the uid, the fields the        *)
(* program knows, and one value, extra, for everything else it says: the   *)
(* TZID or VALUE=DATE form of its times, DURATION, EXDATE, ATTENDEE,       *)
(* VALARM, overridden instances, a VTIMEZONE.                              *)
(***************************************************************************)
EXTENDS Naturals

CONSTANTS
    Calendars,   \* hrefs of calendar collections
    Uids,        \* UIDs, also the names of resources in a collection
    Values,      \* values of a field
    Extras,      \* what a document says beyond the known fields
    NoExtra,     \* nothing beyond them
    EmptyText,   \* the empty string
    DerivedEnd,  \* <<start, extra>> -> the end of an event that has no DTEND
    None         \* an absent field, object or header

ASSUME ValuesAssumption ==
    /\ EmptyText \in Values
    /\ NoExtra \in Extras
    /\ DerivedEnd \in [Values \X Extras -> Values]
    /\ None \notin Values \cup Uids \cup Nat

Kinds == {"VEVENT", "VTODO"}

EventFields == {"summary", "start", "end", "location", "description", "rrule"}

TodoFields == {"summary", "due", "status", "description", "priority"}

FieldsOf(kind) == IF kind = "VEVENT" THEN EventFields ELSE TodoFields

\* The names clear_fields accepts; any other name is an error.
Clearable(kind) ==
    IF kind = "VEVENT" THEN {"location", "description", "rrule"}
                       ELSE {"due", "status", "description", "priority"}

FieldValues(kind) == [FieldsOf(kind) -> Values \cup {None}]

DocsOf(kind) == [kind : {kind}, uid : Uids \cup {None},
                 fields : FieldValues(kind), extra : Extras]

Docs == DocsOf("VEVENT") \cup DocsOf("VTODO")

Hrefs == Calendars \X Uids

\* The resource a tool addresses for a UID: <calendar>/<uid>.ics.
ObjectHref(cal, uid) == <<cal, uid>>

-----------------------------------------------------------------------------
(***************************************************************************)
(* The in-memory object: known fields, plus the href and ETag it was read  *)
(* with (None for an object that was never read).                          *)
(***************************************************************************)

ObjectsOf(kind) == [kind : {kind}, uid : Uids, fields : FieldValues(kind),
                    href : Hrefs \cup {None}, etag : Nat \cup {None}]

Objects == ObjectsOf("VEVENT") \cup ObjectsOf("VTODO")

\* Whether the parser for this kind finds its component, a UID and, for an
\* event, a DTSTART it can resolve.
Readable(doc, kind) ==
    /\ doc.kind = kind
    /\ doc.uid # None
    /\ kind = "VEVENT" => doc.fields["start"] # None

\* A field as it is read: a missing SUMMARY is the empty string, a missing
\* DTEND is derived from DURATION, the all-day form or the start.
ReadField(doc, f) ==
    IF doc.fields[f] # None THEN doc.fields[f]
    ELSE CASE f = "summary" -> EmptyText
           [] f = "end"     -> DerivedEnd[<<doc.fields["start"], doc.extra>>]
           [] OTHER         -> None

Parse(doc) == [kind   |-> doc.kind,
               uid    |-> doc.uid,
               fields |-> [f \in FieldsOf(doc.kind) |-> ReadField(doc, f)],
               href   |-> None,
               etag   |-> None]

\* The document written for an object is rebuilt from its fields alone.  Values
\* have no inside here: that a fraction of a second is cut, a carriage return
\* dropped and an RRULE written as it was given is not modelled.
Build(obj) == [kind   |-> obj.kind,
               uid    |-> obj.uid,
               fields |-> obj.fields,
               extra  |-> NoExtra]

ClearFields(obj, names) ==
    [obj EXCEPT !.fields = [f \in FieldsOf(obj.kind) |->
                              IF f \in names THEN None ELSE obj.fields[f]]]

ApplyPatch(obj, patch) ==
    [obj EXCEPT !.fields = [f \in FieldsOf(obj.kind) |->
                              IF patch[f] # None THEN patch[f]
                                                 ELSE obj.fields[f]]]

-----------------------------------------------------------------------------
(***************************************************************************)
(* Tool calls.  A request names an operation, the kind of object its tool  *)
(* handles (event or task), the calendar and, but for create, the UID;     *)
(* patch holds the fields to set and clear the names to clear.             *)
(***************************************************************************)

Ops == {"get", "create", "update", "delete"}

RequestsOf(kind) == [op : Ops, kind : {kind}, cal : Calendars,
                     uid : Uids \cup {None}, patch : FieldValues(kind),
                     clear : SUBSET STRING]

RequestRecords == RequestsOf("VEVENT") \cup RequestsOf("VTODO")

\* The fields create_event and create_task require.
Required(kind) == IF kind = "VEVENT" THEN {"summary", "start", "end"}
                                     ELSE {"summary"}

WellFormed(r) ==
    /\ r \in RequestRecords
    /\ r.uid = None <=> r.op = "create"
    /\ r.op = "create" => \A f \in Required(r.kind) : r.patch[f] # None

\* The object create_* makes under a new UID.
NewObject(r, uid) == [kind |-> r.kind, uid |-> uid, fields |-> r.patch,
                      href |-> None, etag |-> None]

\* A faulty variant of EditObject: a name in clear wins over a new value.
PatchThenClear(obj, r) == ClearFields(ApplyPatch(obj, r.patch), r.clear)

\* The edit update_* makes: clear first, so that a new value wins.
EditObject(obj, r) == ApplyPatch(ClearFields(obj, r.clear), r.patch)

CreatedDoc(r, uid) == Build(NewObject(r, uid))

EditedDoc(doc, r) == Build(EditObject(Parse(doc), r))

\* Whether update_* gets as far as writing when it reads this document.
Editable(doc, r) == Readable(doc, r.kind) /\ r.clear \subseteq Clearable(r.kind)

\* An absent thing is told apart from every thing that is there.
ASSUME NoneAssumption == None \notin Docs \cup Objects \cup RequestRecords \cup Hrefs
=============================================================================
