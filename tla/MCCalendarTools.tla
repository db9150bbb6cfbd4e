--------------------------- MODULE MCCalendarTools ---------------------------
(* Small instances of CalendarTools for TLC: one calendar, one UID in use    *)
(* and one or two that creates can draw, two field values and the empty text.*)
EXTENDS CalendarTools, TLC

CONSTANTS cal, u1, f1, f2, text, old, new, plain, alarm

MCUids == {u1, f1, f2}

MCDerivedEnd == [x \in {text, old, new} \X {plain, alarm} |->
                   IF x[2] = alarm THEN new ELSE x[1]]

Fields(kind, some) ==
    [f \in FieldsOf(kind) |-> IF f \in DOMAIN some THEN some[f] ELSE None]

Doc(kind, uid, some, extra) ==
    [kind |-> kind, uid |-> uid, fields |-> Fields(kind, some), extra |-> extra]

Request(op, kind, uid, some, clear) ==
    [op |-> op, kind |-> kind, cal |-> cal, uid |-> uid,
     patch |-> Fields(kind, some), clear |-> clear]

\* An event as other clients write it: no DTEND, an alarm.
Meeting == Doc("VEVENT", u1, [summary |-> old, start |-> old, location |-> old], alarm)

\* The same UID, moved and described.
Moved == Doc("VEVENT", u1, [start |-> new, end |-> new, description |-> old], plain)

Task == Doc("VTODO", u1, [due |-> old, status |-> old], plain)

\* An event stored under a name that is not its UID.
Misnamed == Doc("VEVENT", f2, [start |-> old], plain)

NoStart == Doc("VEVENT", u1, [summary |-> old], plain)

NoUid == Doc("VEVENT", None, [start |-> old], plain)

GetEvent == Request("get", "VEVENT", u1, <<>>, {})

CreateEvent ==
    Request("create", "VEVENT", None, [summary |-> new, start |-> old, end |-> new], {})

CreateTask == Request("create", "VTODO", None, [summary |-> new], {})

\* Sets a field, sets and clears another, clears a third.
EditEvent ==
    Request("update", "VEVENT", u1, [summary |-> new, location |-> new],
            {"location", "description"})

EditTask == Request("update", "VTODO", u1, [status |-> new], {"due"})

BadClear == Request("update", "VEVENT", u1, [summary |-> new], {"rrule", "start"})

DeleteEvent == Request("delete", "VEVENT", u1, <<>>, {})

DeleteTask == Request("delete", "VTODO", u1, <<>>, {})

EventRequests == {CreateEvent, EditEvent, BadClear, DeleteEvent}

TaskRequests == {GetEvent, CreateTask, EditTask, DeleteTask, EditEvent}

EventDocs == {Meeting, Moved, NoUid}

AllDocs == {Meeting, Task, NoStart, Misnamed}

CallSymmetry == Permutations(Calls)
=============================================================================
