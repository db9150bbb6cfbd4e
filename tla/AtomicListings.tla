---------------------------- MODULE AtomicListings ----------------------------
(***************************************************************************)
(* What list_events and list_tasks promise.  A listing looks at the        *)
(* calendar in one atomic step between its call and its answer, and what   *)
(* an "ok" answer lists is what the calendar said at that instant.  It is  *)
(* refused as "flawed" only if the calendar then held a document of the    *)
(* kind asked for that cannot be read, and is never answered "ok" if one   *)
(* of which it would show something could not be.                          *)
(***************************************************************************)
EXTENDS CalendarContents

CONSTANTS Calls

VARIABLES
    calendar,  \* what the calendar holds now
    asked,     \* the request of each listing, None before it begins
    looked,    \* whether the listing has looked at the calendar
    seen,      \* what it saw there
    flawed,    \* whether it met a document it cannot read
    verdict,   \* what the caller was told: "ok", "flawed", "failed"
    shown      \* what an "ok" answer lists

vars == <<calendar, asked, looked, seen, flawed, verdict, shown>>

Init ==
    /\ calendar \in Moments
    /\ asked = [c \in Calls |-> None]
    /\ looked = [c \in Calls |-> FALSE]
    /\ seen = [c \in Calls |-> {}]
    /\ flawed = [c \in Calls |-> FALSE]
    /\ verdict = [c \in Calls |-> "none"]
    /\ shown = [c \in Calls |-> {}]

-----------------------------------------------------------------------------

Begin(c) ==
    /\ asked[c] = None
    /\ \E r \in Requests : asked' = [asked EXCEPT ![c] = r]
    /\ UNCHANGED <<calendar, looked, seen, flawed, verdict, shown>>

\* Whether a look at this moment may, or may not, meet a document it cannot read.
MayMeet(m, r, expanded, flaw) ==
    /\ flaw => Unreadable(m, r) # {}
    /\ ~flaw => \A i \in View(m, r, expanded) : i.href \notin Unreadable(m, r)

Look(c) ==
    /\ asked[c] # None
    /\ verdict[c] = "none"
    /\ ~looked[c]
    /\ looked' = [looked EXCEPT ![c] = TRUE]
    /\ \E expanded, flaw \in BOOLEAN :
         /\ MayMeet(calendar, asked[c], expanded, flaw)
         /\ seen' = [seen EXCEPT ![c] = View(calendar, asked[c], expanded)]
         /\ flawed' = [flawed EXCEPT ![c] = flaw]
    /\ UNCHANGED <<calendar, asked, verdict, shown>>

\* The call is over: what it saw is forgotten.
Close(c, what) ==
    /\ asked[c] # None
    /\ verdict[c] = "none"
    /\ verdict' = [verdict EXCEPT ![c] = what]
    /\ looked' = [looked EXCEPT ![c] = FALSE]
    /\ seen' = [seen EXCEPT ![c] = {}]
    /\ flawed' = [flawed EXCEPT ![c] = FALSE]
    /\ UNCHANGED <<calendar, asked>>

Answer(c) ==
    /\ looked[c] /\ ~flawed[c]
    /\ shown' = [shown EXCEPT ![c] = seen[c]]
    /\ Close(c, "ok")

Refuse(c) ==
    /\ looked[c] /\ flawed[c]
    /\ Close(c, "flawed")
    /\ UNCHANGED shown

\* The exchange fails, or takes too long, before or after the look.
Fail(c) ==
    /\ Close(c, "failed")
    /\ UNCHANGED shown

\* Another client of the account changes the calendar.
OtherClient ==
    /\ calendar' \in Moments
    /\ UNCHANGED <<asked, looked, seen, flawed, verdict, shown>>

Next ==
    \/ \E c \in Calls : Begin(c) \/ Look(c) \/ Answer(c) \/ Refuse(c) \/ Fail(c)
    \/ OtherClient

Spec == Init /\ [][Next]_vars
=============================================================================
