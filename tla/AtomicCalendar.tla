---------------------------- MODULE AtomicCalendar ----------------------------
(***************************************************************************)
(* What the calendar tools promise.  Every call acts on the stored object  *)
(* in one atomic step, taken at most once: get reads it, create adds it,   *)
(* update edits the object that is there at that instant, delete removes   *)
(* it.  A call answered "ok" has taken its step, a call answered "refused" *)
(* has not and never will, and a call answered "unknown" (a timeout, a 5xx *)
(* answer) may have taken it or may still take it later.                   *)
(***************************************************************************)
EXTENDS CalendarObjects

CONSTANTS Calls

VARIABLES
    objects,   \* the stored document of each href
    request,   \* the request of each call, None before it begins
    took,      \* whether the call has taken its step
    saw,       \* the document a get or an update found
    verdict,   \* what the caller was told
    shown      \* the document described by an "ok" answer

vars == <<objects, request, took, saw, verdict, shown>>

Init ==
    /\ objects \in [Hrefs -> Docs \cup {None}]
    /\ request = [c \in Calls |-> None]
    /\ took = [c \in Calls |-> FALSE]
    /\ saw = [c \in Calls |-> None]
    /\ verdict = [c \in Calls |-> "none"]
    /\ shown = [c \in Calls |-> None]

HrefOf(r) == ObjectHref(r.cal, r.uid)

\* Whether the call's step is possible on the document stored now.
Possible(r, doc) ==
    CASE r.op = "get"    -> doc # None /\ Readable(doc, r.kind)
      [] r.op = "create" -> doc = None
      [] r.op = "update" -> doc # None /\ Editable(doc, r)
      [] r.op = "delete" -> doc # None

\* The document its step leaves behind.
Result(r, doc) ==
    CASE r.op = "get"    -> doc
      [] r.op = "create" -> CreatedDoc(r, r.uid)
      [] r.op = "update" -> EditedDoc(doc, r)
      [] r.op = "delete" -> None

\* The document an "ok" answer describes, given the one the call found.
Report(r, doc) ==
    CASE r.op = "get"    -> Build(Parse(doc))
      [] r.op = "create" -> CreatedDoc(r, r.uid)
      [] r.op = "update" -> EditedDoc(doc, r)
      [] r.op = "delete" -> None

-----------------------------------------------------------------------------

Begin(c) ==
    /\ request[c] = None
    /\ request'[c] \in RequestRecords
    /\ request' = [request EXCEPT ![c] = request'[c]]
    /\ UNCHANGED <<objects, took, saw, verdict, shown>>

TakeEffect(c) ==
    /\ request[c] # None
    /\ ~took[c]
    /\ verdict[c] \in {"none", "unknown"}
    /\ LET r == request[c]
           h == HrefOf(r)
       IN /\ Possible(r, objects[h])
          /\ objects' = [objects EXCEPT ![h] = Result(r, objects[h])]
          /\ saw' = [saw EXCEPT ![c] = IF r.op \in {"get", "update"}
                                         THEN objects[h] ELSE None]
    /\ took' = [took EXCEPT ![c] = TRUE]
    /\ UNCHANGED <<request, verdict, shown>>

Accept(c) ==
    /\ request[c] # None
    /\ verdict[c] = "none"
    /\ took[c]
    /\ verdict' = [verdict EXCEPT ![c] = "ok"]
    /\ shown' = [shown EXCEPT ![c] = Report(request[c], saw[c])]
    /\ UNCHANGED <<objects, request, took, saw>>

Refuse(c) ==
    /\ request[c] # None
    /\ verdict[c] = "none"
    /\ ~took[c]
    /\ verdict' = [verdict EXCEPT ![c] = "refused"]
    /\ UNCHANGED <<objects, request, took, saw, shown>>

Doubt(c) ==
    /\ request[c] # None
    /\ verdict[c] = "none"
    /\ verdict' = [verdict EXCEPT ![c] = "unknown"]
    /\ UNCHANGED <<objects, request, took, saw, shown>>

\* Another client of the same account stores or removes an object.
OtherClient ==
    /\ \E h \in Hrefs :
         /\ objects'[h] \in Docs \cup {None}
         /\ objects' = [objects EXCEPT ![h] = objects'[h]]
    /\ UNCHANGED <<request, took, saw, verdict, shown>>

Next ==
    \/ \E c \in Calls :
         Begin(c) \/ TakeEffect(c) \/ Accept(c) \/ Refuse(c) \/ Doubt(c)
    \/ OtherClient

Spec == Init /\ [][Next]_vars
=============================================================================
