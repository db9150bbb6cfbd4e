---------------------- MODULE CalendarRefinementProofs ----------------------
(***************************************************************************)
(* CalendarTools implements AtomicCalendar when the server sends ETags:    *)
(* the call takes its atomic step when its GET (get) or its write is       *)
(* served, and is answered when the handler returns; every other step of   *)
(* the handlers is invisible.                                              *)
(***************************************************************************)
EXTENDS CalendarToolsProofs

\* The two specifications speak of the same data.
LEMMA SameData ==
    /\ Atomic!Hrefs = Hrefs /\ Atomic!Docs = Docs
    /\ Atomic!RequestRecords = RequestRecords
    /\ \A cal, uid : Atomic!ObjectHref(cal, uid) = ObjectHref(cal, uid)
    /\ \A doc, kind : Atomic!Readable(doc, kind) <=> Readable(doc, kind)
    /\ \A doc, r : Atomic!Editable(doc, r) <=> Editable(doc, r)
    /\ \A doc, r : Atomic!EditedDoc(doc, r) = EditedDoc(doc, r)
    /\ \A r, uid : Atomic!CreatedDoc(r, uid) = CreatedDoc(r, uid)
    /\ \A doc : Atomic!Build(Atomic!Parse(doc)) = Build(Parse(doc))
<1>1. /\ Atomic!Hrefs = Hrefs /\ Atomic!Docs = Docs
      /\ Atomic!RequestRecords = RequestRecords
  BY DEF Atomic!Hrefs, Hrefs, Atomic!Docs, Docs, Atomic!DocsOf, DocsOf,
         Atomic!FieldValues, FieldValues, Atomic!FieldsOf, FieldsOf,
         Atomic!EventFields, EventFields, Atomic!TodoFields, TodoFields,
         Atomic!RequestRecords, RequestRecords, Atomic!RequestsOf, RequestsOf,
         Atomic!Ops, Ops
<1>2. \A cal, uid : Atomic!ObjectHref(cal, uid) = ObjectHref(cal, uid)
  BY DEF Atomic!ObjectHref, ObjectHref
<1>3. \A doc, kind : Atomic!Readable(doc, kind) <=> Readable(doc, kind)
  BY DEF Atomic!Readable, Readable
<1>4. \A doc, r : Atomic!Editable(doc, r) <=> Editable(doc, r)
  BY DEF Atomic!Editable, Editable, Atomic!Readable, Readable,
         Atomic!Clearable, Clearable
<1>5. \A doc, r : Atomic!EditedDoc(doc, r) = EditedDoc(doc, r)
  BY DEF Atomic!EditedDoc, EditedDoc, Atomic!Build, Build, Atomic!EditObject, EditObject,
         Atomic!Parse, Parse, Atomic!ReadField, ReadField, Atomic!FieldsOf, FieldsOf,
         Atomic!EventFields, EventFields, Atomic!TodoFields, TodoFields,
         Atomic!ApplyPatch, ApplyPatch, Atomic!ClearFields, ClearFields
<1>6. \A r, uid : Atomic!CreatedDoc(r, uid) = CreatedDoc(r, uid)
  BY DEF Atomic!CreatedDoc, CreatedDoc, Atomic!Build, Build, Atomic!NewObject, NewObject
<1>7. \A doc : Atomic!Build(Atomic!Parse(doc)) = Build(Parse(doc))
  BY DEF Atomic!Build, Build, Atomic!Parse, Parse, Atomic!ReadField, ReadField,
         Atomic!FieldsOf, FieldsOf, Atomic!EventFields, EventFields,
         Atomic!TodoFields, TodoFields
<1> QED
  BY <1>1, <1>2, <1>3, <1>4, <1>5, <1>6, <1>7

\* The part of call c that the abstract state is computed from is untouched.
SameAbs(c) ==
    /\ TookStep(c)' = TookStep(c) /\ Found(c)' = Found(c)
    /\ Verdict(c)' = Verdict(c) /\ Reported(c)' = Reported(c)

LEMMA SameIsSameAbs ==
    ASSUME NEW c \in Calls, req'[c] = req[c], answer'[c] = answer[c],
           held'[c] = held[c], base'[c] = base[c], applied'[c] = applied[c]
    PROVE  SameAbs(c)
<1>1. TookStep(c)' = TookStep(c) /\ Verdict(c)' = Verdict(c)
      /\ Reported(c)' = Reported(c)
  BY DEF TookStep, Verdict, Reported
<1> QED
  BY <1>1 DEF SameAbs, Found

\* A step that moves nothing of the abstract state is a stutter.
LEMMA Stutter ==
    ASSUME UNCHANGED <<store, req>>, \A c \in Calls : SameAbs(c)
    PROVE  UNCHANGED Atomic!vars
BY DEF Atomic!vars, SameAbs

LEMMA VerdictNone ==
    ASSUME IInv, NEW c \in Calls
    PROVE  /\ phase[c] # "done" => Verdict(c) = "none" /\ answer[c] = "none"
           /\ Verdict(c) = "none" <=> answer[c] = "none"
           /\ WriteInFlight(c) => Verdict(c) \in {"none", "unknown"}
           /\ answer[c] # "ok" => Reported(c) = None
<1>1. PhaseInv(c) /\ answer[c] \in Errors \cup {"none", "ok"}
  BY DEF IInv, CallInv, TypeOK
<1>2. WriteInFlight(c) => answer[c] \in {"none", "timeout"}
  BY <1>1 DEF PhaseInv, WriteInFlight, Nothing
<1>3. Verdict(c) = IF answer[c] \in {"none", "ok"} THEN answer[c]
                   ELSE IF answer[c] \in Refusals THEN "refused" ELSE "unknown"
  BY DEF Verdict, Refusals, Errors, ErrorStatus
<1>4. {"none", "timeout"} \cap Refusals = {}
  BY DEF Refusals, Errors, ErrorStatus
<1> QED
  BY <1>1, <1>2, <1>3, <1>4 DEF PhaseInv, Reported

LEMMA InitAbs == Init => Atomic!Init
<1> SUFFICES ASSUME Init PROVE Atomic!Init
  OBVIOUS
<1>1. store \in [Hrefs -> Docs \cup {None}]
  BY InitIInv DEF IInv, TypeOK
<1>2. ASSUME NEW c \in Calls
      PROVE  /\ TookStep(c) = FALSE /\ Found(c) = None
             /\ Verdict(c) = "none" /\ Reported(c) = None
  <2>1. req[c] = None /\ answer[c] = "none"
    BY DEF Init
  <2>2. TookStep(c) = FALSE
    BY <2>1 DEF TookStep
  <2>3. Found(c) = None
    BY <2>2 DEF Found
  <2>4. Verdict(c) = "none" /\ Reported(c) = None
    BY <2>1 DEF Verdict, Reported, Refusals, Errors, ErrorStatus
  <2> QED
    BY <2>2, <2>3, <2>4
<1>3. /\ [c \in Calls |-> TookStep(c)] = [c \in Calls |-> FALSE]
      /\ [c \in Calls |-> Found(c)] = [c \in Calls |-> None]
      /\ [c \in Calls |-> Verdict(c)] = [c \in Calls |-> "none"]
      /\ [c \in Calls |-> Reported(c)] = [c \in Calls |-> None]
  BY <1>2
<1>4. req = [c \in Calls |-> None]
  BY DEF Init
<1> QED
  BY <1>1, <1>3, <1>4, SameData DEF Atomic!Init

-----------------------------------------------------------------------------
(***************************************************************************)
(* Starting a call.                                                        *)
(***************************************************************************)

LEMMA StartAbs ==
    ASSUME IInv, IInv', NEW c \in Calls, NEW r \in RequestRecords, NEW p, NEW obj, NEW m,
           p \in {"get", "write"}, Start(c, r, p, obj, m)
    PROVE  Atomic!Begin(c)
<1>1. /\ req[c] = None /\ req' = [req EXCEPT ![c] = r] /\ req'[c] = r
      /\ UNCHANGED <<server, answer, base, applied>>
      /\ answer'[c] = "none" /\ answer[c] = "none" /\ applied'[c] = 0
      /\ base'[c] = None /\ applied[c] = 0
      /\ \A d \in Calls \ {c} : req'[d] = req[d] /\ held'[d] = held[d]
  <2>1. /\ req[c] = None /\ req'[c] = r /\ UNCHANGED <<server, answer, base, applied>>
        /\ answer'[c] = "none" /\ applied'[c] = 0 /\ base'[c] = None
        /\ \A d \in Calls \ {c} : req'[d] = req[d]
    BY StartFrame
  <2>2. req' = [req EXCEPT ![c] = r] /\ held' = [held EXCEPT ![c] = obj]
    BY DEF Start
  <2>3. \A d \in Calls \ {c} : held'[d] = held[d]
    BY <2>2 DEF IInv, TypeOK
  <2> QED
    BY <2>1, <2>2, <2>3
<1>2. SameAbs(c)
  <2>1. TookStep(c) = FALSE /\ TookStep(c)' = FALSE
    BY <1>1 DEF TookStep
  <2>2. Found(c) = None /\ Found(c)' = None
    BY <2>1 DEF Found
  <2>3. Verdict(c)' = Verdict(c) /\ Reported(c)' = Reported(c)
    BY <1>1 DEF Verdict, Reported
  <2> QED
    BY <2>1, <2>2, <2>3 DEF SameAbs
<1>3. ASSUME NEW d \in Calls, d # c PROVE SameAbs(d)
  BY <1>1, <1>3, SameIsSameAbs
<1>4. /\ UNCHANGED store
      /\ UNCHANGED [d \in Calls |-> TookStep(d)]
      /\ UNCHANGED [d \in Calls |-> Found(d)]
      /\ UNCHANGED [d \in Calls |-> Verdict(d)]
      /\ UNCHANGED [d \in Calls |-> Reported(d)]
  BY <1>1, <1>2, <1>3 DEF SameAbs, server
<1>5. req'[c] \in Atomic!RequestRecords /\ req' = [req EXCEPT ![c] = req'[c]]
  <2>1. Atomic!RequestRecords = RequestRecords
    BY SameData
  <2>2. req'[c] \in Atomic!RequestRecords
    BY <1>1, <2>1
  <2>3. req' = [req EXCEPT ![c] = req'[c]]
    BY <1>1
  <2> QED
    BY <2>2, <2>3
<1>6. UNCHANGED <<store, [d \in Calls |-> TookStep(d)], [d \in Calls |-> Found(d)],
                  [d \in Calls |-> Verdict(d)], [d \in Calls |-> Reported(d)]>>
  BY <1>4
<1> QED
  BY <1>1, <1>5, <1>6, Zenon DEF Atomic!Begin

LEMMA CallAbs ==
    ASSUME IInv, IInv', NEW c \in Calls, CallGet(c) \/ CallCreate(c) \/ CallDelete(c)
    PROVE  Atomic!Begin(c)
<1>1. CASE CallGet(c)
  <2>1. PICK r \in Requests : Start(c, r, "get", None, GetRequest(ObjectHref(r.cal, r.uid)))
    BY <1>1 DEF CallGet
  <2>2. r \in RequestRecords
    BY RequestsAssumption DEF WellFormed
  <2> QED
    BY <2>1, <2>2, StartAbs
<1>2. CASE CallCreate(c)
  <2>1. PICK r \in Requests, u \in NewUids :
          Start(c, [r EXCEPT !.uid = u], "write", NewObject(r, u),
                PutRequest(r.cal, NewObject(r, u)))
    BY <1>2 DEF CallCreate
  <2> DEFINE q == [r EXCEPT !.uid = u]
  <2>2. q \in RequestRecords
    <3>1. r \in RequestRecords /\ u \in FreshUids /\ FreshUids \subseteq Uids
      BY RequestsAssumption DEF WellFormed, NewUids
    <3> QED
      BY <3>1 DEF RequestRecords, RequestsOf
  <2>3. PICK m, obj : Start(c, q, "write", obj, m)
    BY <2>1
  <2> HIDE DEF q
  <2> QED
    BY <2>2, <2>3, StartAbs
<1>3. CASE CallDelete(c)
  <2>1. PICK r \in Requests :
          Start(c, r, "write", None, DeleteRequest(ObjectHref(r.cal, r.uid)))
    BY <1>3 DEF CallDelete
  <2>2. r \in RequestRecords
    BY RequestsAssumption DEF WellFormed
  <2> QED
    BY <2>1, <2>2, StartAbs
<1> QED
  BY <1>1, <1>2, <1>3

-----------------------------------------------------------------------------
(***************************************************************************)
(* The answer of a call.                                                   *)
(***************************************************************************)

\* What an answer leaves of the abstract state when the handler returns.
LEMMA AnswerSame ==
    ASSUME IInv, NEW c \in Calls, NEW a, answer' = [answer EXCEPT ![c] = a],
           UNCHANGED <<store, req, base, applied>>,
           \A d \in Calls \ {c} : held'[d] = held[d]
    PROVE  /\ answer'[c] = a
           /\ UNCHANGED <<store, req>>
           /\ TookStep(c)' = TookStep(c) /\ Found(c)' = Found(c)
           /\ \A d \in Calls \ {c} : SameAbs(d)
<1>1. answer'[c] = a /\ \A d \in Calls \ {c} : answer'[d] = answer[d]
  BY DEF IInv, TypeOK
<1>2. TookStep(c)' = TookStep(c)
  BY DEF TookStep
<1>3. Found(c)' = Found(c)
  BY <1>2 DEF Found
<1>4. ASSUME NEW d \in Calls \ {c} PROVE SameAbs(d)
  BY <1>1, SameIsSameAbs
<1> QED
  BY <1>1, <1>2, <1>3, <1>4

\* From the calls one by one to the functions of the abstract state.
LEMMA LiftAnswer ==
    ASSUME NEW c \in Calls, UNCHANGED <<store, req>>, NEW v, NEW w,
           TookStep(c)' = TookStep(c), Found(c)' = Found(c),
           Verdict(c)' = v, Reported(c)' = w,
           \A d \in Calls \ {c} : SameAbs(d)
    PROVE  /\ UNCHANGED <<store, req, [d \in Calls |-> TookStep(d)],
                          [d \in Calls |-> Found(d)]>>
           /\ [d \in Calls |-> Verdict(d)]' =
                [[d \in Calls |-> Verdict(d)] EXCEPT ![c] = v]
           /\ [d \in Calls |-> Reported(d)]' =
                [[d \in Calls |-> Reported(d)] EXCEPT ![c] = w]
<1>1. \A d \in Calls : TookStep(d)' = TookStep(d) /\ Found(d)' = Found(d)
  BY DEF SameAbs
<1>2. \A d \in Calls : Verdict(d)' = IF d = c THEN v ELSE Verdict(d)
  BY DEF SameAbs
<1>3. \A d \in Calls : Reported(d)' = IF d = c THEN w ELSE Reported(d)
  BY DEF SameAbs
<1> QED
  BY <1>1, <1>2, <1>3

\* An error is a refusal of a call that took no step, or leaves it open.
LEMMA ErrorAbs ==
    ASSUME IInv, IInv', NEW c \in Calls, NEW a \in Errors,
           phase[c] \in {"get", "write"}, answer' = [answer EXCEPT ![c] = a],
           UNCHANGED <<store, req, base, applied, held>>
    PROVE  Atomic!Refuse(c) \/ Atomic!Doubt(c)
<1>1. /\ answer'[c] = a /\ UNCHANGED <<store, req>>
      /\ TookStep(c)' = TookStep(c) /\ Found(c)' = Found(c)
      /\ \A d \in Calls \ {c} : SameAbs(d)
  BY AnswerSame
<1>2. a \notin {"none", "ok"}
  BY DEF Errors, ErrorStatus
<1>3. req[c] # None /\ Verdict(c) = "none" /\ Reported(c) = None
  BY VerdictNone DEF IInv, CallInv, PhaseInv
<1>4. Reported(c)' = None
  BY <1>1, <1>2 DEF Reported
<1>5. CASE a \in Refusals
  <2>1. Verdict(c)' = "refused"
    BY <1>1, <1>2, <1>5 DEF Verdict
  <2>2. ~TookStep(c)
    <3>1. OutcomeInv(c)' /\ ReadInv(c)'
      BY DEF IInv, CallInv
    <3>2. applied[c] = 0 /\ (req[c].op = "get" => ~TookStep(c)')
      BY <1>1, <1>5, <3>1 DEF OutcomeInv, ReadInv
    <3> QED
      BY <1>1, <3>2 DEF TookStep
  <2>3. /\ UNCHANGED <<store, req, [d \in Calls |-> TookStep(d)],
                       [d \in Calls |-> Found(d)]>>
        /\ [d \in Calls |-> Verdict(d)]' =
             [[d \in Calls |-> Verdict(d)] EXCEPT ![c] = "refused"]
        /\ [d \in Calls |-> Reported(d)]' =
             [[d \in Calls |-> Reported(d)] EXCEPT ![c] = None]
    <3> DEFINE v == "refused"
    <3>1. Verdict(c)' = v
      BY <2>1
    <3> HIDE DEF v
    <3>2. /\ UNCHANGED <<store, req, [d \in Calls |-> TookStep(d)],
                         [d \in Calls |-> Found(d)]>>
          /\ [d \in Calls |-> Verdict(d)]' =
               [[d \in Calls |-> Verdict(d)] EXCEPT ![c] = v]
          /\ [d \in Calls |-> Reported(d)]' =
               [[d \in Calls |-> Reported(d)] EXCEPT ![c] = None]
      BY <1>1, <1>4, <3>1, LiftAnswer
    <3> QED
      BY <3>2 DEF v
  <2>4. UNCHANGED [d \in Calls |-> Reported(d)]
    BY <1>3, <2>3
  <2>5. [d \in Calls |-> TookStep(d)][c] = FALSE
    BY <2>2
  <2> QED
    BY <1>3, <2>3, <2>4, <2>5 DEF Atomic!Refuse
<1>6. CASE a \notin Refusals
  <2>1. Verdict(c)' = "unknown"
    BY <1>1, <1>2, <1>6 DEF Verdict
  <2>2. /\ UNCHANGED <<store, req, [d \in Calls |-> TookStep(d)],
                       [d \in Calls |-> Found(d)]>>
        /\ [d \in Calls |-> Verdict(d)]' =
             [[d \in Calls |-> Verdict(d)] EXCEPT ![c] = "unknown"]
        /\ [d \in Calls |-> Reported(d)]' =
             [[d \in Calls |-> Reported(d)] EXCEPT ![c] = None]
    <3> DEFINE v == "unknown"
    <3>1. Verdict(c)' = v
      BY <2>1
    <3> HIDE DEF v
    <3>2. /\ UNCHANGED <<store, req, [d \in Calls |-> TookStep(d)],
                         [d \in Calls |-> Found(d)]>>
          /\ [d \in Calls |-> Verdict(d)]' =
               [[d \in Calls |-> Verdict(d)] EXCEPT ![c] = v]
          /\ [d \in Calls |-> Reported(d)]' =
               [[d \in Calls |-> Reported(d)] EXCEPT ![c] = None]
      BY <1>1, <1>4, <3>1, LiftAnswer
    <3> QED
      BY <3>2 DEF v
  <2>3. UNCHANGED [d \in Calls |-> Reported(d)]
    BY <1>3, <2>2
  <2> QED
    BY <1>3, <2>2, <2>3 DEF Atomic!Doubt
<1> QED
  BY <1>5, <1>6

\* A success is answered after the call's step, and describes its outcome.
LEMMA OkAbs ==
    ASSUME IInv, IInv', NEW c \in Calls, phase[c] \in {"get", "write"},
           answer' = [answer EXCEPT ![c] = "ok"],
           UNCHANGED <<store, req, base, applied>>,
           \A d \in Calls \ {c} : held'[d] = held[d]
    PROVE  Atomic!Accept(c)
<1> DEFINE ok == "ok"
           R == Atomic!Report(req[c], Found(c))
<1>1. /\ answer'[c] = ok /\ UNCHANGED <<store, req>>
      /\ TookStep(c)' = TookStep(c) /\ Found(c)' = Found(c)
      /\ \A d \in Calls \ {c} : SameAbs(d)
  <2>1. answer' = [answer EXCEPT ![c] = ok]
    OBVIOUS
  <2> HIDE DEF ok
  <2> QED
    BY <2>1, AnswerSame
<1>2. req[c] # None /\ Verdict(c) = "none"
  BY VerdictNone DEF IInv, CallInv, PhaseInv
<1>3. req[c] \in RequestRecords /\ req[c].op \in Ops
  BY <1>2 DEF IInv, TypeOK, RequestRecords, RequestsOf
<1>4. Verdict(c)' = ok
  BY <1>1 DEF Verdict, Refusals, Errors, ErrorStatus
<1>5. HeldInv(c)' /\ OutcomeInv(c)'
  BY DEF IInv, CallInv
<1>6. ASSUME req[c].op = "get" PROVE TookStep(c) /\ Reported(c)' = R
  <2>1. /\ base[c] # None /\ Readable(base[c], req[c].kind)
        /\ held'[c] # None /\ Build(held'[c]) = Build(Parse(base[c]))
    BY <1>1, <1>5, <1>6 DEF HeldInv
  <2>2. TookStep(c) /\ Found(c) = base[c]
    BY <1>2, <1>6, <2>1 DEF TookStep, Found
  <2>3. Reported(c)' = Build(Parse(base[c]))
    BY <1>1, <2>1 DEF Reported
  <2>4. R = Build(Parse(base[c]))
    BY <1>6, <2>2, SameData DEF Atomic!Report
  <2> QED
    BY <2>2, <2>3, <2>4
<1>7. ASSUME req[c].op = "create" PROVE TookStep(c) /\ Reported(c)' = R
  <2>1. applied[c] = 1 /\ held'[c] = NewObject(req[c], req[c].uid)
    BY <1>1, <1>2, <1>5, <1>7 DEF HeldInv, OutcomeInv, Writes
  <2>2. TookStep(c) /\ Found(c) = None
    BY <1>2, <1>7, <2>1 DEF TookStep, Found
  <2>3. held'[c] # None
    <3>1. NewObject(req[c], req[c].uid) \in Objects
      <4>1. /\ req[c] \in RequestsOf(req[c].kind) /\ req[c].kind \in Kinds
            /\ req[c].uid # None
        BY StartedType
      <4>2. req[c].uid \in Uids
        BY <4>1 DEF RequestsOf
      <4> QED
        BY <4>1, <4>2, NewObjectType, KindsAreObjects
    <3> QED
      BY <2>1, <3>1, NoneAssumption
  <2>4. Reported(c)' = CreatedDoc(req[c], req[c].uid)
    BY <1>1, <2>1, <2>3 DEF Reported, CreatedDoc
  <2>5. R = CreatedDoc(req[c], req[c].uid)
    BY <1>7, SameData DEF Atomic!Report
  <2> QED
    BY <2>2, <2>4, <2>5
<1>8. ASSUME req[c].op = "update" PROVE TookStep(c) /\ Reported(c)' = R
  <2>1. /\ applied[c] = 1 /\ base[c] # None /\ held'[c] # None
        /\ Build(held'[c]) = EditedDoc(base[c], req[c])
    BY <1>1, <1>2, <1>5, <1>8 DEF HeldInv, OutcomeInv, Writes
  <2>2. TookStep(c) /\ Found(c) = base[c]
    BY <1>2, <1>8, <2>1 DEF TookStep, Found
  <2>3. Reported(c)' = EditedDoc(base[c], req[c])
    BY <1>1, <2>1 DEF Reported
  <2>4. R = EditedDoc(base[c], req[c])
    BY <1>8, <2>2, SameData DEF Atomic!Report
  <2> QED
    BY <2>2, <2>3, <2>4
<1>9. ASSUME req[c].op = "delete" PROVE TookStep(c) /\ Reported(c)' = R
  <2>1. applied[c] = 1 /\ held'[c] = None
    BY <1>1, <1>2, <1>5, <1>9 DEF HeldInv, OutcomeInv, Writes
  <2>2. TookStep(c) /\ Found(c) = None
    BY <1>2, <1>9, <2>1 DEF TookStep, Found
  <2>3. Reported(c)' = None /\ R = None
    BY <1>9, <2>1 DEF Reported, Atomic!Report
  <2> QED
    BY <2>2, <2>3
<1>10. TookStep(c) /\ Reported(c)' = R
  BY <1>3, <1>6, <1>7, <1>8, <1>9 DEF Ops
<1>11. PICK w : w = R
  OBVIOUS
<1> HIDE DEF R, ok
<1>12. /\ UNCHANGED <<store, req, [d \in Calls |-> TookStep(d)],
                      [d \in Calls |-> Found(d)]>>
       /\ [d \in Calls |-> Verdict(d)]' =
            [[d \in Calls |-> Verdict(d)] EXCEPT ![c] = ok]
       /\ [d \in Calls |-> Reported(d)]' =
            [[d \in Calls |-> Reported(d)] EXCEPT ![c] = w]
  BY <1>1, <1>4, <1>10, <1>11, LiftAnswer
<1>13. [d \in Calls |-> TookStep(d)][c] = TRUE
  BY <1>10
<1>14. w = Atomic!Report(req[c], [d \in Calls |-> Found(d)][c])
  BY <1>11 DEF R
<1> QED
  BY <1>2, <1>12, <1>13, <1>14 DEF Atomic!Accept, ok

-----------------------------------------------------------------------------
(***************************************************************************)
(* The handlers' steps.                                                    *)
(***************************************************************************)

LEMMA ClientAbs ==
    ASSUME IInv, IInv', NEW c \in Calls, ClientStep(c)
    PROVE  \/ Atomic!Refuse(c) \/ Atomic!Doubt(c) \/ Atomic!Accept(c)
           \/ UNCHANGED Atomic!vars
<1>1. CASE HttpFails(c)
  <2>1. /\ phase[c] \in {"get", "write"} /\ wire[c].method = "response"
        /\ wire[c].status # "ok"
        /\ answer' = [answer EXCEPT ![c] = wire[c].status]
        /\ UNCHANGED <<store, req, base, applied, held>>
    BY <1>1 DEF HttpFails, Received, Finish, server
  <2>2. wire[c].status \in Errors
    BY <2>1, ResponseType DEF Errors, IInv
  <2>3. PICK a : a = wire[c].status
    OBVIOUS
  <2> QED
    BY <2>1, <2>2, <2>3, ErrorAbs
<1>2. CASE GetUnreadable(c)
  <2> DEFINE a == "ical"
  <2>1. /\ phase[c] \in {"get", "write"} /\ answer' = [answer EXCEPT ![c] = a]
        /\ UNCHANGED <<store, req, base, applied, held>> /\ a \in Errors
    BY <1>2 DEF GetUnreadable, Received, Finish, server, Errors
  <2> HIDE DEF a
  <2> QED
    BY <2>1, ErrorAbs
<1>3. CASE UpdateRejected(c)
  <2> DEFINE a == "invalid_params"
  <2>1. /\ phase[c] \in {"get", "write"} /\ answer' = [answer EXCEPT ![c] = a]
        /\ UNCHANGED <<store, req, base, applied, held>> /\ a \in Errors
    BY <1>3 DEF UpdateRejected, GetReadable, Received, Finish, server, Errors
  <2> HIDE DEF a
  <2> QED
    BY <2>1, ErrorAbs
<1>4. CASE GiveUp(c)
  <2> DEFINE a == "timeout"
  <2>1. /\ phase[c] \in {"get", "write"} /\ answer' = [answer EXCEPT ![c] = a]
        /\ UNCHANGED <<store, req, base, applied, held>> /\ a \in Errors
    BY <1>4 DEF GiveUp, Abandon, server, Errors
  <2> HIDE DEF a
  <2> QED
    BY <2>1, ErrorAbs
<1>5. CASE GetAnswers(c)
  <2>1. /\ phase[c] \in {"get", "write"} /\ answer' = [answer EXCEPT ![c] = "ok"]
        /\ UNCHANGED <<store, req, base, applied>>
        /\ held' = [held EXCEPT ![c] = Fetched(c)]
    BY <1>5 DEF GetAnswers, GetReadable, Received, Finish, server
  <2>2. \A d \in Calls \ {c} : held'[d] = held[d]
    BY <2>1 DEF IInv, TypeOK
  <2> QED
    BY <2>1, <2>2, OkAbs
<1>6. CASE WriteAnswers(c)
  <2>1. /\ phase[c] \in {"get", "write"} /\ answer' = [answer EXCEPT ![c] = "ok"]
        /\ UNCHANGED <<store, req, base, applied, held>>
    BY <1>6 DEF WriteAnswers, Received, Finish, server
  <2> QED
    BY <2>1, OkAbs
<1>7. CASE UpdatePuts(c)
  <2>1. /\ UNCHANGED <<store, req, base, applied, answer>>
        /\ phase[c] = "get"
        /\ \A d \in Calls \ {c} : held'[d] = held[d]
    BY <1>7 DEF UpdatePuts, GetReadable, Received, server, IInv, TypeOK
  <2>2. \A d \in Calls \ {c} : SameAbs(d)
    BY <2>1, SameIsSameAbs
  <2>3. answer[c] = "none"
    BY <2>1 DEF IInv, CallInv, PhaseInv
  <2>4. TookStep(c)' = TookStep(c) /\ Verdict(c)' = Verdict(c)
    BY <2>1 DEF TookStep, Verdict
  <2>5. Found(c)' = Found(c)
    BY <2>1, <2>4 DEF Found
  <2>6. Reported(c)' = None /\ Reported(c) = None
    BY <2>1, <2>3 DEF Reported
  <2>7. SameAbs(c)
    BY <2>4, <2>5, <2>6 DEF SameAbs
  <2> QED
    BY <2>1, <2>2, <2>7, Stutter
<1> QED
  BY <1>1, <1>2, <1>3, <1>4, <1>5, <1>6, <1>7 DEF ClientStep

-----------------------------------------------------------------------------
(***************************************************************************)
(* The server's steps and the other clients'.                              *)
(***************************************************************************)

\* The call takes its step on the document stored now.
LEMMA TakeAbs ==
    ASSUME IInv, NEW c \in Calls, req[c] # None,
           UNCHANGED <<req, answer>>, Reported(c)' = Reported(c),
           \A d \in Calls \ {c} : SameAbs(d),
           ~TookStep(c), TookStep(c)', Verdict(c) \in {"none", "unknown"},
           Atomic!Possible(req[c], store[HrefOf(c)]),
           store' = [store EXCEPT ![HrefOf(c)] =
                       Atomic!Result(req[c], store[HrefOf(c)])],
           Found(c)' = IF req[c].op \in {"get", "update"} THEN store[HrefOf(c)] ELSE None
    PROVE  Atomic!TakeEffect(c)
<1>1. Atomic!HrefOf(req[c]) = HrefOf(c)
  BY SameData DEF Atomic!HrefOf, HrefOf
<1>2. Verdict(c)' = Verdict(c)
  BY DEF Verdict
<1>3. \A d \in Calls : Verdict(d)' = Verdict(d) /\ Reported(d)' = Reported(d)
  BY <1>2 DEF SameAbs
<1>4. \A d \in Calls : TookStep(d)' = IF d = c THEN TRUE ELSE TookStep(d)
  BY DEF SameAbs
<1>5. \A d \in Calls : Found(d)' = IF d = c THEN Found(c)' ELSE Found(d)
  BY DEF SameAbs
<1>6. [d \in Calls |-> TookStep(d)]' = [[d \in Calls |-> TookStep(d)] EXCEPT ![c] = TRUE]
  <2>1. \A d \in Calls : TookStep(d) \in BOOLEAN
    BY DEF TookStep
  <2> QED
    BY <1>4, <2>1
<1>7. [d \in Calls |-> Found(d)]' = [[d \in Calls |-> Found(d)] EXCEPT ![c] = Found(c)']
  BY <1>5
<1>8. /\ UNCHANGED <<req, [d \in Calls |-> Verdict(d)], [d \in Calls |-> Reported(d)]>>
      /\ [d \in Calls |-> TookStep(d)][c] = FALSE
      /\ [d \in Calls |-> Verdict(d)][c] \in {"none", "unknown"}
  <2>1. [d \in Calls |-> TookStep(d)][c] = FALSE
    <3>1. TookStep(c) \in BOOLEAN
      BY DEF TookStep
    <3> QED
      BY <3>1
  <2> QED
    BY <1>3, <2>1
<1> QED
  BY <1>1, <1>6, <1>7, <1>8 DEF Atomic!TakeEffect

LEMMA ServeGetAbs ==
    ASSUME IInv, NEW c \in Calls, ServeGet(c)
    PROVE  Atomic!TakeEffect(c) \/ UNCHANGED Atomic!vars
<1>1. /\ phase[c] = "get" /\ CallInv(c) /\ wire[c].href = HrefOf(c)
      /\ req[c] # None /\ HrefOf(c) \in Hrefs
      /\ UNCHANGED <<store, req, answer, held, applied>>
  BY WireStarted DEF ServeGet, server
<1>2. /\ answer[c] = "none" /\ base[c] = None /\ applied[c] = 0
      /\ req[c].op \in {"get", "update"}
  BY <1>1 DEF CallInv, PhaseInv, ReadInv, OutcomeInv, ServeGet
<1>3. Verdict(c) = "none" /\ ~TookStep(c) /\ Found(c) = None
  BY <1>1, <1>2, VerdictNone DEF TookStep, Found
<1>4. Reported(c)' = Reported(c) /\ Verdict(c)' = Verdict(c)
  BY <1>1 DEF Reported, Verdict
<1>5. CASE store[HrefOf(c)] = None
  <2>1. UNCHANGED base
    BY <1>1, <1>5 DEF ServeGet
  <2> QED
    BY <1>1, <2>1, SameIsSameAbs, Stutter
<1>6. CASE store[HrefOf(c)] # None
  <2>1. base' = [base EXCEPT ![c] = store[HrefOf(c)]]
    BY <1>1, <1>6 DEF ServeGet
  <2>2. base'[c] = store[HrefOf(c)] /\ \A d \in Calls \ {c} : base'[d] = base[d]
    BY <2>1 DEF IInv, TypeOK
  <2>3. \A d \in Calls \ {c} : SameAbs(d)
    BY <1>1, <2>2, SameIsSameAbs
  <2>4. CASE req[c].op = "get" /\ Readable(store[HrefOf(c)], req[c].kind)
    <3>1. TookStep(c)'
      BY <1>1, <1>6, <2>2, <2>4 DEF TookStep
    <3>2. Found(c)' = IF req[c].op \in {"get", "update"} THEN store[HrefOf(c)] ELSE None
      BY <1>1, <2>2, <2>4, <3>1 DEF Found
    <3>3. Atomic!Possible(req[c], store[HrefOf(c)])
      BY <1>6, <2>4, SameData DEF Atomic!Possible
    <3>4. Atomic!Result(req[c], store[HrefOf(c)]) = store[HrefOf(c)]
      BY <2>4 DEF Atomic!Result
    <3>5. store' = [store EXCEPT ![HrefOf(c)] =
                      Atomic!Result(req[c], store[HrefOf(c)])]
      BY <1>1, <3>4 DEF IInv, TypeOK
    <3> QED
      BY <1>1, <1>3, <1>4, <2>3, <3>1, <3>2, <3>3, <3>5, TakeAbs
  <2>5. CASE ~(req[c].op = "get" /\ Readable(store[HrefOf(c)], req[c].kind))
    <3>1. ~TookStep(c)'
      BY <1>1, <1>2, <2>2, <2>5 DEF TookStep
    <3>2. Found(c)' = None
      BY <3>1 DEF Found
    <3>3. TookStep(c)' = TookStep(c)
      <4>1. TookStep(c) \in BOOLEAN /\ TookStep(c)' \in BOOLEAN
        BY DEF TookStep
      <4> QED
        BY <1>3, <3>1, <4>1
    <3>4. SameAbs(c)
      BY <1>3, <1>4, <3>2, <3>3 DEF SameAbs
    <3> QED
      BY <1>1, <2>3, <3>4, Stutter
  <2> QED
    BY <2>4, <2>5
<1> QED
  BY <1>5, <1>6

\* A write in flight belongs to a call that has taken no step yet.
LEMMA WriteOpen ==
    ASSUME IInv, NEW c \in Calls, WriteInFlight(c)
    PROVE  /\ req[c] # None /\ HrefOf(c) \in Hrefs /\ wire[c].href = HrefOf(c)
           /\ applied[c] = 0 /\ req[c].op # "get" /\ ~TookStep(c)
           /\ Verdict(c) \in {"none", "unknown"}
<1>1. /\ req[c] # None /\ HrefOf(c) \in Hrefs /\ wire[c].href = HrefOf(c)
      /\ applied[c] = 0 /\ req[c].op # "get"
  BY WireStarted DEF WriteInFlight
<1>2. ~TookStep(c)
  BY <1>1 DEF TookStep
<1> QED
  BY <1>1, <1>2, VerdictNone

\* A write that changes the store is the step of its call.
LEMMA WriteAbs ==
    ASSUME IInv, NEW c \in Calls, WriteInFlight(c),
           applied' = [applied EXCEPT ![c] = applied[c] + 1],
           UNCHANGED <<req, answer, held, base>>,
           Atomic!Possible(req[c], store[HrefOf(c)]),
           store' = [store EXCEPT ![HrefOf(c)] =
                       Atomic!Result(req[c], store[HrefOf(c)])],
           req[c].op = "update" => store[HrefOf(c)] = base[c]
    PROVE  Atomic!TakeEffect(c)
<1>1. /\ req[c] # None /\ applied[c] = 0 /\ req[c].op # "get" /\ ~TookStep(c)
      /\ Verdict(c) \in {"none", "unknown"}
  BY WriteOpen
<1>2. applied'[c] = 1 /\ \A d \in Calls \ {c} : applied'[d] = applied[d]
  BY <1>1 DEF IInv, TypeOK
<1>3. \A d \in Calls \ {c} : SameAbs(d)
  BY <1>2, SameIsSameAbs
<1>4. TookStep(c)'
  BY <1>1, <1>2 DEF TookStep
<1>5. Found(c)' = IF req[c].op \in {"get", "update"} THEN store[HrefOf(c)] ELSE None
  BY <1>1, <1>4 DEF Found
<1>6. Reported(c)' = Reported(c)
  BY DEF Reported
<1> QED
  BY <1>1, <1>3, <1>4, <1>5, <1>6, TakeAbs

LEMMA ServePutAbs ==
    ASSUME SendsEtag, IInv, NEW c \in Calls, ServePut(c)
    PROVE  Atomic!TakeEffect(c) \/ UNCHANGED Atomic!vars
<1>1. CASE Matches(wire[c])
  <2>1. /\ store' = [store EXCEPT ![HrefOf(c)] = Build(held[c])]
        /\ UNCHANGED <<req, base, answer, held>>
        /\ applied' = [applied EXCEPT ![c] = applied[c] + 1]
        /\ req[c].op \in {"create", "update"}
        /\ req[c].op = "update" =>
             /\ base[c] # None /\ Editable(base[c], req[c])
             /\ Build(held[c]) = EditedDoc(base[c], req[c])
             /\ store[HrefOf(c)] = base[c]
        /\ req[c].op = "create" =>
             held[c] = NewObject(req[c], req[c].uid) /\ store[HrefOf(c)] = None
    BY <1>1, PutStep
  <2>2. WriteInFlight(c)
    BY DEF ServePut, WriteInFlight
  <2>3. Atomic!Possible(req[c], store[HrefOf(c)])
    BY <2>1, SameData DEF Atomic!Possible
  <2>4. Atomic!Result(req[c], store[HrefOf(c)]) = Build(held[c])
    <3>1. CASE req[c].op = "update"
      BY <2>1, <3>1, SameData DEF Atomic!Result
    <3>2. CASE req[c].op = "create"
      BY <2>1, <3>2, SameData DEF Atomic!Result, CreatedDoc
    <3> QED
      BY <2>1, <3>1, <3>2
  <2>5. req[c].op = "update" => store[HrefOf(c)] = base[c]
    BY <2>1
  <2>6. store' = [store EXCEPT ![HrefOf(c)] =
                    Atomic!Result(req[c], store[HrefOf(c)])]
    BY <2>1, <2>4
  <2> QED
    BY <2>1, <2>2, <2>3, <2>5, <2>6, WriteAbs
<1>2. CASE ~Matches(wire[c])
  BY <1>2, SameIsSameAbs, Stutter DEF ServePut, server
<1> QED
  BY <1>1, <1>2

LEMMA ServeDeleteAbs ==
    ASSUME IInv, NEW c \in Calls, ServeDelete(c)
    PROVE  Atomic!TakeEffect(c) \/ UNCHANGED Atomic!vars
<1>1. WriteInFlight(c)
  BY DEF ServeDelete, WriteInFlight
<1>2. wire[c].href = HrefOf(c) /\ UNCHANGED <<req, answer, held, base>>
  BY <1>1, WriteOpen DEF ServeDelete
<1>3. CASE store[HrefOf(c)] = None
  <2>1. UNCHANGED <<store, applied>>
    BY <1>2, <1>3 DEF ServeDelete
  <2> QED
    BY <1>2, <2>1, SameIsSameAbs, Stutter
<1>4. CASE store[HrefOf(c)] # None
  <2>1. req[c].op = "delete"
    BY <1>1 DEF IInv, CallInv, WriteInv, ServeDelete
  <2>2. /\ store' = [store EXCEPT ![HrefOf(c)] = None]
        /\ applied' = [applied EXCEPT ![c] = applied[c] + 1]
    BY <1>2, <1>4 DEF ServeDelete
  <2>3. Atomic!Possible(req[c], store[HrefOf(c)])
    BY <1>4, <2>1 DEF Atomic!Possible
  <2>4. Atomic!Result(req[c], store[HrefOf(c)]) = None
    BY <2>1 DEF Atomic!Result
  <2>5. req[c].op = "update" => store[HrefOf(c)] = base[c]
    BY <2>1
  <2> QED
    BY <1>1, <1>2, <2>2, <2>3, <2>4, <2>5, WriteAbs
<1> QED
  BY <1>3, <1>4

LEMMA OtherAbs ==
    ASSUME IInv, IInv', OtherPut \/ OtherDelete
    PROVE  Atomic!OtherClient
<1>1. UNCHANGED <<req, answer, held, base, applied>>
  BY DEF OtherPut, OtherDelete
<1>2. PICK h \in Hrefs, d \in Docs \cup {None} : store' = [store EXCEPT ![h] = d]
  BY RequestsAssumption DEF OtherPut, OtherDelete
<1>3. store'[h] = d /\ d \in Docs \cup {None}
  BY <1>2 DEF IInv, TypeOK
<1>4. \A c \in Calls : SameAbs(c)
  BY <1>1, SameIsSameAbs
<1>5. UNCHANGED <<req, [c \in Calls |-> TookStep(c)], [c \in Calls |-> Found(c)],
                  [c \in Calls |-> Verdict(c)], [c \in Calls |-> Reported(c)]>>
  BY <1>1, <1>4 DEF SameAbs
<1>6. Atomic!Hrefs = Hrefs /\ Atomic!Docs = Docs
  BY SameData
<1>7. store'[h] \in Docs \cup {None} /\ store' = [store EXCEPT ![h] = store'[h]]
  BY <1>2, <1>3
<1> QED
  BY <1>5, <1>6, <1>7, Zenon DEF Atomic!OtherClient

\* Every step is a step of the atomic calls or is not seen by them.
LEMMA StepAbs ==
    ASSUME SendsEtag, IInv, IInv', [Next]_vars
    PROVE  [Atomic!Next]_(Atomic!vars)
<1>1. ASSUME NEW c \in Calls, CallGet(c) \/ CallCreate(c) \/ CallDelete(c)
      PROVE  Atomic!Next
  BY <1>1, CallAbs DEF Atomic!Next
<1>2. ASSUME NEW c \in Calls, ClientStep(c) PROVE [Atomic!Next]_(Atomic!vars)
  BY <1>2, ClientAbs DEF Atomic!Next
<1>3. ASSUME NEW c \in Calls, ServerStep(c) PROVE [Atomic!Next]_(Atomic!vars)
  <2>1. CASE ServeGet(c) \/ ServePut(c) \/ ServeDelete(c)
    BY <2>1, ServeGetAbs, ServePutAbs, ServeDeleteAbs DEF Atomic!Next
  <2>2. CASE ServeError(c) \/ GatewayError(c)
    BY <2>2, SameIsSameAbs, Stutter DEF ServeError, GatewayError, server
  <2> QED
    BY <1>3, <2>1, <2>2 DEF ServerStep
<1>4. CASE OtherPut \/ OtherDelete
  BY <1>4, OtherAbs DEF Atomic!Next
<1>5. CASE UNCHANGED vars
  BY <1>5, SameIsSameAbs, Stutter DEF vars, server
<1> QED
  BY <1>1, <1>2, <1>3, <1>4, <1>5 DEF Next

\* With ETags, the exchanges of the handlers, interleaved, delayed or lost,
\* amount to calls that act on the stored object atomically, at most once,
\* before they are answered "ok" and never when they are refused.
THEOREM Refinement == ASSUME SendsEtag PROVE Spec => CallsAreAtomic
BY InitAbs, StepAbs, Invariance, PTL DEF Spec, CallsAreAtomic, Atomic!Spec
=============================================================================
