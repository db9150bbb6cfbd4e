------------------------- MODULE CalendarToolsProofs -------------------------
(***************************************************************************)
(* Proofs about CalendarTools, for any number of calls, calendars, UIDs,   *)
(* values, requests and documents of other clients.                        *)
(***************************************************************************)
EXTENDS CalendarTools, TLAPS

-----------------------------------------------------------------------------
(***************************************************************************)
(* Documents and objects.                                                  *)
(***************************************************************************)

\* Parsing a readable document gives an object of the kind asked for.
LEMMA ParseType ==
    ASSUME NEW kind \in Kinds, NEW doc \in Docs, Readable(doc, kind)
    PROVE  Parse(doc) \in ObjectsOf(kind)
<1>1. doc \in DocsOf(kind)
  BY DEF Docs, DocsOf, Readable, Kinds
<1>2. doc.uid \in Uids /\ doc.fields \in FieldValues(kind) /\ doc.extra \in Extras
  BY <1>1 DEF DocsOf, Readable
<1>3. ASSUME NEW f \in FieldsOf(kind)
      PROVE  ReadField(doc, f) \in Values \cup {None}
  <2>1. CASE doc.fields[f] # None
    BY <1>2, <2>1 DEF ReadField, FieldValues
  <2>2. CASE doc.fields[f] = None /\ f = "end"
    <3>1. kind = "VEVENT"
      BY <1>3, <2>2 DEF FieldsOf, TodoFields, Kinds
    <3>2. doc.fields["start"] \in Values
      BY <1>2, <3>1 DEF Readable, FieldValues, FieldsOf, EventFields
    <3>3. DerivedEnd[<<doc.fields["start"], doc.extra>>] \in Values
      BY <1>2, <3>2, ValuesAssumption
    <3> QED
      BY <2>2, <3>3 DEF ReadField
  <2>3. CASE doc.fields[f] = None /\ f # "end"
    BY <2>3, ValuesAssumption DEF ReadField
  <2> QED
    BY <2>1, <2>2, <2>3
<1>4. doc.kind = kind
  BY DEF Readable
<1>5. [f \in FieldsOf(doc.kind) |-> ReadField(doc, f)] \in FieldValues(kind)
  BY <1>3, <1>4 DEF FieldValues
<1> QED
  BY <1>2, <1>4, <1>5 DEF Parse, ObjectsOf

\* The edit of an object is an object of the same kind, UID, href and ETag.
LEMMA EditType ==
    ASSUME NEW kind \in Kinds, NEW obj \in ObjectsOf(kind),
           NEW r \in RequestsOf(kind)
    PROVE  /\ EditObject(obj, r) \in ObjectsOf(kind)
           /\ EditObject(obj, r).uid = obj.uid
           /\ EditObject(obj, r).href = obj.href
           /\ EditObject(obj, r).etag = obj.etag
<1> DEFINE cleared == ClearFields(obj, r.clear)
<1>1. r.patch \in FieldValues(kind) /\ obj.kind = kind
  BY DEF RequestsOf, ObjectsOf
<1>2. /\ cleared \in ObjectsOf(kind) /\ cleared.uid = obj.uid
      /\ cleared.href = obj.href /\ cleared.etag = obj.etag
  BY <1>1 DEF ClearFields, ObjectsOf, FieldValues
<1>3. cleared.kind = kind
  BY <1>2 DEF ObjectsOf
<1> HIDE DEF cleared
<1> QED
  BY <1>1, <1>2, <1>3 DEF EditObject, ApplyPatch, ObjectsOf, FieldValues, cleared

\* The document built from an object is one the server can store.
LEMMA BuildType ==
    ASSUME NEW kind \in Kinds, NEW obj \in ObjectsOf(kind)
    PROVE  Build(obj) \in DocsOf(kind)
BY ValuesAssumption DEF Build, ObjectsOf, DocsOf

LEMMA NewObjectType ==
    ASSUME NEW kind \in Kinds, NEW r \in RequestsOf(kind), NEW uid \in Uids
    PROVE  NewObject(r, uid) \in ObjectsOf(kind)
BY DEF NewObject, ObjectsOf, RequestsOf

LEMMA RequestKind ==
    ASSUME NEW r \in RequestRecords
    PROVE  r.kind \in Kinds /\ r \in RequestsOf(r.kind)
BY DEF RequestRecords, RequestsOf, Kinds

LEMMA KindsAreObjects ==
    ASSUME NEW kind \in Kinds
    PROVE  ObjectsOf(kind) \subseteq Objects /\ DocsOf(kind) \subseteq Docs
BY DEF Kinds, Objects, Docs

-----------------------------------------------------------------------------
(***************************************************************************)
(* Type correctness.                                                       *)
(***************************************************************************)

LEMMA HrefType ==
    ASSUME TypeOK, NEW c \in Calls, req[c] # None, req[c].uid # None
    PROVE  HrefOf(c) \in Hrefs
BY DEF TypeOK, HrefOf, ObjectHref, Hrefs, RequestRecords, RequestsOf

\* A PUT of an object is a message.
LEMMA PutType ==
    ASSUME NEW kind \in Kinds, NEW obj \in ObjectsOf(kind), NEW cal \in Calendars
    PROVE  PutRequest(cal, obj) \in Messages
<1>1. Build(obj) \in Docs
  BY BuildType, KindsAreObjects
<1>2. PutHref(cal, obj) \in Hrefs
  BY DEF PutHref, ObjectsOf, ObjectHref, Hrefs
<1>3. obj.etag \in Etags
  BY DEF ObjectsOf, Etags
<1> QED
  BY <1>1, <1>2, <1>3 DEF PutRequest, Messages

LEMMA StartType ==
    ASSUME TypeOK, NEW c \in Calls, NEW r \in RequestRecords, NEW p \in Phases,
           NEW obj \in Objects \cup {None}, NEW m \in Messages,
           Start(c, r, p, obj, m)
    PROVE  TypeOK'
BY DEF TypeOK, Start, server

LEMMA FinishType ==
    ASSUME TypeOK, NEW c \in Calls, NEW a \in Errors \cup {"ok"}, Finish(c, a),
           held' \in [Calls -> Objects \cup {None}]
    PROVE  TypeOK'
<1>1. Nothing \in Messages /\ "done" \in Phases
  BY DEF Messages, Phases
<1> QED
  BY <1>1 DEF TypeOK, Finish, server

LEMMA AbandonType ==
    ASSUME TypeOK, NEW c \in Calls, Abandon(c, "timeout")
    PROVE  TypeOK'
<1>1. Nothing \in Messages /\ "done" \in Phases /\ "timeout" \in Errors
  BY DEF Messages, Phases, Errors
<1> QED
  BY <1>1 DEF TypeOK, Abandon, server

LEMMA ReplyType ==
    ASSUME TypeOK, NEW c \in Calls, NEW status \in ErrorStatus \cup {"ok"},
           NEW doc \in Docs \cup {None}, NEW etag \in Etags,
           Reply(c, status, doc, etag)
    PROVE  wire' \in [Calls -> Messages]
<1>1. Nothing \in Messages /\ Response(status, doc, etag) \in Messages
  BY DEF Messages, Response
<1> QED
  BY <1>1 DEF TypeOK, Reply


-----------------------------------------------------------------------------
(***************************************************************************)
(* The inductive invariant: what a step leaves alone.                      *)
(***************************************************************************)

\* Nothing of call d changes.
Same(d) ==
    /\ req'[d] = req[d] /\ phase'[d] = phase[d] /\ wire'[d] = wire[d]
    /\ answer'[d] = answer[d] /\ held'[d] = held[d]
    /\ base'[d] = base[d] /\ applied'[d] = applied[d]

LEMMA FrameServer ==
    ASSUME NEW d \in Calls, CallInv(d), Same(d),
           req[d] # None => \A etag : Guards(d, etag) => Guards(d, etag)'
    PROVE  CallInv(d)'
<1>0. wire[d].method \in {"PUT", "response"} => req[d] # None
  BY DEF CallInv, PhaseInv, Nothing
<1>1. HrefOf(d)' = HrefOf(d) /\ TookStep(d)' = TookStep(d)
  BY DEF Same, HrefOf, TookStep
<1>2. PhaseInv(d)' /\ OutcomeInv(d)'
  BY DEF CallInv, Same, PhaseInv, OutcomeInv, WriteInFlight
<1>3. ReadInv(d)' /\ WriteInv(d)'
  BY <1>0, <1>1 DEF CallInv, Same, ReadInv, WriteInv
<1>4. HeldInv(d)'
  BY DEF CallInv, Same, HeldInv, WriteInFlight
<1> QED
  BY <1>2, <1>3, <1>4 DEF CallInv

LEMMA FrameCall ==
    ASSUME NEW d \in Calls, CallInv(d), Same(d), UNCHANGED server
    PROVE  CallInv(d)'
<1>1. \A etag : Guards(d, etag) => Guards(d, etag)'
  BY DEF Guards, HrefOf, Same, server
<1> QED
  BY <1>1, FrameServer

\* An object stored or removed under href h by whoever does it, with a new
\* ETag: what guarded a call still guards it.
LEMMA GuardsKept ==
    ASSUME TypeOK, NEW d \in Calls, Same(d), \A h \in Hrefs : version[h] <= clock,
           req[d] # None, req[d].uid # None,
           NEW h \in Hrefs, NEW doc, store' = [store EXCEPT ![h] = doc],
           \/ /\ version' = [version EXCEPT ![h] = clock + 1]
              /\ clock' = clock + 1
           \/ doc = None /\ UNCHANGED <<version, clock>>
    PROVE  \A etag : Guards(d, etag) => Guards(d, etag)'
<1>1. HrefOf(d)' = HrefOf(d) /\ HrefOf(d) \in Hrefs
  BY HrefType DEF Same, HrefOf
<1>2. base'[d] = base[d] /\ clock \in Nat /\ store \in [Hrefs -> Docs \cup {None}]
      /\ version \in [Hrefs -> Nat]
  BY DEF Same, TypeOK
<1> QED
  BY <1>1, <1>2 DEF Guards

LEMMA VersionsKept ==
    ASSUME TypeOK, \A h \in Hrefs : version[h] <= clock, NEW h \in Hrefs,
           version' = [version EXCEPT ![h] = clock + 1], clock' = clock + 1
    PROVE  \A g \in Hrefs : version'[g] <= clock'
BY DEF TypeOK

\* A created object stays created.
LEMMA CreatedKept ==
    ASSUME NEW h, CreatedAt(h),
           \A d \in Calls : req[d] # None =>
             req'[d] = req[d] /\ (applied[d] = 1 => applied'[d] = 1)
    PROVE  CreatedAt(h)'
BY DEF CreatedAt, HrefOf

\* Steps that leave the store, the requests and the histories alone.
LEMMA MintFrame ==
    ASSUME MintInv, UNCHANGED <<store, req, base, applied>>
    PROVE  MintInv'
BY DEF MintInv, CreatedAt, HrefOf

-----------------------------------------------------------------------------
(***************************************************************************)
(* The inductive invariant: the initial states.                            *)
(***************************************************************************)

LEMMA InitIInv == Init => IInv
<1> SUFFICES ASSUME Init PROVE IInv
  OBVIOUS
<1>1. TypeOK
  BY RequestsAssumption DEF Init, TypeOK, Phases, Messages, Nothing
<1>2. \A h \in Hrefs : version[h] <= clock
  BY DEF Init
<1>3. ASSUME NEW c \in Calls PROVE CallInv(c)
  <2>1. /\ req[c] = None /\ phase[c] = "idle" /\ wire[c] = Nothing
        /\ answer[c] = "none" /\ held[c] = None /\ base[c] = None /\ applied[c] = 0
    BY DEF Init
  <2>2. PhaseInv(c) /\ WriteInv(c)
    BY <2>1 DEF PhaseInv, WriteInv, WriteInFlight, Nothing
  <2>3. OutcomeInv(c)
    BY <2>1 DEF OutcomeInv, WriteInFlight, Nothing
  <2>4. ReadInv(c)
    BY <2>1 DEF ReadInv, Nothing, Refusals, Errors, ErrorStatus
  <2>5. HeldInv(c)
    BY <2>1 DEF HeldInv, WriteInFlight, Nothing
  <2> QED
    BY <2>2, <2>3, <2>4, <2>5 DEF CallInv
<1>4. MintInv
  BY DEF Init, MintInv
<1> QED
  BY <1>1, <1>2, <1>3, <1>4 DEF IInv

-----------------------------------------------------------------------------
(***************************************************************************)
(* The inductive invariant: a call starts.                                 *)
(***************************************************************************)

\* A starting call leaves the other calls and what was created alone.
LEMMA StartFrame ==
    ASSUME IInv, NEW c \in Calls, NEW r, NEW p, NEW obj, NEW m,
           Start(c, r, p, obj, m)
    PROVE  /\ req'[c] = r /\ phase'[c] = p /\ wire'[c] = m /\ held'[c] = obj
           /\ UNCHANGED <<server, answer, base, applied>>
           /\ phase[c] = "idle" /\ req[c] = None
           /\ answer'[c] = "none" /\ base'[c] = None /\ applied'[c] = 0
           /\ \A d \in Calls \ {c} : CallInv(d)' /\ req'[d] = req[d]
           /\ \A h \in Hrefs : CreatedAt(h) => CreatedAt(h)'
           /\ \A h \in Hrefs : store'[h] # None /\ h[2] \in FreshUids => CreatedAt(h)'
           /\ \A d \in Calls : base'[d] # None /\ req'[d].uid \in FreshUids
                                 => CreatedAt(HrefOf(d))'
           /\ \A h \in Hrefs : version'[h] <= clock'
<1>1. /\ req'[c] = r /\ phase'[c] = p /\ wire'[c] = m /\ held'[c] = obj
      /\ UNCHANGED <<server, answer, base, applied>> /\ phase[c] = "idle"
  BY DEF IInv, TypeOK, Start
<1>2. CallInv(c)
  BY DEF IInv
<1>3. /\ req[c] = None /\ answer'[c] = "none" /\ base'[c] = None /\ applied'[c] = 0
  BY <1>1, <1>2 DEF CallInv, PhaseInv
<1>4. ASSUME NEW d \in Calls, d # c PROVE CallInv(d)' /\ req'[d] = req[d]
  BY <1>1, <1>4, FrameCall DEF IInv, TypeOK, Start, Same
<1>5. ASSUME NEW h \in Hrefs, CreatedAt(h) PROVE CreatedAt(h)'
  BY <1>1, <1>3, <1>4, <1>5, CreatedKept
<1>6. ASSUME NEW d \in Calls, base'[d] # None, req'[d].uid \in FreshUids
      PROVE  CreatedAt(HrefOf(d))'
  <2>1. d # c /\ req'[d] = req[d] /\ base'[d] = base[d]
    BY <1>1, <1>3, <1>4, <1>6
  <2>2. CreatedAt(HrefOf(d)) /\ HrefOf(d) \in Hrefs /\ HrefOf(d)' = HrefOf(d)
    BY <1>6, <2>1, HrefType DEF IInv, MintInv, CallInv, PhaseInv, HrefOf
  <2> QED
    BY <1>5, <2>2
<1>7. /\ \A h \in Hrefs : store'[h] # None /\ h[2] \in FreshUids => CreatedAt(h)'
      /\ \A h \in Hrefs : version'[h] <= clock'
  BY <1>1, <1>5 DEF IInv, MintInv, server
<1> QED
  BY <1>1, <1>3, <1>4, <1>5, <1>6, <1>7

LEMMA CallGetIInv ==
    ASSUME IInv, NEW c \in Calls, CallGet(c) PROVE IInv'
<1> PICK r \in Requests :
      /\ r.op \in {"get", "update"}
      /\ Start(c, r, "get", None, GetRequest(ObjectHref(r.cal, r.uid)))
  BY DEF CallGet
<1> DEFINE m == GetRequest(ObjectHref(r.cal, r.uid))
<1>1. r \in RequestRecords /\ r.uid # None /\ r.uid \in Uids /\ r.cal \in Calendars
      /\ r # None
  BY RequestsAssumption, NoneAssumption DEF WellFormed, RequestRecords, RequestsOf
<1>2. TypeOK'
  <2>1. m \in Messages /\ "get" \in Phases
    BY <1>1 DEF Messages, GetRequest, ObjectHref, Hrefs, Phases
  <2> QED
    BY <1>1, <2>1, StartType DEF IInv
<1>3. /\ req'[c] = r /\ phase'[c] = "get" /\ wire'[c] = m /\ held'[c] = None
      /\ answer'[c] = "none" /\ base'[c] = None /\ applied'[c] = 0
      /\ HrefOf(c)' = ObjectHref(r.cal, r.uid) /\ ~WriteInFlight(c)'
  BY StartFrame DEF HrefOf, WriteInFlight, GetRequest
<1>4. CallInv(c)'
  <2>1. PhaseInv(c)'
    BY <1>1, <1>3 DEF PhaseInv, GetRequest
  <2>2. OutcomeInv(c)'
    BY <1>3 DEF OutcomeInv, GetRequest
  <2>3. ReadInv(c)' /\ WriteInv(c)'
    BY <1>3 DEF ReadInv, WriteInv, GetRequest, Refusals, Errors, ErrorStatus
  <2>4. HeldInv(c)'
    BY <1>3 DEF HeldInv
  <2> QED
    BY <2>1, <2>2, <2>3, <2>4 DEF CallInv
<1>5. MintInv'
  <2>1. ASSUME NEW d \in Calls, req'[d] # None, req'[d].op = "create"
        PROVE  d # c /\ req'[d] = req[d]
    BY <1>3, <2>1, StartFrame
  <2> QED
    BY <2>1, StartFrame DEF IInv, MintInv
<1> QED
  BY <1>2, <1>4, <1>5, StartFrame DEF IInv

LEMMA CallCreateIInv ==
    ASSUME IInv, NEW c \in Calls, CallCreate(c) PROVE IInv'
<1> PICK r \in Requests, u \in NewUids :
      /\ r.op = "create"
      /\ Start(c, [r EXCEPT !.uid = u], "write", NewObject(r, u),
               PutRequest(r.cal, NewObject(r, u)))
  BY DEF CallCreate
<1> DEFINE q == [r EXCEPT !.uid = u]
           obj == NewObject(r, u)
           m == PutRequest(r.cal, obj)
<1>1. /\ r \in RequestRecords /\ r.cal \in Calendars /\ r.kind \in Kinds
      /\ r \in RequestsOf(r.kind)
  BY RequestsAssumption, RequestKind DEF WellFormed, RequestRecords, RequestsOf
<1>0. FreshUids \subseteq Uids
  BY RequestsAssumption
<1>2. u \in FreshUids /\ u \in Uids /\ u # None
      /\ \A d \in Calls : req[d] # None => req[d].uid # u
  BY <1>0, ValuesAssumption DEF NewUids
<1>3. q \in RequestRecords /\ q # None /\ q.uid = u /\ q.cal = r.cal /\ q.op = "create"
  <2>1. q \in RequestsOf(r.kind) /\ q.uid = u /\ q.cal = r.cal /\ q.op = "create"
    BY <1>1, <1>2 DEF RequestsOf
  <2> QED
    BY <1>1, <2>1, NoneAssumption DEF RequestRecords, Kinds
<1>4. obj \in ObjectsOf(r.kind) /\ obj \in Objects /\ obj = NewObject(q, u)
  BY <1>1, <1>2, <1>3, NewObjectType, KindsAreObjects DEF NewObject, RequestsOf
<1>5. TypeOK'
  BY <1>1, <1>3, <1>4, PutType, StartType DEF IInv, Phases
<1>6. m.method = "PUT" /\ m.href = ObjectHref(r.cal, u) /\ m.doc = Build(obj)
  BY DEF PutRequest, PutHref, NewObject
<1>7. Start(c, q, "write", obj, m)
  OBVIOUS
<1> HIDE DEF q, obj, m
<1>8. /\ req'[c] = q /\ phase'[c] = "write" /\ wire'[c] = m /\ held'[c] = obj
      /\ answer'[c] = "none" /\ base'[c] = None /\ applied'[c] = 0
  BY <1>7, StartFrame
<1>9. HrefOf(c)' = ObjectHref(r.cal, u) /\ WriteInFlight(c)'
  BY <1>3, <1>6, <1>8 DEF HrefOf, WriteInFlight
<1>10. CallInv(c)'
  <2>1. PhaseInv(c)'
    BY <1>2, <1>3, <1>6, <1>8, <1>9 DEF PhaseInv, Writes
  <2>2. OutcomeInv(c)'
    BY <1>3, <1>6, <1>8, <1>9 DEF OutcomeInv
  <2>3. ReadInv(c)' /\ WriteInv(c)'
    BY <1>3, <1>6, <1>8, <1>9 DEF ReadInv, WriteInv, Refusals, Errors, ErrorStatus
  <2>4. HeldInv(c)'
    BY <1>3, <1>4, <1>8, <1>9 DEF HeldInv
  <2> QED
    BY <2>1, <2>2, <2>3, <2>4 DEF CallInv
<1>11. MintInv'
  <2>1. ASSUME NEW d \in Calls, req'[d] # None, req'[d].op = "create"
        PROVE  /\ req'[d].uid \in FreshUids
               /\ \A e \in Calls : req'[e] # None /\ req'[e].op = "create"
                                   /\ req'[e].uid = req'[d].uid => e = d
    BY <1>2, <1>3, <1>7, <1>8, <2>1, StartFrame DEF IInv, MintInv
  <2> QED
    BY <1>7, <2>1, StartFrame DEF MintInv
<1> QED
  BY <1>5, <1>7, <1>10, <1>11, StartFrame DEF IInv

LEMMA CallDeleteIInv ==
    ASSUME IInv, NEW c \in Calls, CallDelete(c) PROVE IInv'
<1> PICK r \in Requests :
      /\ r.op = "delete"
      /\ Start(c, r, "write", None, DeleteRequest(ObjectHref(r.cal, r.uid)))
  BY DEF CallDelete
<1> DEFINE m == DeleteRequest(ObjectHref(r.cal, r.uid))
<1>1. r \in RequestRecords /\ r.uid # None /\ r.uid \in Uids /\ r.cal \in Calendars
      /\ r # None
  BY RequestsAssumption, NoneAssumption DEF WellFormed, RequestRecords, RequestsOf
<1>2. TypeOK'
  <2>1. m \in Messages /\ "write" \in Phases
    BY <1>1 DEF Messages, DeleteRequest, ObjectHref, Hrefs, Phases
  <2> QED
    BY <1>1, <2>1, StartType DEF IInv
<1>3. /\ req'[c] = r /\ phase'[c] = "write" /\ wire'[c] = m /\ held'[c] = None
      /\ answer'[c] = "none" /\ base'[c] = None /\ applied'[c] = 0
      /\ HrefOf(c)' = ObjectHref(r.cal, r.uid) /\ WriteInFlight(c)'
  BY StartFrame DEF HrefOf, WriteInFlight, DeleteRequest
<1>4. CallInv(c)'
  <2>1. PhaseInv(c)'
    BY <1>1, <1>3 DEF PhaseInv, DeleteRequest, Writes
  <2>2. OutcomeInv(c)'
    BY <1>3 DEF OutcomeInv, DeleteRequest
  <2>3. ReadInv(c)' /\ WriteInv(c)'
    BY <1>3 DEF ReadInv, WriteInv, DeleteRequest, Refusals, Errors, ErrorStatus
  <2>4. HeldInv(c)'
    BY <1>3 DEF HeldInv
  <2> QED
    BY <2>1, <2>2, <2>3, <2>4 DEF CallInv
<1>5. MintInv'
  <2>1. ASSUME NEW d \in Calls, req'[d] # None, req'[d].op = "create"
        PROVE  d # c /\ req'[d] = req[d]
    BY <1>3, <2>1, StartFrame
  <2> QED
    BY <2>1, StartFrame DEF IInv, MintInv
<1> QED
  BY <1>2, <1>4, <1>5, StartFrame DEF IInv

-----------------------------------------------------------------------------
(***************************************************************************)
(* The inductive invariant: a call is answered.                            *)
(***************************************************************************)

\* A call that has started has a request, and with it an href.
LEMMA StartedType ==
    ASSUME IInv, NEW c \in Calls, phase[c] # "idle"
    PROVE  /\ req[c] # None /\ req[c] \in RequestsOf(req[c].kind)
           /\ req[c].kind \in Kinds /\ req[c].uid # None /\ HrefOf(c) \in Hrefs
           /\ req[c].op \in Ops /\ req[c].cal \in Calendars
<1>1. req[c] # None /\ req[c].uid # None /\ req[c] \in RequestRecords
  BY DEF IInv, CallInv, PhaseInv, TypeOK
<1> QED
  BY <1>1, RequestKind, HrefType DEF IInv, RequestsOf

\* A step that answers call c leaves the other calls and the store alone.
LEMMA AnswerFrame ==
    ASSUME IInv, NEW c \in Calls, phase[c] # "idle",
           UNCHANGED <<server, req, base, applied>>,
           phase' = [phase EXCEPT ![c] = "done"],
           wire'[c] = Nothing \/ wire'[c] = wire[c],
           \A d \in Calls \ {c} : /\ wire'[d] = wire[d] /\ answer'[d] = answer[d]
                                  /\ held'[d] = held[d]
    PROVE  /\ phase'[c] = "done" /\ req'[c] = req[c] /\ base'[c] = base[c]
           /\ applied'[c] = applied[c] /\ applied[c] <= 1
           /\ HrefOf(c)' = HrefOf(c) /\ TookStep(c)' = TookStep(c)
           /\ req[c].op = "get" => applied[c] = 0
           /\ \A d \in Calls \ {c} : CallInv(d)'
           /\ MintInv' /\ \A h \in Hrefs : version'[h] <= clock'
<1>1. /\ phase'[c] = "done" /\ req'[c] = req[c] /\ base'[c] = base[c]
      /\ applied'[c] = applied[c]
  BY DEF IInv, TypeOK
<1>2. HrefOf(c)' = HrefOf(c) /\ TookStep(c)' = TookStep(c)
  BY <1>1 DEF HrefOf, TookStep
<1>3. applied[c] <= 1 /\ (req[c].op = "get" => applied[c] = 0)
  BY StartedType DEF IInv, CallInv, OutcomeInv
<1>4. ASSUME NEW d \in Calls, d # c PROVE CallInv(d)'
  BY <1>4, FrameCall DEF IInv, TypeOK, Same
<1>5. MintInv' /\ \A h \in Hrefs : version'[h] <= clock'
  BY MintFrame DEF IInv, server
<1> QED
  BY <1>1, <1>2, <1>3, <1>4, <1>5

\* An answer that tells the truth about what the call did keeps IInv.
LEMMA FinishIInv ==
    ASSUME IInv, NEW c \in Calls, phase[c] # "idle",
           NEW a \in Errors \cup {"ok"}, Finish(c, a),
           NEW obj \in Objects \cup {None}, held' = [held EXCEPT ![c] = obj],
           a = "ok" /\ req[c].op \in Writes => applied[c] = 1,
           a \in Refusals => applied[c] = 0 /\ (req[c].op = "get" => ~TookStep(c)),
           a = "ok" /\ req[c].op = "get" =>
             /\ base[c] # None /\ Readable(base[c], req[c].kind)
             /\ obj # None /\ Build(obj) = Build(Parse(base[c])),
           req[c].op \in Writes => obj = held[c],
           req[c].op \in Writes /\ a = "ok" => phase[c] = "write"
    PROVE  IInv'
<1>1. TypeOK'
  <2>1. held' \in [Calls -> Objects \cup {None}]
    BY DEF IInv, TypeOK
  <2> QED
    BY <2>1, FinishType DEF IInv
<1>2. /\ wire'[c] = Nothing /\ answer'[c] = a /\ held'[c] = obj
      /\ \A d \in Calls \ {c} : /\ wire'[d] = wire[d] /\ answer'[d] = answer[d]
                                /\ held'[d] = held[d]
  BY DEF IInv, TypeOK, Finish
<1>3. /\ phase'[c] = "done" /\ req'[c] = req[c] /\ base'[c] = base[c]
      /\ applied'[c] = applied[c] /\ applied[c] <= 1
      /\ HrefOf(c)' = HrefOf(c) /\ TookStep(c)' = TookStep(c)
      /\ req[c].op = "get" => applied[c] = 0
      /\ \A d \in Calls \ {c} : CallInv(d)'
      /\ MintInv' /\ \A h \in Hrefs : version'[h] <= clock'
  BY <1>2, AnswerFrame DEF Finish
<1>4. req[c] # None /\ req[c].uid # None /\ req[c].op \in Ops
  BY StartedType
<1>5. ~WriteInFlight(c)' /\ a # "none"
  BY <1>2 DEF WriteInFlight, Nothing, Errors, ErrorStatus
<1>6. PhaseInv(c)'
  BY <1>2, <1>3, <1>4, <1>5 DEF PhaseInv
<1>7. OutcomeInv(c)'
  BY <1>2, <1>3, <1>5 DEF OutcomeInv
<1>8. ReadInv(c)' /\ WriteInv(c)'
  BY <1>2, <1>3 DEF ReadInv, WriteInv, Nothing
<1>9. HeldInv(c)'
  <2>1. CASE req[c].op = "get"
    BY <1>2, <1>3, <1>5, <2>1 DEF HeldInv
  <2>2. CASE req[c].op # "get"
    <3>1. req[c].op \in Writes /\ obj = held[c]
      BY <1>4, <2>2 DEF Ops, Writes
    <3>2. HeldInv(c)
      BY DEF IInv, CallInv
    <3>3. CASE a = "ok" \/ applied[c] > 0
      BY <1>2, <1>3, <3>1, <3>2, <3>3 DEF HeldInv
    <3>4. CASE ~(a = "ok" \/ applied[c] > 0)
      BY <1>2, <1>3, <1>5, <3>4 DEF HeldInv
    <3> QED
      BY <3>3, <3>4
  <2> QED
    BY <2>1, <2>2
<1> QED
  BY <1>1, <1>3, <1>6, <1>7, <1>8, <1>9 DEF IInv, CallInv

LEMMA ResponseType ==
    ASSUME TypeOK, NEW c \in Calls, wire[c].method = "response"
    PROVE  /\ wire[c].status \in ErrorStatus \cup {"ok"}
           /\ wire[c].doc \in Docs \cup {None} /\ wire[c].etag \in Etags
BY DEF TypeOK, Messages, Nothing

LEMMA HttpFailsIInv ==
    ASSUME IInv, NEW c \in Calls, HttpFails(c) PROVE IInv'
<1> DEFINE a == wire[c].status
<1>1. /\ phase[c] \in {"get", "write"} /\ wire[c].method = "response"
      /\ a # "ok" /\ Finish(c, a) /\ held' = held
  BY DEF HttpFails, Received
<1>2. a \in ErrorStatus
  BY <1>1, ResponseType DEF IInv
<1>3. a \in Errors \cup {"ok"} /\ (a \in Refusals => a # "server_error")
  BY <1>2 DEF Errors, Refusals
<1>4. held' = [held EXCEPT ![c] = held[c]] /\ held[c] \in Objects \cup {None}
  BY <1>1 DEF IInv, TypeOK
<1>5. CallInv(c)
  BY DEF IInv
<1>6. a \in Refusals => applied[c] = 0
  BY <1>1, <1>3, <1>5 DEF CallInv, OutcomeInv
<1>7. a \in Refusals /\ req[c].op = "get" => ~TookStep(c)
  BY <1>1, <1>5 DEF CallInv, PhaseInv, ReadInv, TookStep, Writes
<1> HIDE DEF a
<1> QED
  BY <1>1, <1>3, <1>4, <1>6, <1>7, FinishIInv

\* What a readable answer to a GET is: the document the server read.
LEMMA FetchedType ==
    ASSUME IInv, NEW c \in Calls, GetReadable(c)
    PROVE  /\ phase[c] = "get" /\ wire[c].method = "response"
           /\ applied[c] = 0 /\ req[c].op \in {"get", "update"}
           /\ base[c] \in Docs /\ base[c] # None /\ Readable(base[c], req[c].kind)
           /\ Fetched(c) \in ObjectsOf(req[c].kind) /\ Fetched(c).href = HrefOf(c)
           /\ Fetched(c).uid = Parse(base[c]).uid
           /\ Fetched(c).fields = Parse(base[c]).fields
           /\ SendsEtag => Guards(c, wire[c].etag)
           /\ Fetched(c).etag = wire[c].etag
           /\ Parse(base[c]) \in ObjectsOf(req[c].kind)
<1>1. /\ phase[c] = "get" /\ wire[c].method = "response" /\ wire[c].status = "ok"
      /\ Readable(wire[c].doc, req[c].kind)
  BY DEF GetReadable, Received
<1>2. applied[c] = 0 /\ req[c].op \in {"get", "update"}
  BY <1>1 DEF IInv, CallInv, PhaseInv, OutcomeInv
<1>3. base[c] # None /\ wire[c].doc = base[c] /\ (SendsEtag => Guards(c, wire[c].etag))
  BY <1>1 DEF IInv, CallInv, ReadInv
<1>4. base[c] \in Docs /\ wire[c].etag \in Etags
  BY <1>1, <1>3, ResponseType DEF IInv, TypeOK
<1>5. req[c].kind \in Kinds /\ HrefOf(c) \in Hrefs
  BY <1>1, StartedType
<1>6. Parse(base[c]) \in ObjectsOf(req[c].kind)
  BY <1>1, <1>3, <1>4, <1>5, ParseType
<1>7. Fetched(c) = [Parse(base[c]) EXCEPT !.href = HrefOf(c), !.etag = wire[c].etag]
  BY <1>3 DEF Fetched
<1>8. /\ Fetched(c) \in ObjectsOf(req[c].kind) /\ Fetched(c).href = HrefOf(c)
      /\ Fetched(c).etag = wire[c].etag
      /\ Fetched(c).uid = Parse(base[c]).uid
      /\ Fetched(c).fields = Parse(base[c]).fields
  BY <1>4, <1>5, <1>6, <1>7 DEF ObjectsOf, Etags
<1> QED
  BY <1>1, <1>2, <1>3, <1>4, <1>6, <1>7, <1>8

\* What is written for an object does not depend on its href and ETag.
LEMMA BuildFetched ==
    ASSUME NEW kind \in Kinds, NEW obj \in ObjectsOf(kind), NEW o \in ObjectsOf(kind),
           NEW r \in RequestsOf(kind),
           o.uid = obj.uid, o.fields = obj.fields
    PROVE  /\ Build(o) = Build(obj)
           /\ Build(EditObject(o, r)) = Build(EditObject(obj, r))
<1>1. o.kind = obj.kind
  BY DEF ObjectsOf
<1>2. /\ EditObject(o, r).kind = EditObject(obj, r).kind
      /\ EditObject(o, r).uid = EditObject(obj, r).uid
      /\ EditObject(o, r).fields = EditObject(obj, r).fields
  BY <1>1 DEF ObjectsOf, EditObject, ApplyPatch, ClearFields
<1> QED
  BY <1>1, <1>2 DEF Build

LEMMA GetUnreadableIInv ==
    ASSUME IInv, NEW c \in Calls, GetUnreadable(c) PROVE IInv'
<1>1. /\ phase[c] = "get" /\ wire[c].method = "response" /\ wire[c].status = "ok"
      /\ ~Readable(wire[c].doc, req[c].kind) /\ Finish(c, "ical") /\ held' = held
  BY DEF GetUnreadable, Received
<1>2. applied[c] = 0 /\ req[c].op \in {"get", "update"} /\ wire[c].doc = base[c]
  BY <1>1 DEF IInv, CallInv, PhaseInv, OutcomeInv, ReadInv
<1>3. held' = [held EXCEPT ![c] = held[c]] /\ held[c] \in Objects \cup {None}
  BY <1>1 DEF IInv, TypeOK
<1>4. req[c].op = "get" => ~TookStep(c)
  BY <1>1, <1>2 DEF TookStep
<1> DEFINE a == "ical"
<1>5. a \in Errors \cup {"ok"} /\ a # "ok"
  BY DEF Errors
<1>6. Finish(c, a)
  BY <1>1
<1> HIDE DEF a
<1> QED
  BY <1>1, <1>2, <1>3, <1>4, <1>5, <1>6, FinishIInv

LEMMA GetAnswersIInv ==
    ASSUME IInv, NEW c \in Calls, GetAnswers(c) PROVE IInv'
<1>1. /\ GetReadable(c) /\ req[c].op = "get" /\ Finish(c, "ok")
      /\ held' = [held EXCEPT ![c] = Fetched(c)]
  BY DEF GetAnswers
<1>2. /\ phase[c] = "get" /\ base[c] # None /\ Readable(base[c], req[c].kind)
      /\ Fetched(c) \in ObjectsOf(req[c].kind)
      /\ Fetched(c).uid = Parse(base[c]).uid
      /\ Fetched(c).fields = Parse(base[c]).fields
      /\ Parse(base[c]) \in ObjectsOf(req[c].kind)
  BY <1>1, FetchedType
<1>3. req[c].kind \in Kinds /\ req[c] \in RequestsOf(req[c].kind)
  BY <1>2, StartedType
<1>4. Fetched(c) \in Objects /\ Fetched(c) # None
  BY <1>2, <1>3, KindsAreObjects, NoneAssumption
<1>5. Build(Fetched(c)) = Build(Parse(base[c]))
  BY <1>2, <1>3, BuildFetched
<1>6. "ok" \notin Refusals /\ req[c].op \notin Writes
  BY <1>1 DEF Refusals, Errors, ErrorStatus, Writes
<1> QED
  BY <1>1, <1>2, <1>4, <1>5, <1>6, FinishIInv

LEMMA UpdateRejectedIInv ==
    ASSUME IInv, NEW c \in Calls, UpdateRejected(c) PROVE IInv'
<1>1. /\ GetReadable(c) /\ req[c].op = "update" /\ Finish(c, "invalid_params")
      /\ held' = held
  BY DEF UpdateRejected
<1>2. phase[c] = "get" /\ applied[c] = 0
  BY <1>1, FetchedType
<1>3. held' = [held EXCEPT ![c] = held[c]] /\ held[c] \in Objects \cup {None}
  BY <1>1 DEF IInv, TypeOK
<1> DEFINE a == "invalid_params"
<1>4. a \in Errors \cup {"ok"} /\ a # "ok"
  BY DEF Errors
<1>5. Finish(c, a)
  BY <1>1
<1> HIDE DEF a
<1> QED
  BY <1>1, <1>2, <1>3, <1>4, <1>5, FinishIInv

LEMMA WriteAnswersIInv ==
    ASSUME IInv, NEW c \in Calls, WriteAnswers(c) PROVE IInv'
<1>1. /\ phase[c] = "write" /\ wire[c].method = "response" /\ wire[c].status = "ok"
      /\ Finish(c, "ok") /\ held' = held
  BY DEF WriteAnswers, Received
<1>2. applied[c] = 1 /\ req[c].op \in Writes
  BY <1>1 DEF IInv, CallInv, PhaseInv, OutcomeInv
<1>3. held' = [held EXCEPT ![c] = held[c]] /\ held[c] \in Objects \cup {None}
  BY <1>1 DEF IInv, TypeOK
<1>4. "ok" \notin Refusals /\ req[c].op # "get"
  BY <1>2 DEF Refusals, Errors, ErrorStatus, Writes
<1> QED
  BY <1>1, <1>2, <1>3, <1>4, FinishIInv

\* The request stays in flight, with all that is known of it.
LEMMA GiveUpIInv ==
    ASSUME IInv, NEW c \in Calls, GiveUp(c) PROVE IInv'
<1>1. phase[c] \in {"get", "write"} /\ Abandon(c, "timeout")
  BY DEF GiveUp
<1>2. TypeOK'
  BY <1>1, AbandonType DEF IInv
<1>3. /\ answer'[c] = "timeout" /\ held'[c] = held[c]
      /\ wire'[c] = IF WriteInFlight(c) THEN wire[c] ELSE Nothing
      /\ \A d \in Calls \ {c} : /\ wire'[d] = wire[d] /\ answer'[d] = answer[d]
                                /\ held'[d] = held[d]
  BY <1>1 DEF IInv, TypeOK, Abandon, WriteInFlight
<1>4. /\ phase'[c] = "done" /\ req'[c] = req[c] /\ base'[c] = base[c]
      /\ applied'[c] = applied[c] /\ applied[c] <= 1
      /\ HrefOf(c)' = HrefOf(c) /\ TookStep(c)' = TookStep(c)
      /\ req[c].op = "get" => applied[c] = 0
      /\ \A d \in Calls \ {c} : CallInv(d)'
      /\ MintInv' /\ \A h \in Hrefs : version'[h] <= clock'
  BY <1>1, <1>3, AnswerFrame DEF Abandon
<1>5. CallInv(c) /\ req[c] # None /\ req[c].uid # None
  BY <1>1, StartedType DEF IInv
<1>6. \A etag : Guards(c, etag)' = Guards(c, etag)
  BY <1>1, <1>4 DEF Guards, Abandon, server
<1>7. ASSUME WriteInFlight(c) PROVE CallInv(c)'
  <2>1. wire'[c] = wire[c] /\ WriteInFlight(c)'
    BY <1>3, <1>7 DEF WriteInFlight
  <2>2. PhaseInv(c)'
    BY <1>3, <1>4, <1>5, <1>7, <2>1 DEF CallInv, PhaseInv
  <2>3. OutcomeInv(c)'
    BY <1>3, <1>4, <1>5, <1>7, <2>1
    DEF CallInv, OutcomeInv, Refusals, Errors, ErrorStatus
  <2>4. ReadInv(c)' /\ WriteInv(c)'
    BY <1>3, <1>4, <1>5, <1>6, <1>7, <2>1
    DEF CallInv, ReadInv, WriteInv, WriteInFlight, Refusals
  <2>5. HeldInv(c)'
    BY <1>3, <1>4, <1>5, <1>7 DEF CallInv, HeldInv
  <2> QED
    BY <2>2, <2>3, <2>4, <2>5 DEF CallInv
<1>8. ASSUME ~WriteInFlight(c) PROVE CallInv(c)'
  <2>1. wire'[c] = Nothing /\ ~WriteInFlight(c)'
    BY <1>3, <1>8 DEF WriteInFlight, Nothing
  <2>2. PhaseInv(c)'
    BY <1>3, <1>4, <1>5, <2>1 DEF PhaseInv
  <2>3. OutcomeInv(c)'
    BY <1>3, <1>4, <2>1 DEF OutcomeInv, Refusals
  <2>4. ReadInv(c)' /\ WriteInv(c)'
    BY <1>3, <2>1 DEF ReadInv, WriteInv, Nothing, Refusals
  <2>5. HeldInv(c)'
    BY <1>3, <1>4, <1>5, <2>1 DEF CallInv, HeldInv
  <2> QED
    BY <2>2, <2>3, <2>4, <2>5 DEF CallInv
<1> QED
  BY <1>2, <1>4, <1>7, <1>8 DEF IInv

LEMMA UpdatePutsIInv ==
    ASSUME IInv, NEW c \in Calls, UpdatePuts(c) PROVE IInv'
<1> DEFINE r == req[c]
           obj == EditObject(Fetched(c), r)
           m == PutRequest(r.cal, obj)
<1>1. /\ GetReadable(c) /\ r.op = "update" /\ r.clear \subseteq Clearable(r.kind)
      /\ held' = [held EXCEPT ![c] = obj] /\ wire' = [wire EXCEPT ![c] = m]
      /\ phase' = [phase EXCEPT ![c] = "write"]
      /\ UNCHANGED <<server, req, answer, base, applied>>
  BY DEF UpdatePuts
<1>2. /\ phase[c] = "get" /\ applied[c] = 0
      /\ base[c] # None /\ Readable(base[c], r.kind)
      /\ Fetched(c) \in ObjectsOf(r.kind) /\ Fetched(c).href = HrefOf(c)
      /\ Fetched(c).etag = wire[c].etag
      /\ Fetched(c).uid = Parse(base[c]).uid
      /\ Fetched(c).fields = Parse(base[c]).fields
      /\ (SendsEtag => Guards(c, wire[c].etag))
      /\ Parse(base[c]) \in ObjectsOf(r.kind)
  BY <1>1, FetchedType
<1>3. /\ r.kind \in Kinds /\ r \in RequestsOf(r.kind) /\ r # None /\ r.uid # None
      /\ r.cal \in Calendars /\ HrefOf(c) \in Hrefs
  BY <1>2, StartedType
<1>4. /\ obj \in ObjectsOf(r.kind) /\ obj.href = HrefOf(c) /\ obj.etag = wire[c].etag
  BY <1>2, <1>3, EditType
<1>5. obj \in Objects /\ obj # None /\ m \in Messages
  BY <1>3, <1>4, KindsAreObjects, NoneAssumption, PutType
<1>6. Build(obj) = EditedDoc(base[c], r)
  BY <1>2, <1>3, BuildFetched DEF EditedDoc
<1>7. HrefOf(c) # None
  BY <1>3, NoneAssumption
<1>8. /\ m.method = "PUT" /\ m.href = HrefOf(c) /\ m.doc = Build(obj)
      /\ m.ifMatch = wire[c].etag
  BY <1>4, <1>7 DEF PutRequest, PutHref
<1> HIDE DEF obj, m
<1>9. TypeOK'
  BY <1>1, <1>5 DEF IInv, TypeOK, server, Phases
<1>10. /\ held'[c] = obj /\ wire'[c] = m /\ phase'[c] = "write" /\ req'[c] = r
       /\ answer'[c] = answer[c] /\ base'[c] = base[c] /\ applied'[c] = 0
       /\ WriteInFlight(c)' /\ HrefOf(c)' = HrefOf(c)
  BY <1>1, <1>2, <1>8 DEF IInv, TypeOK, WriteInFlight, HrefOf
<1>11. answer[c] = "none"
  BY <1>2 DEF IInv, CallInv, PhaseInv
<1>12. \A etag : Guards(c, etag)' = Guards(c, etag)
  BY <1>1, <1>10 DEF Guards, server
<1>13. CallInv(c)'
  <2>1. PhaseInv(c)'
    BY <1>1, <1>3, <1>8, <1>10, <1>11 DEF PhaseInv, Writes
  <2>2. OutcomeInv(c)'
    BY <1>8, <1>10, <1>11 DEF OutcomeInv
  <2>3. ReadInv(c)' /\ WriteInv(c)'
    BY <1>1, <1>2, <1>8, <1>10, <1>11, <1>12
    DEF ReadInv, WriteInv, Refusals, Errors, ErrorStatus
  <2>4. Editable(base[c], r)
    BY <1>1, <1>2 DEF Editable
  <2>5. HeldInv(c)'
    BY <1>1, <1>2, <1>5, <1>6, <1>10, <2>4 DEF HeldInv
  <2> QED
    BY <2>1, <2>2, <2>3, <2>5 DEF CallInv
<1>14. ASSUME NEW d \in Calls, d # c PROVE CallInv(d)'
  BY <1>1, <1>14, FrameCall DEF IInv, TypeOK, Same
<1>15. MintInv' /\ \A h \in Hrefs : version'[h] <= clock'
  BY <1>1, MintFrame DEF IInv, server
<1> QED
  BY <1>9, <1>13, <1>14, <1>15 DEF IInv

-----------------------------------------------------------------------------
(***************************************************************************)
(* The inductive invariant: the server and the other clients.              *)
(***************************************************************************)

\* What an answer says of a call that waits for it keeps the call's invariant.
LEMMA ReplyCallInv ==
    ASSUME IInv, NEW c \in Calls, wire[c].method \in {"GET", "PUT", "DELETE", "response"},
           NEW status \in ErrorStatus \cup {"ok"}, NEW doc, NEW etag,
           Reply(c, status, doc, etag),
           UNCHANGED <<req, phase, answer, held>>,
           phase[c] = "get" =>
             /\ applied'[c] = 0
             /\ status = "ok" => base'[c] # None /\ doc = base'[c]
             /\ status = "ok" /\ SendsEtag => Guards(c, etag)'
             /\ status \in Refusals => base'[c] = None,
           phase[c] # "get" => base'[c] = base[c],
           phase[c] = "write" =>
             IF status = "ok" THEN applied'[c] = 1
                              ELSE status = "server_error" \/ applied'[c] = 0,
           applied'[c] <= 1,
           req[c].op = "get" => applied'[c] = 0
    PROVE  CallInv(c)'
<1>1. CallInv(c) /\ phase[c] # "idle"
  BY DEF IInv, CallInv, PhaseInv, Nothing
<1>2. req[c] # None /\ req[c].uid # None /\ phase[c] \in Phases
  BY <1>1, StartedType DEF IInv, TypeOK
<1>3. wire'[c] = IF phase[c] = "done" THEN Nothing ELSE Response(status, doc, etag)
  BY DEF Reply, IInv, TypeOK
<1>4. ~WriteInFlight(c)'
  BY <1>3 DEF WriteInFlight, Nothing, Response
<1>5. answer[c] # "none" => phase[c] = "done" /\ answer[c] = "timeout"
  BY <1>1 DEF CallInv, PhaseInv, Nothing
<1>6. answer[c] # "ok" /\ answer[c] \notin Refusals
  BY <1>5 DEF Refusals, Errors, ErrorStatus
<1>7. PhaseInv(c)'
  BY <1>1, <1>2, <1>3, <1>4 DEF CallInv, PhaseInv, Response
<1>8. OutcomeInv(c)'
  BY <1>3, <1>4, <1>6 DEF OutcomeInv, Response
<1>9. ReadInv(c)' /\ WriteInv(c)'
  BY <1>3, <1>6 DEF ReadInv, WriteInv, Response, Nothing
<1>10. HeldInv(c)'
  <2>1. CASE phase[c] = "get"
    BY <1>4, <1>6, <2>1 DEF HeldInv
  <2>2. CASE phase[c] # "get"
    <3>1. phase[c] = "write" \/ WriteInFlight(c)
      BY <1>1, <1>2, <2>2 DEF CallInv, PhaseInv, Phases, Nothing
    <3>2. HeldInv(c) /\ base'[c] = base[c]
      BY <1>1, <2>2 DEF CallInv
    <3> QED
      BY <3>1, <3>2 DEF HeldInv
  <2> QED
    BY <2>1, <2>2
<1> QED
  BY <1>7, <1>8, <1>9, <1>10 DEF CallInv

\* A request in flight or an answer belongs to a call that has started.
LEMMA WireStarted ==
    ASSUME IInv, NEW c \in Calls, wire[c].method \in {"GET", "PUT", "DELETE", "response"}
    PROVE  /\ phase[c] # "idle" /\ CallInv(c)
           /\ req[c] # None /\ req[c].uid # None /\ HrefOf(c) \in Hrefs
           /\ req[c].op \in Ops
           /\ wire[c].method = "GET" => phase[c] = "get" /\ wire[c].href = HrefOf(c)
           /\ wire[c].method \in {"PUT", "DELETE"} =>
                phase[c] # "get" /\ wire[c].href = HrefOf(c) /\ applied[c] = 0
                /\ req[c].op \in Writes /\ req[c].op # "get"
<1>1. phase[c] # "idle" /\ CallInv(c)
  BY DEF IInv, CallInv, PhaseInv, Nothing
<1>2. req[c] # None /\ req[c].uid # None /\ HrefOf(c) \in Hrefs /\ phase[c] \in Phases
      /\ req[c].op \in Ops
  BY <1>1, StartedType DEF IInv, TypeOK
<1>3. wire[c].method = "GET" => phase[c] = "get" /\ wire[c].href = HrefOf(c)
  BY <1>1, <1>2 DEF CallInv, PhaseInv, ReadInv, WriteInFlight, Phases, Nothing
<1>4. wire[c].method \in {"PUT", "DELETE"} =>
        phase[c] # "get" /\ wire[c].href = HrefOf(c) /\ applied[c] = 0
        /\ req[c].op \in Writes /\ req[c].op # "get"
  BY <1>1 DEF CallInv, PhaseInv, OutcomeInv, WriteInv, WriteInFlight, Writes
<1> QED
  BY <1>1, <1>2, <1>3, <1>4

LEMMA ServeGetIInv ==
    ASSUME IInv, NEW c \in Calls, ServeGet(c) PROVE IInv'
<1> DEFINE h == HrefOf(c)
<1> PICK etag : etag = IF SendsEtag THEN version[h] ELSE None
  OBVIOUS
<1> PICK doc : doc = store[h]
  OBVIOUS
<1>1. /\ wire[c].method = "GET" /\ phase[c] = "get" /\ wire[c].href = h
      /\ h \in Hrefs /\ CallInv(c) /\ req[c] # None /\ req[c].uid # None
  BY WireStarted DEF ServeGet
<1>2. /\ UNCHANGED <<server, req, phase, answer, held, applied>>
      /\ \/ store[h] = None /\ Reply(c, "not_found", None, None) /\ base' = base
         \/ /\ store[h] # None /\ Reply(c, "ok", doc, etag)
            /\ base' = [base EXCEPT ![c] = doc]
  BY <1>1 DEF ServeGet
<1>3. base[c] = None /\ applied[c] = 0
  BY <1>1 DEF CallInv, ReadInv, OutcomeInv
<1>4. doc \in Docs \cup {None} /\ etag \in Etags /\ version[h] \in Nat
      /\ version[h] <= clock
  BY <1>1 DEF IInv, TypeOK, Etags
<1>5. TypeOK'
  <2>1. wire' \in [Calls -> Messages]
    BY <1>2, <1>4, ReplyType DEF IInv, ErrorStatus, Etags
  <2>2. base' \in [Calls -> Docs \cup {None}]
    BY <1>2, <1>4 DEF IInv, TypeOK
  <2> QED
    BY <1>2, <2>1, <2>2 DEF IInv, TypeOK, server
<1>6. CallInv(c)'
  <2>1. CASE store[h] = None
    <3> DEFINE status == "not_found"
    <3>1. status \in ErrorStatus \cup {"ok"} /\ status # "ok"
      BY DEF ErrorStatus
    <3>2. Reply(c, status, None, None) /\ base' = base
      BY <1>2, <2>1
    <3> HIDE DEF status
    <3> QED
      BY <1>1, <1>2, <1>3, <3>1, <3>2, ReplyCallInv
  <2>2. CASE store[h] # None
    <3>1. base'[c] = doc /\ HrefOf(c)' = h
      BY <1>2, <2>2 DEF IInv, TypeOK, HrefOf
    <3>2. SendsEtag => Guards(c, etag)'
      BY <1>2, <1>4, <3>1 DEF Guards, server
    <3>3. "ok" \notin Refusals
      BY DEF Refusals, Errors, ErrorStatus
    <3> DEFINE status == "ok"
    <3>4. status \in ErrorStatus \cup {"ok"} /\ status = "ok" /\ status \notin Refusals
          /\ Reply(c, status, doc, etag)
      BY <1>2, <2>2, <3>3
    <3> HIDE DEF status
    <3> QED
      BY <1>1, <1>2, <1>3, <2>2, <3>1, <3>2, <3>4, ReplyCallInv
  <2> QED
    BY <2>1, <2>2
<1>7. ASSUME NEW d \in Calls, d # c PROVE CallInv(d)' /\ base'[d] = base[d]
  BY <1>2, <1>7, FrameCall DEF IInv, TypeOK, Same, Reply
<1>8. MintInv'
  <2>1. ASSUME NEW g, CreatedAt(g) PROVE CreatedAt(g)'
    BY <1>2, <2>1 DEF CreatedAt, HrefOf
  <2>2. ASSUME NEW d \in Calls, base'[d] # None, req'[d].uid \in FreshUids
        PROVE  CreatedAt(HrefOf(d))'
    <3>1. HrefOf(d)' = HrefOf(d) /\ req'[d] = req[d]
      BY <1>2 DEF HrefOf
    <3>2. CASE d = c /\ base'[c] # base[c]
      <4>1. store[h] # None /\ h[2] = req[c].uid
        BY <1>2, <3>2 DEF HrefOf, ObjectHref
      <4> QED
        BY <1>1, <2>1, <2>2, <3>1, <3>2, <4>1 DEF IInv, MintInv
    <3>3. CASE base'[d] = base[d]
      BY <2>1, <2>2, <3>1, <3>3 DEF IInv, MintInv
    <3> QED
      BY <1>7, <3>2, <3>3
  <2> QED
    BY <1>2, <2>1, <2>2 DEF IInv, MintInv, server
<1>9. \A g \in Hrefs : version'[g] <= clock'
  BY <1>2 DEF IInv, server
<1> QED
  BY <1>5, <1>6, <1>7, <1>8, <1>9 DEF IInv

\* An answer that stands for no change of the store.
LEMMA ErrorReplyIInv ==
    ASSUME IInv, NEW c \in Calls,
           NEW status \in ErrorStatus, Reply(c, status, None, None),
           UNCHANGED <<server, req, phase, answer, held, base, applied>>,
           \/ wire[c].method \in {"GET", "PUT", "DELETE"}
           \/ wire[c].method = "response" /\ status = "server_error"
    PROVE  IInv'
<1>1. wire[c].method \in {"GET", "PUT", "DELETE", "response"}
  OBVIOUS
<1>2. CallInv(c) /\ phase[c] # "idle" /\ req[c] # None
  BY <1>1, WireStarted
<1>3. TypeOK'
  <2>1. wire' \in [Calls -> Messages]
    BY ReplyType DEF IInv, Etags
  <2> QED
    BY <2>1 DEF IInv, TypeOK, server
<1>4. status # "ok" /\ "server_error" \notin Refusals
  BY DEF ErrorStatus, Refusals
<1>5. CallInv(c)'
  <2>1. applied[c] <= 1 /\ (req[c].op = "get" => applied[c] = 0)
    BY <1>2 DEF CallInv, OutcomeInv
  <2>2. phase[c] = "get" => applied[c] = 0 /\ (status \in Refusals => base[c] = None)
    BY <1>1, <1>2, <1>4, WireStarted DEF CallInv, OutcomeInv, ReadInv
  <2>3. phase[c] = "write" => status = "server_error" \/ applied[c] = 0
    BY <1>1, <1>2, WireStarted DEF CallInv, OutcomeInv
  <2> QED
    BY <1>1, <1>4, <2>1, <2>2, <2>3, ReplyCallInv
<1>6. ASSUME NEW d \in Calls, d # c PROVE CallInv(d)'
  BY <1>6, FrameCall DEF IInv, TypeOK, Same, Reply
<1>7. MintInv' /\ \A g \in Hrefs : version'[g] <= clock'
  BY MintFrame DEF IInv, server
<1> QED
  BY <1>3, <1>5, <1>6, <1>7 DEF IInv

LEMMA ServeErrorIInv ==
    ASSUME IInv, NEW c \in Calls, ServeError(c) \/ GatewayError(c) PROVE IInv'
<1>1. CASE ServeError(c)
  <2>1. PICK status \in {"client_error", "server_error"} : Reply(c, status, None, None)
    BY <1>1 DEF ServeError
  <2>2. status \in ErrorStatus
    BY DEF ErrorStatus
  <2> QED
    BY <1>1, <2>1, <2>2, ErrorReplyIInv DEF ServeError
<1>2. CASE GatewayError(c)
  <2> DEFINE status == "server_error"
  <2>1. status \in ErrorStatus
    BY DEF ErrorStatus
  <2>2. Reply(c, status, None, None) /\ wire[c].method = "response"
        /\ UNCHANGED <<server, req, phase, answer, held, base, applied>>
    BY <1>2 DEF GatewayError
  <2> QED
    BY <2>1, <2>2, ErrorReplyIInv
<1> QED
  BY <1>1, <1>2

\* A call that is not a create, or one that creates, changes the store under
\* its own href: what was created stays created.
LEMMA AppliedFrame ==
    ASSUME IInv, NEW c \in Calls, applied[c] = 0, req[c] # None,
           UNCHANGED <<req, phase, answer, held, base>>,
           applied' = [applied EXCEPT ![c] = applied[c] + 1],
           \A d \in Calls \ {c} : wire'[d] = wire[d]
    PROVE  /\ applied'[c] = 1
           /\ \A d \in Calls \ {c} : Same(d)
           /\ \A g : CreatedAt(g) => CreatedAt(g)'
           /\ \A d \in Calls : base'[d] # None /\ req'[d].uid \in FreshUids
                                 => CreatedAt(HrefOf(d))'
<1>1. applied'[c] = 1 /\ \A d \in Calls \ {c} : Same(d)
  BY DEF IInv, TypeOK, Same
<1>2. ASSUME NEW g, CreatedAt(g) PROVE CreatedAt(g)'
  BY <1>1, <1>2 DEF CreatedAt, HrefOf, Same
<1>3. ASSUME NEW d \in Calls, base'[d] # None, req'[d].uid \in FreshUids
      PROVE  CreatedAt(HrefOf(d))'
  BY <1>2, <1>3 DEF IInv, MintInv, HrefOf
<1> QED
  BY <1>1, <1>2, <1>3

LEMMA ServePutIInv ==
    ASSUME IInv, NEW c \in Calls, ServePut(c) PROVE IInv'
<1> DEFINE h == HrefOf(c)
           put == wire[c]
<1>1. /\ put.method = "PUT" /\ phase[c] # "get" /\ phase[c] # "idle" /\ put.href = h
      /\ h \in Hrefs /\ CallInv(c) /\ req[c] # None /\ applied[c] = 0
      /\ req[c].op \in {"create", "update"} /\ req[c].uid # None
  BY WireStarted DEF ServePut, CallInv, WriteInv
<1>2. UNCHANGED <<req, phase, answer, held, base>>
  BY DEF ServePut
<1>3. CASE ~Matches(put)
  <2> DEFINE status == "precondition_failed"
  <2>1. status \in ErrorStatus
    BY DEF ErrorStatus
  <2>2. Reply(c, status, None, None) /\ UNCHANGED <<server, applied>>
    BY <1>3 DEF ServePut
  <2> HIDE DEF status
  <2> QED
    BY <1>1, <1>2, <2>1, <2>2, ErrorReplyIInv
<1>4. CASE Matches(put)
  <2>1. /\ store' = [store EXCEPT ![h] = put.doc]
        /\ version' = [version EXCEPT ![h] = clock + 1]
        /\ clock' = clock + 1
        /\ applied' = [applied EXCEPT ![c] = applied[c] + 1]
        /\ Reply(c, "ok", None, None)
    BY <1>1, <1>4 DEF ServePut
  <2>2. put.doc \in Docs
    BY <1>1 DEF IInv, TypeOK, Messages, Nothing
  <2>3. TypeOK'
    <3> DEFINE status == "ok"
    <3>0. status \in ErrorStatus \cup {"ok"} /\ Reply(c, status, None, None)
      BY <2>1
    <3> HIDE DEF status
    <3>1. wire' \in [Calls -> Messages]
      BY <3>0, ReplyType DEF IInv, Etags
    <3>2. store' \in [Hrefs -> Docs \cup {None}]
      BY <2>1, <2>2 DEF IInv, TypeOK
    <3>3. clock' \in Nat /\ version' \in [Hrefs -> Nat]
      <4>1. clock \in Nat /\ version \in [Hrefs -> Nat]
        BY DEF IInv, TypeOK
      <4>2. clock' = clock + 1 /\ version' = [version EXCEPT ![h] = clock + 1]
        BY <2>1
      <4>3. clock' \in Nat
        BY <4>1, <4>2
      <4> HIDE DEF h
      <4> QED
        BY <4>1, <4>2, <4>3
    <3>4. applied' \in [Calls -> Nat]
      BY <2>1 DEF IInv, TypeOK
    <3> QED
      BY <1>2, <3>1, <3>2, <3>3, <3>4 DEF IInv, TypeOK
  <2>4. \A d \in Calls \ {c} : wire'[d] = wire[d]
    BY <2>1 DEF IInv, TypeOK, Reply
  <2>5. /\ applied'[c] = 1
        /\ \A d \in Calls \ {c} : Same(d)
        /\ \A g : CreatedAt(g) => CreatedAt(g)'
        /\ \A d \in Calls : base'[d] # None /\ req'[d].uid \in FreshUids
                              => CreatedAt(HrefOf(d))'
    BY <1>1, <1>2, <2>1, <2>4, AppliedFrame
  <2>6. CallInv(c)'
    <3>1. /\ base'[c] = base[c] /\ req[c].op # "get" /\ phase[c] # "get"
          /\ applied'[c] = 1 /\ wire[c].method \in {"GET", "PUT", "DELETE", "response"}
      BY <1>1, <1>2, <2>5
    <3> DEFINE status == "ok"
    <3>2. status \in ErrorStatus \cup {"ok"} /\ Reply(c, status, None, None)
          /\ status = "ok"
      BY <2>1
    <3> HIDE DEF status
    <3> QED
      BY <1>2, <3>1, <3>2, ReplyCallInv
  <2>7. ASSUME NEW d \in Calls, d # c PROVE CallInv(d)'
    <3>1. Same(d) /\ CallInv(d)
      BY <2>5, <2>7 DEF IInv
    <3>2. ASSUME req[d] # None
          PROVE  \A etag : Guards(d, etag) => Guards(d, etag)'
      <4>1. req[d].uid # None
        BY <3>1, <3>2 DEF CallInv, PhaseInv
      <4> QED
        BY <1>1, <2>1, <3>1, <3>2, <4>1, GuardsKept DEF IInv
    <3> QED
      BY <3>1, <3>2, FrameServer
  <2>8. MintInv'
    <3>1. ASSUME NEW g \in Hrefs, store'[g] # None, g[2] \in FreshUids
          PROVE  CreatedAt(g)'
      <4>1. CASE g # h
        BY <2>1, <2>5, <3>1, <4>1 DEF IInv, MintInv, TypeOK
      <4>2. CASE g = h /\ req[c].op = "create"
        BY <1>1, <1>2, <2>5, <4>2 DEF CreatedAt, HrefOf
      <4>3. CASE g = h /\ req[c].op = "update"
        <5>1. base[c] # None
          BY <1>1, <4>3 DEF CallInv, HeldInv, WriteInFlight
        <5>2. req[c].uid \in FreshUids
          BY <3>1, <4>3 DEF HrefOf, ObjectHref
        <5> QED
          BY <1>2, <2>5, <4>3, <5>1, <5>2 DEF IInv, MintInv
      <4> QED
        BY <1>1, <4>1, <4>2, <4>3
    <3> QED
      BY <1>2, <2>5, <3>1 DEF IInv, MintInv
  <2>9. \A g \in Hrefs : version'[g] <= clock'
    BY <1>1, <2>1, VersionsKept DEF IInv
  <2> QED
    BY <2>3, <2>6, <2>7, <2>8, <2>9 DEF IInv
<1> QED
  BY <1>3, <1>4

LEMMA ServeDeleteIInv ==
    ASSUME IInv, NEW c \in Calls, ServeDelete(c) PROVE IInv'
<1> DEFINE h == HrefOf(c)
<1>1. /\ wire[c].method = "DELETE" /\ phase[c] # "get" /\ phase[c] # "idle"
      /\ wire[c].href = h /\ h \in Hrefs /\ CallInv(c) /\ req[c] # None
      /\ applied[c] = 0 /\ req[c].op # "get" /\ req[c].uid # None
  BY WireStarted DEF ServeDelete
<1>2. UNCHANGED <<version, clock, req, phase, answer, held, base>>
  BY DEF ServeDelete
<1>3. CASE store[h] = None
  <2> DEFINE status == "not_found"
  <2>1. status \in ErrorStatus
    BY DEF ErrorStatus
  <2>2. Reply(c, status, None, None) /\ UNCHANGED <<server, applied>>
    BY <1>1, <1>2, <1>3 DEF ServeDelete, server
  <2> HIDE DEF status
  <2> QED
    BY <1>1, <1>2, <2>1, <2>2, ErrorReplyIInv
<1>4. CASE store[h] # None
  <2> DEFINE status == "ok"
  <2>1. /\ store' = [store EXCEPT ![h] = None]
        /\ applied' = [applied EXCEPT ![c] = applied[c] + 1]
        /\ Reply(c, status, None, None) /\ status = "ok"
        /\ status \in ErrorStatus \cup {"ok"}
    BY <1>1, <1>4 DEF ServeDelete
  <2> HIDE DEF status
  <2>2. TypeOK'
    <3>1. wire' \in [Calls -> Messages]
      BY <2>1, ReplyType DEF IInv, Etags
    <3>2. store' \in [Hrefs -> Docs \cup {None}]
      BY <2>1 DEF IInv, TypeOK
    <3>3. applied' \in [Calls -> Nat]
      BY <2>1 DEF IInv, TypeOK
    <3> QED
      BY <1>2, <3>1, <3>2, <3>3 DEF IInv, TypeOK
  <2>3. \A d \in Calls \ {c} : wire'[d] = wire[d]
    BY <2>1 DEF IInv, TypeOK, Reply
  <2>4. /\ applied'[c] = 1
        /\ \A d \in Calls \ {c} : Same(d)
        /\ \A g : CreatedAt(g) => CreatedAt(g)'
        /\ \A d \in Calls : base'[d] # None /\ req'[d].uid \in FreshUids
                              => CreatedAt(HrefOf(d))'
    BY <1>1, <1>2, <2>1, <2>3, AppliedFrame
  <2>5. CallInv(c)'
    <3>1. /\ base'[c] = base[c] /\ req[c].op # "get" /\ phase[c] # "get"
          /\ applied'[c] = 1 /\ wire[c].method \in {"GET", "PUT", "DELETE", "response"}
      BY <1>1, <1>2, <2>4
    <3> QED
      BY <1>2, <2>1, <3>1, ReplyCallInv
  <2>6. ASSUME NEW d \in Calls, d # c PROVE CallInv(d)'
    <3>1. Same(d) /\ CallInv(d)
      BY <2>4, <2>6 DEF IInv
    <3>2. ASSUME req[d] # None
          PROVE  \A etag : Guards(d, etag) => Guards(d, etag)'
      <4>1. req[d].uid # None
        BY <3>1, <3>2 DEF CallInv, PhaseInv
      <4> QED
        BY <1>1, <1>2, <2>1, <3>1, <3>2, <4>1, GuardsKept DEF IInv
    <3> QED
      BY <3>1, <3>2, FrameServer
  <2>7. MintInv'
    <3>1. ASSUME NEW g \in Hrefs, store'[g] # None PROVE store[g] # None
      BY <2>1, <3>1 DEF IInv, TypeOK
    <3> QED
      BY <1>2, <2>4, <3>1 DEF IInv, MintInv
  <2>8. \A g \in Hrefs : version'[g] <= clock'
    BY <1>2 DEF IInv
  <2> QED
    BY <2>2, <2>5, <2>6, <2>7, <2>8 DEF IInv
<1> QED
  BY <1>3, <1>4

\* Another client's change of the store.
LEMMA OtherIInv ==
    ASSUME IInv, NEW h \in Hrefs, NEW doc \in Docs \cup {None},
           store' = [store EXCEPT ![h] = doc],
           \/ /\ version' = [version EXCEPT ![h] = clock + 1]
              /\ clock' = clock + 1
           \/ doc = None /\ UNCHANGED <<version, clock>>,
           doc # None /\ h[2] \in FreshUids => store[h] # None,
           UNCHANGED <<req, phase, wire, answer, held, base, applied>>
    PROVE  IInv'
<1>1. clock \in Nat /\ version \in [Hrefs -> Nat] /\ store \in [Hrefs -> Docs \cup {None}]
  BY DEF IInv, TypeOK
<1>2. clock' \in Nat
  BY <1>1
<1>3. version' \in [Hrefs -> Nat]
  BY <1>1, <1>2
<1>4. store' \in [Hrefs -> Docs \cup {None}]
  BY <1>1
<1>5. TypeOK'
  BY <1>2, <1>3, <1>4 DEF IInv, TypeOK
<1>6. ASSUME NEW d \in Calls PROVE CallInv(d)'
  <2>1. Same(d) /\ CallInv(d)
    BY DEF Same, IInv
  <2>2. ASSUME req[d] # None
        PROVE  \A etag : Guards(d, etag) => Guards(d, etag)'
    <3>1. req[d].uid # None
      BY <2>1, <2>2 DEF CallInv, PhaseInv
    <3> QED
      BY <2>1, <2>2, <3>1, GuardsKept DEF IInv
  <2> QED
    BY <2>1, <2>2, FrameServer
<1>7. MintInv'
  <2>1. ASSUME NEW g, CreatedAt(g) PROVE CreatedAt(g)'
    BY <2>1 DEF CreatedAt, HrefOf
  <2>2. ASSUME NEW g \in Hrefs, store'[g] # None, g[2] \in FreshUids
        PROVE  store[g] # None
    BY <1>1, <2>2
  <2>3. ASSUME NEW d \in Calls, base'[d] # None, req'[d].uid \in FreshUids
        PROVE  CreatedAt(HrefOf(d))'
    BY <2>1, <2>3 DEF IInv, MintInv, HrefOf
  <2> QED
    BY <2>1, <2>2, <2>3 DEF IInv, MintInv
<1>8. \A g \in Hrefs : version'[g] <= clock'
  BY VersionsKept DEF IInv
<1> QED
  BY <1>5, <1>6, <1>7, <1>8 DEF IInv

LEMMA NextIInv == IInv /\ [Next]_vars => IInv'
<1> SUFFICES ASSUME IInv, [Next]_vars PROVE IInv'
  OBVIOUS
<1>1. ASSUME NEW c \in Calls, CallGet(c) \/ CallCreate(c) \/ CallDelete(c) PROVE IInv'
  BY <1>1, CallGetIInv, CallCreateIInv, CallDeleteIInv
<1>2. ASSUME NEW c \in Calls, ClientStep(c) PROVE IInv'
  BY <1>2, HttpFailsIInv, GetUnreadableIInv, GetAnswersIInv, UpdateRejectedIInv,
     UpdatePutsIInv, WriteAnswersIInv, GiveUpIInv DEF ClientStep
<1>3. ASSUME NEW c \in Calls, ServerStep(c) PROVE IInv'
  BY <1>3, ServeGetIInv, ServePutIInv, ServeDeleteIInv, ServeErrorIInv DEF ServerStep
<1>4. CASE OtherPut
  <2>1. PICK h \in Hrefs, doc \in OtherDocs :
          /\ h[2] \in FreshUids => store[h] # None
          /\ store' = [store EXCEPT ![h] = doc]
          /\ version' = [version EXCEPT ![h] = clock + 1]
    BY <1>4 DEF OtherPut
  <2>2. doc \in Docs
    BY RequestsAssumption
  <2>3. clock' = clock + 1 /\ UNCHANGED <<req, phase, wire, answer, held, base, applied>>
    BY <1>4 DEF OtherPut
  <2> QED
    BY <2>1, <2>2, <2>3, OtherIInv
<1>5. CASE OtherDelete
  <2>1. PICK h \in Hrefs : store' = [store EXCEPT ![h] = None]
    BY <1>5 DEF OtherDelete
  <2>2. UNCHANGED <<version, clock, req, phase, wire, answer, held, base, applied>>
    BY <1>5 DEF OtherDelete
  <2> QED
    BY <2>1, <2>2, OtherIInv
<1>6. CASE UNCHANGED vars
  <2>1. UNCHANGED <<server, req, phase, wire, answer, held, base, applied>>
    BY <1>6 DEF vars, server
  <2>2. TypeOK' /\ MintInv' /\ \A g \in Hrefs : version'[g] <= clock'
    BY <2>1, MintFrame DEF IInv, TypeOK, server
  <2>3. ASSUME NEW d \in Calls PROVE CallInv(d)'
    BY <2>1, FrameCall DEF IInv, Same
  <2> QED
    BY <2>2, <2>3 DEF IInv
<1> QED
  BY <1>1, <1>2, <1>3, <1>4, <1>5, <1>6 DEF Next

\* IInv holds in every reachable state.
THEOREM Invariance == Spec => []IInv
BY InitIInv, NextIInv, PTL DEF Spec

-----------------------------------------------------------------------------
(***************************************************************************)
(* What follows from the invariant.                                        *)
(***************************************************************************)

\* Type correctness of the calls, the messages in flight and the store.
THEOREM TypeCorrect == Spec => []TypeOK
<1>1. IInv => TypeOK
  BY DEF IInv
<1> QED
  BY <1>1, Invariance, PTL

\* A tool that reports success wrote exactly once, a tool that reports a
\* refusal wrote nothing and never will, no tool writes twice.
THEOREM TruthfulAnswers == Spec => []AnswersTellTheTruth
<1>1. IInv => AnswersTellTheTruth
  <2> SUFFICES ASSUME IInv, NEW c \in Calls
               PROVE  /\ req[c] # None /\ req[c].op \in Writes /\ answer[c] = "ok"
                           => applied[c] = 1
                      /\ answer[c] \in Refusals => applied[c] = 0 /\ ~WriteInFlight(c)
                      /\ applied[c] <= 1
    BY DEF AnswersTellTheTruth
  <2>1. PhaseInv(c) /\ OutcomeInv(c)
    BY DEF IInv, CallInv
  <2>2. answer[c] \in Refusals => answer[c] # "timeout" /\ phase[c] = "done"
    BY <2>1 DEF PhaseInv, Refusals, Errors, ErrorStatus
  <2>3. answer[c] \in Refusals => ~WriteInFlight(c)
    BY <2>1, <2>2 DEF PhaseInv, WriteInFlight, Nothing
  <2> QED
    BY <2>1, <2>3 DEF OutcomeInv
<1> QED
  BY <1>1, Invariance, PTL

\* The only steps that count as a call's change of the store.
LEMMA ChangeStep ==
    ASSUME IInv, [Next]_vars, NEW c \in Calls, applied'[c] # applied[c]
    PROVE  \/ ServePut(c) /\ Matches(wire[c])
           \/ ServeDelete(c) /\ req[c].op = "delete"
<1>1. ASSUME NEW d \in Calls, ServePut(d), Matches(wire[d]) PROVE d = c
  BY <1>1 DEF IInv, TypeOK, ServePut
<1>2. ASSUME NEW d \in Calls, ServeDelete(d) PROVE d = c /\ req[c].op = "delete"
  <2>1. d = c
    BY <1>2 DEF IInv, TypeOK, ServeDelete
  <2> QED
    BY <1>2, <2>1 DEF IInv, CallInv, WriteInv, ServeDelete
<1>3. ASSUME NEW d \in Calls,
             CallGet(d) \/ CallCreate(d) \/ CallDelete(d) \/ ClientStep(d)
      PROVE  FALSE
  BY <1>3 DEF CallGet, CallCreate, CallDelete, ClientStep, Start, HttpFails,
     GetUnreadable, GetAnswers, UpdateRejected, UpdatePuts, WriteAnswers, GiveUp,
     Finish, Abandon
<1>4. ASSUME NEW d \in Calls, ServeGet(d) \/ ServeError(d) \/ GatewayError(d)
      PROVE  FALSE
  BY <1>4 DEF ServeGet, ServeError, GatewayError
<1>5. ~OtherPut /\ ~OtherDelete /\ ~UNCHANGED vars
  BY DEF OtherPut, OtherDelete, vars
<1>6. PICK d \in Calls : ServePut(d) \/ ServeDelete(d)
  BY <1>3, <1>4, <1>5 DEF Next, ServerStep
<1>7. ASSUME ServePut(d), ~Matches(wire[d]) PROVE FALSE
  BY <1>7 DEF ServePut
<1> QED
  BY <1>1, <1>2, <1>6, <1>7

\* A PUT that the server accepts: where, over what, and with what.
LEMMA PutStep ==
    ASSUME IInv, NEW c \in Calls, ServePut(c), Matches(wire[c])
    PROVE  /\ HrefOf(c) \in Hrefs /\ CallInv(c) /\ req[c] # None /\ applied[c] = 0
           /\ store' = [store EXCEPT ![HrefOf(c)] = Build(held[c])]
           /\ UNCHANGED <<req, base, answer, held, phase>>
           /\ req[c].op \in {"create", "update"}
           /\ applied' = [applied EXCEPT ![c] = applied[c] + 1]
           /\ req[c].op = "update" =>
                /\ base[c] # None /\ Editable(base[c], req[c])
                /\ Build(held[c]) = EditedDoc(base[c], req[c])
                /\ SendsEtag => store[HrefOf(c)] = base[c]
           /\ req[c].op = "create" =>
                /\ held[c] = NewObject(req[c], req[c].uid)
                /\ store[HrefOf(c)] = None
<1>1. /\ wire[c].method = "PUT" /\ wire[c].href = HrefOf(c) /\ HrefOf(c) \in Hrefs
      /\ CallInv(c) /\ req[c] # None /\ applied[c] = 0
      /\ wire[c].doc = Build(held[c]) /\ req[c].op \in {"create", "update"}
  BY WireStarted DEF ServePut, CallInv, WriteInv
<1>2. /\ store' = [store EXCEPT ![HrefOf(c)] = Build(held[c])]
      /\ UNCHANGED <<req, base, answer, held, phase>>
      /\ applied' = [applied EXCEPT ![c] = applied[c] + 1]
  BY <1>1 DEF ServePut
<1>3. req[c].op = "update" =>
        /\ base[c] # None /\ Editable(base[c], req[c])
        /\ Build(held[c]) = EditedDoc(base[c], req[c])
  BY <1>1 DEF CallInv, HeldInv, WriteInFlight
<1>4. ASSUME req[c].op = "update", SendsEtag PROVE store[HrefOf(c)] = base[c]
  <2>1. Guards(c, wire[c].ifMatch)
    BY <1>1, <1>4 DEF CallInv, WriteInv
  <2>2. wire[c].ifMatch # None
    BY <2>1, ValuesAssumption DEF Guards
  <2> QED
    BY <1>1, <2>1, <2>2 DEF Guards, Matches
<1>5. ASSUME req[c].op = "create"
      PROVE  held[c] = NewObject(req[c], req[c].uid) /\ store[HrefOf(c)] = None
  <2>1. held[c] = NewObject(req[c], req[c].uid)
    BY <1>1, <1>5 DEF CallInv, HeldInv, WriteInFlight
  <2>2. SUFFICES ASSUME store[HrefOf(c)] # None PROVE FALSE
    BY <2>1
  <2>3. req[c].uid \in FreshUids /\ HrefOf(c)[2] = req[c].uid
    BY <1>1, <1>5 DEF IInv, MintInv, HrefOf, ObjectHref
  <2>4. CreatedAt(HrefOf(c))
    BY <1>1, <2>2, <2>3 DEF IInv, MintInv
  <2>5. PICK d \in Calls : /\ req[d] # None /\ req[d].op = "create"
                           /\ HrefOf(d) = HrefOf(c) /\ applied[d] = 1
    BY <2>4 DEF CreatedAt
  <2>6. req[d].uid = req[c].uid
    BY <2>5 DEF HrefOf, ObjectHref
  <2> QED
    BY <1>1, <1>5, <2>5, <2>6 DEF IInv, MintInv
<1> QED
  BY <1>1, <1>2, <1>3, <1>4, <1>5

\* With ETags, an update replaces only the document it was made from.
THEOREM UpdatesAreGuarded == ASSUME SendsEtag PROVE Spec => NoLostUpdate
<1> DEFINE A == \A c \in Calls : Changes(c, "update") =>
                  \A h \in Hrefs : store'[h] # store[h] =>
                    h = HrefOf(c) /\ store[h] = base[c]
<1>1. IInv /\ [Next]_vars => [A]_vars
  <2> SUFFICES ASSUME IInv, [Next]_vars, NEW c \in Calls, Changes(c, "update"),
                      NEW h \in Hrefs, store'[h] # store[h]
               PROVE  h = HrefOf(c) /\ store[h] = base[c]
    OBVIOUS
  <2>1. ServePut(c) /\ Matches(wire[c]) /\ req[c].op = "update"
    BY ChangeStep DEF Changes
  <2> QED
    BY <2>1, PutStep DEF IInv, TypeOK
<1> QED
  BY <1>1, Invariance, PTL DEF Spec, NoLostUpdate

\* A create stores its object where there was none.
THEOREM CreatesAreNew == Spec => CreateNeverOverwrites
<1> DEFINE A == \A c \in Calls : Changes(c, "create") => store[HrefOf(c)] = None
<1>1. IInv /\ [Next]_vars => [A]_vars
  <2> SUFFICES ASSUME IInv, [Next]_vars, NEW c \in Calls, Changes(c, "create")
               PROVE  store[HrefOf(c)] = None
    OBVIOUS
  <2>1. ServePut(c) /\ Matches(wire[c]) /\ req[c].op = "create"
    BY ChangeStep DEF Changes
  <2> QED
    BY <2>1, PutStep
<1> QED
  BY <1>1, Invariance, PTL DEF Spec, CreateNeverOverwrites

\* What the edit of a readable document holds, field by field.
LEMMA EditedFields ==
    ASSUME NEW doc, NEW r, doc.kind = r.kind
    PROVE  /\ EditedDoc(doc, r).kind = r.kind /\ EditedDoc(doc, r).uid = doc.uid
           /\ \A f \in FieldsOf(r.kind) :
                EditedDoc(doc, r).fields[f] =
                  IF r.patch[f] # None THEN r.patch[f]
                  ELSE IF f \in r.clear THEN None
                  ELSE ReadField(doc, f)
<1> DEFINE o == Parse(doc)
           e == ClearFields(o, r.clear)
           p == ApplyPatch(e, r.patch)
<1>1. /\ o.kind = r.kind /\ o.uid = doc.uid
      /\ \A f \in FieldsOf(r.kind) : o.fields[f] = ReadField(doc, f)
      /\ o = [kind |-> o.kind, uid |-> o.uid, fields |-> o.fields,
              href |-> o.href, etag |-> o.etag]
  BY DEF Parse
<1>2. EditedDoc(doc, r) = Build(p)
  BY DEF EditedDoc, EditObject
<1> HIDE DEF o
<1>3. /\ e.kind = r.kind /\ e.uid = doc.uid
      /\ \A f \in FieldsOf(r.kind) :
           e.fields[f] = IF f \in r.clear THEN None ELSE ReadField(doc, f)
      /\ e = [kind |-> e.kind, uid |-> e.uid, fields |-> e.fields,
              href |-> e.href, etag |-> e.etag]
  BY <1>1 DEF ClearFields
<1> HIDE DEF e
<1>4. /\ p.kind = r.kind /\ p.uid = doc.uid
      /\ \A f \in FieldsOf(r.kind) :
           p.fields[f] = IF r.patch[f] # None THEN r.patch[f]
                         ELSE IF f \in r.clear THEN None ELSE ReadField(doc, f)
  BY <1>3 DEF ApplyPatch
<1> HIDE DEF p
<1> QED
  BY <1>2, <1>4 DEF Build

\* With ETags, the object an update leaves is the edit that was asked for of
\* the object it replaces, and no other object moves.
THEOREM UpdatesAreAsAsked == ASSUME SendsEtag PROVE Spec => UpdateIsWhatWasAsked
<1> DEFINE P(c) == LET h == HrefOf(c)
                       r == req[c]
                   IN \E d \in {store'[h]} :
                        /\ d # None /\ d.kind = r.kind /\ d.uid = store[h].uid
                        /\ \A f \in FieldsOf(r.kind) :
                             d.fields[f] = IF r.patch[f] # None THEN r.patch[f]
                                           ELSE IF f \in r.clear THEN None
                                           ELSE ReadField(store[h], f)
                        /\ \A g \in Hrefs \ {h} : store'[g] = store[g]
           A == \A c \in Calls : Changes(c, "update") => P(c)
<1>1. IInv /\ [Next]_vars => [A]_vars
  <2> SUFFICES ASSUME IInv, IInv', [Next]_vars, NEW c \in Calls, Changes(c, "update")
               PROVE  P(c)
    BY NextIInv
  <2>1. ServePut(c) /\ Matches(wire[c]) /\ req[c].op = "update"
    BY ChangeStep DEF Changes
  <2>2. /\ HrefOf(c) \in Hrefs /\ store' = [store EXCEPT ![HrefOf(c)] = Build(held[c])]
        /\ Editable(store[HrefOf(c)], req[c])
        /\ Build(held[c]) = EditedDoc(store[HrefOf(c)], req[c])
    BY <2>1, PutStep
  <2>3. /\ store'[HrefOf(c)] = EditedDoc(store[HrefOf(c)], req[c])
        /\ \A g \in Hrefs \ {HrefOf(c)} : store'[g] = store[g]
    BY <2>2 DEF IInv, TypeOK
  <2>4. store[HrefOf(c)].kind = req[c].kind
    BY <2>2 DEF Editable, Readable
  <2>5. store'[HrefOf(c)] # None
    <3>1. Build(held[c]) \in Docs
      BY <2>1 DEF ServePut, IInv, CallInv, WriteInv, TypeOK, Messages, Nothing
    <3> QED
      BY <2>2, <2>3, <3>1, NoneAssumption
  <2> QED
    BY <2>3, <2>4, <2>5, EditedFields
<1> QED
  BY <1>1, Invariance, PTL DEF Spec, UpdateIsWhatWasAsked
=============================================================================
