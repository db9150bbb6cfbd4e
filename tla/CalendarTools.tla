---------------------------- MODULE CalendarTools ----------------------------
(***************************************************************************)
(* The object tools of the MCP server (src/mcp/tools.rs) over the CalDAV   *)
(* client (src/caldav/client.rs): get, create, update and delete, of an    *)
(* event or a task.  Calls run concurrently, each as the sequence of HTTP  *)
(* exchanges its handler makes: get, create and delete make one, update    *)
(* makes a GET and then a PUT guarded by the ETag the GET returned.  The   *)
(* CalDAV server and the other clients of the account are external; they   *)
(* act between any two steps of a call.  A request can wait on the network *)
(* past the moment its call gave up, or be lost.                           *)
(***************************************************************************)
EXTENDS CalendarObjects

CONSTANTS
    Calls,      \* tool calls
    Requests,   \* what they may ask for
    FreshUids,  \* the UIDs new_uid() can return
    OtherDocs,  \* documents other clients store
    MaxClock,   \* bound: no other client writes once this many ETags are used
    SendsEtag   \* whether the server's GET answers carry an ETag header

ASSUME RequestsAssumption ==
    /\ \A r \in Requests : WellFormed(r)
    /\ FreshUids \subseteq Uids
    /\ OtherDocs \subseteq Docs
    /\ MaxClock \in Nat
    /\ SendsEtag \in BOOLEAN

VARIABLES
    store,     \* server: the document under each href, or None
    version,   \* server: the ETag of each href
    clock,     \* server: number of ETags issued
    req,       \* the request of each call, None before it starts
    phase,     \* where the call's handler is
    wire,      \* the HTTP request or response of the call in flight
    answer,    \* what the tool returned
    held,      \* the Event or Todo the handler holds, the content of an "ok" answer
    base,      \* history: the document the call's GET was answered with
    applied    \* history: how many times the call changed the store

server == <<store, version, clock>>
vars == <<store, version, clock, req, phase, wire, answer, held, base, applied>>

Phases == {"idle", "get", "write", "done"}

ErrorStatus == {"not_found", "precondition_failed", "client_error", "server_error"}

\* The errors a tool returns: those of an HTTP answer (Error::CalDav), no
\* answer at all (Error::Http), an unparseable document (Error::ICal), an
\* unknown name in clear (invalid_params).
Errors == ErrorStatus \cup {"timeout", "ical", "invalid_params"}

Nothing == [method |-> "none"]

GetRequest(href) == [method |-> "GET", href |-> href]

\* An object goes back to the href it was read from, a new one to the href
\* of its UID.
PutHref(cal, obj) ==
    IF obj.href # None THEN obj.href ELSE ObjectHref(cal, obj.uid)

\* A faulty variant of PutRequest: If-Match is never sent.
UnguardedPut(cal, obj) ==
    [method |-> "PUT", href |-> PutHref(cal, obj), ifMatch |-> None, doc |-> Build(obj)]

\* If-Match is the ETag the object was read with, if there is one.
PutRequest(cal, obj) ==
    [method |-> "PUT", href |-> PutHref(cal, obj), ifMatch |-> obj.etag, doc |-> Build(obj)]

DeleteRequest(href) == [method |-> "DELETE", href |-> href]

Response(status, doc, etag) ==
    [method |-> "response", status |-> status, doc |-> doc, etag |-> etag]

Etags == Nat \cup {None}

Messages ==
    {Nothing}
    \cup [method : {"GET"}, href : Hrefs]
    \cup [method : {"PUT"}, href : Hrefs, ifMatch : Etags, doc : Docs]
    \cup [method : {"DELETE"}, href : Hrefs]
    \cup [method : {"response"}, status : ErrorStatus \cup {"ok"},
          doc : Docs \cup {None}, etag : Etags]

HrefOf(c) == ObjectHref(req[c].cal, req[c].uid)

Init ==
    /\ store \in [Hrefs -> OtherDocs \cup {None}]
    /\ \A h \in Hrefs : h[2] \in FreshUids => store[h] = None
    /\ version = [h \in Hrefs |-> 0]
    /\ clock = 0
    /\ req = [c \in Calls |-> None]
    /\ phase = [c \in Calls |-> "idle"]
    /\ wire = [c \in Calls |-> Nothing]
    /\ answer = [c \in Calls |-> "none"]
    /\ held = [c \in Calls |-> None]
    /\ base = [c \in Calls |-> None]
    /\ applied = [c \in Calls |-> 0]

-----------------------------------------------------------------------------
(***************************************************************************)
(* A call starts.  Each handler sends its first HTTP request at once.      *)
(***************************************************************************)

\* A faulty variant of NewUids: UIDs are reused.
AnyUids == FreshUids

\* new_uid(): a UUID nobody holds yet.
NewUids == {u \in FreshUids : \A c \in Calls : req[c] # None => req[c].uid # u}

Start(c, r, p, obj, message) ==
    /\ phase[c] = "idle"
    /\ req' = [req EXCEPT ![c] = r]
    /\ phase' = [phase EXCEPT ![c] = p]
    /\ held' = [held EXCEPT ![c] = obj]
    /\ wire' = [wire EXCEPT ![c] = message]
    /\ UNCHANGED <<server, answer, base, applied>>

\* get_event, get_task, and the read with which update_* begins.
CallGet(c) ==
    \E r \in Requests :
      /\ r.op \in {"get", "update"}
      /\ Start(c, r, "get", None, GetRequest(ObjectHref(r.cal, r.uid)))

CallCreate(c) ==
    \E r \in Requests, u \in NewUids :
      /\ r.op = "create"
      /\ Start(c, [r EXCEPT !.uid = u], "write", NewObject(r, u),
               PutRequest(r.cal, NewObject(r, u)))

CallDelete(c) ==
    \E r \in Requests :
      /\ r.op = "delete"
      /\ Start(c, r, "write", None, DeleteRequest(ObjectHref(r.cal, r.uid)))

-----------------------------------------------------------------------------
(***************************************************************************)
(* A call receives the answer to the HTTP request it waits for.            *)
(***************************************************************************)

Received(c, p) == phase[c] = p /\ wire[c].method = "response"

Finish(c, a) ==
    /\ phase' = [phase EXCEPT ![c] = "done"]
    /\ wire' = [wire EXCEPT ![c] = Nothing]
    /\ answer' = [answer EXCEPT ![c] = a]
    /\ UNCHANGED <<server, req, base, applied>>

\* A faulty variant of Fetched: the object loses the href it was read from.
FetchedWithoutHref(c) == [Parse(wire[c].doc) EXCEPT !.etag = wire[c].etag]

\* What get_event and get_todo return: the parsed object, its href, and the
\* ETag of the answer, None when the header is missing.
Fetched(c) == [Parse(wire[c].doc) EXCEPT !.href = HrefOf(c), !.etag = wire[c].etag]

\* dav() turns a 4xx or 5xx answer into an error, in either phase.
HttpFails(c) ==
    /\ Received(c, "get") \/ Received(c, "write")
    /\ wire[c].status # "ok"
    /\ Finish(c, wire[c].status)
    /\ UNCHANGED held

GetUnreadable(c) ==
    /\ Received(c, "get")
    /\ wire[c].status = "ok"
    /\ ~Readable(wire[c].doc, req[c].kind)
    /\ Finish(c, "ical")
    /\ UNCHANGED held

GetReadable(c) ==
    /\ Received(c, "get")
    /\ wire[c].status = "ok"
    /\ Readable(wire[c].doc, req[c].kind)

GetAnswers(c) ==
    /\ GetReadable(c)
    /\ req[c].op = "get"
    /\ Finish(c, "ok")
    /\ held' = [held EXCEPT ![c] = Fetched(c)]

\* clear_fields() returns early on a name that cannot be cleared.
UpdateRejected(c) ==
    /\ GetReadable(c)
    /\ req[c].op = "update"
    /\ ~(req[c].clear \subseteq Clearable(req[c].kind))
    /\ Finish(c, "invalid_params")
    /\ UNCHANGED held

\* A faulty variant of UpdatePuts: an unknown name in clear is ignored.
UpdateIgnoresBadNames(c) ==
    /\ GetReadable(c)
    /\ req[c].op = "update"
    /\ LET obj == EditObject(Fetched(c), req[c])
       IN /\ held' = [held EXCEPT ![c] = obj]
          /\ wire' = [wire EXCEPT ![c] = PutRequest(req[c].cal, obj)]
    /\ phase' = [phase EXCEPT ![c] = "write"]
    /\ UNCHANGED <<server, req, answer, base, applied>>

\* The object is edited and sent back to the href it came from, guarded by
\* the ETag it came with; the handler keeps it, that ETag included, for its
\* answer.
UpdatePuts(c) ==
    /\ GetReadable(c)
    /\ req[c].op = "update"
    /\ req[c].clear \subseteq Clearable(req[c].kind)
    /\ LET obj == EditObject(Fetched(c), req[c])
       IN /\ held' = [held EXCEPT ![c] = obj]
          /\ wire' = [wire EXCEPT ![c] = PutRequest(req[c].cal, obj)]
    /\ phase' = [phase EXCEPT ![c] = "write"]
    /\ UNCHANGED <<server, req, answer, base, applied>>

\* A faulty variant of WriteAnswers: the status of the answer is ignored.
WriteAnswersAnyStatus(c) ==
    /\ Received(c, "write")
    /\ Finish(c, "ok")
    /\ UNCHANGED held

WriteAnswers(c) ==
    /\ Received(c, "write")
    /\ wire[c].status = "ok"
    /\ Finish(c, "ok")
    /\ UNCHANGED held

Abandon(c, a) ==
    /\ phase' = [phase EXCEPT ![c] = "done"]
    /\ answer' = [answer EXCEPT ![c] = a]
    /\ wire' = [wire EXCEPT ![c] = IF wire[c].method \in {"PUT", "DELETE"}
                                     THEN wire[c] ELSE Nothing]
    /\ UNCHANGED <<server, req, held, base, applied>>

\* Faulty variants of GiveUp: the timeout covers reads only; a timeout is
\* reported as a refusal of the request.
ReadsGiveUp(c) == phase[c] = "get" /\ Abandon(c, "timeout")

GiveUpAsRefused(c) == phase[c] \in {"get", "write"} /\ Abandon(c, "client_error")

\* The 30 s timeout of the HTTP client, or a connection that breaks.  A
\* write already sent stays in flight; nothing waits for a read any more.
GiveUp(c) == phase[c] \in {"get", "write"} /\ Abandon(c, "timeout")

ClientStep(c) ==
    \/ HttpFails(c)
    \/ GetUnreadable(c)
    \/ GetAnswers(c)
    \/ UpdateRejected(c)
    \/ UpdatePuts(c)
    \/ WriteAnswers(c)
    \/ GiveUp(c)

-----------------------------------------------------------------------------
(***************************************************************************)
(* The CalDAV server (external): it serves requests in any order, however  *)
(* late, gives every version of a resource an ETag of its own and refuses  *)
(* a PUT whose If-Match is not the current one.                            *)
(***************************************************************************)

\* An answer nobody waits for any more is dropped.
Reply(c, status, doc, etag) ==
    wire' = [wire EXCEPT ![c] = IF phase[c] = "done" THEN Nothing
                                  ELSE Response(status, doc, etag)]

ServeGet(c) ==
    /\ wire[c].method = "GET"
    /\ LET h == wire[c].href
       IN IF store[h] = None
            THEN /\ Reply(c, "not_found", None, None)
                 /\ UNCHANGED base
            ELSE /\ Reply(c, "ok", store[h], IF SendsEtag THEN version[h] ELSE None)
                 /\ base' = [base EXCEPT ![c] = store[h]]
    /\ UNCHANGED <<server, req, phase, answer, held, applied>>

Matches(put) ==
    put.ifMatch = None \/ (store[put.href] # None /\ version[put.href] = put.ifMatch)

ServePut(c) ==
    /\ wire[c].method = "PUT"
    /\ LET put == wire[c]
       IN IF Matches(put)
            THEN /\ store' = [store EXCEPT ![put.href] = put.doc]
                 /\ version' = [version EXCEPT ![put.href] = clock + 1]
                 /\ clock' = clock + 1
                 /\ applied' = [applied EXCEPT ![c] = applied[c] + 1]
                 /\ Reply(c, "ok", None, None)
            ELSE /\ Reply(c, "precondition_failed", None, None)
                 /\ UNCHANGED <<server, applied>>
    /\ UNCHANGED <<req, phase, answer, held, base>>

ServeDelete(c) ==
    /\ wire[c].method = "DELETE"
    /\ LET h == wire[c].href
       IN IF store[h] = None
            THEN /\ Reply(c, "not_found", None, None)
                 /\ UNCHANGED <<store, applied>>
            ELSE /\ store' = [store EXCEPT ![h] = None]
                 /\ applied' = [applied EXCEPT ![c] = applied[c] + 1]
                 /\ Reply(c, "ok", None, None)
    /\ UNCHANGED <<version, clock, req, phase, answer, held, base>>

\* The server or a proxy refuses or fails without acting on the request.
ServeError(c) ==
    /\ wire[c].method \in {"GET", "PUT", "DELETE"}
    /\ \E status \in {"client_error", "server_error"} :
         Reply(c, status, None, None)
    /\ UNCHANGED <<server, req, phase, answer, held, base, applied>>

\* A proxy replaces an answer it could not relay by a 5xx of its own.
GatewayError(c) ==
    /\ wire[c].method = "response"
    /\ wire[c].status = "ok"
    /\ Reply(c, "server_error", None, None)
    /\ UNCHANGED <<server, req, phase, answer, held, base, applied>>

ServerStep(c) ==
    \/ ServeGet(c)
    \/ ServePut(c)
    \/ ServeDelete(c)
    \/ ServeError(c)
    \/ GatewayError(c)

\* Another client stores an object.  It cannot know a new UID before the
\* object of that name exists.
OtherPut ==
    /\ clock < MaxClock
    /\ \E h \in Hrefs, d \in OtherDocs :
         /\ h[2] \in FreshUids => store[h] # None
         /\ store' = [store EXCEPT ![h] = d]
         /\ version' = [version EXCEPT ![h] = clock + 1]
    /\ clock' = clock + 1
    /\ UNCHANGED <<req, phase, wire, answer, held, base, applied>>

OtherDelete ==
    /\ \E h \in Hrefs :
         /\ store[h] # None
         /\ store' = [store EXCEPT ![h] = None]
    /\ UNCHANGED <<version, clock, req, phase, wire, answer, held, base, applied>>

-----------------------------------------------------------------------------

Next ==
    \/ \E c \in Calls :
         \/ CallGet(c) \/ CallCreate(c) \/ CallDelete(c)
         \/ ClientStep(c)
         \/ ServerStep(c)
    \/ OtherPut
    \/ OtherDelete

Spec == Init /\ [][Next]_vars

\* The handler's future is polled to its end, at the latest by the timeout.
\* Nothing is assumed of the server, the network or the caller.
FairSpec == Spec /\ \A c \in Calls : WF_vars(ClientStep(c))

-----------------------------------------------------------------------------
(***************************************************************************)
(* Properties.                                                             *)
(***************************************************************************)

\* Every variable holds a value of its type.
TypeOK ==
    /\ store \in [Hrefs -> Docs \cup {None}]
    /\ version \in [Hrefs -> Nat]
    /\ clock \in Nat
    /\ req \in [Calls -> RequestRecords \cup {None}]
    /\ phase \in [Calls -> Phases]
    /\ wire \in [Calls -> Messages]
    /\ answer \in [Calls -> Errors \cup {"none", "ok"}]
    /\ held \in [Calls -> Objects \cup {None}]
    /\ base \in [Calls -> Docs \cup {None}]
    /\ applied \in [Calls -> Nat]

Writes == {"create", "update", "delete"}

\* The answers that say nothing was or will be done.
Refusals == Errors \ {"timeout", "server_error"}

WriteInFlight(c) == wire[c].method \in {"PUT", "DELETE"}

\* A write tool that succeeds changed the store exactly once; one that is
\* refused changed nothing and has no request left in flight that could; a
\* call never changes the store twice, however its answers were lost.
AnswersTellTheTruth ==
    \A c \in Calls :
      /\ req[c] # None /\ req[c].op \in Writes /\ answer[c] = "ok" => applied[c] = 1
      /\ answer[c] \in Refusals => applied[c] = 0 /\ ~WriteInFlight(c)
      /\ applied[c] <= 1

\* The step in which call c, of operation op, changes the store.
Changes(c, op) == applied'[c] # applied[c] /\ req[c].op = op

\* An update replaces exactly the document it was made from: whatever
\* another client or call wrote after update_*'s GET makes the PUT fail.
NoLostUpdate ==
    [][\A c \in Calls : Changes(c, "update") =>
         \A h \in Hrefs : store'[h] # store[h] => h = HrefOf(c) /\ store[h] = base[c]]_vars

\* The stored object after an update holds, field by field, the new value
\* if one was given, nothing if the field was cleared, and otherwise what
\* the replaced object was read to hold; nothing else in the account moves.
UpdateIsWhatWasAsked ==
    [][\A c \in Calls : Changes(c, "update") =>
         LET h == HrefOf(c)
             r == req[c]
         IN \E d \in {store'[h]} :
              /\ d # None /\ d.kind = r.kind /\ d.uid = store[h].uid
              /\ \A f \in FieldsOf(r.kind) :
                   d.fields[f] = IF r.patch[f] # None THEN r.patch[f]
                                 ELSE IF f \in r.clear THEN None
                                 ELSE ReadField(store[h], f)
              /\ \A g \in Hrefs \ {h} : store'[g] = store[g]]_vars

\* A create never replaces an object, although its PUT has no
\* precondition and may reach the server long after the call gave up.
CreateNeverOverwrites ==
    [][\A c \in Calls : Changes(c, "create") => store[HrefOf(c)] = None]_vars

\* Every call is answered, even when the server never answers.
EveryCallIsAnswered ==
    \A c \in Calls : phase[c] # "idle" ~> answer[c] # "none"

-----------------------------------------------------------------------------
(***************************************************************************)
(* With ETags, the calls implement the atomic operations of AtomicCalendar.*)
(***************************************************************************)

TookStep(c) ==
    /\ req[c] # None
    /\ IF req[c].op = "get" THEN base[c] # None /\ Readable(base[c], req[c].kind)
                             ELSE applied[c] > 0

Found(c) == IF TookStep(c) /\ req[c].op \in {"get", "update"} THEN base[c] ELSE None

Verdict(c) ==
    CASE answer[c] \in {"none", "ok"} -> answer[c]
      [] answer[c] \in Refusals       -> "refused"
      [] OTHER                        -> "unknown"

Reported(c) == IF answer[c] = "ok" /\ held[c] # None THEN Build(held[c]) ELSE None

Atomic == INSTANCE AtomicCalendar WITH
    objects <- store,
    request <- req,
    took    <- [c \in Calls |-> TookStep(c)],
    saw     <- [c \in Calls |-> Found(c)],
    verdict <- [c \in Calls |-> Verdict(c)],
    shown   <- [c \in Calls |-> Reported(c)]

\* Every behaviour of the concurrent calls is one of atomic calls that take
\* effect at most once, between request and "ok" answer.
CallsAreAtomic == Atomic!Spec

-----------------------------------------------------------------------------
(***************************************************************************)
(* The inductive invariant behind the safety properties.                   *)
(***************************************************************************)

\* Where the handler is says what it has sent and what it has answered; only
\* a write can outlive its call, and only one that timed out.
PhaseInv(c) ==
    /\ req[c] = None <=> phase[c] = "idle"
    /\ answer[c] # "none" <=> phase[c] = "done"
    /\ req[c] # None => req[c].uid # None
    /\ phase[c] = "idle" =>
         wire[c] = Nothing /\ held[c] = None /\ base[c] = None /\ applied[c] = 0
    /\ phase[c] = "get" =>
         req[c].op \in {"get", "update"} /\ wire[c].method \in {"GET", "response"}
    /\ phase[c] = "write" =>
         req[c].op \in Writes /\ wire[c].method \in {"PUT", "DELETE", "response"}
    /\ phase[c] = "done" =>
         wire[c] = Nothing \/ (WriteInFlight(c) /\ answer[c] = "timeout")
    /\ WriteInFlight(c) => req[c].op \in Writes

\* What is known of the write's effect from what is in flight or answered.
OutcomeInv(c) ==
    /\ phase[c] = "get" \/ WriteInFlight(c) => applied[c] = 0
    /\ phase[c] = "write" /\ wire[c].method = "response" =>
         IF wire[c].status = "ok" THEN applied[c] = 1
         ELSE wire[c].status = "server_error" \/ applied[c] = 0
    /\ answer[c] = "ok" /\ req[c].op \in Writes => applied[c] = 1
    /\ answer[c] \in Refusals => applied[c] = 0
    /\ applied[c] <= 1
    /\ req[c] # None /\ req[c].op = "get" => applied[c] = 0

\* An ETag guards what the call read: as long as it is the current one, the
\* stored document is the one the GET returned.
Guards(c, etag) ==
    /\ etag \in Nat
    /\ etag <= clock
    /\ store[HrefOf(c)] # None /\ version[HrefOf(c)] = etag => store[HrefOf(c)] = base[c]

\* What a GET in flight asks for, and what its answer holds.
ReadInv(c) ==
    /\ wire[c].method = "GET" => wire[c].href = HrefOf(c) /\ base[c] = None
    /\ phase[c] = "get" /\ wire[c].method = "response" =>
         /\ wire[c].status = "ok" => base[c] # None /\ wire[c].doc = base[c]
         /\ wire[c].status = "ok" /\ SendsEtag => Guards(c, wire[c].etag)
         /\ wire[c].status \in Refusals => base[c] = None
    /\ answer[c] \in Refusals /\ req[c].op = "get" => ~TookStep(c)

\* What a write in flight carries.
WriteInv(c) ==
    /\ wire[c].method = "PUT" =>
         /\ wire[c].href = HrefOf(c)
         /\ wire[c].doc = Build(held[c])
         /\ req[c].op \in {"create", "update"}
         /\ req[c].op = "update" /\ SendsEtag => Guards(c, wire[c].ifMatch)
    /\ wire[c].method = "DELETE" => wire[c].href = HrefOf(c) /\ req[c].op = "delete"

\* The object the handler holds once it has one to store or to return.
HeldInv(c) ==
    phase[c] = "write" \/ WriteInFlight(c) \/ answer[c] = "ok" \/ applied[c] > 0 =>
      CASE req[c].op = "get" ->
             /\ base[c] # None /\ Readable(base[c], req[c].kind)
             /\ held[c] # None /\ Build(held[c]) = Build(Parse(base[c]))
        [] req[c].op = "create" -> held[c] = NewObject(req[c], req[c].uid)
        [] req[c].op = "update" ->
             /\ base[c] # None /\ Editable(base[c], req[c])
             /\ held[c] # None /\ Build(held[c]) = EditedDoc(base[c], req[c])
        [] req[c].op = "delete" -> held[c] = None

CallInv(c) == PhaseInv(c) /\ OutcomeInv(c) /\ ReadInv(c) /\ WriteInv(c) /\ HeldInv(c)

\* Under the name of a new UID there is nothing but what its create stored.
CreatedAt(h) ==
    \E c \in Calls : /\ req[c] # None /\ req[c].op = "create"
                     /\ HrefOf(c) = h /\ applied[c] = 1

MintInv ==
    /\ \A h \in Hrefs : store[h] # None /\ h[2] \in FreshUids => CreatedAt(h)
    /\ \A c \in Calls : base[c] # None /\ req[c].uid \in FreshUids => CreatedAt(HrefOf(c))
    /\ \A c \in Calls : req[c] # None /\ req[c].op = "create" =>
         /\ req[c].uid \in FreshUids
         /\ \A d \in Calls : req[d] # None /\ req[d].op = "create"
                             /\ req[d].uid = req[c].uid => d = c

IInv ==
    /\ TypeOK
    /\ \A h \in Hrefs : version[h] <= clock
    /\ \A c \in Calls : CallInv(c)
    /\ MintInv

-----------------------------------------------------------------------------
(***************************************************************************)
(* What the repository says of the tools and the code does not do.         *)
(***************************************************************************)

\* "omit to leave unchanged" (README, update_event): what a call did not
\* name stays in the document, the form of its times included.
OmittedContentUnchanged ==
    [][\A c \in Calls : Changes(c, "update") =>
         store'[HrefOf(c)].extra = store[HrefOf(c)].extra]_vars
=============================================================================
