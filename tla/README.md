# TLA+ verification of mcp-caldav-fastmail

The program is an MCP server (Rust, tokio, axum) that gives a language-model
client access to one CalDAV account: eleven tools list, read, create, change
and delete events and tasks. A bearer gate in front of `/mcp` decides who may
call them. Paths below are relative to the repository's root, so the program is
in `src/`.

| File | Content |
| --- | --- |
| `CalendarObjects.tla` | documents, events and tasks, and the operations between them |
| `CalendarTools.tla` | the object tools over the CalDAV client, the server and the other clients |
| `AtomicCalendar.tla` | what those tools promise: one atomic operation per call |
| `CalendarToolsProofs.tla` | the inductive invariant and the safety theorems |
| `CalendarRefinementProofs.tla` | `CalendarTools` implements `AtomicCalendar` |
| `BearerAuth.tla` | the bearer gate with the shared JWKS key cache |
| `AtomicAuth.tla` | what the gate promises: every request judged alone, in one step |
| `BearerAuthProofs.tla` | the inductive invariant, the safety theorems, `BearerAuth` implements `AtomicAuth` |
| `CalendarContents.tla` | what a calendar holds and what it says of a window or a filter |
| `Listings.tla` | `list_events` and `list_tasks`, the REPORT, the expansion of recurring events |
| `AtomicListings.tla` | what those tools promise: one look at the calendar per call |
| `ListingsProofs.tla` | the inductive invariant, the safety theorems, `Listings` implements `AtomicListings` |
| `Discovery.tla`, `DiscoveryProofs.tla` | `list_calendars` and the three requests behind it |
| `Multistatus.tla`, `MultistatusProofs.tla` | the two readers of DAV answers, over XML events |
| `TextLines.tla`, `TextLinesProofs.tla` | how a text is escaped and folded, and read back |
| `Gate.tla`, `GateProofs.tla` | environment, start-up, authenticators and routes |
| `MC*.tla`, `*.cfg` | instances for TLC |

## 1. Inventory

### Object tools — `src/mcp/tools.rs` (modelled)

`CalendarServer` holds an `Arc<dyn CalDavClient>` and nothing else: a call's
state is the local variables of its handler. Operations: `get_event`,
`create_event`, `update_event`, `delete_event` and the same four for tasks. Get,
create and delete make one HTTP exchange. Update makes two: `get_event`, then
`clear_fields`, which may return `invalid_params`, `apply_patch`, and
`put_event` with the ETag of the GET. It answers with the object it sent.

Calls run concurrently, from several sessions, with no lock between them and
none on the server: everything between the GET and the PUT of an update, and
between the sending and the serving of any request, is open to other calls and
to the other clients of the account. *Correct* means: no lost update; an edit
is the one that was asked, made of the document it replaces; a create replaces
nothing; an answer tells the truth about the store; a call takes effect at
most once and between its request and a successful answer; every call is
answered.

### CalDAV object client — `src/caldav/client.rs` (modelled)

`FastmailCalDav` holds the HTTP client (30 s timeout), the base URL and the
credentials. `dav()` sends one request and turns 4xx and 5xx into errors; a
PUT carries `If-Match` when the object has an ETag and no precondition
otherwise; `object_href` is `<calendar>/<uid>.ics`. Hard: a timeout or a broken
connection leaves a write in flight whose effect comes later or never; the
store changes and the answer is lost; a retry by the caller is another call.
Discovery and listings are in the same file, below.

### Domain model and iCalendar mapping — `src/caldav/model.rs`, `src/ical.rs`

`Event`, `Todo`, the patches, `clear_fields`, `apply_patch` (modelled);
`parse_*` and `build_*` (their effect on what a document says is modelled,
their text is not). The program never edits a document: it reads known fields
out of one and writes a new one from them. *Correct*: set wins over clear, a
field not named keeps what was read, defaults (`DTEND`, `SUMMARY`) are made
explicit by an update.

`expand_event` (modelled, in `Listings`): the occurrences of a recurring event
that overlap a window, at most 10,000 generated from the first; hard at the
window's edges and past the limit. `escape_text`, `fold_line` (modelled, in
`TextLines`): 75-octet folding that must not split a character and must unfold
to the line.

### Bearer gate with JWKS — `src/auth/metadata.rs`, `src/auth/validator.rs` (modelled)

`require_auth` takes the bearer token out of the request and asks
`JwtValidator::validate`, which asks `JwksKeySource::key` for the key of the
token's kid. State: the cache, kid to key, behind a read-write lock that all
requests share. The lock is not held while a document is fetched, so the
fetches of two requests overlap each other and the issuer's rotations, and an
answer read early can be stored late. *Correct*: the cache is always one
document of the issuer; a request passes only with a key some document gave
its kid; every request is decided; rotation is picked up.

### Authenticator modes — `src/auth/authn.rs`, `StaticKeySource` (modelled)

One of four, chosen at start-up: JWKS, one static PEM key whatever the kid, a
shared secret compared by digest, none. The key file is read once. The claims
check of `validate` exists in both jwt modes.

### Configuration — `src/config.rs` (modelled)

`from_lookup`: environment to `Config` or an error. A pure function with many
combinations: an empty string is absent for every variable except
`REQUIRED_SCOPE` (where it switches the check off) and `AUTH_MODE`, which is
read unfiltered as well. *Correct*: no combination opens the server by
accident, and what is decided is what the environment says.

### Router and metadata — `src/auth/metadata.rs`, `src/main.rs` (modelled)

Which routes exist and which are gated, by mode; the challenge of a 401; the
protected-resource document. *Correct*: a challenge leads to the document, and
the document to a token that is accepted; nothing public is challenged.

### Listings — `list_events`, `list_tasks` (modelled)

A REPORT, the multistatus parsed, each document parsed or expanded, tasks
filtered by status and due window. One document that does not parse fails the
whole listing. *Correct*: what is listed is what there was at one moment of the
call, nothing added, and nothing left out but what can be said beforehand; the same
of what falls between adjacent windows.

### Discovery — `calendar_home`, `list_calendars`, `resolve` (modelled)

Three PROPFINDs, each addressed by the answer before it, pinned to the origin
of the base URL; nothing is cached. *Correct*: a home of the user is listed; a
call ends with an error just for what was so: no principal, no home, or an href that
leads elsewhere or nowhere.

### DAV XML — `src/caldav/xml.rs` (modelled)

`parse_multistatus` and `nested_href`: state machines over XML events.
*Correct*: the flat map says what the nested document means.

### Not modelled

TLS roots (`src/tls.rs`) are compiled-in data, the error type (`src/error.rs`)
appears as the answers of the tools; the serde and schema types, the MCP
transport (a library) and the live smoke example are declarations or I/O.
`Cargo.toml`, the Dockerfile and the workflows build the program and are no part
of its behaviour.

### How the parts interact

    MCP client -> require_auth -> JwtValidator -> JwksKeySource -> issuer
                       | accepted
                       v
                  CalendarServer (tools) -> FastmailCalDav -> CalDAV server
                                              |                 ^
                                              v                 |
                                    ical, model, xml     other clients

The gate and the tools share no state; a request meets the second only after
the first let it through. The tools share nothing with each other but the
account on the server. They are therefore specifications of their own, checked
and proved apart, and meet at these places: `Gate` takes a lookup of a JWKS key as
an answer or a failure, and `BearerAuth` has the cache and the fetches behind it;
`Listings` and `Discovery` take a multistatus as the set of its responses, and
`Multistatus` shows that the parser gives that; `CalendarTools` takes a document
as its fields, and `TextLines` shows that the text fields are read as written. Hazards, each at its line, are in `PROJECT.json`.

## 2. Object tools

### How the model corresponds to the code

`CalendarObjects` has the data. A document is the first VEVENT or VTODO of an
.ics text: its UID, its known fields, and one value `extra` for everything else
it says (the TZID or DATE form of its times, DURATION, EXDATE, attendees,
alarms, overridden instances, VTIMEZONE). `Parse` and `Readable` are
`parse_event`/`parse_todo`, with their defaults and their errors; `DerivedEnd`
is a parameter, the end computed from the start and the rest of the document
when DTEND is absent. `Build` is `build_event`/`build_todo`, whose result has no
`extra`. `ClearFields`, `ApplyPatch` and `EditObject` are the methods of
`model.rs` in the order `update_*` calls them.

`CalendarTools` has one variable per piece of a handler's state, indexed by
call, and the server's state:

| Variable | In the code |
| --- | --- |
| `req` | the deserialised request of the tool |
| `phase` | the `.await` the handler is at: of the GET, of the write, or returned |
| `held` | the `Event` or `Todo` the handler holds, with `href` and `etag` |
| `wire` | the exchange `dav()` waits for: the request, then the answer |
| `answer` | `Ok` or which error the tool returns |
| `store`, `version`, `clock` | the server's documents, their ETags, the next ETag |
| `base`, `applied` | history, used only by properties: what the GET returned, how often the call changed the store |

| Action | Code |
| --- | --- |
| `CallGet` | `get_*`, and the first half of `update_*` up to the await of the GET |
| `CallCreate` | `create_*`: `new_uid`, the new object, `put_*` up to its await |
| `CallDelete` | `delete_*` up to its await |
| `HttpFails` | `dav()` on 4xx or 5xx, in either exchange |
| `GetUnreadable` | `parse_*` fails: no component, no UID, no DTSTART |
| `GetAnswers` | `get_*` returns |
| `UpdateRejected` | `clear_fields` fails: the early return of `update_*` |
| `UpdatePuts` | the rest of `update_*`: clear, patch, `put_*` up to its await |
| `WriteAnswers` | a write was answered with success: `put_*`, `delete_*` and the tool return |
| `GiveUp` | the 30 s timeout, or a connection that breaks |
| `ServeGet`, `ServePut`, `ServeDelete`, `ServeError`, `GatewayError` | external: the CalDAV server and proxies |
| `OtherPut`, `OtherDelete` | external: other clients of the account |

Everything a handler does between two awaits is one action: nothing else can
run on its local state in between.

`wire` is one slot per call, as each handler has at most one exchange at a
time. `GiveUp` clears it for a read, and leaves a PUT or DELETE in it, to be
served at any later time, refused, or never served. This is how a delayed or
lost write is modelled. `GatewayError` is the answer that says 5xx although
the write took effect.

Abstractions, and why they are sound for the properties:

- Versions have distinct ETags (`clock`), as a strong ETag must (RFC 9110). The
  server compares `If-Match` when it serves the PUT. `SendsEtag` is FALSE for a
  server, or a proxy, whose GET answers have no usable ETag header.
- A 4xx means the request had no effect; a 5xx says nothing. An href `resolve()`
  refuses is a client error that is never sent; its outcome is that of
  `ServeError`, so it has no action. Redirects (3xx, which `reqwest` follows) are
  not modelled.
- `new_uid()` returns a UUID nobody holds: a UID is drawn once, and other
  clients cannot store under its name before it exists.
- Field values are compared and never interpreted. Times, texts and numbers are
  members of one set, so what a value looks like in the document is not modelled:
  that fractions of a second are cut (`src/src/ical.rs:429`), carriage returns
  dropped, and an RRULE written as it was given (`src/src/ical.rs:78-83`).
  `UpdateIsWhatWasAsked` says which value a field gets, not what the next reader
  makes of its text.
- A call the MCP client cancels or drops has no answer anyone reads. What it
  leaves behind, a write in flight or nothing, is what `GiveUp` leaves.
- JSON (de)serialisation and the schema of the tools are left out. A request is
  one the schema accepts (`WellFormed`).

### What is promised: `AtomicCalendar`

A store and, per call, a request, what it saw, whether it took effect, the
verdict and the content it returned. `Call`, then at most one atomic step
(`Read`, `Create`, `Update`, `Delete`, or none), then `Answer`; another client's
`Other` step may happen at any time. `ok` is answered only after the step, `refused`
only if it did not and cannot happen, `unknown` (a timeout, a 5xx) may come before,
after or without it. An update edits the document found at the moment it
replaces it. `CallsAreAtomic` is the claim that `CalendarTools` implements this
under the mapping at the end of the module: reads take effect when the GET is
served, writes when the store changes. It fails without ETags, and so the
configurations and the theorem assume `SendsEtag`.

### Runs

The instance has one calendar; the UID `u1` of an existing object and one or two that
`new_uid` can draw; two field values and the empty text. The documents other
clients store include one with an alarm and no DTEND, one without UID, an event
without DTSTART, a task under the same name, and an event stored under a name
that is not its UID.

| Run | Question | Result |
| --- | --- | --- |
| `tools_events` | two concurrent calls among create, update, an update with a bad `clear_fields` name, delete; 2 writes of others; does every call end when the server may never answer? | truthful answers, no lost update, updates as asked, creates are new, atomicity; every call ends, by the timeout |
| `tools_tasks` | two calls, gets among them, on tasks and events that share names; the inductive invariant itself | `IInv` (and with it types, truthful answers, no lost update), atomicity |
| `tools_no_etag` | the first claim without an ETag header | violated: the PUT is unguarded |
| `tools_omitted` | does an update leave alone what it was not asked to change? | violated: alarms, time zones, attendees, EXDATE are dropped |

The violated properties quote the README or the design notes; each is a
finding in `PROJECT.json`.

*Bounds.* Two calls are enough for every pairwise race of the claims: each
property speaks of one call against *something else* that changes the store,
and the something else is another call or `OtherPut`/`OtherDelete`. `MaxClock`
bounds the writes of other clients (they stop once that many ETags are used);
2 lets the document be replaced, and replaced back by an equal one, within one
update. `OtherDelete` needs no bound. In `tools_tasks` calls are symmetric, as no
action or constant tells them apart; runs with liveness use no symmetry.
`CHECK_DEADLOCK FALSE` is set because all calls can be answered and other
clients out of budget: the model really stops there. The theorems remove these
bounds.

*Fairness.* `FairSpec` asks weak fairness of `ClientStep(c)` alone: tokio polls
a ready future, and `reqwest`'s 30 s timeout makes a waiting one ready. Nothing
is assumed of the server, the network or the callers, so only `GiveUp` is
certain to be enabled, and it is what the liveness result rests on.

### Theorems

For any number of calls and calendars and any sets of requests, UIDs, values and
documents that meet `ValuesAssumption`, `RequestsAssumption` and
`NoneAssumption` (types, and a `None` that is no value):

| Theorem | States |
| --- | --- |
| `Invariance` | `Spec => []IInv` |
| `TypeCorrect` | `Spec => []TypeOK` |
| `TruthfulAnswers` | `Spec => []AnswersTellTheTruth` |
| `CreatesAreNew` | `Spec => CreateNeverOverwrites` |
| `UpdatesAreGuarded` | `SendsEtag` implies `Spec => NoLostUpdate` |
| `UpdatesAreAsAsked` | `SendsEtag` implies `Spec => UpdateIsWhatWasAsked` |
| `Refinement` | `SendsEtag` implies `Spec => CallsAreAtomic` |

*The inductive invariant.* None of these is inductive. `IInv` adds, per call:
`PhaseInv` (the phase says what has been sent and answered; only a write that
timed out survives its call), `OutcomeInv` (what an answer on the wire says of
the effect), `ReadInv` and `WriteInv` (what a message in flight carries),
`HeldInv` (the object held is the one made, read, or edited from `base`), and
globally `MintInv`. Two parts carry the argument:

- `Guards(c, etag)`: as long as the ETag call `c` read is the current one of a
  document that exists, that document is what the GET returned. It is kept
  because ETags are drawn from a clock above all of them, and because a deleted
  resource keeps its old version number, which no later PUT issues again. With
  it, an accepted PUT replaces `base[c]`.
- `MintInv`: under the name of a drawn UID there is nothing but what its own
  create has stored. With it the late, unconditional PUT of a create finds its
  name free, even after the call gave up, and even though the create may
  already have been answered.

`IInv => AnswersTellTheTruth` is direct; the action properties use `IInv` before
the step. `Refinement` proves that initial states map to initial states and, one
lemma per action, that each step maps to a step of `AtomicCalendar` or changes
none of its variables.

## 3. Bearer gate

### How the model corresponds to the code

| Action | Code |
| --- | --- |
| `Present` | `require_auth` up to `verify`, `decode_header`, and "no kid" |
| `Lookup` | `key()` under the first read lock; on a hit, `decode` and the scope check |
| `Serve` | external: the issuer answers the fetch with its current document |
| `FetchFails` | the fetch errs or reaches its 30 s timeout, with an answer under way or not |
| `Store` | `refresh()` under the write lock: `clear`, then insert all |
| `Reread` | `key()` under the second read lock, then as `Lookup` |
| `Rotate` | external: the issuer publishes another document |

`cache` is the map behind the lock; `pc`, `fetched` and `verdict` are the
request's. A client presents one token again and again, which is enough as no
request leaves anything behind but the cache. Verification after the key has
been found is one step with it: the key is cloned out under the lock and nothing
else is shared. The claims a token makes (algorithm, expiry, issuer, audience,
scope) are one Boolean, checked after the signature. A signature is the key it
was made with. `published` and `rotations` are history and a bound.

### What is promised: `AtomicAuth`

A request whose token has a kid is judged in one step against one whole document
that the issuer has published, old or new, or is refused because the keys could
not be fetched: no cache, no lock, no other requests. `RequestsAreJudgedApart` says
that the gate implements this with `checking` for "`pc` is not idle". A request is
judged where it finds its kid, or fails to find it in `Reread`; lookups that miss,
fetches, stores and the rotations' effect on them are invisible. It is what a
partly filled cache, or a refusal on a cache nobody has refreshed, would break. How
old the document may be is left open, because it is in the code: a cached kid is
never asked for again.

### Runs

| Run | Question | Result |
| --- | --- | --- |
| `auth` | two requests, two kids, two keys, two rotations | the cache is one document; only vouched-for tokens pass, and only tokens that some document does not vouch for are refused by their key; the gate implements `AtomicAuth`; every request is decided; a client that retries with a token valid for good is let in again and again |
| `auth_reissued` | the same when the issuer gives a kid a new key | violated: a kid that is cached is never looked up again |

The tokens: one for each kid, one with invalid claims, one whose kid and key do
not belong together (in `auth_reissued`, the reissued key), one without kid, and
no token at all. Three documents let the issuer introduce a key beside the old
one and withdraw the old one, which is what rotation is; two rotations let a
fetch answered before both be stored after both. Deadlock is checked in these
runs: `Present` keeps the model going.

*Fairness.* `FairSpec`: weak fairness of `GateStep(c)`, justified as above by
polling and the fetch's timeout. `Retries`, the premise of `RotationIsPickedUp`, is
what that claim presumes of others: clients try again, and the issuer answers in
time again and again (strong fairness of `Serve` and of `Store`, since
`FetchFails` may always win instead). The program cannot enforce either; without
them no cache could ever be refreshed.

### Theorems

From `AuthAssumption` (types, a `None` that is nothing else, at least one
document), for any clients, tokens, kids, keys, documents and number of
rotations: `AuthTypeCorrect`, `CacheIsWhole` (`Spec => []CacheIsOneDocument`),
`AcceptanceIsJustified` (`Spec => []AcceptedIsVouchedFor`), `RefusalIsJustified`
(`Spec => []RefusedForItsKey`) and `AuthRefinement` (`Spec =>
RequestsAreJudgedApart`). The inductive invariant adds that what is published
contains what is current, that every fetched document was published, that a request
past `Present` has a token with a kid, and that a request that looks again finds a
published document and not the empty cache. The first two make a late `Store`
harmless to the shape of the cache; the third keeps `Lookup` and `Reread` within what
`Present` let through; the fourth is why "unknown kid" is said of a document, and
holds because nothing empties the cache: a `Store` of another request between the
refresh and the second lookup puts another document in its place. The refinement has
a lemma for a check that ends (`DecideAbs`), one for the judgement (`JudgeAbs`), one
for steps that are not seen (`Stutter`), and `StepAbs` goes through the actions.

## 4. Listings

### How the model corresponds to the code

`CalendarContents` has the data and what the standards say of it. A calendar is a
set of resources, each an event, a task or nothing, with an ETag. An event is its
start and end and, if it recurs, the sequence of its occurrences: RRULE and EXDATE
are resolved by `calcard`. Times are numbers, `Second` of them make a second, and
`Sent` is the window as the REPORT has it, in whole seconds.

`Shown` is what there is to show of one moment: every occurrence of which an instant
is in the window, every task that fits the filter. `View` is the part of it that a
listing of the program does show, and `Visible` says which of the occurrences these
are. All but:

- an occurrence in the window that is over where the window starts: one without a
  duration at this very instant, or one that ends before it starts
  (`src/src/ical.rs:129`);
- an event that is in the window only in the second it ends in, as the end is sent
  without its fraction (`src/src/caldav/client.rs:253`);
- of a series, what is past the limit of the expansion (`src/src/ical.rs:143`);
- of a series that the server has expanded, all but the first occurrence, which is
  then no instance of a series any more (`src/src/ical.rs:128`).

The properties and the theorems below have no premises that exclude these: they hold
of every window, event and server, and the exceptions are part of what they say.

| Action | Code |
| --- | --- |
| `Call` | `list_events`, `list_tasks` up to the await of the REPORT, its window as `Sent` writes it |
| `ListingAnswers` | the rest: entries without data skipped, `expand_event` (`Expand`) or `parse_todo` on each, the filters `StatusFits` and `DueFits` |
| `ListingFails` | 4xx, 5xx, no XML, or one object that cannot be read |
| `GiveUp` | the 30 s timeout |
| `ServeReport` | external: the server reads the calendar, selects by component and window (RFC 4791), refuses an inverted window, may send entries without data, and carries out the `<expand>` or not, as it chooses for each report |
| `ServeFailure`, `Change` | external |

`moments` is history: what the calendar was while the call ran. The answer is a
set of items, as the code promises no order across objects. Overridden
instances (RECURRENCE-ID) are not modelled.

### What is promised: `AtomicListings`

A listing begins, looks at the calendar in one step (`Look`), and is answered with
what it saw: its `View` of that moment, of series that the server has expanded or of
series as they are. It may be refused as "flawed" only if the calendar then held a document
of the kind asked for that cannot be read, and must not be answered "ok" if one of
which it would show something could not be; it may fail at any time. Other clients
change the calendar between any two steps. `ListingsAreAtomic` is its specification
with the state of `Listings` put in: the look is `ServeReport`, what was seen is
what the program will make of the report (`Seen`), a document without which the
listing cannot do is an unreadable entry (`Flawed`), and answers map by `Verdict`.
The abstract listing knows nothing of REPORTs, the server's selection, `Overlaps`,
the generation of occurrences or entries without data.

### Runs

| Run | Question | Result |
| --- | --- | --- |
| `listings` | two resources, listings of both kinds, two changes by other clients, a server that expands or does not | what is listed is `View` of one moment (`ListsOneMoment`) and what the two parts of its window would show (`WindowsTile`); failures have causes; the whole is one look at the calendar (`ListingsAreAtomic`); every listing ends, by the timeout |
| `listings_expand` | is of a series everything listed, whatever the server makes of `<expand>` (`SeriesAreListedWhole`)? | violated: one occurrence of each series |

*Bounds.* `Limit` is 2, so that the series goes past it in one window and not in
the other. `Second` is 2: one window starts and ends within a second, and an event
is in the second it ends in. A series without a duration has occurrences where a
window starts and where two of them meet; another one reaches across the bounds of
both windows; one window is inverted. Two changes let the calendar be one thing when
the call starts, another when it is served and a third when it returns, so that a mix
of two resources can belong to no moment. `listings_expand` has one series, all of it
within the limit.

*Fairness.* `WF(ListingStep(c))`, of the waiting call alone: tokio polls it when
its timeout fires.

### Theorems

From `ContentsAssumption` and `ListingAssumption` (types; the absent value is none
of the others), for any number of calls, resources, documents, windows and changes:
`ListingsInvariance`, `FailuresHaveCause`, `ListingsShowOneMoment`,
`AdjacentWindowsTile` and `ListingsRefinement`.

The invariant says that a report holds what the server selected at a moment of the
call, and a listing what the program makes of that. An expanding server puts one
occurrence in place of a series: that there is a first one in the window
(`FirstOccurrence`) rests on the well-foundedness of the natural numbers, as a
series may be of any length. The arithmetic is in lemmas: an occurrence has an
instant in a window just if it begins before its end and is not over, or begins, at
its start (`HappensIn`); the code's check differs from that only in what has no
duration (`OverlapsIn`); the window sent never begins or ends later than the one asked
for, and if it is not inverted the one asked for is not either (`RoundingDown`), so
that the server sends everything but what is in the last, broken second
(`SentWindow`). `ExpandAsItIs` and `ExpandFirst` say what the program makes of an event
as it is and of one that has been expanded, and `ListingIsView` puts them together:
what the program makes of a moment is its `View`. The refinement then has one lemma
per action.

`WindowsTile` is about a window and its two parts, on one moment. Two things are in
neither part (`BetweenParts`): what is over as the second one starts, having no
duration, and what starts in the second that the whole ends in. And the second part
may show one occurrence that the whole does not: the first one there of a series that
the server has expanded (`StandsForSeries`). `OccurrencesTile` is the arithmetic,
`SeenTile` and `ViewTile` lift it to events and calendars, `DueTile` is the same for
tasks.

## 5. Discovery

### How the model corresponds to the code

| Action | Code |
| --- | --- |
| `Begin` | `list_calendars`, `calendar_home` up to the first await, at `/dav/` |
| `FollowPrincipal`, `FollowHome` | `nested_href`, NotFound, and `dav()` to where it points: `Ask`, with `resolve` |
| `List` | the filter `IsListed` and the `Calendar` made of each response |
| `Fail`, `GiveUp` | 4xx, 5xx, no XML; the 30 s timeout of each request |
| `Serve*`, `Change` | external: the server, and an account that changes |

An href has an origin, none (its path is then taken to be one of the base), or is no
URL, a path and a slash; `resolve` refuses what has another origin and what cannot be
joined. Every PROPFIND but the first is sent by `Ask`, after this check; redirects are followed by
the HTTP library and are not modelled, so that no property says where requests go in
the end. A server answers what it is asked for: `Sent` leaves out the color. The home
comes back among its children, with or without a slash. `past` is history.

### Runs

| Run | Question | Result |
| --- | --- | --- |
| `discovery` | an account that moves between the three requests | a home is listed that the user had, each step true of a moment not before the last; a missing principal or home, or an href that is refused, was so at a moment of the call; every discovery ends |

*Bounds.* One call, as calls share nothing; three changes, one for each gap
between requests and one before. The accounts have hrefs of every kind: relative, in full,
elsewhere, and no URL. Fairness as for listings.

Theorems, from `DiscoveryAssumption` (types; no collection is in itself), for any
accounts, calls and changes: `DiscoveryInvariance`, `CallsListAHome`,
`FailuresAreExplained`. The invariant relates each step of a
call to positions `i <= j <= k` of its `past`.

## 6. DAV XML

The document is written by a server, one event after another, along the
content model of RFC 4918, and at the same step read by both loops: `FlatStart`,
`FlatEmpty`, `FlatText`, `FlatEnd` are the arms of `parse_multistatus`, `NestedStart`,
`NestedText`, `NestedEnd` those of `nested_href` (which has none for CDATA, and
returns at its first result: nothing changes once `found` is set). `draft`,
`written` and `nested` are what the document means. Names are local names; blank
text is skipped by the reader, blank CDATA is not. Assumed of servers: a
property has a value once per response, and is empty in a propstat that says
it failed (the parser does not look at the status of a propstat).

| Run | Question | Result |
| --- | --- | --- |
| `xml` | two responses, any order of their parts | `ReadAsMeant`, `FoundIsNested` |

*Bounds.* Two children let a container be continued, two nesting properties let
the wrong one come first, two responses let one leak into the next. There is one
text: what is read into the wrong place shows as a value where there is none, and
the theorems are for all texts.

Theorems, under `Chunks = 1 /\ ~CDataHrefs`, for documents of any length:
`XmlInvariance`, `EveryDocumentIsReadAsMeant`, `NestedHrefIsFound`. The invariant
relates `place` to `curProp`, `container`, `depth` and `inHref`, and the response
being read to the draft.

## 7. Text lines

`Escape` is one turn of the loop of `escape_text`, `Fold` (`Break` or `Push`) one of
`fold_line`; a character has one to four octets. The reader, in the program the
`calcard` library, is modelled by RFC 5545: `Unfold` and `Unescape` go over a text
character by character (`Unfolded`, `Unescaped`). The run `text_lines` writes all
texts of up to four characters on lines of five octets: the smallest limit at
which the widest character fits beside the space of a continuation, so
that every position of a break in an escape or beside a wide character occurs.
`LinesFit` and `ReadsBack` hold.

Theorems, for every text, widths of 1 to 4, every limit above 4 and every name
without a line break: `TextInvariance`, `LinesAlwaysFit` and `TextsAreReadBack`.
`BudgetInv` is needed because the loop counts in `used` without the space, which the
smaller budget makes up for. `EscapeInv` and `FoldInv` carry the round trip: the
content line, after its name, unescapes to the part of the value that is escaped,
with no escape left open; what is written unfolds to the part of the content line that
is folded, with no line break left open. A turn of a loop then needs only what one
more character, or a fold and a character, adds to what the reader has read.

The reader is recursive. That the recursion defines a function at all, and that it
agrees with that of a longer text, is induction over the text (`ScanExists`,
`ScanUnique`, `ScanAppend`). The library's induction theorems cannot be instantiated
here as they take an operator; `SetInduction` states induction of a *set* of
numbers and follows from the library's `WFMin` and `NatLessThanWellFounded`.

## 8. Start-up and routes

### How the model corresponds to the code

| Definition | Code |
| --- | --- |
| `Given`, `Mode`, `RequiredScope`, `OneKeySource`, `Audience`, `Configured` | `from_lookup`; an environment maps each variable to a value, "", blank or nothing |
| `Settings`, `KeyMissing`, `KeyOf` | `Authenticator::from_config`, `from_pem_or_path`, the `AuthState` of `main` |
| `Start` | `main`: configuration, base URL, key, bind; each may end the start |
| `Ask`, `Respond` | a request and its answer: `Route` (`build_router`), `Gated` (`require_auth`), `Verified`, `ValidJwt` (`validate`), `Challenge`, `Metadata` |
| `Stop`, `Edit`, `ReplaceKey` | external: the platform stops the server, changes the environment and the key file |

`running` is what the process holds, `boot` (history) the environment and files it
was started with, kept with every answer. A lookup of a JWKS key finds the
issuer's key or fails; the cache is in `BearerAuth`. A token carries any of the claims
sub, exp, aud and iss: without a sub it cannot be read, the JWT library requires exp,
and compares an aud or iss with the one configured only if the token has one
(`src/src/auth/validator.rs:12-22, 66-75`), so a token without passes. `Permits` says
this of every token, where the documentation asks for more (section 9). HTTP methods
are not modelled. URIs of the server are paths with or without a final slash: its host
is taken to be the one clients use.

### Runs

| Run | Question | Result |
| --- | --- | --- |
| `gate` | thirteen environments, seven improper, and a key file change under a server that is stopped and started | `ServedIsPermitted`, `RefusedForCause`: every answer is what `Permits` says of the start; `ClosedUnlessOpened`; a challenge leads to the metadata just if `RESOURCE_URI` has no path (`ChallengeLeadsToMetadata`), and these are enough for a token that is let in (`MetadataSuffices`) |

*Bounds.* The environments have one of each mode and one of each reason to fail, and
two have a path in their `RESOURCE_URI`, one of them below `/mcp`; each token lacks one
thing, each of the four claims among them. One client is enough as every property speaks of one
request and the boot it was answered under. There is nothing else to bound: the
platform may go on for ever. Deadlock checking is off as an improper environment
that cannot be edited leaves only failing starts, and these change nothing.

### Theorems

From `GateAssumption` (types; the special values are no texts), for all
environments, key files, tokens and paths: `GateInvariance`,
`ServedOnlyIfPermitted`, `RefusedOnlyForCause`, `StartsClosed`, `DocumentIsEnough` and
`ChallengeIsAnswered`. The invariant: a server
that is up was properly started and runs with `Settings` of its boot, and every
answer is `Route` of such settings with a key the environment trusts
(`TrustedKeys`). `Verdict` then shows that `Verified` by the settings is `Permits` by
the environment (`ClaimsChecked` does the claims). `ChallengeIsAnswered` is an
equivalence: that a path in `RESOURCE_URI` breaks the way to the metadata is part of
what it says.

## 9. What is only model-checked, and what is not covered

- Liveness (`EveryCallIsAnswered`, `EveryRequestIsDecided`, `RotationIsPickedUp`,
  `EveryListingEnds`, `EveryDiscoveryEnds`) is checked by TLC only: the proof
  system does not reason about fairness here.
- The violated claims are counterexamples on small instances.

The models have more divergences from what the repository says than there are runs.
Each of these follows from the definition named, in the instance of a run or in one
that differs from it as said:

| The code | says otherwise | In the model |
| --- | --- | --- |
| `delete_task` deletes an event of that name (`src/src/caldav/client.rs:376`) | `src/README.md:260` | `ServeDelete` |
| an object stored under another name than its UID is answered 404 (`src/src/caldav/client.rs:180`) | `src/README.md:252` | `ServeGet` |
| content lines are folded (`src/src/ical.rs:411`) | `src/README.md:280-281` | `Fold` |
| an href in CDATA is not found (`src/src/caldav/xml.rs:253`) | `src/src/caldav/xml.rs:221` | `FoundIsNested` fails with `CDataHrefs` |
| of a value in two pieces the last remains (`src/src/caldav/xml.rs:137`) | `src/src/caldav/xml.rs:6` | `ReadAsMeant` fails with `Chunks = 2` |
| an event without a duration at the start of a window is left out (`src/src/ical.rs:129`) | `src/src/mcp/tools.rs:26` | `Visible` and `BetweenParts` except it |
| occurrences that start before the window are listed (`src/src/ical.rs:162`) | `src/src/ical.rs:121-122` | `Overlaps` |
| a window that ends within a second is asked for without its fraction (`src/src/caldav/client.rs:253`) | `src/src/mcp/tools.rs:28` | `Visible` and `BetweenParts` except it |
| calendars without a name are passed over (`src/src/caldav/client.rs:224`) | `src/README.md:250` | `IsListed` |
| the color is read and not asked for (`src/src/caldav/client.rs:227`) | `src/docs/superpowers/specs/2026-07-29-mcp-caldav-fastmail-design.md:138-141` | `Sent` of `Discovery` |
| every `list_calendars` discovers again (`src/src/caldav/client.rs:188`) | line 135 of the same | `Begin` |
| `AUTH_MODE` set to "" is an unknown mode (`src/src/config.rs:90`) | `src/src/config.rs:74-79` | `Mode` |
| with a path in `RESOURCE_URI`, the challenge does not lead to the metadata (`src/src/main.rs:60`) | `src/README.md:93-96` | the right side of `ChallengeLeadsToMetadata` |
| a token without an aud is let in, and so is one without an iss where an issuer is set (`src/src/auth/validator.rs:66-75`) | `src/README.md:84-92` | `ValidJwt`; `ServedIsPermitted` would fail if `Claimed` asked for them |
| occurrences past the first 10,000 of a series are not listed (`src/src/ical.rs:143`) | `src/README.md:251` | `Visible` excepts them |
| a static-key token without a kid is refused (`src/src/auth/validator.rs:63`) | `src/README.md:88-91` | `ValidJwt` |

Not covered:

- The status of a propstat is not read (`src/src/caldav/xml.rs:94`): a property with a
  value in a failed one would be taken as found. Servers leave these empty, and so do
  the documents of `Multistatus`.
- Retries by an MCP client of a create that timed out make a second object. The
  repository promises nothing else, so no property says so.
- An update's answer carries the ETag of the version it replaced; no tool takes
  an ETag, so nothing in the program uses the stale one.
- A presented token is trimmed and `MCP_TOKEN` is not: a secret that ends in a
  line break refuses everyone. A `REQUIRED_SCOPE` that is blank or of several words
  does too (the blank one is in the runs).
- What is listed under "Not modelled" in section 1, RECURRENCE-ID overrides,
  redirects, the arithmetic of DURATION and time zones.

## 10. Plan

1. `CalendarTools` with retries: an MCP client that repeats a timed-out create or
   update.
2. Overridden instances in `Listings`: a document with several VEVENTs.
3. `Gate` over the cache of `BearerAuth` in one specification, in place of a lookup
   that may fail.
