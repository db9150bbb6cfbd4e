-------------------------------- MODULE Discovery --------------------------------
(***************************************************************************)
(* The tool list_calendars (src/mcp/tools.rs) and the discovery behind it  *)
(* (src/caldav/client.rs, src/caldav/xml.rs): three PROPFINDs, each sent   *)
(* to where the one before points, while the account changes in between.   *)
(* Every href is resolved against the configured base, and refused if it   *)
(* leads to another origin or is no URL.  The server is external.          *)
(***************************************************************************)
EXTENDS Naturals, Sequences

CONSTANTS
    Calls,       \* calls of list_calendars
    Origins,     \* origins an href can name, or one of the two below
    Paths,       \* paths of the server, without a trailing slash
    Names, Components, Colors, Tags,  \* the values of a calendar's properties
    Accounts,    \* what the account of the user can be like
    Base,        \* origin of the configured base URL
    Relative,    \* the href has no origin, its path is relative to the base
    Malformed,   \* the href is no URL and cannot be joined with the base
    Dav,         \* the path "/dav"
    MaxChanges,  \* bound: changes of the account
    None         \* no such property

Href == [origin : Origins, path : Paths, slash : BOOLEAN]

\* A collection with its properties, None for those that it does not have.
\* "resourcetype" and the component set are the tokens of parse_multistatus.
Collection ==
    [href : Href,
     types : SUBSET {"collection", "calendar", "schedule-inbox", "schedule-outbox"},
     name : Names \cup {None}, components : SUBSET Components,
     color : Colors \cup {None}, ctag : Tags \cup {None}]

\* Where the principal is, where its home is, and what is in the home.
Account ==
    [principal : Href \cup {None},
     home : [Paths -> Href \cup {None}],
     content : [Paths -> SUBSET Collection]]

ASSUME DiscoveryAssumption ==
    /\ Accounts \subseteq Account
    \* no collection is in itself
    /\ \A acc \in Accounts, p \in Paths : \A col \in acc.content[p] : col.href.path # p
    /\ {Base, Relative, Malformed} \subseteq Origins
    /\ Base # Relative /\ Base # Malformed
    /\ Dav \in Paths
    /\ "VEVENT" \in Components
    /\ MaxChanges \in Nat
    /\ None \notin Href \cup Names \cup Colors \cup Tags

VARIABLES
    account,    \* server: the account
    changes,    \* how often it changed
    phase,      \* "idle", the PROPFIND that is awaited, "done"
    target,     \* the href that PROPFIND was sent to
    reply,      \* the answer under way
    answer,     \* what the tool returned
    listed,     \* the calendars of an "ok" answer
    past        \* history: what the account was like, from the start of a call

server == <<account, changes>>
vars == <<account, changes, phase, target, reply, answer, listed, past>>

Nothing == [status |-> "none"]

Waiting == {"principal", "home", "calendars"}

Init ==
    /\ account \in Accounts
    /\ changes = 0
    /\ phase = [c \in Calls |-> "idle"]
    /\ target = [c \in Calls |-> None]
    /\ reply = [c \in Calls |-> Nothing]
    /\ answer = [c \in Calls |-> "none"]
    /\ listed = [c \in Calls |-> {}]
    /\ past = [c \in Calls |-> <<>>]

-----------------------------------------------------------------------------
(***************************************************************************)
(* The program.                                                            *)
(***************************************************************************)

\* Url::join with the base: an href with an origin of its own overrides it.
Joined(href) == IF href.origin = Relative THEN Base ELSE href.origin

\* A faulty variant of Resolves: an href with an origin is refused, even the base's.
ResolvesRelative(href) == href.origin = Relative

\* resolve: the join succeeds, and does not leave the origin of the base.
Resolves(href) == Joined(href) = Base

Finish(c, what) ==
    /\ phase' = [phase EXCEPT ![c] = "done"]
    /\ answer' = [answer EXCEPT ![c] = what]
    /\ reply' = [reply EXCEPT ![c] = Nothing]
    /\ UNCHANGED <<server, target, past>>

Send(c, href, step) ==
    /\ phase' = [phase EXCEPT ![c] = step]
    /\ target' = [target EXCEPT ![c] = href]
    /\ reply' = [reply EXCEPT ![c] = Nothing]
    /\ UNCHANGED <<server, answer, listed>>

\* dav() up to its await.
Ask(c, href, step) ==
    \/ Resolves(href) /\ Send(c, href, step) /\ UNCHANGED past
    \/ ~Resolves(href) /\ Finish(c, "refused") /\ UNCHANGED listed

\* list_calendars starts at "/dav/" of the base.
Begin(c) ==
    /\ phase[c] = "idle"
    /\ Send(c, [origin |-> Relative, path |-> Dav, slash |-> TRUE], "principal")
    /\ past' = [past EXCEPT ![c] = <<account>>]

\* dav() on 4xx or 5xx, nested_href and parse_multistatus on what is not XML.
Fail(c) ==
    /\ phase[c] \in Waiting
    /\ reply[c].status \in {"client_error", "server_error", "xml"}
    /\ Finish(c, reply[c].status)
    /\ UNCHANGED listed

Found(c, step) == phase[c] = step /\ reply[c].status = "multistatus"

\* nested_href: what was asked for is in the answer, or NotFound.
Follow(c, step, next) ==
    /\ Found(c, step)
    /\ \/ reply[c].href = None /\ Finish(c, "not_found") /\ UNCHANGED listed
       \/ reply[c].href # None /\ Ask(c, reply[c].href, next)

FollowPrincipal(c) == Follow(c, "principal", "home")

FollowHome(c) == Follow(c, "home", "calendars")

\* trim_end_matches('/')
Trim(href) == [href EXCEPT !.slash = FALSE]

\* A faulty variant of IsListed: whatever has a name is a calendar.
IsListedNamed(entry, home) == Trim(entry.href) # Trim(home) /\ entry.name # None

\* Not the home itself, a calendar by its resourcetype, and with a name.
IsListed(entry, home) ==
    /\ Trim(entry.href) # Trim(home)
    /\ "calendar" \in entry.types
    /\ entry.name # None

\* The Calendar made of an entry; without a component set it is for events.
Calendar(entry) ==
    [href |-> entry.href, name |-> entry.name, color |-> entry.color, ctag |-> entry.ctag,
     components |-> IF entry.components = {} THEN {"VEVENT"} ELSE entry.components]

List(c) ==
    /\ Found(c, "calendars")
    /\ listed' = [listed EXCEPT ![c] =
                    {Calendar(e) : e \in {x \in reply[c].entries : IsListed(x, target[c])}}]
    /\ Finish(c, "ok")

\* A faulty variant of GiveUp: a client whose timeout covers the first request.
GiveUpFirst(c) == phase[c] = "principal" /\ Finish(c, "timeout") /\ UNCHANGED listed

\* The 30 s timeout of each request, or a connection that breaks.
GiveUp(c) == phase[c] \in Waiting /\ Finish(c, "timeout") /\ UNCHANGED listed

DiscoveryStep(c) == Fail(c) \/ FollowPrincipal(c) \/ FollowHome(c) \/ List(c) \/ GiveUp(c)

-----------------------------------------------------------------------------
(***************************************************************************)
(* The server and the account.                                             *)
(***************************************************************************)

Unanswered(c, step) == phase[c] = step /\ reply[c] = Nothing

Reply(c, what) ==
    /\ reply' = [reply EXCEPT ![c] = what]
    /\ UNCHANGED <<server, phase, target, answer, listed, past>>

ServePrincipal(c) ==
    /\ Unanswered(c, "principal")
    /\ Reply(c, [status |-> "multistatus", href |-> account.principal])

ServeHome(c) ==
    /\ Unanswered(c, "home")
    /\ Reply(c, [status |-> "multistatus", href |-> account.home[target[c].path]])

\* The server answers the properties propfind_calendars_body asks for: the
\* resource type, the name, the component set and the tag.
Sent(col) == [col EXCEPT !.color = None]

\* Depth 1: the home itself, written with or without a trailing slash, and
\* the collections in it.
Itself(href, slash) ==
    [href |-> [href EXCEPT !.slash = slash], types |-> {"collection"}, name |-> None,
     components |-> {}, color |-> None, ctag |-> None]

ServeCalendars(c) ==
    /\ Unanswered(c, "calendars")
    /\ \E slash \in BOOLEAN :
         Reply(c, [status |-> "multistatus",
                   entries |-> {Itself(target[c], slash)} \cup
                               {Sent(col) : col \in account.content[target[c].path]}])

ServeFailure(c) ==
    /\ phase[c] \in Waiting /\ reply[c] = Nothing
    /\ \E status \in {"client_error", "server_error", "xml"} : Reply(c, [status |-> status])

\* Calendars come and go, and the account may move to another home.
Change ==
    /\ changes < MaxChanges
    /\ account' \in Accounts \ {account}
    /\ changes' = changes + 1
    /\ past' = [c \in Calls |-> IF phase[c] \in Waiting THEN Append(past[c], account')
                                                       ELSE past[c]]
    /\ UNCHANGED <<phase, target, reply, answer, listed>>

Serve(c) == ServePrincipal(c) \/ ServeHome(c) \/ ServeCalendars(c) \/ ServeFailure(c)

Next ==
    \/ \E c \in Calls : Begin(c) \/ DiscoveryStep(c) \/ Serve(c)
    \/ Change

Spec == Init /\ [][Next]_vars

\* A waiting call is polled, at the latest when its timeout fires; nothing is
\* assumed of the server.
FairSpec == Spec /\ \A c \in Calls : WF_vars(DiscoveryStep(c))

-----------------------------------------------------------------------------
(***************************************************************************)
(* Properties.                                                             *)
(***************************************************************************)

TypeOK ==
    /\ account \in Accounts
    /\ changes \in Nat
    /\ phase \in [Calls -> {"idle", "done"} \cup Waiting]
    /\ target \in [Calls -> Href \cup {None}]
    /\ DOMAIN reply = Calls
    /\ answer \in [Calls -> {"none", "ok", "not_found", "refused", "timeout",
                             "client_error", "server_error", "xml"}]
    /\ DOMAIN listed = Calls
    /\ past \in [Calls -> Seq(Accounts)]

Ok(c) == phase[c] = "done" /\ answer[c] = "ok"

\* The principal and the home an account leads to.
\* Where the principal of one moment had its home at another.
HomeOf(c, i, j) ==
    IF past[c][i].principal = None THEN None
    ELSE past[c][j].home[past[c][i].principal.path]

UserCalendars(acc, home) == {col \in acc.content[home.path] : "calendar" \in col.types}

Named(cals) == {col \in cals : col.name # None}

\* What is to be shown of a calendar, whatever its color.
Shown(col) == [Calendar(col) EXCEPT !.color = None]

ListedAHome(c) ==
    Ok(c) =>
      \E i, j, k \in DOMAIN past[c] :
        /\ i <= j /\ j <= k /\ HomeOf(c, i, j) # None
        /\ {[cal EXCEPT !.color = None] : cal \in listed[c]} =
             {Shown(col) : col \in Named(UserCalendars(past[c][k], HomeOf(c, i, j)))}

Explained(c) ==
    /\ answer[c] = "not_found" => \E i, j \in DOMAIN past[c] : i <= j /\ HomeOf(c, i, j) = None
    /\ answer[c] = "refused" =>
         \E i, j \in DOMAIN past[c] :
           /\ i <= j
           /\ \E href \in {past[c][i].principal, HomeOf(c, i, j)} \ {None} : Joined(href) # Base

\* Of three answers of three moments a successful call lists just the named
\* calendars that were in a home the principal had, where the principal was the
\* user's when asked for, each moment not before the one before.  Of an account
\* that does not change these are its calendars.
ListsAHome == \A c \in Calls : ListedAHome(c)

\* A call is told that there is no principal or no home, or that an href is
\* refused, only if the account was so while it ran.
FailuresExplained == \A c \in Calls : Explained(c)

\* Where a call stands: the account of now is the last of its moments, and what
\* it was sent to and what it was answered are those of its moments, in order.
OnTheWay(c) ==
    /\ phase[c] # "done" => answer[c] = "none"
    /\ phase[c] \in Waiting =>
         /\ target[c] \in Href
         /\ past[c] # <<>> /\ past[c][Len(past[c])] = account
    /\ phase[c] = "home" => \E i \in DOMAIN past[c] : past[c][i].principal = target[c]
    /\ phase[c] = "calendars" =>
         \E i, j \in DOMAIN past[c] : i <= j /\ HomeOf(c, i, j) = target[c]

Answered(c) ==
    /\ Found(c, "principal") =>
         \E i \in DOMAIN past[c] : reply[c].href = past[c][i].principal
    /\ Found(c, "home") =>
         \E i, j \in DOMAIN past[c] :
           i <= j /\ past[c][i].principal = target[c] /\ reply[c].href = HomeOf(c, i, j)
    /\ Found(c, "calendars") =>
         \E i, j, k \in DOMAIN past[c], slash \in BOOLEAN :
           /\ i <= j /\ j <= k /\ HomeOf(c, i, j) = target[c]
           /\ reply[c].entries = {Itself(target[c], slash)} \cup
                                 {Sent(col) : col \in past[c][k].content[target[c].path]}

\* The inductive invariant of Spec (DiscoveryProofs).
IInv ==
    /\ TypeOK
    /\ \A c \in Calls : OnTheWay(c) /\ Answered(c) /\ ListedAHome(c) /\ Explained(c)

\* Every call ends: each of its three requests is answered or times out.
EveryDiscoveryEnds == \A c \in Calls : phase[c] \in Waiting ~> phase[c] = "done"
=============================================================================
