------------------------------ MODULE MCDiscovery ------------------------------
(* Small accounts for TLC: a home that moves, calendars that come and go, and *)
(* hrefs that lead elsewhere.                                                 *)
EXTENDS Discovery

CONSTANT c1

MCPaths == {"dav", "user", "home", "home2", "work", "todo"}

MCOrigins == {"base", "elsewhere", "relative", "malformed"}

At(path) == [origin |-> "relative", path |-> path, slash |-> TRUE]

Elsewhere(path) == [origin |-> "elsewhere", path |-> path, slash |-> TRUE]

NoUrl == [origin |-> "malformed", path |-> "user", slash |-> TRUE]

Absolute(path) == [origin |-> "base", path |-> path, slash |-> FALSE]

Cal(path, name, components) ==
    [href |-> At(path), types |-> {"collection", "calendar"}, name |-> name,
     components |-> components, color |-> "red", ctag |-> "t1"]

Inbox ==
    [href |-> At("todo"), types |-> {"collection", "schedule-inbox"}, name |-> "Inbox",
     components |-> {}, color |-> None, ctag |-> None]

\* The home of the principal "user", and what is in the two homes.
MCAccount(principal, home, first, second) ==
    [principal |-> principal,
     home |-> [p \in MCPaths |-> IF p = "user" THEN home ELSE None],
     content |-> [p \in MCPaths |-> IF p = "home" THEN first
                                    ELSE IF p = "home2" THEN second ELSE {}]]

Work == Cal("work", "Work", {"VEVENT", "VTODO"})
Plain == Cal("work", "Work", {})
Todo == Cal("todo", "Todo", {"VTODO"})

\* Two homes, each with a calendar or a scheduling collection; a principal or a
\* home that is missing; one that is elsewhere, no URL, or given in full.
MCAccounts ==
    {MCAccount(At("user"), At("home"), {Work, Inbox}, {}),
     MCAccount(At("user"), At("home2"), {}, {Todo}),
     MCAccount(Absolute("user"), Absolute("home"), {Plain, Todo}, {Work}),
     MCAccount(None, None, {Work}, {}),
     MCAccount(At("user"), None, {}, {}),
     MCAccount(Elsewhere("user"), At("home"), {Work}, {}),
     MCAccount(At("user"), Elsewhere("home"), {Work}, {}),
     MCAccount(NoUrl, At("home"), {Work}, {})}
=============================================================================
