----------------------------- MODULE DiscoveryProofs -----------------------------
(***************************************************************************)
(* Proofs about Discovery: for every account, however it changes, each of  *)
(* the three requests of a call goes to the base, to where the account     *)
(* then pointed, and what is listed is a home of the user.                 *)
(***************************************************************************)
EXTENDS Discovery, TLAPS, SequenceTheorems

CallInv(c) == OnTheWay(c) /\ Answered(c) /\ ListedAHome(c) /\ Explained(c)

-----------------------------------------------------------------------------
(***************************************************************************)
(* Moments of a call are kept.                                             *)
(***************************************************************************)

\* A call that a step leaves alone, but for a moment that may be added.
LEMMA CallKept ==
    ASSUME NEW c \in Calls, CallInv(c),
           phase'[c] = phase[c], target'[c] = target[c], reply'[c] = reply[c],
           answer'[c] = answer[c], listed'[c] = listed[c],
           \A i \in DOMAIN past[c] : i \in DOMAIN past'[c] /\ past'[c][i] = past[c][i],
           phase[c] \in Waiting => past'[c] # <<>> /\ past'[c][Len(past'[c])] = account'
    PROVE  CallInv(c)'
<1> USE DEF CallInv
<1>1. \A i, j \in DOMAIN past[c] : HomeOf(c, i, j)' = HomeOf(c, i, j)
    BY DEF HomeOf
<1>2. OnTheWay(c)'
  <2>1. phase[c] = "home" => \E i \in DOMAIN past'[c] : past'[c][i].principal = target[c]
      BY DEF OnTheWay
  <2>2. phase[c] = "calendars" =>
           \E i, j \in DOMAIN past'[c] : i <= j /\ HomeOf(c, i, j)' = target[c]
      BY <1>1 DEF OnTheWay
  <2> QED BY <2>1, <2>2 DEF OnTheWay, Waiting
<1>3. Answered(c)'
  <2>1. \A step : Found(c, step)' <=> Found(c, step)
      BY DEF Found
  <2>2. Found(c, "principal") => \E i \in DOMAIN past'[c] : reply[c].href = past'[c][i].principal
      BY DEF Answered
  <2>3. Found(c, "home") =>
          \E i, j \in DOMAIN past'[c] :
            i <= j /\ past'[c][i].principal = target[c] /\ reply[c].href = HomeOf(c, i, j)'
      BY <1>1 DEF Answered
  <2>4. Found(c, "calendars") =>
          \E i, j, k \in DOMAIN past'[c], slash \in BOOLEAN :
            /\ i <= j /\ j <= k /\ HomeOf(c, i, j)' = target[c]
            /\ reply[c].entries = {Itself(target[c], slash)} \cup
                                  {Sent(col) : col \in past'[c][k].content[target[c].path]}
    <3> SUFFICES ASSUME Found(c, "calendars")
                 PROVE  \E i, j, k \in DOMAIN past'[c], slash \in BOOLEAN :
                          /\ i <= j /\ j <= k /\ HomeOf(c, i, j)' = target[c]
                          /\ reply[c].entries = {Itself(target[c], slash)} \cup
                                {Sent(col) : col \in past'[c][k].content[target[c].path]}
        OBVIOUS
    <3>1. PICK i, j, k \in DOMAIN past[c], slash \in BOOLEAN :
            /\ i <= j /\ j <= k /\ HomeOf(c, i, j) = target[c]
            /\ reply[c].entries = {Itself(target[c], slash)} \cup
                                  {Sent(col) : col \in past[c][k].content[target[c].path]}
        BY DEF Answered
    <3>2. past'[c][k] = past[c][k] /\ HomeOf(c, i, j)' = target[c]
        BY <1>1, <3>1
    <3> QED BY <3>1, <3>2
  <2>5. Found(c, "principal")' =>
          \E i \in DOMAIN past'[c] : reply'[c].href = past'[c][i].principal
      BY <2>1, <2>2
  <2>6. Found(c, "home")' =>
          \E i, j \in DOMAIN past'[c] :
            i <= j /\ past'[c][i].principal = target'[c] /\ reply'[c].href = HomeOf(c, i, j)'
      BY <2>1, <2>3
  <2>7. Found(c, "calendars")' =>
          \E i, j, k \in DOMAIN past'[c], slash \in BOOLEAN :
            /\ i <= j /\ j <= k /\ HomeOf(c, i, j)' = target'[c]
            /\ reply'[c].entries = {Itself(target'[c], slash)} \cup
                                   {Sent(col) : col \in past'[c][k].content[target'[c].path]}
      BY <2>1, <2>4
  <2> QED BY <2>5, <2>6, <2>7, Zenon DEF Answered
<1>4. ListedAHome(c)'
  <2> SUFFICES ASSUME Ok(c)
               PROVE  \E i, j, k \in DOMAIN past'[c] :
                        /\ i <= j /\ j <= k /\ HomeOf(c, i, j)' # None
                        /\ {[cal EXCEPT !.color = None] : cal \in listed[c]} =
                             {Shown(col) : col \in Named(UserCalendars(past'[c][k],
                                                                       HomeOf(c, i, j)'))}
      BY DEF ListedAHome, Ok
  <2>1. PICK i, j, k \in DOMAIN past[c] :
          /\ i <= j /\ j <= k /\ HomeOf(c, i, j) # None
          /\ {[cal EXCEPT !.color = None] : cal \in listed[c]} =
               {Shown(col) : col \in Named(UserCalendars(past[c][k], HomeOf(c, i, j)))}
      BY DEF ListedAHome
  <2>2. past'[c][k] = past[c][k] /\ HomeOf(c, i, j)' = HomeOf(c, i, j)
      BY <1>1
  <2> QED BY <2>1, <2>2
<1>5. Explained(c)'
    BY <1>1 DEF Explained
<1> QED BY <1>2, <1>3, <1>4, <1>5

\* A step of one call, in which the account stays the same.
LEMMA OneCall ==
    ASSUME IInv, NEW c \in Calls, CallInv(c)', TypeOK', account' = account,
           \A d \in Calls : d # c =>
             /\ phase'[d] = phase[d] /\ target'[d] = target[d] /\ reply'[d] = reply[d]
             /\ answer'[d] = answer[d] /\ listed'[d] = listed[d] /\ past'[d] = past[d]
    PROVE  IInv'
<1>1. ASSUME NEW d \in Calls, d # c PROVE CallInv(d)'
  <2>1. CallInv(d) /\ (phase[d] \in Waiting => past'[d] # <<>> /\ past'[d][Len(past'[d])] = account')
      BY <1>1 DEF IInv, CallInv, OnTheWay
  <2> QED BY <1>1, <2>1, CallKept
<1>2. \A d \in Calls : CallInv(d)'
    BY <1>1
<1> QED BY <1>2 DEF IInv, CallInv

-----------------------------------------------------------------------------
(***************************************************************************)
(* Ending a call and sending its next request.                             *)
(***************************************************************************)

\* A call ends with nothing under way; what it claims is for the caller to show.
LEMMA FinishKeeps ==
    ASSUME IInv, NEW c \in Calls,
           NEW what \in {"ok", "not_found", "refused", "timeout",
                         "client_error", "server_error", "xml"},
           Finish(c, what), DOMAIN listed' = Calls,
           \A d \in Calls : d # c => listed'[d] = listed[d],
           ListedAHome(c)', Explained(c)'
    PROVE  IInv'
<1> USE DEF IInv
<1>1. TypeOK'
    BY DEF Finish, TypeOK, server
<1>2. /\ phase'[c] = "done" /\ answer'[c] = what /\ reply'[c] = Nothing
      /\ target' = target /\ past' = past /\ account' = account
      /\ \A d \in Calls : d # c => /\ phase'[d] = phase[d] /\ answer'[d] = answer[d]
                                   /\ reply'[d] = reply[d]
    BY DEF Finish, TypeOK, server
<1>3. OnTheWay(c)' /\ Answered(c)'
    BY <1>2 DEF OnTheWay, Answered, Waiting, Found
<1> QED BY <1>1, <1>2, <1>3, OneCall DEF CallInv

\* Ends that claim neither a list nor a cause.
LEMMA FinishPlainly ==
    ASSUME IInv, NEW c \in Calls,
           NEW what \in {"timeout", "client_error", "server_error", "xml"},
           Finish(c, what), UNCHANGED listed
    PROVE  IInv'
<1>1. answer'[c] = what
    BY DEF Finish, IInv, TypeOK
<1>2. ListedAHome(c)' /\ Explained(c)'
    BY <1>1 DEF ListedAHome, Explained, Ok
<1>3. DOMAIN listed' = Calls
    BY DEF IInv, TypeOK
<1> QED BY <1>2, <1>3, FinishKeeps

\* The next request goes to the base, to where the answer points.
LEMMA SendKeeps ==
    ASSUME IInv, NEW c \in Calls, phase[c] \in Waiting, NEW href \in Href, Resolves(href),
           NEW step \in {"home", "calendars"}, Send(c, href, step), UNCHANGED past,
           step = "home" => \E i \in DOMAIN past[c] : past[c][i].principal = href,
           step = "calendars" =>
             \E i, j \in DOMAIN past[c] : i <= j /\ HomeOf(c, i, j) = href
    PROVE  IInv'
<1> USE DEF IInv
<1>1. TypeOK'
    BY DEF Send, TypeOK, server, Waiting
<1>2. /\ phase'[c] = step /\ target'[c] = href /\ reply'[c] = Nothing
      /\ answer' = answer /\ listed' = listed /\ account' = account
      /\ \A d \in Calls : d # c => /\ phase'[d] = phase[d] /\ target'[d] = target[d]
                                   /\ reply'[d] = reply[d]
    BY DEF Send, TypeOK, server
<1>3. \A i, j : HomeOf(c, i, j)' = HomeOf(c, i, j)
    BY DEF HomeOf
<1>4. answer[c] = "none" /\ past[c] # <<>> /\ past[c][Len(past[c])] = account
    BY DEF OnTheWay, Waiting
<1>5. OnTheWay(c)'
    BY <1>2, <1>3, <1>4 DEF OnTheWay
<1>6. Answered(c)' /\ ListedAHome(c)' /\ Explained(c)'
    BY <1>2, <1>4 DEF Answered, Found, Nothing, ListedAHome, Explained, Ok
<1> QED BY <1>1, <1>2, <1>5, <1>6, OneCall DEF CallInv

-----------------------------------------------------------------------------
(***************************************************************************)
(* The steps of a call.                                                    *)
(***************************************************************************)

\* What the account says is an href, and what it holds is not itself.
LEMMA AccountTyped ==
    ASSUME NEW acc \in Accounts
    PROVE  /\ acc.principal \in Href \cup {None}
           /\ \A p \in Paths : acc.home[p] \in Href \cup {None}
           /\ \A p \in Paths : acc.content[p] \subseteq Collection
           /\ \A p \in Paths : \A col \in acc.content[p] : col.href.path # p
BY DiscoveryAssumption DEF Account

LEMMA HomeTyped ==
    ASSUME TypeOK, NEW c \in Calls, NEW i \in DOMAIN past[c], NEW j \in DOMAIN past[c]
    PROVE  /\ past[c][i] \in Accounts /\ past[c][i].principal \in Href \cup {None}
           /\ HomeOf(c, i, j) \in Href \cup {None}
<1>1. past[c][i] \in Accounts /\ past[c][j] \in Accounts
    BY DEF TypeOK
<1>2. past[c][i].principal # None => past[c][i].principal.path \in Paths
    BY <1>1, AccountTyped DEF Href
<1> QED BY <1>1, <1>2, AccountTyped DEF HomeOf

\* A call starts at the base, with the account of now as its only moment.
LEMMA BeginStep ==
    ASSUME IInv, NEW c \in Calls, Begin(c)
    PROVE  IInv'
<1> DEFINE dav == [origin |-> Relative, path |-> Dav, slash |-> TRUE]
<1> USE DEF IInv
<1>1. dav \in Href /\ Resolves(dav)
    BY DiscoveryAssumption DEF Href, Resolves, Joined
<1>2. Send(c, dav, "principal") /\ phase[c] = "idle" /\ past' = [past EXCEPT ![c] = <<account>>]
    BY DEF Begin
<1> HIDE DEF dav
<1>3. TypeOK'
  <2>1. <<account>> \in Seq(Accounts)
      BY DEF TypeOK
  <2>2. past' \in [Calls -> Seq(Accounts)]
      BY <1>2, <2>1 DEF TypeOK
  <2> QED BY <1>1, <1>2, <2>2 DEF Send, TypeOK, server, Waiting
<1>4. /\ phase'[c] = "principal" /\ target'[c] = dav /\ reply'[c] = Nothing
      /\ answer' = answer /\ listed' = listed /\ account' = account
      /\ past'[c] = <<account>>
      /\ \A d \in Calls : d # c => /\ phase'[d] = phase[d] /\ target'[d] = target[d]
                                   /\ reply'[d] = reply[d] /\ past'[d] = past[d]
    BY <1>2 DEF Send, TypeOK, server
<1>5. answer[c] = "none"
    BY <1>2 DEF OnTheWay
<1>6. OnTheWay(c)'
    BY <1>1, <1>4, <1>5 DEF OnTheWay, Waiting
<1>7. Answered(c)' /\ ListedAHome(c)' /\ Explained(c)'
    BY <1>4, <1>5 DEF Answered, Found, Nothing, ListedAHome, Explained, Ok
<1> QED BY <1>3, <1>4, <1>6, <1>7, OneCall DEF CallInv

\* What the answer says of the principal sends the call there, or ends it.
LEMMA FollowPrincipalStep ==
    ASSUME IInv, NEW c \in Calls, FollowPrincipal(c)
    PROVE  IInv'
<1> USE DEF IInv
<1>1. /\ Found(c, "principal") /\ phase[c] \in Waiting
      /\ \/ reply[c].href = None /\ Finish(c, "not_found") /\ UNCHANGED listed
         \/ reply[c].href # None /\ Ask(c, reply[c].href, "home")
    BY DEF FollowPrincipal, Follow, Found, Waiting
<1>2. PICK i \in DOMAIN past[c] : reply[c].href = past[c][i].principal
    BY <1>1 DEF Answered
<1>3. DOMAIN listed = Calls /\ i \in Nat
    BY DEF TypeOK
<1>4. CASE reply[c].href = None /\ Finish(c, "not_found") /\ UNCHANGED listed
  <2>1. past' = past /\ answer'[c] = "not_found"
      BY <1>4 DEF Finish, TypeOK
  <2>2. HomeOf(c, i, i)' = None
      BY <1>2, <1>4, <2>1 DEF HomeOf
  <2>3. Explained(c)' /\ ListedAHome(c)'
      BY <1>3, <2>1, <2>2 DEF Explained, ListedAHome, Ok
  <2> QED BY <1>3, <1>4, <2>3, FinishKeeps
<1>5. CASE /\ reply[c].href # None /\ ~Resolves(reply[c].href)
           /\ Finish(c, "refused") /\ UNCHANGED listed
  <2>1. past' = past /\ answer'[c] = "refused"
      BY <1>5 DEF Finish, TypeOK
  <2>2. reply[c].href \in {past'[c][i].principal, HomeOf(c, i, i)'} \ {None}
      BY <1>2, <1>5, <2>1
  <2>3. Explained(c)' /\ ListedAHome(c)'
      BY <1>3, <1>5, <2>1, <2>2 DEF Explained, ListedAHome, Ok, Resolves
  <2> QED BY <1>3, <1>5, <2>3, FinishKeeps
<1>6. CASE /\ reply[c].href # None /\ Resolves(reply[c].href)
           /\ Send(c, reply[c].href, "home") /\ UNCHANGED past
  <2>1. reply[c].href \in Href
      BY <1>2, <1>6, HomeTyped
  <2> QED BY <1>1, <1>2, <1>6, <2>1, SendKeeps
<1> QED BY <1>1, <1>4, <1>5, <1>6 DEF Ask

\* What the answer says of the home sends the call there, or ends it.
LEMMA FollowHomeStep ==
    ASSUME IInv, NEW c \in Calls, FollowHome(c)
    PROVE  IInv'
<1> USE DEF IInv
<1>1. /\ Found(c, "home") /\ phase[c] \in Waiting
      /\ \/ reply[c].href = None /\ Finish(c, "not_found") /\ UNCHANGED listed
         \/ reply[c].href # None /\ Ask(c, reply[c].href, "calendars")
    BY DEF FollowHome, Follow, Found, Waiting
<1>2. PICK i, j \in DOMAIN past[c] :
         i <= j /\ past[c][i].principal = target[c] /\ reply[c].href = HomeOf(c, i, j)
    BY <1>1 DEF Answered
<1>3. DOMAIN listed = Calls
    BY DEF TypeOK
<1>4. CASE reply[c].href = None /\ Finish(c, "not_found") /\ UNCHANGED listed
  <2>1. past' = past /\ answer'[c] = "not_found"
      BY <1>4 DEF Finish, TypeOK
  <2>2. HomeOf(c, i, j)' = None
      BY <1>2, <1>4, <2>1 DEF HomeOf
  <2>3. Explained(c)' /\ ListedAHome(c)'
      BY <1>2, <2>1, <2>2 DEF Explained, ListedAHome, Ok
  <2> QED BY <1>3, <1>4, <2>3, FinishKeeps
<1>5. CASE /\ reply[c].href # None /\ ~Resolves(reply[c].href)
           /\ Finish(c, "refused") /\ UNCHANGED listed
  <2>1. past' = past /\ answer'[c] = "refused"
      BY <1>5 DEF Finish, TypeOK
  <2>2. reply[c].href \in {past'[c][i].principal, HomeOf(c, i, j)'} \ {None}
      BY <1>2, <1>5, <2>1 DEF HomeOf
  <2>3. Explained(c)' /\ ListedAHome(c)'
      BY <1>2, <1>5, <2>1, <2>2 DEF Explained, ListedAHome, Ok, Resolves
  <2> QED BY <1>3, <1>5, <2>3, FinishKeeps
<1>6. CASE /\ reply[c].href # None /\ Resolves(reply[c].href)
           /\ Send(c, reply[c].href, "calendars") /\ UNCHANGED past
  <2>1. reply[c].href \in Href
      BY <1>2, <1>6, HomeTyped
  <2> QED BY <1>1, <1>2, <1>6, <2>1, SendKeeps
<1> QED BY <1>1, <1>4, <1>5, <1>6 DEF Ask

\* What is made of an entry is what is to be shown of its collection.
LEMMA SentIsShown ==
    ASSUME NEW col \in Collection
    PROVE  [Calendar(Sent(col)) EXCEPT !.color = None] = Shown(col)
<1>1. /\ Sent(col).href = col.href /\ Sent(col).name = col.name /\ Sent(col).color = None
      /\ Sent(col).ctag = col.ctag /\ Sent(col).components = col.components
    BY DEF Collection, Sent
<1> DEFINE comps == IF col.components = {} THEN {"VEVENT"} ELSE col.components
<1>2. Calendar(Sent(col)) = [href |-> col.href, name |-> col.name, color |-> None,
                             ctag |-> col.ctag, components |-> comps]
    BY <1>1 DEF Calendar
<1>3. Calendar(col) = [href |-> col.href, name |-> col.name, color |-> col.color,
                       ctag |-> col.ctag, components |-> comps]
    BY DEF Calendar
<1> HIDE DEF comps
<1>4. [Calendar(Sent(col)) EXCEPT !.color = None] = Calendar(Sent(col))
    BY <1>2
<1>5. [Calendar(col) EXCEPT !.color = None] = Calendar(Sent(col))
    BY <1>2, <1>3
<1> QED BY <1>4, <1>5 DEF Shown

\* The filter keeps the named calendars of a home, and not the home itself.
LEMMA FilterKeepsCalendars ==
    ASSUME NEW acc \in Accounts, NEW home \in Href, NEW slash \in BOOLEAN
    PROVE  {x \in {Itself(home, slash)} \cup {Sent(col) : col \in acc.content[home.path]} :
              IsListed(x, home)} =
           {Sent(col) : col \in Named(UserCalendars(acc, home))}
<1>1. ~IsListed(Itself(home, slash), home)
    BY DEF IsListed, Itself
<1>2. home.path \in Paths
    BY DEF Href
<1>3. ASSUME NEW col \in acc.content[home.path]
      PROVE  IsListed(Sent(col), home) <=> "calendar" \in col.types /\ col.name # None
  <2>1. col \in Collection /\ col.href.path # home.path
      BY <1>2, AccountTyped
  <2>2. /\ Sent(col).href = col.href /\ Sent(col).types = col.types
        /\ Sent(col).name = col.name
      BY <2>1 DEF Sent, Collection
  <2>3. Trim(col.href).path = col.href.path /\ Trim(home).path = home.path
      BY <2>1 DEF Trim, Href, Collection
  <2> QED BY <2>1, <2>2, <2>3 DEF IsListed
<1> QED BY <1>1, <1>3 DEF Named, UserCalendars

\* What is listed is what the last answer held of the home it was asked of.
LEMMA ListStep ==
    ASSUME IInv, NEW c \in Calls, List(c)
    PROVE  IInv'
<1> USE DEF IInv
<1>1. /\ Found(c, "calendars") /\ Finish(c, "ok") /\ phase[c] \in Waiting
      /\ listed' = [listed EXCEPT ![c] =
                      {Calendar(e) : e \in {x \in reply[c].entries : IsListed(x, target[c])}}]
    BY DEF List, Found, Waiting
<1>2. DOMAIN listed' = Calls /\ \A d \in Calls : d # c => listed'[d] = listed[d]
    BY <1>1 DEF TypeOK
<1>3. PICK i, j, k \in DOMAIN past[c], slash \in BOOLEAN :
        /\ i <= j /\ j <= k /\ HomeOf(c, i, j) = target[c]
        /\ reply[c].entries = {Itself(target[c], slash)} \cup
                              {Sent(col) : col \in past[c][k].content[target[c].path]}
    BY <1>1 DEF Answered
<1>4. target[c] \in Href /\ past[c][k] \in Accounts /\ target[c] # None
    BY <1>1, HomeTyped, DiscoveryAssumption DEF OnTheWay
<1> DEFINE cals == Named(UserCalendars(past[c][k], target[c]))
<1>5. listed'[c] = {Calendar(e) : e \in {Sent(col) : col \in cals}}
  <2>1. {x \in reply[c].entries : IsListed(x, target[c])} = {Sent(col) : col \in cals}
      BY <1>3, <1>4, FilterKeepsCalendars
  <2> QED BY <1>1, <2>1 DEF TypeOK
<1>6. cals \subseteq Collection
  <2>1. target[c].path \in Paths
      BY <1>4 DEF Href
  <2> QED BY <1>4, <2>1, AccountTyped DEF Named, UserCalendars
<1>7. {[cal EXCEPT !.color = None] : cal \in listed'[c]} = {Shown(col) : col \in cals}
    BY <1>5, <1>6, SentIsShown
<1>8. past' = past /\ answer'[c] = "ok"
    BY <1>1 DEF Finish, TypeOK
<1>9. HomeOf(c, i, j)' = target[c]
    BY <1>3, <1>8 DEF HomeOf
<1>10. ListedAHome(c)'
    BY <1>3, <1>4, <1>7, <1>8, <1>9 DEF ListedAHome
<1>11. Explained(c)'
    BY <1>8 DEF Explained
<1> QED BY <1>1, <1>2, <1>10, <1>11, FinishKeeps

-----------------------------------------------------------------------------
(***************************************************************************)
(* The steps of the server and of the account.                             *)
(***************************************************************************)

\* An answer arrives; it fits what was asked at a moment of the call.
LEMMA ReplyKeeps ==
    ASSUME IInv, NEW c \in Calls, phase[c] \in Waiting, NEW what, Reply(c, what),
           what.status = "multistatus" =>
             /\ phase[c] = "principal" => what.href = account.principal
             /\ phase[c] = "home" => what.href = account.home[target[c].path]
             /\ phase[c] = "calendars" =>
                  \E slash \in BOOLEAN :
                    what.entries = {Itself(target[c], slash)} \cup
                                   {Sent(col) : col \in account.content[target[c].path]}
    PROVE  IInv'
<1> USE DEF IInv
<1>1. TypeOK'
    BY DEF Reply, TypeOK, server
<1>2. /\ reply'[c] = what /\ phase' = phase /\ target' = target /\ answer' = answer
      /\ listed' = listed /\ past' = past /\ account' = account
      /\ \A d \in Calls : d # c => reply'[d] = reply[d]
    BY DEF Reply, TypeOK, server
<1>3. \A i, j : HomeOf(c, i, j)' = HomeOf(c, i, j)
    BY <1>2 DEF HomeOf
<1> DEFINE n == Len(past[c])
<1>4. /\ n \in DOMAIN past[c] /\ past[c][n] = account /\ answer[c] = "none"
      /\ \A i \in DOMAIN past[c] : i <= n
  <2>1. past[c] \in Seq(Accounts) /\ past[c] # <<>> /\ past[c][n] = account /\ answer[c] = "none"
      BY DEF TypeOK, OnTheWay, Waiting
  <2> QED BY <2>1
<1>5. OnTheWay(c)'
    BY <1>2, <1>3 DEF OnTheWay
<1>6. ListedAHome(c)' /\ Explained(c)'
    BY <1>2, <1>4 DEF ListedAHome, Explained, Ok
<1>7. Answered(c)'
  <2>1. Found(c, "principal")' =>
          \E i \in DOMAIN past[c] : what.href = past[c][i].principal
      BY <1>2, <1>4 DEF Found
  <2>2. Found(c, "home")' =>
          \E i, j \in DOMAIN past[c] :
            i <= j /\ past[c][i].principal = target[c] /\ what.href = HomeOf(c, i, j)
    <3> SUFFICES ASSUME Found(c, "home")'
                 PROVE  \E i \in DOMAIN past[c] :
                          /\ past[c][i].principal = target[c] /\ i <= n
                          /\ what.href = HomeOf(c, i, n)
        BY <1>4
    <3>1. what.href = account.home[target[c].path] /\ phase[c] = "home"
        BY <1>2 DEF Found
    <3>2. PICK i \in DOMAIN past[c] : past[c][i].principal = target[c]
        BY <3>1 DEF OnTheWay
    <3>3. target[c] # None
        BY DiscoveryAssumption DEF OnTheWay
    <3> QED BY <1>4, <3>1, <3>2, <3>3 DEF HomeOf
  <2>3. Found(c, "calendars")' =>
          \E i, j, k \in DOMAIN past[c], slash \in BOOLEAN :
            /\ i <= j /\ j <= k /\ HomeOf(c, i, j) = target[c]
            /\ what.entries = {Itself(target[c], slash)} \cup
                              {Sent(col) : col \in past[c][k].content[target[c].path]}
    <3> SUFFICES ASSUME Found(c, "calendars")'
                 PROVE  \E i, j \in DOMAIN past[c], slash \in BOOLEAN :
                          /\ i <= j /\ j <= n /\ HomeOf(c, i, j) = target[c]
                          /\ what.entries = {Itself(target[c], slash)} \cup
                               {Sent(col) : col \in past[c][n].content[target[c].path]}
        BY <1>4
    <3>1. phase[c] = "calendars" /\ what.status = "multistatus"
        BY <1>2 DEF Found
    <3>2. PICK i, j \in DOMAIN past[c] : i <= j /\ HomeOf(c, i, j) = target[c]
        BY <3>1 DEF OnTheWay
    <3> QED BY <1>4, <3>1, <3>2
  <2> QED BY <1>2, <1>3, <2>1, <2>2, <2>3 DEF Answered
<1> QED BY <1>1, <1>2, <1>5, <1>6, <1>7, OneCall DEF CallInv

LEMMA ServeStep ==
    ASSUME IInv, NEW c \in Calls, Serve(c)
    PROVE  IInv'
<1>1. CASE ServePrincipal(c)
  <2> DEFINE what == [status |-> "multistatus", href |-> account.principal]
  <2>1. phase[c] = "principal" /\ phase[c] \in Waiting /\ Reply(c, what)
      BY <1>1 DEF ServePrincipal, Unanswered, Waiting
  <2>2. what.href = account.principal
      OBVIOUS
  <2> HIDE DEF what
  <2> QED BY <2>1, <2>2, ReplyKeeps
<1>2. CASE ServeHome(c)
  <2> DEFINE what == [status |-> "multistatus", href |-> account.home[target[c].path]]
  <2>1. phase[c] = "home" /\ phase[c] \in Waiting /\ Reply(c, what)
      BY <1>2 DEF ServeHome, Unanswered, Waiting
  <2>2. what.href = account.home[target[c].path]
      OBVIOUS
  <2> HIDE DEF what
  <2> QED BY <2>1, <2>2, ReplyKeeps
<1>3. CASE ServeCalendars(c)
  <2>1. PICK slash \in BOOLEAN :
          Reply(c, [status |-> "multistatus",
                    entries |-> {Itself(target[c], slash)} \cup
                                {Sent(col) : col \in account.content[target[c].path]}])
      BY <1>3 DEF ServeCalendars
  <2> DEFINE what == [status |-> "multistatus",
                      entries |-> {Itself(target[c], slash)} \cup
                                  {Sent(col) : col \in account.content[target[c].path]}]
  <2>2. phase[c] = "calendars" /\ phase[c] \in Waiting /\ Reply(c, what)
      BY <1>3, <2>1 DEF ServeCalendars, Unanswered, Waiting
  <2>3. what.entries = {Itself(target[c], slash)} \cup
                       {Sent(col) : col \in account.content[target[c].path]}
      OBVIOUS
  <2> HIDE DEF what
  <2> QED BY <2>2, <2>3, ReplyKeeps
<1>4. CASE ServeFailure(c)
  <2>1. PICK status \in {"client_error", "server_error", "xml"} : Reply(c, [status |-> status])
      BY <1>4 DEF ServeFailure
  <2> DEFINE what == [status |-> status]
  <2>2. phase[c] \in Waiting /\ Reply(c, what) /\ what.status # "multistatus"
      BY <1>4, <2>1 DEF ServeFailure
  <2> HIDE DEF what
  <2> QED BY <2>2, ReplyKeeps
<1> QED BY <1>1, <1>2, <1>3, <1>4 DEF Serve

\* The account changes: every call under way has one more moment.
LEMMA ChangeStep ==
    ASSUME IInv, Change
    PROVE  IInv'
<1> USE DEF IInv
<1>1. account' \in Accounts
    BY DEF Change
<1>2. ASSUME NEW c \in Calls
      PROVE  /\ past'[c] \in Seq(Accounts)
             /\ \A i \in DOMAIN past[c] : i \in DOMAIN past'[c] /\ past'[c][i] = past[c][i]
             /\ phase[c] \in Waiting => past'[c] # <<>> /\ past'[c][Len(past'[c])] = account'
  <2>1. past'[c] = IF phase[c] \in Waiting THEN Append(past[c], account') ELSE past[c]
      BY DEF Change
  <2>2. past[c] \in Seq(Accounts)
      BY DEF TypeOK
  <2>3. CASE phase[c] \in Waiting
    <3>1. past'[c] = Append(past[c], account')
        BY <2>1, <2>3
    <3> QED BY <1>1, <2>2, <3>1, AppendProperties
  <2>4. CASE phase[c] \notin Waiting
      BY <2>1, <2>2, <2>4
  <2> QED BY <2>3, <2>4
<1>3. TypeOK'
  <2>1. past' \in [Calls -> Seq(Accounts)]
      BY <1>2 DEF Change
  <2> QED BY <1>1, <2>1 DEF Change, TypeOK
<1>4. ASSUME NEW c \in Calls PROVE CallInv(c)'
    BY <1>2, CallKept DEF Change, CallInv
<1> QED BY <1>3, <1>4 DEF CallInv

-----------------------------------------------------------------------------
(***************************************************************************)
(* The theorems.                                                           *)
(***************************************************************************)

\* The initial states: no call, nothing asked.
LEMMA InitIInv == Init => IInv
<1> SUFFICES ASSUME Init PROVE IInv
    OBVIOUS
<1>1. TypeOK
  <2>1. <<>> \in Seq(Accounts)
      OBVIOUS
  <2> QED BY <2>1 DEF Init, TypeOK
<1>2. \A c \in Calls : OnTheWay(c) /\ Answered(c) /\ ListedAHome(c) /\ Explained(c)
    BY DEF Init, OnTheWay, Answered, Found, Nothing, ListedAHome, Explained, Ok, Waiting
<1> QED BY <1>1, <1>2 DEF IInv

LEMMA NextIInv ==
    ASSUME IInv, [Next]_vars
    PROVE  IInv'
<1>1. ASSUME NEW c \in Calls, Begin(c) PROVE IInv'
    BY <1>1, BeginStep
<1>2. ASSUME NEW c \in Calls, Fail(c) PROVE IInv'
  <2>1. /\ Finish(c, reply[c].status) /\ UNCHANGED listed
        /\ reply[c].status \in {"timeout", "client_error", "server_error", "xml"}
      BY <1>2 DEF Fail
  <2> QED BY <2>1, FinishPlainly
<1>3. ASSUME NEW c \in Calls, FollowPrincipal(c) PROVE IInv'
    BY <1>3, FollowPrincipalStep
<1>4. ASSUME NEW c \in Calls, FollowHome(c) PROVE IInv'
    BY <1>4, FollowHomeStep
<1>5. ASSUME NEW c \in Calls, List(c) PROVE IInv'
    BY <1>5, ListStep
<1>6. ASSUME NEW c \in Calls, GiveUp(c) PROVE IInv'
    BY <1>6, FinishPlainly DEF GiveUp
<1>7. ASSUME NEW c \in Calls, Serve(c) PROVE IInv'
    BY <1>7, ServeStep
<1>8. CASE Change
    BY <1>8, ChangeStep
<1>9. CASE UNCHANGED vars
  <2>1. ASSUME NEW c \in Calls PROVE CallInv(c)'
    <3>1. CallInv(c) /\ (phase[c] \in Waiting => past'[c] # <<>>
                                                 /\ past'[c][Len(past'[c])] = account')
        BY <1>9 DEF IInv, CallInv, OnTheWay, vars
    <3> QED BY <1>9, <3>1, CallKept DEF vars
  <2>2. TypeOK'
      BY <1>9 DEF IInv, TypeOK, vars
  <2> QED BY <2>1, <2>2 DEF IInv, CallInv
<1> QED BY <1>1, <1>2, <1>3, <1>4, <1>5, <1>6, <1>7, <1>8, <1>9 DEF Next, DiscoveryStep

\* However the account changes during a call, what the call was sent to and what
\* it was answered are what the account said, at moments in that order.
THEOREM DiscoveryInvariance == Spec => []IInv
<1>1. IInv /\ [Next]_vars => IInv'
    BY NextIInv
<1> QED BY InitIInv, <1>1, PTL DEF Spec

\* A successful call lists the named calendars of a home of the user, all of them
\* and nothing else.
THEOREM CallsListAHome == Spec => []ListsAHome
<1>1. IInv => ListsAHome
    BY DEF IInv, ListsAHome
<1> QED BY DiscoveryInvariance, <1>1, PTL

\* "Not found" and the refusal of an href have a cause in the account.
THEOREM FailuresAreExplained == Spec => []FailuresExplained
<1>1. IInv => FailuresExplained
    BY DEF IInv, FailuresExplained
<1> QED BY DiscoveryInvariance, <1>1, PTL
=============================================================================
