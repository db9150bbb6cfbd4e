------------------------------ MODULE AtomicAuth ------------------------------
(***************************************************************************)
(* What the bearer gate promises of a JWKS issuer.  A request with a token *)
(* that names a kid is judged in one step, against one whole document that *)
(* the issuer has published, old or new, or is turned away because the     *)
(* keys could not be fetched.  There is no cache here, no fetch and no     *)
(* lock, and no request has anything to do with another.                   *)
(***************************************************************************)

CONSTANTS Clients, Tokens, Documents, None

VARIABLES
    published,  \* every document the issuer has published
    token,      \* the token each client presents, None without a header
    checking,   \* whether a request of the client is being checked
    verdict     \* what became of the last one

vars == <<published, token, checking, verdict>>

Init ==
    /\ \E document \in Documents : published = {document}
    /\ token \in [Clients -> Tokens \cup {None}]
    /\ checking = [c \in Clients |-> FALSE]
    /\ verdict = [c \in Clients |-> "none"]

\* What a token is worth under one document.
Judgement(t, document) ==
    IF t.kid \notin DOMAIN document THEN "unknown_kid"
    ELSE IF document[t.kid] = t.key /\ t.claims THEN "accepted"
    ELSE "invalid"

\* A request without a token, or whose token has no kid, is refused unseen.
RefuseUnseen(c) ==
    /\ ~checking[c]
    /\ \/ token[c] = None /\ verdict' = [verdict EXCEPT ![c] = "no_token"]
       \/ /\ token[c] # None /\ token[c].kid = None
          /\ verdict' = [verdict EXCEPT ![c] = "no_kid"]
    /\ UNCHANGED <<published, token, checking>>

Begin(c) ==
    /\ ~checking[c]
    /\ token[c] # None /\ token[c].kid # None
    /\ checking' = [checking EXCEPT ![c] = TRUE]
    /\ verdict' = [verdict EXCEPT ![c] = "none"]
    /\ UNCHANGED <<published, token>>

End(c, v) ==
    /\ checking[c]
    /\ checking' = [checking EXCEPT ![c] = FALSE]
    /\ verdict' = [verdict EXCEPT ![c] = v]
    /\ UNCHANGED <<published, token>>

Judge(c) == \E document \in published : End(c, Judgement(token[c], document))

Fail(c) == End(c, "fetch_failed")

Publish ==
    /\ \E document \in Documents : published' = published \cup {document}
    /\ UNCHANGED <<token, checking, verdict>>

Next ==
    \/ \E c \in Clients : RefuseUnseen(c) \/ Begin(c) \/ Judge(c) \/ Fail(c)
    \/ Publish

Spec == Init /\ [][Next]_vars
=============================================================================
