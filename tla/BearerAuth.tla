------------------------------ MODULE BearerAuth ------------------------------
(***************************************************************************)
(* The bearer gate of /mcp in jwt mode with a JWKS issuer: require_auth    *)
(* (src/auth/metadata.rs), JwtValidator and its key source JwksKeySource   *)
(* (src/auth/validator.rs).  Concurrent requests share one cache of keys   *)
(* by kid, behind a read-write lock that is held for one lookup or one     *)
(* replacement at a time: a request that misses fetches the issuer's       *)
(* document without the lock, replaces the cache by it and looks again.    *)
(* The issuer, which publishes a document and replaces it now and then, is *)
(* external.                                                               *)
(***************************************************************************)
EXTENDS Naturals

CONSTANTS
    Clients,       \* each presents one token, again and again
    Tokens,        \* what a client can present
    Kids,          \* key identifiers
    Keys,          \* signing keys
    Documents,     \* JWKS documents: functions from some kids to keys
    MaxRotations,  \* bound: how often the issuer replaces its document
    None           \* no token, no kid, no document

ASSUME AuthAssumption ==
    /\ Tokens \subseteq [kid : Kids \cup {None}, key : Keys, claims : BOOLEAN]
    /\ Documents \subseteq UNION {[K -> Keys] : K \in SUBSET Kids}
    /\ Documents # {}
    /\ MaxRotations \in Nat
    /\ None \notin Tokens /\ None \notin Kids /\ None \notin Documents

VARIABLES
    current,     \* issuer: the document it publishes
    published,   \* history: every document it has published
    rotations,   \* issuer: how often it replaced its document
    cache,       \* JwksKeySource::cache
    token,       \* the token each client presents, None without a header
    pc,          \* where the check of its request is
    fetched,     \* the document its fetch was answered with
    verdict      \* what became of the request

issuer == <<current, published, rotations>>
vars == <<current, published, rotations, cache, token, pc, fetched, verdict>>

NoKeys == [kid \in {} |-> None]

\* A request passes the gate or is answered 401: it presents no token, the
\* token names no kid or one that is not known, does not verify, or the
\* keys could not be fetched.
Rejections == {"no_token", "no_kid", "unknown_kid", "invalid", "fetch_failed"}

Init ==
    /\ current \in Documents
    /\ published = {current}
    /\ rotations = 0
    /\ cache = NoKeys
    /\ token \in [Clients -> Tokens \cup {None}]
    /\ pc = [c \in Clients |-> "idle"]
    /\ fetched = [c \in Clients |-> None]
    /\ verdict = [c \in Clients |-> "none"]

-----------------------------------------------------------------------------

Decide(c, v) ==
    /\ pc' = [pc EXCEPT ![c] = "idle"]
    /\ verdict' = [verdict EXCEPT ![c] = v]

\* A faulty variant of Verify: the signature is not checked.
VerifyClaimsOnly(c, key) ==
    Decide(c, IF token[c].claims THEN "accepted" ELSE "invalid")

\* decode() checks the signature against the key found, then expiry, issuer
\* and audience; validate() then the scope (claims: all of these hold).
Verify(c, key) ==
    Decide(c, IF token[c].key = key /\ token[c].claims THEN "accepted" ELSE "invalid")

\* require_auth and the start of validate(): no bearer token and no kid are
\* refused at once.
Present(c) ==
    /\ pc[c] = "idle"
    /\ IF token[c] = None THEN Decide(c, "no_token")
       ELSE IF token[c].kid = None THEN Decide(c, "no_kid")
       ELSE /\ pc' = [pc EXCEPT ![c] = "lookup"]
            /\ verdict' = [verdict EXCEPT ![c] = "none"]
    /\ UNCHANGED <<issuer, cache, token, fetched>>

\* A faulty variant of Lookup: a kid that is not cached is unknown.
LookupOnly(c) ==
    /\ pc[c] = "lookup"
    /\ IF token[c].kid \in DOMAIN cache THEN Verify(c, cache[token[c].kid])
                                        ELSE Decide(c, "unknown_kid")
    /\ UNCHANGED <<issuer, cache, token, fetched>>

\* key() under the read lock: a miss goes on to refresh().
Lookup(c) ==
    /\ pc[c] = "lookup"
    /\ IF token[c].kid \in DOMAIN cache
         THEN Verify(c, cache[token[c].kid])
         ELSE pc' = [pc EXCEPT ![c] = "fetch"] /\ UNCHANGED verdict
    /\ UNCHANGED <<issuer, cache, token, fetched>>

\* A faulty variant of FetchFails: there is no timeout.
AnsweredFetchFails(c) ==
    /\ pc[c] = "fetch"
    /\ fetched[c] # None
    /\ Decide(c, "fetch_failed")
    /\ fetched' = [fetched EXCEPT ![c] = None]
    /\ UNCHANGED <<issuer, cache, token>>

\* The fetch fails or takes longer than 30 s, answered or not.
FetchFails(c) ==
    /\ pc[c] = "fetch"
    /\ Decide(c, "fetch_failed")
    /\ fetched' = [fetched EXCEPT ![c] = None]
    /\ UNCHANGED <<issuer, cache, token>>

\* A faulty variant of Replacement: the new keys are added to the old ones.
Merge(document) ==
    [kid \in DOMAIN cache \cup DOMAIN document |->
       IF kid \in DOMAIN document THEN document[kid] ELSE cache[kid]]

\* A faulty variant of Replacement: the cache is cleared under one lock and
\* filled under another, and a lookup comes between.
Cleared(document) == NoKeys

\* What refresh() leaves of the cache: it clears it before it inserts.
Replacement(document) == document

\* A faulty variant of Store: a fetch without an answer is stored as well.
StoreAnyway(c) ==
    /\ pc[c] = "fetch"
    /\ cache' = Replacement(fetched[c])
    /\ fetched' = [fetched EXCEPT ![c] = None]
    /\ pc' = [pc EXCEPT ![c] = "reread"]
    /\ UNCHANGED <<issuer, token, verdict>>

\* refresh() with the fetched document, under the write lock.
Store(c) ==
    /\ pc[c] = "fetch"
    /\ fetched[c] # None
    /\ cache' = Replacement(fetched[c])
    /\ fetched' = [fetched EXCEPT ![c] = None]
    /\ pc' = [pc EXCEPT ![c] = "reread"]
    /\ UNCHANGED <<issuer, token, verdict>>

\* key() looks again, under a read lock of its own.
Reread(c) ==
    /\ pc[c] = "reread"
    /\ IF token[c].kid \in DOMAIN cache THEN Verify(c, cache[token[c].kid])
                                        ELSE Decide(c, "unknown_kid")
    /\ UNCHANGED <<issuer, cache, token, fetched>>

GateStep(c) == Lookup(c) \/ FetchFails(c) \/ Store(c) \/ Reread(c)

\* The issuer answers a fetch with what it publishes at that moment
\* (external); the answer can reach the program much later.
Serve(c) ==
    /\ pc[c] = "fetch"
    /\ fetched[c] = None
    /\ fetched' = [fetched EXCEPT ![c] = current]
    /\ UNCHANGED <<issuer, cache, token, pc, verdict>>

\* The issuer publishes another document (external).
Rotate ==
    /\ rotations < MaxRotations
    /\ current' \in Documents \ {current}
    /\ published' = published \cup {current'}
    /\ rotations' = rotations + 1
    /\ UNCHANGED <<cache, token, pc, fetched, verdict>>

Next ==
    \/ \E c \in Clients : Present(c) \/ GateStep(c) \/ Serve(c)
    \/ Rotate

Spec == Init /\ [][Next]_vars

\* A request being checked is polled to its end, at the latest by the
\* timeout of the fetch; nothing is assumed of the issuer or the clients.
FairSpec == Spec /\ \A c \in Clients : WF_vars(GateStep(c))

-----------------------------------------------------------------------------
(***************************************************************************)
(* Properties.                                                             *)
(***************************************************************************)

CacheType == UNION {[K -> Keys] : K \in SUBSET Kids}

\* Every variable holds a value of its type.
TypeOK ==
    /\ current \in Documents
    /\ published \subseteq Documents
    /\ rotations \in 0..MaxRotations
    /\ cache \in CacheType
    /\ token \in [Clients -> Tokens \cup {None}]
    /\ pc \in [Clients -> {"idle", "lookup", "fetch", "reread"}]
    /\ fetched \in [Clients -> Documents \cup {None}]
    /\ verdict \in [Clients -> Rejections \cup {"none", "accepted"}]

\* However the refreshes of concurrent requests overlap with rotations, the
\* cache is empty or one published document, never a mix of two.
CacheIsOneDocument == cache = NoKeys \/ cache \in published

\* A token verifies under a document: it is signed with the key that the
\* document gives its kid.
VerifiesUnder(t, document) ==
    t.kid \in DOMAIN document /\ document[t.kid] = t.key

\* A request passes only if some document of the issuer vouches for its key.
AcceptedIsVouchedFor ==
    \A c \in Clients : verdict[c] = "accepted" =>
      /\ token[c] # None /\ token[c].claims
      /\ \E document \in published : VerifiesUnder(token[c], document)

\* And is turned away by its key only if some document of the issuer, old or
\* new, does not vouch for it: no overlap of refreshes refuses a token that is
\* good under all of them.
RefusedForItsKey ==
    \A c \in Clients : verdict[c] \in {"unknown_kid", "invalid"} /\ token[c].claims =>
      \E document \in published : ~VerifiesUnder(token[c], document)

Atomic == INSTANCE AtomicAuth WITH checking <- [c \in Clients |-> pc[c] # "idle"]

\* Every behaviour of the gate and its shared cache is one of requests that are
\* judged apart from each other, each against one whole published document.
RequestsAreJudgedApart == Atomic!Spec

\* A request at the gate is decided even when the issuer never answers.
EveryRequestIsDecided ==
    \A c \in Clients : pc[c] # "idle" ~> pc[c] = "idle"

\* The token would pass if the cache held what the issuer publishes.
Valid(c) ==
    token[c] # None /\ token[c].claims /\ VerifiesUnder(token[c], current)

\* The client keeps trying, and the issuer answers in time again and again.
Retries(c) == WF_vars(Present(c)) /\ SF_vars(Serve(c)) /\ SF_vars(Store(c))

\* "key rotation on the issuer side is picked up automatically without a
\* restart" (README): if clients retry, one whose token is valid under what the
\* issuer publishes for good is let in again and again.
RotationIsPickedUp ==
    (\A c \in Clients : Retries(c)) =>
      \A c \in Clients : <>[]Valid(c) => []<>(verdict[c] = "accepted")

-----------------------------------------------------------------------------
(***************************************************************************)
(* The inductive invariant.                                                *)
(***************************************************************************)

IInv ==
    /\ TypeOK
    /\ current \in published
    /\ CacheIsOneDocument
    /\ AcceptedIsVouchedFor
    /\ RefusedForItsKey
    /\ \A c \in Clients :
         /\ fetched[c] # None => fetched[c] \in published
         /\ pc[c] = "reread" => cache \in published
         /\ pc[c] # "idle" => token[c] # None /\ token[c].kid # None
=============================================================================
