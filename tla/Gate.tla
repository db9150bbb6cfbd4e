---------------------------------- MODULE Gate ----------------------------------
(***************************************************************************)
(* From the environment to the answer of a request: start-up               *)
(* (src/main.rs), configuration (src/config.rs), the authenticators        *)
(* (src/auth/authn.rs, src/auth/validator.rs) and the router               *)
(* (src/auth/metadata.rs).  The platform edits the environment, replaces   *)
(* the key file, stops the server and starts it again; clients send        *)
(* requests.  The concurrent refreshes of JWKS keys are in BearerAuth:     *)
(* here a lookup finds the issuer's key or fails.                          *)
(***************************************************************************)
EXTENDS Naturals, Sequences

CONSTANTS
    Clients,
    Environments,  \* what the platform may set
    Texts,         \* the texts variables are set to, but for those below
    Resources,     \* URIs of this server: segments of a path, and a final slash
    Pems,          \* public keys, inline or by the path of their file
    Files,         \* paths of key files
    Contents,      \* what the key files may hold
    Kids, Keys,    \* key identifiers, keys
    IssuerKeys,    \* the keys the issuer publishes at its JWKS URI, by kid
    Credentials,   \* what clients present as bearer tokens
    Paths,         \* what clients ask for, as segments
    Unset, Empty, Blank,  \* no value, "", and white space only
    None           \* no credential, no kid, no key, no check

Variables ==
    {"BIND_ADDR", "FASTMAIL_USERNAME", "FASTMAIL_APP_PASSWORD", "CALDAV_BASE_URL",
     "AUTH_MODE", "RESOURCE_URI", "AUTH_JWKS_URI", "AUTH_JWT_PUBLIC_KEY",
     "AUTH_JWT_ISSUER", "AUTH_JWT_AUDIENCE", "REQUIRED_SCOPE", "MCP_TOKEN"}

Resource == [path : Seq(STRING), slash : BOOLEAN]

\* A token: which of the claims it carries, and what they say (without a scope it
\* has no scopes), or (not a JWT) a text that is only compared.
Claims == {"sub", "exp", "aud", "iss"}

Credential ==
    [jwt : BOOLEAN, text : Texts, kid : Kids \cup {None}, key : Keys,
     claims : SUBSET Claims, expired : BOOLEAN, aud : SUBSET Resources, iss : Texts,
     scopes : SUBSET Texts]

Blanks == {Unset, Empty, Blank}

ASSUME GateAssumption ==
    /\ \A e \in Environments :
         /\ DOMAIN e = Variables
         /\ \A v \in {"RESOURCE_URI", "AUTH_JWT_AUDIENCE"} : e[v] \in Blanks \cup Resources
         /\ e["AUTH_JWT_PUBLIC_KEY"] \in Blanks \cup Pems
         /\ \A v \in Variables \ {"RESOURCE_URI", "AUTH_JWT_AUDIENCE", "AUTH_JWT_PUBLIC_KEY"} :
              e[v] \in Blanks \cup Texts
    /\ Resources \subseteq Resource
    /\ Pems \subseteq [inline : BOOLEAN, holds : Keys \cup Files \cup {None}]
    /\ Contents \subseteq [Files -> Keys \cup {None}]
    /\ IssuerKeys \in [Kids -> Keys \cup {None}]
    /\ Credentials \subseteq Credential
    /\ Paths \subseteq Seq(STRING)
    /\ {"jwt", "token", "none", "caldav"} \subseteq Texts
    /\ (Blanks \cup {None}) \cap Texts = {}
    /\ (Blanks \cup {None}) \cap Resources = {}
    /\ (Blanks \cup {None}) \cap Pems = {}
    /\ Unset # Empty /\ Unset # Blank /\ Empty # Blank /\ None \notin Blanks
    /\ None \notin Keys /\ None \notin Kids /\ None \notin Credentials

VARIABLES
    env,      \* platform: the environment
    files,    \* platform: the key files
    server,   \* "down", "up", or what the start failed on
    running,  \* what the server runs with, while it is up
    boot,     \* history: environment and files of the last start
    phase,    \* of the request of each client
    request,  \* its path and credential
    answer    \* its answer, and the boot it was given under

platform == <<env, files>>
process == <<server, running, boot>>
vars == <<platform, process, phase, request, answer>>

\* What the server keeps of its configuration, and the key it holds.
Stopped ==
    [mode |-> "down", resource |-> None, jwks |-> None, key |-> None, issuer |-> None,
     audience |-> None, scope |-> None, secret |-> None]

NoAnswer == [status |-> "none"]

Init ==
    /\ env \in Environments
    /\ files \in Contents
    /\ server = "down"
    /\ running = Stopped
    /\ boot = [env |-> env, files |-> files]
    /\ phase = [c \in Clients |-> "idle"]
    /\ request = [c \in Clients |-> None]
    /\ answer = [c \in Clients |-> NoAnswer]

-----------------------------------------------------------------------------
(***************************************************************************)
(* Configuration.                                                          *)
(***************************************************************************)

\* getne: empty and blank values are no values.
Given(e, k) == IF e[k] \in Blanks THEN None ELSE e[k]

\* AUTH_MODE is read without getne.
Mode(e) == IF e["AUTH_MODE"] = Unset THEN "jwt" ELSE e["AUTH_MODE"]

\* REQUIRED_SCOPE is too: only "" turns the check off.
RequiredScope(e) ==
    IF e["REQUIRED_SCOPE"] = Empty THEN None
    ELSE IF e["REQUIRED_SCOPE"] = Unset THEN "caldav" ELSE e["REQUIRED_SCOPE"]

\* A faulty variant of OneKeySource: two sources are no error.
SomeKeySource(e) == Given(e, "AUTH_JWKS_URI") # None \/ Given(e, "AUTH_JWT_PUBLIC_KEY") # None

OneKeySource(e) ==
    (Given(e, "AUTH_JWKS_URI") # None) # (Given(e, "AUTH_JWT_PUBLIC_KEY") # None)

\* from_lookup succeeds.
Configured(e) ==
    /\ Given(e, "FASTMAIL_USERNAME") # None
    /\ Given(e, "FASTMAIL_APP_PASSWORD") # None
    /\ \/ Mode(e) = "jwt" /\ Given(e, "RESOURCE_URI") # None /\ OneKeySource(e)
       \/ Mode(e) = "token" /\ Given(e, "MCP_TOKEN") # None
       \/ Mode(e) = "none"

Audience(e) ==
    IF Given(e, "AUTH_JWT_AUDIENCE") = None THEN Given(e, "RESOURCE_URI")
                                            ELSE Given(e, "AUTH_JWT_AUDIENCE")

\* from_pem_or_path: the key of the inline PEM or of the file, None on an error.
KeyOf(pem, f) == IF pem.inline \/ pem.holds = None THEN pem.holds ELSE f[pem.holds]

\* from_lookup and from_config: what the server runs with.
Settings(e, f) ==
    IF Mode(e) = "jwt" THEN
      [mode |-> "jwt", resource |-> Given(e, "RESOURCE_URI"),
       jwks |-> Given(e, "AUTH_JWKS_URI"),
       key |-> IF Given(e, "AUTH_JWT_PUBLIC_KEY") = None THEN None
               ELSE KeyOf(e["AUTH_JWT_PUBLIC_KEY"], f),
       issuer |-> Given(e, "AUTH_JWT_ISSUER"), audience |-> Audience(e),
       scope |-> RequiredScope(e), secret |-> None]
    ELSE [Stopped EXCEPT !.mode = Mode(e), !.secret = Given(e, "MCP_TOKEN")]

\* StaticKeySource: the key is read, once, at the start.
KeyMissing(e, f) ==
    Mode(e) = "jwt" /\ Given(e, "AUTH_JWT_PUBLIC_KEY") # None /\ Settings(e, f).key = None

-----------------------------------------------------------------------------
(***************************************************************************)
(* Start-up and the platform.                                              *)
(***************************************************************************)

\* main: configuration, base URL, authenticator, and the bind, which may fail
\* for reasons of its own.
Start ==
    /\ server # "up"
    /\ boot' = [env |-> env, files |-> files]
    /\ \/ ~Configured(env) /\ server' = "config" /\ UNCHANGED running
       \/ /\ Configured(env) /\ Given(env, "CALDAV_BASE_URL") = "not a URL"
          /\ server' = "config" /\ UNCHANGED running
       \/ /\ Configured(env) /\ Given(env, "CALDAV_BASE_URL") # "not a URL"
          /\ \/ KeyMissing(env, files) /\ server' = "key" /\ UNCHANGED running
             \/ ~KeyMissing(env, files) /\ server' = "bind" /\ UNCHANGED running
             \/ ~KeyMissing(env, files) /\ server' = "up" /\ running' = Settings(env, files)
    /\ UNCHANGED <<platform, phase, request, answer>>

\* A crash or a stop, with every request under way.
Stop ==
    /\ server = "up"
    /\ server' = "down"
    /\ running' = Stopped
    /\ phase' = [c \in Clients |-> IF phase[c] = "pending" THEN "lost" ELSE phase[c]]
    /\ UNCHANGED <<platform, boot, request, answer>>

Edit ==
    /\ env' \in Environments \ {env}
    /\ UNCHANGED <<files, process, phase, request, answer>>

ReplaceKey ==
    /\ files' \in Contents \ {files}
    /\ UNCHANGED <<env, process, phase, request, answer>>

-----------------------------------------------------------------------------
(***************************************************************************)
(* Requests.                                                               *)
(***************************************************************************)

WellKnown == <<".well-known", "oauth-protected-resource">>

\* The URL of the metadata, below the resource without its final slashes.
PrmUrl(cfg) == cfg.resource.path \o WellKnown

\* A faulty variant of Challenge: the same in every mode.
ChallengeAlike(cfg) == [status |-> "unauthorized", url |-> <<>> \o WellKnown]

\* The 401 names the metadata in jwt mode only.
Challenge(cfg) ==
    [status |-> "unauthorized", url |-> IF cfg.mode = "jwt" THEN PrmUrl(cfg) ELSE None]

\* A faulty variant of Metadata: the scope is not told.
MetadataNoScope(cfg) ==
    [status |-> "metadata", resource |-> cfg.resource,
     servers |-> {cfg.issuer} \ {None}, scopes |-> {}]

Metadata(cfg) ==
    [status |-> "metadata", resource |-> cfg.resource,
     servers |-> {cfg.issuer} \ {None}, scopes |-> {cfg.scope} \ {None}]

\* A faulty variant of ValidJwt: the audience of the token is never looked at.
ValidJwtAnywhere(cfg, cred, key) ==
    /\ cred.jwt /\ cred.kid # None
    /\ key # None /\ cred.key = key
    /\ {"sub", "exp"} \subseteq cred.claims /\ ~cred.expired
    /\ cfg.issuer # None /\ "iss" \in cred.claims => cred.iss = cfg.issuer
    /\ cfg.scope # None => cfg.scope \in cred.scopes

\* JwtValidator::validate with the key of the token's kid, None if there is none.
\* Claims cannot be read without a sub, and the library requires exp; it compares
\* an iss or aud that is there, and lets one that is not there pass.
ValidJwt(cfg, cred, key) ==
    /\ cred.jwt /\ cred.kid # None
    /\ key # None /\ cred.key = key
    /\ {"sub", "exp"} \subseteq cred.claims /\ ~cred.expired
    /\ cfg.issuer # None /\ "iss" \in cred.claims => cred.iss = cfg.issuer
    /\ cfg.audience # None /\ "aud" \in cred.claims => cfg.audience \in cred.aud
    /\ cfg.scope # None => cfg.scope \in cred.scopes

\* A faulty variant of Lookups: the file is read at every request.
LookupsAfresh(cfg, cred) ==
    IF cfg.jwks # None THEN {None} \cup {IssuerKeys[k] : k \in Kids \cap {cred.kid}}
    ELSE IF Given(env, "AUTH_JWT_PUBLIC_KEY") = None THEN {None}
    ELSE {KeyOf(env["AUTH_JWT_PUBLIC_KEY"], files)}

\* KeySource::key: the issuer's key for the kid, or a failure; a static key
\* whatever the kid.
Lookups(cfg, cred) ==
    IF cfg.jwks # None THEN {None} \cup {IssuerKeys[k] : k \in Kids \cap {cred.kid}}
                       ELSE {cfg.key}

\* Authenticator::verify
Verified(cfg, cred, key) ==
    IF cfg.mode = "token" THEN cred.text = cfg.secret ELSE ValidJwt(cfg, cred, key)

\* require_auth around the MCP service, in every mode but none.
Gated(cfg, cred, key) ==
    IF cfg.mode = "none" \/ (cred # None /\ Verified(cfg, cred, key))
      THEN [status |-> "served"] ELSE Challenge(cfg)

\* A faulty variant of Route: the gate is a layer around all routes.
RouteLayered(cfg, req, key) ==
    IF Gated(cfg, req.cred, key) # [status |-> "served"] THEN Challenge(cfg)
    ELSE IF req.path # <<>> /\ req.path[1] = "mcp" THEN [status |-> "served"]
    ELSE [status |-> "not_found"]

\* build_router: /healthz and the metadata are public, /mcp and all below it is
\* gated, there is nothing else.
Route(cfg, req, key) ==
    IF req.path = <<"healthz">> THEN [status |-> "healthy"]
    ELSE IF req.path = WellKnown /\ cfg.mode = "jwt" THEN Metadata(cfg)
    ELSE IF req.path # <<>> /\ req.path[1] = "mcp" THEN Gated(cfg, req.cred, key)
    ELSE [status |-> "not_found"]

Ask(c) ==
    /\ server = "up"
    /\ phase[c] # "pending"
    /\ \E path \in Paths, cred \in Credentials \cup {None} :
         request' = [request EXCEPT ![c] = [path |-> path, cred |-> cred]]
    /\ phase' = [phase EXCEPT ![c] = "pending"]
    /\ answer' = [answer EXCEPT ![c] = NoAnswer]
    /\ UNCHANGED <<platform, process>>

Keyed(c) == IF request[c].cred = None THEN {None} ELSE Lookups(running, request[c].cred)

Respond(c) ==
    /\ phase[c] = "pending"
    /\ \E key \in Keyed(c) :
         answer' = [answer EXCEPT ![c] =
                      [boot |-> boot, key |-> key, gives |-> Route(running, request[c], key)]]
    /\ phase' = [phase EXCEPT ![c] = "answered"]
    /\ UNCHANGED <<platform, process, request>>

Next ==
    \/ Start \/ Stop \/ Edit \/ ReplaceKey
    \/ \E c \in Clients : Ask(c) \/ Respond(c)

Spec == Init /\ [][Next]_vars

-----------------------------------------------------------------------------
(***************************************************************************)
(* Properties.                                                             *)
(***************************************************************************)

Boots == [env : Environments, files : Contents]

Requests == [path : Paths, cred : Credentials \cup {None}]

TypeOK ==
    /\ env \in Environments /\ files \in Contents /\ boot \in Boots
    /\ server \in {"down", "up", "config", "key", "bind"}
    /\ phase \in [Clients -> {"idle", "pending", "answered", "lost"}]
    /\ request \in [Clients -> Requests \cup {None}]
    /\ DOMAIN answer = Clients

Answered(c) == phase[c] = "answered"

Gives(c, status) == Answered(c) /\ answer[c].gives.status = status

AtMcp(c) == request[c].path # <<>> /\ request[c].path[1] = "mcp"

\* The keys an environment has a credential checked with: the one the issuer has
\* for its kid, the one that was in the variable or the file at the start.
TrustedKeys(b, cred) ==
    {IssuerKeys[k] : k \in {k \in Kids \cap {cred.kid} :
                              b.env["AUTH_JWKS_URI"] \notin Blanks}}
    \cup {KeyOf(pem, b.files) : pem \in {b.env["AUTH_JWT_PUBLIC_KEY"]} \ Blanks}

\* What a token may claim by the environment (src/README.md:84-92): it is not
\* expired, not of another issuer, not for another audience, and has the scope.
\* The README asks for an aud and, where an issuer is set, an iss; the program
\* passes a token that does not say.
Claimed(e, cred) ==
    /\ {"sub", "exp"} \subseteq cred.claims /\ ~cred.expired
    /\ "iss" \in cred.claims => e["AUTH_JWT_ISSUER"] \in Blanks \cup {cred.iss}
    /\ "aud" \in cred.claims => \E aud \in cred.aud :
         \/ aud = e["AUTH_JWT_AUDIENCE"]
         \/ e["AUTH_JWT_AUDIENCE"] \in Blanks /\ aud = e["RESOURCE_URI"]
    /\ \/ e["REQUIRED_SCOPE"] = Empty
       \/ e["REQUIRED_SCOPE"] = Unset /\ "caldav" \in cred.scopes
       \/ \E s \in cred.scopes : s = e["REQUIRED_SCOPE"]

\* Who may use the tools under a boot (src/README.md:40-53), by its environment
\* and its key files alone.
Permits(b, cred) ==
    \/ b.env["AUTH_MODE"] = "none"
    \/ b.env["AUTH_MODE"] = "token" /\ cred # None /\ cred.text = b.env["MCP_TOKEN"]
    \/ /\ b.env["AUTH_MODE"] \in {"jwt", Unset}
       /\ cred # None /\ cred.jwt /\ cred.kid # None
       /\ cred.key \in TrustedKeys(b, cred)
       /\ Claimed(b.env, cred)

ServedAsPermitted(c) == Gives(c, "served") => Permits(answer[c].boot, request[c].cred)

LookupFailed(c) ==
    answer[c].boot.env["AUTH_JWKS_URI"] \notin Blanks /\ answer[c].key = None

RefusedForACause(c) ==
    Gives(c, "unauthorized") =>
      /\ AtMcp(c)
      /\ ~Permits(answer[c].boot, request[c].cred) \/ LookupFailed(c)

\* What is served is permitted by the environment and the key file the server was
\* started with, whatever has become of them since: no token of another key, for
\* another server or of another issuer passes. (One without aud or iss does.)
ServedIsPermitted == \A c \in Clients : ServedAsPermitted(c)

\* A credential that is permitted is refused only when the issuer's key could not
\* be found, and nothing but /mcp and what is below it is ever refused.
RefusedForCause == \A c \in Clients : RefusedForACause(c)

\* "there is no env-var combination that skips the audience check"
\* (src/README.md:85-86): a server that is up is open only if AUTH_MODE says
\* "none", and otherwise has a secret, or one key source and an audience.
ClosedUnlessOpened ==
    server = "up" =>
      /\ running.mode \in {"none", "token", "jwt"}
      /\ running.mode = "none" => boot.env["AUTH_MODE"] = "none"
      /\ running.mode = "token" => running.secret \in Texts
      /\ running.mode = "jwt" =>
           /\ running.audience \in Resources
           /\ (running.jwks # None) # (running.key # None)
           /\ running.scope = None => boot.env["REQUIRED_SCOPE"] = Empty

\* "a 401 on /mcp carries a WWW-Authenticate header pointing clients at it"
\* (src/README.md:94-96): the URL a 401 names is answered with the metadata just if
\* RESOURCE_URI has no path, as the router serves the metadata at one path only.
ChallengeLeadsToMetadata ==
    \A c \in Clients :
      Gives(c, "unauthorized") /\ answer[c].gives.url # None =>
        LET b == answer[c].boot
            next == [path |-> answer[c].gives.url, cred |-> None]
        IN  Route(Settings(b.env, b.files), next, None).status = "metadata"
              <=> \A uri \in {b.env["RESOURCE_URI"]} \ Blanks : uri.path = <<>>

\* A token that has the scopes the metadata document tells, and claims no audience
\* and no issuer but those it tells.
Follows(cred, document) ==
    /\ "aud" \in cred.claims => document.resource \in cred.aud
    /\ document.scopes \subseteq cred.scopes
    /\ "iss" \in cred.claims => document.servers \subseteq {cred.iss}

\* The metadata document is enough to be let in: a client with a token of the
\* right key made from the document is not refused by the server that publishes
\* it, unless AUTH_JWT_AUDIENCE asks for another audience.
MetadataSuffices ==
    \A c \in Clients :
      Gives(c, "unauthorized") /\ request[c].cred # None =>
        LET b == answer[c].boot
            cred == request[c].cred
            document == Route(Settings(b.env, b.files),
                              [path |-> WellKnown, cred |-> None], None)
        IN  /\ document.status = "metadata"
            /\ b.env["AUTH_JWT_AUDIENCE"] \in Blanks
            /\ Follows(cred, document)
            => \/ ~cred.jwt \/ cred.kid = None
               \/ ~({"sub", "exp"} \subseteq cred.claims) \/ cred.expired
               \/ answer[c].key = None \/ cred.key # answer[c].key

\* A server that is up runs with what it was started with.
AsStarted ==
    IF server = "up"
      THEN /\ Configured(boot.env) /\ ~KeyMissing(boot.env, boot.files)
           /\ running = Settings(boot.env, boot.files)
      ELSE running = Stopped

\* And so did the one that gave an answer, with a key it trusts or none.
AsAnswered(c) ==
    /\ phase[c] = "pending" => server = "up" /\ request[c] \in Requests
    /\ Answered(c) =>
         LET b == answer[c].boot
         IN  /\ b \in Boots /\ Configured(b.env) /\ ~KeyMissing(b.env, b.files)
             /\ request[c] \in Requests
             /\ answer[c].gives = Route(Settings(b.env, b.files), request[c], answer[c].key)
             /\ request[c].cred # None /\ Mode(b.env) = "jwt" =>
                  answer[c].key \in TrustedKeys(b, request[c].cred)
                    \cup {key \in {None} : b.env["AUTH_JWKS_URI"] \notin Blanks}

\* The inductive invariant of Spec (GateProofs).
IInv == TypeOK /\ AsStarted /\ \A c \in Clients : AsAnswered(c)
=============================================================================
