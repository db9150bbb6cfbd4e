------------------------------- MODULE GateProofs -------------------------------
(***************************************************************************)
(* Proofs about Gate: for every environment, key file and token, what a    *)
(* server serves is what the environment it was started with permits.      *)
(***************************************************************************)
EXTENDS Gate, TLAPS, SequenceTheorems

-----------------------------------------------------------------------------
(***************************************************************************)
(* What a start makes of an environment.                                   *)
(***************************************************************************)

\* The parts of the settings, by mode.
LEMMA SettingsOf ==
    ASSUME NEW e, NEW f
    PROVE  LET cfg == Settings(e, f)
           IN  /\ cfg.mode = Mode(e)
               /\ Mode(e) # "jwt" =>
                    /\ cfg.secret = Given(e, "MCP_TOKEN")
                    /\ cfg.jwks = None /\ cfg.key = None
               /\ Mode(e) = "jwt" =>
                    /\ cfg.resource = Given(e, "RESOURCE_URI")
                    /\ cfg.jwks = Given(e, "AUTH_JWKS_URI")
                    /\ Given(e, "AUTH_JWT_PUBLIC_KEY") = None => cfg.key = None
                    /\ Given(e, "AUTH_JWT_PUBLIC_KEY") # None =>
                         cfg.key = KeyOf(e["AUTH_JWT_PUBLIC_KEY"], f)
                    /\ cfg.issuer = Given(e, "AUTH_JWT_ISSUER")
                    /\ cfg.audience = Audience(e)
                    /\ cfg.scope = RequiredScope(e)
<1>1. CASE Mode(e) = "jwt"
    BY <1>1 DEF Settings
<1>2. CASE Mode(e) # "jwt"
    BY <1>2 DEF Settings, Stopped
<1> QED BY <1>1, <1>2

\* No value of an environment is None: Given tells apart what is given.
LEMMA GivenOf ==
    ASSUME NEW b \in Boots, NEW v \in Variables
    PROVE  /\ b.env[v] # None
           /\ b.env[v] \in Blanks => Given(b.env, v) = None
           /\ b.env[v] \notin Blanks => Given(b.env, v) = b.env[v]
           /\ (Given(b.env, v) = None) <=> (b.env[v] \in Blanks)
<1>1. b.env \in Environments
    BY DEF Boots
<1>2. b.env[v] # None
  <2>1. CASE v \in {"RESOURCE_URI", "AUTH_JWT_AUDIENCE"}
      BY <1>1, <2>1, GateAssumption
  <2>2. CASE v = "AUTH_JWT_PUBLIC_KEY"
      BY <1>1, <2>2, GateAssumption
  <2>3. CASE v \notin {"RESOURCE_URI", "AUTH_JWT_AUDIENCE", "AUTH_JWT_PUBLIC_KEY"}
      BY <1>1, <2>3, GateAssumption
  <2> QED BY <2>1, <2>2, <2>3
<1> QED BY <1>2 DEF Given

Proper(b) == b \in Boots /\ Configured(b.env) /\ ~KeyMissing(b.env, b.files)

\* The keys that may be used for a token.
Candidates(b, cred) ==
    TrustedKeys(b, cred) \cup {key \in {None} : b.env["AUTH_JWKS_URI"] \notin Blanks}

\* A lookup gives a key that the environment trusts, or fails with JWKS.
LEMMA LookupsTrusted ==
    ASSUME NEW b, Proper(b), Mode(b.env) = "jwt", NEW cred \in Credentials,
           NEW key \in Lookups(Settings(b.env, b.files), cred)
    PROVE  key \in Candidates(b, cred)
<1> DEFINE cfg == Settings(b.env, b.files)
<1>1. b \in Boots /\ OneKeySource(b.env)
    BY DEF Proper, Configured
<1>2. {"AUTH_JWKS_URI", "AUTH_JWT_PUBLIC_KEY"} \subseteq Variables
    BY DEF Variables
<1>3. /\ cfg.jwks = Given(b.env, "AUTH_JWKS_URI")
      /\ Given(b.env, "AUTH_JWT_PUBLIC_KEY") # None =>
           cfg.key = KeyOf(b.env["AUTH_JWT_PUBLIC_KEY"], b.files)
    BY SettingsOf
<1> HIDE DEF cfg
<1>4. /\ (Given(b.env, "AUTH_JWKS_URI") = None) <=> (b.env["AUTH_JWKS_URI"] \in Blanks)
      /\ (Given(b.env, "AUTH_JWT_PUBLIC_KEY") = None)
           <=> (b.env["AUTH_JWT_PUBLIC_KEY"] \in Blanks)
    BY <1>1, <1>2, GivenOf
<1>5. key \in Lookups(cfg, cred)
    BY DEF cfg
<1>6. CASE b.env["AUTH_JWKS_URI"] \notin Blanks
    BY <1>3, <1>4, <1>5, <1>6 DEF Lookups, Candidates, TrustedKeys
<1>7. CASE b.env["AUTH_JWKS_URI"] \in Blanks
  <2>1. b.env["AUTH_JWT_PUBLIC_KEY"] \notin Blanks
      BY <1>1, <1>4, <1>7 DEF OneKeySource
  <2>2. key = KeyOf(b.env["AUTH_JWT_PUBLIC_KEY"], b.files)
      BY <1>3, <1>4, <1>5, <1>7, <2>1 DEF Lookups
  <2> QED BY <2>1, <2>2 DEF Candidates, TrustedKeys
<1> QED BY <1>6, <1>7

\* Of two keys that may be used for a token, one is that of a lookup that failed.
LEMMA OneKey ==
    ASSUME NEW b, Proper(b), Mode(b.env) = "jwt", NEW cred \in Credentials,
           NEW key \in Candidates(b, cred), NEW other \in TrustedKeys(b, cred)
    PROVE  key = other \/ (key = None /\ b.env["AUTH_JWKS_URI"] \notin Blanks)
<1>1. b \in Boots /\ OneKeySource(b.env)
    BY DEF Proper, Configured
<1>2. {"AUTH_JWKS_URI", "AUTH_JWT_PUBLIC_KEY"} \subseteq Variables
    BY DEF Variables
<1>3. /\ (Given(b.env, "AUTH_JWKS_URI") = None) <=> (b.env["AUTH_JWKS_URI"] \in Blanks)
      /\ (Given(b.env, "AUTH_JWT_PUBLIC_KEY") = None)
           <=> (b.env["AUTH_JWT_PUBLIC_KEY"] \in Blanks)
    BY <1>1, <1>2, GivenOf
<1>4. (b.env["AUTH_JWKS_URI"] \in Blanks) # (b.env["AUTH_JWT_PUBLIC_KEY"] \in Blanks)
    BY <1>1, <1>3 DEF OneKeySource
<1>5. CASE b.env["AUTH_JWKS_URI"] \notin Blanks
    BY <1>4, <1>5 DEF Candidates, TrustedKeys
<1>6. CASE b.env["AUTH_JWKS_URI"] \in Blanks
    BY <1>4, <1>6 DEF Candidates, TrustedKeys
<1> QED BY <1>5, <1>6

\* The checks of the settings are those of the environment.
LEMMA ClaimsChecked ==
    ASSUME NEW b, Proper(b), Mode(b.env) = "jwt", NEW cred \in Credentials
    PROVE  LET cfg == Settings(b.env, b.files)
           IN  Claimed(b.env, cred) <=>
                 /\ {"sub", "exp"} \subseteq cred.claims /\ ~cred.expired
                 /\ cfg.issuer # None /\ "iss" \in cred.claims => cred.iss = cfg.issuer
                 /\ cfg.audience # None /\ "aud" \in cred.claims =>
                      cfg.audience \in cred.aud
                 /\ cfg.scope # None => cfg.scope \in cred.scopes
<1> DEFINE e == b.env
           cfg == Settings(b.env, b.files)
<1>1. b \in Boots /\ e \in Environments
    BY DEF Proper, Boots
<1>2. {"AUTH_JWT_ISSUER", "AUTH_JWT_AUDIENCE", "RESOURCE_URI", "REQUIRED_SCOPE"} \subseteq Variables
    BY DEF Variables
<1>3. Given(e, "RESOURCE_URI") # None
    BY DEF Proper, Configured
<1>4. /\ cfg.issuer = Given(e, "AUTH_JWT_ISSUER") /\ cfg.audience = Audience(e)
      /\ cfg.scope = RequiredScope(e)
    BY SettingsOf
<1>5. cred.iss \in Texts /\ cred.iss \notin Blanks
    BY GateAssumption DEF Credential
<1> HIDE DEF cfg
<1>6. e["AUTH_JWT_ISSUER"] \in Blanks \cup {cred.iss}
        <=> (cfg.issuer # None => cred.iss = cfg.issuer)
    BY <1>1, <1>2, <1>4, GivenOf
<1>7. (\E aud \in cred.aud :
          \/ aud = e["AUTH_JWT_AUDIENCE"]
          \/ e["AUTH_JWT_AUDIENCE"] \in Blanks /\ aud = e["RESOURCE_URI"])
        <=> (cfg.audience # None => cfg.audience \in cred.aud)
  <2>1. cred.aud \subseteq Resources
      BY GateAssumption DEF Credential
  <2>2. \A aud \in cred.aud : aud \notin Blanks
      BY <2>1, GateAssumption
  <2>3. CASE e["AUTH_JWT_AUDIENCE"] \in Blanks
    <3>1. cfg.audience = e["RESOURCE_URI"] /\ cfg.audience # None
        BY <1>1, <1>2, <1>3, <1>4, <2>3, GivenOf DEF Audience
    <3> QED BY <2>2, <2>3, <3>1
  <2>4. CASE e["AUTH_JWT_AUDIENCE"] \notin Blanks
    <3>1. cfg.audience = e["AUTH_JWT_AUDIENCE"] /\ cfg.audience # None
        BY <1>1, <1>2, <1>4, <2>4, GivenOf DEF Audience
    <3> QED BY <2>4, <3>1
  <2> QED BY <2>3, <2>4
<1>8. (\/ e["REQUIRED_SCOPE"] = Empty
       \/ e["REQUIRED_SCOPE"] = Unset /\ "caldav" \in cred.scopes
       \/ \E s \in cred.scopes : s = e["REQUIRED_SCOPE"])
        <=> (cfg.scope # None => cfg.scope \in cred.scopes)
  <2>1. cred.scopes \subseteq Texts /\ Unset \notin Texts /\ "caldav" # None /\ Unset # Empty
      BY GateAssumption DEF Credential, Blanks
  <2>2. e["REQUIRED_SCOPE"] # None
      BY <1>1, <1>2, GivenOf
  <2> QED BY <1>4, <2>1, <2>2 DEF RequiredScope
<1> QED BY <1>6, <1>7, <1>8 DEF Claimed, cfg

\* What require_auth lets in, and what it refuses.
LEMMA Verdict ==
    ASSUME NEW b, Proper(b), NEW cred \in Credentials, NEW key,
           Mode(b.env) = "jwt" => key \in Candidates(b, cred)
    PROVE  /\ Mode(b.env) # "none" /\ Verified(Settings(b.env, b.files), cred, key)
                => Permits(b, cred)
           /\ Permits(b, cred) =>
                \/ Mode(b.env) = "none"
                \/ Verified(Settings(b.env, b.files), cred, key)
                \/ b.env["AUTH_JWKS_URI"] \notin Blanks /\ key = None
<1> DEFINE e == b.env
           cfg == Settings(b.env, b.files)
<1>1. b \in Boots /\ Mode(e) \in {"jwt", "token", "none"}
    BY DEF Proper, Configured
<1>2. cred # None
    BY GateAssumption
<1>3. /\ Mode(e) = "jwt" <=> e["AUTH_MODE"] \in {"jwt", Unset}
      /\ Mode(e) = "token" <=> e["AUTH_MODE"] = "token"
      /\ Mode(e) = "none" <=> e["AUTH_MODE"] = "none"
  <2>1. Unset \notin Texts /\ {"jwt", "token", "none"} \subseteq Texts
      BY GateAssumption DEF Blanks
  <2> QED BY <2>1 DEF Mode
<1>4. cfg.mode = Mode(e)
    BY SettingsOf
<1>5. CASE Mode(e) = "none"
    BY <1>5
<1>6. CASE Mode(e) = "token"
  <2>1. cfg.secret = Given(e, "MCP_TOKEN") /\ Given(e, "MCP_TOKEN") # None
      BY <1>6, SettingsOf DEF Proper, Configured
  <2>2. cfg.secret = e["MCP_TOKEN"]
      BY <2>1 DEF Given
  <2>3. Verified(cfg, cred, key) <=> cred.text = e["MCP_TOKEN"]
      BY <1>4, <1>6, <2>2 DEF Verified
  <2> QED BY <1>2, <1>3, <1>6, <2>3 DEF Permits
<1>7. CASE Mode(e) = "jwt"
  <2>1. Verified(cfg, cred, key) <=>
          /\ cred.jwt /\ cred.kid # None /\ key # None /\ cred.key = key
          /\ Claimed(e, cred)
      BY <1>4, <1>7, ClaimsChecked DEF Verified, ValidJwt
  <2>2. Permits(b, cred) <=>
          /\ cred.jwt /\ cred.kid # None /\ cred.key \in TrustedKeys(b, cred)
          /\ Claimed(e, cred)
      BY <1>2, <1>3, <1>7 DEF Permits
  <2>3. key \in Candidates(b, cred)
      BY <1>7
  <2>4. key # None => key \in TrustedKeys(b, cred)
      BY <2>3 DEF Candidates
  <2>5. cred.key \in TrustedKeys(b, cred) =>
          key = cred.key \/ (key = None /\ e["AUTH_JWKS_URI"] \notin Blanks)
      BY <1>7, <2>3, OneKey
  <2>6. cred.key # None
      BY GateAssumption DEF Credential
  <2> QED BY <2>1, <2>2, <2>4, <2>5, <2>6
<1> QED BY <1>1, <1>5, <1>6, <1>7

-----------------------------------------------------------------------------
(***************************************************************************)
(* The invariant.                                                          *)
(***************************************************************************)

LEMMA InitIInv == Init => IInv
<1> SUFFICES ASSUME Init PROVE IInv
    OBVIOUS
<1>1. TypeOK
    BY DEF Init, TypeOK, Boots
<1>2. AsStarted
    BY DEF Init, AsStarted
<1>3. \A c \in Clients : AsAnswered(c)
    BY DEF Init, AsAnswered, Answered
<1> QED BY <1>1, <1>2, <1>3 DEF IInv

\* A request that a step leaves alone.
LEMMA OthersKept ==
    ASSUME NEW c \in Clients, AsAnswered(c),
           phase'[c] = phase[c] \/ phase'[c] = "lost",
           request'[c] = request[c], answer'[c] = answer[c],
           phase'[c] = "pending" => server' = "up"
    PROVE  AsAnswered(c)'
<1>1. phase'[c] = "pending" => server' = "up" /\ request'[c] \in Requests
    BY DEF AsAnswered
<1>2. Answered(c)' => Answered(c)
    BY DEF Answered
<1> QED BY <1>1, <1>2 DEF AsAnswered

\* Of any path and credential, what may be looked up is trusted.
LEMMA RespondTrusted ==
    ASSUME IInv, NEW c \in Clients, phase[c] = "pending", NEW key \in Keyed(c)
    PROVE  /\ Proper(boot) /\ request[c] \in Requests
           /\ running = Settings(boot.env, boot.files)
           /\ request[c].cred # None /\ Mode(boot.env) = "jwt" =>
                key \in Candidates(boot, request[c].cred)
<1>1. server = "up" /\ request[c] \in Requests
    BY DEF IInv, AsAnswered
<1>2. Proper(boot) /\ running = Settings(boot.env, boot.files)
    BY <1>1 DEF IInv, TypeOK, AsStarted, Proper
<1>3. request[c].cred # None => request[c].cred \in Credentials
    BY <1>1 DEF Requests
<1> QED BY <1>1, <1>2, <1>3, LookupsTrusted DEF Keyed

LEMMA StartIInv == ASSUME IInv, Start PROVE IInv'
<1>1. UNCHANGED <<env, files, phase, request, answer>> /\ server # "up"
    BY DEF Start, platform
<1>2. boot' = [env |-> env, files |-> files] /\ boot' \in Boots
    BY DEF Start, IInv, TypeOK, Boots
<1>3. boot'.env = env /\ boot'.files = files
    BY <1>2
<1>4. TypeOK'
    BY <1>1, <1>2 DEF Start, IInv, TypeOK
<1>5. AsStarted'
  <2>1. running = Stopped
      BY <1>1 DEF IInv, AsStarted
  <2>2. CASE server' = "up"
    <3>1. Configured(env) /\ ~KeyMissing(env, files) /\ running' = Settings(env, files)
        BY <2>2 DEF Start
    <3> QED BY <1>3, <2>2, <3>1 DEF AsStarted
  <2>3. CASE server' # "up"
      BY <2>1, <2>3 DEF Start, AsStarted
  <2> QED BY <2>2, <2>3
<1>6. ASSUME NEW c \in Clients PROVE AsAnswered(c)'
    BY <1>1, OthersKept DEF IInv, AsAnswered
<1> QED BY <1>4, <1>5, <1>6 DEF IInv

LEMMA StopIInv == ASSUME IInv, Stop PROVE IInv'
<1>1. TypeOK'
    BY DEF Stop, IInv, TypeOK, platform
<1>2. AsStarted'
    BY DEF Stop, AsStarted
<1>3. ASSUME NEW c \in Clients PROVE AsAnswered(c)'
  <2>1. phase'[c] = "lost" \/ (phase'[c] = phase[c] /\ phase'[c] # "pending")
      BY DEF Stop
  <2>2. request'[c] = request[c] /\ answer'[c] = answer[c]
      BY DEF Stop
  <2>3. AsAnswered(c)
      BY DEF IInv
  <2> QED BY <2>1, <2>2, <2>3, OthersKept
<1> QED BY <1>1, <1>2, <1>3 DEF IInv

\* The platform and what is unset leave the process and the requests alone.
LEMMA PlatformIInv ==
    ASSUME IInv, env' \in Environments, files' \in Contents,
           UNCHANGED <<process, phase, request, answer>>
    PROVE  IInv'
<1>1. TypeOK'
    BY DEF IInv, TypeOK, process
<1>2. AsStarted'
    BY DEF IInv, AsStarted, process
<1>3. ASSUME NEW c \in Clients PROVE AsAnswered(c)'
    BY OthersKept DEF IInv, AsAnswered, process
<1> QED BY <1>1, <1>2, <1>3 DEF IInv

LEMMA AskIInv == ASSUME IInv, NEW c \in Clients, Ask(c) PROVE IInv'
<1>1. UNCHANGED <<env, files, server, running, boot>> /\ server = "up"
    BY DEF Ask, platform, process
<1>2. PICK path \in Paths, cred \in Credentials \cup {None} :
         request' = [request EXCEPT ![c] = [path |-> path, cred |-> cred]]
    BY DEF Ask
<1>3. [path |-> path, cred |-> cred] \in Requests
    BY DEF Requests
<1>4. phase' = [phase EXCEPT ![c] = "pending"] /\ answer' = [answer EXCEPT ![c] = NoAnswer]
    BY DEF Ask
<1>5. TypeOK'
    BY <1>1, <1>2, <1>3, <1>4 DEF IInv, TypeOK
<1>6. AsStarted'
    BY <1>1 DEF IInv, AsStarted
<1>7. ASSUME NEW d \in Clients PROVE AsAnswered(d)'
  <2>1. CASE d = c
    <3>1. phase'[c] = "pending" /\ request'[c] \in Requests /\ server' = "up"
        BY <1>1, <1>2, <1>3, <1>4 DEF IInv, TypeOK
    <3> QED BY <2>1, <3>1 DEF AsAnswered, Answered
  <2>2. CASE d # c
    <3>1. phase'[d] = phase[d] /\ request'[d] = request[d] /\ answer'[d] = answer[d]
        BY <1>2, <1>4, <2>2 DEF IInv, TypeOK
    <3> QED BY <1>1, <3>1, OthersKept DEF IInv
  <2> QED BY <2>1, <2>2
<1> QED BY <1>5, <1>6, <1>7 DEF IInv

LEMMA RespondIInv == ASSUME IInv, NEW c \in Clients, Respond(c) PROVE IInv'
<1>1. UNCHANGED <<env, files, server, running, boot, request>> /\ phase[c] = "pending"
    BY DEF Respond, platform, process
<1>2. PICK key \in Keyed(c) :
         answer' = [answer EXCEPT ![c] =
                      [boot |-> boot, key |-> key, gives |-> Route(running, request[c], key)]]
    BY DEF Respond
<1>3. phase' = [phase EXCEPT ![c] = "answered"]
    BY DEF Respond
<1>4. TypeOK'
    BY <1>1, <1>2, <1>3 DEF IInv, TypeOK
<1>5. AsStarted'
    BY <1>1 DEF IInv, AsStarted
<1>6. ASSUME NEW d \in Clients PROVE AsAnswered(d)'
  <2>1. CASE d = c
    <3>1. phase'[c] = "answered" /\ request'[c] = request[c]
        BY <1>1, <1>3 DEF IInv, TypeOK
    <3>2. /\ answer'[c].boot = boot /\ answer'[c].key = key
          /\ answer'[c].gives = Route(running, request[c], key)
        BY <1>2 DEF IInv, TypeOK
    <3>3. /\ Proper(boot) /\ request[c] \in Requests
          /\ running = Settings(boot.env, boot.files)
          /\ request[c].cred # None /\ Mode(boot.env) = "jwt" =>
               key \in Candidates(boot, request[c].cred)
        BY <1>1, RespondTrusted
    <3> QED BY <2>1, <3>1, <3>2, <3>3 DEF AsAnswered, Proper, Candidates
  <2>2. CASE d # c
    <3>1. phase'[d] = phase[d] /\ request'[d] = request[d] /\ answer'[d] = answer[d]
        BY <1>1, <1>2, <1>3, <2>2 DEF IInv, TypeOK
    <3>2. AsAnswered(d)
        BY DEF IInv
    <3>3. phase'[d] = "pending" => server' = "up"
        BY <1>1, <3>1, <3>2 DEF AsAnswered
    <3> QED BY <3>1, <3>2, <3>3, OthersKept
  <2> QED BY <2>1, <2>2
<1> QED BY <1>4, <1>5, <1>6 DEF IInv

LEMMA NextIInv == IInv /\ [Next]_vars => IInv'
<1> SUFFICES ASSUME IInv, [Next]_vars PROVE IInv'
    OBVIOUS
<1>1. CASE Start
    BY <1>1, StartIInv
<1>2. CASE Stop
    BY <1>2, StopIInv
<1>3. CASE Edit
    BY <1>3, PlatformIInv DEF Edit, IInv, TypeOK
<1>4. CASE ReplaceKey
    BY <1>4, PlatformIInv DEF ReplaceKey, IInv, TypeOK
<1>5. CASE \E c \in Clients : Ask(c)
    BY <1>5, AskIInv
<1>6. CASE \E c \in Clients : Respond(c)
    BY <1>6, RespondIInv
<1>7. CASE UNCHANGED vars
    BY <1>7, PlatformIInv DEF vars, platform, IInv, TypeOK
<1> QED BY <1>1, <1>2, <1>3, <1>4, <1>5, <1>6, <1>7 DEF Next

\* A server that is up runs with what its environment and its key file were when
\* it was started, and every answer is that of such a server, with a key that
\* environment trusts.
THEOREM GateInvariance == Spec => []IInv
<1>1. Init => IInv
    BY InitIInv
<1>2. IInv /\ [Next]_vars => IInv'
    BY NextIInv
<1> QED BY <1>1, <1>2, PTL DEF Spec

-----------------------------------------------------------------------------
(***************************************************************************)
(* What follows.                                                           *)
(***************************************************************************)

\* What a route gives, of the statuses that matter.
LEMMA RouteGives ==
    ASSUME NEW cfg, NEW req, NEW key
    PROVE  /\ Route(cfg, req, key).status = "served" =>
                Gated(cfg, req.cred, key).status = "served"
           /\ Route(cfg, req, key).status = "unauthorized" =>
                /\ req.path # <<>> /\ req.path[1] = "mcp"
                /\ Gated(cfg, req.cred, key).status = "unauthorized"
BY DEF Route, Metadata

LEMMA GatedGives ==
    ASSUME NEW cfg, NEW cred, NEW key
    PROVE  /\ Gated(cfg, cred, key).status = "served" =>
                cfg.mode = "none" \/ (cred # None /\ Verified(cfg, cred, key))
           /\ Gated(cfg, cred, key).status = "unauthorized" =>
                cfg.mode # "none" /\ (cred = None \/ ~Verified(cfg, cred, key))
BY DEF Gated, Challenge

\* The boot, the settings and the key of an answer.
LEMMA AnswerOf ==
    ASSUME IInv, NEW c \in Clients, Answered(c)
    PROVE  LET b == answer[c].boot  cred == request[c].cred
           IN  /\ Proper(b) /\ cred \in Credentials \cup {None}
               /\ Settings(b.env, b.files).mode = Mode(b.env)
               /\ answer[c].gives = Route(Settings(b.env, b.files), request[c], answer[c].key)
               /\ cred # None /\ Mode(b.env) = "jwt" => answer[c].key \in Candidates(b, cred)
<1>1. AsAnswered(c)
    BY DEF IInv
<1>2. request[c].cred \in Credentials \cup {None}
    BY <1>1 DEF AsAnswered, Requests
<1>3. Settings(answer[c].boot.env, answer[c].boot.files).mode = Mode(answer[c].boot.env)
    BY SettingsOf
<1> QED BY <1>1, <1>2, <1>3 DEF AsAnswered, Proper, Candidates

\* Only the value "none" is the mode "none".
LEMMA OpenMode == ASSUME NEW e PROVE Mode(e) = "none" => e["AUTH_MODE"] = "none"
BY DEF Mode

LEMMA ServedPermitted == IInv => ServedIsPermitted
<1> SUFFICES ASSUME IInv, NEW c \in Clients, Gives(c, "served")
             PROVE  Permits(answer[c].boot, request[c].cred)
    BY DEF ServedIsPermitted, ServedAsPermitted
<1> DEFINE b == answer[c].boot
           cred == request[c].cred
           cfg == Settings(b.env, b.files)
<1>1. Answered(c) /\ answer[c].gives.status = "served"
    BY DEF Gives
<1>2. /\ Proper(b) /\ cred \in Credentials \cup {None} /\ cfg.mode = Mode(b.env)
      /\ answer[c].gives = Route(cfg, request[c], answer[c].key)
      /\ cred # None /\ Mode(b.env) = "jwt" => answer[c].key \in Candidates(b, cred)
    BY <1>1, AnswerOf
<1>3. cfg.mode = "none" \/ (cred # None /\ Verified(cfg, cred, answer[c].key))
    BY <1>1, <1>2, RouteGives, GatedGives
<1>4. CASE Mode(b.env) = "none"
    BY <1>4, OpenMode DEF Permits
<1>5. CASE Mode(b.env) # "none"
    BY <1>2, <1>3, <1>5, Verdict
<1> QED BY <1>4, <1>5

LEMMA RefusedCaused == IInv => RefusedForCause
<1> SUFFICES ASSUME IInv, NEW c \in Clients, Gives(c, "unauthorized")
             PROVE  /\ AtMcp(c)
                    /\ ~Permits(answer[c].boot, request[c].cred) \/ LookupFailed(c)
    BY DEF RefusedForCause, RefusedForACause
<1> DEFINE b == answer[c].boot
           cred == request[c].cred
           cfg == Settings(b.env, b.files)
<1>1. Answered(c) /\ answer[c].gives.status = "unauthorized"
    BY DEF Gives
<1>2. /\ Proper(b) /\ cred \in Credentials \cup {None} /\ cfg.mode = Mode(b.env)
      /\ answer[c].gives = Route(cfg, request[c], answer[c].key)
      /\ cred # None /\ Mode(b.env) = "jwt" => answer[c].key \in Candidates(b, cred)
    BY <1>1, AnswerOf
<1>3. AtMcp(c) /\ Gated(cfg, cred, answer[c].key).status = "unauthorized"
    BY <1>1, <1>2, RouteGives DEF AtMcp
<1>4. Mode(b.env) # "none" /\ (cred = None \/ ~Verified(cfg, cred, answer[c].key))
    BY <1>2, <1>3, GatedGives
<1>5. CASE cred = None
  <2>1. "none" \in Texts /\ Unset \notin Texts
      BY GateAssumption DEF Blanks
  <2>2. b.env["AUTH_MODE"] # "none"
      BY <1>4, <2>1 DEF Mode
  <2> QED BY <1>3, <1>5, <2>2 DEF Permits
<1>6. CASE cred # None
    BY <1>2, <1>3, <1>4, <1>6, Verdict DEF LookupFailed
<1> QED BY <1>5, <1>6

\* What is served is permitted by the environment of the server's start.
THEOREM ServedOnlyIfPermitted == Spec => []ServedIsPermitted
BY GateInvariance, ServedPermitted, PTL

\* A permitted credential is refused only when its key could not be found.
THEOREM RefusedOnlyForCause == Spec => []RefusedForCause
BY GateInvariance, RefusedCaused, PTL

LEMMA StartedClosed == IInv => ClosedUnlessOpened
<1> SUFFICES ASSUME IInv, server = "up" PROVE ClosedUnlessOpened
    BY DEF ClosedUnlessOpened
<1> DEFINE e == boot.env
<1>1. /\ boot \in Boots /\ Configured(e) /\ ~KeyMissing(e, boot.files)
      /\ running = Settings(e, boot.files)
    BY DEF IInv, TypeOK, AsStarted
<1>2. {"MCP_TOKEN", "RESOURCE_URI", "AUTH_JWT_AUDIENCE",
         "AUTH_JWKS_URI", "AUTH_JWT_PUBLIC_KEY", "REQUIRED_SCOPE"} \subseteq Variables
    BY DEF Variables
<1>3. running.mode = Mode(e) /\ Mode(e) \in {"none", "token", "jwt"}
    BY <1>1, SettingsOf DEF Configured
<1>4. e \in Environments
    BY <1>1 DEF Boots
<1>5. running.mode = "none" => e["AUTH_MODE"] = "none"
    BY <1>3, OpenMode
<1>6. running.mode = "token" => running.secret \in Texts
  <2> SUFFICES ASSUME running.mode = "token" PROVE running.secret \in Texts
      OBVIOUS
  <2>1. running.secret = Given(e, "MCP_TOKEN") /\ Given(e, "MCP_TOKEN") # None
      BY <1>1, <1>3, SettingsOf DEF Configured
  <2>2. e["MCP_TOKEN"] \in Blanks \cup Texts
      BY <1>2, <1>4, GateAssumption
  <2> QED BY <2>1, <2>2 DEF Given
<1>7. running.mode = "jwt" =>
        /\ running.audience \in Resources
        /\ (running.jwks # None) # (running.key # None)
        /\ running.scope = None => e["REQUIRED_SCOPE"] = Empty
  <2> SUFFICES ASSUME Mode(e) = "jwt"
               PROVE  /\ running.audience \in Resources
                      /\ (running.jwks # None) # (running.key # None)
                      /\ running.scope = None => e["REQUIRED_SCOPE"] = Empty
      BY <1>3
  <2>1. /\ running.jwks = Given(e, "AUTH_JWKS_URI")
        /\ Given(e, "AUTH_JWT_PUBLIC_KEY") = None => running.key = None
        /\ running.audience = Audience(e) /\ running.scope = RequiredScope(e)
      BY <1>1, SettingsOf
  <2>2. Given(e, "RESOURCE_URI") # None /\ OneKeySource(e)
      BY <1>1 DEF Configured
  <2>3. running.audience \in Resources
    <3>1. \A v \in {"RESOURCE_URI", "AUTH_JWT_AUDIENCE"} : e[v] \in Blanks \cup Resources
        BY <1>4, GateAssumption
    <3> QED BY <2>1, <2>2, <3>1 DEF Audience, Given
  <2>4. Given(e, "AUTH_JWT_PUBLIC_KEY") # None => running.key # None
      BY <1>1 DEF KeyMissing
  <2>5. running.scope = None => e["REQUIRED_SCOPE"] = Empty
    <3>1. e["REQUIRED_SCOPE"] # None
        BY <1>1, <1>2, GivenOf
    <3>2. None \notin Texts /\ "caldav" \in Texts
        BY GateAssumption
    <3> QED BY <2>1, <3>1, <3>2 DEF RequiredScope
  <2> QED BY <2>1, <2>2, <2>3, <2>4, <2>5 DEF OneKeySource
<1> QED BY <1>3, <1>5, <1>6, <1>7 DEF ClosedUnlessOpened

\* No combination of variables opens the server but AUTH_MODE "none", and none
\* skips the audience check.
THEOREM StartsClosed == Spec => []ClosedUnlessOpened
BY GateInvariance, StartedClosed, PTL

\* Of the routes, the metadata has one path of its own.
LEMMA MetadataRoute ==
    ASSUME NEW cfg, cfg.mode = "jwt", NEW path
    PROVE  Route(cfg, [path |-> path, cred |-> None], None).status = "metadata"
             <=> path = WellKnown
<1>1. WellKnown # <<"healthz">>
    BY DEF WellKnown
<1>2. Metadata(cfg).status = "metadata"
    BY DEF Metadata
<1>3. Gated(cfg, None, None).status # "metadata"
    BY DEF Gated, Challenge
<1> QED BY <1>1, <1>2, <1>3 DEF Route

\* The URL of the metadata is its path just if the URI has none.
LEMMA PathOfMetadata ==
    ASSUME NEW cfg, cfg.resource \in Resources
    PROVE  PrmUrl(cfg) = WellKnown <=> cfg.resource.path = <<>>
<1> DEFINE p == cfg.resource.path
           w == WellKnown
           x == ".well-known"
           y == "oauth-protected-resource"
           S == STRING \cup {x, y}
<1>1. p \in Seq(S) /\ w \in Seq(S) /\ Len(w) = 2
  <2>1. p \in Seq(STRING)
      BY GateAssumption DEF Resource
  <2>2. w = <<x, y>>
      BY DEF WellKnown
  <2> HIDE DEF p, w, x, y
  <2>3. p \in Seq(S)
      BY <2>1
  <2>4. <<x, y>> \in Seq(S) /\ Len(<<x, y>>) = 2
      OBVIOUS
  <2> HIDE DEF S
  <2> QED BY <2>2, <2>3, <2>4
<1> HIDE DEF S
<1> HIDE DEF p, w
<1>2. Len(p \o w) = Len(p) + Len(w)
    BY <1>1, ConcatProperties
<1>3. CASE p = <<>>
  <2>1. p \o w = w
      BY <1>1, <1>3
  <2> QED BY <1>3, <2>1 DEF PrmUrl, p, w
<1>4. CASE p # <<>>
  <2>1. Len(p) # 0
      BY <1>1, <1>4
  <2>2. p \o w # w
      BY <1>1, <1>2, <2>1
  <2> QED BY <1>4, <2>2 DEF PrmUrl, p, w
<1> QED BY <1>3, <1>4

LEMMA ChallengesLead == IInv => ChallengeLeadsToMetadata
<1> SUFFICES ASSUME IInv, NEW c \in Clients, Gives(c, "unauthorized"),
                    answer[c].gives.url # None
             PROVE  Route(Settings(answer[c].boot.env, answer[c].boot.files),
                          [path |-> answer[c].gives.url, cred |-> None], None).status
                      = "metadata"
                    <=> \A uri \in {answer[c].boot.env["RESOURCE_URI"]} \ Blanks :
                          uri.path = <<>>
    BY DEF ChallengeLeadsToMetadata
<1> DEFINE b == answer[c].boot
           cfg == Settings(b.env, b.files)
           url == answer[c].gives.url
<1>1. Answered(c) /\ answer[c].gives.status = "unauthorized"
    BY DEF Gives
<1>2. /\ Proper(b) /\ cfg.mode = Mode(b.env)
      /\ answer[c].gives = Route(cfg, request[c], answer[c].key)
    BY <1>1, AnswerOf
<1>3. answer[c].gives = Challenge(cfg)
    BY <1>1, <1>2 DEF Route, Metadata, Gated
<1>4. cfg.mode = "jwt" /\ url = PrmUrl(cfg)
    BY <1>3 DEF Challenge
<1>5. cfg.resource = Given(b.env, "RESOURCE_URI") /\ Given(b.env, "RESOURCE_URI") # None
    BY <1>2, <1>4, SettingsOf DEF Proper, Configured
<1>6. /\ cfg.resource = b.env["RESOURCE_URI"] /\ b.env["RESOURCE_URI"] \notin Blanks
      /\ cfg.resource \in Resources
  <2>1. b.env["RESOURCE_URI"] \in Blanks \cup Resources
      BY <1>2, GateAssumption DEF Proper, Boots
  <2> QED BY <1>5, <2>1 DEF Given
<1> HIDE DEF cfg
<1>7. url = WellKnown <=> cfg.resource.path = <<>>
    BY <1>4, <1>6, PathOfMetadata
<1>8. Route(cfg, [path |-> url, cred |-> None], None).status = "metadata"
        <=> url = WellKnown
    BY <1>4, MetadataRoute
<1>9. (\A uri \in {b.env["RESOURCE_URI"]} \ Blanks : uri.path = <<>>)
        <=> cfg.resource.path = <<>>
    BY <1>6
<1> HIDE DEF url
<1>10. Route(cfg, [path |-> url, cred |-> None], None).status = "metadata"
         <=> \A uri \in {b.env["RESOURCE_URI"]} \ Blanks : uri.path = <<>>
    BY <1>7, <1>8, <1>9
<1> QED BY <1>10 DEF cfg, url

\* Whatever the mode and the environment, the URL a 401 names is answered with the
\* metadata if the server's URI has no path, and only then.
THEOREM ChallengeIsAnswered == Spec => []ChallengeLeadsToMetadata
BY GateInvariance, ChallengesLead, PTL

LEMMA DocumentSuffices == IInv => MetadataSuffices
<1> SUFFICES ASSUME IInv, NEW c \in Clients, Gives(c, "unauthorized"),
                    request[c].cred # None,
                    Route(Settings(answer[c].boot.env, answer[c].boot.files),
                          [path |-> WellKnown, cred |-> None], None).status = "metadata",
                    answer[c].boot.env["AUTH_JWT_AUDIENCE"] \in Blanks,
                    Follows(request[c].cred,
                            Route(Settings(answer[c].boot.env, answer[c].boot.files),
                                  [path |-> WellKnown, cred |-> None], None)),
                    request[c].cred.jwt, request[c].cred.kid # None,
                    {"sub", "exp"} \subseteq request[c].cred.claims,
                    ~request[c].cred.expired,
                    answer[c].key # None, request[c].cred.key = answer[c].key
             PROVE  FALSE
    BY DEF MetadataSuffices
<1> DEFINE b == answer[c].boot
           cred == request[c].cred
           cfg == Settings(b.env, b.files)
           document == Route(cfg, [path |-> WellKnown, cred |-> None], None)
<1>1. /\ Proper(b) /\ cfg.mode = Mode(b.env)
      /\ answer[c].gives = Route(cfg, request[c], answer[c].key)
    BY AnswerOf DEF Gives
<1>2. document.status = "metadata" /\ Follows(cred, document)
    OBVIOUS
<1> HIDE DEF cfg
<1>3. document = Metadata(cfg) /\ cfg.mode = "jwt"
    BY <1>2 DEF Route, Gated, Challenge, WellKnown
<1> HIDE DEF document
<1>4. ~ValidJwt(cfg, cred, answer[c].key)
  <2>1. Gated(cfg, cred, answer[c].key).status = "unauthorized"
      BY <1>1, RouteGives DEF Gives
  <2> QED BY <1>3, <2>1, GatedGives DEF Verified
<1>5. cfg.resource = Given(b.env, "RESOURCE_URI") /\ cfg.audience = cfg.resource
    BY <1>1, <1>3, SettingsOf DEF cfg, Audience, Given
<1>6. cfg.issuer # None /\ "iss" \in cred.claims => cred.iss = cfg.issuer
    BY <1>2, <1>3 DEF Follows, Metadata
<1>7. cfg.scope # None => cfg.scope \in cred.scopes
    BY <1>2, <1>3 DEF Follows, Metadata
<1>8. "aud" \in cred.claims => cfg.audience \in cred.aud
    BY <1>2, <1>3, <1>5 DEF Follows, Metadata
<1> QED BY <1>4, <1>6, <1>7, <1>8 DEF ValidJwt

\* A token of the right key made from the metadata document is not refused.
THEOREM DocumentIsEnough == Spec => []MetadataSuffices
BY GateInvariance, DocumentSuffices, PTL
=============================================================================
