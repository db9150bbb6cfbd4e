--------------------------------- MODULE MCGate ---------------------------------
(* Small environments for TLC: the three modes, what makes them fail to start, *)
(* and tokens that lack one thing each.                                        *)
EXTENDS Gate

CONSTANT c1

\* This server, and another one.
Home == [path |-> <<>>, slash |-> FALSE]
HomeSlash == [path |-> <<>>, slash |-> TRUE]
Other == [path |-> <<"other">>, slash |-> FALSE]
Below == [path |-> <<"mcp">>, slash |-> FALSE]
MCResources == {Home, HomeSlash, Other, Below}

Inline == [inline |-> TRUE, holds |-> "k1"]
Garbled == [inline |-> TRUE, holds |-> None]
InFile == [inline |-> FALSE, holds |-> "key.pem"]
MCPems == {Inline, Garbled, InFile}

MCContents == [{"key.pem"} -> {"k1", "k2"}]

MCIssuerKeys == [k \in {"kid1", "kid2"} |-> IF k = "kid1" THEN "k1" ELSE None]

\* Everything unset but what every mode needs, with the bindings of more on top.
Env(more) ==
    [v \in Variables |-> IF v \in DOMAIN more THEN more[v]
                         ELSE IF v \in {"FASTMAIL_USERNAME", "FASTMAIL_APP_PASSWORD"}
                           THEN "fm" ELSE Unset]

Static(pem) == Env([RESOURCE_URI |-> Home, AUTH_JWT_PUBLIC_KEY |-> pem])

Jwks == Env([AUTH_MODE |-> "jwt", RESOURCE_URI |-> HomeSlash, AUTH_JWKS_URI |-> "keys",
             AUTH_JWT_PUBLIC_KEY |-> Blank, AUTH_JWT_ISSUER |-> "iss"])

Token == Env([AUTH_MODE |-> "token", MCP_TOKEN |-> "secret"])

Open == Env([AUTH_MODE |-> "none"])

\* Two key sources, none, no secret, an unknown mode, no account, and no base URL.
Improper ==
    {[Jwks EXCEPT !["AUTH_JWT_PUBLIC_KEY"] = Inline], [Jwks EXCEPT !["AUTH_JWKS_URI"] = Empty],
     [Token EXCEPT !["MCP_TOKEN"] = Blank], [Open EXCEPT !["AUTH_MODE"] = "secret"],
     [Open EXCEPT !["FASTMAIL_USERNAME"] = Empty],
     [Open EXCEPT !["CALDAV_BASE_URL"] = "not a URL"], Static(Garbled)}

\* One of each mode, one without a scope, one with a scope no token has and an
\* audience of its own, these two with a path in their URI, and the improper ones.
MCEnvironments ==
    {Static(InFile), Jwks, Token, Open} \cup Improper \cup
    {[Static(Inline) EXCEPT !["REQUIRED_SCOPE"] = Empty, !["RESOURCE_URI"] = Other],
     [Jwks EXCEPT !["REQUIRED_SCOPE"] = Blank, !["AUTH_JWT_AUDIENCE"] = Other,
                  !["RESOURCE_URI"] = Below]}

Good ==
    [jwt |-> TRUE, text |-> "jwt", kid |-> "kid1", key |-> "k1", claims |-> Claims,
     expired |-> FALSE, aud |-> {Home, HomeSlash}, iss |-> "iss", scopes |-> {"caldav"}]

Secret == [Good EXCEPT !.jwt = FALSE, !.text = "secret"]

\* A good token, the shared secret, a token of another key, one each without a kid,
\* for another audience, of another issuer and with another scope, and one each
\* without one of the claims.
MCCredentials ==
    {Good, Secret, [Good EXCEPT !.key = "k2"], [Good EXCEPT !.kid = None],
     [Good EXCEPT !.aud = {Other}], [Good EXCEPT !.iss = "other"],
     [Good EXCEPT !.scopes = {"other"}]} \cup
    {[Good EXCEPT !.claims = Claims \ {claim}] : claim \in Claims}

MCPaths ==
    {<<"healthz">>, <<".well-known", "oauth-protected-resource">>, <<"mcp">>,
     <<"mcp", ".well-known", "oauth-protected-resource">>}
=============================================================================
