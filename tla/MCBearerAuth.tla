----------------------------- MODULE MCBearerAuth -----------------------------
(* Small instances of BearerAuth for TLC: an issuer that introduces a key,    *)
(* withdraws the old one, and, in Reissued, gives an old kid a new key.       *)
EXTENDS BearerAuth, TLC

CONSTANTS k1, k2, a, b

Token(kid, key, claims) == [kid |-> kid, key |-> key, claims |-> claims]

\* Both keys, an expired token, a foreign signature, no kid.
MCTokens ==
    {Token(k1, a, TRUE), Token(k2, b, TRUE), Token(k2, b, FALSE),
     Token(k1, b, TRUE), Token(None, a, TRUE)}

First == k1 :> a

Both == k1 :> a @@ k2 :> b

Second == k2 :> b

\* Each kid names one key.
Rotated == {First, Both, Second}

\* A kid is given a new key.
Reissued == {k1 :> a, k1 :> b}
=============================================================================
