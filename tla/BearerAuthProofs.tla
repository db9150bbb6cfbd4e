--------------------------- MODULE BearerAuthProofs ---------------------------
(***************************************************************************)
(* The safety properties of BearerAuth, for every set of clients, tokens   *)
(* and documents, and that it implements AtomicAuth: the gate with its     *)
(* shared cache judges each request apart.                                 *)
(***************************************************************************)
EXTENDS BearerAuth, TLAPS

\* What holds of each client's request.
Checked(c) ==
    /\ fetched[c] # None => fetched[c] \in published
    /\ pc[c] # "idle" => token[c] # None /\ token[c].kid # None
    /\ verdict[c] = "accepted" =>
         /\ token[c] # None /\ token[c].claims
         /\ \E document \in published : VerifiesUnder(token[c], document)
    /\ verdict[c] \in {"unknown_kid", "invalid"} /\ token[c].claims =>
         \E document \in published : ~VerifiesUnder(token[c], document)
    /\ pc[c] = "reread" => cache \in published

LEMMA Parts ==
    IInv <=> /\ TypeOK /\ current \in published /\ CacheIsOneDocument
             /\ \A c \in Clients : Checked(c)
BY DEF IInv, AcceptedIsVouchedFor, RefusedForItsKey, Checked

LEMMA DocumentType == Documents \subseteq CacheType /\ NoKeys \in CacheType
<1>1. NoKeys \in [{} -> Keys]
  BY DEF NoKeys
<1> QED
  BY <1>1, AuthAssumption DEF CacheType

LEMMA InitIInv == Init => IInv
<1> SUFFICES ASSUME Init PROVE IInv
  OBVIOUS
<1>1. TypeOK
  BY DocumentType, AuthAssumption DEF Init, TypeOK
<1>2. current \in published /\ CacheIsOneDocument
  BY DEF Init, CacheIsOneDocument
<1>3. ASSUME NEW c \in Clients PROVE Checked(c)
  BY DEF Init, Checked
<1> QED
  BY <1>1, <1>2, <1>3, Parts

\* A verdict reached with a cached key.
LEMMA VerdictChecked ==
    ASSUME IInv, NEW c \in Clients, pc[c] # "idle",
           token[c].kid \in DOMAIN cache, Verify(c, cache[token[c].kid]),
           UNCHANGED <<issuer, cache, token, fetched>>
    PROVE  Checked(c)'
<1>1. token[c] # None /\ token[c].kid # None /\ (fetched[c] # None => fetched[c] \in published)
  BY Parts DEF Checked
<1>2. pc'[c] = "idle" /\ verdict'[c] =
        IF token[c].key = cache[token[c].kid] /\ token[c].claims THEN "accepted"
                                                               ELSE "invalid"
  BY DEF Verify, Decide, IInv, TypeOK
<1>3. cache \in published
  BY DEF IInv, CacheIsOneDocument, NoKeys
<1>4. ASSUME verdict'[c] = "accepted"
      PROVE  token[c].claims /\ VerifiesUnder(token[c], cache)
  BY <1>2, <1>4 DEF VerifiesUnder
<1>5. ASSUME verdict'[c] = "accepted"
      PROVE  \E document \in published' : VerifiesUnder(token'[c], document)
  BY <1>3, <1>4, <1>5 DEF issuer, VerifiesUnder
<1>6. ASSUME verdict'[c] = "invalid", token[c].claims
      PROVE  \E document \in published' : ~VerifiesUnder(token'[c], document)
  BY <1>2, <1>3, <1>6 DEF issuer, VerifiesUnder
<1>7. verdict'[c] # "unknown_kid"
  BY <1>2
<1> QED
  BY <1>1, <1>2, <1>4, <1>5, <1>6, <1>7 DEF Checked, issuer

\* What the step of one client leaves of the others.
LEMMA OthersChecked ==
    ASSUME IInv, NEW c \in Clients, UNCHANGED <<published, token>>,
           pc'[c] = pc[c], fetched'[c] = fetched[c], verdict'[c] = verdict[c],
           cache' = cache \/ cache' \in published
    PROVE  Checked(c)'
<1>1. Checked(c)
  BY Parts
<1> QED
  BY <1>1 DEF Checked, VerifiesUnder

\* A verdict that lets nothing pass.
LEMMA RejectChecked ==
    ASSUME IInv, NEW c \in Clients, UNCHANGED <<published, token>>,
           fetched'[c] \in {None, fetched[c]}, verdict'[c] # "accepted",
           pc'[c] # "idle" => token[c] # None /\ token[c].kid # None,
           pc'[c] # "reread", verdict'[c] # "invalid",
           verdict'[c] = "unknown_kid" =>
             \E document \in published : ~VerifiesUnder(token[c], document)
    PROVE  Checked(c)'
<1>1. Checked(c)
  BY Parts
<1> QED
  BY <1>1 DEF Checked, VerifiesUnder

-----------------------------------------------------------------------------

LEMMA PresentIInv ==
    ASSUME IInv, NEW c \in Clients, Present(c)
    PROVE  IInv'
<1>1. /\ UNCHANGED <<current, published, rotations, cache, token, fetched>>
      /\ \A d \in Clients \ {c} : pc'[d] = pc[d] /\ verdict'[d] = verdict[d]
      /\ verdict'[c] \in {"none", "no_token", "no_kid"}
      /\ pc'[c] \in {"idle", "lookup"}
      /\ pc'[c] # "idle" => token[c] # None /\ token[c].kid # None
  BY DEF Present, Decide, issuer, IInv, TypeOK
<1>2. TypeOK'
  <2>1. /\ pc' \in [Clients -> {"idle", "lookup", "fetch", "reread"}]
        /\ verdict' \in [Clients -> Rejections \cup {"none", "accepted"}]
    BY DEF Present, Decide, IInv, TypeOK, Rejections
  <2> QED
    BY <1>1, <2>1 DEF IInv, TypeOK
<1>3. \A d \in Clients \ {c} : Checked(d)'
  BY <1>1, OthersChecked
<1>4. Checked(c)'
  <2>1. /\ verdict'[c] \notin {"accepted", "invalid", "unknown_kid"}
        /\ fetched'[c] = fetched[c] /\ pc'[c] # "reread"
    BY <1>1
  <2> QED
    BY <1>1, <2>1, RejectChecked
<1>5. (current \in published /\ CacheIsOneDocument)'
  BY <1>1 DEF IInv, CacheIsOneDocument
<1> QED
  BY <1>2, <1>3, <1>4, <1>5 DEF IInv, AcceptedIsVouchedFor, RefusedForItsKey, Checked

\* Lookup and Reread, when the kid is cached.
LEMMA FoundIInv ==
    ASSUME IInv, NEW c \in Clients, pc[c] # "idle", token[c].kid \in DOMAIN cache,
           Verify(c, cache[token[c].kid]), UNCHANGED <<issuer, cache, token, fetched>>
    PROVE  IInv'
<1>1. \A d \in Clients \ {c} : pc'[d] = pc[d] /\ verdict'[d] = verdict[d]
  BY DEF Verify, Decide, IInv, TypeOK
<1>2. TypeOK'
  <2>1. /\ pc' \in [Clients -> {"idle", "lookup", "fetch", "reread"}]
        /\ verdict' \in [Clients -> Rejections \cup {"none", "accepted"}]
    BY DEF Verify, Decide, IInv, TypeOK, Rejections
  <2> QED
    BY <2>1 DEF IInv, TypeOK, issuer
<1>3. \A d \in Clients \ {c} : Checked(d)'
  BY <1>1, OthersChecked DEF issuer
<1>4. Checked(c)'
  BY VerdictChecked
<1>5. (current \in published /\ CacheIsOneDocument)'
  BY DEF IInv, CacheIsOneDocument, issuer
<1> QED
  BY <1>2, <1>3, <1>4, <1>5 DEF IInv, AcceptedIsVouchedFor, RefusedForItsKey, Checked

\* Lookup, when the kid is not cached, and Serve: the request goes on.
LEMMA GoesOnIInv ==
    ASSUME IInv, NEW c \in Clients, pc[c] # "idle",
           NEW p \in {"fetch", "reread"}, pc' = [pc EXCEPT ![c] = p],
           NEW f \in {None, fetched[c], current}, fetched' = [fetched EXCEPT ![c] = f],
           cache' = cache \/ cache' \in published, p = "reread" => cache' \in published,
           UNCHANGED <<issuer, token, verdict>>
    PROVE  IInv'
<1>1. \A d \in Clients \ {c} : pc'[d] = pc[d] /\ fetched'[d] = fetched[d]
  BY DEF IInv, TypeOK
<1>2. (current \in published /\ CacheIsOneDocument)'
  BY DEF IInv, CacheIsOneDocument, issuer
<1>3. f \in published \cup {None} /\ published \subseteq Documents
  BY Parts DEF Checked, TypeOK
<1>4. TypeOK'
  <2>1. pc' \in [Clients -> {"idle", "lookup", "fetch", "reread"}]
    BY DEF IInv, TypeOK
  <2>2. fetched' \in [Clients -> Documents \cup {None}]
    BY <1>3 DEF IInv, TypeOK
  <2>3. cache' \in CacheType
    BY <1>3, DocumentType DEF IInv, TypeOK
  <2> QED
    BY <2>1, <2>2, <2>3 DEF IInv, TypeOK, issuer
<1>5. \A d \in Clients \ {c} : Checked(d)'
  BY <1>1, OthersChecked DEF issuer
<1>6. Checked(c)'
  <2>1. fetched'[c] = f /\ pc'[c] = p /\ Checked(c)
    BY Parts DEF IInv, TypeOK
  <2> QED
    BY <1>3, <2>1 DEF Checked, VerifiesUnder, issuer
<1> QED
  BY <1>2, <1>4, <1>5, <1>6 DEF IInv, AcceptedIsVouchedFor, RefusedForItsKey, Checked

\* A request is refused with the cache left alone.
LEMMA RefusedIInv ==
    ASSUME IInv, NEW c \in Clients, NEW v \in Rejections \ {"invalid"}, Decide(c, v),
           v = "unknown_kid" => \E document \in published : ~VerifiesUnder(token[c], document),
           NEW f \in {None, fetched[c]}, fetched' = [fetched EXCEPT ![c] = f],
           UNCHANGED <<issuer, cache, token>>
    PROVE  IInv'
<1>1. /\ \A d \in Clients \ {c} :
           pc'[d] = pc[d] /\ fetched'[d] = fetched[d] /\ verdict'[d] = verdict[d]
      /\ pc'[c] = "idle" /\ fetched'[c] = f /\ verdict'[c] = v
  BY DEF Decide, IInv, TypeOK
<1>2. TypeOK'
  <2>1. /\ pc' \in [Clients -> {"idle", "lookup", "fetch", "reread"}]
        /\ verdict' \in [Clients -> Rejections \cup {"none", "accepted"}]
    BY DEF Decide, IInv, TypeOK
  <2>2. fetched' \in [Clients -> Documents \cup {None}]
    BY DEF IInv, TypeOK
  <2> QED
    BY <2>1, <2>2 DEF IInv, TypeOK, issuer
<1>3. \A d \in Clients \ {c} : Checked(d)'
  BY <1>1, OthersChecked DEF issuer
<1>4. Checked(c)'
  BY <1>1, RejectChecked DEF Rejections, issuer
<1>5. (current \in published /\ CacheIsOneDocument)'
  BY DEF IInv, CacheIsOneDocument, issuer
<1> QED
  BY <1>2, <1>3, <1>4, <1>5 DEF IInv, AcceptedIsVouchedFor, RefusedForItsKey, Checked

LEMMA RotateIInv == ASSUME IInv, Rotate PROVE IInv'
<1>1. /\ current' \in Documents /\ published' = published \cup {current'}
      /\ rotations' \in 0..MaxRotations
      /\ UNCHANGED <<cache, token, pc, fetched, verdict>>
  BY AuthAssumption DEF Rotate, IInv, TypeOK
<1>2. TypeOK' /\ (current \in published /\ CacheIsOneDocument)'
  BY <1>1 DEF IInv, TypeOK, CacheIsOneDocument
<1>3. ASSUME NEW c \in Clients PROVE Checked(c)'
  <2>1. Checked(c)
    BY Parts
  <2> QED
    BY <1>1, <2>1 DEF Checked, VerifiesUnder
<1> QED
  BY <1>2, <1>3 DEF IInv, AcceptedIsVouchedFor, RefusedForItsKey, Checked

LEMMA NextIInv == IInv /\ [Next]_vars => IInv'
<1> SUFFICES ASSUME IInv, [Next]_vars PROVE IInv'
  OBVIOUS
<1>1. ASSUME NEW c \in Clients, Present(c) PROVE IInv'
  BY <1>1, PresentIInv
<1>2. ASSUME NEW c \in Clients, Lookup(c) \/ Reread(c) PROVE IInv'
  <2>1. pc[c] # "idle" /\ UNCHANGED <<issuer, cache, token, fetched>>
    BY <1>2 DEF Lookup, Reread
  <2>2. CASE token[c].kid \in DOMAIN cache
    BY <1>2, <2>1, <2>2, FoundIInv DEF Lookup, Reread
  <2>3. CASE token[c].kid \notin DOMAIN cache /\ Lookup(c)
    <3> DEFINE p == "fetch"
    <3>1. pc' = [pc EXCEPT ![c] = p] /\ UNCHANGED verdict /\ p \in {"fetch", "reread"} \ {"reread"}
      BY <2>3 DEF Lookup
    <3>2. fetched' = [fetched EXCEPT ![c] = fetched[c]]
      BY <2>1 DEF IInv, TypeOK
    <3>3. PICK f : f = fetched[c]
      OBVIOUS
    <3> HIDE DEF p
    <3> QED
      BY <2>1, <3>1, <3>2, <3>3, GoesOnIInv
  <2>4. CASE token[c].kid \notin DOMAIN cache /\ Reread(c)
    <3> DEFINE v == "unknown_kid"
    <3>1. Decide(c, v) /\ v \in Rejections \ {"invalid"}
      BY <2>4 DEF Reread, Rejections
    <3>4. \E document \in published : ~VerifiesUnder(token[c], document)
      BY <2>4, Parts DEF Reread, Checked, VerifiesUnder
    <3>2. fetched' = [fetched EXCEPT ![c] = fetched[c]]
      BY <2>1 DEF IInv, TypeOK
    <3>3. PICK f : f = fetched[c]
      OBVIOUS
    <3> HIDE DEF v
    <3> QED
      BY <2>1, <3>1, <3>2, <3>3, <3>4, RefusedIInv
  <2> QED
    BY <1>2, <2>2, <2>3, <2>4
<1>3. ASSUME NEW c \in Clients, FetchFails(c) PROVE IInv'
  <2> DEFINE v == "fetch_failed"
  <2>1. /\ Decide(c, v) /\ v \in Rejections \ {"invalid"} /\ v # "unknown_kid"
        /\ fetched' = [fetched EXCEPT ![c] = None]
        /\ UNCHANGED <<issuer, cache, token>>
    BY <1>3 DEF FetchFails, Rejections
  <2> HIDE DEF v
  <2> QED
    BY <2>1, RefusedIInv
<1>4. ASSUME NEW c \in Clients, Store(c) PROVE IInv'
  <2> DEFINE p == "reread"
  <2>1. /\ pc[c] # "idle" /\ pc' = [pc EXCEPT ![c] = p] /\ p \in {"fetch", "reread"}
        /\ fetched' = [fetched EXCEPT ![c] = None]
        /\ UNCHANGED <<issuer, token, verdict>>
    BY <1>4 DEF Store
  <2>2. cache' \in published
    BY <1>4, Parts DEF Store, Replacement, Checked
  <2> HIDE DEF p
  <2> QED
    BY <2>1, <2>2, GoesOnIInv
<1>5. ASSUME NEW c \in Clients, Serve(c) PROVE IInv'
  <2> DEFINE p == "fetch"
  <2>1. /\ pc[c] # "idle" /\ pc' = [pc EXCEPT ![c] = p] /\ p \in {"fetch", "reread"} \ {"reread"}
        /\ fetched' = [fetched EXCEPT ![c] = current]
        /\ UNCHANGED <<issuer, cache, token, verdict>>
    BY <1>5 DEF Serve, IInv, TypeOK
  <2>2. PICK f : f = current
    OBVIOUS
  <2> HIDE DEF p
  <2> QED
    BY <2>1, <2>2, GoesOnIInv
<1>6. CASE Rotate
  BY <1>6, RotateIInv
<1>7. CASE UNCHANGED vars
  BY <1>7 DEF vars, IInv, TypeOK, CacheIsOneDocument, AcceptedIsVouchedFor,
              RefusedForItsKey, VerifiesUnder
<1> QED
  BY <1>1, <1>2, <1>3, <1>4, <1>5, <1>6, <1>7 DEF Next, GateStep

\* IInv holds in every reachable state.
THEOREM AuthInvariance == Spec => []IInv
BY InitIInv, NextIInv, PTL DEF Spec

\* Type correctness of the cache, the fetches in flight and the verdicts.
THEOREM AuthTypeCorrect == Spec => []TypeOK
<1>1. IInv => TypeOK
  BY DEF IInv
<1> QED
  BY <1>1, AuthInvariance, PTL

\* However refreshes and rotations overlap, the cache is one document of the
\* issuer, whole.
THEOREM CacheIsWhole == Spec => []CacheIsOneDocument
<1>1. IInv => CacheIsOneDocument
  BY DEF IInv
<1> QED
  BY <1>1, AuthInvariance, PTL

\* No token passes the gate that no document of the issuer vouches for.
THEOREM AcceptanceIsJustified == Spec => []AcceptedIsVouchedFor
<1>1. IInv => AcceptedIsVouchedFor
  BY DEF IInv
<1> QED
  BY <1>1, AuthInvariance, PTL

\* A request is turned away by its key only if some document of the issuer does
\* not vouch for it, however the refreshes of others overlap with its own.
THEOREM RefusalIsJustified == Spec => []RefusedForItsKey
<1>1. IInv => RefusedForItsKey
  BY DEF IInv
<1> QED
  BY <1>1, AuthInvariance, PTL

-----------------------------------------------------------------------------
(***************************************************************************)
(* BearerAuth implements AtomicAuth: a request is judged when it finds its *)
(* kid, or does not find it in the cache it has refreshed; the lookups     *)
(* that miss, the fetches and the refreshes are not seen.                  *)
(***************************************************************************)

LEMMA InitAbs == Init => Atomic!Init
<1> SUFFICES ASSUME Init PROVE Atomic!Init
  OBVIOUS
<1>1. [c \in Clients |-> pc[c] # "idle"] = [c \in Clients |-> FALSE]
  BY DEF Init
<1> QED
  BY <1>1 DEF Init, Atomic!Init

\* A step that leaves the published documents and the requests as they are.
LEMMA Stutter ==
    ASSUME UNCHANGED <<published, token, verdict>>,
           \A c \in Clients : pc'[c] = pc[c] \/ (pc[c] # "idle" /\ pc'[c] # "idle")
    PROVE  UNCHANGED Atomic!vars
<1>1. [c \in Clients |-> pc[c] # "idle"]' = [c \in Clients |-> pc[c] # "idle"]
  <2>1. \A c \in Clients : (pc'[c] # "idle") = (pc[c] # "idle")
    OBVIOUS
  <2> QED
    BY <2>1
<1> QED
  BY <1>1 DEF Atomic!vars

\* A check that ends.
LEMMA DecideAbs ==
    ASSUME TypeOK, NEW c \in Clients, NEW v, pc[c] # "idle", Decide(c, v),
           UNCHANGED <<published, token>>
    PROVE  Atomic!End(c, v)
<1>1. /\ pc' = [pc EXCEPT ![c] = "idle"] /\ pc \in [Clients -> {"idle", "lookup", "fetch", "reread"}]
      /\ verdict' = [verdict EXCEPT ![c] = v]
  BY DEF Decide, TypeOK
<1>2. [d \in Clients |-> pc[d] # "idle"]' =
        [[d \in Clients |-> pc[d] # "idle"] EXCEPT ![c] = FALSE]
  <2>1. \A d \in Clients : (pc'[d] # "idle") = IF d = c THEN FALSE ELSE pc[d] # "idle"
    BY <1>1
  <2> QED
    BY <2>1
<1>3. [d \in Clients |-> pc[d] # "idle"][c]
  OBVIOUS
<1> QED
  BY <1>1, <1>2, <1>3 DEF Atomic!End

\* A request that finds its kid is judged by the document in the cache, and one
\* that does not find it there after its refresh likewise.
LEMMA JudgeAbs ==
    ASSUME IInv, NEW c \in Clients, pc[c] # "idle", UNCHANGED <<issuer, token>>,
           \/ token[c].kid \in DOMAIN cache /\ Verify(c, cache[token[c].kid])
           \/ /\ pc[c] = "reread" /\ token[c].kid \notin DOMAIN cache
              /\ Decide(c, "unknown_kid")
    PROVE  Atomic!Judge(c)
<1>1. cache \in published
  BY DEF IInv, CacheIsOneDocument, NoKeys
<1>2. Decide(c, Atomic!Judgement(token[c], cache))
  <2>1. CASE token[c].kid \in DOMAIN cache /\ Verify(c, cache[token[c].kid])
    <3>1. (token[c].key = cache[token[c].kid]) <=> (cache[token[c].kid] = token[c].key)
      OBVIOUS
    <3> QED
      BY <2>1, <3>1 DEF Verify, Atomic!Judgement
  <2>2. CASE token[c].kid \notin DOMAIN cache /\ Decide(c, "unknown_kid")
    BY <2>2 DEF Atomic!Judgement
  <2> QED
    BY <2>1, <2>2
<1>3. \E v : Decide(c, v) /\ v = Atomic!Judgement(token[c], cache)
  BY <1>2
<1>4. PICK v : Decide(c, v) /\ v = Atomic!Judgement(token[c], cache)
  BY <1>3
<1>5. Atomic!End(c, v)
  BY <1>4, DecideAbs DEF IInv, issuer
<1>6. \E document \in published :
        v = Atomic!Judgement(token[c], document) /\ Atomic!End(c, v)
  BY <1>1, <1>4, <1>5
<1> QED
  BY <1>6 DEF Atomic!Judge, Atomic!End

LEMMA PresentAbs ==
    ASSUME IInv, NEW c \in Clients, Present(c)
    PROVE  Atomic!RefuseUnseen(c) \/ Atomic!Begin(c)
<1>1. /\ pc[c] = "idle" /\ UNCHANGED <<published, token>>
      /\ pc \in [Clients -> {"idle", "lookup", "fetch", "reread"}]
  BY DEF Present, issuer, IInv, TypeOK
<1>2. ~[d \in Clients |-> pc[d] # "idle"][c]
  BY <1>1
<1>3. ASSUME token[c] = None \/ token[c].kid = None, NEW v, Decide(c, v)
      PROVE  /\ UNCHANGED [d \in Clients |-> pc[d] # "idle"]
             /\ verdict' = [verdict EXCEPT ![c] = v]
  <2>1. pc' = pc /\ verdict' = [verdict EXCEPT ![c] = v]
    BY <1>1, <1>3 DEF Decide
  <2> QED
    BY <2>1
<1>4. CASE token[c] = None
  BY <1>1, <1>2, <1>3, <1>4 DEF Present, Atomic!RefuseUnseen
<1>5. CASE token[c] # None /\ token[c].kid = None
  BY <1>1, <1>2, <1>3, <1>5 DEF Present, Atomic!RefuseUnseen
<1>6. CASE token[c] # None /\ token[c].kid # None
  <2>1. pc' = [pc EXCEPT ![c] = "lookup"] /\ verdict' = [verdict EXCEPT ![c] = "none"]
    BY <1>6 DEF Present
  <2>2. \A d \in Clients : (pc'[d] # "idle") = IF d = c THEN TRUE ELSE pc[d] # "idle"
    BY <1>1, <2>1
  <2>3. [d \in Clients |-> pc[d] # "idle"]' =
          [[d \in Clients |-> pc[d] # "idle"] EXCEPT ![c] = TRUE]
    BY <2>2
  <2> QED
    BY <1>1, <1>2, <1>6, <2>1, <2>3 DEF Atomic!Begin
<1> QED
  BY <1>4, <1>5, <1>6

\* Every step is a step of requests judged apart or is not seen by them.
LEMMA StepAbs ==
    ASSUME IInv, [Next]_vars
    PROVE  [Atomic!Next]_(Atomic!vars)
<1> USE DEF Atomic!Next
<1>0. pc \in [Clients -> {"idle", "lookup", "fetch", "reread"}]
  BY DEF IInv, TypeOK
<1>1. ASSUME NEW c \in Clients, Present(c) PROVE Atomic!Next
  BY <1>1, PresentAbs
<1>2. ASSUME NEW c \in Clients, Lookup(c) PROVE [Atomic!Next]_(Atomic!vars)
  <2>1. CASE token[c].kid \in DOMAIN cache
    BY <1>2, <2>1, JudgeAbs DEF Lookup
  <2>2. CASE token[c].kid \notin DOMAIN cache
    <3>1. /\ pc[c] = "lookup" /\ pc' = [pc EXCEPT ![c] = "fetch"]
          /\ UNCHANGED <<published, token, verdict>>
      BY <1>2, <2>2 DEF Lookup, issuer
    <3>2. \A d \in Clients : pc'[d] = pc[d] \/ (pc[d] # "idle" /\ pc'[d] # "idle")
      BY <1>0, <3>1
    <3> QED
      BY <3>1, <3>2, Stutter
  <2> QED
    BY <2>1, <2>2
<1>3. ASSUME NEW c \in Clients, FetchFails(c) PROVE Atomic!Next
  <2>1. Atomic!End(c, "fetch_failed")
    BY <1>3, DecideAbs DEF FetchFails, IInv, issuer
  <2> QED
    BY <2>1 DEF Atomic!Fail
<1>4. ASSUME NEW c \in Clients, Store(c) PROVE UNCHANGED Atomic!vars
  <2>1. /\ pc[c] = "fetch" /\ pc' = [pc EXCEPT ![c] = "reread"]
        /\ UNCHANGED <<published, token, verdict>>
    BY <1>4 DEF Store, issuer
  <2>2. \A d \in Clients : pc'[d] = pc[d] \/ (pc[d] # "idle" /\ pc'[d] # "idle")
    BY <1>0, <2>1
  <2> QED
    BY <2>1, <2>2, Stutter
<1>5. ASSUME NEW c \in Clients, Reread(c) PROVE Atomic!Next
  BY <1>5, JudgeAbs DEF Reread
<1>6. ASSUME NEW c \in Clients, Serve(c) PROVE UNCHANGED Atomic!vars
  BY <1>6, Stutter DEF Serve, issuer
<1>7. CASE Rotate
  <2>1. /\ current' \in Documents /\ published' = published \cup {current'}
        /\ UNCHANGED <<token, pc, verdict>>
    BY <1>7 DEF Rotate
  <2> QED
    BY <2>1 DEF Atomic!Publish
<1>8. CASE UNCHANGED vars
  BY <1>8, Stutter DEF vars, issuer
<1> QED
  BY <1>1, <1>2, <1>3, <1>4, <1>5, <1>6, <1>7, <1>8 DEF Next, GateStep

\* Whatever the requests at the gate do to the cache they share, they come out as
\* if each were judged alone against one document of the issuer.
THEOREM AuthRefinement == Spec => RequestsAreJudgedApart
<1>1. IInv /\ [Next]_vars => [Atomic!Next]_(Atomic!vars)
  BY StepAbs
<1> QED
  BY InitAbs, <1>1, AuthInvariance, PTL DEF Spec, RequestsAreJudgedApart, Atomic!Spec
=============================================================================
