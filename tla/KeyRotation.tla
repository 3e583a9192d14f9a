---------------------------- MODULE KeyRotation ----------------------------
(***************************************************************************)
(* The key that signs access and refresh tokens, while it is rotated.      *)
(* Each auth-service pod signs with the key it started with and publishes  *)
(* that one key as its JWKS (pkg/authn/authn.go); the other services fetch *)
(* the JWKS from whichever pod answers, at start and every 15 minutes      *)
(* (pkg/authn/jwks_loader.go).  One session is followed.                   *)
(***************************************************************************)
EXTENDS FiniteSets, Naturals

CONSTANTS AuthPods,      \* pods of auth-service
          Verifiers,     \* services that verify access tokens
          MaxKeyId,      \* bound: signing keys there will be
          MaxKeyFaults   \* bound: failed JWKS fetches

ASSUME KeyAssumption == MaxKeyId \in Nat \ {0} /\ MaxKeyFaults \in Nat

VARIABLES secret,    \* the newest key in Secret Manager
          podKey,    \* the key each pod signs with
          keySet,    \* each verifier's keys, and what was true when it fetched them
          session,   \* the session's tokens, and what was true when they were issued
          verdict,   \* the last verification, by a verifier or by a pod
          keyFaults

keyVars == <<secret, podKey, keySet, session, verdict, keyFaults>>
KeyIds == 1..MaxKeyId

NoVerdict == [ok |-> TRUE, explained |-> FALSE]
Published == {podKey[p] : p \in AuthPods}

KeyTypeOK ==
  /\ secret \in KeyIds /\ podKey \in [AuthPods -> KeyIds] /\ keyFaults \in 0..MaxKeyFaults
  /\ \A v \in Verifiers : keySet[v].keys \subseteq KeyIds /\ keySet[v].seen \subseteq KeyIds
  /\ session.access \in KeyIds \union {0} /\ session.refresh \in KeyIds
  /\ session.seen \subseteq KeyIds /\ session.state \in {"open", "closed"}

\* Issuer.Issue: both tokens carry the id of the pod's key.
Issue(p) == [access |-> podKey[p], refresh |-> podKey[p], seen |-> Published, state |-> "open"]

\* Issuer.PublicJWKS: the document has the pod's own key and no other.
PublicJWKS(p) == {podKey[p]}

\* NewVerifier, from the document a pod serves.
NewVerifier(p) == [keys |-> PublicJWKS(p), seen |-> Published]

\* Verifier.Verify: a token is accepted when the key its header names is known.
Verify(keys, token) == token \in keys

\* LoadVerifier fetches the key set before the service starts.
KeyInit ==
  /\ secret = 1 /\ podKey = [p \in AuthPods |-> 1] /\ keyFaults = 0 /\ verdict = NoVerdict
  /\ keySet = [v \in Verifiers |-> [keys |-> {1}, seen |-> {1}]]
  /\ session = [access |-> 1, refresh |-> 1, seen |-> {1}, state |-> "open"]

\* A new key is put in Secret Manager.
NewSecret ==
  /\ secret < MaxKeyId /\ secret' = secret + 1
  /\ UNCHANGED <<podKey, keySet, session, verdict, keyFaults>>

\* NewIssuer and NewVerifierFromIssuer: a restarted pod signs, publishes and
\* verifies with the newest key.
NewIssuer(p) ==
  /\ podKey[p] # secret /\ podKey' = [podKey EXCEPT ![p] = secret]
  /\ UNCHANGED <<secret, keySet, session, verdict, keyFaults>>

\* Mutant of refresh: a fetch that fails leaves no keys.
refreshDrops(v, p) ==
  /\ \/ /\ keySet' = [keySet EXCEPT ![v] = NewVerifier(p)]
        /\ UNCHANGED keyFaults
     \/ /\ keyFaults < MaxKeyFaults /\ keyFaults' = keyFaults + 1
        /\ keySet' = [keySet EXCEPT ![v].keys = {}]
  /\ UNCHANGED <<secret, podKey, session, verdict>>

\* RefreshingVerifier.refresh from the pod that answers; when it fails the
\* previous keys stay.
refresh(v, p) ==
  /\ \/ /\ keySet' = [keySet EXCEPT ![v] = NewVerifier(p)]
        /\ UNCHANGED keyFaults
     \/ /\ keyFaults < MaxKeyFaults /\ keyFaults' = keyFaults + 1
        /\ UNCHANGED keySet
  /\ UNCHANGED <<secret, podKey, session, verdict>>

\* The access token lives 15 minutes.
AccessExpires ==
  /\ session.access # 0 /\ session' = [session EXCEPT !.access = 0]
  /\ UNCHANGED <<secret, podKey, keySet, verdict, keyFaults>>

\* Was a rotation under way when the tokens were issued or the keys fetched, or
\* did one pass in between?
Explained(then, now) == then # now \/ Cardinality(then \union now) > 1

\* Middleware of a service: the access token of a request is verified.
Middleware(v) ==
  /\ session.access # 0
  /\ verdict' = [ok |-> Verify(keySet[v].keys, session.access),
                 explained |-> Explained(session.seen, keySet[v].seen)]
  /\ UNCHANGED <<secret, podKey, keySet, session, keyFaults>>

\* handleRefresh: the pod verifies the refresh token with its own key alone, and
\* a client whose refresh token is refused has to sign in again.
handleRefresh(p) ==
  /\ session.state = "open" /\ session.access = 0
  /\ LET ok == Verify(PublicJWKS(p), session.refresh)
     IN /\ verdict' = [ok |-> ok, explained |-> Explained(session.seen, Published)]
        /\ session' = IF ok THEN Issue(p) ELSE [session EXCEPT !.state = "closed"]
  /\ UNCHANGED <<secret, podKey, keySet, keyFaults>>

\* The code a user is sent mints a session (module Accounts).
SignInAgain(p) ==
  /\ session.state = "closed" /\ session' = Issue(p)
  /\ UNCHANGED <<secret, podKey, keySet, verdict, keyFaults>>

Refreshes(v) == \E p \in AuthPods : refresh(v, p)

KeyNext ==
  \/ NewSecret \/ AccessExpires
  \/ \E p \in AuthPods : NewIssuer(p) \/ handleRefresh(p) \/ SignInAgain(p)
  \/ \E v \in Verifiers : Middleware(v) \/ Refreshes(v)

\* Pods are rolled, and RefreshingVerifier.Run fetches on its ticker.
PodsRoll == \E p \in AuthPods : NewIssuer(p)
KeySpec == /\ KeyInit /\ [][KeyNext]_keyVars
           /\ WF_keyVars(PodsRoll) /\ \A v \in Verifiers : WF_keyVars(Refreshes(v))

(***************************************************************************)
(* Properties.                                                             *)
(***************************************************************************)
\* A live token is refused only around a rotation: when the pods published one
\* key while it was issued, and the same one while the keys it is checked against
\* were fetched, it verifies, however many fetches failed since.
RefusedOnlyByRotation == KeyTypeOK /\ (~verdict.ok => verdict.explained)

\* Once the key stays, every service verifies with the key every pod signs with
\* (the comment at RefreshingVerifier: "a rotation is a change in exactly one
\* service").
KeysConverge ==
  <>[](\A v \in Verifiers, p \in AuthPods : keySet[v].keys = PublicJWKS(p))
=============================================================================
