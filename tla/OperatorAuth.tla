---------------------------- MODULE OperatorAuth ----------------------------
(***************************************************************************)
(* Operator login (operator_auth.rs): the middleware in front of the        *)
(* operator routes, the checks of a bearer token and the cache of the       *)
(* issuer's public keys, which one request at a time refreshes.             *)
(*                                                                          *)
(* Requests interleave at every await: on the refresh mutex, on the fetch,  *)
(* and before the keys are read again.  Any of them may be dropped there by *)
(* its client.  The issuer (external) publishes and withdraws keys.  A      *)
(* token is what its checks look at; its text and its signature arithmetic  *)
(* are left out: a signature verifies under the key that made it.           *)
(***************************************************************************)
EXTENDS Integers, FiniteSets

CONSTANTS
  Requests,
  AuthConfigs,   \* [gateway.auth] sections: [mode, issuer, audience, url]
  Credentials,   \* what a request may carry: [vkey, scheme, token]
  Keys,          \* the issuer's signing keys: [kid, n, usable]
  CacheTTL, RefreshCooldown, FetchTimeout, Skew,
  MaxNow         \* bound on time

VARIABLES
  auth,       \* state.operator_auth(): a mode, or "none"
  now,
  published,  \* the keys in the issuer's document
  last,       \* history: when each key was last published
  cache,      \* keys: Option<CachedKeys>
  attempted,  \* refresh_attempted
  holder,     \* the request that holds its mutex
  reqs,       \* where each request is
  answers     \* what each was answered: a status, or the actor its route ran for

vars == <<auth, now, published, last, cache, attempted, holder, reqs, answers>>

Never == -1000
NoKeys == [fetched |-> Never, keys |-> {}]
Idle == [pc |-> "idle", since |-> 0, offer |-> "none"]

-----------------------------------------------------------------------------
(* Checks without state *)

\* https, or http on a literal loopback address, without credentials or fragment.
UsableUrl(url) == url \in {"https", "loopback http"}

from_config(c) ==
  IF c.mode \notin {"oidc", "both"} THEN "none"
  ELSE IF c.issuer = "" \/ c.audience = "" \/ ~UsableUrl(c.url) THEN "error"
  ELSE c.mode

bearer_token(offer) == offer.scheme = "bearer" /\ offer.token.form # "empty"

\* Three segments of bounded length that decode; RS256 and a key id.
WellFormed(token) == token.form = "jwt" /\ token.alg = "RS256" /\ token.kid # ""

\* The time a JSON value [kind, n] stands for; only a number is one.
numeric_value(v) == IF v.kind = "number" THEN {v.n} ELSE {}
numeric_claim(token) == numeric_value(token.exp)

claim_allows_operator(v) == v \in {"true", "admin", "operator", "a list with admin"}

validate_claims(token) ==
  IF token.iss # "issuer" \/ "audience" \notin token.aud THEN "unauthorized"
  ELSE IF ~ \E exp \in numeric_claim(token) : exp > now THEN "unauthorized"
  ELSE IF token.nbf.kind # "absent" /\ ~ \E nbf \in numeric_value(token.nbf) : nbf <= now + Skew
  THEN "unauthorized"
  ELSE IF token.sub = "" THEN "unauthorized"
  ELSE IF ~claim_allows_operator(token.admin) THEN "forbidden"
  ELSE "ok"

\* RsaJwk::try_from_document: keys of another type, algorithm or use are skipped.
try_from_document(key) == key.usable

-----------------------------------------------------------------------------
(* The middleware *)

\* The failure is audited before it is answered, and a failure to audit it
\* is the answer instead.
Reject(r, reason) ==
  /\ \E audited \in BOOLEAN :
       answers' = [answers EXCEPT ![r] =
         IF ~audited THEN "503 audit"
         ELSE CASE reason = "unauthorized" -> "401" [] reason = "forbidden" -> "403"
                [] OTHER -> "503"]
  /\ reqs' = [reqs EXCEPT ![r] = Idle]

\* The route runs, for the actor of the virtual key or of the token.
Accept(r, actor) ==
  /\ answers' = [answers EXCEPT ![r] = actor]
  /\ reqs' = [reqs EXCEPT ![r] = Idle]

\* authorize, and verify up to its first await: the claims are checked before
\* the keys are asked for.
middleware(r, offer) ==
  /\ reqs[r].pc = "idle" /\ answers[r] = "none"
  /\ LET token == offer.token
         verdict == IF ~bearer_token(offer) \/ ~WellFormed(token) THEN "unauthorized"
                    ELSE validate_claims(token)
     IN IF auth = "none" THEN Accept(r, "anyone")
        ELSE IF auth = "both" /\ offer.vkey THEN Accept(r, "vkey")
        ELSE IF verdict # "ok" THEN Reject(r, verdict)
        ELSE /\ reqs' = [reqs EXCEPT ![r] = [pc |-> "cached", since |-> now, offer |-> token]]
             /\ UNCHANGED answers
  /\ UNCHANGED <<auth, now, published, last, cache, attempted, holder>>

-----------------------------------------------------------------------------
(* keys_for *)

Named(kid) == {k \in cache.keys : k.kid = kid}

\* A cache that is used until it is replaced.
BUG_cached_keys_for(kid) == Named(kid)
cached_keys_for(kid) == IF now - cache.fetched < CacheTTL THEN Named(kid) ELSE {}

\* The end of verify: some key of that id verifies the signature.
Verify(r, keys) ==
  IF reqs[r].offer.key \in keys THEN Accept(r, "subject")
  ELSE Reject(r, "unauthorized")

Free(r) == holder' = IF holder = r THEN "none" ELSE holder

\* The fast path, and the same look again once the mutex is held.
LookUp(r) ==
  /\ reqs[r].pc \in {"cached", "again"}
  /\ LET keys == cached_keys_for(reqs[r].offer.kid)
     IN IF keys # {} THEN Verify(r, keys) /\ Free(r)
        ELSE /\ reqs' = [reqs EXCEPT ![r].pc = IF @ = "cached" THEN "locking" ELSE "refresh"]
             /\ UNCHANGED <<answers, holder>>
  /\ UNCHANGED <<auth, now, published, last, cache, attempted>>

TakeMutex(r) ==
  /\ reqs[r].pc = "locking" /\ holder = "none"
  /\ holder' = r
  /\ reqs' = [reqs EXCEPT ![r].pc = "again"]
  /\ UNCHANGED <<auth, now, published, last, cache, attempted, answers>>

CoolingDown == now - attempted < RefreshCooldown

keys_for(r) ==
  /\ reqs[r].pc = "refresh"
  /\ IF CoolingDown
     THEN /\ Reject(r, IF cache = NoKeys THEN "unavailable" ELSE "unauthorized")
          /\ Free(r) /\ UNCHANGED attempted
     ELSE /\ attempted' = now
          /\ reqs' = [reqs EXCEPT ![r].pc = "fetching", ![r].since = now]
          /\ UNCHANGED <<answers, holder>>
  /\ UNCHANGED <<auth, now, published, last, cache>>

\* The issuer answers with what it publishes now; the body is still to be read.
\* validate_jwks_content_length, append_jwks_chunk and the bound on the number
\* of keys are among the failures.
Serve(r) ==
  /\ reqs[r].pc = "fetching"
  /\ reqs' = [reqs EXCEPT ![r] = [pc |-> "reading", since |-> @.since, offer |-> @.offer,
                                  document |-> published]]
  /\ UNCHANGED <<auth, now, published, last, cache, attempted, holder, answers>>

RefreshFails(r) ==
  /\ reqs[r].pc \in {"fetching", "reading"}
  /\ Reject(r, "unavailable") /\ Free(r)
  /\ UNCHANGED <<auth, now, published, last, cache, attempted>>

\* The end of refresh_keys; a document without a usable key changes nothing.
refresh_keys(r) ==
  /\ reqs[r].pc = "reading"
  /\ LET keys == {k \in reqs[r].document : try_from_document(k)}
     IN IF keys = {} THEN Reject(r, "unavailable") /\ UNCHANGED cache
        ELSE /\ cache' = [fetched |-> now, keys |-> keys]
             /\ reqs' = [reqs EXCEPT ![r] = [pc |-> "fetched", since |-> @.since,
                                             offer |-> @.offer]]
             /\ UNCHANGED answers
  /\ Free(r)
  /\ UNCHANGED <<auth, now, published, last, attempted>>

\* After its own refresh a request reads the cache whatever its age.
ReadKeys(r) ==
  /\ reqs[r].pc = "fetched"
  /\ Verify(r, Named(reqs[r].offer.kid))
  /\ UNCHANGED <<auth, now, published, last, cache, attempted, holder>>

\* The client goes away: the future is dropped, and with it the mutex.
Dropped(r) ==
  /\ reqs[r].pc \notin {"idle"}
  /\ reqs' = [reqs EXCEPT ![r] = Idle]
  /\ answers' = [answers EXCEPT ![r] = "dropped"]
  /\ Free(r)
  /\ UNCHANGED <<auth, now, published, last, cache, attempted>>

-----------------------------------------------------------------------------
(* The issuer and time *)

\* A key is published or withdrawn.
Rotate(k) ==
  /\ published' = IF k \in published THEN published \ {k} ELSE published \cup {k}
  /\ last' = [last EXCEPT ![k] = now]
  /\ UNCHANGED <<auth, now, cache, attempted, holder, reqs, answers>>

\* The client's timeout ends a fetch before FetchTimeout is over.
Tick ==
  /\ now < MaxNow /\ now' = now + 1
  /\ \A r \in Requests : reqs[r].pc \in {"fetching", "reading"} => now < reqs[r].since + FetchTimeout
  /\ last' = [k \in Keys |-> IF k \in published THEN now' ELSE last[k]]
  /\ UNCHANGED <<auth, published, cache, attempted, holder, reqs, answers>>

-----------------------------------------------------------------------------

Init ==
  /\ auth \in {from_config(c) : c \in AuthConfigs} \ {"error"}
  /\ now = 0
  /\ published \in SUBSET Keys
  /\ last = [k \in Keys |-> IF k \in published THEN 0 ELSE Never]
  /\ cache = NoKeys /\ attempted = Never /\ holder = "none"
  /\ reqs = [r \in Requests |-> Idle]
  /\ answers = [r \in Requests |-> "none"]

Next ==
  \/ Tick
  \/ \E k \in Keys : Rotate(k)
  \/ \E r \in Requests :
       \/ \E offer \in Credentials : middleware(r, offer)
       \/ LookUp(r) \/ TakeMutex(r) \/ keys_for(r) \/ Serve(r) \/ RefreshFails(r)
       \/ refresh_keys(r) \/ ReadKeys(r) \/ Dropped(r)

Spec == Init /\ [][Next]_vars

-----------------------------------------------------------------------------

\* A request is let in with a key that is published, or was recently enough.
AcceptsRecentKey ==
  \A r \in Requests :
    (answers[r] = "none" /\ answers'[r] = "subject") =>
      \/ last[reqs[r].offer.key] >= reqs[r].since
      \/ now - last[reqs[r].offer.key] < CacheTTL + FetchTimeout

\* A key the issuer has withdrawn opens the operator routes no longer than the
\* cache may keep it and the fetch that brought it may have taken, unless the
\* request itself fetched while the key was still published: whoever refreshes,
\* whoever is dropped half-way and however fetches, withdrawals and the cache's
\* age interleave.
RevokedKeyExpires == [][AcceptsRecentKey]_vars
=============================================================================
