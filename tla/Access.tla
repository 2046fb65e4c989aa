------------------------------- MODULE Access -------------------------------
(***************************************************************************)
(* Virtual keys, the models they may use and the rate limits they share    *)
(* (gateway/src/access.rs, auth.rs).  Within one rate window: TokenLimit    *)
(* has the windows themselves.  A policy p holds the global limit, the     *)
(* workspaces and the keys in configuration order; counts map a limit's    *)
(* scope to its requests and tokens.  A limit of 0 is no limit.            *)
(***************************************************************************)
EXTENDS Integers, Sequences, FiniteSets, SequencesExt, FiniteSetsExt, TLC

Unlimited == [rpm |-> 0, tpm |-> 0]
Limited(limit) == limit.rpm > 0 \/ limit.tpm > 0

\* No key of the policy: the caller is anonymous.
Anonymous == 0
Unauthorized == -1

(***************************************************************************)
(* Identity.                                                               *)
(***************************************************************************)

\* The token of "bearer <token>" or of a bare header, "" when empty.
extract_bearer(authorization) ==
  IF authorization.scheme = "bearer-only" THEN "" ELSE authorization.token

\* Every key is compared; the last one whose digest matches wins.
match_key(keys, presented) ==
  LET matches == {i \in 1 .. Len(keys) : presented # "" /\ keys[i].secret = presented}
  IN IF matches = {} THEN Unauthorized ELSE Max(matches)

\* The key's position, Anonymous, or Unauthorized.
authenticate(p, authorization) ==
  IF p.keys = <<>> \/ (authorization.scheme = "absent" /\ p.open) THEN Anonymous
  ELSE IF authorization.scheme = "absent" THEN Unauthorized
  ELSE match_key(p.keys, extract_bearer(authorization))

key_id(p, grant) == IF grant > 0 THEN p.keys[grant].id ELSE ""

workspace_id(p, grant) == IF grant > 0 THEN p.keys[grant].workspace ELSE ""

WorkspaceOf(p, grant) ==
  IF workspace_id(p, grant) \in DOMAIN p.workspaces
  THEN p.workspaces[workspace_id(p, grant)]
  ELSE [models |-> <<>>, limit |-> Unlimited]

\* A key's own list, or its workspace's when it has none; <<>> is every model.
allowed_models(p, grant) ==
  IF grant <= 0 THEN <<>>
  ELSE IF p.keys[grant].models # <<>> THEN p.keys[grant].models
  ELSE WorkspaceOf(p, grant).models

(***************************************************************************)
(* Limits.  A caller meets the global one, its workspace's and its own.    *)
(***************************************************************************)

GlobalLimit(p) == <<[scope |-> <<"global", "">>, limit |-> p.limit]>>

KeyLimits(p, grant) ==
  IF grant <= 0 THEN <<>>
  ELSE <<[scope |-> <<"workspace", workspace_id(p, grant)>>, limit |-> WorkspaceOf(p, grant).limit],
         [scope |-> <<"key", key_id(p, grant)>>, limit |-> p.keys[grant].limit]>>

Active(limits) == SelectSeq(limits, LAMBDA l : Limited(l.limit))

Usage(counts, scope) ==
  IF scope \in DOMAIN counts THEN counts[scope] ELSE [requests |-> 0, tokens |-> 0]

Over(counts, l) ==
  \/ l.limit.rpm > 0 /\ Usage(counts, l.scope).requests >= l.limit.rpm
  \/ l.limit.tpm > 0 /\ Usage(counts, l.scope).tokens >= l.limit.tpm

AddTo(counts, scope, requests, tokens) ==
  (scope :> [requests |-> Usage(counts, scope).requests + requests,
             tokens |-> Usage(counts, scope).tokens + tokens]) @@ counts

\* One limit after the other: the first one that is full refuses, and those
\* before it have counted the request already.
Admit(counts, limits) ==
  FoldLeft(LAMBDA acc, l :
             IF ~acc.allowed THEN acc
             ELSE IF Over(acc.counts, l) THEN [acc EXCEPT !.allowed = FALSE]
             ELSE [acc EXCEPT !.counts = AddTo(@, l.scope, 1, 0)],
           [counts |-> counts, allowed |-> TRUE], Active(limits))

admit_global(p, counts) == Admit(counts, GlobalLimit(p))

admit_key(p, counts, grant) == Admit(counts, KeyLimits(p, grant))

\* The fleet's counters after each of the calls that admit a key, one per
\* limit: what is left behind when a later one fails.
shared_admit_key(p, counts, grant) ==
  LET limits == Active(KeyLimits(p, grant))
  IN {Admit(counts, SubSeq(limits, 1, n)).counts : n \in 0 .. Len(limits)}

AllLimits(p, grant) == Active(GlobalLimit(p) \o KeyLimits(p, grant))

\* Requests left under the tightest request limit; -1 without one.
tightest_snapshot(p, counts, grant) ==
  LET left == {l.limit.rpm - Usage(counts, l.scope).requests :
                 l \in {x \in ToSet(AllLimits(p, grant)) : x.limit.rpm > 0}}
  IN IF left = {} THEN -1 ELSE Max({0, Min(left)})

\* The fleet's counters, or the process's own when Redis does not answer.
tightest_snapshot_shared(p, shared, local, answers, grant) ==
  tightest_snapshot(p, IF answers THEN shared ELSE local, grant)

TokenLimits(p, grant) == SelectSeq(AllLimits(p, grant), LAMBDA l : l.limit.tpm > 0)

\* Only a limit on tokens counts them.
add_tokens(p, counts, grant, tokens) ==
  FoldLeft(LAMBDA acc, l : AddTo(acc, l.scope, 0, tokens), counts, TokenLimits(p, grant))

\* Redis counts the tokens of every limit, one call after the other; a
\* failing call leaves what those before it added.
shared_add_tokens(p, counts, grant, tokens) ==
  LET limits == AllLimits(p, grant)
  IN {FoldLeft(LAMBDA acc, l : AddTo(acc, l.scope, 0, tokens), counts, SubSeq(limits, 1, n)) :
        n \in 0 .. Len(limits)}

\* All of them, when no call fails.
add_shared_tokens(p, counts, grant, tokens) ==
  FoldLeft(LAMBDA acc, l : AddTo(acc, l.scope, 0, tokens), counts, AllLimits(p, grant))

token_limits_active(p, grant) == TokenLimits(p, grant) # <<>>

\* All or nothing: a limit that cannot take the tokens undoes the others.
reserve_tokens(p, counts, grant, tokens) ==
  LET limits == TokenLimits(p, grant)
      fits == \A l \in ToSet(limits) :
                Usage(counts, l.scope).tokens + tokens <= l.limit.tpm
  IN [allowed |-> fits,
      counts |-> IF fits THEN FoldLeft(LAMBDA acc, l : AddTo(acc, l.scope, 0, tokens), counts, limits)
                 ELSE counts]

\* The reservation is replaced by what was really used.
reconcile_tokens(p, counts, grant, reserved, actual) ==
  FoldLeft(LAMBDA acc, l : AddTo(acc, l.scope, 0, actual - reserved), counts, TokenLimits(p, grant))
=============================================================================
