--------------------------- MODULE ResponseCache ---------------------------
(***************************************************************************)
(* The exact-match response cache: the in-process LRU of gateway/cache.rs, *)
(* the three Redis cache scripts of gateway/state.rs, and the part of      *)
(* chat_completions (gateway/lib.rs) which looks a request up, delivers it *)
(* on a miss and stores the answer.  A gateway uses one of the two         *)
(* backends, chosen by its configuration.                                  *)
(*                                                                         *)
(* A key is the SHA-256 of (generation, partition, route, provider model,  *)
(* body) and is modelled by that tuple; a value carries its size and, for  *)
(* the properties only, the request it was produced for.  Redis values     *)
(* expire on their own, so their TTL is the action Expire.                 *)
(***************************************************************************)
EXTENDS Integers, Sequences, FiniteSets, SequencesExt, FiniteSetsExt

CONSTANTS Requests,     \* concurrent requests
          Inputs,       \* what a request asks: [partition, route, model, body]
          Models,       \* provider models: [name, codex]
          Generations,  \* configuration generations of the replicas
          FirstGen,     \* the generation of the gateway with a local cache
          Settings,     \* CacheSettings of each generation
          Sizes,        \* sizes of response bodies
          MaxTime,      \* bound on the clock of the local cache
          MaxDrift      \* bound on how far the shared byte count falls below zero

VARIABLES backend,   \* "memory" or "redis"
          now,       \* cache_clock
          settings,  \* settings of the local cache
          store,     \* the IndexMap, oldest use first
          bytes,     \* its byte count
          value,     \* Redis: cache:entry:<key>
          meta,      \* Redis: hash with generation and bytes
          sizes,     \* Redis: hash of entry sizes
          index,     \* Redis: sorted set of keys, least recently used first
          req,       \* the requests
          replaced   \* history: a shared value was replaced in place

local == <<now, settings, store, bytes>>
redis == <<value, meta, sizes, index, replaced>>
vars == <<backend, local, redis, req>>

None == "none"
NoValue == [size |-> 0]
Idle == [at |-> "idle"]

(* The bounds are unsigned in the code, None is no generation, and a request is
   routed to a configured model. *)
CacheSettings == [enabled : BOOLEAN, ttl : Nat, max_entries : Nat, max_bytes : Nat]
ASSUME CacheAssumption ==
    /\ Settings \in [Generations -> CacheSettings]
    /\ FirstGen \in Generations /\ None \notin Generations
    /\ Sizes \subseteq Nat
    /\ \A in \in Inputs : in.model \in Models

(* The sum of a sequence of numbers. *)
Total(s) ==
    LET upto[n \in 0..Len(s)] == IF n = 0 THEN 0 ELSE upto[n - 1] + s[n]
    IN  upto[Len(s)]

(* python_truthy, python_numeric_equal and the tests of is_cacheable: the body
   is not streamed, fixes no sampling parameter away from its deterministic
   value, uses no tools, and its messages are a non-empty list of plain text. *)
is_cacheable(body) ==
    /\ body.stream # TRUE
    /\ body.temperature \in {"absent", "zero"}
    /\ body.seed = "absent"
    /\ body.tools = "absent"
    /\ body.messages = "text"

(* The status is 200, the answer is a JSON object without an error whose first
   choice has non-empty text and no tool calls. *)
is_storable(answer) ==
    /\ answer.status = 200
    /\ answer.kind = "json_text"

(* Forgets the caller. *)
BUG_cache_key(gen, in, model) == <<gen, in.route, model.name, in.body>>

cache_key_with_version(gen, in, model) ==
    <<gen, in.partition, in.route, model.name, in.body>>

(***************************************************************************)
(* The local cache.                                                        *)
(***************************************************************************)
BytesOf(s) == Total([i \in DOMAIN s |-> s[i].val.size])

(* evict: drop the oldest entries until both bounds hold. *)
Fits(s, size, conf, n) ==
    /\ Len(s) - n <= conf.max_entries
    /\ size - BytesOf(SubSeq(s, 1, n)) <= conf.max_bytes
Evicted(s, size, conf) == Min({n \in 0..Len(s) : n = Len(s) \/ Fits(s, size, conf, n)})
Kept(s, size, conf) ==
    LET n == Evicted(s, size, conf)
    IN  [store |-> SubSeq(s, n + 1, Len(s)), bytes |-> size - BytesOf(SubSeq(s, 1, n))]

(* IndexMap::shift_remove: the others keep their order. *)
At(s, key) == {i \in DOMAIN s : s[i].key = key}
Without(s, key) == IF At(s, key) = {} THEN s ELSE RemoveAt(s, CHOOSE i \in At(s, key) : TRUE)

BUG_SizeOf(s, key) == 0

(* The bytes a stored entry is charged with; they are given back when it is
   replaced. *)
SizeOf(s, key) == IF At(s, key) = {} THEN 0 ELSE s[CHOOSE i \in At(s, key) : TRUE].val.size

(* get_at: what the lookup returns and what it leaves in the map. *)
get_at(key) ==
    LET entry == store[CHOOSE i \in At(store, key) : TRUE]
        expired == settings.ttl > 0 /\ now - entry.at >= settings.ttl
    IN  IF ~settings.enabled \/ At(store, key) = {}
        THEN [hit |-> NoValue, store |-> store, bytes |-> bytes]
        ELSE IF expired
             THEN [hit |-> NoValue, store |-> Without(store, key), bytes |-> bytes - entry.val.size]
             ELSE [hit |-> entry.val, store |-> Append(Without(store, key), entry), bytes |-> bytes]

(* put_at: ignored when disabled or when the body can never fit; otherwise the
   old entry is replaced, the new one is the most recent, and evict runs. *)
put_at(key, val) ==
    IF \/ ~settings.enabled
       \/ settings.max_entries = 0
       \/ settings.max_bytes = 0
       \/ val.size > settings.max_bytes
    THEN [store |-> store, bytes |-> bytes]
    ELSE Kept(Append(Without(store, key), [key |-> key, val |-> val, at |-> now]),
              bytes - SizeOf(store, key) + val.size, settings)

(***************************************************************************)
(* The Redis scripts.  Each is one atomic step on this record.             *)
(***************************************************************************)
Redis == [value |-> value, meta |-> meta, sizes |-> sizes, index |-> index]

Drop(f, keys) == [k \in DOMAIN f \ keys |-> f[k]]

Set(f, key, x) == [k \in DOMAIN f \cup {key} |-> IF k = key THEN x ELSE f[k]]

SizeIn(s, key) == IF key \in DOMAIN s THEN s[key] ELSE 0

(* ZREM and ZADD of a member of the sorted set. *)
Unlisted(s, key) ==
    IF key \in Range(s) THEN RemoveAt(s, CHOOSE i \in DOMAIN s : s[i] = key) ELSE s
Touch(s, key) == Append(Unlisted(s, key), key)

(* Forgets the index without deleting what it lists. *)
BUG_purge_stale(s, gen) ==
    IF s.meta.gen = gen THEN s
    ELSE [value |-> s.value, meta |-> [gen |-> gen, bytes |-> 0], sizes |-> <<>>, index |-> <<>>]

(* First lines of GET and PUT: another generation's entries are deleted. *)
purge_stale(s, gen) ==
    IF s.meta.gen = gen THEN s
    ELSE [value |-> Drop(s.value, Range(s.index)),
          meta |-> [gen |-> gen, bytes |-> 0], sizes |-> <<>>, index |-> <<>>]

(* SHARED_CACHE_GET_SCRIPT: a value that has expired takes its size and its
   place in the index with it; a hit becomes the most recently used. *)
SHARED_CACHE_GET(gen, key) ==
    LET s == purge_stale(Redis, gen)
        prior == SizeIn(s.sizes, key)
    IN  IF key \in DOMAIN s.value
        THEN [s EXCEPT !.index = Touch(s.index, key)]
        ELSE IF prior > 0
             THEN [value |-> s.value, meta |-> [s.meta EXCEPT !.bytes = @ - prior],
                   sizes |-> Drop(s.sizes, {key}), index |-> Unlisted(s.index, key)]
             ELSE s

(* The eviction loop at the end of PUT: the victims' sizes are taken from the
   byte count, which does not fall below zero. *)
Charged(s, some) == Total([i \in DOMAIN some |-> SizeIn(s.sizes, some[i])])
BytesLeft(s, n) ==
    IF n = 0 THEN s.meta.bytes
    ELSE Max({0, s.meta.bytes - Charged(s, SubSeq(s.index, 1, n))})
SharedFits(s, conf, n) ==
    Len(s.index) - n <= conf.max_entries /\ BytesLeft(s, n) <= conf.max_bytes
SharedEvicted(s, conf) ==
    Min({n \in 0..Len(s.index) : n = Len(s.index) \/ SharedFits(s, conf, n)})
shared_evict(s, conf) ==
    LET n == SharedEvicted(s, conf)
        gone == Range(SubSeq(s.index, 1, n))
    IN  [value |-> Drop(s.value, gone), meta |-> [s.meta EXCEPT !.bytes = BytesLeft(s, n)],
         sizes |-> Drop(s.sizes, gone), index |-> SubSeq(s.index, n + 1, Len(s.index))]

(* SHARED_CACHE_PUT_SCRIPT.  The size of a replaced entry is subtracted from
   the byte count before the value is set and once more after it. *)
SHARED_CACHE_PUT(gen, key, val) ==
    LET conf == Settings[gen]
        s == purge_stale(Redis, gen)
        previous == SizeIn(s.sizes, key)
    IN  IF conf.max_entries = 0 \/ conf.max_bytes = 0 \/ val.size > conf.max_bytes
        THEN Redis
        ELSE shared_evict([value |-> Set(s.value, key, val),
                           meta |-> [s.meta EXCEPT !.bytes = (@ - previous) + (val.size - previous)],
                           sizes |-> Set(s.sizes, key, val.size), index |-> Touch(s.index, key)],
                          conf)

(* SHARED_CACHE_CLEAR_SCRIPT *)
SHARED_CACHE_CLEAR ==
    [value |-> Drop(value, Range(index)), meta |-> [gen |-> None, bytes |-> 0],
     sizes |-> <<>>, index |-> <<>>]

SetRedis(s) ==
    /\ value' = s.value /\ meta' = s.meta /\ sizes' = s.sizes /\ index' = s.index
    /\ UNCHANGED local

SetLocal(s) ==
    /\ store' = s.store /\ bytes' = s.bytes
    /\ UNCHANGED <<now, settings, redis>>

(***************************************************************************)
(* A request.                                                              *)
(***************************************************************************)
Enabled(gen) == IF backend = "redis" /\ Settings[gen].enabled THEN TRUE
                ELSE backend = "memory" /\ settings.enabled

RequestAt(at, in, gen, missed, answer) ==
    [at |-> at, in |-> in, gen |-> gen, missed |-> missed, answer |-> answer]

KeyOf(r) == cache_key_with_version(req[r].gen, req[r].in, req[r].in.model)

(* A request arrives at a replica; caching is off, the target is a ChatGPT
   subscription, or the body is not deterministic: the cache is bypassed. *)
Arrive(r, in, gen) ==
    /\ req[r].at = "idle"
    /\ backend = "memory" => gen = FirstGen
    /\ req' = [req EXCEPT ![r] =
                  RequestAt(IF Enabled(gen) /\ ~in.model.codex /\ is_cacheable(in.body)
                            THEN "lookup" ELSE "deliver", in, gen, FALSE, NoValue)]
    /\ UNCHANGED <<backend, local, redis>>

Answer(r, hit) ==
    req' = [req EXCEPT ![r] = RequestAt(IF hit = NoValue THEN "deliver" ELSE "replay",
                                        @.in, @.gen, hit = NoValue, hit)]

(* get_cached_response on the local cache. *)
LookupLocal(r) ==
    LET got == get_at(KeyOf(r))
    IN  /\ req[r].at = "lookup" /\ backend = "memory"
        /\ SetLocal(got)
        /\ Answer(r, got.hit)
        /\ UNCHANGED backend

(* get_cached_response on Redis; a failed call, or a lost reply, is a miss. *)
LookupShared(r) ==
    LET s == SHARED_CACHE_GET(req[r].gen, KeyOf(r))
    IN  /\ req[r].at = "lookup" /\ backend = "redis"
        /\ \/ /\ SetRedis(s)
              /\ \E hit \in {NoValue} \cup {s.value[k] : k \in DOMAIN s.value \cap {KeyOf(r)}} :
                   Answer(r, hit)
           \/ Answer(r, NoValue) /\ UNCHANGED <<local, value, meta, sizes, index>>
        /\ UNCHANGED <<backend, replaced>>

(* The delivery answered, possibly from another model than the target's; only
   a usable answer of a looked-up request from a keyed provider is stored. *)
Delivered(r, model, answer) ==
    LET val == [size |-> answer.size, by |-> model, of |-> req[r].in, gen |-> req[r].gen]
        stored == req[r].missed /\ is_storable(answer) /\ ~model.codex
    IN  /\ req[r].at = "deliver"
        /\ req' = [req EXCEPT ![r] = IF stored THEN RequestAt("store", @.in, @.gen, TRUE, val) ELSE Idle]
        /\ UNCHANGED <<backend, local, redis>>

StoreLocal(r) ==
    LET key == cache_key_with_version(req[r].gen, req[r].in, req[r].answer.by)
    IN  /\ req[r].at = "store" /\ backend = "memory"
        /\ SetLocal(put_at(key, req[r].answer))
        /\ req' = [req EXCEPT ![r] = Idle]
        /\ UNCHANGED backend

(* put_cached_response on Redis; the call may fail without effect. *)
StoreShared(r) ==
    LET key == cache_key_with_version(req[r].gen, req[r].in, req[r].answer.by)
    IN  /\ req[r].at = "store" /\ backend = "redis" /\ meta.bytes > -MaxDrift
        /\ \/ /\ SetRedis(SHARED_CACHE_PUT(req[r].gen, key, req[r].answer))
              /\ replaced' = (replaced \/ (key \in DOMAIN sizes /\ meta.gen = req[r].gen))
           \/ UNCHANGED <<local, redis>>
        /\ req' = [req EXCEPT ![r] = Idle]
        /\ UNCHANGED backend

(* The client went away; the slot is free for another request. *)
Leave(r) ==
    /\ req[r].at # "idle"
    /\ req' = [req EXCEPT ![r] = Idle]
    /\ UNCHANGED <<backend, local, redis>>

(* ResponseCache::reconfigure with the settings of another configuration. *)
reconfigure(gen) ==
    /\ backend = "memory"
    /\ settings' = Settings[gen]
    /\ LET s == IF Settings[gen].enabled THEN Kept(store, bytes, Settings[gen])
                ELSE [store |-> <<>>, bytes |-> 0]
       IN  store' = s.store /\ bytes' = s.bytes
    /\ UNCHANGED <<backend, now, redis, req>>

(* ResponseCache::clear *)
Clear ==
    /\ backend = "memory"
    /\ store' = <<>> /\ bytes' = 0
    /\ UNCHANGED <<backend, now, settings, redis, req>>

(* with_gateway_cache_async: a replica whose configuration switches the shared
   cache off purges it. *)
StartReplica(gen) ==
    /\ backend = "redis" /\ ~Settings[gen].enabled
    /\ SetRedis(SHARED_CACHE_CLEAR)
    /\ UNCHANGED <<backend, replaced, req>>

(* Redis deletes a value whose TTL is over; the other keys know nothing. *)
Expire(key) ==
    /\ key \in DOMAIN value
    /\ Settings[value[key].gen].ttl > 0
    /\ value' = Drop(value, {key})
    /\ UNCHANGED <<backend, local, meta, sizes, index, req, replaced>>

Tick ==
    /\ backend = "memory" /\ now < MaxTime
    /\ now' = now + 1
    /\ UNCHANGED <<backend, settings, store, bytes, redis, req>>

Init ==
    /\ backend \in {"memory", "redis"}
    /\ now = 0 /\ settings = Settings[FirstGen]
    /\ store = <<>> /\ bytes = 0
    /\ value = <<>> /\ meta = [gen |-> None, bytes |-> 0] /\ sizes = <<>> /\ index = <<>>
    /\ req = [r \in Requests |-> Idle]
    /\ replaced = FALSE

Answers == [status : {200, 500}, kind : {"json_text", "other"}, size : Sizes]

Next ==
    \/ \E r \in Requests : \/ \E in \in Inputs, gen \in Generations : Arrive(r, in, gen)
                           \/ LookupLocal(r) \/ LookupShared(r)
                           \/ \E m \in Models, a \in Answers : Delivered(r, m, a)
                           \/ StoreLocal(r) \/ StoreShared(r) \/ Leave(r)
    \/ \E gen \in Generations : reconfigure(gen) \/ StartReplica(gen)
    \/ \E key \in DOMAIN value : Expire(key)
    \/ Clear
    \/ Tick

Spec == Init /\ [][Next]_vars

----------------------------------------------------------------------------
(* Types: the parts of the cache and the requests have the shapes the code
   gives them, and clocks and counts stay in range. *)
TypeOK ==
    /\ backend \in {"memory", "redis"}
    /\ now \in 0..MaxTime
    /\ settings \in Range(Settings)
    /\ bytes \in Nat /\ meta.bytes \in Int
    /\ meta.gen \in Generations \cup {None}
    /\ \A r \in Requests : req[r].at \in {"idle", "lookup", "deliver", "store", "replay"}
    /\ DOMAIN sizes \subseteq Range(index)

(* The byte count of the local cache is the sum of what it holds, through
   refreshes of the same key, expiry, both kinds of eviction and reloads. *)
BytesExact == bytes = BytesOf(store)

(* Both bounds hold at every moment the cache is on, also after a reload that
   lowered them, and no key is stored twice. *)
LocalBounds ==
    /\ Len(store) <= settings.max_entries /\ bytes <= settings.max_bytes
    /\ \A i, j \in DOMAIN store : store[i].key = store[j].key => i = j

(* A cache that is switched off retains no response body, although requests
   which missed while it was on store their answers later. *)
DisabledHoldsNothing == backend = "memory" /\ ~settings.enabled => store = <<>>

(* The local cache counts what it holds, stays within its bounds, and is empty
   while it is off. *)
LocalCacheSound == BytesExact /\ LocalBounds /\ DisabledHoldsNothing

(* A request is answered from the cache only with a response produced for the
   same caller partition, route and body under the same configuration by the
   provider model it is routed to, although answers are stored after
   failovers, and never with one of a ChatGPT subscription. *)
ReplayIsOwn ==
    \A r \in Requests : req[r].at = "replay" =>
        LET answer == req[r].answer
        IN  /\ answer.of.partition = req[r].in.partition
            /\ answer.of.route = req[r].in.route
            /\ answer.of.body = req[r].in.body
            /\ answer.gen = req[r].gen
            /\ answer.by.name = req[r].in.model.name /\ ~answer.by.codex

(* Every shared value is in the index and belongs to the generation in the
   meta hash: a purge, an eviction or a change of configuration reaches it. *)
IndexCoversValues ==
    /\ DOMAIN value \subseteq Range(index)
    /\ \A k \in DOMAIN value : value[k].gen = meta.gen

(* The shared entry bound of the generation in force holds. *)
SharedEntries == meta.gen # None => Len(index) <= Settings[meta.gen].max_entries

(* The bodies retained, in the order of the index. *)
SharedBytes ==
    Total([i \in DOMAIN index |-> IF index[i] \in DOMAIN value THEN value[index[i]].size ELSE 0])

(* As long as no value was replaced in place, the shared byte count covers the
   bodies retained, expired values included until they are noticed, and stays
   within the byte bound. *)
SharedBytesCover ==
    ~replaced => /\ SharedBytes <= meta.bytes
                 /\ meta.gen # None => meta.bytes <= Settings[meta.gen].max_bytes

(* No shared value escapes the index, the entry bound or the byte count. *)
SharedCacheSound == IndexCoversValues /\ SharedEntries /\ SharedBytesCover

(* What state.rs:388 promises of a shared insertion, the byte bound enforced on
   the bodies retained.  It does not hold: see SHARED_CACHE_PUT. *)
SharedByteBound == meta.gen # None => SharedBytes <= Settings[meta.gen].max_bytes
============================================================================
