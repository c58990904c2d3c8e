------------------------------ MODULE QueryCache ------------------------------
(***************************************************************************)
(* The query cache (application/src/cache): requests for one query with    *)
(* different identities, journals and timestamps share the results of each *)
(* other through Ready and Waiting entries, while commits change what the  *)
(* query reads, whether it looks at the caller's identity and how far its  *)
(* first page goes.  Requests are cancelled, fail and time out anywhere.   *)
(*                                                                         *)
(* The lock of the cache is released between planning and completing, and  *)
(* between removing a waiting entry and putting its result.  Sizes and the *)
(* LRU order are abstracted: a put may evict any entries.                  *)
(***************************************************************************)
EXTENDS Naturals, FiniteSets, Functions

CONSTANTS
  Requests,       \* concurrent calls of CacheManager::get
  NumIdentities,  \* identities 1..NumIdentities
  NumPages,       \* journals 1..NumPages; 0 is the empty journal
  MaxTs,          \* bound: the latest timestamp
  MaxWaitingId,   \* bound: waiting entries created
  MaxFaults       \* bound: cancelled, failed and expired steps

ASSUME QueryCacheAssumption ==
  /\ NumIdentities \in Nat \ {0} /\ NumPages \in Nat
  /\ MaxTs \in Nat /\ MaxWaitingId \in Nat /\ MaxFaults \in Nat

Identities == 1..NumIdentities
Journals == 0..NumPages
Timestamps == 0..MaxTs
None == 0

\* RequestedCacheKey and StoredCacheKey; a stored identity may be None.
RequestedKeys == [identity : Identities, journal : Journals]
StoredKeys == [identity : Identities \cup {None}, journal : Journals]

\* What the query reads: a change counter, whether it observes the identity,
\* where its first page ends and whether it throws.
States == [version : Timestamps, auth : BOOLEAN, page : Journals, ok : BOOLEAN]

VARIABLES
  history,      \* the state of the database at each timestamp
  latest_ts,
  cache,        \* StoredCacheKey -> CacheEntry
  channels,     \* waiting entry id -> what its sender did
  next_waiting_id,
  request,      \* one record per call of get
  faults

databaseVars == <<history, latest_ts>>
cacheVars == <<cache, channels, next_waiting_id>>
vars == <<databaseVars, cacheVars, request, faults>>

\* Running the query: UdfOutcome.
Outcome(key, state) ==
  [value |-> state.version, ok |-> state.ok, observed_identity |-> state.auth,
   identity |-> IF state.auth THEN key.identity ELSE None,
   journal |-> IF key.journal = 0 THEN state.page ELSE key.journal]

Outcomes ==
  [value : Timestamps, ok : BOOLEAN, observed_identity : BOOLEAN,
   identity : Identities \cup {None}, journal : Journals]

\* CacheResult, and its absence.
Results == [outcome : Outcomes, original_ts : Timestamps, token_ts : Timestamps]
NoResult == <<>>

\* The broadcast channel of a waiting entry.
Open == [state |-> "open", result |-> NoResult]
Closed == [state |-> "closed", result |-> NoResult]
Sent(result) == [state |-> "sent", result |-> result]

NoKey == <<>>

Idle == [phase |-> "idle", key |-> NoKey, ts |-> 0, hint |-> NoKey, entry |-> 0,
         result |-> NoResult, hit |-> FALSE]

Phases == {"idle", "plan", "wait", "go", "validate", "put", "done", "failed"}

CacheEntries ==
  [type : {"Ready"}, result : Results]
  \cup [type : {"Waiting"}, id : 1..MaxWaitingId, ts : Timestamps]

RequestType ==
  [phase : Phases, key : RequestedKeys \cup {NoKey}, ts : Timestamps,
   hint : StoredKeys \cup {NoKey}, entry : 0..MaxWaitingId,
   result : Results \cup {NoResult}, hit : BOOLEAN]

TypeOK ==
  /\ history \in [Timestamps -> States] /\ latest_ts \in Timestamps
  /\ \E keys \in SUBSET StoredKeys : cache \in [keys -> CacheEntries]
  /\ channels \in [1..MaxWaitingId -> {Open, Closed} \cup [state : {"sent"}, result : Results]]
  /\ next_waiting_id \in 1..(MaxWaitingId + 1)
  /\ request \in [Requests -> RequestType]
  /\ faults \in 0..MaxFaults

Init ==
  /\ \E auth \in BOOLEAN :
       history = [t \in Timestamps |-> [version |-> 0, auth |-> auth, page |-> NumPages, ok |-> TRUE]]
  /\ latest_ts = 0
  /\ cache = [k \in {} |-> NoResult] /\ channels = [id \in 1..MaxWaitingId |-> Open]
  /\ next_waiting_id = 1
  /\ request = [r \in Requests |-> Idle]
  /\ faults = 0

\* A commit that changes something the query reads, or something it does not.
Commit(auth, page, ok) ==
  /\ latest_ts < MaxTs
  /\ latest_ts' = latest_ts + 1
  /\ \/ history' = [t \in Timestamps |->
                      IF t <= latest_ts THEN history[t]
                      ELSE [version |-> latest_ts + 1, auth |-> auth, page |-> page, ok |-> ok]]
     \/ UNCHANGED history
  /\ UNCHANGED <<cacheVars, request, faults>>

-----------------------------------------------------------------------------
(* Keys.                                                                   *)

precise_cache_key(key) == key
identity_less(key) == [key EXCEPT !.identity = None]

\* Fault: a result is stored for every identity.
cache_keys_any_identity(key, outcome) ==
  {[identity |-> None, journal |-> j] : j \in {key.journal, outcome.journal}}

\* cache_keys_after_execution: without the identity if it was not observed,
\* under the requested and the new journal.
cache_keys_after_execution(key, outcome) ==
  {[identity |-> IF outcome.observed_identity THEN key.identity ELSE None, journal |-> j] :
     j \in {key.journal, outcome.journal}}

\* get_cache_entry: the key of the entry found, or the key to wait under.
stored_key(key, hint) ==
  CASE precise_cache_key(key) \in DOMAIN cache -> precise_cache_key(key)
    [] identity_less(key) \in DOMAIN cache     -> identity_less(key)
    [] hint # NoKey                            -> hint
    [] OTHER                                   -> precise_cache_key(key)

-----------------------------------------------------------------------------
(* The cache, under its lock.                                              *)

Without(c, k) == Restrict(c, DOMAIN c \ {k})

\* remove_waiting: only the entry with this id.
remove_waiting(c, k, id) ==
  IF k \in DOMAIN c /\ c[k].type = "Waiting" /\ c[k].id = id THEN Without(c, k) ELSE c

\* remove_ready: only the result with this timestamp.
remove_ready(c, k, original_ts) ==
  IF k \in DOMAIN c /\ c[k].type = "Ready" /\ c[k].result.original_ts = original_ts
  THEN Without(c, k) ELSE c

\* enforce_size_limit: any entries may go.
Evicted(c) == {Restrict(c, kept) : kept \in SUBSET DOMAIN c}

Insert(c, k, entry) == [x \in DOMAIN c \cup {k} |-> IF x = k THEN entry ELSE c[x]]

\* put_ready replaces waiting entries and older results.
replaces(c, k, result) ==
  k \in DOMAIN c /\ c[k].type = "Ready" =>
    \/ c[k].result.original_ts < result.original_ts
    \/ /\ c[k].result.original_ts = result.original_ts
       /\ c[k].result.token_ts < result.token_ts

put_ready(c, keys, result) ==
  LET put == {k \in keys : replaces(c, k, result)} IN
  [x \in DOMAIN c \cup put |->
     IF x \in put THEN [type |-> "Ready", result |-> result] ELSE c[x]]

-----------------------------------------------------------------------------
(* CacheManager::get.                                                      *)

\* A call, at a timestamp that has been published.
Get(r, key, ts) ==
  /\ request[r].phase = "idle" /\ ts <= latest_ts
  /\ request' = [request EXCEPT ![r] = [Idle EXCEPT !.phase = "plan", !.key = key, !.ts = ts]]
  /\ UNCHANGED <<databaseVars, cacheVars, faults>>

Planned(r, k, phase, id, result) ==
  request' = [request EXCEPT ![r] = [@ EXCEPT !.phase = phase, !.hint = k, !.entry = id,
                                              !.result = result, !.hit = phase # "go"]]

\* plan_cache_op: a Ready result that is not too new.
PlanReady(r) ==
  LET k == stored_key(request[r].key, request[r].hint) IN
  /\ request[r].phase = "plan"
  /\ k \in DOMAIN cache /\ cache[k].type = "Ready"
  /\ request[r].ts >= cache[k].result.original_ts
  /\ Planned(r, k, "validate", 0, cache[k].result)
  /\ UNCHANGED <<databaseVars, cacheVars, faults>>

EntryTs(entry) == IF entry.type = "Ready" THEN entry.result.original_ts ELSE entry.ts

\* The result or the peer is too new: execute for this request alone.
PlanGoAlone(r) ==
  LET k == stored_key(request[r].key, request[r].hint) IN
  /\ request[r].phase = "plan"
  /\ k \in DOMAIN cache /\ request[r].ts < EntryTs(cache[k])
  /\ Planned(r, k, "go", 0, NoResult)
  /\ UNCHANGED <<databaseVars, cacheVars, faults>>

\* Wait for a peer, or remove it if it has timed out.
PlanWait(r) ==
  LET k == stored_key(request[r].key, request[r].hint) IN
  /\ request[r].phase = "plan"
  /\ k \in DOMAIN cache /\ cache[k].type = "Waiting" /\ request[r].ts >= cache[k].ts
  /\ \/ /\ Planned(r, k, "wait", cache[k].id, NoResult)
        /\ UNCHANGED <<cache, faults>>
     \/ /\ faults < MaxFaults /\ faults' = faults + 1
        /\ cache' = remove_waiting(cache, k, cache[k].id)
        /\ UNCHANGED request
  /\ UNCHANGED <<databaseVars, channels, next_waiting_id>>

\* No entry: put_waiting, and execute for everyone.
PlanGo(r) ==
  LET k == stored_key(request[r].key, request[r].hint)
      entry == [type |-> "Waiting", id |-> next_waiting_id, ts |-> request[r].ts] IN
  /\ request[r].phase = "plan"
  /\ k \notin DOMAIN cache
  /\ next_waiting_id <= MaxWaitingId
  /\ cache' \in Evicted(Insert(cache, k, entry))
  /\ next_waiting_id' = next_waiting_id + 1
  /\ Planned(r, k, "go", next_waiting_id, NoResult)
  /\ UNCHANGED <<databaseVars, channels, faults>>

\* A received result; a peer that went away is removed and the plan retried.
Receive(r) ==
  LET id == request[r].entry IN
  /\ request[r].phase = "wait" /\ channels[id] # Open
  /\ IF channels[id] = Closed
     THEN /\ cache' = remove_waiting(cache, request[r].hint, id)
          /\ request' = [request EXCEPT ![r] = [@ EXCEPT !.phase = "plan", !.entry = 0]]
     ELSE /\ request' = [request EXCEPT ![r] = [@ EXCEPT !.phase = "validate", !.entry = 0,
                                                         !.result = channels[id].result]]
          /\ UNCHANGED cache
  /\ UNCHANGED <<databaseVars, channels, next_waiting_id, faults>>

\* The waiter runs out of its own time first: it plans again, and leaves the
\* entry of the peer in the cache.
StopWaiting(r) ==
  /\ request[r].phase = "wait" /\ channels[request[r].entry] = Open
  /\ faults < MaxFaults /\ faults' = faults + 1
  /\ request' = [request EXCEPT ![r] = [@ EXCEPT !.phase = "plan", !.entry = 0]]
  /\ UNCHANGED <<databaseVars, cacheVars>>

\* Fault: the sender outlives the request.
Close_leaks(id, sent) == channels

\* The sender of a waiting entry is used or dropped.
Close(id, sent) == IF id = 0 THEN channels ELSE [channels EXCEPT ![id] = sent]

\* Peers wait under the request's stored key.
is_for_peers(r, outcome) ==
  outcome.ok /\ request[r].hint \in cache_keys_after_execution(request[r].key, outcome)

\* CacheOp::Go runs the query at the timestamp and tells the peers.
Execute(r) ==
  LET outcome == Outcome(request[r].key, history[request[r].ts])
      result == [outcome |-> outcome, original_ts |-> request[r].ts, token_ts |-> request[r].ts] IN
  /\ request[r].phase = "go"
  /\ channels' = Close(request[r].entry, IF is_for_peers(r, outcome) THEN Sent(result) ELSE Closed)
  /\ request' = [request EXCEPT ![r] = [@ EXCEPT !.phase = "validate", !.result = result]]
  /\ UNCHANGED <<databaseVars, cache, next_waiting_id, faults>>

\* No write between the token and ts changed what the query read.
is_fresh(token_ts, ts) == ts <= token_ts \/ history[token_ts] = history[ts]

\* The guard of the request, dropped: the waiting entry goes.
Unguarded(r) == remove_waiting(cache, request[r].hint, request[r].entry)

Retry(r) ==
  request' = [request EXCEPT ![r] = [@ EXCEPT !.phase = "plan", !.entry = 0, !.result = NoResult]]

refreshes(r) == is_fresh(request[r].result.token_ts, request[r].ts)
too_new(r) == request[r].ts < request[r].result.original_ts

\* validate_cache_result refuses: the result is too new for this request, its
\* token cannot be refreshed, because of a write or because it left the log, or
\* it observed the time and is too old.  What is not too new leaves the cache.
Reject(r) ==
  LET result == request[r].result IN
  /\ request[r].phase = "validate"
  /\ \/ (too_new(r) \/ ~refreshes(r)) /\ UNCHANGED faults
     \/ faults < MaxFaults /\ faults' = faults + 1
  /\ cache' = IF too_new(r) THEN Unguarded(r)
              ELSE remove_ready(Unguarded(r), request[r].hint, result.original_ts)
  /\ Retry(r)
  /\ UNCHANGED <<databaseVars, channels, next_waiting_id>>

\* refresh_token never moves a token back.
refreshed_ts(token_ts, ts) == IF token_ts < ts THEN ts ELSE token_ts

\* The result is accepted with a refreshed token.  A hit is returned; the
\* result of an error only releases the waiting entry; a new result goes on to
\* put_ready once its waiting entry is removed.
Accept(r) ==
  LET result == [request[r].result EXCEPT !.token_ts = refreshed_ts(@, request[r].ts)] IN
  /\ request[r].phase = "validate" /\ ~too_new(r) /\ refreshes(r)
  /\ cache' = Unguarded(r)
  /\ request' = [request EXCEPT ![r] = [@ EXCEPT !.result = result, !.entry = 0,
       !.phase = IF request[r].entry # 0 /\ result.outcome.ok THEN "put" ELSE "done"]]
  /\ UNCHANGED <<databaseVars, channels, next_waiting_id, faults>>

\* WaitingEntryGuard::complete, after remove_waiting.
PutReady(r) ==
  LET result == request[r].result IN
  /\ request[r].phase = "put"
  /\ cache' \in Evicted(put_ready(cache, cache_keys_after_execution(request[r].key, result.outcome),
                                  result))
  /\ request' = [request EXCEPT ![r] = [@ EXCEPT !.phase = "done"]]
  /\ UNCHANGED <<databaseVars, channels, next_waiting_id, faults>>

\* Fault: only an executing request that fails removes its waiting entry.
dropped_without_guard(r) == cache

\* Drop of WaitingEntryGuard.
dropped(r) == IF request[r].phase \in {"go", "validate"} THEN Unguarded(r) ELSE cache

\* The call times out, the execution fails or the caller goes away.
Fail(r) ==
  /\ request[r].phase \in {"plan", "wait", "go", "validate"}
  /\ faults < MaxFaults /\ faults' = faults + 1
  /\ cache' = dropped(r)
  /\ channels' = IF request[r].phase = "go" THEN Close(request[r].entry, Closed) ELSE channels
  /\ request' = [request EXCEPT ![r] = [@ EXCEPT !.phase = "failed", !.entry = 0]]
  /\ UNCHANGED <<databaseVars, next_waiting_id>>

\* The steps a request owes; PlanWait's removal of a timed-out peer and the
\* expiry of a result are not owed, but may be taken.
Proceed(r) ==
  \/ PlanReady(r) \/ PlanGoAlone(r) \/ PlanWait(r) \/ PlanGo(r)
  \/ Receive(r) \/ Execute(r)
  \/ Reject(r) \/ Accept(r) \/ PutReady(r)

Next ==
  \/ \E auth \in BOOLEAN, page \in Journals, ok \in BOOLEAN : Commit(auth, page, ok)
  \/ \E r \in Requests :
       \/ \E key \in RequestedKeys, ts \in Timestamps : Get(r, key, ts)
       \/ Proceed(r) \/ StopWaiting(r) \/ Fail(r)

Spec == Init /\ [][Next]_vars

\* Every future that can run is polled.
FairSpec == Spec /\ \A r \in Requests : WF_vars(Proceed(r))

-----------------------------------------------------------------------------
(* Properties.                                                             *)

\* A cached result is the result, for every caller its key admits, at every
\* timestamp from the one it was computed at to the one of its token; errors
\* are never cached ("Developer error: Cache contained failed execution").
CacheSound ==
  \A k \in DOMAIN cache : cache[k].type = "Ready" =>
    /\ cache[k].result.outcome.ok
    /\ \A ts \in cache[k].result.original_ts..cache[k].result.token_ts :
         \A i \in IF k.identity = None THEN Identities ELSE {k.identity} :
           Outcome([k EXCEPT !.identity = i], history[ts]) = cache[k].result.outcome

\* A request is answered with what the query returns for its own identity and
\* journal at its own timestamp, whoever executed it, when, and whether the
\* result came from the cache, over a channel or from its own execution.
AnswersTrue ==
  \A r \in Requests : request[r].phase = "done" =>
    request[r].result.outcome = Outcome(request[r].key, history[request[r].ts])

\* "the waiting entry always get cleaned up": a waiting entry belongs to a
\* request that will remove it, so nobody waits for a request that is gone.
NoOrphanedEntry ==
  \A k \in DOMAIN cache : cache[k].type = "Waiting" =>
    \E r \in Requests :
      /\ request[r].phase \in {"go", "validate"} /\ request[r].hint = k
      /\ request[r].entry = cache[k].id

\* Every request is answered, whatever its peers do.
EventuallyAnswered ==
  \A r \in Requests : request[r].phase = "plan" ~> request[r].phase \in {"done", "failed"}

==============================================================================
