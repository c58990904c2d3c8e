--------------------------- MODULE QueryCacheProofs ---------------------------
(***************************************************************************)
(* What QueryCache promises for any number of requests, identities and     *)
(* pages, any commits and any failures.                                    *)
(*                                                                         *)
(* The argument: a result is only ever stored, sent or kept where its key  *)
(* admits it; a version of the database is seen in one interval of         *)
(* timestamps, so a result that is right at both ends of an interval is    *)
(* right inside it; and the requests that hold a waiting entry, its owner  *)
(* and the peers that wait for it, agree on its key.                       *)
(***************************************************************************)
EXTENDS QueryCache, TLAPS

USE QueryCacheAssumption

-----------------------------------------------------------------------------
(* The inductive invariant.                                                *)

\* What the query reads only moves forward.
HistoryInv ==
  \A t, u \in Timestamps :
    /\ history[t].version <= latest_ts
    /\ t <= u => /\ history[t].version <= history[u].version
                 /\ history[t].version = history[u].version => history[t] = history[u]

\* The timestamps of a result.
InTime(now, result) ==
  /\ result \in Results
  /\ result.original_ts <= result.token_ts /\ result.token_ts <= now

\* The result is right for a request of this key, from the timestamp it was
\* computed at to that of its token, in the history h up to now.
RightFor(h, now, key, result) ==
  /\ InTime(now, result)
  /\ \A ts \in Timestamps : result.original_ts <= ts /\ ts <= result.token_ts =>
       Outcome(key, h[ts]) = result.outcome

\* It is right for every request that finds it under this key.
RightUnder(h, now, k, result) ==
  /\ InTime(now, result)
  /\ \A ts \in Timestamps : result.original_ts <= ts /\ ts <= result.token_ts =>
       \A i \in Identities : k.identity \in {None, i} =>
         Outcome([k EXCEPT !.identity = i], h[ts]) = result.outcome

\* A request and what it has come to; next is the next waiting id.
RequestOK(h, now, next, q) ==
  /\ q.phase # "idle" => q.key \in RequestedKeys /\ q.ts <= now
  /\ q.phase # "idle" => q.hint \in {NoKey, precise_cache_key(q.key), identity_less(q.key)}
  /\ q.phase \in {"wait", "go", "validate"} =>
       q.hint \in {precise_cache_key(q.key), identity_less(q.key)} /\ q.entry < next
  /\ q.phase \in {"idle", "plan", "put", "done", "failed"} => q.entry = 0
  /\ q.phase = "wait" => q.entry # 0
  /\ q.phase \in {"validate", "put", "done"} => RightFor(h, now, q.key, q.result)
  /\ q.phase = "put" => q.result.outcome.ok
  /\ q.phase \in {"put", "done"} => q.result.original_ts <= q.ts /\ q.ts <= q.result.token_ts

RequestInv ==
  \A r \in Requests : RequestOK(history, latest_ts, next_waiting_id, request[r])

\* The owner of a waiting entry and its peers.
Holds(r) == request[r].phase \in {"wait", "go", "validate"} /\ request[r].entry # 0
Owns(r) == request[r].phase \in {"go", "validate"} /\ request[r].entry # 0

\* They agree on its key, and it has one owner; what was sent is right under
\* the key; the channels of later entries are untouched.
HolderInv ==
  /\ \A r, s \in Requests : Holds(r) /\ Holds(s) /\ request[r].entry = request[s].entry =>
       /\ request[r].hint = request[s].hint
       /\ Owns(r) /\ Owns(s) => r = s
  /\ \A r \in Requests : Holds(r) /\ channels[request[r].entry].state = "sent" =>
       RightUnder(history, latest_ts, request[r].hint, channels[request[r].entry].result)
  /\ \A id \in 1..MaxWaitingId : next_waiting_id <= id => channels[id] = Open

\* A cached result is right under its key, and never an error.
CacheInv ==
  \A k \in DOMAIN cache : cache[k].type = "Ready" =>
    RightUnder(history, latest_ts, k, cache[k].result) /\ cache[k].result.outcome.ok

Inv ==
  /\ TypeOK /\ HistoryInv /\ RequestInv /\ HolderInv /\ CacheInv /\ NoOrphanedEntry

-----------------------------------------------------------------------------
(* Types.                                                                  *)

ChannelType == {Open, Closed} \cup [state : {"sent"}, result : Results]

LEMMA Types ==
  ASSUME TypeOK
  PROVE  /\ history \in [Timestamps -> States] /\ latest_ts \in Timestamps
         /\ DOMAIN cache \subseteq StoredKeys /\ cache \in [DOMAIN cache -> CacheEntries]
         /\ channels \in [1..MaxWaitingId -> ChannelType]
         /\ next_waiting_id \in 1..(MaxWaitingId + 1)
         /\ request \in [Requests -> RequestType]
         /\ faults \in 0..MaxFaults
BY DEF TypeOK, ChannelType

LEMMA TimeTypes == \A t \in Timestamps : t \in Nat
BY DEF Timestamps

LEMMA Numbers ==
  ASSUME TypeOK
  PROVE  /\ latest_ts \in Nat /\ next_waiting_id \in Nat
         /\ \A r \in Requests : request[r].entry \in Nat /\ request[r].ts \in Nat
<1>1. \A r \in Requests : request[r].entry \in 0..MaxWaitingId /\ request[r].ts \in Timestamps
  BY Types DEF RequestType
<1> QED
  BY <1>1, Types, TimeTypes

LEMMA ResultTypes ==
  ASSUME NEW result \in Results
  PROVE  /\ result.outcome \in Outcomes /\ result.original_ts \in Nat /\ result.token_ts \in Nat
         /\ result.original_ts \in Timestamps /\ result.token_ts \in Timestamps
BY TimeTypes DEF Results

LEMMA OutcomeType ==
  ASSUME NEW key \in RequestedKeys, NEW state \in States
  PROVE  Outcome(key, state) \in Outcomes
BY DEF Outcome, RequestedKeys, States, Outcomes, Journals

LEMMA KeyTypes ==
  ASSUME NEW key \in RequestedKeys
  PROVE  /\ precise_cache_key(key) \in StoredKeys /\ identity_less(key) \in StoredKeys
         /\ \A outcome \in Outcomes : cache_keys_after_execution(key, outcome) \subseteq StoredKeys
BY DEF RequestedKeys, StoredKeys, Outcomes, precise_cache_key, identity_less,
   cache_keys_after_execution

-----------------------------------------------------------------------------
(* Keys and results.                                                       *)

\* Where a result may be stored it is right for whoever looks there.
LEMMA StoredWhereRight ==
  ASSUME TypeOK, NEW key \in RequestedKeys, NEW result, RightFor(history, latest_ts, key, result),
         NEW k \in cache_keys_after_execution(key, result.outcome)
  PROVE  RightUnder(history, latest_ts, k, result)
<1>1. InTime(latest_ts, result) /\ result \in Results
  BY DEF RightFor, InTime
<1>2. ASSUME NEW ts \in Timestamps, result.original_ts <= ts, ts <= result.token_ts,
             NEW i \in Identities, k.identity \in {None, i}
      PROVE  Outcome([k EXCEPT !.identity = i], history[ts]) = result.outcome
  <2> DEFINE state == history[ts]
             outcome == result.outcome
  <2>1. outcome = Outcome(key, state)
    BY <1>2 DEF RightFor
  <2>2. /\ outcome.observed_identity = state.auth
        /\ outcome.journal = IF key.journal = 0 THEN state.page ELSE key.journal
    BY <2>1 DEF Outcome
  <2>3. state \in States /\ state.auth \in BOOLEAN
    BY Types DEF States
  <2>4. /\ k.identity = IF outcome.observed_identity THEN key.identity ELSE None
        /\ k.journal = key.journal \/ k.journal = outcome.journal
        /\ k = [identity |-> k.identity, journal |-> k.journal]
    BY DEF cache_keys_after_execution
  <2>5. [k EXCEPT !.identity = i] = [identity |-> i, journal |-> k.journal]
    BY <2>4
  <2>6. state.auth => i = key.identity
    <3>1. key.identity # None
      BY DEF RequestedKeys, Identities, None
    <3> QED
      BY <1>2, <2>2, <2>4, <3>1
  <2>7. (IF k.journal = 0 THEN state.page ELSE k.journal)
          = (IF key.journal = 0 THEN state.page ELSE key.journal)
    BY <2>2, <2>4
  <2> HIDE DEF state, outcome
  <2>8. Outcome([identity |-> i, journal |-> k.journal], state) = Outcome(key, state)
    BY <2>3, <2>6, <2>7 DEF Outcome
  <2> QED
    BY <2>1, <2>5, <2>8 DEF state, outcome
<1> QED
  BY <1>1, <1>2 DEF RightUnder

\* A result found under a key of the request is right for the request.
LEMMA FoundWhereRight ==
  ASSUME NEW key \in RequestedKeys, NEW result,
         NEW k \in {precise_cache_key(key), identity_less(key)}, RightUnder(history, latest_ts, k, result)
  PROVE  RightFor(history, latest_ts, key, result)
<1>1. key.identity \in Identities /\ k.identity \in {None, key.identity}
  BY DEF RequestedKeys, precise_cache_key, identity_less
<1>2. [k EXCEPT !.identity = key.identity] = key
  BY DEF RequestedKeys, precise_cache_key, identity_less
<1> QED
  BY <1>1, <1>2 DEF RightFor, RightUnder

\* stored_key is a key of the request.
LEMMA StoredKeyIs ==
  ASSUME NEW key, NEW hint \in {NoKey, precise_cache_key(key), identity_less(key)}
  PROVE  stored_key(key, hint) \in {precise_cache_key(key), identity_less(key)}
BY DEF stored_key

\* A token that can be refreshed covers everything up to ts.
LEMMA RefreshedIsRight ==
  ASSUME TypeOK, HistoryInv, NEW key, NEW result, RightFor(history, latest_ts, key, result), NEW ts \in Timestamps,
         ts <= latest_ts, result.original_ts <= ts, is_fresh(result.token_ts, ts)
  PROVE  LET new == [result EXCEPT !.token_ts = refreshed_ts(@, ts)] IN
         /\ RightFor(history, latest_ts, key, new) /\ new.outcome = result.outcome
         /\ new.original_ts <= ts /\ ts <= new.token_ts
<1> DEFINE new == [result EXCEPT !.token_ts = refreshed_ts(@, ts)]
<1>1. /\ result \in Results /\ result.original_ts \in Nat /\ result.token_ts \in Nat
      /\ result.token_ts \in Timestamps /\ ts \in Nat /\ latest_ts \in Nat
      /\ result.original_ts <= result.token_ts /\ result.token_ts <= latest_ts
  BY ResultTypes, TimeTypes, Types DEF RightFor, InTime
<1> DEFINE token == refreshed_ts(result.token_ts, ts)
<1>2. /\ token \in Timestamps /\ token \in Nat /\ result.token_ts <= token /\ ts <= token
      /\ token <= latest_ts /\ (token = result.token_ts \/ (token = ts /\ result.token_ts < ts))
  BY <1>1 DEF refreshed_ts
<1>3. /\ new \in Results /\ new.outcome = result.outcome /\ new.original_ts = result.original_ts
      /\ new.token_ts = token
  <2>1. new = [result EXCEPT !.token_ts = token]
    OBVIOUS
  <2> HIDE DEF token
  <2> QED
    BY <1>1, <1>2, <2>1 DEF Results
<1> HIDE DEF new, token
<1>4. ASSUME NEW t \in Timestamps, result.original_ts <= t, t <= token
      PROVE  Outcome(key, history[t]) = result.outcome
  <2>1. CASE t <= result.token_ts
    BY <1>4, <2>1 DEF RightFor
  <2>2. CASE ~(t <= result.token_ts)
    <3>1. t \in Nat /\ token = ts /\ result.token_ts < ts /\ result.token_ts <= t /\ t <= ts
      BY <1>1, <1>2, <1>4, <2>2, TimeTypes
    <3>2. history[result.token_ts] = history[ts]
      BY <1>1, <3>1 DEF is_fresh
    <3>3. /\ history[t].version \in Nat /\ history[ts].version \in Nat
      BY Types, TimeTypes DEF States
    <3>4. /\ history[result.token_ts].version <= history[t].version
          /\ history[t].version <= history[ts].version
          /\ history[t].version = history[ts].version => history[t] = history[ts]
      BY <1>1, <1>4, <3>1 DEF HistoryInv
    <3>5. history[t] = history[result.token_ts]
      BY <3>2, <3>3, <3>4
    <3>6. Outcome(key, history[result.token_ts]) = result.outcome
      BY <1>1 DEF RightFor
    <3> QED
      BY <3>5, <3>6
  <2> QED
    BY <2>1, <2>2
<1>5. RightFor(history, latest_ts, key, new)
  BY <1>1, <1>2, <1>3, <1>4 DEF RightFor, InTime
<1> QED
  BY <1>1, <1>2, <1>3, <1>5 DEF new

-----------------------------------------------------------------------------
(* A step of one request.                                                  *)

Grown(h, now, h2, now2) ==
  /\ now \in Nat /\ now2 \in Nat /\ now <= now2
  /\ \A t \in Timestamps : t <= now => h2[t] = h[t]

\* What is right stays right: the past does not change.
LEMMA RightStays ==
  ASSUME NEW h, NEW now, NEW h2, NEW now2, Grown(h, now, h2, now2), NEW result
  PROVE  /\ \A key : RightFor(h, now, key, result) => RightFor(h2, now2, key, result)
         /\ \A k : RightUnder(h, now, k, result) => RightUnder(h2, now2, k, result)
<1>1. ASSUME InTime(now, result)
      PROVE  /\ InTime(now2, result)
             /\ \A ts \in Timestamps : ts <= result.token_ts => h2[ts] = h[ts]
  <2>1. result \in Results /\ result.token_ts \in Nat /\ result.original_ts <= result.token_ts
        /\ result.token_ts <= now
    BY <1>1, ResultTypes DEF InTime
  <2> QED
    BY <2>1, TimeTypes DEF InTime, Grown
<1>2. ASSUME NEW key, RightFor(h, now, key, result)
      PROVE  RightFor(h2, now2, key, result)
  BY <1>1, <1>2 DEF RightFor
<1>3. ASSUME NEW k, RightUnder(h, now, k, result)
      PROVE  RightUnder(h2, now2, k, result)
  BY <1>1, <1>3 DEF RightUnder
<1> QED
  BY <1>2, <1>3

LEMMA RequestStays ==
  ASSUME NEW h, NEW now, NEW h2, NEW now2, Grown(h, now, h2, now2),
         NEW next \in Nat, NEW next2 \in Nat, next <= next2,
         NEW q \in RequestType, RequestOK(h, now, next, q)
  PROVE  RequestOK(h2, now2, next2, q)
<1>1. q.ts \in Nat /\ q.entry \in Nat
  BY TimeTypes DEF RequestType
<1>2. RightFor(h, now, q.key, q.result) => RightFor(h2, now2, q.key, q.result)
  BY RightStays
<1>3. q.ts <= now => q.ts <= now2
  BY <1>1 DEF Grown
<1>4. q.entry < next => q.entry < next2
  BY <1>1
<1> QED
  BY <1>2, <1>3, <1>4 DEF RequestOK

LEMMA NothingGrows ==
  ASSUME TypeOK
  PROVE  Grown(history, latest_ts, history, latest_ts)
BY Numbers DEF Grown

\* One request becomes q.
Becomes(r, q) == request' = [request EXCEPT ![r] = q]

LEMMA OneMoves ==
  ASSUME TypeOK, NEW r \in Requests, NEW q, Becomes(r, q), q \in RequestType
  PROVE  /\ request' \in [Requests -> RequestType] /\ request'[r] = q
         /\ \A s \in Requests \ {r} : request'[s] = request[s]
BY Types DEF Becomes

LEMMA RequestMove ==
  ASSUME TypeOK, RequestInv, NEW r \in Requests, NEW q, Becomes(r, q), q \in RequestType,
         UNCHANGED databaseVars, next_waiting_id' \in Nat, next_waiting_id <= next_waiting_id',
         RequestOK(history, latest_ts, next_waiting_id', q)
  PROVE  RequestInv'
<1>1. SUFFICES ASSUME NEW s \in Requests
               PROVE  RequestOK(history, latest_ts, next_waiting_id', request'[s])
  BY DEF RequestInv, databaseVars
<1>2. CASE s = r
  BY <1>2, OneMoves
<1>3. CASE s # r
  <2>1. request'[s] = request[s] /\ request[s] \in RequestType
    BY <1>3, OneMoves, Types
  <2>2. RequestOK(history, latest_ts, next_waiting_id, request[s])
    BY DEF RequestInv
  <2>3. RequestOK(history, latest_ts, next_waiting_id', request[s])
    BY <2>1, <2>2, NothingGrows, RequestStays, Numbers
  <2> QED
    BY <2>1, <2>3
<1> QED
  BY <1>2, <1>3

\* A step after which nobody holds what they did not hold before, and what is
\* newly sent is right under the key of everyone who holds the entry.
LEMMA HolderMove ==
  ASSUME TypeOK, HolderInv, UNCHANGED databaseVars,
         next_waiting_id' \in Nat, next_waiting_id <= next_waiting_id',
         \A s \in Requests : Holds(s)' =>
           /\ Holds(s) /\ request'[s].hint = request[s].hint
           /\ request'[s].entry = request[s].entry
           /\ Owns(s)' => Owns(s),
         \A s \in Requests : Holds(s) /\ channels'[request[s].entry].state = "sent" =>
           \/ channels'[request[s].entry] = channels[request[s].entry]
           \/ RightUnder(history, latest_ts, request[s].hint, channels'[request[s].entry].result),
         \A id \in 1..MaxWaitingId : next_waiting_id' <= id => channels'[id] = channels[id]
  PROVE  HolderInv'
<1>1. ASSUME NEW r \in Requests, NEW s \in Requests, Holds(r)', Holds(s)',
             request'[r].entry = request'[s].entry
      PROVE  request'[r].hint = request'[s].hint /\ (Owns(r)' /\ Owns(s)' => r = s)
  BY <1>1 DEF HolderInv
<1>2. ASSUME NEW r \in Requests, Holds(r)', channels'[request'[r].entry].state = "sent"
      PROVE  RightUnder(history, latest_ts, request'[r].hint, channels'[request'[r].entry].result)
  BY <1>2 DEF HolderInv
<1>3. ASSUME NEW id \in 1..MaxWaitingId, next_waiting_id' <= id
      PROVE  channels'[id] = Open
  <2>1. next_waiting_id <= id
    BY <1>3, Numbers
  <2> QED
    BY <1>3, <2>1 DEF HolderInv
<1> QED
  BY <1>1, <1>2, <1>3 DEF HolderInv, databaseVars

-----------------------------------------------------------------------------
(* Removing entries.                                                       *)

LEMMA EvictedIs ==
  ASSUME NEW c, NEW c2 \in Evicted(c)
  PROVE  /\ DOMAIN c2 \subseteq DOMAIN c /\ \A k \in DOMAIN c2 : c2[k] = c[k]
         /\ c2 = [k \in DOMAIN c2 |-> c2[k]]
BY DEF Evicted, Restrict

LEMMA RemovedIsEvicted ==
  ASSUME NEW c, c = [k \in DOMAIN c |-> c[k]], NEW k, NEW id
  PROVE  remove_waiting(c, k, id) \in Evicted(c) /\ remove_ready(c, k, id) \in Evicted(c)
<1>1. c \in Evicted(c)
  BY DEF Evicted, Restrict
<1>2. Without(c, k) \in Evicted(c)
  BY DEF Evicted, Without
<1> QED
  BY <1>1, <1>2 DEF remove_waiting, remove_ready

LEMMA EvictedTwice ==
  ASSUME NEW c, NEW c2 \in Evicted(c), NEW c3 \in Evicted(c2)
  PROVE  c3 \in Evicted(c)
<1>1. PICK S \in SUBSET DOMAIN c : c2 = Restrict(c, S)
  BY DEF Evicted
<1>2. PICK T \in SUBSET DOMAIN c2 : c3 = Restrict(c2, T)
  BY DEF Evicted
<1>3. T \in SUBSET DOMAIN c /\ c3 = Restrict(c, T)
  BY <1>1, <1>2 DEF Restrict
<1> QED
  BY <1>3 DEF Evicted

LEMMA WaitingRemoved ==
  ASSUME NEW c, NEW k, NEW id
  PROVE  LET c2 == remove_waiting(c, k, id) IN
         ~(k \in DOMAIN c2 /\ c2[k].type = "Waiting" /\ c2[k].id = id)
BY DEF remove_waiting, Without, Restrict

LEMMA CacheType ==
  ASSUME NEW c, c = [k \in DOMAIN c |-> c[k]], DOMAIN c \subseteq StoredKeys,
         \A k \in DOMAIN c : c[k] \in CacheEntries
  PROVE  \E keys \in SUBSET StoredKeys : c \in [keys -> CacheEntries]
<1>1. c \in [DOMAIN c -> CacheEntries]
  OBVIOUS
<1> QED
  BY <1>1

\* A step that only removes entries, and the waiting entry of a request that
\* stops owning it.
LEMMA CacheShrinks ==
  ASSUME TypeOK, CacheInv, NoOrphanedEntry, UNCHANGED databaseVars, cache' \in Evicted(cache),
         NEW r \in Requests, \A s \in Requests \ {r} : request'[s] = request[s],
         request[r].phase \in {"go", "validate"} =>
           \/ /\ request'[r].phase \in {"go", "validate"} /\ request'[r].hint = request[r].hint
              /\ request'[r].entry = request[r].entry
           \/ \A k \in DOMAIN cache' : ~(/\ k = request[r].hint /\ cache'[k].type = "Waiting"
                                         /\ cache'[k].id = request[r].entry)
  PROVE  /\ \E keys \in SUBSET StoredKeys : cache' \in [keys -> CacheEntries]
         /\ CacheInv' /\ NoOrphanedEntry'
<1>1. /\ DOMAIN cache' \subseteq DOMAIN cache /\ \A k \in DOMAIN cache' : cache'[k] = cache[k]
      /\ cache' = [k \in DOMAIN cache' |-> cache'[k]]
  BY EvictedIs
<1>2. \E keys \in SUBSET StoredKeys : cache' \in [keys -> CacheEntries]
  <2>1. DOMAIN cache \subseteq StoredKeys /\ \A k \in DOMAIN cache : cache[k] \in CacheEntries
    BY Types
  <2>2. DOMAIN cache' \subseteq StoredKeys /\ \A k \in DOMAIN cache' : cache'[k] \in CacheEntries
    BY <1>1, <2>1
  <2> QED
    BY <1>1, <2>2, CacheType
<1>3. CacheInv'
  BY <1>1 DEF CacheInv, databaseVars
<1>4. NoOrphanedEntry'
  <2>1. SUFFICES ASSUME NEW k \in DOMAIN cache', cache'[k].type = "Waiting"
                 PROVE  \E s \in Requests :
                          /\ request'[s].phase \in {"go", "validate"} /\ request'[s].hint = k
                          /\ request'[s].entry = cache'[k].id
    BY DEF NoOrphanedEntry
  <2>2. PICK s \in Requests : /\ request[s].phase \in {"go", "validate"} /\ request[s].hint = k
                              /\ request[s].entry = cache[k].id
    BY <1>1, <2>1 DEF NoOrphanedEntry
  <2>3. CASE s # r
    BY <1>1, <2>2, <2>3
  <2>4. CASE s = r
    BY <1>1, <2>1, <2>2, <2>4
  <2> QED
    BY <2>3, <2>4
<1> QED
  BY <1>2, <1>3, <1>4

-----------------------------------------------------------------------------
(* The actions that plan.                                                  *)

\* What the invariant says of one request.
LEMMA RequestFacts ==
  ASSUME Inv, NEW r \in Requests
  PROVE  /\ request[r] \in RequestType
         /\ RequestOK(history, latest_ts, next_waiting_id, request[r])
         /\ request[r].phase # "idle" =>
              /\ request[r].key \in RequestedKeys /\ request[r].ts <= latest_ts
              /\ request[r].ts \in Timestamps
              /\ request[r].hint \in {NoKey, precise_cache_key(request[r].key),
                                      identity_less(request[r].key)}
<1>1. request[r] \in RequestType /\ RequestOK(history, latest_ts, next_waiting_id, request[r])
  BY Types DEF Inv, RequestInv
<1>2. request[r].ts \in Timestamps
  BY <1>1 DEF RequestType
<1> QED
  BY <1>1, <1>2 DEF RequestOK

\* HistoryInv of an unchanged database.
LEMMA HistoryStays ==
  ASSUME HistoryInv, UNCHANGED databaseVars
  PROVE  HistoryInv'
BY DEF HistoryInv, databaseVars

LEMMA TypeMove ==
  ASSUME TypeOK, UNCHANGED databaseVars, UNCHANGED next_waiting_id,
         channels' \in [1..MaxWaitingId -> ChannelType],
         \E keys \in SUBSET StoredKeys : cache' \in [keys -> CacheEntries],
         request' \in [Requests -> RequestType], faults' \in 0..MaxFaults
  PROVE  TypeOK'
BY DEF TypeOK, databaseVars, ChannelType

\* The sender of a request only touches its own channel.
LEMMA CloseIs ==
  ASSUME Inv, NEW r \in Requests, NEW sent \in ChannelType
  PROVE  LET id == request[r].entry
             now == Close(id, sent) IN
         /\ now \in [1..MaxWaitingId -> ChannelType]
         /\ \A x \in 1..MaxWaitingId : now[x] = IF x = id THEN sent ELSE channels[x]
         /\ id \in 0..MaxWaitingId /\ id < next_waiting_id
<1>1. channels \in [1..MaxWaitingId -> ChannelType] /\ next_waiting_id \in 1..(MaxWaitingId + 1)
  BY Types DEF Inv
<1>2. request[r].entry \in 0..MaxWaitingId /\ request[r].phase \in Phases
  BY RequestFacts DEF RequestType
<1>3. request[r].entry < next_waiting_id
  <2>1. request[r].entry = 0 \/ request[r].entry < next_waiting_id
    BY <1>2, RequestFacts DEF RequestOK, Phases
  <2> QED
    BY <1>1, <2>1
<1> QED
  BY <1>1, <1>2, <1>3 DEF Close

\* A step of a request that sends nothing, takes entries away at most, and
\* leaves it holding nothing new.
LEMMA QuietMove ==
  ASSUME Inv, NEW r \in Requests, UNCHANGED databaseVars, UNCHANGED next_waiting_id,
         channels' \in {channels, Close(request[r].entry, Closed)},
         cache' \in Evicted(cache), faults' \in 0..MaxFaults,
         NEW q, Becomes(r, q), q \in RequestType,
         RequestOK(history, latest_ts, next_waiting_id, q),
         q.phase \in {"wait", "go", "validate"} => q.entry = 0,
         request[r].phase \in {"go", "validate"} =>
           \A k \in DOMAIN cache' : ~(/\ k = request[r].hint /\ cache'[k].type = "Waiting"
                                      /\ cache'[k].id = request[r].entry)
  PROVE  Inv'
<1>1. /\ request' \in [Requests -> RequestType] /\ request'[r] = q
      /\ \A s \in Requests \ {r} : request'[s] = request[s]
  BY OneMoves DEF Inv
<1>2. RequestInv'
  BY RequestMove, Numbers DEF Inv
<1>3. HistoryInv'
  BY HistoryStays DEF Inv
<1>4. /\ channels' \in [1..MaxWaitingId -> ChannelType]
      /\ \A id \in 1..MaxWaitingId : channels'[id] = channels[id] \/ channels'[id] = Closed
      /\ \A id \in 1..MaxWaitingId : next_waiting_id <= id => channels'[id] = channels[id]
  <2>1. CASE channels' = channels
    BY <2>1, Types DEF Inv
  <2>2. CASE channels' = Close(request[r].entry, Closed)
    <3>1. Closed \in ChannelType
      BY DEF ChannelType
    <3>2. /\ channels' \in [1..MaxWaitingId -> ChannelType]
          /\ \A x \in 1..MaxWaitingId :
               channels'[x] = IF x = request[r].entry THEN Closed ELSE channels[x]
          /\ request[r].entry \in Nat /\ request[r].entry < next_waiting_id
      BY <2>2, <3>1, CloseIs
    <3>3. next_waiting_id \in Nat
      BY Numbers DEF Inv
    <3> QED
      BY <3>2, <3>3
  <2> QED
    BY <2>1, <2>2
<1>5. HolderInv'
  <2>1. ASSUME NEW s \in Requests, Holds(s)'
        PROVE  s # r
    BY <1>1, <2>1 DEF Holds
  <2>2. ASSUME NEW s \in Requests, Holds(s)'
        PROVE  /\ Holds(s) /\ request'[s].hint = request[s].hint
               /\ request'[s].entry = request[s].entry /\ (Owns(s)' => Owns(s))
    BY <1>1, <2>1, <2>2 DEF Holds, Owns
  <2>3. ASSUME NEW s \in Requests, Holds(s), channels'[request[s].entry].state = "sent"
        PROVE  channels'[request[s].entry] = channels[request[s].entry]
    <3>1. request[s].entry \in 1..MaxWaitingId
      BY <2>3, RequestFacts DEF Holds, RequestType
    <3> QED
      BY <1>4, <2>3, <3>1 DEF Closed
  <2>4. next_waiting_id' \in Nat /\ next_waiting_id <= next_waiting_id'
    BY Numbers DEF Inv
  <2> QED
    BY <1>4, <2>2, <2>3, <2>4, HolderMove DEF Inv
<1>6. /\ \E keys \in SUBSET StoredKeys : cache' \in [keys -> CacheEntries]
      /\ CacheInv' /\ NoOrphanedEntry'
  BY <1>1, CacheShrinks DEF Inv
<1>7. TypeOK'
  BY <1>1, <1>4, <1>6, TypeMove DEF Inv
<1> QED
  BY <1>2, <1>3, <1>5, <1>6, <1>7 DEF Inv

LEMMA CacheIsEvicted ==
  ASSUME TypeOK
  PROVE  cache = [k \in DOMAIN cache |-> cache[k]] /\ cache \in Evicted(cache)
<1>1. cache = [k \in DOMAIN cache |-> cache[k]]
  BY Types
<1> QED
  BY <1>1 DEF Evicted, Restrict

LEMMA GetStep ==
  ASSUME Inv, NEW r \in Requests, NEW key \in RequestedKeys, NEW ts \in Timestamps, Get(r, key, ts)
  PROVE  Inv'
<1> DEFINE q == [Idle EXCEPT !.phase = "plan", !.key = key, !.ts = ts]
<1>1. /\ q.phase = "plan" /\ q.key = key /\ q.ts = ts /\ q.hint = NoKey /\ q.entry = 0
      /\ q \in RequestType
  <2>1. Idle \in RequestType /\ Idle.hint = NoKey /\ Idle.entry = 0
    BY DEF Idle, RequestType, Phases, Timestamps
  <2> QED
    BY <2>1 DEF RequestType, Phases
<1>2. Becomes(r, q) /\ request[r].phase = "idle" /\ ts <= latest_ts
  BY DEF Get, Becomes
<1> HIDE DEF q
<1>3. RequestOK(history, latest_ts, next_waiting_id, q)
  BY <1>1, <1>2 DEF RequestOK
<1>4. /\ UNCHANGED databaseVars /\ UNCHANGED cache /\ UNCHANGED channels
      /\ UNCHANGED next_waiting_id /\ UNCHANGED faults
  BY DEF Get, cacheVars
<1>5. cache' \in Evicted(cache) /\ faults' \in 0..MaxFaults
  BY <1>4, CacheIsEvicted, Types DEF Inv
<1> QED
  BY <1>1, <1>2, <1>3, <1>4, <1>5, QuietMove

\* The key a plan looks at, and what it finds there.
LEMMA PlannedKey ==
  ASSUME Inv, NEW r \in Requests, request[r].phase = "plan"
  PROVE  LET k == stored_key(request[r].key, request[r].hint) IN
         /\ k \in {precise_cache_key(request[r].key), identity_less(request[r].key)}
         /\ k \in StoredKeys
         /\ k \in DOMAIN cache => cache[k] \in CacheEntries
<1> DEFINE k == stored_key(request[r].key, request[r].hint)
<1>1. k \in {precise_cache_key(request[r].key), identity_less(request[r].key)}
  BY RequestFacts, StoredKeyIs
<1>2. k \in StoredKeys
  BY <1>1, RequestFacts, KeyTypes
<1>4. k \in DOMAIN cache => cache[k] \in CacheEntries
  BY Types DEF Inv
<1> QED
  BY <1>1, <1>2, <1>4

\* What Planned makes of a request.
LEMMA PlannedIs ==
  ASSUME Inv, NEW r \in Requests, request[r].phase = "plan",
         NEW k \in StoredKeys, NEW phase \in {"wait", "go", "validate"},
         NEW id \in 0..MaxWaitingId, NEW result \in Results \cup {NoResult},
         Planned(r, k, phase, id, result)
  PROVE  \E q \in RequestType :
           /\ Becomes(r, q) /\ q.phase = phase /\ q.key = request[r].key /\ q.ts = request[r].ts
           /\ q.hint = k /\ q.entry = id /\ q.result = result
<1> DEFINE q == [request[r] EXCEPT !.phase = phase, !.hint = k, !.entry = id,
                                   !.result = result, !.hit = phase # "go"]
<1>1. request[r] \in RequestType
  BY RequestFacts
<1>2. q \in RequestType
  BY <1>1 DEF RequestType, Phases
<1>3. /\ q.phase = phase /\ q.key = request[r].key /\ q.ts = request[r].ts
      /\ q.hint = k /\ q.entry = id /\ q.result = result
  BY <1>1 DEF RequestType
<1>4. Becomes(r, q)
  BY Types DEF Inv, Planned, Becomes
<1> QED
  BY <1>2, <1>3, <1>4

LEMMA EntryTypes ==
  ASSUME NEW entry \in CacheEntries
  PROVE  /\ entry.type = "Ready" => entry.result \in Results
         /\ entry.type = "Waiting" => entry.id \in 1..MaxWaitingId /\ entry.ts \in Timestamps
         /\ entry.type \in {"Ready", "Waiting"}
BY DEF CacheEntries

LEMMA PlanReadyStep ==
  ASSUME Inv, NEW r \in Requests, PlanReady(r)
  PROVE  Inv'
<1> DEFINE k == stored_key(request[r].key, request[r].hint)
<1>1. /\ request[r].phase = "plan" /\ k \in DOMAIN cache /\ cache[k].type = "Ready"
      /\ Planned(r, k, "validate", 0, cache[k].result)
      /\ UNCHANGED databaseVars /\ UNCHANGED cache /\ UNCHANGED channels
      /\ UNCHANGED next_waiting_id /\ UNCHANGED faults
  BY DEF PlanReady, cacheVars
<1>2. /\ k \in {precise_cache_key(request[r].key), identity_less(request[r].key)}
      /\ k \in StoredKeys /\ cache[k] \in CacheEntries
  BY <1>1, PlannedKey
<1>3. cache[k].result \in Results /\ RightUnder(history, latest_ts, k, cache[k].result)
  BY <1>1, <1>2, EntryTypes DEF Inv, CacheInv
<1> HIDE DEF k
<1>4. PICK q \in RequestType :
           /\ Becomes(r, q) /\ q.phase = "validate" /\ q.key = request[r].key
           /\ q.ts = request[r].ts
           /\ q.hint = k /\ q.entry = 0 /\ q.result = cache[k].result
  <2>1. 0 \in 0..MaxWaitingId
    OBVIOUS
  <2> QED
    BY <1>1, <1>2, <1>3, <2>1, PlannedIs
<1>5. RequestOK(history, latest_ts, next_waiting_id, q)
  <2>1. request[r].key \in RequestedKeys /\ request[r].ts <= latest_ts
    BY <1>1, RequestFacts
  <2>2. RightFor(history, latest_ts, q.key, q.result)
    BY <1>2, <1>3, <1>4, <2>1, FoundWhereRight
  <2>3. 0 < next_waiting_id
    BY Types DEF Inv
  <2> QED
    BY <1>2, <1>4, <2>1, <2>2, <2>3 DEF RequestOK
<1>6. cache' \in Evicted(cache) /\ faults' \in 0..MaxFaults
  BY <1>1, CacheIsEvicted, Types DEF Inv
<1> QED
  BY <1>1, <1>4, <1>5, <1>6, QuietMove

LEMMA PlanGoAloneStep ==
  ASSUME Inv, NEW r \in Requests, PlanGoAlone(r)
  PROVE  Inv'
<1> DEFINE k == stored_key(request[r].key, request[r].hint)
<1>1. /\ request[r].phase = "plan" /\ k \in DOMAIN cache
      /\ Planned(r, k, "go", 0, NoResult)
      /\ UNCHANGED databaseVars /\ UNCHANGED cache /\ UNCHANGED channels
      /\ UNCHANGED next_waiting_id /\ UNCHANGED faults
  BY DEF PlanGoAlone, cacheVars
<1>2. /\ k \in {precise_cache_key(request[r].key), identity_less(request[r].key)}
      /\ k \in StoredKeys
  BY <1>1, PlannedKey
<1> HIDE DEF k
<1>4. PICK q \in RequestType :
           /\ Becomes(r, q) /\ q.phase = "go" /\ q.key = request[r].key
           /\ q.ts = request[r].ts
           /\ q.hint = k /\ q.entry = 0 /\ q.result = NoResult
  <2>1. 0 \in 0..MaxWaitingId
    OBVIOUS
  <2> QED
    BY <1>1, <1>2, <2>1, PlannedIs
<1>5. RequestOK(history, latest_ts, next_waiting_id, q)
  <2>1. request[r].key \in RequestedKeys /\ request[r].ts <= latest_ts
    BY <1>1, RequestFacts
  <2>3. 0 < next_waiting_id
    BY Types DEF Inv
  <2> QED
    BY <1>2, <1>4, <2>1, <2>3 DEF RequestOK
<1>6. cache' \in Evicted(cache) /\ faults' \in 0..MaxFaults
  BY <1>1, CacheIsEvicted, Types DEF Inv
<1> QED
  BY <1>1, <1>4, <1>5, <1>6, QuietMove

\* A peer finds the owner of the entry it waits for, and agrees on its key.
LEMMA PlanWaitStep ==
  ASSUME Inv, NEW r \in Requests, PlanWait(r)
  PROVE  Inv'
<1> DEFINE k == stored_key(request[r].key, request[r].hint)
<1>1. /\ request[r].phase = "plan" /\ k \in DOMAIN cache /\ cache[k].type = "Waiting"
      /\ UNCHANGED databaseVars /\ UNCHANGED channels /\ UNCHANGED next_waiting_id
  BY DEF PlanWait
<1>2. /\ k \in {precise_cache_key(request[r].key), identity_less(request[r].key)}
      /\ k \in StoredKeys /\ cache[k] \in CacheEntries
  BY <1>1, PlannedKey
<1>3. cache[k].id \in 1..MaxWaitingId
  BY <1>1, <1>2, EntryTypes
<1>4. CASE Planned(r, k, "wait", cache[k].id, NoResult) /\ UNCHANGED <<cache, faults>>
  <2> HIDE DEF k
  <2>1. PICK q \in RequestType :
           /\ Becomes(r, q) /\ q.phase = "wait" /\ q.key = request[r].key
           /\ q.ts = request[r].ts
           /\ q.hint = k /\ q.entry = cache[k].id /\ q.result = NoResult
    <3>1. cache[k].id \in 0..MaxWaitingId
      BY <1>3
    <3> QED
      BY <1>1, <1>2, <1>4, <3>1, PlannedIs
  <2>2. PICK o \in Requests : /\ request[o].phase \in {"go", "validate"} /\ request[o].hint = k
                              /\ request[o].entry = cache[k].id
    BY <1>1 DEF Inv, NoOrphanedEntry
  <2>3. Owns(o) /\ Holds(o) /\ o # r /\ request[o].entry < next_waiting_id
    <3>1. cache[k].id # 0
      BY <1>3
    <3>2. RequestOK(history, latest_ts, next_waiting_id, request[o])
      BY RequestFacts
    <3> QED
      BY <1>1, <2>2, <3>1, <3>2 DEF Owns, Holds, RequestOK
  <2>4. RequestOK(history, latest_ts, next_waiting_id, q)
    <3>1. request[r].key \in RequestedKeys /\ request[r].ts <= latest_ts
      BY <1>1, RequestFacts
    <3>2. q.entry < next_waiting_id /\ q.entry # 0
      BY <1>3, <2>1, <2>2, <2>3
    <3> QED
      BY <1>2, <2>1, <3>1, <3>2 DEF RequestOK
  <2>5. /\ request' \in [Requests -> RequestType] /\ request'[r] = q
        /\ \A s \in Requests \ {r} : request'[s] = request[s]
    BY <2>1, OneMoves DEF Inv
  <2>6. RequestInv'
    BY <1>1, <2>1, <2>4, RequestMove, Numbers DEF Inv
  <2>7. HistoryInv'
    BY <1>1, HistoryStays DEF Inv
  <2>8. HolderInv'
    \* In the new state r holds what o holds, under the same key.
    <3>1. ASSUME NEW s \in Requests, Holds(s)'
          PROVE  \E p \in Requests :
                   /\ Holds(p) /\ request'[s].hint = request[p].hint
                   /\ request'[s].entry = request[p].entry
                   /\ Owns(s)' => Owns(p) /\ p = s
      <4>1. CASE s = r
        <5>1. ~Owns(s)'
          BY <2>1, <2>5, <4>1 DEF Owns
        <5> QED
          BY <2>1, <2>2, <2>3, <2>5, <4>1, <5>1
      <4>2. CASE s # r
        <5>1. Holds(s) /\ (Owns(s)' => Owns(s)) /\ request'[s] = request[s]
          BY <2>5, <3>1, <4>2 DEF Holds, Owns
        <5> QED
          BY <5>1
      <4> QED
        BY <4>1, <4>2
    <3>2. ASSUME NEW s \in Requests, NEW p \in Requests, Holds(s)', Holds(p)',
                 request'[s].entry = request'[p].entry
          PROVE  request'[s].hint = request'[p].hint /\ (Owns(s)' /\ Owns(p)' => s = p)
      <4>1. PICK s0 \in Requests : /\ Holds(s0) /\ request'[s].hint = request[s0].hint
                                   /\ request'[s].entry = request[s0].entry
                                   /\ Owns(s)' => Owns(s0) /\ s0 = s
        BY <3>1, <3>2
      <4>2. PICK p0 \in Requests : /\ Holds(p0) /\ request'[p].hint = request[p0].hint
                                   /\ request'[p].entry = request[p0].entry
                                   /\ Owns(p)' => Owns(p0) /\ p0 = p
        BY <3>1, <3>2
      <4> QED
        BY <3>2, <4>1, <4>2 DEF Inv, HolderInv
    <3>3. ASSUME NEW s \in Requests, Holds(s)', channels'[request'[s].entry].state = "sent"
          PROVE  RightUnder(history, latest_ts, request'[s].hint,
                            channels'[request'[s].entry].result)
      <4>1. PICK s0 \in Requests : /\ Holds(s0) /\ request'[s].hint = request[s0].hint
                                   /\ request'[s].entry = request[s0].entry
        BY <3>1, <3>3
      <4> QED
        BY <1>1, <3>3, <4>1 DEF Inv, HolderInv
    <3>4. \A id \in 1..MaxWaitingId : next_waiting_id' <= id => channels'[id] = Open
      BY <1>1 DEF Inv, HolderInv
    <3> QED
      BY <1>1, <3>2, <3>3, <3>4 DEF HolderInv, databaseVars
  <2>9. /\ \E keys \in SUBSET StoredKeys : cache' \in [keys -> CacheEntries]
        /\ CacheInv' /\ NoOrphanedEntry'
    BY <1>1, <1>4, <2>5, CacheShrinks, CacheIsEvicted DEF Inv
  <2>10. TypeOK'
    <3>1. faults' \in 0..MaxFaults
      BY <1>4, Types DEF Inv
    <3> QED
      BY <1>1, <2>5, <2>9, <3>1, TypeMove, Types DEF Inv
  <2> QED
    BY <2>6, <2>7, <2>8, <2>9, <2>10 DEF Inv
<1>5. CASE /\ faults < MaxFaults /\ faults' = faults + 1
           /\ cache' = remove_waiting(cache, k, cache[k].id)
           /\ UNCHANGED request
  <2> HIDE DEF k
  <2>1. cache' \in Evicted(cache) /\ faults' \in 0..MaxFaults
    BY <1>5, CacheIsEvicted, RemovedIsEvicted, Types DEF Inv
  <2>2. Becomes(r, request[r]) /\ request[r] \in RequestType
    BY <1>5, Types DEF Inv, Becomes
  <2>3. RequestOK(history, latest_ts, next_waiting_id, request[r])
    BY RequestFacts
  <2> QED
    BY <1>1, <2>1, <2>2, <2>3, QuietMove
<1> QED
  BY <1>4, <1>5 DEF PlanWait

\* The new entry has an id nobody holds and an untouched channel.
LEMMA PlanGoStep ==
  ASSUME Inv, NEW r \in Requests, PlanGo(r)
  PROVE  Inv'
<1> DEFINE k == stored_key(request[r].key, request[r].hint)
           entry == [type |-> "Waiting", id |-> next_waiting_id, ts |-> request[r].ts]
           bigger == Insert(cache, k, entry)
<1>1. /\ request[r].phase = "plan" /\ k \notin DOMAIN cache /\ next_waiting_id <= MaxWaitingId
      /\ cache' \in Evicted(bigger) /\ next_waiting_id' = next_waiting_id + 1
      /\ Planned(r, k, "go", next_waiting_id, NoResult)
      /\ UNCHANGED databaseVars /\ UNCHANGED channels /\ UNCHANGED faults
  BY DEF PlanGo
<1>2. /\ k \in {precise_cache_key(request[r].key), identity_less(request[r].key)}
      /\ k \in StoredKeys
  BY <1>1, PlannedKey
<1>3. next_waiting_id \in 1..MaxWaitingId /\ next_waiting_id \in Nat /\ next_waiting_id' \in Nat
      /\ next_waiting_id' \in 1..(MaxWaitingId + 1)
  BY <1>1, Types DEF Inv
<1>4. request[r].key \in RequestedKeys /\ request[r].ts <= latest_ts /\ request[r].ts \in Timestamps
  BY <1>1, RequestFacts
<1>5. /\ entry.type = "Waiting" /\ entry.id = next_waiting_id /\ entry \in CacheEntries
  BY <1>3, <1>4 DEF CacheEntries
<1>6. /\ DOMAIN bigger = DOMAIN cache \cup {k} /\ bigger[k] = entry
      /\ \A x \in DOMAIN cache : bigger[x] = cache[x]
  BY <1>1 DEF Insert
<1> HIDE DEF k, entry, bigger
<1>7. PICK q \in RequestType :
           /\ Becomes(r, q) /\ q.phase = "go" /\ q.key = request[r].key
           /\ q.ts = request[r].ts
           /\ q.hint = k /\ q.entry = next_waiting_id /\ q.result = NoResult
  <2>1. next_waiting_id \in 0..MaxWaitingId
    BY <1>3
  <2> QED
    BY <1>1, <1>2, <2>1, PlannedIs
<1>8. /\ request' \in [Requests -> RequestType] /\ request'[r] = q
      /\ \A s \in Requests \ {r} : request'[s] = request[s]
  BY <1>7, OneMoves DEF Inv
<1>9. RequestInv'
  <2>1. q.entry < next_waiting_id'
    BY <1>1, <1>3, <1>7
  <2>2. RequestOK(history, latest_ts, next_waiting_id', q)
    BY <1>2, <1>4, <1>7, <2>1 DEF RequestOK
  <2>3. next_waiting_id <= next_waiting_id'
    BY <1>1, <1>3
  <2> QED
    BY <1>1, <1>3, <1>7, <2>2, <2>3, RequestMove DEF Inv
<1>10. HistoryInv'
  BY <1>1, HistoryStays DEF Inv
<1>11. HolderInv'
  <2>1. ASSUME NEW s \in Requests, s # r, Holds(s)'
        PROVE  /\ Holds(s) /\ request'[s] = request[s] /\ (Owns(s)' => Owns(s))
               /\ request'[s].entry # next_waiting_id
    <3>1. request'[s] = request[s] /\ Holds(s) /\ (Owns(s)' => Owns(s))
      BY <1>8, <2>1 DEF Holds, Owns
    <3>2. request[s].entry < next_waiting_id
      BY <3>1, RequestFacts DEF Holds, RequestOK
    <3>3. request[s].entry \in Nat
      BY Numbers DEF Inv
    <3> QED
      BY <1>3, <3>1, <3>2, <3>3
  <2>2. request'[r].entry = next_waiting_id
    BY <1>7, <1>8
  <2>3. ASSUME NEW s \in Requests, NEW p \in Requests, Holds(s)', Holds(p)',
               request'[s].entry = request'[p].entry
        PROVE  request'[s].hint = request'[p].hint /\ (Owns(s)' /\ Owns(p)' => s = p)
    <3>1. CASE s = r \/ p = r
      BY <2>1, <2>2, <2>3, <3>1
    <3>2. CASE s # r /\ p # r
      BY <2>1, <2>3, <3>2 DEF Inv, HolderInv
    <3> QED
      BY <3>1, <3>2
  <2>4. ASSUME NEW s \in Requests, Holds(s)', channels'[request'[s].entry].state = "sent"
        PROVE  RightUnder(history, latest_ts, request'[s].hint, channels'[request'[s].entry].result)
    <3>1. channels[next_waiting_id] = Open
      BY <1>3 DEF Inv, HolderInv
    <3>2. s # r
      BY <1>1, <2>2, <2>4, <3>1 DEF Open
    <3> QED
      BY <1>1, <2>1, <2>4, <3>2 DEF Inv, HolderInv
  <2>5. ASSUME NEW id \in 1..MaxWaitingId, next_waiting_id' <= id
        PROVE  channels'[id] = Open
    <3>1. next_waiting_id <= id
      BY <1>1, <1>3, <2>5
    <3> QED
      BY <1>1, <3>1 DEF Inv, HolderInv
  <2> QED
    BY <1>1, <2>3, <2>4, <2>5 DEF HolderInv, databaseVars
<1>12. /\ DOMAIN cache' \subseteq DOMAIN cache \cup {k}
       /\ \A x \in DOMAIN cache' : cache'[x] = IF x = k THEN entry ELSE cache[x]
       /\ cache' = [x \in DOMAIN cache' |-> cache'[x]]
  BY <1>1, <1>6, EvictedIs
<1>13. TypeOK'
  <2>1. DOMAIN cache \subseteq StoredKeys /\ \A x \in DOMAIN cache : cache[x] \in CacheEntries
    BY Types DEF Inv
  <2>2. DOMAIN cache' \subseteq StoredKeys /\ \A x \in DOMAIN cache' : cache'[x] \in CacheEntries
    BY <1>2, <1>5, <1>12, <2>1
  <2>3. \E keys \in SUBSET StoredKeys : cache' \in [keys -> CacheEntries]
    BY <1>12, <2>2, CacheType
  <2> QED
    BY <1>1, <1>3, <1>8, <2>3 DEF Inv, TypeOK, databaseVars
<1>14. CacheInv'
  BY <1>1, <1>5, <1>12 DEF Inv, CacheInv, databaseVars
<1>15. NoOrphanedEntry'
  <2>1. SUFFICES ASSUME NEW x \in DOMAIN cache', cache'[x].type = "Waiting"
                 PROVE  \E s \in Requests :
                          /\ request'[s].phase \in {"go", "validate"} /\ request'[s].hint = x
                          /\ request'[s].entry = cache'[x].id
    BY DEF NoOrphanedEntry
  <2>2. CASE x = k
    BY <1>5, <1>7, <1>8, <1>12, <2>2
  <2>3. CASE x # k
    <3>1. x \in DOMAIN cache /\ cache'[x] = cache[x]
      BY <1>12, <2>3
    <3>2. PICK s \in Requests : /\ request[s].phase \in {"go", "validate"} /\ request[s].hint = x
                                /\ request[s].entry = cache[x].id
      BY <2>1, <3>1 DEF Inv, NoOrphanedEntry
    <3>3. s # r
      BY <1>1, <3>2
    <3> QED
      BY <1>8, <3>1, <3>2, <3>3
  <2> QED
    BY <2>2, <2>3
<1> QED
  BY <1>9, <1>10, <1>11, <1>13, <1>14, <1>15 DEF Inv

-----------------------------------------------------------------------------
(* The actions that receive, execute, validate and complete.               *)

\* What is received was sent for everyone who waits under the same key.
LEMMA ReceiveStep ==
  ASSUME Inv, NEW r \in Requests, Receive(r)
  PROVE  Inv'
<1> DEFINE id == request[r].entry
<1>1. /\ request[r].phase = "wait" /\ channels[id] # Open
      /\ UNCHANGED databaseVars /\ UNCHANGED channels /\ UNCHANGED next_waiting_id
      /\ UNCHANGED faults
  BY DEF Receive
<1>2. /\ request[r] \in RequestType /\ request[r].key \in RequestedKeys
      /\ request[r].ts <= latest_ts
      /\ request[r].hint \in {precise_cache_key(request[r].key), identity_less(request[r].key)}
      /\ id # 0 /\ id \in 1..MaxWaitingId
  BY <1>1, RequestFacts DEF RequestOK, RequestType
<1>3. faults' \in 0..MaxFaults /\ 0 < next_waiting_id /\ 0 \in 0..MaxWaitingId
  BY <1>1, Types DEF Inv
<1> HIDE DEF id
<1>4. CASE channels[id] = Closed
  <2> DEFINE q == [request[r] EXCEPT !.phase = "plan", !.entry = 0]
  <2>1. /\ q \in RequestType /\ q.phase = "plan" /\ q.entry = 0 /\ q.key = request[r].key
        /\ q.ts = request[r].ts /\ q.hint = request[r].hint
    BY <1>2, <1>3 DEF RequestType, Phases
  <2>2. Becomes(r, q) /\ cache' = remove_waiting(cache, request[r].hint, id)
    BY <1>4, Types DEF Receive, Becomes, id, Inv
  <2> HIDE DEF q
  <2>3. RequestOK(history, latest_ts, next_waiting_id, q)
    BY <1>2, <2>1 DEF RequestOK
  <2>4. cache' \in Evicted(cache)
    BY <2>2, CacheIsEvicted, RemovedIsEvicted DEF Inv
  <2> QED
    BY <1>1, <1>3, <2>1, <2>2, <2>3, <2>4, QuietMove
<1>5. CASE channels[id] # Closed
  <2> DEFINE q == [request[r] EXCEPT !.phase = "validate", !.entry = 0,
                                     !.result = channels[id].result]
  <2>1. channels[id].state = "sent" /\ channels[id].result \in Results
    <3>1. channels[id] \in ChannelType
      BY <1>2, Types DEF Inv
    <3> QED
      BY <1>1, <1>5, <3>1 DEF ChannelType
  <2>2. /\ q \in RequestType /\ q.phase = "validate" /\ q.entry = 0 /\ q.key = request[r].key
        /\ q.ts = request[r].ts /\ q.hint = request[r].hint /\ q.result = channels[id].result
    BY <1>2, <1>3, <2>1 DEF RequestType, Phases
  <2>3. Becomes(r, q) /\ cache' = cache
    BY <1>5, Types DEF Receive, Becomes, id, Inv
  <2> HIDE DEF q
  <2>4. RightUnder(history, latest_ts, request[r].hint, channels[id].result)
    BY <1>1, <1>2, <2>1 DEF Inv, HolderInv, Holds, id
  <2>5. RightFor(history, latest_ts, q.key, q.result)
    BY <1>2, <2>2, <2>4, FoundWhereRight
  <2>6. RequestOK(history, latest_ts, next_waiting_id, q)
    BY <1>2, <1>3, <2>2, <2>5 DEF RequestOK
  <2>7. cache' \in Evicted(cache)
    BY <2>3, CacheIsEvicted DEF Inv
  <2> QED
    BY <1>1, <1>3, <2>2, <2>3, <2>6, <2>7, QuietMove
<1> QED
  BY <1>4, <1>5

\* A waiter that gives up holds nothing.
LEMMA StopWaitingStep ==
  ASSUME Inv, NEW r \in Requests, StopWaiting(r)
  PROVE  Inv'
<1> DEFINE q == [request[r] EXCEPT !.phase = "plan", !.entry = 0]
<1>1. /\ request[r].phase = "wait" /\ faults < MaxFaults /\ faults' = faults + 1
      /\ UNCHANGED databaseVars /\ UNCHANGED channels /\ UNCHANGED next_waiting_id
      /\ UNCHANGED cache
  BY DEF StopWaiting, cacheVars
<1>2. /\ request[r] \in RequestType /\ request[r].key \in RequestedKeys
      /\ request[r].ts <= latest_ts
      /\ request[r].hint \in {precise_cache_key(request[r].key), identity_less(request[r].key)}
  BY <1>1, RequestFacts DEF RequestOK, RequestType
<1>3. faults' \in 0..MaxFaults /\ 0 \in 0..MaxWaitingId
  BY <1>1, Types DEF Inv
<1>4. /\ q \in RequestType /\ q.phase = "plan" /\ q.entry = 0 /\ q.key = request[r].key
      /\ q.ts = request[r].ts /\ q.hint = request[r].hint
  BY <1>2, <1>3 DEF RequestType, Phases
<1>5. Becomes(r, q)
  BY Types DEF StopWaiting, Becomes, Inv
<1> HIDE DEF q
<1>6. RequestOK(history, latest_ts, next_waiting_id, q)
  BY <1>2, <1>4 DEF RequestOK
<1>7. cache' \in Evicted(cache)
  BY <1>1, CacheIsEvicted DEF Inv
<1> QED
  BY <1>1, <1>3, <1>4, <1>5, <1>6, <1>7, QuietMove

\* An execution is right at its timestamp, and is sent only to peers who wait
\* under a key it may be stored under.
LEMMA ExecuteStep ==
  ASSUME Inv, NEW r \in Requests, Execute(r)
  PROVE  Inv'
<1> DEFINE outcome == Outcome(request[r].key, history[request[r].ts])
           result == [outcome |-> outcome, original_ts |-> request[r].ts,
                      token_ts |-> request[r].ts]
           sent == IF is_for_peers(r, outcome) THEN Sent(result) ELSE Closed
           q == [request[r] EXCEPT !.phase = "validate", !.result = result]
<1>1. /\ request[r].phase = "go" /\ channels' = Close(request[r].entry, sent)
      /\ UNCHANGED databaseVars /\ UNCHANGED cache /\ UNCHANGED next_waiting_id
      /\ UNCHANGED faults
  BY DEF Execute
<1>2. Becomes(r, q)
  BY Types DEF Execute, Becomes, Inv
<1>3. /\ request[r] \in RequestType /\ request[r].key \in RequestedKeys
      /\ request[r].ts \in Timestamps /\ request[r].ts \in Nat
      /\ request[r].ts <= latest_ts
      /\ request[r].hint \in {precise_cache_key(request[r].key), identity_less(request[r].key)}
      /\ request[r].entry < next_waiting_id
  BY <1>1, RequestFacts, TimeTypes DEF RequestOK
<1>4. outcome \in Outcomes
  BY <1>3, OutcomeType, Types DEF Inv
<1>5. /\ result \in Results /\ result.outcome = outcome
      /\ result.original_ts = request[r].ts /\ result.token_ts = request[r].ts
  <2> HIDE DEF outcome
  <2> QED
    BY <1>3, <1>4 DEF Results
<1> HIDE DEF result
<1>6. RightFor(history, latest_ts, request[r].key, result)
  <2>1. ASSUME NEW ts \in Timestamps, request[r].ts <= ts, ts <= request[r].ts
        PROVE  ts = request[r].ts
    BY <1>3, <2>1, TimeTypes
  <2>2. InTime(latest_ts, result)
    BY <1>3, <1>5 DEF InTime
  <2> QED
    BY <1>5, <2>1, <2>2 DEF RightFor
<1>7. is_for_peers(r, outcome) =>
        RightUnder(history, latest_ts, request[r].hint, result)
  BY <1>3, <1>5, <1>6, StoredWhereRight DEF is_for_peers, Inv
<1>8. /\ q \in RequestType /\ q.phase = "validate" /\ q.entry = request[r].entry
      /\ q.key = request[r].key /\ q.ts = request[r].ts /\ q.hint = request[r].hint
      /\ q.result = result
  BY <1>3, <1>5 DEF RequestType, Phases
<1>9. sent \in ChannelType /\ (sent.state = "sent" => sent.result = result)
      /\ (sent.state = "sent" => is_for_peers(r, outcome))
  BY <1>5 DEF ChannelType, Sent, Closed
<1> HIDE DEF q, sent, outcome
<1>10. /\ request' \in [Requests -> RequestType] /\ request'[r] = q
       /\ \A s \in Requests \ {r} : request'[s] = request[s]
  BY <1>2, <1>8, OneMoves DEF Inv
<1>11. RequestInv'
  <2>1. RequestOK(history, latest_ts, next_waiting_id', q)
    BY <1>1, <1>3, <1>6, <1>8 DEF RequestOK
  <2> QED
    BY <1>1, <1>2, <1>8, <2>1, RequestMove, Numbers DEF Inv
<1>12. HistoryInv'
  BY <1>1, HistoryStays DEF Inv
<1>13. /\ channels' \in [1..MaxWaitingId -> ChannelType]
       /\ \A x \in 1..MaxWaitingId :
            channels'[x] = IF x = request[r].entry THEN sent ELSE channels[x]
  BY <1>1, <1>9, CloseIs
<1>14. HolderInv'
  <2>1. ASSUME NEW s \in Requests, Holds(s)'
        PROVE  /\ Holds(s) /\ request'[s].hint = request[s].hint
               /\ request'[s].entry = request[s].entry /\ (Owns(s)' => Owns(s))
    <3>1. CASE s = r
      BY <1>1, <1>8, <1>10, <2>1, <3>1 DEF Holds, Owns
    <3>2. CASE s # r
      BY <1>10, <2>1, <3>2 DEF Holds, Owns
    <3> QED
      BY <3>1, <3>2
  <2>2. ASSUME NEW s \in Requests, Holds(s), channels'[request[s].entry].state = "sent"
        PROVE  \/ channels'[request[s].entry] = channels[request[s].entry]
               \/ RightUnder(history, latest_ts, request[s].hint,
                             channels'[request[s].entry].result)
    <3>1. request[s].entry \in 1..MaxWaitingId
      BY <2>2, RequestFacts DEF Holds, RequestType
    <3>2. CASE request[s].entry # request[r].entry
      BY <1>13, <3>1, <3>2
    <3>3. CASE request[s].entry = request[r].entry
      <4>1. channels'[request[s].entry] = sent
        BY <1>13, <3>1, <3>3
      <4>2. RightUnder(history, latest_ts, request[r].hint, sent.result)
        BY <1>7, <1>9, <2>2, <4>1
      <4>3. Holds(r)
        BY <1>1, <2>2, <3>3 DEF Holds
      <4>4. request[s].hint = request[r].hint
        BY <2>2, <3>3, <4>3 DEF Inv, HolderInv
      <4> QED
        BY <4>1, <4>2, <4>4
    <3> QED
      BY <3>2, <3>3
  <2>3. \A id \in 1..MaxWaitingId : next_waiting_id' <= id => channels'[id] = channels[id]
    <3>1. request[r].entry \in Nat /\ next_waiting_id \in Nat
      BY Numbers DEF Inv
    <3> QED
      BY <1>1, <1>3, <1>13, <3>1
  <2>4. next_waiting_id' \in Nat /\ next_waiting_id <= next_waiting_id'
    BY <1>1, Numbers DEF Inv
  <2> QED
    BY <1>1, <2>1, <2>2, <2>3, <2>4, HolderMove DEF Inv
<1>15. /\ \E keys \in SUBSET StoredKeys : cache' \in [keys -> CacheEntries]
       /\ CacheInv' /\ NoOrphanedEntry'
  <2>1. cache' \in Evicted(cache)
    BY <1>1, CacheIsEvicted DEF Inv
  <2>2. /\ request'[r].phase \in {"go", "validate"} /\ request'[r].hint = request[r].hint
        /\ request'[r].entry = request[r].entry
    BY <1>8, <1>10
  <2> QED
    BY <1>1, <1>10, <2>1, <2>2, CacheShrinks DEF Inv
<1>16. TypeOK'
  <2>1. faults' \in 0..MaxFaults
    BY <1>1, Types DEF Inv
  <2> QED
    BY <1>1, <1>10, <1>13, <1>15, <2>1, TypeMove DEF Inv
<1> QED
  BY <1>11, <1>12, <1>14, <1>15, <1>16 DEF Inv

\* A request that lets go of its waiting entry.
LEMMA UnguardedIs ==
  ASSUME Inv, NEW r \in Requests, NEW c,
         c \in {Unguarded(r)} \cup {remove_ready(Unguarded(r), k, ts) : k \in StoredKeys, ts \in Nat}
  PROVE  /\ c \in Evicted(cache)
         /\ \A k \in DOMAIN c : ~(/\ k = request[r].hint /\ c[k].type = "Waiting"
                                  /\ c[k].id = request[r].entry)
<1> DEFINE u == Unguarded(r)
<1>1. u \in Evicted(cache)
  BY CacheIsEvicted, RemovedIsEvicted DEF Inv, Unguarded
<1>2. ~(/\ request[r].hint \in DOMAIN u /\ u[request[r].hint].type = "Waiting"
        /\ u[request[r].hint].id = request[r].entry)
  BY WaitingRemoved DEF Unguarded
<1>3. u = [k \in DOMAIN u |-> u[k]]
  BY <1>1, EvictedIs
<1> HIDE DEF u
<1>4. u \in Evicted(u)
  BY <1>3 DEF Evicted, Restrict
<1>5. c \in Evicted(u)
  <2>1. c = u \/ \E k \in StoredKeys, ts \in Nat : c = remove_ready(u, k, ts)
    BY DEF u
  <2> QED
    BY <1>3, <1>4, <2>1, RemovedIsEvicted
<1>6. c \in Evicted(cache)
  BY <1>1, <1>5, EvictedTwice
<1>7. DOMAIN c \subseteq DOMAIN u /\ \A k \in DOMAIN c : c[k] = u[k]
  BY <1>5, EvictedIs
<1> QED
  BY <1>2, <1>6, <1>7

\* What a request that validates knows.
LEMMA ValidateFacts ==
  ASSUME Inv, NEW r \in Requests, request[r].phase = "validate"
  PROVE  /\ request[r] \in RequestType /\ request[r].key \in RequestedKeys
         /\ request[r].ts \in Timestamps /\ request[r].ts <= latest_ts
         /\ request[r].hint \in StoredKeys
         /\ request[r].hint \in {precise_cache_key(request[r].key), identity_less(request[r].key)}
         /\ RightFor(history, latest_ts, request[r].key, request[r].result)
         /\ request[r].result \in Results /\ request[r].result.original_ts \in Nat
         /\ 0 < next_waiting_id /\ 0 \in 0..MaxWaitingId
<1>1. /\ request[r] \in RequestType /\ request[r].key \in RequestedKeys
      /\ request[r].ts \in Timestamps /\ request[r].ts <= latest_ts
      /\ request[r].hint \in {precise_cache_key(request[r].key), identity_less(request[r].key)}
      /\ RightFor(history, latest_ts, request[r].key, request[r].result)
  BY RequestFacts DEF RequestOK
<1>2. request[r].hint \in StoredKeys
  BY <1>1, KeyTypes
<1>3. request[r].result \in Results /\ request[r].result.original_ts \in Nat
  BY <1>1, ResultTypes DEF RightFor, InTime
<1>4. 0 < next_waiting_id /\ 0 \in 0..MaxWaitingId
  BY Types DEF Inv
<1> QED
  BY <1>1, <1>2, <1>3, <1>4

LEMMA RejectStep ==
  ASSUME Inv, NEW r \in Requests, Reject(r)
  PROVE  Inv'
<1> DEFINE q == [request[r] EXCEPT !.phase = "plan", !.entry = 0, !.result = NoResult]
<1>1. /\ request[r].phase = "validate" /\ UNCHANGED databaseVars /\ UNCHANGED channels
      /\ UNCHANGED next_waiting_id
  BY DEF Reject
<1>2. faults' \in 0..MaxFaults
  <2>1. UNCHANGED faults \/ (faults < MaxFaults /\ faults' = faults + 1)
    BY DEF Reject
  <2>2. faults \in 0..MaxFaults
    BY Types DEF Inv
  <2> QED
    BY <2>1, <2>2
<1>3. \/ cache' = Unguarded(r)
      \/ cache' = remove_ready(Unguarded(r), request[r].hint, request[r].result.original_ts)
  BY DEF Reject
<1>4. /\ cache' \in Evicted(cache)
      /\ \A k \in DOMAIN cache' : ~(/\ k = request[r].hint /\ cache'[k].type = "Waiting"
                                    /\ cache'[k].id = request[r].entry)
  <2>1. request[r].hint \in StoredKeys /\ request[r].result.original_ts \in Nat
    BY <1>1, ValidateFacts
  <2>2. cache' \in {Unguarded(r)} \cup
                   {remove_ready(Unguarded(r), k, ts) : k \in StoredKeys, ts \in Nat}
    BY <1>3, <2>1
  <2> QED
    BY <2>2, UnguardedIs
<1>5. Becomes(r, q)
  BY Types DEF Reject, Retry, Becomes, Inv
<1>6. /\ q \in RequestType /\ q.phase = "plan" /\ q.entry = 0 /\ q.key = request[r].key
      /\ q.ts = request[r].ts /\ q.hint = request[r].hint
  BY <1>1, ValidateFacts DEF RequestType, Phases
<1> HIDE DEF q
<1>7. RequestOK(history, latest_ts, next_waiting_id, q)
  BY <1>1, <1>6, ValidateFacts DEF RequestOK
<1> QED
  BY <1>1, <1>2, <1>4, <1>5, <1>6, <1>7, QuietMove

\* A refreshed result is right up to the timestamp of the request.
LEMMA AcceptStep ==
  ASSUME Inv, NEW r \in Requests, Accept(r)
  PROVE  Inv'
<1> DEFINE result == [request[r].result EXCEPT !.token_ts = refreshed_ts(@, request[r].ts)]
           phase == IF request[r].entry # 0 /\ result.outcome.ok THEN "put" ELSE "done"
           q == [request[r] EXCEPT !.result = result, !.entry = 0, !.phase = phase]
<1>1. /\ request[r].phase = "validate" /\ ~too_new(r) /\ refreshes(r) /\ cache' = Unguarded(r)
      /\ UNCHANGED databaseVars /\ UNCHANGED channels /\ UNCHANGED next_waiting_id
      /\ UNCHANGED faults
  BY DEF Accept
<1>2. Becomes(r, q)
  BY Types DEF Accept, Becomes, Inv
<1>3. request[r].result.original_ts <= request[r].ts
  BY <1>1, ValidateFacts, TimeTypes DEF too_new
<1>4. /\ RightFor(history, latest_ts, request[r].key, result)
      /\ result.original_ts <= request[r].ts /\ request[r].ts <= result.token_ts
  BY <1>1, <1>3, ValidateFacts, RefreshedIsRight DEF refreshes, Inv
<1>5. result \in Results
  BY <1>4 DEF RightFor, InTime
<1> HIDE DEF result
<1>6. /\ q \in RequestType /\ q.phase = phase /\ q.entry = 0 /\ q.key = request[r].key
      /\ q.ts = request[r].ts /\ q.hint = request[r].hint /\ q.result = result
      /\ phase \in {"put", "done"} /\ (phase = "put" => result.outcome.ok)
  BY <1>1, <1>5, ValidateFacts DEF RequestType, Phases
<1> HIDE DEF q, phase
<1>7. RequestOK(history, latest_ts, next_waiting_id, q)
  BY <1>1, <1>4, <1>6, ValidateFacts DEF RequestOK
<1>8. /\ cache' \in Evicted(cache)
      /\ \A k \in DOMAIN cache' : ~(/\ k = request[r].hint /\ cache'[k].type = "Waiting"
                                    /\ cache'[k].id = request[r].entry)
  BY <1>1, UnguardedIs
<1>9. faults' \in 0..MaxFaults
  BY <1>1, Types DEF Inv
<1> QED
  BY <1>1, <1>2, <1>6, <1>7, <1>8, <1>9, QuietMove

LEMMA FailStep ==
  ASSUME Inv, NEW r \in Requests, Fail(r)
  PROVE  Inv'
<1> DEFINE q == [request[r] EXCEPT !.phase = "failed", !.entry = 0]
<1>1. /\ request[r].phase \in {"plan", "wait", "go", "validate"}
      /\ faults < MaxFaults /\ faults' = faults + 1 /\ cache' = dropped(r)
      /\ channels' \in {channels, Close(request[r].entry, Closed)}
      /\ UNCHANGED databaseVars /\ UNCHANGED next_waiting_id
  BY DEF Fail
<1>2. Becomes(r, q)
  BY Types DEF Fail, Becomes, Inv
<1>3. /\ request[r] \in RequestType /\ request[r].key \in RequestedKeys
      /\ request[r].ts <= latest_ts
      /\ request[r].hint \in {NoKey, precise_cache_key(request[r].key),
                              identity_less(request[r].key)}
  BY <1>1, RequestFacts
<1>4. faults' \in 0..MaxFaults /\ 0 \in 0..MaxWaitingId
  BY <1>1, Types DEF Inv
<1>5. /\ q \in RequestType /\ q.phase = "failed" /\ q.entry = 0 /\ q.key = request[r].key
      /\ q.ts = request[r].ts /\ q.hint = request[r].hint
  BY <1>3, <1>4 DEF RequestType, Phases
<1> HIDE DEF q
<1>6. RequestOK(history, latest_ts, next_waiting_id, q)
  BY <1>3, <1>5 DEF RequestOK
<1>7. CASE request[r].phase \in {"go", "validate"}
  <2>1. cache' = Unguarded(r)
    BY <1>1, <1>7 DEF dropped
  <2>2. /\ cache' \in Evicted(cache)
        /\ \A k \in DOMAIN cache' : ~(/\ k = request[r].hint /\ cache'[k].type = "Waiting"
                                      /\ cache'[k].id = request[r].entry)
    BY <2>1, UnguardedIs
  <2> QED
    BY <1>1, <1>2, <1>4, <1>5, <1>6, <2>2, QuietMove
<1>8. CASE request[r].phase \notin {"go", "validate"}
  <2>1. cache' \in Evicted(cache)
    BY <1>1, <1>8, CacheIsEvicted DEF dropped, Inv
  <2> QED
    BY <1>1, <1>2, <1>4, <1>5, <1>6, <1>8, <2>1, QuietMove
<1> QED
  BY <1>7, <1>8

\* The result goes where it is right; waiting entries it replaces may go, and
\* the ones that stay keep their owners.
LEMMA PutReadyStep ==
  ASSUME Inv, NEW r \in Requests, PutReady(r)
  PROVE  Inv'
<1> DEFINE q == [request[r] EXCEPT !.phase = "done"]
           result == request[r].result
           keys == cache_keys_after_execution(request[r].key, result.outcome)
           ready == [type |-> "Ready", result |-> result]
           bigger == put_ready(cache, keys, result)
<1>1. /\ request[r].phase = "put" /\ cache' \in Evicted(bigger)
      /\ UNCHANGED databaseVars /\ UNCHANGED channels /\ UNCHANGED next_waiting_id
      /\ UNCHANGED faults
  BY DEF PutReady
<1>2. Becomes(r, q)
  BY Types DEF PutReady, Becomes, Inv
<1>3. /\ request[r] \in RequestType /\ request[r].key \in RequestedKeys
      /\ request[r].ts <= latest_ts /\ request[r].entry = 0
      /\ RightFor(history, latest_ts, request[r].key, result) /\ result.outcome.ok
      /\ result.original_ts <= request[r].ts /\ request[r].ts <= result.token_ts
      /\ request[r].hint \in {NoKey, precise_cache_key(request[r].key),
                              identity_less(request[r].key)}
  BY <1>1, RequestFacts DEF RequestOK
<1>4. result \in Results /\ result.outcome \in Outcomes
  BY <1>3, ResultTypes DEF RightFor, InTime
<1>5. keys \subseteq StoredKeys /\ \A k \in keys : RightUnder(history, latest_ts, k, result)
  BY <1>3, <1>4, KeyTypes, StoredWhereRight DEF Inv
<1>6. /\ q \in RequestType /\ q.phase = "done" /\ q.entry = 0 /\ q.key = request[r].key
      /\ q.ts = request[r].ts /\ q.hint = request[r].hint /\ q.result = result
  BY <1>3 DEF RequestType, Phases
<1>7. ready \in CacheEntries /\ ready.type = "Ready" /\ ready.result = result
  BY <1>4 DEF CacheEntries
<1>8. \A x \in DOMAIN bigger :
        \/ x \in keys /\ bigger[x] = ready
        \/ x \in DOMAIN cache /\ bigger[x] = cache[x]
  BY DEF put_ready
<1> HIDE DEF q, result, keys, ready, bigger
<1>9. /\ cache' = [x \in DOMAIN cache' |-> cache'[x]]
      /\ \A x \in DOMAIN cache' : \/ x \in keys /\ cache'[x] = ready
                                  \/ x \in DOMAIN cache /\ cache'[x] = cache[x]
  BY <1>1, <1>8, EvictedIs
<1>10. /\ request' \in [Requests -> RequestType] /\ request'[r] = q
       /\ \A s \in Requests \ {r} : request'[s] = request[s]
  BY <1>2, <1>6, OneMoves DEF Inv
<1>11. RequestInv'
  <2>1. RequestOK(history, latest_ts, next_waiting_id', q)
    BY <1>3, <1>6 DEF RequestOK
  <2> QED
    BY <1>1, <1>2, <1>6, <2>1, RequestMove, Numbers DEF Inv
<1>12. HistoryInv'
  BY <1>1, HistoryStays DEF Inv
<1>13. HolderInv'
  <2>1. ASSUME NEW s \in Requests, Holds(s)'
        PROVE  /\ Holds(s) /\ request'[s].hint = request[s].hint
               /\ request'[s].entry = request[s].entry /\ (Owns(s)' => Owns(s))
    <3>1. s # r
      BY <1>6, <1>10, <2>1 DEF Holds
    <3> QED
      BY <1>10, <2>1, <3>1 DEF Holds, Owns
  <2>2. next_waiting_id' \in Nat /\ next_waiting_id <= next_waiting_id'
    BY <1>1, Numbers DEF Inv
  <2> QED
    BY <1>1, <2>1, <2>2, HolderMove DEF Inv
<1>14. CacheInv'
  BY <1>1, <1>3, <1>5, <1>7, <1>9 DEF Inv, CacheInv, databaseVars, result
<1>15. NoOrphanedEntry'
  <2>1. SUFFICES ASSUME NEW x \in DOMAIN cache', cache'[x].type = "Waiting"
                 PROVE  \E s \in Requests :
                          /\ request'[s].phase \in {"go", "validate"} /\ request'[s].hint = x
                          /\ request'[s].entry = cache'[x].id
    BY DEF NoOrphanedEntry
  <2>2. x \in DOMAIN cache /\ cache'[x] = cache[x]
    BY <1>7, <1>9, <2>1
  <2>3. PICK s \in Requests : /\ request[s].phase \in {"go", "validate"} /\ request[s].hint = x
                              /\ request[s].entry = cache[x].id
    BY <2>1, <2>2 DEF Inv, NoOrphanedEntry
  <2>4. s # r
    BY <1>1, <2>3
  <2> QED
    BY <1>10, <2>2, <2>3, <2>4
<1>16. TypeOK'
  <2>1. DOMAIN cache \subseteq StoredKeys /\ \A x \in DOMAIN cache : cache[x] \in CacheEntries
    BY Types DEF Inv
  <2>2. DOMAIN cache' \subseteq StoredKeys /\ \A x \in DOMAIN cache' : cache'[x] \in CacheEntries
    BY <1>5, <1>7, <1>9, <2>1
  <2>3. \E ks \in SUBSET StoredKeys : cache' \in [ks -> CacheEntries]
    BY <1>9, <2>2, CacheType
  <2>4. channels' \in [1..MaxWaitingId -> ChannelType] /\ faults' \in 0..MaxFaults
    BY <1>1, Types DEF Inv
  <2> QED
    BY <1>1, <1>10, <2>3, <2>4, TypeMove DEF Inv
<1> QED
  BY <1>11, <1>12, <1>13, <1>14, <1>15, <1>16 DEF Inv

-----------------------------------------------------------------------------
(* Commits.                                                                *)

\* A commit leaves the past alone, and its version is new.
LEMMA CommitStep ==
  ASSUME Inv, NEW auth \in BOOLEAN, NEW page \in Journals, NEW ok \in BOOLEAN,
         Commit(auth, page, ok)
  PROVE  Inv'
<1> DEFINE new == [version |-> latest_ts + 1, auth |-> auth, page |-> page, ok |-> ok]
<1>1. /\ latest_ts < MaxTs /\ latest_ts' = latest_ts + 1
      /\ \/ history' = [t \in Timestamps |-> IF t <= latest_ts THEN history[t] ELSE new]
         \/ history' = history
      /\ UNCHANGED cache /\ UNCHANGED channels /\ UNCHANGED next_waiting_id
      /\ UNCHANGED request /\ UNCHANGED faults
  BY DEF Commit, cacheVars
<1>2. /\ latest_ts \in Nat /\ latest_ts' \in Nat /\ latest_ts < latest_ts'
      /\ latest_ts' \in Timestamps
  BY <1>1, Types DEF Inv, Timestamps
<1>3. new \in States /\ new.version = latest_ts'
  BY <1>1, <1>2 DEF States
<1>4. history \in [Timestamps -> States] /\ history' \in [Timestamps -> States]
  BY <1>1, <1>3, Types DEF Inv
<1> HIDE DEF new
<1>5. Grown(history, latest_ts, history', latest_ts')
  BY <1>1, <1>2 DEF Grown
<1>6. TypeOK'
  BY <1>1, <1>2, <1>4 DEF Inv, TypeOK
<1>7. HistoryInv'
  <2>1. ASSUME NEW t \in Timestamps, NEW u \in Timestamps
        PROVE  /\ history'[t].version <= latest_ts'
               /\ t <= u => /\ history'[t].version <= history'[u].version
                            /\ history'[t].version = history'[u].version => history'[t] = history'[u]
    <3>1. /\ t \in Nat /\ u \in Nat /\ history[t].version \in Nat /\ history[u].version \in Nat
      BY <1>4, TimeTypes DEF States
    <3>2. /\ history[t].version <= latest_ts /\ history[u].version <= latest_ts
          /\ t <= u => /\ history[t].version <= history[u].version
                       /\ history[t].version = history[u].version => history[t] = history[u]
      BY DEF Inv, HistoryInv
    <3>3. CASE history' = history
      BY <1>2, <3>1, <3>2, <3>3
    <3>4. CASE history' = [x \in Timestamps |-> IF x <= latest_ts THEN history[x] ELSE new]
      <4>1. /\ history'[t] = IF t <= latest_ts THEN history[t] ELSE new
            /\ history'[u] = IF u <= latest_ts THEN history[u] ELSE new
        BY <3>4
      <4> QED
        BY <1>2, <1>3, <3>1, <3>2, <4>1
    <3> QED
      BY <1>1, <3>3, <3>4
  <2> QED
    BY <2>1 DEF HistoryInv
<1>8. RequestInv'
  <2>1. SUFFICES ASSUME NEW r \in Requests
                 PROVE  RequestOK(history', latest_ts', next_waiting_id, request[r])
    BY <1>1 DEF RequestInv
  <2>2. RequestOK(history, latest_ts, next_waiting_id, request[r]) /\ request[r] \in RequestType
    BY RequestFacts
  <2> QED
    BY <1>5, <2>2, RequestStays, Numbers DEF Inv
<1>9. HolderInv'
  <2>1. ASSUME NEW r \in Requests, Holds(r), channels[request[r].entry].state = "sent"
        PROVE  RightUnder(history', latest_ts', request[r].hint,
                          channels[request[r].entry].result)
    <3>1. RightUnder(history, latest_ts, request[r].hint, channels[request[r].entry].result)
      BY <2>1 DEF Inv, HolderInv
    <3> QED
      BY <1>5, <3>1, RightStays
  <2> QED
    BY <1>1, <2>1 DEF Inv, HolderInv, Holds, Owns
<1>10. CacheInv'
  <2>1. ASSUME NEW k \in DOMAIN cache, cache[k].type = "Ready"
        PROVE  RightUnder(history', latest_ts', k, cache[k].result) /\ cache[k].result.outcome.ok
    <3>1. RightUnder(history, latest_ts, k, cache[k].result) /\ cache[k].result.outcome.ok
      BY <2>1 DEF Inv, CacheInv
    <3> QED
      BY <1>5, <3>1, RightStays
  <2> QED
    BY <1>1, <2>1 DEF CacheInv
<1>11. NoOrphanedEntry'
  BY <1>1 DEF Inv, NoOrphanedEntry
<1> QED
  BY <1>6, <1>7, <1>8, <1>9, <1>10, <1>11 DEF Inv

-----------------------------------------------------------------------------
(* The invariant.                                                          *)

LEMMA InvInit ==
  ASSUME Init
  PROVE  Inv
<1>1. /\ latest_ts = 0 /\ next_waiting_id = 1 /\ faults = 0
      /\ cache = [k \in {} |-> NoResult] /\ channels = [id \in 1..MaxWaitingId |-> Open]
      /\ request = [r \in Requests |-> Idle]
  BY DEF Init
<1>2. PICK state \in States :
        history = [t \in Timestamps |-> state] /\ state.version = 0
  <2>1. PICK auth \in BOOLEAN :
          history = [t \in Timestamps |->
                       [version |-> 0, auth |-> auth, page |-> NumPages, ok |-> TRUE]]
    BY DEF Init
  <2>2. [version |-> 0, auth |-> auth, page |-> NumPages, ok |-> TRUE] \in States
    BY DEF States, Timestamps, Journals
  <2> QED
    BY <2>1, <2>2
<1>3. /\ Idle \in RequestType /\ Idle.phase = "idle" /\ Idle.entry = 0
  BY DEF Idle, RequestType, Phases, Timestamps
<1>4. DOMAIN cache = {}
  BY <1>1
<1>5. TypeOK
  <2>1. \E keys \in SUBSET StoredKeys : cache \in [keys -> CacheEntries]
    <3>1. cache \in [{} -> CacheEntries]
      BY <1>1
    <3> QED
      BY <3>1
  <2>2. history \in [Timestamps -> States] /\ latest_ts \in Timestamps
    BY <1>1, <1>2 DEF Timestamps
  <2>3. channels \in [1..MaxWaitingId -> {Open, Closed} \cup [state : {"sent"}, result : Results]]
    BY <1>1
  <2>4. request \in [Requests -> RequestType]
    BY <1>1, <1>3
  <2>5. next_waiting_id \in 1..(MaxWaitingId + 1) /\ faults \in 0..MaxFaults
    BY <1>1
  <2> QED
    BY <2>1, <2>2, <2>3, <2>4, <2>5 DEF TypeOK
<1>6. HistoryInv
  <2>1. \A t \in Timestamps : history[t].version = 0 /\ history[t] = state
    BY <1>2
  <2> QED
    BY <1>1, <2>1 DEF HistoryInv
<1>7. RequestInv
  BY <1>1, <1>3 DEF RequestInv, RequestOK
<1>8. HolderInv
  BY <1>1, <1>3 DEF HolderInv, Holds
<1>9. CacheInv /\ NoOrphanedEntry
  BY <1>4 DEF CacheInv, NoOrphanedEntry
<1> QED
  BY <1>5, <1>6, <1>7, <1>8, <1>9 DEF Inv

LEMMA InvStep ==
  ASSUME Inv, [Next]_vars
  PROVE  Inv'
<1>1. CASE UNCHANGED vars
  BY <1>1 DEF Inv, TypeOK, HistoryInv, RequestInv, HolderInv, Holds, Owns, CacheInv,
     NoOrphanedEntry, vars, databaseVars, cacheVars
<1>2. ASSUME NEW auth \in BOOLEAN, NEW page \in Journals, NEW ok \in BOOLEAN,
             Commit(auth, page, ok)
      PROVE  Inv'
  BY <1>2, CommitStep
<1>3. ASSUME NEW r \in Requests, NEW key \in RequestedKeys, NEW ts \in Timestamps, Get(r, key, ts)
      PROVE  Inv'
  BY <1>3, GetStep
<1>4. ASSUME NEW r \in Requests, Proceed(r)
      PROVE  Inv'
  BY <1>4, PlanReadyStep, PlanGoAloneStep, PlanWaitStep, PlanGoStep, ReceiveStep, ExecuteStep,
     RejectStep, AcceptStep, PutReadyStep DEF Proceed
<1>5. ASSUME NEW r \in Requests, Fail(r)
      PROVE  Inv'
  BY <1>5, FailStep
<1>6. ASSUME NEW r \in Requests, StopWaiting(r)
      PROVE  Inv'
  BY <1>6, StopWaitingStep
<1> QED
  BY <1>1, <1>2, <1>3, <1>4, <1>5, <1>6 DEF Next

\* The inductive invariant of the query cache.
THEOREM QueryCacheInvariant == Spec => []Inv
<1>1. Init => Inv
  BY InvInit
<1>2. Inv /\ [Next]_vars => Inv'
  BY InvStep
<1> QED
  BY <1>1, <1>2, PTL DEF Spec

\* Entries, channels and requests keep their shapes, for any number of them.
THEOREM QueryCacheTypeCorrect == Spec => []TypeOK
<1>1. Inv => TypeOK
  BY DEF Inv
<1> QED
  BY <1>1, QueryCacheInvariant, PTL

\* What plan_cache_op can find in the cache is the result of the query for
\* every caller its key admits and at every timestamp its token covers.
THEOREM CacheIsSound == Spec => []CacheSound
<1>1. ASSUME Inv PROVE CacheSound
  <2>1. SUFFICES ASSUME NEW k \in DOMAIN cache, cache[k].type = "Ready"
                 PROVE  /\ cache[k].result.outcome.ok
                        /\ \A ts \in cache[k].result.original_ts..cache[k].result.token_ts :
                             \A i \in IF k.identity = None THEN Identities ELSE {k.identity} :
                               Outcome([k EXCEPT !.identity = i], history[ts])
                                 = cache[k].result.outcome
    BY DEF CacheSound
  <2> DEFINE result == cache[k].result
  <2>2. /\ result.outcome.ok /\ RightUnder(history, latest_ts, k, result)
    BY <1>1, <2>1 DEF Inv, CacheInv
  <2>3. /\ result \in Results /\ result.original_ts \in Nat /\ result.token_ts \in Nat
        /\ result.token_ts <= latest_ts /\ latest_ts \in Timestamps
    BY <1>1, <2>2, ResultTypes, Types DEF RightUnder, InTime, Inv
  <2>4. k.identity \in Identities \cup {None}
    BY <1>1, <2>1, Types DEF Inv, StoredKeys
  <2>5. ASSUME NEW ts \in result.original_ts..result.token_ts,
               NEW i \in IF k.identity = None THEN Identities ELSE {k.identity}
        PROVE  Outcome([k EXCEPT !.identity = i], history[ts]) = result.outcome
    <3>1. ts \in Timestamps /\ result.original_ts <= ts /\ ts <= result.token_ts
      BY <2>3 DEF Timestamps
    <3>2. i \in Identities /\ k.identity \in {None, i}
      BY <2>4
    <3> QED
      BY <2>2, <3>1, <3>2 DEF RightUnder
  <2> QED
    BY <2>2, <2>5
<1> QED
  BY <1>1, QueryCacheInvariant, PTL

\* CacheManager::get answers a request with what the query returns for its
\* own identity and journal at its own timestamp.
THEOREM AnswersAreTrue == Spec => []AnswersTrue
<1>1. ASSUME Inv PROVE AnswersTrue
  <2>1. SUFFICES ASSUME NEW r \in Requests, request[r].phase = "done"
                 PROVE  request[r].result.outcome = Outcome(request[r].key, history[request[r].ts])
    BY DEF AnswersTrue
  <2>2. /\ RightFor(history, latest_ts, request[r].key, request[r].result)
        /\ request[r].result.original_ts <= request[r].ts
        /\ request[r].ts <= request[r].result.token_ts /\ request[r].ts \in Timestamps
    BY <1>1, <2>1, RequestFacts DEF RequestOK
  <2> QED
    BY <2>2 DEF RightFor
<1> QED
  BY <1>1, QueryCacheInvariant, PTL

\* WaitingEntryGuard: every waiting entry belongs to a request that will
\* remove it.
THEOREM EntriesAreOwned == Spec => []NoOrphanedEntry
<1>1. Inv => NoOrphanedEntry
  BY DEF Inv
<1> QED
  BY <1>1, QueryCacheInvariant, PTL

==============================================================================
