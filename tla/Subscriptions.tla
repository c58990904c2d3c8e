---------------------------- MODULE Subscriptions ----------------------------
(***************************************************************************)
(* Reactivity: the write log, the subscription managers that follow it,    *)
(* the retention coordinator that trims it and the subscriptions clients   *)
(* hold (database/src/subscription.rs, write_log.rs; extend_validity in    *)
(* application/src/api.rs).                                                *)
(*                                                                         *)
(* Managers are tasks of their own: between two of a manager's steps the   *)
(* committer appends to the log, other managers trim it and clients        *)
(* subscribe, extend and drop.  Reads of the log clone it under its lock,  *)
(* so each is one step.  The log's contents are the writes above           *)
(* purged_ts.                                                              *)
(***************************************************************************)
EXTENDS Integers, Sequences, FiniteSets, FiniteSetsExt

CONSTANTS
  Subs,               \* subscriptions, each made once
  Managers,           \* NUM_SUBSCRIPTION_MANAGERS workers
  Keys,               \* what reads and writes overlap on
  MaxTs,              \* bound: the largest timestamp
  WriteLogRetention,  \* WRITE_LOG_MIN_RETENTION_SECS, in timestamps
  QueueSize           \* SUBSCRIPTIONS_WORKER_QUEUE_SIZE

Timestamps == 0..MaxTs

ASSUME SubscriptionsAssumption ==
  /\ IsFiniteSet(Subs)
  /\ Managers # {} /\ IsFiniteSet(Managers)
  /\ MaxTs \in Nat /\ WriteLogRetention \in Nat /\ QueueSize \in Nat \ {0}

\* The atomics of Validity hold -1 for "invalid" and for "unknown".
None == -1

\* Slab keys: a free one is reused.
Slots == 1..Cardinality(Subs)

VARIABLES
  writes,       \* every [ts, keys] ever appended to the write log
  purged_ts,    \* WriteLog::purged_ts
  snapshot_ts,  \* latest timestamp of the snapshot manager
  pc,           \* where each manager's run_worker loop is
  waiter,       \* the manager's entry in WriteLogManager::waiters
  next_ts,      \* what wait_for_higher_ts returned, 0 once it is processed
  processed_ts, \* SubscriptionManager::processed_ts
  processed_timestamps, \* RetentionCoordinator's copy of it
  queue,        \* each manager's request channel
  subscribers,  \* each manager's Slab, as a set of [slot, seq, sub]
  closed_subscriptions, \* keys [slot, seq, sub] waiting for their client
  next_seq,     \* SubscriptionManager::next_seq
  stopped,      \* SubscriptionsClient::shutdown was called
  sub,          \* each subscription and its Validity
  extend        \* an extend_validity call on it

managerVars == <<pc, waiter, next_ts, processed_ts, processed_timestamps,
                 queue, subscribers, closed_subscriptions, next_seq>>
logVars == <<writes, purged_ts, snapshot_ts>>
vars == <<logVars, managerVars, stopped, sub, extend>>

SubPhases == {"idle", "queried", "refreshed", "queued", "registered", "done"}

TypeOK ==
  /\ writes \in SUBSET [ts : Timestamps, keys : SUBSET Keys]
  /\ purged_ts \in Timestamps
  /\ snapshot_ts \in Timestamps
  /\ pc \in [Managers -> {"select", "waiting", "advance", "report", "trim"}]
  /\ waiter \in [Managers -> {"none", "registered", "notified"}]
  /\ next_ts \in [Managers -> Timestamps]
  /\ processed_ts \in [Managers -> Timestamps]
  /\ processed_timestamps \in [Managers -> Timestamps]
  /\ queue \in [Managers -> Seq(Subs)]
  /\ \A m \in Managers : Len(queue[m]) <= QueueSize
  /\ subscribers \in [Managers -> SUBSET [slot : Slots, seq : Nat, sub : Subs]]
  /\ closed_subscriptions \in
       [Managers -> SUBSET [slot : Slots, seq : Nat, sub : Subs]]
  /\ next_seq \in [Managers -> Nat]
  /\ stopped \in BOOLEAN
  /\ sub \in [Subs -> [phase : SubPhases, reads : SUBSET Keys,
                       begin : Timestamps, token : Timestamps,
                       valid_ts : Timestamps \cup {None},
                       invalid_ts : Timestamps \cup {None},
                       watch : {"valid", "delayed", "invalid"},
                       held : BOOLEAN]]
  /\ extend \in [Subs -> [phase : {"none", "reading", "valid", "invalid"},
                          current_ts : Timestamps, new_ts : Timestamps]]

\* Nothing of the subscription is left.
Gone == [phase |-> "done", reads |-> {}, begin |-> 0, token |-> 0,
         valid_ts |-> None, invalid_ts |-> None, watch |-> "invalid",
         held |-> FALSE]

NoExtend == [phase |-> "none", current_ts |-> 0, new_ts |-> 0]

Init ==
  /\ writes = {} /\ purged_ts = 0 /\ snapshot_ts = 0
  /\ pc = [m \in Managers |-> "select"]
  /\ waiter = [m \in Managers |-> "none"]
  /\ next_ts = [m \in Managers |-> 0]
  /\ processed_ts = [m \in Managers |-> 0]
  /\ processed_timestamps = [m \in Managers |-> 0]
  /\ queue = [m \in Managers |-> <<>>]
  /\ subscribers = [m \in Managers |-> {}]
  /\ closed_subscriptions = [m \in Managers |-> {}]
  /\ next_seq = [m \in Managers |-> 0]
  /\ stopped = FALSE
  /\ sub = [s \in Subs |-> [phase |-> "idle", reads |-> {}, begin |-> 0,
                            token |-> 0, valid_ts |-> None,
                            invalid_ts |-> None, watch |-> "valid",
                            held |-> FALSE]]
  /\ extend = [s \in Subs |-> NoExtend]

-----------------------------------------------------------------------------
(* The write log.                                                          *)

\* WriteLog::by_ts.
log == {w \in writes : purged_ts < w.ts}

\* WriteLog::max_ts.
max_ts == Max({purged_ts} \cup {w.ts : w \in log})

\* WriteLog::iter from lo (exclusive) to hi, the entries that overlap reads.
Overlapping(entries, reads, lo, hi) ==
  {w \in entries : lo < w.ts /\ w.ts <= hi /\ w.keys \cap reads # {}}

\* The earliest of some log entries.
Earliest(entries) == Min({w.ts : w \in entries})

\* WriteLog::iter's error for a range that starts below the log.
OutOfRetention(ts) == ts < purged_ts

\* WriteLog::refresh_token succeeds.
Refreshes(reads, from, to) ==
  ~OutOfRetention(from) /\ Overlapping(log, reads, from, to) = {}

\* What its error carries: the conflicting write, if it is known.
ConflictTs(reads, from, to) ==
  IF OutOfRetention(from) THEN None ELSE Earliest(Overlapping(log, reads, from, to))

\* Fault: appending does not wake the managers.
notify_waiters_lost(ts) == waiter

\* WriteLogManager::notify_waiters.
notify_waiters(ts) ==
  [m \in Managers |->
     IF waiter[m] = "registered" /\ processed_ts[m] < ts
     THEN "notified" ELSE waiter[m]]

\* LogWriter::append, by publish_commit and publish_max_repeatable_ts (no
\* keys).  Timestamps are positions in the log: only their order matters.
\* The snapshot manager follows in a step of its own.
AppendWrite(keys) ==
  /\ snapshot_ts = max_ts
  /\ max_ts < MaxTs
  /\ writes' = writes \cup {[ts |-> max_ts + 1, keys |-> keys]}
  /\ waiter' = notify_waiters(max_ts + 1)
  /\ UNCHANGED <<purged_ts, snapshot_ts, pc, next_ts, processed_ts,
                 processed_timestamps, queue, subscribers,
                 closed_subscriptions, next_seq, stopped, sub, extend>>

\* SnapshotManager::push: new reads see the append.
PushSnapshot ==
  /\ snapshot_ts < max_ts
  /\ snapshot_ts' = max_ts
  /\ UNCHANGED <<writes, purged_ts, managerVars, stopped, sub, extend>>

-----------------------------------------------------------------------------
(* Clients.                                                                *)

\* A query ran at the latest snapshot; its token has its reads.
RunQuery(s, reads) ==
  /\ sub[s].phase = "idle"
  /\ sub' = [sub EXCEPT ![s].phase = "queried", ![s].reads = reads,
                        ![s].begin = snapshot_ts]
  /\ UNCHANGED <<logVars, managerVars, stopped, extend>>

\* SubscriptionsClient::subscribe, first half: refresh_reads_until_max_ts.
RefreshReads(s) ==
  /\ sub[s].phase = "queried"
  /\ Refreshes(sub[s].reads, sub[s].begin, max_ts)
  /\ sub' = [sub EXCEPT ![s].phase = "refreshed", ![s].token = max_ts,
                        ![s].valid_ts = max_ts, ![s].held = TRUE]
  /\ UNCHANGED <<logVars, managerVars, stopped, extend>>

\* Subscription::invalid.
SubscribeInvalid(s) ==
  /\ sub[s].phase = "queried"
  /\ ~Refreshes(sub[s].reads, sub[s].begin, max_ts)
  /\ sub' = [sub EXCEPT ![s].phase = "done", ![s].held = TRUE,
                        ![s].watch = "invalid",
                        ![s].invalid_ts =
                          ConflictTs(sub[s].reads, sub[s].begin, max_ts)]
  /\ UNCHANGED <<logVars, managerVars, stopped, extend>>

\* The channel to the manager has room.
HasRoom(m) == Len(queue[m]) < QueueSize

\* The second half: try_send to one of the managers.
SendRequest(s, m) ==
  /\ sub[s].phase = "refreshed" /\ ~stopped
  /\ HasRoom(m)
  /\ queue' = [queue EXCEPT ![m] = Append(@, s)]
  /\ sub' = [sub EXCEPT ![s].phase = "queued"]
  /\ UNCHANGED <<logVars, pc, waiter, next_ts, processed_ts,
                 processed_timestamps, subscribers, closed_subscriptions,
                 next_seq, stopped, extend>>

\* The channel is full or closed: the caller gets an error, no subscription.
SendFails(s, m) ==
  /\ sub[s].phase = "refreshed"
  /\ stopped \/ ~HasRoom(m)
  /\ sub' = [sub EXCEPT ![s] = Gone]
  /\ UNCHANGED <<logVars, managerVars, stopped, extend>>

\* The client drops its Subscription; a manager that has the sender still
\* has to find out.
DropSubscription(s) ==
  /\ sub[s].held /\ sub[s].phase # "refreshed"
  /\ sub' = [sub EXCEPT ![s] =
       IF @.phase = "done" THEN Gone ELSE [@ EXCEPT !.held = FALSE]]
  /\ extend' = [extend EXCEPT ![s] = NoExtend]
  /\ UNCHANGED <<logVars, managerVars, stopped>>

\* Fault: the token starts at new_ts.
ExtendStart_from_new(s, new_ts) ==
  /\ sub[s].held /\ sub[s].phase # "refreshed"
  /\ extend[s].phase = "none"
  /\ extend' = [extend EXCEPT ![s] =
       IF new_ts < sub[s].begin \/ sub[s].valid_ts = None
       THEN [phase |-> "invalid", current_ts |-> 0, new_ts |-> new_ts]
       ELSE [phase |-> "reading", current_ts |-> new_ts, new_ts |-> new_ts]]
  /\ UNCHANGED <<logVars, managerVars, stopped, sub>>

\* extend_validity up to the read of current_ts.
ExtendStart(s, new_ts) ==
  /\ sub[s].held /\ sub[s].phase # "refreshed"
  /\ extend[s].phase = "none"
  /\ extend' = [extend EXCEPT ![s] =
       IF new_ts < sub[s].begin \/ sub[s].valid_ts = None
       THEN [phase |-> "invalid", current_ts |-> 0, new_ts |-> new_ts]
       ELSE [phase |-> "reading", current_ts |-> sub[s].valid_ts,
             new_ts |-> new_ts]]
  /\ UNCHANGED <<logVars, managerVars, stopped, sub>>

\* Its LogReader::refresh_token to new_ts, with the shortcut for a token
\* that is already there.
ExtendFinish(s) ==
  LET e == extend[s] IN
  /\ e.phase = "reading"
  /\ extend' = [extend EXCEPT ![s].current_ts = 0, ![s].phase =
       IF \/ e.current_ts = e.new_ts
          \/ Refreshes(sub[s].reads, e.current_ts, e.new_ts)
       THEN "valid" ELSE "invalid"]
  /\ UNCHANGED <<logVars, managerVars, stopped, sub>>

-----------------------------------------------------------------------------
(* A manager's run_worker loop.                                            *)

\* select_biased!: a manager that waits for the log takes other work too;
\* the future it drops is a waiter whose receiver is closed.
Selects(m) == ~stopped /\ pc[m] \in {"select", "waiting"}

LeaveSelect(m, to) ==
  /\ pc' = [pc EXCEPT ![m] = to]
  /\ waiter' = [waiter EXCEPT ![m] = "none"]

\* A future that yields the key once the client's receiver is closed.
WatchClosed(m, key) ==
  closed_subscriptions' = [closed_subscriptions EXCEPT ![m] = @ \cup {key}]

\* SubscriptionManager::subscribe, when the token is at processed_ts or can
\* be refreshed to it.  A Subscriber keeps the reads, not the timestamp.
Subscribe(m, slot) ==
  LET s == Head(queue[m])
      key == [slot |-> slot, seq |-> next_seq[m], sub |-> s] IN
  /\ Selects(m) /\ queue[m] # <<>>
  /\ \/ sub[s].token >= processed_ts[m]
     \/ Refreshes(sub[s].reads, sub[s].token, processed_ts[m])
  /\ \A k \in subscribers[m] : k.slot # slot
  /\ queue' = [queue EXCEPT ![m] = Tail(@)]
  /\ subscribers' = [subscribers EXCEPT ![m] = @ \cup {key}]
  /\ WatchClosed(m, key)
  /\ next_seq' = [next_seq EXCEPT ![m] = @ + 1]
  /\ sub' = [sub EXCEPT ![s].phase = "registered", ![s].token = 0]
  /\ LeaveSelect(m, "select")
  /\ UNCHANGED <<logVars, next_ts, processed_ts, processed_timestamps,
                 stopped, extend>>

\* It cannot: the sender is dropped.
SubscribeRefused(m) ==
  LET s == Head(queue[m]) IN
  /\ Selects(m) /\ queue[m] # <<>>
  /\ sub[s].token < processed_ts[m]
  /\ ~Refreshes(sub[s].reads, sub[s].token, processed_ts[m])
  /\ queue' = [queue EXCEPT ![m] = Tail(@)]
  /\ sub' = [sub EXCEPT ![s].phase = "done", ![s].valid_ts = None,
                        ![s].watch = "invalid",
                        ![s].invalid_ts = ConflictTs(sub[s].reads,
                                            sub[s].token, processed_ts[m])]
  /\ LeaveSelect(m, "select")
  /\ UNCHANGED <<logVars, next_ts, processed_ts, processed_timestamps,
                 subscribers, closed_subscriptions, next_seq, stopped, extend>>

\* Fault: whatever is in the slot is removed.
get_subscriber_any(m, key) == {k \in subscribers[m] : k.slot = key.slot}

\* get_subscriber: the slot still holds the subscriber this key was made for.
get_subscriber(m, key) ==
  {k \in subscribers[m] : k.slot = key.slot /\ k.seq <= key.seq}

\* closed_subscriptions yields a key: its client is gone.  Dropping the
\* sender of what is removed invalidates it.
Remove(m, key) ==
  LET removed == get_subscriber(m, key) IN
  /\ Selects(m) /\ key \in closed_subscriptions[m]
  /\ ~sub[key.sub].held
  /\ closed_subscriptions' = [closed_subscriptions EXCEPT ![m] = @ \ {key}]
  /\ subscribers' = [subscribers EXCEPT ![m] = @ \ removed]
  /\ sub' = [s \in Subs |->
               IF ~\E k \in removed : k.sub = s THEN sub[s]
               ELSE IF ~sub[s].held THEN Gone
               ELSE [sub[s] EXCEPT !.phase = "done", !.valid_ts = None, !.watch = "invalid"]]
  /\ LeaveSelect(m, "select")
  /\ UNCHANGED <<logVars, next_ts, processed_ts, processed_timestamps, queue,
                 next_seq, stopped, extend>>

\* wait_for_higher_ts: nothing above processed_ts yet, a waiter is left.
WaitForHigherTs(m) ==
  /\ ~stopped /\ pc[m] = "select"
  /\ max_ts <= processed_ts[m]
  /\ pc' = [pc EXCEPT ![m] = "waiting"]
  /\ waiter' = [waiter EXCEPT ![m] = "registered"]
  /\ UNCHANGED <<logVars, next_ts, processed_ts, processed_timestamps, queue,
                 subscribers, closed_subscriptions, next_seq, stopped, sub,
                 extend>>

\* What wait_for_higher_ts returns: the log's end when it is polled.
higher_ts(m) == max_ts

\* The log is past processed_ts already, or the waiter was notified:
\* max_ts is read, now.
SeesHigherTs(m) ==
  /\ ~stopped
  /\ \/ pc[m] = "select" /\ processed_ts[m] < max_ts
     \/ pc[m] = "waiting" /\ waiter[m] = "notified"
  /\ next_ts' = [next_ts EXCEPT ![m] = higher_ts(m)]
  /\ LeaveSelect(m, "advance")
  /\ UNCHANGED <<logVars, processed_ts, processed_timestamps, queue,
                 subscribers, closed_subscriptions, next_seq, stopped, sub,
                 extend>>

\* Fault: the range starts one entry late.
to_notify_late(m) ==
  {k \in subscribers[m] :
     Overlapping(log, sub[k.sub].reads, processed_ts[m] + 1, next_ts[m]) # {}}

\* The subscribers whose reads a new log entry overlaps.
to_notify(m) ==
  {k \in subscribers[m] :
     Overlapping(log, sub[k.sub].reads, processed_ts[m], next_ts[m]) # {}}

\* advance_log: valid subscriptions move to next_ts, the others are removed
\* and invalidated; when there are many, the notification is delayed.  The
\* range it reads must be in the log.
AdvanceLog(m) ==
  LET notify == to_notify(m)
      notified(s) == \E k \in notify : k.sub = s
      advanced(s) == \E k \in subscribers[m] \ notify : k.sub = s
  IN
  /\ ~stopped /\ pc[m] = "advance"
  /\ ~OutOfRetention(processed_ts[m])
  /\ \E watch \in {"invalid", "delayed"} :
       sub' = [s \in Subs |->
         CASE notified(s) ->
                [sub[s] EXCEPT !.phase = "done", !.valid_ts = None,
                               !.watch = watch,
                               !.invalid_ts = Earliest(Overlapping(log,
                                  sub[s].reads, processed_ts[m], next_ts[m]))]
           [] advanced(s) -> [sub[s] EXCEPT !.valid_ts = next_ts[m]]
           [] OTHER -> sub[s]]
  /\ subscribers' = [subscribers EXCEPT ![m] = @ \ notify]
  /\ processed_ts' = [processed_ts EXCEPT ![m] = next_ts[m]]
  /\ next_ts' = [next_ts EXCEPT ![m] = 0]
  /\ pc' = [pc EXCEPT ![m] = "report"]
  /\ UNCHANGED <<logVars, waiter, processed_timestamps, queue,
                 closed_subscriptions, next_seq, stopped, extend>>

\* The task of drop_with_delay: its sleep ends or its client goes away.
DeliverDelayed(s) ==
  /\ sub[s].watch = "delayed"
  /\ sub' = [sub EXCEPT ![s].watch = "invalid"]
  /\ UNCHANGED <<logVars, managerVars, stopped, extend>>

\* Fault: every manager trims at its own timestamp.
UpdateProcessed_own(m) ==
  /\ ~stopped /\ pc[m] = "report"
  /\ processed_timestamps' =
       [processed_timestamps EXCEPT ![m] = processed_ts[m]]
  /\ pc' = [pc EXCEPT ![m] = "trim"]
  /\ UNCHANGED <<logVars, waiter, next_ts, processed_ts, queue, subscribers,
                 closed_subscriptions, next_seq, stopped, sub, extend>>

\* RetentionCoordinator, under its first lock: a manager that is the
\* slowest goes on to trim.
UpdateProcessed(m) ==
  /\ ~stopped /\ pc[m] = "report"
  /\ processed_timestamps' =
       [processed_timestamps EXCEPT ![m] = processed_ts[m]]
  /\ pc' = [pc EXCEPT ![m] =
       IF \A n \in Managers : processed_ts[m] <= processed_timestamps'[n]
       THEN "trim" ELSE "select"]
  /\ UNCHANGED <<logVars, waiter, next_ts, processed_ts, queue, subscribers,
                 closed_subscriptions, next_seq, stopped, sub, extend>>

\* Under the log's lock, enforce_retention_policy(min_ts): a prefix of the
\* log goes, how long depends on its size and age, none of it within the
\* minimum retention of min_ts.
EnforceRetention(m, ts) ==
  /\ ~stopped /\ pc[m] = "trim"
  /\ \/ ts = purged_ts
     \/ ts + WriteLogRetention < processed_ts[m] /\ \E w \in log : w.ts = ts
  /\ purged_ts' = ts
  /\ pc' = [pc EXCEPT ![m] = "select"]
  /\ UNCHANGED <<writes, snapshot_ts, waiter, next_ts, processed_ts,
                 processed_timestamps, queue, subscribers,
                 closed_subscriptions, next_seq, stopped, sub, extend>>

\* SubscriptionsClient::shutdown: the managers' tasks are dropped, and every
\* sender they own with them.
Shutdown ==
  /\ ~stopped
  /\ stopped' = TRUE
  /\ sub' = [s \in Subs |->
               IF sub[s].phase \in {"queued", "registered"}
               THEN [sub[s] EXCEPT !.phase = "done", !.valid_ts = None,
                                   !.watch = "invalid"]
               ELSE sub[s]]
  /\ queue' = [m \in Managers |-> <<>>]
  /\ subscribers' = [m \in Managers |-> {}]
  /\ closed_subscriptions' = [m \in Managers |-> {}]
  /\ waiter' = [m \in Managers |-> "none"]
  /\ UNCHANGED <<logVars, pc, next_ts, processed_ts, processed_timestamps,
                 next_seq, extend>>

ManagerStep(m) ==
  \/ \E slot \in Slots : Subscribe(m, slot)
  \/ SubscribeRefused(m)
  \/ \E key \in closed_subscriptions[m] : Remove(m, key)
  \/ WaitForHigherTs(m)
  \/ SeesHigherTs(m)
  \/ AdvanceLog(m)
  \/ UpdateProcessed(m)
  \/ \E ts \in Timestamps : EnforceRetention(m, ts)

Next ==
  \/ \E keys \in SUBSET Keys : AppendWrite(keys)
  \/ PushSnapshot
  \/ \E s \in Subs :
       \/ \E reads \in SUBSET Keys \ {{}} : RunQuery(s, reads)
       \/ RefreshReads(s) \/ SubscribeInvalid(s)
       \/ \E m \in Managers : SendRequest(s, m) \/ SendFails(s, m)
       \/ DropSubscription(s)
       \/ \E new_ts \in 0..snapshot_ts : ExtendStart(s, new_ts)
       \/ ExtendFinish(s)
       \/ DeliverDelayed(s)
  \/ \E m \in Managers : ManagerStep(m)
  \/ Shutdown

Spec == Init /\ [][Next]_vars

-----------------------------------------------------------------------------
(* Properties.                                                             *)

\* A subscription that shows valid_ts has missed nothing: no write its query
\* did not see overlaps its reads up to that timestamp, whichever manager
\* was lagging and whatever was trimmed meanwhile (set_valid_ts, subscribe).
ValiditySound ==
  \A s \in Subs : sub[s].valid_ts # None =>
    Overlapping(writes, sub[s].reads, sub[s].begin, sub[s].valid_ts) = {}

\* extend_validity never calls a result valid at new_ts when a write after
\* the query changed it, even though current_ts is read before the log is
\* and the manager may advance, invalidate or trim in between.
ExtendSound ==
  \A s \in Subs : extend[s].phase = "valid" =>
    /\ sub[s].begin <= extend[s].new_ts
    /\ Overlapping(writes, sub[s].reads, sub[s].begin, extend[s].new_ts) = {}

\* Validity only moves forward, and invalid is final: set_valid_ts cannot
\* undo a later refresh by the client nor an invalidation.
ValidTsMonotone ==
  [][\A s \in Subs : sub[s].phase \notin {"idle", "queried"} =>
       \/ sub'[s].valid_ts = None
       \/ sub[s].valid_ts # None /\ sub[s].valid_ts <= sub'[s].valid_ts]_sub

\* No manager is left behind by the log: what it has not processed is still
\* there, so advance_log cannot fail and lose invalidations
\* (RetentionCoordinator: trim "only up to the point where all managers have
\* finished processing").
ManagersInRetention ==
  \A m \in Managers : purged_ts <= processed_ts[m]

\* A client that still holds its subscription is only told it is invalid
\* together with a write that overlaps its reads, or because its query fell
\* out of the log; a key of an earlier subscription in the same slot never
\* takes it down (get_subscriber).
InvalidatedForCause ==
  \A s \in Subs : sub[s].held /\ sub[s].valid_ts = None /\ ~stopped =>
    \/ \E w \in writes :
         w.ts = sub[s].invalid_ts /\ w.keys \cap sub[s].reads # {}
    \/ sub[s].begin < purged_ts

\* Every manager's loop keeps running, and so do the delayed drops; clients,
\* the committer and shutdown owe nothing.
Fairness ==
  /\ \A m \in Managers : WF_vars(ManagerStep(m))
  /\ \A s \in Subs : WF_vars(DeliverDelayed(s))

FairSpec == Spec /\ Fairness

\* A write that changes what a subscribed query read always reaches its
\* client: no lost wake-up in wait_for_higher_ts, no request stuck in a
\* channel, no entry trimmed before it was processed.
EventuallyInvalidated ==
  \A s \in Subs :
    /\ sub[s].phase \in {"queued", "registered"}
    /\ \E w \in writes : sub[s].begin < w.ts /\ w.keys \cap sub[s].reads # {}
    ~> sub[s].watch = "invalid"

==============================================================================
