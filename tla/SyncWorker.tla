----------------------------- MODULE SyncWorker ------------------------------
(***************************************************************************)
(* The server side of a sync session: SyncWorker::go and SyncState         *)
(* (crates/sync), the socket around them (local_backend/src/subs) and the  *)
(* database calls they make: mutations deduplicated by session and request *)
(* (application_function_runner, model/src/session_requests).              *)
(*                                                                         *)
(* One iteration of the worker's loop is one step: the event it selects,   *)
(* the message it sends, and the update it then begins.  A query update    *)
(* runs in the background between its begin and its finish.  When a        *)
(* connection ends, the mutations it was asked to run may still commit.    *)
(***************************************************************************)
EXTENDS SyncChannel

CONSTANTS
  MaxSendTransitions,   \* SYNC_MAX_SEND_TRANSITION_COUNT
  OperationQueueSize,   \* OPERATION_QUEUE_BUFFER_SIZE
  Outcomes,             \* what a mutation may return, a subset of Results
  SearchTokens,         \* queries that may find search indexes unavailable
  MaxWrites,            \* bound: commits of others
  MaxFaults             \* bound: broken connections and internal errors

ASSUME SyncWorkerAssumption ==
  /\ MaxSendTransitions \in Nat \ {0} /\ OperationQueueSize \in Nat \ {0}
  /\ Outcomes \subseteq Results /\ SearchTokens \subseteq Tokens /\ MaxWrites \in Nat /\ MaxFaults \in Nat

VARIABLES
  log,          \* the commits of the deployment; the i-th has timestamp i
  worker,       \* the SyncWorker of the open connection, with its SyncState
  zombies,      \* mutations that ended connections had been asked to run
  faults

serverVars == <<log, worker, zombies, faults>>

latest_timestamp == Len(log)

\* What a query run for an identity at a timestamp returns.
Value(token, identity, ts) ==
  [by |-> identity, at |-> Max({0} \cup {i \in 1..ts : token \in log[i].writes})]

\* Whether a commit in (from, to] changed the query.
Changed(token, from, to) == \E i \in (from + 1)..to : token \in log[i].writes

NoQuery == [phase |-> "none", token |-> None, sub |-> {}, hash |-> {}, future |-> FALSE]
NoTransition == [busy |-> FALSE, start |-> InitialVersion, end |-> InitialVersion,
                 removed |-> {}, remaining |-> [q \in QueryIds |-> {}]]

\* SyncWorker::new, for a socket that was just accepted; alive until the
\* socket closes.
NewWorker ==
  [alive |-> TRUE, session |-> None, current_version |-> InitialVersion,
   queries |-> [q \in QueryIds |-> NoQuery], identity |-> None, refill_needed |-> FALSE,
   pending_query_updates |-> {}, pending_identity |-> {},
   received |-> [query_set |-> 0, identity |-> 0],
   mutations |-> <<>>, actions |-> {}, ran |-> {},
   transition |-> NoTransition, update_scheduled |-> FALSE, unavailable_retry |-> FALSE]

NoWorker == [NewWorker EXCEPT !.alive = FALSE]

ServerInit ==
  /\ log = <<>> /\ worker = NoWorker /\ zombies = {} /\ faults = 0

-------------------------------------------------------------------------------
(* SyncState *)

InPhase(w, phase) == {q \in QueryIds : w.queries[q].phase = phase}
Present(w) == InPhase(w, "live") \cup InPhase(w, "in_progress")

\* identity(): the pending identity if there is one.
Identity(w) == IF w.pending_identity = {} THEN w.identity ELSE CHOOSE i \in w.pending_identity : TRUE

\* modify_query_set, once the base version is known to match.
ModifiedQuerySet(w, m) ==
  [w EXCEPT !.pending_query_updates = @ \cup m.modifications, !.received.query_set = m.new]

\* modify_identity, once the base version is known to match.
ModifiedIdentity(w, m) ==
  [w EXCEPT !.pending_identity = {m.token}, !.received.identity = @ + 1]

Updates(w, op) == {u \in w.pending_query_updates : u.op = op}
UpdatedIds(w, op) == {u.id : u \in Updates(w, op)}

\* The query set once the pending updates are applied and all subscriptions taken.
TakenQuery(w, q) ==
  IF q \in UpdatedIds(w, "Remove") THEN NoQuery
  ELSE IF q \in UpdatedIds(w, "Add")
  THEN [NoQuery EXCEPT !.phase = "in_progress",
                       !.token = (CHOOSE u \in Updates(w, "Add") : u.id = q).token]
  ELSE [w.queries[q] EXCEPT !.sub = {}, !.future = FALSE]

\* Fault: a new identity keeps the subscriptions taken under the old one.
RemainingIgnoresIdentity(w, q) == w.queries[q].sub

\* take_subscriptions: a new identity discards them all.
Remaining(w, q) == IF w.pending_identity = {} THEN w.queries[q].sub ELSE {}

\* Fault: a change of the query set or identity does not move the timestamp.
TargetTsKept(w) ==
  IF w.pending_query_updates # {} \/ w.pending_identity # {} THEN w.current_version.ts
  ELSE latest_timestamp

\* An update always goes to the latest timestamp.
TargetTs(w) == latest_timestamp

\* begin_update_queries: the new version is decided, pending changes are taken
\* and every query hands over its subscription.
BeginUpdate(w) ==
  [w EXCEPT
     !.pending_query_updates = {}, !.pending_identity = {}, !.identity = Identity(w),
     !.queries = [q \in QueryIds |-> TakenQuery(w, q)],
     !.refill_needed = @ \/ Present(w) # {} \/ UpdatedIds(w, "Add") # {},
     !.update_scheduled = FALSE,
     !.transition =
        [busy |-> TRUE, start |-> w.current_version,
         end |-> [ts |-> TargetTs(w), query_set |-> w.received.query_set,
                  identity |-> IF w.pending_identity = {} THEN w.current_version.identity
                               ELSE w.received.identity],
         removed |-> UpdatedIds(w, "Remove"),
         remaining |-> [q \in QueryIds |-> Remaining(w, q)]]]

TransitionCount(messages) == Cardinality({i \in DOMAIN messages : messages[i].t = "Transition"})

\* The condition under which an iteration of the loop begins an update.
CanBegin(w, messages) ==
  w.update_scheduled /\ TransitionCount(messages) < MaxSendTransitions /\ ~w.transition.busy

\* The rest of a loop iteration: send the response, then begin an update if due.
Iterate(w, response) ==
  LET messages == down \o response IN
  /\ down' = messages
  /\ worker' = IF CanBegin(w, messages) THEN BeginUpdate(w) ELSE w
  /\ UNCHANGED zombies

ScheduleUpdate(w) == [w EXCEPT !.update_scheduled = TRUE]

-------------------------------------------------------------------------------
(* The end of a connection *)

\* The mutations the worker was asked to run and has not answered.
Unanswered ==
  [i \in DOMAIN worker.mutations |-> [session |-> worker.session, req |-> worker.mutations[i].req,
                                      by |-> worker.mutations[i].by]]

\* The socket closes with a final message, losing a suffix of what was on its
\* way; the first n unanswered mutations may still commit.
Close(final, n) ==
  /\ \E k \in 0..Len(down) : down' = SubSeq(down, 1, k) \o final \o <<CloseFrame>>
  /\ worker' = NoWorker
  /\ zombies' = (zombies \cup {SubSeq(Unanswered, 1, n)}) \ {<<>>}

\* A worker that fails drops all but the mutation it is running.
WorkerFails(final) == Close(final, Min({1, Len(worker.mutations)}))

\* The network, a timeout or an internal error ends the connection.
ConnectionBreaks ==
  /\ worker.alive /\ faults < MaxFaults
  /\ faults' = faults + 1
  /\ up' = <<>> /\ Close(<<>>, Len(worker.mutations))
  /\ UNCHANGED <<log>>

-------------------------------------------------------------------------------
(* handle_message *)

HandleConnect(m) ==
  /\ m.t = "Connect"
  /\ Iterate([worker EXCEPT !.session = m.session], <<>>)

HandleModifyQuerySet(m) ==
  /\ m.t = "ModifyQuerySet"
  /\ \/ /\ m.base = worker.received.query_set
        /\ Iterate(ScheduleUpdate(ModifiedQuerySet(worker, m)), <<>>)
     \/ m.base # worker.received.query_set /\ WorkerFails(<<ErrorMessage>>)

HandleAuthenticate(m) ==
  /\ m.t = "Authenticate"
  /\ \/ /\ m.base = worker.received.identity
        /\ Iterate(ScheduleUpdate(ModifiedIdentity(worker, m)), <<>>)
     \/ m.base # worker.received.identity /\ WorkerFails(<<>>)

\* A mutation waits for its turn with the identity the session has now.
HandleMutation(m) ==
  /\ m.t = "Mutation"
  /\ \/ /\ Len(worker.mutations) <= OperationQueueSize
        /\ Iterate([worker EXCEPT !.mutations = Append(@, [req |-> m.req, by |-> Identity(worker),
                                                          result |-> "none", ts |-> None])], <<>>)
     \/ Len(worker.mutations) > OperationQueueSize /\ WorkerFails(<<>>)

HandleAction(m) ==
  /\ m.t = "Action"
  /\ \/ /\ Cardinality(worker.actions \cup worker.ran) <= OperationQueueSize
        /\ Iterate([worker EXCEPT !.actions = @ \cup {m.req}], <<>>)
     \/ Cardinality(worker.actions \cup worker.ran) > OperationQueueSize /\ WorkerFails(<<>>)

HandleMessage ==
  /\ worker.alive /\ up # <<>> /\ up' = Tail(up)
  /\ \/ HandleConnect(Head(up)) \/ HandleModifyQuerySet(Head(up)) \/ HandleAuthenticate(Head(up))
     \/ HandleMutation(Head(up)) \/ HandleAction(Head(up))
  /\ UNCHANGED <<log, faults>>

-------------------------------------------------------------------------------
(* Mutations and actions *)

\* get_session_request_record
Recorded(session, req) == {i \in DOMAIN log : log[i].session = session /\ log[i].req = req}

\* A commit: what it changes and, for a mutation, the record of its request.
Committed(writes, session, req, by) ==
  Append(log, [writes |-> writes, session |-> session, req |-> req, by |-> by])

\* Any other client of the deployment commits.
OthersWrite ==
  /\ Cardinality({i \in DOMAIN log : log[i].req = None}) < MaxWrites /\ Len(log) < MaxTs
  /\ \E writes \in (SUBSET Tokens) \ {{}} : log' = Committed(writes, None, None, None)
  /\ UNCHANGED <<worker, zombies, faults, up, down>>

\* Fault: a mutation that already committed for this session runs again.
RunMutationAgain(m, result, ts) ==
  \/ /\ Len(log) < MaxTs /\ ts = Len(log) + 1 /\ result = "Value"
     /\ log' = Committed(Tokens, m.session, m.req, m.by)
  \/ /\ result \in Outcomes \ {"Value"} /\ ts = None /\ UNCHANGED log

\* _retry_mutation: the recorded result of a mutation that has committed, else
\* one run, which commits unless the function throws.
RunMutation(m, result, ts) ==
  \/ /\ Recorded(m.session, m.req) # {} /\ result = "Value"
     /\ ts \in Recorded(m.session, m.req) /\ UNCHANGED log
  \/ /\ Recorded(m.session, m.req) = {} /\ Len(log) < MaxTs
     /\ ts = Len(log) + 1 /\ result = "Value"
     /\ log' = Committed(Tokens, m.session, m.req, m.by)
  \/ /\ Recorded(m.session, m.req) = {} /\ result \in Outcomes \ {"Value"}
     /\ ts = None /\ UNCHANGED log

\* mutation_futures runs one mutation at a time, in order.
MutationRuns ==
  /\ worker.alive /\ worker.mutations # <<>> /\ worker.mutations[1].result = "none"
  /\ \E result \in Results, ts \in Timestamps :
       /\ RunMutation(Unanswered[1], result, ts)
       /\ worker' = [worker EXCEPT !.mutations[1].result = result, !.mutations[1].ts = ts]
  /\ UNCHANGED <<zombies, faults, up, down>>

MutationResponds ==
  /\ worker.alive /\ worker.mutations # <<>> /\ worker.mutations[1].result # "none"
  /\ LET m == worker.mutations[1] IN
     Iterate(ScheduleUpdate([worker EXCEPT !.mutations = Tail(@)]),
             <<Response("Mutation", m.req, m.result, m.ts)>>)
  /\ UNCHANGED <<log, faults, up>>

\* A mutation of an ended connection commits, or ends without a commit.
ZombieRuns ==
  /\ \E z \in zombies :
       /\ zombies' = (zombies \ {z}) \cup ({Tail(z)} \ {<<>>})
       /\ \E result \in Results, ts \in Timestamps : RunMutation(z[1], result, ts)
  /\ UNCHANGED <<worker, faults, up, down>>

ActionRuns ==
  /\ worker.alive
  /\ \E r \in worker.actions :
       /\ worker' = [worker EXCEPT !.actions = @ \ {r}, !.ran = @ \cup {r}]
  /\ UNCHANGED <<log, zombies, faults, up, down>>

ActionResponds ==
  /\ worker.alive
  /\ \E r \in worker.ran :
       Iterate(ScheduleUpdate([worker EXCEPT !.ran = @ \ {r}]),
               <<Response("Action", r, "Value", None)>>)
  /\ UNCHANGED <<log, faults, up>>

-------------------------------------------------------------------------------
(* Query updates *)

\* Fault: an invalidated query schedules no update.
QueryInvalidatedSilently(q) ==
  /\ worker.alive /\ ~worker.refill_needed
  /\ worker.queries[q].future
  /\ \E ts \in worker.queries[q].sub : Changed(worker.queries[q].token, ts, Len(log))
  /\ Iterate([worker EXCEPT !.queries[q].future = FALSE, !.refill_needed = TRUE], <<>>)
  /\ UNCHANGED <<log, faults, up>>

\* next_invalidated_query: the subscription worker reports a change.
QueryInvalidated(q) ==
  /\ worker.alive /\ ~worker.refill_needed
  /\ worker.queries[q].future
  /\ \E ts \in worker.queries[q].sub : Changed(worker.queries[q].token, ts, Len(log))
  /\ Iterate(ScheduleUpdate([worker EXCEPT !.queries[q].future = FALSE, !.refill_needed = TRUE]), <<>>)
  /\ UNCHANGED <<log, faults, up>>

\* extend_validity(new_ts): the subscription taken from the query holds up to
\* the new timestamp.
Refreshable(q) ==
  \E ts \in worker.transition.remaining[q] :
    ~Changed(worker.queries[q].token, ts, worker.transition.end.ts)

\* How the update of a query may end: it is refreshed, rerun at the new
\* timestamp, or finds the search indexes unavailable.
FetchResults(q) ==
  {"rerun"} \cup (IF Refreshable(q) THEN {"refresh"} ELSE {})
            \cup (IF worker.queries[q].token \in SearchTokens THEN {"unavailable"} ELSE {})

NewHash(q) == {Value(worker.queries[q].token, worker.identity, worker.transition.end.ts)}

\* complete_fetch and refill_subscription.
FetchedQuery(q, result) ==
  IF result = "unavailable" THEN worker.queries[q]
  ELSE [worker.queries[q] EXCEPT
          !.phase = "live", !.sub = {worker.transition.end.ts}, !.future = TRUE,
          !.hash = IF result = "rerun" THEN NewHash(q) ELSE @]

\* fill_invalidation_futures: a live query has nothing to wait on.
MissingSubscription(fetched) == \E q \in DOMAIN fetched : fetched[q] = "unavailable" /\ worker.queries[q].phase = "live"

\* finish_update_queries: only changed results are sent.
FinishUpdate(fetched) ==
  LET tr == worker.transition
      updated == {q \in DOMAIN fetched : fetched[q] = "rerun" /\ worker.queries[q].hash # NewHash(q)}
  IN \/ MissingSubscription(fetched) /\ WorkerFails(<<>>)
     \/ /\ ~MissingSubscription(fetched)
        /\ Iterate([worker EXCEPT
                      !.queries = [q \in QueryIds |-> IF q \in DOMAIN fetched
                                                      THEN FetchedQuery(q, fetched[q]) ELSE @[q]],
                      !.refill_needed = FALSE, !.current_version = tr.end,
                      !.transition = NoTransition,
                      !.unavailable_retry = @ \/ \E q \in DOMAIN fetched : fetched[q] = "unavailable"],
                   <<Transition(tr.start, tr.end,
                                [q \in updated |-> CHOOSE v \in NewHash(q) : TRUE], tr.removed)>>)

UpdateFinishes ==
  /\ worker.alive /\ worker.transition.busy
  /\ \E fetched \in [Present(worker) -> {"rerun", "refresh", "unavailable"}] :
       /\ \A q \in Present(worker) : fetched[q] \in FetchResults(q)
       /\ FinishUpdate(fetched)
  /\ UNCHANGED <<log, faults>>
  /\ up' = IF worker'.alive THEN up ELSE <<>>

UnavailableRetry ==
  /\ worker.alive /\ worker.unavailable_retry
  /\ Iterate(ScheduleUpdate([worker EXCEPT !.unavailable_retry = FALSE]), <<>>)
  /\ UNCHANGED <<log, faults, up>>

\* message_consumed: the send buffer shrank and an update is due.
MessageConsumed ==
  /\ worker.alive /\ CanBegin(worker, down)
  /\ Iterate(worker, <<>>)
  /\ UNCHANGED <<log, faults, up>>

ServerNext ==
  \/ HandleMessage \/ ConnectionBreaks \/ OthersWrite
  \/ MutationRuns \/ MutationResponds \/ ZombieRuns \/ ActionRuns \/ ActionResponds
  \/ (\E q \in QueryIds : QueryInvalidated(q)) \/ UpdateFinishes
  \/ UnavailableRetry \/ MessageConsumed
==============================================================================
