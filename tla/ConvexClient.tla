---------------------------- MODULE ConvexClient -----------------------------
(***************************************************************************)
(* The Rust client: BaseConvexClient with its local and remote query set   *)
(* and its request manager, the worker task that drives it, and the        *)
(* WebSocket task it talks to (crates/convex/src).  The two tasks share    *)
(* an unbounded queue of requests and a response channel of one place.     *)
(*                                                                         *)
(* A token has at most one query id at a time; ids are never reused.       *)
(* Backoff delays, logs and the watch streams are left out: results is the *)
(* QueryResults the watchers last got.                                     *)
(***************************************************************************)
EXTENDS SyncChannel

CONSTANTS
  RequestTypes,     \* subset of {"Mutation", "Action"}
  MaxSubscribers,   \* bound: subscribers of a query
  MaxConnections    \* bound: connections opened

ASSUME ConvexClientAssumption ==
  /\ RequestTypes \subseteq {"Mutation", "Action"}
  /\ MaxSubscribers \in Nat \ {0} /\ MaxConnections \in Nat \ {0}

VARIABLES
  query_set,        \* LocalSyncState: the id of each subscribed token
  num_subscribers,
  next_query_id,
  query_set_version,
  auth_token,
  identity_version,
  results,          \* latest_results
  remote,           \* RemoteQuerySet
  requests,         \* RequestManager: every request so far
  outgoing,         \* outgoing_message_queue
  failed,           \* the worker has an error and is about to reconnect
  ws,               \* the WebSocket task: connecting, connected or draining
  wsq,              \* requests to the WebSocket task
  resp,             \* the response channel
  connection        \* connections opened so far; names the session

localVars == <<query_set, num_subscribers, next_query_id, query_set_version, auth_token, identity_version>>
viewVars == <<results, remote>>
taskVars == <<ws, wsq, resp, connection>>
clientVars == <<localVars, viewVars, requests, outgoing, failed, taskVars>>

NoRequest == [typ |-> "none", status |-> "none", ts |-> None]
NoRemote == [version |-> InitialVersion, set |-> [q \in QueryIds |-> {}]]

ClientInit ==
  /\ query_set = [t \in Tokens |-> None] /\ num_subscribers = [t \in Tokens |-> 0]
  /\ next_query_id = 1 /\ query_set_version = 0 /\ auth_token = None /\ identity_version = 0
  /\ results = [q \in QueryIds |-> {}] /\ remote = NoRemote
  /\ requests = [r \in Requests |-> NoRequest]
  /\ outgoing = <<>> /\ failed = FALSE
  /\ ws = "connecting" /\ wsq = <<>> /\ resp = <<>> /\ connection = 0

SubscribedTokens == {t \in Tokens : query_set[t] # None}
SubscribedIds == {query_set[t] : t \in SubscribedTokens}

\* A request to the WebSocket task whose send the worker still awaits.
Sending == \E i \in DOMAIN wsq : wsq[i].awaited
SendMessage(m) == [kind |-> "Send", m |-> m, awaited |-> TRUE]
ReconnectRequest == [kind |-> "Reconnect", m |-> Connect(None), awaited |-> FALSE]

-------------------------------------------------------------------------------
(* Requests of the application: one at a time, each flushed before the next *)

\* The worker is at the select of _worker_once.
AtSelect == ~failed /\ ~Sending /\ outgoing = <<>>

\* subscribe: a second subscriber shares the query.
Subscribe(t) ==
  /\ AtSelect /\ num_subscribers[t] < MaxSubscribers
  /\ \/ /\ query_set[t] # None
        /\ UNCHANGED <<query_set, next_query_id, query_set_version, outgoing>>
     \/ /\ query_set[t] = None /\ next_query_id \in QueryIds
        /\ query_set' = [query_set EXCEPT ![t] = next_query_id]
        /\ next_query_id' = next_query_id + 1
        /\ query_set_version' = query_set_version + 1
        /\ outgoing' = <<ModifyQuerySet(query_set_version, query_set_version + 1,
                                        {AddQuery(next_query_id, t)})>>
  /\ num_subscribers' = [num_subscribers EXCEPT ![t] = @ + 1]
  /\ UNCHANGED <<auth_token, identity_version, viewVars, requests, failed, taskVars, up, down>>

\* remove_subscriber: the last one takes the query out of the set.
Unsubscribe(t) ==
  /\ AtSelect /\ num_subscribers[t] > 0
  /\ num_subscribers' = [num_subscribers EXCEPT ![t] = @ - 1]
  /\ IF num_subscribers[t] > 1
     THEN UNCHANGED <<query_set, query_set_version, outgoing>>
     ELSE /\ query_set' = [query_set EXCEPT ![t] = None]
          /\ query_set_version' = query_set_version + 1
          /\ outgoing' = <<ModifyQuerySet(query_set_version, query_set_version + 1,
                                          {RemoveQuery(query_set[t], t)})>>
  /\ UNCHANGED <<next_query_id, auth_token, identity_version, viewVars, requests, failed,
                 taskVars, up, down>>

\* mutation and action: track the request, then send it.
Call(r, typ) ==
  /\ AtSelect /\ requests[r] = NoRequest /\ \A s \in Requests : s < r => requests[s] # NoRequest
  /\ requests' = [requests EXCEPT ![r] = [typ |-> typ, status |-> "Requested", ts |-> None]]
  /\ outgoing' = <<Request(typ, r)>>
  /\ UNCHANGED <<localVars, viewVars, failed, taskVars, up, down>>

SetAuth(token) ==
  /\ AtSelect /\ auth_token # token
  /\ auth_token' = token /\ identity_version' = identity_version + 1
  /\ outgoing' = <<Authenticate(identity_version, token)>>
  /\ UNCHANGED <<query_set, num_subscribers, next_query_id, query_set_version, viewVars, requests,
                 failed, taskVars, up, down>>

\* communicate: the next outgoing message goes to the WebSocket task.
Flush ==
  /\ ~failed /\ ~Sending /\ outgoing # <<>>
  /\ wsq' = Append(wsq, SendMessage(Head(outgoing))) /\ outgoing' = Tail(outgoing)
  /\ UNCHANGED <<localVars, viewVars, requests, failed, ws, resp, connection, up, down>>

-------------------------------------------------------------------------------
(* receive_message *)

\* A failed worker no longer awaits its send.
Fails ==
  /\ failed' = TRUE
  /\ wsq' = [i \in DOMAIN wsq |-> [wsq[i] EXCEPT !.awaited = FALSE]]

\* remove_and_notify_completed: every completed request, whatever its timestamp.
Resolved(r) == requests[r].status = "Completed"

\* The remote query set after a transition.
ApplyModifications(m) ==
  [q \in QueryIds |-> IF q \in DOMAIN m.updated THEN {m.updated[q]}
                      ELSE IF q \in m.removed THEN {} ELSE remote.set[q]]

ReceiveTransition(m) ==
  /\ m.t = "Transition"
  /\ \/ /\ m.start = remote.version
        /\ remote' = [version |-> m.end, set |-> ApplyModifications(m)]
        /\ requests' = [r \in Requests |-> IF Resolved(r) THEN [requests[r] EXCEPT !.status = "resolved"]
                                           ELSE requests[r]]
        /\ results' = [q \in QueryIds |-> IF q \in SubscribedIds /\ remote'.set[q] # {}
                                          THEN remote'.set[q] ELSE results[q]]
        /\ UNCHANGED <<failed, wsq>>
     \/ m.start # remote.version /\ Fails /\ UNCHANGED <<viewVars, requests>>

\* update_request: actions and error messages resolve at once, anything else
\* with the next transition.
ReceiveResponse(m) ==
  /\ m.t = "Response"
  /\ UNCHANGED viewVars
  /\ \/ /\ requests[m.req].status \in {"Requested", "Completed"} /\ requests[m.req].typ = m.typ
        /\ requests' = [requests EXCEPT ![m.req] =
                          [@ EXCEPT !.ts = m.ts,
                                    !.status = IF m.typ = "Action" \/ m.result = "ErrorMessage"
                                               THEN "resolved" ELSE "Completed"]]
        /\ UNCHANGED <<failed, wsq>>
     \/ /\ requests[m.req].status = "resolved"
        /\ Fails /\ UNCHANGED requests

\* AuthError, FatalError, and the failure of the WebSocket task.
ReceiveFailure(m) ==
  /\ m.t \in {"Error", "Close"}
  /\ Fails /\ UNCHANGED <<viewVars, requests>>

\* Fault: responses are left alone while a send is awaited.
HandleResponseAtSelect ==
  /\ ~failed /\ ~Sending /\ outgoing = <<>>
  /\ resp # <<>> /\ resp' = Tail(resp)
  /\ \/ ReceiveTransition(Head(resp)) \/ ReceiveResponse(Head(resp)) \/ ReceiveFailure(Head(resp))
  /\ UNCHANGED <<localVars, outgoing, ws, connection, up, down>>

\* handle_protocol_response, at the select of _worker_once or while a send is
\* awaited: the next outgoing message is always taken first.
HandleResponse ==
  /\ ~failed /\ (Sending \/ outgoing = <<>>)
  /\ resp # <<>> /\ resp' = Tail(resp)
  /\ \/ ReceiveTransition(Head(resp)) \/ ReceiveResponse(Head(resp)) \/ ReceiveFailure(Head(resp))
  /\ UNCHANGED <<localVars, outgoing, ws, connection, up, down>>

\* LocalSyncState::restart: the messages that bring a new session to the
\* client's query set and identity.
RestartState ==
  LET query_set_message == ModifyQuerySet(0, 1, {AddQuery(query_set[t], t) : t \in SubscribedTokens})
  IN IF auth_token = None THEN <<query_set_message>>
     ELSE <<Authenticate(0, auth_token), query_set_message>>

\* RequestManager::restart: the order in which ongoing requests are resent.
ResendOrder(a, b) ==
  requests[a].ts > requests[b].ts \/ (requests[a].ts = requests[b].ts /\ a < b)

Ongoing == {r \in Requests : requests[r].status \in {"Requested", "Completed"}}

Resends == CHOOSE s \in [1..Cardinality(Ongoing) -> Ongoing] :
             \A i, j \in DOMAIN s : i < j => ResendOrder(s[i], s[j])

RestartRequests == [i \in 1..Cardinality(Ongoing) |-> Request(requests[Resends[i]].typ, Resends[i])]

\* worker, after an error: reconnect, and resend what is ongoing behind what
\* is still queued.
Reconnect ==
  /\ failed /\ failed' = FALSE
  /\ wsq' = Append(wsq, ReconnectRequest)
  /\ outgoing' = outgoing \o RestartState \o RestartRequests
  /\ query_set_version' = 1 /\ identity_version' = IF auth_token = None THEN 0 ELSE 1
  /\ remote' = NoRemote
  /\ UNCHANGED <<query_set, num_subscribers, next_query_id, auth_token, results, requests,
                 ws, resp, connection, up, down>>

-------------------------------------------------------------------------------
(* WebSocketWorker *)

\* on_response has one place: a task that has read a second message waits
\* with it in hand, and does nothing else.
WsReady == Len(resp) < 2

\* run, on an error: tell the worker, then drain.
WsFails ==
  /\ resp' = Append(resp, CloseFrame) /\ ws' = "draining"

\* work: a message of the server, or the end of the connection.
WsReceive ==
  /\ ws = "connected" /\ WsReady /\ down # <<>> /\ down' = Tail(down)
  /\ IF Head(down) = CloseFrame THEN WsFails
     ELSE resp' = Append(resp, Head(down)) /\ UNCHANGED ws
  /\ UNCHANGED <<localVars, viewVars, requests, outgoing, failed, wsq, connection, up>>

\* run, after a failure: requests are dropped until the worker reconnects.
WsDrain ==
  /\ ws = "draining" /\ WsReady /\ wsq # <<>> /\ wsq' = Tail(wsq)
  /\ ws' = IF Head(wsq).kind = "Reconnect" THEN "connecting" ELSE "draining"
  /\ UNCHANGED <<localVars, viewVars, requests, outgoing, failed, resp, connection, up, down>>
==============================================================================
