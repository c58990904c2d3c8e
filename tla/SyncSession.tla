----------------------------- MODULE SyncSession -----------------------------
(***************************************************************************)
(* A Rust client and the sync workers it talks to, over connections that   *)
(* break: ConvexClient and SyncWorker composed.                            *)
(***************************************************************************)
EXTENDS SyncWorker, ConvexClient

VARIABLES
  restarted,  \* history: the client has replayed its state to a new session
  callers     \* what the application has of a call: see HandOver

systemVars == <<serverVars, clientVars, up, down>>
vars == <<systemVars, restarted, callers>>

Init ==
  /\ ServerInit /\ ClientInit /\ up = <<>> /\ down = <<>> /\ restarted = FALSE
  /\ callers = [r \in Requests |-> "none"]

-------------------------------------------------------------------------------
(* The WebSocket task at the socket *)

\* WebSocketInternal::new: a new connection, with a new session id, to a new
\* worker.
WsConnect ==
  /\ ws = "connecting" /\ WsReady /\ connection < MaxConnections
  /\ ws' = "connected" /\ connection' = connection + 1
  /\ worker' = NewWorker /\ up' = <<Connect(connection + 1)>> /\ down' = <<>>
  /\ UNCHANGED <<log, zombies, faults, localVars, viewVars, requests, outgoing, failed, wsq, resp>>

\* The server cannot be reached.
WsConnectFails ==
  /\ ws = "connecting" /\ WsReady /\ faults < MaxFaults
  /\ faults' = faults + 1 /\ WsFails
  /\ UNCHANGED <<log, worker, zombies, localVars, viewVars, requests, outgoing, failed, wsq,
                 connection, up, down>>

\* A message is written to the socket; to a closed one it is lost, or the
\* write fails.
WsSend ==
  /\ ws = "connected" /\ WsReady /\ wsq # <<>> /\ Head(wsq).kind = "Send"
  /\ wsq' = Tail(wsq)
  /\ \/ up' = (IF worker.alive THEN Append(up, Head(wsq).m) ELSE up) /\ UNCHANGED <<ws, resp>>
     \/ ~worker.alive /\ WsFails /\ UNCHANGED up
  /\ UNCHANGED <<serverVars, localVars, viewVars, requests, outgoing, failed, connection, down>>

\* The worker asks for a new connection: the open one is dropped.
WsReconnect ==
  /\ ws = "connected" /\ WsReady /\ wsq # <<>> /\ Head(wsq).kind = "Reconnect"
  /\ wsq' = Tail(wsq) /\ ws' = "connecting"
  /\ worker' = NoWorker /\ zombies' = (zombies \cup {Unanswered}) \ {<<>>}
  /\ up' = <<>> /\ down' = <<>>
  /\ UNCHANGED <<log, faults, localVars, viewVars, requests, outgoing, failed, resp, connection>>

ClientTask == Flush \/ HandleResponse \/ Reconnect
WsTask == ((WsReceive \/ WsDrain) /\ UNCHANGED serverVars) \/ WsConnect \/ WsSend \/ WsReconnect

Application ==
  \/ \E t \in Tokens : Subscribe(t) \/ Unsubscribe(t)
  \/ \E r \in Requests, typ \in RequestTypes : Call(r, typ)
  \/ \E token \in AuthTokens : SetAuth(token)

SystemNext ==
  \/ ServerNext /\ UNCHANGED clientVars
  \/ (Application \/ ClientTask) /\ UNCHANGED serverVars
  \/ WsTask \/ WsConnectFails

\* The application gets the receiver of a call's result once all messages are
\* flushed.  If the worker fails before that, the application gets an error,
\* while the request stays with the client, which sends it again.
HandOver(r) ==
  CASE callers[r] = "none" /\ requests'[r] # NoRequest -> "flushing"
    [] callers[r] = "flushing" /\ failed'              -> "error"
    [] callers[r] = "flushing" /\ AtSelect'            -> "receiver"
    [] OTHER                                           -> callers[r]

\* Only Reconnect ends a failure.
Next ==
  /\ SystemNext
  /\ restarted' = (restarted \/ (failed /\ ~failed'))
  /\ callers' = [r \in Requests |-> HandOver(r)]

Spec == Init /\ [][Next]_vars

\* The client's two tasks run, the server reads and answers, and functions and
\* query updates end.  Nothing is assumed of the application, of other clients
\* or of mutations whose connection has ended.
Fairness ==
  /\ WF_systemVars(ClientTask /\ UNCHANGED serverVars)
  /\ WF_systemVars(WsTask)
  /\ WF_systemVars(HandleMessage /\ UNCHANGED clientVars)
  /\ WF_systemVars(MutationRuns /\ UNCHANGED clientVars)
  /\ WF_systemVars(MutationResponds /\ UNCHANGED clientVars)
  /\ WF_systemVars(ActionRuns /\ UNCHANGED clientVars)
  /\ WF_systemVars(ActionResponds /\ UNCHANGED clientVars)
  /\ WF_systemVars(UpdateFinishes /\ UNCHANGED clientVars)
  /\ WF_systemVars(MessageConsumed /\ UNCHANGED clientVars)
  /\ \A q \in QueryIds : WF_systemVars(QueryInvalidated(q) /\ UNCHANGED clientVars)

FairSpec == Spec /\ Fairness

-------------------------------------------------------------------------------
(* Properties *)

\* The results the client holds from its connection are those of all its
\* queries at one timestamp and for one identity.  Until the client first
\* reconnects, that identity is its own once the server has caught up with it,
\* and a view at the client's query set version lacks none.  Afterwards neither
\* holds: messages left over from before it are sent to the new session.
ConsistentView ==
  \E who \in Identities :
    /\ \A t \in SubscribedTokens :
         remote.set[query_set[t]] \subseteq {Value(t, who, remote.version.ts)}
    /\ ~restarted =>
         /\ remote.version.identity = identity_version => who = auth_token
         /\ remote.version.query_set = query_set_version =>
              \A t \in SubscribedTokens \ SearchTokens : remote.set[query_set[t]] # {}

\* No mutation commits twice for one session, however often it is sent and
\* whether or not its connection is still there.
OncePerSession ==
  \A i, j \in DOMAIN log :
    (log[i].req # None /\ log[i].session = log[j].session /\ log[i].req = log[j].req) => i = j

\* A subscriber never gets an older result than it had, whatever connections
\* it came over.
ResultsMonotone ==
  [][\A q \in QueryIds : \A v \in results[q], w \in results'[q] : v.by = w.by => v.at <= w.at]_vars

\* Once faults are over every subscriber has the current result, for the
\* identity of the client.
EventuallyFresh ==
  <>[](\A t \in SubscribedTokens : results[query_set[t]] = {Value(t, auth_token, Len(log))})

\* Every call of a mutation or an action ends for the application, with its
\* result, over as many connections as that takes, or with the error of a
\* connection that failed while the call was first sent.  The request of a call
\* that ended in an error is sent again, and it too is answered.
EveryCallResolves ==
  \A r \in Requests :
    /\ callers[r] # "none" ~> callers[r] \in {"receiver", "error"}
    /\ callers[r] # "none" ~> requests[r].status = "resolved"
==============================================================================
