------------------------------ MODULE MCProgress ------------------------------
(***************************************************************************)
(* The instances of Committer, SyncSession and IndexWorker in which TLC    *)
(* checks that what was begun ends.  The three models share no variable, so *)
(* Init chooses the component that moves, and each property assumes the    *)
(* fairness of its component only.                                         *)
(***************************************************************************)
EXTENDS Naturals

VARIABLE component  \* the one that moves

VARIABLES documents, max_repeatable, lease, phase, alive, lease_ts, load_ts, latest_ts,
          snapshot, persisted_max, write_log, purged_ts, pending_writes,
          persistence_writes, landed, last_assigned_ts, txn

committerVars ==
  <<documents, max_repeatable, lease, phase, alive, lease_ts, load_ts, latest_ts, snapshot,
    persisted_max, write_log, purged_ts, pending_writes, persistence_writes, landed,
    last_assigned_ts, txn>>

\* Two transactions of one key, and a take-over.
Commits == INSTANCE Committer WITH
  Keys <- {1}, Txns <- 1..2, Backends <- 1..2, MaxTs <- 2, MaxLease <- 2,
  WriteLogRetention <- 0, NoBackend <- 0, log <- write_log

VARIABLES commits, sync_worker, zombies, faults, query_set, num_subscribers, next_query_id,
          query_set_version, auth_token, identity_version, results, remote, requests,
          outgoing, failed, ws, wsq, resp, connection, up, down, restarted, callers

sessionVars ==
  <<commits, sync_worker, zombies, faults, query_set, num_subscribers, next_query_id,
    query_set_version, auth_token, identity_version, results, remote, requests, outgoing,
    failed, ws, wsq, resp, connection, up, down, restarted, callers>>

\* A query and a call beside a fault; more connections than that needs.
Session == INSTANCE SyncSession WITH
  Tokens <- {1}, QueryIds <- 1..1, Requests <- 1..1, AuthTokens <- {}, MaxTs <- 12,
  MaxWrites <- 0, MaxSendTransitions <- 1, OperationQueueSize <- 2, Outcomes <- {"Value"},
  SearchTokens <- {}, MaxFaults <- 1, RequestTypes <- {"Mutation", "Action"},
  MaxSubscribers <- 1, MaxConnections <- 9, log <- commits, worker <- sync_worker

VARIABLES index, progress, in_progress_index_ids, in_progress, pending, channel, pc,
          observed, clock, failures

workerVars ==
  <<index, progress, in_progress_index_ids, in_progress, pending, channel, pc, observed,
    clock, failures>>

\* Two indexes of one table, that wait for one slot.
Indexes == INSTANCE IndexWorker WITH
  NumIndexes <- 2, TabletOf <- <<1, 1>>, MaxConcurrency <- 1, MaxClock <- 12,
  MaxFailures <- 2

ASSUME Indexes!IndexWorkerAssumption

MCInit ==
  /\ component \in {"committer", "session", "indexes"}
  /\ Commits!Init /\ Session!Init /\ Indexes!Init

MCNext ==
  /\ component' = component
  /\ \/ component = "committer" /\ Commits!Next /\ UNCHANGED <<sessionVars, workerVars>>
     \/ component = "session" /\ Session!Next /\ UNCHANGED <<committerVars, workerVars>>
     \/ component = "indexes" /\ Indexes!Next /\ UNCHANGED <<committerVars, sessionVars>>

MCSpec == MCInit /\ [][MCNext]_<<component, committerVars, sessionVars, workerVars>>

\* Every commit that was sent is answered (Committer).
CommitsResolve == component = "committer" /\ Commits!Fairness => Commits!CommitsResolve

\* A subscribed query catches up with the last commit (SyncSession).
EventuallyFresh == component = "session" /\ Session!Fairness => Session!EventuallyFresh

\* A call ends for the application and for the client (SyncSession).
EveryCallResolves == component = "session" /\ Session!Fairness => Session!EveryCallResolves

\* No index is left behind by the worker that builds it (IndexWorker).
IndexesBackfilled == component = "indexes" /\ Indexes!Fairness => Indexes!IndexesBackfilled
===============================================================================
