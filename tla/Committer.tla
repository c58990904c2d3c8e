------------------------------ MODULE Committer ------------------------------
(***************************************************************************)
(* The commit path of the database crate: the lease that fences leaders,   *)
(* Database::load, the single-threaded Committer with its pending writes,  *)
(* write log and snapshot manager, and the persistence writes it keeps in  *)
(* flight.                                                                 *)
(*                                                                         *)
(* A backend is one incarnation of the process: a restart is another       *)
(* member of Backends.  A dead backend's persistence writes may still      *)
(* reach the database ("late-delivered packets from an already dead        *)
(* process", postgres/src/lib.rs), so only the lease stops them.           *)
(*                                                                         *)
(* A document's value is abstracted to the timestamp of the commit that    *)
(* wrote it (0: the value present at the start); a key stands for          *)
(* whatever a read interval or a document update touches.                  *)
(***************************************************************************)
EXTENDS Naturals, Sequences

CONSTANTS
  Keys,               \* what transactions read and write
  Txns,               \* transaction attempts; a retry is a new attempt
  Backends,           \* process incarnations
  MaxTs,              \* bound: the largest timestamp the clock reaches
  MaxLease,           \* bound: the largest lease timestamp
  WriteLogRetention,  \* WRITE_LOG_MIN_RETENTION_SECS, in timestamps
  NoBackend           \* backend of a transaction that has not begun

Timestamps == 0..MaxTs

ASSUME CommitterAssumption ==
  /\ MaxTs \in Nat
  /\ MaxLease \in Nat
  /\ WriteLogRetention \in Nat
  /\ NoBackend \notin Backends

VARIABLES
  \* persistence, shared by every backend
  documents,          \* the commits in the documents log, as Commit records
  max_repeatable,     \* the MaxRepeatableTimestamp persistence global
  lease,              \* leases.ts
  \* each backend's memory
  phase,              \* how far start-up has come
  alive,              \* FALSE once the process has shut down or crashed
  lease_ts,           \* Lease::lease_ts, 0 before the lease is acquired
  load_ts,            \* the snapshot_ts of Database::load
  latest_ts,          \* SnapshotManager: timestamp of the last version
  snapshot,           \* SnapshotManager: contents of the last version
  persisted_max,      \* SnapshotManager::persisted_max_repeatable_ts
  log,                \* WriteLog::by_ts, as a set of [ts, writes]
  purged_ts,          \* WriteLog::purged_ts
  pending_writes,     \* PendingWrites::by_ts
  persistence_writes, \* FuturesOrdered of writes, as a sequence of items
  landed,             \* the items of persistence_writes already durable
  last_assigned_ts,   \* Committer::last_assigned_ts
  \* clients
  txn                 \* what the client of each transaction knows

persistenceVars == <<documents, max_repeatable, lease>>
startupVars == <<phase, lease_ts, load_ts>>
snapshotVars == <<latest_ts, snapshot, persisted_max>>
logVars == <<log, purged_ts>>
queueVars == <<pending_writes, persistence_writes, landed, last_assigned_ts>>
vars == <<persistenceVars, startupVars, alive, snapshotVars, logVars,
          queueVars, txn>>

Snapshots == [Keys -> Timestamps]

\* A validated transaction.  `view' is the snapshot it read, `acked' the
\* largest commit timestamp any client had been told of when it began.
Commits == [txn : Txns, ts : Timestamps \ {0}, begin : Timestamps,
            reads : SUBSET Keys, writes : SUBSET Keys,
            view : Snapshots, acked : Timestamps]

Items == [kind : {"commit", "bump"}, ts : Timestamps]

TxnPhases == {"idle", "running", "committing", "ok", "readonly", "failed",
              "unknown"}

\* What a client holds: the transaction it runs, then the answer it got.
ClientTxns == [phase : TxnPhases, backend : Backends \cup {NoBackend},
               begin : Timestamps, view : Snapshots,
               acked : Timestamps, ts : Timestamps]

Phases == {"off", "leased", "idle_ts", "idle_written", "snapshot_read",
           "running"}

\* Fault: the lease timestamp is not compared with the current one.
Holds_unfenced(b) == lease_ts[b] # 0

\* Lease::transact's precondition: the leases row still has our timestamp.
Holds(b) == lease_ts[b] # 0 /\ lease_ts[b] = lease

TypeOK ==
  /\ documents \in SUBSET Commits
  /\ max_repeatable \in Timestamps
  /\ lease \in 0..MaxLease
  /\ phase \in [Backends -> Phases]
  /\ alive \in [Backends -> BOOLEAN]
  /\ lease_ts \in [Backends -> 0..MaxLease]
  /\ load_ts \in [Backends -> Timestamps]
  /\ latest_ts \in [Backends -> Timestamps]
  /\ snapshot \in [Backends -> Snapshots]
  /\ persisted_max \in [Backends -> Timestamps]
  /\ log \in [Backends -> SUBSET [ts : Timestamps, writes : SUBSET Keys]]
  /\ purged_ts \in [Backends -> Timestamps]
  /\ pending_writes \in
       [Backends -> SUBSET [commit : Commits, snapshot : Snapshots]]
  /\ persistence_writes \in [Backends -> Seq(Items)]
  /\ landed \in [Backends -> SUBSET Items]
  /\ last_assigned_ts \in [Backends -> Timestamps]
  /\ txn \in [Txns -> ClientTxns]

NoWrites == [k \in Keys |-> 0]

Init ==
  /\ documents = {}
  /\ max_repeatable = 0
  /\ lease = 0
  /\ phase = [b \in Backends |-> "off"]
  /\ alive = [b \in Backends |-> TRUE]
  /\ lease_ts = [b \in Backends |-> 0]
  /\ load_ts = [b \in Backends |-> 0]
  /\ latest_ts = [b \in Backends |-> 0]
  /\ snapshot = [b \in Backends |-> NoWrites]
  /\ persisted_max = [b \in Backends |-> 0]
  /\ log = [b \in Backends |-> {}]
  /\ purged_ts = [b \in Backends |-> 0]
  /\ pending_writes = [b \in Backends |-> {}]
  /\ persistence_writes = [b \in Backends |-> <<>>]
  /\ landed = [b \in Backends |-> {}]
  /\ last_assigned_ts = [b \in Backends |-> 0]
  /\ txn = [t \in Txns |-> [phase |-> "idle", backend |-> NoBackend,
                            begin |-> 0, view |-> NoWrites, acked |-> 0,
                            ts |-> 0]]

-----------------------------------------------------------------------------
(* Reads of persistence.                                                   *)

\* v is the version of k that a read of the documents log at ts returns.
IsVersionAt(k, ts, v) ==
  /\ v <= ts
  /\ v = 0 \/ \E d \in documents : d.ts = v /\ k \in d.writes
  /\ \A d \in documents : v < d.ts /\ d.ts <= ts => k \notin d.writes

\* PersistenceReader::max_ts: the largest of the last committed document's
\* timestamp and the MaxRepeatableTimestamp global.
IsMaxTs(ts) ==
  /\ max_repeatable <= ts
  /\ \A d \in documents : d.ts <= ts
  /\ ts = max_repeatable \/ \E d \in documents : d.ts = ts

\* A timestamp some client has been told its commit has.
Acked(ts) == ts = 0 \/ \E t \in Txns : txn[t].phase = "ok" /\ txn[t].ts = ts

\* The process goes away: commits in the queue have an unknown outcome.
Shutdown(b) ==
  /\ alive' = [alive EXCEPT ![b] = FALSE]
  /\ txn' = [t \in Txns |->
               IF txn[t].backend = b /\ txn[t].phase = "running"
               THEN [txn[t] EXCEPT !.phase = "failed"]
               ELSE IF txn[t].backend = b /\ txn[t].phase = "committing"
               THEN [txn[t] EXCEPT !.phase = "unknown"]
               ELSE txn[t]]

-----------------------------------------------------------------------------
(* Start-up: Lease::acquire, then Database::load.                          *)

\* UPDATE leases SET ts=$1 WHERE ts<$1; the caller's clock gives $1.
AcquireLease(b, ts) ==
  /\ phase[b] = "off" /\ alive[b]
  /\ lease < ts
  /\ lease' = ts
  /\ lease_ts' = [lease_ts EXCEPT ![b] = ts]
  /\ phase' = [phase EXCEPT ![b] = "leased"]
  /\ UNCHANGED <<documents, max_repeatable, alive, load_ts, snapshotVars,
                 logVars, queueVars, txn>>

\* No row was updated: "Already acquired with higher timestamp".
LeaseRefused(b, ts) ==
  /\ phase[b] = "off" /\ alive[b]
  /\ ~(lease < ts)
  /\ Shutdown(b)
  /\ UNCHANGED <<persistenceVars, startupVars, snapshotVars, logVars,
                 queueVars>>

\* new_idle_repeatable_ts, first half: max_ts is read and raised to the clock.
IdleRepeatableTs(b) ==
  /\ phase[b] = "leased" /\ alive[b]
  /\ \E now \in Timestamps :
       /\ max_repeatable <= now
       /\ \A d \in documents : d.ts <= now
       /\ load_ts' = [load_ts EXCEPT ![b] = now]
  /\ phase' = [phase EXCEPT ![b] = "idle_ts"]
  /\ UNCHANGED <<persistenceVars, alive, lease_ts, snapshotVars, logVars,
                 queueVars, txn>>

\* new_idle_repeatable_ts, second half: the write of MaxRepeatableTimestamp,
\* a lease transaction.  It may land after the process died.
WriteIdleRepeatableTs(b) ==
  /\ phase[b] = "idle_ts" /\ Holds(b)
  /\ max_repeatable' = load_ts[b]
  /\ phase' = [phase EXCEPT ![b] = "idle_written"]
  /\ UNCHANGED <<documents, lease, alive, lease_ts, load_ts, snapshotVars,
                 logVars, queueVars, txn>>

\* DatabaseSnapshot::load at snapshot_ts.
LoadSnapshot(b) ==
  /\ phase[b] = "idle_written" /\ alive[b]
  /\ \E s \in Snapshots :
       /\ \A k \in Keys : IsVersionAt(k, load_ts[b], s[k])
       /\ snapshot' = [snapshot EXCEPT ![b] = s]
  /\ phase' = [phase EXCEPT ![b] = "snapshot_read"]
  /\ UNCHANGED <<persistenceVars, alive, lease_ts, load_ts, latest_ts,
                 persisted_max, logVars, queueVars, txn>>

\* The rest of Database::load: max_ts must still be snapshot_ts, then the
\* snapshot manager, the write log and the committer start from it.
FinishLoad(b) ==
  /\ phase[b] = "snapshot_read" /\ alive[b]
  /\ IsMaxTs(load_ts[b])
  /\ phase' = [phase EXCEPT ![b] = "running"]
  /\ latest_ts' = [latest_ts EXCEPT ![b] = load_ts[b]]
  /\ persisted_max' = [persisted_max EXCEPT ![b] = load_ts[b]]
  /\ purged_ts' = [purged_ts EXCEPT ![b] = load_ts[b]]
  /\ UNCHANGED <<persistenceVars, alive, lease_ts, load_ts, snapshot, log,
                 queueVars, txn>>

\* "race while loading DatabaseSnapshot": start-up fails.
LoadRace(b) ==
  /\ phase[b] = "snapshot_read" /\ alive[b]
  /\ ~IsMaxTs(load_ts[b])
  /\ Shutdown(b)
  /\ UNCHANGED <<persistenceVars, startupVars, snapshotVars, logVars,
                 queueVars>>

-----------------------------------------------------------------------------
(* Transactions and the committer.                                         *)

\* The backend serves requests.
Running(b) == phase[b] = "running" /\ alive[b]

\* Database::begin: read at the latest snapshot.  A transaction may stay
\* open for any time, so beginning at an older retained timestamp
\* (begin_with_ts) adds nothing to what can be committed.
Begin(t, b) ==
  /\ Running(b)
  /\ txn[t].phase = "idle"
  /\ \E acked \in Timestamps :
       /\ Acked(acked)
       /\ \A ts \in Timestamps : Acked(ts) => ts <= acked
       /\ txn' = [txn EXCEPT ![t] = [phase |-> "running", backend |-> b,
                                     begin |-> latest_ts[b],
                                     view |-> snapshot[b],
                                     acked |-> acked, ts |-> 0]]
  /\ UNCHANGED <<persistenceVars, startupVars, alive, snapshotVars, logVars,
                 queueVars>>

\* Committer::next_commit_ts: max(latest + 1, clock, last_assigned + 1).
next_commit_ts(b) ==
  {ts \in Timestamps : latest_ts[b] < ts /\ last_assigned_ts[b] < ts}

\* Fault: a transaction older than the log's start is not refused.
LogIsStale_no_retention(b, reads, reads_ts, ts) ==
  \E e \in log[b] :
    reads_ts < e.ts /\ e.ts <= ts /\ e.writes \cap reads # {}

\* WriteLog::is_stale over the log, and its out-of-retention error.
LogIsStale(b, reads, reads_ts, ts) ==
  \/ reads_ts < purged_ts[b]
  \/ \E e \in log[b] :
       reads_ts < e.ts /\ e.ts <= ts /\ e.writes \cap reads # {}

\* PendingWrites::is_stale.
PendingIsStale(b, reads, reads_ts, ts) ==
  \E p \in pending_writes[b] :
    /\ reads_ts < p.commit.ts /\ p.commit.ts <= ts
    /\ p.commit.writes \cap reads # {}

\* Committer::commit_has_conflict.
commit_has_conflict(b, reads, reads_ts, ts) ==
  \/ LogIsStale(b, reads, reads_ts, ts)
  \/ PendingIsStale(b, reads, reads_ts, ts)

\* The snapshot compute_writes starts from: that of the last pending write,
\* else the snapshot manager's.  One element.
LatestPendingSnapshot(b) ==
  IF pending_writes[b] = {}
  THEN {snapshot[b]}
  ELSE {p.snapshot : p \in
          {q \in pending_writes[b] :
             \A r \in pending_writes[b] : r.commit.ts <= q.commit.ts}}

\* Snapshot::update for every document the transaction writes.
compute_writes(base, writes, ts) ==
  [k \in Keys |-> IF k \in writes THEN ts ELSE base[k]]

\* start_commit's early return for a read-only transaction.
ReadOnlyCommit(t) ==
  /\ txn[t].phase = "running"
  /\ txn' = [txn EXCEPT ![t].phase = "readonly"]
  /\ UNCHANGED <<persistenceVars, startupVars, alive, snapshotVars, logVars,
                 queueVars>>

\* start_commit of a transaction with writes, up to the conflict check.
\* Every document written has been read (Writes::update, register_new_id),
\* so writes \subseteq reads.  validate_commit takes the commit timestamp
\* first: it is used up even when the check fails.
ValidateCommit(t, reads, writes, ts) ==
  /\ txn[t].phase = "running"
  /\ writes # {} /\ writes \subseteq reads
  /\ ts \in next_commit_ts(txn[t].backend)
  /\ last_assigned_ts' = [last_assigned_ts EXCEPT ![txn[t].backend] = ts]

\* The check fails: the client gets the error.
RejectCommit(t, reads, writes, ts) ==
  /\ ValidateCommit(t, reads, writes, ts)
  /\ commit_has_conflict(txn[t].backend, reads, txn[t].begin, ts)
  /\ txn' = [txn EXCEPT ![t].phase = "failed"]
  /\ UNCHANGED <<persistenceVars, startupVars, alive, snapshotVars, logVars,
                 pending_writes, persistence_writes, landed>>

PendingWrite(t, reads, writes, ts, base) ==
  [commit |-> [txn |-> t, ts |-> ts, begin |-> txn[t].begin,
               reads |-> reads, writes |-> writes,
               view |-> txn[t].view, acked |-> txn[t].acked],
   snapshot |-> compute_writes(base, writes, ts)]

\* It passes: the commit becomes pending and its persistence write starts.
StartCommit(t, reads, writes, ts) ==
  LET b == txn[t].backend IN
  /\ ValidateCommit(t, reads, writes, ts)
  /\ ~commit_has_conflict(b, reads, txn[t].begin, ts)
  /\ txn' = [txn EXCEPT ![t].phase = "committing"]
  /\ \E base \in LatestPendingSnapshot(b) :
       pending_writes' = [pending_writes EXCEPT ![b] =
         @ \cup {PendingWrite(t, reads, writes, ts, base)}]
  /\ persistence_writes' = [persistence_writes EXCEPT ![b] =
       Append(@, [kind |-> "commit", ts |-> ts])]
  /\ UNCHANGED <<persistenceVars, startupVars, alive, snapshotVars, logVars,
                 landed>>

\* One bump at a time: next_bump_wait is None until it is published.
BumpOngoing(b) ==
  \E i \in 1..Len(persistence_writes[b]) :
    persistence_writes[b][i].kind = "bump"

\* Fault: the bump covers the first pending write.
next_max_repeatable_ts_covers_pending(b) ==
  IF pending_writes[b] = {}
  THEN {[ts |-> ts, assigned |-> ts] : ts \in next_commit_ts(b)}
  ELSE {[ts |-> p.commit.ts, assigned |-> last_assigned_ts[b]] :
          p \in {q \in pending_writes[b] :
                   \A r \in pending_writes[b] : q.commit.ts <= r.commit.ts}}

\* Committer::next_max_repeatable_ts, with the last_assigned_ts it leaves.
next_max_repeatable_ts(b) ==
  IF pending_writes[b] = {}
  THEN {[ts |-> ts, assigned |-> ts] : ts \in next_commit_ts(b)}
  ELSE {[ts |-> p.commit.ts - 1, assigned |-> last_assigned_ts[b]] :
          p \in {q \in pending_writes[b] :
                   \A r \in pending_writes[b] : q.commit.ts <= r.commit.ts}}

\* Committer::bump_max_repeatable_ts, when the bump timer fires.
BumpMaxRepeatableTs(b) ==
  /\ Running(b)
  /\ ~BumpOngoing(b)
  /\ \E n \in next_max_repeatable_ts(b) :
       /\ last_assigned_ts' = [last_assigned_ts EXCEPT ![b] = n.assigned]
       /\ persistence_writes' =
            [persistence_writes EXCEPT ![b] =
               Append(@, [kind |-> "bump", ts |-> n.ts])]
  /\ UNCHANGED <<persistenceVars, startupVars, alive, snapshotVars, logVars,
                 pending_writes, landed, txn>>

-----------------------------------------------------------------------------
(* Persistence writes: they run concurrently and land in any order, each a *)
(* database transaction that commits only while the lease is held.         *)

\* The write is queued and not durable yet.
InFlight(b, item) ==
  /\ \E i \in 1..Len(persistence_writes[b]) : persistence_writes[b][i] = item
  /\ item \notin landed[b]

\* write_to_persistence: Persistence::write inside Lease::transact.
LandCommit(b, p) ==
  LET item == [kind |-> "commit", ts |-> p.commit.ts] IN
  /\ InFlight(b, item)
  /\ Holds(b)
  /\ documents' = documents \cup {p.commit}
  /\ landed' = [landed EXCEPT ![b] = @ \cup {item}]
  /\ UNCHANGED <<max_repeatable, lease, startupVars, alive, snapshotVars,
                 logVars, pending_writes, persistence_writes,
                 last_assigned_ts, txn>>

\* write_persistence_global(MaxRepeatableTimestamp) of a bump.
LandBump(b, ts) ==
  LET item == [kind |-> "bump", ts |-> ts] IN
  /\ InFlight(b, item)
  /\ Holds(b)
  /\ max_repeatable' = ts
  /\ landed' = [landed EXCEPT ![b] = @ \cup {item}]
  /\ UNCHANGED <<documents, lease, startupVars, alive, snapshotVars, logVars,
                 pending_writes, persistence_writes, last_assigned_ts, txn>>

\* Fault: publication does not wait for the persistence write.
HeadLanded_unwritten(b) == persistence_writes[b] # <<>>

\* The head of FuturesOrdered has succeeded.
HeadLanded(b) ==
  /\ persistence_writes[b] # <<>>
  /\ Head(persistence_writes[b]) \in landed[b]

\* Drop the head of the queue.
PopHead(b) ==
  /\ persistence_writes' =
       [persistence_writes EXCEPT ![b] = Tail(persistence_writes[b])]
  /\ landed' = [landed EXCEPT ![b] = @ \ {Head(persistence_writes[b])}]

\* Committer::publish_commit: the first pending write moves to the write log
\* and the snapshot manager, then the client hears of it.
PublishCommit(b, p) ==
  /\ Running(b)
  /\ HeadLanded(b) /\ Head(persistence_writes[b]).kind = "commit"
  /\ \A q \in pending_writes[b] : p.commit.ts <= q.commit.ts
  /\ PopHead(b)
  /\ pending_writes' = [pending_writes EXCEPT ![b] = @ \ {p}]
  /\ log' = [log EXCEPT ![b] = @ \cup
               {[ts |-> p.commit.ts, writes |-> p.commit.writes]}]
  /\ latest_ts' = [latest_ts EXCEPT ![b] = p.commit.ts]
  /\ snapshot' = [snapshot EXCEPT ![b] = p.snapshot]
  /\ txn' = [txn EXCEPT ![p.commit.txn].phase = "ok",
                        ![p.commit.txn].ts = p.commit.ts]
  /\ UNCHANGED <<persistenceVars, startupVars, alive, persisted_max,
                 purged_ts, last_assigned_ts>>

\* Committer::publish_max_repeatable_ts.
PublishMaxRepeatableTs(b) ==
  LET ts == Head(persistence_writes[b]).ts IN
  /\ Running(b)
  /\ HeadLanded(b) /\ Head(persistence_writes[b]).kind = "bump"
  /\ PopHead(b)
  /\ persisted_max' = [persisted_max EXCEPT ![b] = ts]
  /\ \/ /\ latest_ts[b] < ts
        /\ latest_ts' = [latest_ts EXCEPT ![b] = ts]
        /\ log' = [log EXCEPT ![b] = @ \cup {[ts |-> ts, writes |-> {}]}]
     \/ /\ ~(latest_ts[b] < ts)
        /\ UNCHANGED <<latest_ts, log>>
  /\ UNCHANGED <<persistenceVars, startupVars, alive, snapshot, purged_ts,
                 pending_writes, last_assigned_ts, txn>>

\* WriteLogManager::enforce_retention_policy, one entry: the oldest entry
\* goes once it is more than the minimum retention behind the log's end.
TrimLog(b) ==
  /\ Running(b)
  /\ \E e \in log[b] :
       /\ \A f \in log[b] : e.ts <= f.ts
       /\ \E f \in log[b] : e.ts + WriteLogRetention < f.ts
       /\ log' = [log EXCEPT ![b] = @ \ {e}]
       /\ purged_ts' = [purged_ts EXCEPT ![b] = e.ts]
  /\ UNCHANGED <<persistenceVars, startupVars, alive, snapshotVars,
                 queueVars, txn>>

-----------------------------------------------------------------------------
(* Failures.                                                               *)

\* Fault: a commit that loses the lease is retried instead of shutting down.
LeaseLost_only_at_startup(b) ==
  /\ alive[b] /\ lease_ts[b] # 0 /\ ~Holds(b)
  /\ phase[b] = "idle_ts"
  /\ Shutdown(b)
  /\ UNCHANGED <<persistenceVars, startupVars, snapshotVars, logVars,
                 queueVars>>

\* Lease::transact finds another lease timestamp and signals shutdown.
LeaseLost(b) ==
  /\ alive[b] /\ lease_ts[b] # 0 /\ ~Holds(b)
  /\ \/ phase[b] = "idle_ts"
     \/ \E i \in 1..Len(persistence_writes[b]) :
          persistence_writes[b][i] \notin landed[b]
  /\ Shutdown(b)
  /\ UNCHANGED <<persistenceVars, startupVars, snapshotVars, logVars,
                 queueVars>>

\* The process crashes, or a persistence write returns an error (timed out
\* writes that did land make their retry fail): the committer stops.
Crash(b) ==
  /\ alive[b] /\ phase[b] # "off"
  /\ Shutdown(b)
  /\ UNCHANGED <<persistenceVars, startupVars, snapshotVars, logVars,
                 queueVars>>

-----------------------------------------------------------------------------
Next ==
  \/ \E b \in Backends :
       \/ \E ts \in 1..MaxLease : AcquireLease(b, ts) \/ LeaseRefused(b, ts)
       \/ IdleRepeatableTs(b)
       \/ WriteIdleRepeatableTs(b)
       \/ LoadSnapshot(b)
       \/ FinishLoad(b)
       \/ LoadRace(b)
       \/ BumpMaxRepeatableTs(b)
       \/ \E p \in pending_writes[b] : LandCommit(b, p)
       \/ \E ts \in Timestamps : LandBump(b, ts)
       \/ \E p \in pending_writes[b] : PublishCommit(b, p)
       \/ PublishMaxRepeatableTs(b)
       \/ TrimLog(b)
       \/ LeaseLost(b)
       \/ Crash(b)
  \/ \E t \in Txns, b \in Backends : Begin(t, b)
  \/ \E t \in Txns : ReadOnlyCommit(t)
  \/ \E t \in Txns, reads, writes \in SUBSET Keys, ts \in Timestamps :
       \/ RejectCommit(t, reads, writes, ts)
       \/ StartCommit(t, reads, writes, ts)

Spec == Init /\ [][Next]_vars

-----------------------------------------------------------------------------
(* Properties.                                                             *)

\* Serializability of what is durable, whatever subset of the concurrent
\* persistence writes landed, in whatever order, before a crash: each
\* transaction in the documents log read, for every key of its read set, the
\* version that was current just before its own commit timestamp
\* (commit_has_conflict, PendingWrites: "any subset of them may be written
\* to persistence, in any order").
Serializable ==
  \A d \in documents : \A k \in d.reads :
    IsVersionAt(k, d.ts - 1, d.view[k])

\* Repeatable reads: once a timestamp is readable, because it is at most
\* MaxRepeatableTimestamp (followers) or some backend's latest_ts (that
\* backend's transactions, also a deposed leader's), no commit ever lands at
\* or below it (RepeatableTimestamp, next_max_repeatable_ts).
RepeatableReads ==
  [][\A d \in documents' \ documents :
       /\ max_repeatable < d.ts
       /\ \A b \in Backends : phase[b] = "running" => latest_ts[b] < d.ts]_vars

\* The MaxRepeatableTimestamp global never goes backward, across overlapping
\* bumps, crashes and leader changes ("Avoid parallel bumps in case they
\* commit out of order and regress the repeatable timestamp").
MaxRepeatableMonotone ==
  [][max_repeatable <= max_repeatable']_max_repeatable

\* The snapshot a backend serves, computed in advance from the pending
\* writes before it, is what persistence holds at the same timestamp, for
\* the latest version and for every snapshot a transaction still reads from.
SnapshotsFaithful ==
  /\ \A b \in Backends : phase[b] = "running" =>
       \A k \in Keys : IsVersionAt(k, latest_ts[b], snapshot[b][k])
  /\ \A t \in Txns : txn[t].phase \in {"running", "readonly"} =>
       \A k \in Keys : IsVersionAt(k, txn[t].begin, txn[t].view[k])

\* A client told that its commit succeeded has a durable commit at that
\* timestamp, also after the process that said so is gone; one told that it
\* failed, and so free to retry, has none (go: the result is sent after
\* publish_commit).
OutcomeTruthful ==
  \A t \in Txns :
    /\ txn[t].phase = "ok" =>
         \E d \in documents : d.txn = t /\ d.ts = txn[t].ts
    /\ txn[t].phase = "failed" => \A d \in documents : d.txn # t

\* Real-time order: a durable transaction's snapshot includes every commit
\* any client had been told of before it began, through leader changes and
\* with a deposed leader still running (Database::load, Lease::transact).
RealTimeOrder ==
  \A d \in documents : d.acked <= d.begin

\* The assertions of the publication path never fail: the head of the
\* ordered persistence writes is the first pending write (publish_commit
\* panics "commits out of order"), its timestamp is above the write log's
\* and the snapshot manager's (append, push), a bump does not move
\* persisted_max_repeatable_ts backward or past latest_ts.
AssertionsHold ==
  \A b \in Backends :
    /\ persisted_max[b] <= latest_ts[b]
    /\ persistence_writes[b] # <<>> =>
         LET head == Head(persistence_writes[b]) IN
         /\ head.kind = "commit" =>
              /\ \E p \in pending_writes[b] : p.commit.ts = head.ts
              /\ \A p \in pending_writes[b] : head.ts <= p.commit.ts
              /\ latest_ts[b] < head.ts /\ purged_ts[b] < head.ts
              /\ \A e \in log[b] : e.ts < head.ts
         /\ head.kind = "bump" =>
              /\ persisted_max[b] <= head.ts
              /\ latest_ts[b] < head.ts => \A e \in log[b] : e.ts < head.ts

Store == INSTANCE RepeatableStore

\* The commit path implements the abstract store.
ImplementsStore == Store!Spec

\* What the code's scheduling gives: the committer loop runs, persistence
\* writes that can commit do, a lost lease is noticed.  Clients, crashes,
\* start-up, bumps and trimming are not assumed to happen.
Fairness ==
  \A b \in Backends :
    /\ WF_vars(\E p \in pending_writes[b] : LandCommit(b, p))
    /\ WF_vars(\E ts \in Timestamps : LandBump(b, ts))
    /\ WF_vars(\E p \in pending_writes[b] : PublishCommit(b, p))
    /\ WF_vars(PublishMaxRepeatableTs(b))
    /\ WF_vars(LeaseLost(b))

FairSpec == Spec /\ Fairness

\* Every client that sent a commit hears of it: success, or an unknown
\* outcome from a shutdown; a bump in the queue, a write stuck behind another
\* or a stolen lease never leaves it waiting (persistence_writes, transact).
CommitsResolve ==
  \A t \in Txns : txn[t].phase = "committing" ~>
                    txn[t].phase \in {"ok", "unknown"}

==============================================================================
