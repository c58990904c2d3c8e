-------------------------- MODULE CommitterInvariant --------------------------
(***************************************************************************)
(* The inductive invariant of Committer, part by part.  The parts speak of *)
(* every backend, running or deposed, dead or alive; the ones that start   *)
(* with Holder only of the backend whose lease timestamp is current, the   *)
(* only one whose writes can still land.                                   *)
(***************************************************************************)
EXTENDS Committer

CommitItem(ts) == [kind |-> "commit", ts |-> ts]

-----------------------------------------------------------------------------
(* One backend by itself.                                                  *)

\* A backend that has not finished loading has no committer yet.
StartInv ==
  \A b \in Backends : phase[b] # "running" =>
    /\ pending_writes[b] = {} /\ persistence_writes[b] = <<>>
    /\ landed[b] = {} /\ log[b] = {} /\ last_assigned_ts[b] = 0
    /\ latest_ts[b] = 0 /\ persisted_max[b] = 0 /\ purged_ts[b] = 0

\* The queue and the pending writes describe the same commits, in order.
QueueOK(b) ==
  LET queue == persistence_writes[b] IN
  /\ \A x \in landed[b] : \E i \in 1..Len(queue) : queue[i] = x
  /\ \A p \in pending_writes[b] :
       \E i \in 1..Len(queue) : queue[i] = CommitItem(p.commit.ts)
  /\ \A i \in 1..Len(queue) : queue[i].kind = "commit" =>
       \E p \in pending_writes[b] : p.commit.ts = queue[i].ts
  /\ \A p, q \in pending_writes[b] : p.commit.ts = q.commit.ts => p = q
  /\ \A i, j \in 1..Len(queue) :
       /\ i < j /\ queue[i].kind = "commit" /\ queue[j].kind = "commit"
            => queue[i].ts < queue[j].ts
       /\ queue[i].kind = "bump" /\ queue[j].kind = "bump" => i = j

QueueInv == \A b \in Backends : QueueOK(b)

\* How the timestamps a backend keeps in memory are ordered.
OrderOK(b) ==
  LET queue == persistence_writes[b] IN
  /\ persisted_max[b] <= latest_ts[b]
  /\ purged_ts[b] <= latest_ts[b]
  /\ phase[b] = "running" => load_ts[b] <= latest_ts[b]
  /\ \A e \in log[b] : e.ts <= latest_ts[b]
  /\ \A p \in pending_writes[b] :
       /\ latest_ts[b] < p.commit.ts
       /\ p.commit.ts <= last_assigned_ts[b]
       /\ p.commit.begin <= latest_ts[b]
  /\ \A i \in 1..Len(queue) : queue[i].kind = "bump" =>
       /\ persisted_max[b] <= queue[i].ts
       /\ queue[i].ts <= last_assigned_ts[b]
       /\ \A p \in pending_writes[b] : queue[i].ts < p.commit.ts

OrderInv == \A b \in Backends : OrderOK(b)

\* The backend of an open transaction serves, and began it at a timestamp it
\* has published.
OpenInv ==
  \A t \in Txns :
    /\ txn[t].phase \in {"running", "readonly"} =>
         /\ txn[t].backend \in Backends
         /\ phase[txn[t].backend] = "running"
         /\ txn[t].begin <= latest_ts[txn[t].backend]
    /\ txn[t].phase \in {"running", "committing"} =>
         txn[t].backend \in Backends /\ alive[txn[t].backend]

\* The part that each backend keeps by itself, whatever the others do.
LocalInv ==
  /\ TypeOK
  /\ StartInv
  /\ QueueInv
  /\ OrderInv
  /\ OpenInv

-----------------------------------------------------------------------------
(* Backends and persistence: fencing.                                      *)

\* Lease timestamps are unique and the current one is the largest.
LeaseInv ==
  /\ \A b \in Backends : lease_ts[b] <= lease
  /\ \A b \in Backends : phase[b] = "off" <=> lease_ts[b] = 0
  /\ \A a, b \in Backends : lease_ts[a] = lease_ts[b] /\ lease_ts[a] # 0
                              => a = b

\* The holder: while it loads, nothing is above its load timestamp; once it
\* runs, the repeatable timestamp is the one it published or is publishing.
HolderInv ==
  \A h \in Backends : Holds(h) =>
    /\ phase[h] \in {"idle_ts", "idle_written", "snapshot_read"} =>
         /\ max_repeatable <= load_ts[h]
         /\ \A d \in documents : d.ts <= load_ts[h]
    /\ phase[h] = "running" =>
         \/ max_repeatable <= persisted_max[h]
         \/ \E x \in landed[h] : x.kind = "bump" /\ max_repeatable = x.ts

\* What has landed is durable.
LandedInv ==
  \A b \in Backends :
    /\ \A p \in pending_writes[b] :
         CommitItem(p.commit.ts) \in landed[b] => p.commit \in documents
    /\ \A x \in landed[b] : x.kind = "bump" => x.ts <= max_repeatable
    /\ phase[b] \in {"idle_written", "snapshot_read"} =>
         load_ts[b] <= max_repeatable
    /\ phase[b] = "running" =>
         latest_ts[b] <= max_repeatable \/
           \E d \in documents : latest_ts[b] <= d.ts

\* What a deposed backend may still publish is below where the current
\* holder's committer started.
DeposedInv ==
  \A h, b \in Backends : Holds(h) /\ phase[h] # "leased" /\ h # b =>
    /\ phase[b] \in {"idle_written", "snapshot_read"} =>
         load_ts[b] <= load_ts[h]
    /\ phase[b] = "running" =>
         /\ latest_ts[b] <= load_ts[h]
         /\ \A x \in landed[b] : x.ts <= load_ts[h]

\* Every durable commit is published, or landed from this backend's own
\* queue, or, if the backend was deposed, above all it can still publish.
PublishedInv ==
  \A b \in Backends : phase[b] = "running" =>
    \A d \in documents :
      \/ d.ts <= latest_ts[b]
      \/ \E p \in pending_writes[b] :
           p.commit = d /\ CommitItem(d.ts) \in landed[b]
      \/ ~Holds(b) /\ \A x \in landed[b] : x.ts < d.ts

\* What the lease gives.
FenceInv ==
  /\ LeaseInv
  /\ HolderInv
  /\ LandedInv
  /\ DeposedInv
  /\ PublishedInv

-----------------------------------------------------------------------------
(* What is read and committed.                                             *)

\* The write log has every durable commit of its window, and nothing from
\* before it.
LogInv ==
  \A b \in Backends :
    /\ \A e \in log[b] : purged_ts[b] <= e.ts
    /\ phase[b] = "running" =>
         \A d \in documents : purged_ts[b] < d.ts /\ d.ts <= latest_ts[b] =>
           \E e \in log[b] : e.ts = d.ts /\ e.writes = d.writes

\* The pending writes of the holder do not conflict with one another or
\* with what is durable.
HolderConflictInv ==
  \A h \in Backends : Holds(h) =>
    \A p \in pending_writes[h] :
      /\ \A d \in documents :
           p.commit.begin < d.ts /\ d.ts < p.commit.ts =>
             d.writes \cap p.commit.reads = {}
      /\ \A q \in pending_writes[h] :
           p.commit.begin < q.commit.ts /\ q.commit.ts < p.commit.ts =>
             q.commit.writes \cap p.commit.reads = {}

\* Every snapshot in memory is what persistence holds at its timestamp.
SnapshotInv ==
  /\ \A b \in Backends, k \in Keys :
       /\ phase[b] = "running" =>
            IsVersionAt(k, latest_ts[b], snapshot[b][k])
       /\ phase[b] = "snapshot_read" =>
            IsVersionAt(k, load_ts[b], snapshot[b][k])
  /\ \A b \in Backends : \A p \in pending_writes[b], k \in Keys :
       IsVersionAt(k, p.commit.begin, p.commit.view[k])

\* v is the version of k once the pending commits up to ts are published.
PendingVersion(b, k, ts, v) ==
  \/ /\ v = snapshot[b][k]
     /\ \A q \in pending_writes[b] :
          q.commit.ts <= ts => k \notin q.commit.writes
  \/ \E q \in pending_writes[b] :
       /\ q.commit.ts = v /\ q.commit.ts <= ts /\ k \in q.commit.writes
       /\ \A r \in pending_writes[b] :
            q.commit.ts < r.commit.ts /\ r.commit.ts <= ts =>
              k \notin r.commit.writes

\* A pending snapshot has the writes of the pending commits up to its own.
PendingSnapshotInv ==
  \A b \in Backends : \A p \in pending_writes[b], k \in Keys :
    PendingVersion(b, k, p.commit.ts, p.snapshot[k])

\* So has the snapshot of an open transaction.
ViewInv ==
  \A t \in Txns : txn[t].phase \in {"running", "readonly"} =>
    \A k \in Keys : IsVersionAt(k, txn[t].begin, txn[t].view[k])

\* What is read and committed is serializable.
SerialInv ==
  /\ LogInv
  /\ HolderConflictInv
  /\ SnapshotInv
  /\ PendingSnapshotInv
  /\ ViewInv
  /\ Serializable

-----------------------------------------------------------------------------
(* What clients are told.                                                  *)

\* What the backend of a commit, and persistence, know of its client.
TxnInv ==
  /\ \A b \in Backends : \A p \in pending_writes[b] :
       /\ txn[p.commit.txn].backend = b
       /\ txn[p.commit.txn].phase \in {"committing", "unknown"}
       /\ alive[b] => txn[p.commit.txn].phase = "committing"
       /\ \A q \in pending_writes[b] : p.commit.txn = q.commit.txn => p = q
  /\ \A d \in documents :
       txn[d.txn].phase \in {"committing", "ok", "unknown"}

\* Acknowledged commits are visible to every transaction whose commit can
\* still land.
AckedInv ==
  /\ \A t \in Txns : txn[t].phase = "ok" => \A h \in Backends : Holds(h) =>
       /\ phase[h] = "running" => txn[t].ts <= latest_ts[h]
       /\ phase[h] \in {"idle_ts", "idle_written", "snapshot_read"} =>
            txn[t].ts <= load_ts[h]
  /\ \A t \in Txns :
       txn[t].phase = "running" /\ Holds(txn[t].backend) =>
         txn[t].acked <= txn[t].begin
  /\ \A h \in Backends : Holds(h) => \A p \in pending_writes[h] :
       p.commit.acked <= p.commit.begin

ClientInv ==
  /\ TxnInv
  /\ AckedInv
  /\ OutcomeTruthful
  /\ RealTimeOrder

Inv == LocalInv /\ FenceInv /\ SerialInv /\ ClientInv

===============================================================================
