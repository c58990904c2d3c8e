--------------------------- MODULE CommitterProofs ---------------------------
(***************************************************************************)
(* Type correctness; what each backend keeps by itself: its queue of       *)
(* persistence writes, the pending writes behind it and the timestamps in  *)
(* its memory; and what the lease gives: the writes of a deposed backend   *)
(* never land, so that a timestamp somebody may read at is final.          *)
(*                                                                         *)
(* Then serializability: the write log, the pending writes and the         *)
(* snapshots computed in advance tell a leader all that conflict checking  *)
(* needs.  And what clients are told: outcomes are true, and what one      *)
(* client has heard of is in the snapshot of every transaction that begins *)
(* later and whose commit becomes durable.                                 *)
(***************************************************************************)
EXTENDS CommitterInvariant, TLAPS

USE CommitterAssumption

-----------------------------------------------------------------------------
(* Type correctness, for every value of the constants.                     *)

\* Every snapshot the committer computes is a snapshot.
LEMMA ComputeWritesType ==
  ASSUME NEW base \in Snapshots, NEW writes, NEW ts \in Timestamps
  PROVE  compute_writes(base, writes, ts) \in Snapshots
BY DEF compute_writes, Snapshots

LEMMA LatestPendingType ==
  ASSUME TypeOK, NEW b \in Backends, NEW base \in LatestPendingSnapshot(b)
  PROVE  base \in Snapshots
BY DEF TypeOK, LatestPendingSnapshot

\* A shutdown changes only the liveness flag and what clients know.
LEMMA ShutdownType ==
  ASSUME TypeOK, NEW b \in Backends, Shutdown(b)
  PROVE  /\ alive' \in [Backends -> BOOLEAN]
         /\ txn' \in [Txns -> ClientTxns]
<1>1. alive' \in [Backends -> BOOLEAN]
  BY Zenon DEF TypeOK, Shutdown
<1>2. ASSUME NEW t \in Txns
      PROVE  /\ txn[t] \in ClientTxns
             /\ [txn[t] EXCEPT !.phase = "failed"] \in ClientTxns
             /\ [txn[t] EXCEPT !.phase = "unknown"] \in ClientTxns
  <2>1. txn[t] \in ClientTxns
    BY DEF TypeOK
  <2> QED
    BY <2>1 DEF ClientTxns, TxnPhases
<1>3. txn' \in [Txns -> ClientTxns]
  BY <1>2 DEF Shutdown
<1> QED
  BY <1>1, <1>3

LEMMA InitType == Init => TypeOK
<1> SUFFICES ASSUME Init PROVE TypeOK
  OBVIOUS
<1>1. 0 \in Timestamps /\ NoWrites \in Snapshots
  BY DEF Timestamps, Snapshots, NoWrites
<1>2. <<>> \in Seq(Items)
  OBVIOUS
<1>3. txn \in [Txns -> ClientTxns]
  BY <1>1 DEF Init, ClientTxns, TxnPhases
<1>4. 0 \in 0..MaxLease
  OBVIOUS
<1> QED
  BY <1>1, <1>2, <1>3, <1>4 DEF Init, TypeOK, Phases

\* A client's phase changes.
LEMMA PhaseType ==
  ASSUME TypeOK, NEW t \in Txns, NEW p \in TxnPhases
  PROVE  [txn EXCEPT ![t].phase = p] \in [Txns -> ClientTxns]
<1>1. txn[t] \in ClientTxns
  BY DEF TypeOK
<1>2. [txn[t] EXCEPT !.phase = p] \in ClientTxns
  BY <1>1 DEF ClientTxns
<1> QED
  BY <1>2 DEF TypeOK

LEMMA StepType == TypeOK /\ [Next]_vars => TypeOK'
<1> SUFFICES ASSUME TypeOK, [Next]_vars PROVE TypeOK'
  OBVIOUS
<1> USE DEF persistenceVars, startupVars, snapshotVars, logVars, queueVars
<1>1. ASSUME NEW b \in Backends, NEW ts \in 1..MaxLease, AcquireLease(b, ts)
      PROVE  TypeOK'
  BY <1>1 DEF AcquireLease, TypeOK, Phases
<1>2. ASSUME NEW b \in Backends, IdleRepeatableTs(b) PROVE TypeOK'
  BY <1>2 DEF IdleRepeatableTs, TypeOK, Phases
<1>3. ASSUME NEW b \in Backends, WriteIdleRepeatableTs(b) PROVE TypeOK'
  BY <1>3 DEF WriteIdleRepeatableTs, TypeOK, Phases
<1>4. ASSUME NEW b \in Backends, LoadSnapshot(b) PROVE TypeOK'
  BY <1>4 DEF LoadSnapshot, TypeOK, Phases
<1>5. ASSUME NEW b \in Backends, FinishLoad(b) PROVE TypeOK'
  BY <1>5 DEF FinishLoad, TypeOK, Phases
<1>6. ASSUME NEW b \in Backends, BumpMaxRepeatableTs(b) PROVE TypeOK'
  <2>1. PICK n \in next_max_repeatable_ts(b) :
          /\ last_assigned_ts' = [last_assigned_ts EXCEPT ![b] = n.assigned]
          /\ persistence_writes' = [persistence_writes EXCEPT ![b] =
               Append(@, [kind |-> "bump", ts |-> n.ts])]
    BY <1>6 DEF BumpMaxRepeatableTs
  <2>2. n.ts \in Timestamps /\ n.assigned \in Timestamps
    <3>1. CASE pending_writes[b] = {}
      BY <3>1 DEF next_max_repeatable_ts, next_commit_ts
    <3>2. CASE pending_writes[b] # {}
      <4>1. PICK p \in pending_writes[b] :
              n = [ts |-> p.commit.ts - 1, assigned |-> last_assigned_ts[b]]
        BY <3>2 DEF next_max_repeatable_ts
      <4> QED
        BY <4>1 DEF TypeOK, Commits, Timestamps
    <3> QED
      BY <3>1, <3>2
  <2>3. [kind |-> "bump", ts |-> n.ts] \in Items
    BY <2>2 DEF Items
  <2>4. persistence_writes' \in [Backends -> Seq(Items)]
    BY <2>1, <2>3 DEF TypeOK
  <2> QED
    BY <1>6, <2>1, <2>2, <2>4 DEF BumpMaxRepeatableTs, TypeOK
<1>7. ASSUME NEW b \in Backends, NEW p \in pending_writes[b], LandCommit(b, p)
      PROVE  TypeOK'
  <2>1. p.commit \in Commits /\ [kind |-> "commit", ts |-> p.commit.ts] \in Items
    BY DEF TypeOK, Commits, Items
  <2> QED
    BY <1>7, <2>1 DEF LandCommit, TypeOK
<1>8. ASSUME NEW b \in Backends, NEW ts \in Timestamps, LandBump(b, ts)
      PROVE  TypeOK'
  <2>1. [kind |-> "bump", ts |-> ts] \in Items
    BY DEF Items
  <2> QED
    BY <1>8, <2>1 DEF LandBump, TypeOK
<1>9. ASSUME NEW b \in Backends, NEW p \in pending_writes[b], PublishCommit(b, p)
      PROVE  TypeOK'
  <2>1. p.commit \in Commits /\ p.snapshot \in Snapshots
    BY DEF TypeOK
  <2>2. p.commit.ts \in Timestamps /\ p.commit.txn \in Txns
        /\ p.commit.writes \in SUBSET Keys
    BY <2>1 DEF Commits
  <2>3. txn' \in [Txns -> ClientTxns]
    <3>1. txn[p.commit.txn] \in ClientTxns
      BY <2>2 DEF TypeOK
    <3>2. [txn[p.commit.txn] EXCEPT !.phase = "ok", !.ts = p.commit.ts] \in ClientTxns
      BY <2>2, <3>1 DEF ClientTxns, TxnPhases
    <3>3. txn' = [txn EXCEPT ![p.commit.txn] =
                    [txn[p.commit.txn] EXCEPT !.phase = "ok", !.ts = p.commit.ts]]
      BY <1>9, <2>2 DEF PublishCommit, TypeOK, ClientTxns
    <3> QED
      BY <3>2, <3>3 DEF TypeOK
  <2>4. persistence_writes' \in [Backends -> Seq(Items)]
        /\ landed' \in [Backends -> SUBSET Items]
    BY <1>9 DEF PublishCommit, HeadLanded, PopHead, TypeOK
  <2>5. log' \in [Backends -> SUBSET [ts : Timestamps, writes : SUBSET Keys]]
    BY <1>9, <2>2 DEF PublishCommit, TypeOK
  <2>6. /\ latest_ts' \in [Backends -> Timestamps]
        /\ snapshot' \in [Backends -> Snapshots]
        /\ pending_writes' \in
             [Backends -> SUBSET [commit : Commits, snapshot : Snapshots]]
    BY <1>9, <2>1, <2>2 DEF PublishCommit, TypeOK
  <2> QED
    BY <1>9, <2>3, <2>4, <2>5, <2>6 DEF PublishCommit, TypeOK
<1>10. ASSUME NEW b \in Backends, PublishMaxRepeatableTs(b) PROVE TypeOK'
  <2>1. Head(persistence_writes[b]) \in Items
    BY <1>10 DEF PublishMaxRepeatableTs, HeadLanded, TypeOK
  <2>2. Head(persistence_writes[b]).ts \in Timestamps
    BY <2>1 DEF Items
  <2>3. persistence_writes' \in [Backends -> Seq(Items)]
        /\ landed' \in [Backends -> SUBSET Items]
    BY <1>10 DEF PublishMaxRepeatableTs, HeadLanded, PopHead, TypeOK
  <2>4. log' \in [Backends -> SUBSET [ts : Timestamps, writes : SUBSET Keys]]
    <3> DEFINE ts == Head(persistence_writes[b]).ts
               entry == [ts |-> ts, writes |-> {}]
    <3>1. entry \in [ts : Timestamps, writes : SUBSET Keys]
      BY <2>2
    <3>2. \/ log' = [log EXCEPT ![b] = @ \cup {entry}]
          \/ log' = log
      BY <1>10 DEF PublishMaxRepeatableTs
    <3>3. log \in [Backends -> SUBSET [ts : Timestamps, writes : SUBSET Keys]]
      BY DEF TypeOK
    <3> HIDE DEF entry
    <3> QED
      BY <3>1, <3>2, <3>3
  <2>5. /\ latest_ts' \in [Backends -> Timestamps]
        /\ persisted_max' \in [Backends -> Timestamps]
    BY <1>10, <2>2 DEF PublishMaxRepeatableTs, TypeOK
  <2> QED
    BY <1>10, <2>3, <2>4, <2>5 DEF PublishMaxRepeatableTs, TypeOK
<1>11. ASSUME NEW b \in Backends, TrimLog(b) PROVE TypeOK'
  BY <1>11 DEF TrimLog, TypeOK
<1>12. ASSUME NEW b \in Backends, Shutdown(b),
              UNCHANGED <<persistenceVars, startupVars, snapshotVars, logVars,
                          queueVars>>
       PROVE  TypeOK'
  BY <1>12, ShutdownType DEF TypeOK
<1>14. ASSUME NEW t \in Txns, NEW b \in Backends, Begin(t, b) PROVE TypeOK'
  <2>1. PICK acked \in Timestamps :
          txn' = [txn EXCEPT ![t] = [phase |-> "running", backend |-> b,
                                     begin |-> latest_ts[b],
                                     view |-> snapshot[b],
                                     acked |-> acked, ts |-> 0]]
    BY <1>14 DEF Begin
  <2>2. [phase |-> "running", backend |-> b, begin |-> latest_ts[b],
         view |-> snapshot[b], acked |-> acked, ts |-> 0] \in ClientTxns
    BY DEF TypeOK, ClientTxns, TxnPhases, Timestamps
  <2>3. txn' \in [Txns -> ClientTxns]
    BY <2>1, <2>2 DEF TypeOK
  <2> QED
    BY <1>14, <2>3 DEF Begin, TypeOK
<1>15. ASSUME NEW t \in Txns, ReadOnlyCommit(t) PROVE TypeOK'
  <2>0. txn' = [txn EXCEPT ![t].phase = "readonly"]
    BY <1>15 DEF ReadOnlyCommit
  <2>1. txn' \in [Txns -> ClientTxns]
    BY <2>0, PhaseType DEF TxnPhases
  <2> QED
    BY <1>15, <2>1 DEF ReadOnlyCommit, TypeOK
<1>16. ASSUME NEW t \in Txns, NEW reads \in SUBSET Keys,
              NEW writes \in SUBSET Keys, NEW ts \in Timestamps,
              RejectCommit(t, reads, writes, ts)
       PROVE  TypeOK'
  <2>0. txn' = [txn EXCEPT ![t].phase = "failed"]
    BY <1>16 DEF RejectCommit
  <2>1. txn' \in [Txns -> ClientTxns]
    BY <2>0, PhaseType DEF TxnPhases
  <2>2. last_assigned_ts' \in [Backends -> Timestamps]
    BY <1>16 DEF RejectCommit, ValidateCommit, TypeOK
  <2> QED
    BY <1>16, <2>1, <2>2 DEF RejectCommit, TypeOK
<1>17. ASSUME NEW t \in Txns, NEW reads \in SUBSET Keys,
              NEW writes \in SUBSET Keys, NEW ts \in Timestamps,
              StartCommit(t, reads, writes, ts)
       PROVE  TypeOK'
  <2> DEFINE b == txn[t].backend
  <2>0. /\ txn' = [txn EXCEPT ![t].phase = "committing"]
        /\ persistence_writes' = [persistence_writes EXCEPT ![b] =
             Append(@, [kind |-> "commit", ts |-> ts])]
    BY <1>17 DEF StartCommit
  <2>1. txn' \in [Txns -> ClientTxns]
    BY <2>0, PhaseType DEF TxnPhases
  <2>2. last_assigned_ts' \in [Backends -> Timestamps]
    BY <1>17 DEF StartCommit, ValidateCommit, TypeOK
  <2>4. persistence_writes' \in [Backends -> Seq(Items)]
    <3>1. [kind |-> "commit", ts |-> ts] \in Items
      BY DEF Items
    <3> HIDE DEF b
    <3>2. CASE b \in Backends
      <4>1. Append(persistence_writes[b], [kind |-> "commit", ts |-> ts])
              \in Seq(Items)
        BY <3>1, <3>2 DEF TypeOK
      <4> QED
        BY <2>0, <4>1 DEF TypeOK
    <3>3. CASE b \notin Backends
      BY <2>0, <3>3 DEF TypeOK
    <3> QED
      BY <3>2, <3>3
  <2>5. pending_writes' \in
          [Backends -> SUBSET [commit : Commits, snapshot : Snapshots]]
    <3>1. PICK base \in LatestPendingSnapshot(b) :
            pending_writes' = [pending_writes EXCEPT ![b] =
              @ \cup {PendingWrite(t, reads, writes, ts, base)}]
      BY <1>17 DEF StartCommit
    <3>2. CASE b \in Backends
      <4>1. compute_writes(base, writes, ts) \in Snapshots
        BY <3>2, LatestPendingType, ComputeWritesType
      <4>2. txn[t] \in ClientTxns
        BY DEF TypeOK
      <4>4. ts \in Timestamps \ {0}
        <5>1. ts \in next_commit_ts(b)
          BY <1>17 DEF StartCommit, ValidateCommit
        <5> HIDE DEF b
        <5> QED
          BY <3>2, <5>1 DEF next_commit_ts, TypeOK, Timestamps
      <4>3. PendingWrite(t, reads, writes, ts, base)
              \in [commit : Commits, snapshot : Snapshots]
        BY <4>4, <4>1, <4>2 DEF PendingWrite, Commits, ClientTxns
      <4> QED
        BY <3>1, <3>2, <4>3 DEF TypeOK
    <3>3. CASE b \notin Backends
      BY <3>1, <3>3 DEF TypeOK
    <3> QED
      BY <3>2, <3>3
  <2> QED
    BY <1>17, <2>1, <2>2, <2>4, <2>5 DEF StartCommit, TypeOK
<1>18. CASE UNCHANGED vars
  BY <1>18 DEF vars, TypeOK
<1> QED
  BY <1>1, <1>2, <1>3, <1>4, <1>5, <1>6, <1>7, <1>8, <1>9, <1>10, <1>11,
     <1>12, <1>14, <1>15, <1>16, <1>17, <1>18
     DEF Next, LeaseRefused, LoadRace, LeaseLost, Crash

\* Every variable keeps its type, whatever the sizes of the instance.
THEOREM TypeCorrect == Spec => []TypeOK
<1>1. Init => TypeOK
  BY InitType
<1>2. TypeOK /\ [Next]_vars => TypeOK'
  BY StepType
<1> QED
  BY <1>1, <1>2, PTL DEF Spec

-----------------------------------------------------------------------------
(* Which actions touch what.                                               *)

\* The six actions that change the queue.
LEMMA QueueActions ==
  ASSUME [Next]_vars
  PROVE  \/ UNCHANGED <<pending_writes, persistence_writes, landed>>
         \/ \E b \in Backends :
              \/ BumpMaxRepeatableTs(b)
              \/ \E p \in pending_writes[b] : LandCommit(b, p)
              \/ \E ts \in Timestamps : LandBump(b, ts)
              \/ \E p \in pending_writes[b] : PublishCommit(b, p)
              \/ PublishMaxRepeatableTs(b)
         \/ \E t \in Txns, reads, writes \in SUBSET Keys, ts \in Timestamps :
              StartCommit(t, reads, writes, ts)
BY DEF Next, vars, persistenceVars, startupVars, snapshotVars, logVars,
       queueVars, AcquireLease, LeaseRefused, IdleRepeatableTs,
       WriteIdleRepeatableTs, LoadSnapshot, FinishLoad, LoadRace, TrimLog,
       LeaseLost, Crash, Begin, ReadOnlyCommit, RejectCommit

\* The actions that change more than who is alive and what clients know.
LEMMA ServerActions ==
  ASSUME [Next]_vars
  PROVE  \/ UNCHANGED <<startupVars, snapshotVars, logVars, queueVars>>
         \/ \E b \in Backends :
              \/ \E ts \in 1..MaxLease : AcquireLease(b, ts)
              \/ IdleRepeatableTs(b)
              \/ WriteIdleRepeatableTs(b)
              \/ LoadSnapshot(b)
              \/ FinishLoad(b)
              \/ BumpMaxRepeatableTs(b)
              \/ \E p \in pending_writes[b] : LandCommit(b, p)
              \/ \E ts \in Timestamps : LandBump(b, ts)
              \/ \E p \in pending_writes[b] : PublishCommit(b, p)
              \/ PublishMaxRepeatableTs(b)
              \/ TrimLog(b)
         \/ \E t \in Txns, reads, writes \in SUBSET Keys, ts \in Timestamps :
              \/ RejectCommit(t, reads, writes, ts)
              \/ StartCommit(t, reads, writes, ts)
BY DEF Next, vars, LeaseRefused, LoadRace, LeaseLost, Crash, Begin,
       ReadOnlyCommit

\* A queue with an item at its end.
LEMMA AppendQueue ==
  ASSUME NEW s \in Seq(Items), NEW x \in Items
  PROVE  /\ Append(s, x) \in Seq(Items)
         /\ Len(Append(s, x)) = Len(s) + 1
         /\ \A i \in 1..Len(s) : Append(s, x)[i] = s[i]
         /\ Append(s, x)[Len(s) + 1] = x
OBVIOUS

\* A queue without its head.
LEMMA TailQueue ==
  ASSUME NEW s \in Seq(Items), s # <<>>
  PROVE  /\ Tail(s) \in Seq(Items)
         /\ Len(s) \in Nat /\ 1 \in 1..Len(s)
         /\ Len(Tail(s)) = Len(s) - 1
         /\ Head(s) = s[1]
         /\ \A i \in 1..Len(Tail(s)) : i + 1 \in 1..Len(s) /\ Tail(s)[i] = s[i + 1]
OBVIOUS

\* publish_commit's assertion: the head of the queue is the first pending
\* write.
LEMMA HeadIsFirst ==
  ASSUME TypeOK, NEW b \in Backends, QueueOK(b),
         persistence_writes[b] # <<>>,
         Head(persistence_writes[b]).kind = "commit",
         NEW p \in pending_writes[b],
         \A q \in pending_writes[b] : p.commit.ts <= q.commit.ts
  PROVE  Head(persistence_writes[b]) = CommitItem(p.commit.ts)
<1> DEFINE s == persistence_writes[b]
<1>1. s \in Seq(Items)
  BY DEF TypeOK
<1>2. Head(s) = s[1] /\ 1 \in 1..Len(s)
  BY <1>1
<1>3. PICK i \in 1..Len(s) : s[i] = CommitItem(p.commit.ts)
  BY DEF QueueOK
<1>4. PICK q \in pending_writes[b] : q.commit.ts = s[1].ts
  BY <1>2 DEF QueueOK
<1>5. p.commit.ts \in Nat /\ q.commit.ts \in Nat
  BY DEF TypeOK, Commits, Timestamps
<1>6. CASE i = 1
  BY <1>2, <1>3, <1>6
<1>7. CASE i # 1
  <2>1. s[1].ts < s[i].ts
    BY <1>2, <1>3, <1>7 DEF QueueOK, CommitItem
  <2> QED
    BY <2>1, <1>3, <1>4, <1>5 DEF CommitItem
<1> QED
  BY <1>6, <1>7

-----------------------------------------------------------------------------
(* The queue.                                                              *)

\* Where and at which timestamps a commit starts.
LEMMA StartCommitOpen ==
  ASSUME LocalInv, NEW t \in Txns, NEW reads \in SUBSET Keys,
         NEW writes \in SUBSET Keys, NEW ts \in Timestamps,
         ValidateCommit(t, reads, writes, ts)
  PROVE  /\ txn[t].backend \in Backends
         /\ phase[txn[t].backend] = "running" /\ alive[txn[t].backend]
         /\ latest_ts[txn[t].backend] < ts
         /\ last_assigned_ts[txn[t].backend] < ts
         /\ txn[t].begin <= latest_ts[txn[t].backend]
<1>1. txn[t].phase = "running" /\ ts \in next_commit_ts(txn[t].backend)
  BY DEF ValidateCommit
<1>2. /\ txn[t].backend \in Backends /\ phase[txn[t].backend] = "running"
      /\ alive[txn[t].backend] /\ txn[t].begin <= latest_ts[txn[t].backend]
  BY <1>1 DEF LocalInv, OpenInv
<1> QED
  BY <1>1, <1>2 DEF next_commit_ts

\* What it changes, as equations.
LEMMA StartCommitEffect ==
  ASSUME NEW t \in Txns, NEW reads, NEW writes, NEW ts,
         StartCommit(t, reads, writes, ts)
  PROVE  LET b == txn[t].backend IN
         /\ ValidateCommit(t, reads, writes, ts)
         /\ last_assigned_ts' = [last_assigned_ts EXCEPT ![b] = ts]
         /\ persistence_writes' = [persistence_writes EXCEPT ![b] =
              Append(persistence_writes[b], CommitItem(ts))]
         /\ landed' = landed
BY DEF StartCommit, ValidateCommit, CommitItem

LEMMA StartCommitPending ==
  ASSUME NEW t \in Txns, NEW reads, NEW writes, NEW ts,
         StartCommit(t, reads, writes, ts)
  PROVE  \E base \in LatestPendingSnapshot(txn[t].backend) :
           pending_writes' = [pending_writes EXCEPT ![txn[t].backend] =
             pending_writes[txn[t].backend]
               \cup {PendingWrite(t, reads, writes, ts, base)}]
BY DEF StartCommit

LEMMA PendingWriteFields ==
  ASSUME NEW t, NEW reads, NEW writes, NEW ts, NEW base
  PROVE  LET p == PendingWrite(t, reads, writes, ts, base) IN
         /\ p.commit.txn = t /\ p.commit.ts = ts
         /\ p.commit.begin = txn[t].begin
         /\ p.commit.reads = reads /\ p.commit.writes = writes
         /\ p.commit.view = txn[t].view /\ p.commit.acked = txn[t].acked
         /\ p.snapshot = compute_writes(base, writes, ts)
BY DEF PendingWrite

\* What BumpMaxRepeatableTs does.
LEMMA BumpEffect ==
  ASSUME LocalInv, NEW b \in Backends, BumpMaxRepeatableTs(b)
  PROVE  \E ts \in Timestamps, assigned \in Timestamps :
           /\ last_assigned_ts' = [last_assigned_ts EXCEPT ![b] = assigned]
           /\ persistence_writes' = [persistence_writes EXCEPT ![b] =
                Append(persistence_writes[b], [kind |-> "bump", ts |-> ts])]
           /\ latest_ts[b] <= ts /\ ts <= assigned
           /\ last_assigned_ts[b] <= assigned
           /\ \A p \in pending_writes[b] : ts < p.commit.ts
<1>1. PICK n \in next_max_repeatable_ts(b) :
        /\ last_assigned_ts' = [last_assigned_ts EXCEPT ![b] = n.assigned]
        /\ persistence_writes' = [persistence_writes EXCEPT ![b] =
             Append(persistence_writes[b], [kind |-> "bump", ts |-> n.ts])]
  BY DEF BumpMaxRepeatableTs
<1>2. /\ latest_ts[b] \in Nat /\ last_assigned_ts[b] \in Timestamps
      /\ \A p \in pending_writes[b] : p.commit.ts \in Timestamps
  BY DEF LocalInv, TypeOK, Commits, Timestamps
<1>3. CASE pending_writes[b] = {}
  <2>1. PICK ts \in next_commit_ts(b) : n = [ts |-> ts, assigned |-> ts]
    BY <1>3 DEF next_max_repeatable_ts
  <2>2. /\ n.ts \in Timestamps /\ n.assigned = n.ts
        /\ latest_ts[b] < n.ts /\ last_assigned_ts[b] < n.ts
    BY <2>1 DEF next_commit_ts
  <2>3. /\ latest_ts[b] <= n.ts /\ n.ts <= n.assigned
        /\ last_assigned_ts[b] <= n.assigned
    BY <1>2, <2>2 DEF Timestamps
  <2> QED
    BY <1>1, <1>3, <2>2, <2>3
<1>4. CASE pending_writes[b] # {}
  <2>1. PICK p \in pending_writes[b] :
          /\ n = [ts |-> p.commit.ts - 1, assigned |-> last_assigned_ts[b]]
          /\ \A r \in pending_writes[b] : p.commit.ts <= r.commit.ts
    BY <1>4 DEF next_max_repeatable_ts
  <2>2. latest_ts[b] < p.commit.ts /\ p.commit.ts <= last_assigned_ts[b]
    BY DEF LocalInv, OrderInv, OrderOK
  <2>3. /\ n.ts = p.commit.ts - 1 /\ n.assigned = last_assigned_ts[b]
    BY <2>1
  <2>4. /\ n.ts \in Timestamps /\ n.assigned \in Timestamps
        /\ latest_ts[b] <= n.ts /\ n.ts <= n.assigned
        /\ last_assigned_ts[b] <= n.assigned
    BY <1>2, <2>2, <2>3 DEF Timestamps
  <2>5. \A r \in pending_writes[b] : n.ts < r.commit.ts
    BY <1>2, <2>1, <2>3 DEF Timestamps
  <2> QED
    BY <1>1, <2>4, <2>5
<1> QED
  BY <1>3, <1>4

LEMMA QueueStep ==
  ASSUME LocalInv, [Next]_vars PROVE QueueInv'
<1>0. TypeOK /\ QueueInv /\ OrderInv
  BY DEF LocalInv
<1> SUFFICES ASSUME NEW c \in Backends PROVE QueueOK(c)'
  BY DEF QueueInv
<1>1. QueueOK(c) /\ persistence_writes[c] \in Seq(Items)
  BY <1>0 DEF QueueInv, TypeOK
<1>2. ASSUME UNCHANGED <<pending_writes[c], persistence_writes[c], landed[c]>>
      PROVE  QueueOK(c)'
  BY <1>1, <1>2 DEF QueueOK
<1>3. ASSUME NEW t \in Txns, NEW reads \in SUBSET Keys,
             NEW writes \in SUBSET Keys, NEW ts \in Timestamps,
             StartCommit(t, reads, writes, ts)
      PROVE  QueueOK(c)'
  <2> DEFINE b == txn[t].backend
             s == persistence_writes[b]
  <2>1. /\ b \in Backends /\ last_assigned_ts[b] < ts
        /\ persistence_writes' =
             [persistence_writes EXCEPT ![b] = Append(s, CommitItem(ts))]
        /\ landed' = landed
    BY <1>3, StartCommitEffect, StartCommitOpen
  <2>2. PICK base \in LatestPendingSnapshot(b) :
          pending_writes' = [pending_writes EXCEPT ![b] =
            pending_writes[b] \cup {PendingWrite(t, reads, writes, ts, base)}]
    BY <1>3, StartCommitPending
  <2> DEFINE n == PendingWrite(t, reads, writes, ts, base)
  <2> HIDE DEF b, n
  <2>3. CASE c # b
    <3>1. UNCHANGED <<pending_writes[c], persistence_writes[c], landed[c]>>
      BY <1>0, <2>1, <2>2, <2>3 DEF TypeOK
    <3> QED
      BY <3>1, <1>2
  <2>4. CASE c = b
    <3>1. /\ persistence_writes'[c] = Append(s, CommitItem(ts))
          /\ pending_writes'[c] = pending_writes[c] \cup {n}
          /\ landed'[c] = landed[c]
      BY <1>0, <2>1, <2>2, <2>4 DEF TypeOK, n
    <3>2. n.commit.ts = ts
      BY PendingWriteFields DEF n
    <3>3. \A p \in pending_writes[c] : p.commit.ts < ts /\ p.commit.ts \in Nat
      <4>1. \A p \in pending_writes[c] : p.commit.ts <= last_assigned_ts[b]
        BY <1>0, <2>4 DEF OrderInv, OrderOK
      <4>2. \A p \in pending_writes[c] : p.commit.ts \in Nat
        BY <1>0 DEF TypeOK, Commits, Timestamps
      <4>3. last_assigned_ts[b] \in Nat /\ ts \in Nat
        BY <1>0, <2>1 DEF TypeOK, Timestamps
      <4> QED
        BY <4>1, <4>2, <4>3, <2>1
    <3>4. /\ Len(Append(s, CommitItem(ts))) = Len(s) + 1
          /\ \A i \in 1..Len(s) : Append(s, CommitItem(ts))[i] = s[i]
          /\ Append(s, CommitItem(ts))[Len(s) + 1] = CommitItem(ts)
          /\ Len(s) \in Nat
      <4>1. CommitItem(ts) \in Items
        BY DEF CommitItem, Items
      <4> QED
        BY <1>1, <2>4, <4>1, AppendQueue
    <3> DEFINE q == Append(s, CommitItem(ts))
    <3> HIDE DEF q
    <3>5. /\ q = persistence_writes'[c]
          /\ Len(q) = Len(s) + 1 /\ Len(s) \in Nat
          /\ \A i \in 1..Len(s) : q[i] = s[i]
          /\ q[Len(s) + 1] = CommitItem(ts)
      BY <3>1, <3>4 DEF q
    <3>6. \A x \in landed'[c] : \E i \in 1..Len(q) : q[i] = x
      BY <1>1, <2>4, <3>1, <3>5 DEF QueueOK
    <3>7. \A p \in pending_writes'[c] :
            \E i \in 1..Len(q) : q[i] = CommitItem(p.commit.ts)
      <4>1. \A p \in pending_writes[c] :
              \E i \in 1..Len(s) : s[i] = CommitItem(p.commit.ts)
        BY <1>1, <2>4 DEF QueueOK
      <4> QED
        BY <4>1, <3>1, <3>2, <3>5
    <3>8. \A i \in 1..Len(q) : q[i].kind = "commit" =>
            \E p \in pending_writes'[c] : p.commit.ts = q[i].ts
      <4>1. \A i \in 1..Len(s) : s[i].kind = "commit" =>
              \E p \in pending_writes[c] : p.commit.ts = s[i].ts
        BY <1>1, <2>4 DEF QueueOK
      <4> QED
        BY <4>1, <3>1, <3>2, <3>5 DEF CommitItem
    <3>9. \A p, r \in pending_writes'[c] : p.commit.ts = r.commit.ts => p = r
      <4>1. \A p, r \in pending_writes[c] : p.commit.ts = r.commit.ts => p = r
        BY <1>1 DEF QueueOK
      <4> QED
        BY <4>1, <3>1, <3>2, <3>3
    <3>10. \A i, j \in 1..Len(q) :
             /\ i < j /\ q[i].kind = "commit" /\ q[j].kind = "commit"
                  => q[i].ts < q[j].ts
             /\ q[i].kind = "bump" /\ q[j].kind = "bump" => i = j
      <4>1. \A i, j \in 1..Len(s) :
             /\ i < j /\ s[i].kind = "commit" /\ s[j].kind = "commit"
                  => s[i].ts < s[j].ts
             /\ s[i].kind = "bump" /\ s[j].kind = "bump" => i = j
        BY <1>1, <2>4 DEF QueueOK
      <4>2. \A i \in 1..Len(s) : s[i].kind = "commit" => s[i].ts < ts
        BY <1>1, <2>4, <3>3 DEF QueueOK
      <4>3. CommitItem(ts).kind = "commit" /\ CommitItem(ts).ts = ts
        BY DEF CommitItem
      <4> HIDE DEF s
      <4> TAKE i, j \in 1..Len(q)
      <4>4. /\ i \in 1..Len(s) \/ i = Len(s) + 1
            /\ j \in 1..Len(s) \/ j = Len(s) + 1
        BY <3>5
      <4> QED
        BY <4>1, <4>2, <4>3, <4>4, <3>5
    <3> QED
      BY <3>5, <3>6, <3>7, <3>8, <3>9, <3>10 DEF QueueOK
  <2> QED
    BY <2>3, <2>4
<1>4. ASSUME NEW b \in Backends, BumpMaxRepeatableTs(b) PROVE QueueOK(c)'
  <2>1. PICK ts \in Timestamps :
          persistence_writes' = [persistence_writes EXCEPT ![b] =
            Append(persistence_writes[b], [kind |-> "bump", ts |-> ts])]
    BY <1>4, BumpEffect
  <2>2. /\ UNCHANGED <<pending_writes, landed>>
        /\ \A i \in 1..Len(persistence_writes[b]) :
             persistence_writes[b][i].kind # "bump"
    BY <1>4 DEF BumpMaxRepeatableTs, BumpOngoing
  <2>3. CASE c # b
    BY <1>0, <1>2, <2>1, <2>2, <2>3 DEF TypeOK
  <2>4. CASE c = b
    <3> DEFINE s == persistence_writes[c]
               x == [kind |-> "bump", ts |-> ts]
               q == persistence_writes'[c]
    <3>1. x \in Items /\ x.kind = "bump"
      BY DEF Items
    <3>2. q = Append(s, x)
      BY <1>0, <2>1, <2>4 DEF TypeOK
    <3>3. s \in Seq(Items)
      BY <1>1
    <3> HIDE DEF s, x, q
    <3>4. /\ Len(q) = Len(s) + 1 /\ Len(s) \in Nat
          /\ \A i \in 1..Len(s) : q[i] = s[i]
          /\ q[Len(s) + 1] = x
      BY <3>1, <3>2, <3>3, AppendQueue
    <3>5. /\ \A y \in landed[c] : \E i \in 1..Len(s) : s[i] = y
          /\ \A p \in pending_writes[c] :
               \E i \in 1..Len(s) : s[i] = CommitItem(p.commit.ts)
          /\ \A i \in 1..Len(s) : s[i].kind = "commit" =>
               \E p \in pending_writes[c] : p.commit.ts = s[i].ts
          /\ \A p, r \in pending_writes[c] : p.commit.ts = r.commit.ts => p = r
          /\ \A i, j \in 1..Len(s) :
               i < j /\ s[i].kind = "commit" /\ s[j].kind = "commit"
                  => s[i].ts < s[j].ts
          /\ \A i \in 1..Len(s) : s[i].kind # "bump"
      BY <1>1, <2>2, <2>4 DEF QueueOK, s
    <3>6. /\ \A y \in landed[c] : \E i \in 1..Len(q) : q[i] = y
          /\ \A p \in pending_writes[c] :
               \E i \in 1..Len(q) : q[i] = CommitItem(p.commit.ts)
      BY <3>4, <3>5
    <3>7. /\ \A i \in 1..Len(q) : q[i].kind = "commit" =>
               \E p \in pending_writes[c] : p.commit.ts = q[i].ts
          /\ \A i, j \in 1..Len(q) :
               /\ i < j /\ q[i].kind = "commit" /\ q[j].kind = "commit"
                    => q[i].ts < q[j].ts
               /\ q[i].kind = "bump" /\ q[j].kind = "bump" => i = j
      BY <3>1, <3>4, <3>5
    <3> QED
      BY <2>2, <3>5, <3>6, <3>7 DEF QueueOK, q
  <2> QED
    BY <2>3, <2>4
<1>5. ASSUME NEW b \in Backends, NEW x \in Items, InFlight(b, x),
             landed' = [landed EXCEPT ![b] = landed[b] \cup {x}],
             UNCHANGED <<pending_writes, persistence_writes>>
      PROVE  QueueOK(c)'
  <2>1. \A y \in landed'[c] :
          \E i \in 1..Len(persistence_writes[c]) : persistence_writes[c][i] = y
    BY <1>0, <1>1, <1>5 DEF QueueOK, InFlight, TypeOK
  <2> QED
    BY <1>1, <1>5, <2>1 DEF QueueOK
<1>6. ASSUME NEW b \in Backends, NEW p \in pending_writes[b], LandCommit(b, p)
      PROVE  QueueOK(c)'
  <2>1. CommitItem(p.commit.ts) \in Items
    BY <1>0 DEF CommitItem, Items, TypeOK, Commits
  <2> QED
    BY <1>5, <1>6, <2>1 DEF LandCommit, CommitItem
<1>7. ASSUME NEW b \in Backends, NEW ts \in Timestamps, LandBump(b, ts)
      PROVE  QueueOK(c)'
  <2>1. [kind |-> "bump", ts |-> ts] \in Items
    BY DEF Items
  <2> QED
    BY <1>5, <1>7, <2>1 DEF LandBump
<1>8. ASSUME NEW b \in Backends, HeadLanded(b), PopHead(b),
             NEW gone \in SUBSET pending_writes[b],
             pending_writes' = [pending_writes EXCEPT ![b] = pending_writes[b] \ gone],
             \A p \in pending_writes[b] : p \in gone <=>
               CommitItem(p.commit.ts) = Head(persistence_writes[b])
      PROVE  QueueOK(c)'
  <2>1. CASE c # b
    <3>1. UNCHANGED <<pending_writes[c], persistence_writes[c], landed[c]>>
      BY <1>0, <1>8, <2>1 DEF PopHead, TypeOK
    <3> QED
      BY <3>1, <1>2
  <2>2. CASE c = b
    <3> DEFINE s == persistence_writes[c]
               q == persistence_writes'[c]
    <3>1. /\ q = Tail(s) /\ s # <<>>
          /\ landed'[c] = landed[c] \ {Head(s)}
          /\ pending_writes'[c] = pending_writes[c] \ gone
      BY <1>0, <1>8, <2>2 DEF PopHead, HeadLanded, TypeOK
    <3>2. s \in Seq(Items)
      BY <1>1
    <3>3. /\ \A x \in landed[c] : \E i \in 1..Len(s) : s[i] = x
          /\ \A p \in pending_writes[c] :
               \E i \in 1..Len(s) : s[i] = CommitItem(p.commit.ts)
          /\ \A i \in 1..Len(s) : s[i].kind = "commit" =>
               \E p \in pending_writes[c] : p.commit.ts = s[i].ts
          /\ \A p, r \in pending_writes[c] : p.commit.ts = r.commit.ts => p = r
          /\ \A i, j \in 1..Len(s) :
               /\ i < j /\ s[i].kind = "commit" /\ s[j].kind = "commit"
                    => s[i].ts < s[j].ts
               /\ s[i].kind = "bump" /\ s[j].kind = "bump" => i = j
      BY <1>1 DEF QueueOK
    <3>4. \A i \in 1..Len(s) : s[i].ts \in Nat
      <4>1. \A x \in Items : x.ts \in Nat
        BY DEF Items, Timestamps
      <4> HIDE DEF s
      <4> QED
        BY <3>2, <4>1
    <3> HIDE DEF s, q
    <3>5. /\ Len(s) \in Nat /\ Len(q) = Len(s) - 1 /\ Head(s) = s[1]
          /\ 1 \in 1..Len(s)
          /\ \A i \in 1..Len(q) : i + 1 \in 1..Len(s) /\ q[i] = s[i + 1]
      BY <3>1, <3>2, TailQueue
    <3>6. \A i \in 1..Len(s) : i # 1 => i - 1 \in 1..Len(q) /\ q[i - 1] = s[i]
      BY <3>5
    <3>7. \A x \in landed'[c] : \E i \in 1..Len(q) : q[i] = x
      <4> SUFFICES ASSUME NEW x \in landed[c], x # s[1]
                   PROVE  \E i \in 1..Len(q) : q[i] = x
        BY <3>1, <3>5
      <4>1. PICK i \in 1..Len(s) : s[i] = x
        BY <3>3
      <4> QED
        BY <3>6, <4>1
    <3>8. \A p \in pending_writes'[c] :
            \E i \in 1..Len(q) : q[i] = CommitItem(p.commit.ts)
      <4> SUFFICES ASSUME NEW p \in pending_writes'[c]
                   PROVE  \E i \in 1..Len(q) : q[i] = CommitItem(p.commit.ts)
        OBVIOUS
      <4>1. PICK i \in 1..Len(s) : s[i] = CommitItem(p.commit.ts)
        BY <3>1, <3>3
      <4>2. i # 1
        BY <1>8, <2>2, <3>1, <3>5, <4>1 DEF s
      <4> QED
        BY <3>6, <4>1, <4>2
    <3>9. \A i \in 1..Len(q) : q[i].kind = "commit" =>
            \E p \in pending_writes'[c] : p.commit.ts = q[i].ts
      <4> SUFFICES ASSUME NEW i \in 1..Len(q), q[i].kind = "commit"
                   PROVE  \E p \in pending_writes'[c] : p.commit.ts = q[i].ts
        OBVIOUS
      <4>1. i + 1 \in 1..Len(s) /\ q[i] = s[i + 1] /\ 1 < i + 1
        BY <3>5
      <4>2. PICK p \in pending_writes[c] : p.commit.ts = s[i + 1].ts
        BY <3>3, <4>1
      <4>3. CommitItem(p.commit.ts) # s[1]
        <5>1. ASSUME s[1] = CommitItem(p.commit.ts) PROVE FALSE
          <6>1. s[1].kind = "commit" /\ s[1].ts = p.commit.ts
            BY <5>1 DEF CommitItem
          <6>2. s[1].ts < s[i + 1].ts
            BY <3>3, <3>5, <4>1, <6>1
          <6> QED
            BY <3>4, <3>5, <4>2, <6>1, <6>2
        <5> QED
          BY <5>1
      <4>4. p \in pending_writes'[c]
        BY <1>8, <2>2, <3>1, <3>5, <4>3 DEF s
      <4> QED
        BY <4>1, <4>2, <4>4
    <3>10. \A p, r \in pending_writes'[c] : p.commit.ts = r.commit.ts => p = r
      BY <3>1, <3>3
    <3>11. \A i, j \in 1..Len(q) :
             /\ i < j /\ q[i].kind = "commit" /\ q[j].kind = "commit"
                  => q[i].ts < q[j].ts
             /\ q[i].kind = "bump" /\ q[j].kind = "bump" => i = j
      <4> TAKE i, j \in 1..Len(q)
      <4>1. /\ i + 1 \in 1..Len(s) /\ q[i] = s[i + 1]
            /\ j + 1 \in 1..Len(s) /\ q[j] = s[j + 1]
            /\ i < j => i + 1 < j + 1
            /\ i + 1 = j + 1 => i = j
        BY <3>5
      <4> QED
        BY <3>3, <4>1
    <3> QED
      BY <3>7, <3>8, <3>9, <3>10, <3>11 DEF QueueOK, q
  <2> QED
    BY <2>1, <2>2
<1>9. ASSUME NEW b \in Backends, NEW p \in pending_writes[b], PublishCommit(b, p)
      PROVE  QueueOK(c)'
  <2>1. Head(persistence_writes[b]) = CommitItem(p.commit.ts)
    BY <1>0, <1>9, HeadIsFirst DEF PublishCommit, HeadLanded, QueueInv
  <2>2. \A q \in pending_writes[b] : q \in {p} <=>
          CommitItem(q.commit.ts) = Head(persistence_writes[b])
    BY <1>0, <2>1 DEF QueueInv, QueueOK, CommitItem
  <2> QED
    BY <1>8, <1>9, <2>2 DEF PublishCommit
<1>10. ASSUME NEW b \in Backends, PublishMaxRepeatableTs(b) PROVE QueueOK(c)'
  <2>1. \A p \in pending_writes[b] : p \in {} <=>
          CommitItem(p.commit.ts) = Head(persistence_writes[b])
    BY <1>10 DEF PublishMaxRepeatableTs, CommitItem
  <2>2. pending_writes' = [pending_writes EXCEPT ![b] = pending_writes[b] \ {}]
    BY <1>0, <1>10 DEF PublishMaxRepeatableTs, TypeOK
  <2>3. HeadLanded(b) /\ PopHead(b) /\ {} \in SUBSET pending_writes[b]
    BY <1>10 DEF PublishMaxRepeatableTs
  <2> QED
    BY <1>8, <2>1, <2>2, <2>3
<1>11. CASE UNCHANGED <<pending_writes, persistence_writes, landed>>
  BY <1>2, <1>11
<1> QED
  BY <1>3, <1>4, <1>6, <1>7, <1>9, <1>10, <1>11, QueueActions

-----------------------------------------------------------------------------
(* Start-up.                                                               *)

\* A backend that is not running after a step was not before, and has not
\* touched its committer.
LEMMA NotRunningStep ==
  ASSUME LocalInv, [Next]_vars, NEW c \in Backends, phase'[c] # "running"
  PROVE  /\ phase[c] # "running"
         /\ UNCHANGED <<pending_writes[c], persistence_writes[c], landed[c],
                        log[c], last_assigned_ts[c], latest_ts[c],
                        persisted_max[c], purged_ts[c]>>
<1> USE DEF persistenceVars, startupVars, snapshotVars, logVars, queueVars
<1>0. TypeOK /\ StartInv
  BY DEF LocalInv
<1> DEFINE Quiet == /\ phase[c] # "running"
                    /\ UNCHANGED <<pending_writes[c], persistence_writes[c],
                         landed[c], log[c], last_assigned_ts[c], latest_ts[c],
                         persisted_max[c], purged_ts[c]>>
<1>1. ASSUME NEW b \in Backends, NEW ts \in 1..MaxLease, AcquireLease(b, ts)
      PROVE  Quiet
  BY <1>0, <1>1 DEF AcquireLease, TypeOK
<1>2. ASSUME NEW b \in Backends, IdleRepeatableTs(b) PROVE Quiet
  BY <1>0, <1>2 DEF IdleRepeatableTs, TypeOK
<1>3. ASSUME NEW b \in Backends, WriteIdleRepeatableTs(b) PROVE Quiet
  BY <1>0, <1>3 DEF WriteIdleRepeatableTs, TypeOK
<1>4. ASSUME NEW b \in Backends, LoadSnapshot(b) PROVE Quiet
  BY <1>0, <1>4 DEF LoadSnapshot, TypeOK
<1>5. ASSUME NEW b \in Backends, FinishLoad(b) PROVE Quiet
  BY <1>0, <1>5 DEF FinishLoad, TypeOK
<1>6. ASSUME NEW b \in Backends, BumpMaxRepeatableTs(b) PROVE Quiet
  <2>1. phase[b] = "running" /\ phase' = phase
    BY <1>6 DEF BumpMaxRepeatableTs, Running
  <2>2. \A d \in Backends \ {b} : /\ last_assigned_ts'[d] = last_assigned_ts[d]
                                  /\ persistence_writes'[d] = persistence_writes[d]
    BY <1>0, <1>6 DEF BumpMaxRepeatableTs, TypeOK
  <2> QED
    BY <1>6, <2>1, <2>2 DEF BumpMaxRepeatableTs
<1>7. ASSUME NEW b \in Backends, NEW x, InFlight(b, x),
             landed' = [landed EXCEPT ![b] = landed[b] \cup {x}],
             UNCHANGED <<startupVars, snapshotVars, logVars, pending_writes,
                         persistence_writes, last_assigned_ts>>
      PROVE  Quiet
  <2>1. persistence_writes[b] # <<>>
    BY <1>7 DEF InFlight
  <2>2. phase[b] = "running"
    BY <1>0, <2>1 DEF StartInv
  <2> QED
    BY <1>0, <1>7, <2>2 DEF TypeOK
<1>8. ASSUME NEW b \in Backends, NEW p \in pending_writes[b], LandCommit(b, p)
      PROVE  Quiet
  BY <1>7, <1>8 DEF LandCommit
<1>9. ASSUME NEW b \in Backends, NEW ts \in Timestamps, LandBump(b, ts)
      PROVE  Quiet
  BY <1>7, <1>9 DEF LandBump
<1>10. ASSUME NEW b \in Backends, NEW p \in pending_writes[b], PublishCommit(b, p)
       PROVE  Quiet
  BY <1>0, <1>10 DEF PublishCommit, PopHead, Running, TypeOK
<1>11. ASSUME NEW b \in Backends, PublishMaxRepeatableTs(b) PROVE Quiet
  BY <1>0, <1>11 DEF PublishMaxRepeatableTs, PopHead, Running, TypeOK
<1>12. ASSUME NEW b \in Backends, TrimLog(b) PROVE Quiet
  BY <1>0, <1>12 DEF TrimLog, Running, TypeOK
<1>13. ASSUME NEW t \in Txns, NEW reads \in SUBSET Keys,
              NEW writes \in SUBSET Keys, NEW ts \in Timestamps,
              RejectCommit(t, reads, writes, ts)
       PROVE  Quiet
  <2>1. phase[txn[t].backend] = "running"
    BY <1>13, StartCommitOpen DEF RejectCommit
  <2>2. last_assigned_ts'[c] = last_assigned_ts[c] \/ c = txn[t].backend
    BY <1>0, <1>13 DEF RejectCommit, ValidateCommit, TypeOK
  <2> QED
    BY <1>13, <2>1, <2>2 DEF RejectCommit
<1>14. ASSUME NEW t \in Txns, NEW reads \in SUBSET Keys,
              NEW writes \in SUBSET Keys, NEW ts \in Timestamps,
              StartCommit(t, reads, writes, ts)
       PROVE  Quiet
  <2>1. phase[txn[t].backend] = "running"
    BY <1>14, StartCommitOpen, StartCommitEffect
  <2>2. phase' = phase
    BY <1>14 DEF StartCommit
  <2>3. \/ c = txn[t].backend
        \/ UNCHANGED <<pending_writes[c], persistence_writes[c],
                       last_assigned_ts[c]>>
    BY <1>0, <1>14, StartCommitEffect, StartCommitPending DEF TypeOK
  <2> QED
    BY <1>14, <2>1, <2>2, <2>3 DEF StartCommit
<1>15. ASSUME UNCHANGED <<startupVars, snapshotVars, logVars, queueVars>>
       PROVE  Quiet
  BY <1>15
<1> HIDE DEF Quiet
<1>16. Quiet
  BY ServerActions, <1>1, <1>2, <1>3, <1>4, <1>5, <1>6, <1>8, <1>9, <1>10,
     <1>11, <1>12, <1>13, <1>14, <1>15
<1> QED
  BY <1>16 DEF Quiet

LEMMA StartStep ==
  ASSUME LocalInv, [Next]_vars PROVE StartInv'
<1> SUFFICES ASSUME NEW c \in Backends, phase'[c] # "running"
             PROVE  /\ pending_writes'[c] = {} /\ persistence_writes'[c] = <<>>
                    /\ landed'[c] = {} /\ log'[c] = {}
                    /\ last_assigned_ts'[c] = 0 /\ latest_ts'[c] = 0
                    /\ persisted_max'[c] = 0 /\ purged_ts'[c] = 0
  BY DEF StartInv
<1> QED
  BY NotRunningStep DEF LocalInv, StartInv

-----------------------------------------------------------------------------
(* The order of timestamps.                                                *)

\* Timestamps are numbers.
LEMMA NatFacts ==
  ASSUME TypeOK, NEW c \in Backends
  PROVE  /\ latest_ts[c] \in Nat /\ persisted_max[c] \in Nat
         /\ purged_ts[c] \in Nat /\ load_ts[c] \in Nat
         /\ last_assigned_ts[c] \in Nat
         /\ \A e \in log[c] : e.ts \in Nat
         /\ \A p \in pending_writes[c] :
              p.commit.ts \in Nat /\ p.commit.begin \in Nat
         /\ \A i \in 1..Len(persistence_writes[c]) :
              persistence_writes[c][i].ts \in Nat
<1>1. /\ latest_ts[c] \in Nat /\ persisted_max[c] \in Nat
      /\ purged_ts[c] \in Nat /\ load_ts[c] \in Nat
      /\ last_assigned_ts[c] \in Nat
      /\ \A e \in log[c] : e.ts \in Nat
  BY DEF TypeOK, Timestamps
<1>2. \A p \in pending_writes[c] :
        p.commit.ts \in Nat /\ p.commit.begin \in Nat
  BY DEF TypeOK, Timestamps, Commits
<1>3. \A x \in Items : x.ts \in Nat
  BY DEF Items, Timestamps
<1>4. persistence_writes[c] \in Seq(Items)
  BY DEF TypeOK
<1> QED
  BY <1>1, <1>2, <1>3, <1>4

LEMMA OrderStep ==
  ASSUME LocalInv, [Next]_vars PROVE OrderInv'
<1> USE DEF persistenceVars, startupVars, snapshotVars, logVars, queueVars
<1>0. TypeOK /\ StartInv /\ QueueInv /\ OrderInv /\ TypeOK' /\ StartInv'
  BY StepType, StartStep DEF LocalInv
<1> SUFFICES ASSUME NEW c \in Backends PROVE OrderOK(c)'
  BY DEF OrderInv
<1>1. OrderOK(c) /\ QueueOK(c)
  BY <1>0 DEF OrderInv, QueueInv
<1>2. ASSUME phase'[c] # "running" PROVE OrderOK(c)'
  BY <1>0, <1>2 DEF StartInv, OrderOK
<1>3. ASSUME UNCHANGED <<phase[c], load_ts[c], pending_writes[c],
                         persistence_writes[c], log[c], last_assigned_ts[c],
                         latest_ts[c], persisted_max[c], purged_ts[c]>>
      PROVE  OrderOK(c)'
  BY <1>1, <1>3 DEF OrderOK
<1>4. ASSUME NEW b \in Backends, NEW ts \in 1..MaxLease, AcquireLease(b, ts)
      PROVE  OrderOK(c)'
  <2>1. phase'[b] = "leased"
    BY <1>0, <1>4 DEF AcquireLease, TypeOK
  <2> QED
    BY <1>0, <1>2, <1>3, <1>4, <2>1 DEF AcquireLease, TypeOK
<1>5. ASSUME NEW b \in Backends, IdleRepeatableTs(b) PROVE OrderOK(c)'
  BY <1>0, <1>2, <1>3, <1>5 DEF IdleRepeatableTs, TypeOK
<1>6. ASSUME NEW b \in Backends, WriteIdleRepeatableTs(b) PROVE OrderOK(c)'
  BY <1>0, <1>2, <1>3, <1>6 DEF WriteIdleRepeatableTs, TypeOK
<1>7. ASSUME NEW b \in Backends, LoadSnapshot(b) PROVE OrderOK(c)'
  BY <1>0, <1>2, <1>3, <1>7 DEF LoadSnapshot, TypeOK
<1>8. ASSUME NEW b \in Backends, FinishLoad(b) PROVE OrderOK(c)'
  <2>1. CASE c # b
    BY <1>0, <1>3, <1>8, <2>1 DEF FinishLoad, TypeOK
  <2>2. CASE c = b
    <3>1. /\ latest_ts'[c] = load_ts[c] /\ persisted_max'[c] = load_ts[c]
          /\ purged_ts'[c] = load_ts[c] /\ load_ts'[c] = load_ts[c]
          /\ log'[c] = {} /\ pending_writes'[c] = {}
          /\ persistence_writes'[c] = <<>>
      BY <1>0, <1>8, <2>2 DEF FinishLoad, TypeOK, StartInv
    <3>2. load_ts[c] \in Nat
      BY <1>0, NatFacts
    <3> QED
      BY <3>1, <3>2 DEF OrderOK
  <2> QED
    BY <2>1, <2>2
<1>9. ASSUME NEW b \in Backends, BumpMaxRepeatableTs(b) PROVE OrderOK(c)'
  <2>1. PICK ts \in Timestamps, assigned \in Timestamps :
          /\ last_assigned_ts' = [last_assigned_ts EXCEPT ![b] = assigned]
          /\ persistence_writes' = [persistence_writes EXCEPT ![b] =
               Append(persistence_writes[b], [kind |-> "bump", ts |-> ts])]
          /\ latest_ts[b] <= ts /\ ts <= assigned
          /\ last_assigned_ts[b] <= assigned
          /\ \A p \in pending_writes[b] : ts < p.commit.ts
    BY <1>9, BumpEffect
  <2>2. UNCHANGED <<phase, load_ts, latest_ts, snapshot, persisted_max, log,
                    purged_ts, pending_writes>>
    BY <1>9 DEF BumpMaxRepeatableTs
  <2>3. CASE c # b
    BY <1>0, <1>3, <2>1, <2>2, <2>3 DEF TypeOK
  <2>4. CASE c = b
    <3> DEFINE s == persistence_writes[c]
               x == [kind |-> "bump", ts |-> ts]
               q == persistence_writes'[c]
    <3>1. x \in Items /\ x.kind = "bump" /\ x.ts = ts
      BY DEF Items
    <3>2. q = Append(s, x) /\ s \in Seq(Items)
          /\ last_assigned_ts'[c] = assigned
      BY <1>0, <2>1, <2>4 DEF TypeOK
    <3> HIDE DEF s, x, q
    <3>3. /\ Len(q) = Len(s) + 1 /\ Len(s) \in Nat
          /\ \A i \in 1..Len(s) : q[i] = s[i]
          /\ q[Len(s) + 1] = x
      BY <3>1, <3>2, AppendQueue
    <3>4. /\ \A p \in pending_writes[c] : p.commit.ts <= last_assigned_ts[c]
          /\ \A i \in 1..Len(s) : s[i].kind = "bump" =>
               /\ persisted_max[c] <= s[i].ts
               /\ s[i].ts <= last_assigned_ts[c]
               /\ \A p \in pending_writes[c] : s[i].ts < p.commit.ts
          /\ persisted_max[c] <= latest_ts[c]
      BY <1>1 DEF OrderOK, s
    <3>5. /\ latest_ts[c] \in Nat /\ persisted_max[c] \in Nat /\ ts \in Nat
          /\ assigned \in Nat /\ last_assigned_ts[c] \in Nat
          /\ \A p \in pending_writes[c] : p.commit.ts \in Nat
          /\ \A i \in 1..Len(s) : s[i].ts \in Nat
      BY <1>0, NatFacts DEF Timestamps, s
    <3>6. \A p \in pending_writes[c] : p.commit.ts <= assigned
      BY <2>1, <2>4, <3>4, <3>5
    <3>7. \A i \in 1..Len(q) : q[i].kind = "bump" =>
            /\ persisted_max[c] <= q[i].ts /\ q[i].ts <= assigned
            /\ \A p \in pending_writes[c] : q[i].ts < p.commit.ts
      <4> SUFFICES ASSUME NEW i \in 1..Len(q), q[i].kind = "bump"
                   PROVE  /\ persisted_max[c] <= q[i].ts /\ q[i].ts <= assigned
                          /\ \A p \in pending_writes[c] : q[i].ts < p.commit.ts
        OBVIOUS
      <4>1. CASE i \in 1..Len(s)
        BY <2>1, <2>4, <3>3, <3>4, <3>5, <4>1
      <4>2. CASE i = Len(s) + 1
        BY <2>1, <2>4, <3>1, <3>3, <3>4, <3>5, <4>2
      <4> QED
        BY <3>3, <4>1, <4>2
    <3> QED
      BY <1>1, <2>2, <3>2, <3>6, <3>7 DEF OrderOK, q
  <2> QED
    BY <2>3, <2>4
<1>10. ASSUME NEW b \in Backends, UNCHANGED <<startupVars, snapshotVars, logVars,
                pending_writes, persistence_writes, last_assigned_ts>>
       PROVE  OrderOK(c)'
  BY <1>3, <1>10
<1>11. ASSUME NEW b \in Backends, NEW p \in pending_writes[b], PublishCommit(b, p)
       PROVE  OrderOK(c)'
  <2>1. CASE c # b
    BY <1>0, <1>3, <1>11, <2>1 DEF PublishCommit, PopHead, TypeOK
  <2>2. CASE c = b
    <3> DEFINE s == persistence_writes[c]
               q == persistence_writes'[c]
    <3>1. /\ latest_ts'[c] = p.commit.ts
          /\ pending_writes'[c] = pending_writes[c] \ {p}
          /\ log'[c] = log[c] \cup
               {[ts |-> p.commit.ts, writes |-> p.commit.writes]}
          /\ q = Tail(s) /\ s # <<>>
          /\ UNCHANGED <<persisted_max, purged_ts, load_ts, phase,
                         last_assigned_ts>>
      BY <1>0, <1>11, <2>2 DEF PublishCommit, PopHead, HeadLanded, TypeOK
    <3>2. /\ \A r \in pending_writes[c] : p.commit.ts <= r.commit.ts
          /\ \A r \in pending_writes[c] : p.commit.ts = r.commit.ts => p = r
      BY <1>1, <1>11, <2>2 DEF PublishCommit, QueueOK
    <3>3. s \in Seq(Items) /\ p \in pending_writes[c]
      BY <1>0, <2>2 DEF TypeOK
    <3> HIDE DEF s, q
    <3>4. \A i \in 1..Len(q) : i + 1 \in 1..Len(s) /\ q[i] = s[i + 1]
      BY <3>1, <3>3, TailQueue
    <3>5. /\ latest_ts[c] \in Nat /\ persisted_max[c] \in Nat
          /\ purged_ts[c] \in Nat /\ load_ts[c] \in Nat
          /\ \A r \in pending_writes[c] :
               r.commit.ts \in Nat /\ r.commit.begin \in Nat
          /\ \A e \in log[c] : e.ts \in Nat
      BY <1>0, NatFacts
    <3>6. /\ persisted_max[c] <= latest_ts[c] /\ purged_ts[c] <= latest_ts[c]
          /\ phase[c] = "running" => load_ts[c] <= latest_ts[c]
          /\ \A e \in log[c] : e.ts <= latest_ts[c]
          /\ \A r \in pending_writes[c] :
               /\ latest_ts[c] < r.commit.ts
               /\ r.commit.ts <= last_assigned_ts[c]
               /\ r.commit.begin <= latest_ts[c]
          /\ \A i \in 1..Len(s) : s[i].kind = "bump" =>
               /\ persisted_max[c] <= s[i].ts
               /\ s[i].ts <= last_assigned_ts[c]
               /\ \A r \in pending_writes[c] : s[i].ts < r.commit.ts
      BY <1>1 DEF OrderOK, s
    <3>7. \A e \in log'[c] : e.ts <= p.commit.ts
      BY <3>1, <3>3, <3>5, <3>6
    <3>8. \A r \in pending_writes'[c] :
            /\ p.commit.ts < r.commit.ts
            /\ r.commit.ts <= last_assigned_ts[c]
            /\ r.commit.begin <= p.commit.ts
      <4> SUFFICES ASSUME NEW r \in pending_writes[c], r # p
                   PROVE  /\ p.commit.ts < r.commit.ts
                          /\ r.commit.ts <= last_assigned_ts[c]
                          /\ r.commit.begin <= p.commit.ts
        BY <3>1
      <4> QED
        BY <3>2, <3>3, <3>5, <3>6
    <3>9. \A i \in 1..Len(q) : q[i].kind = "bump" =>
            /\ persisted_max[c] <= q[i].ts /\ q[i].ts <= last_assigned_ts[c]
            /\ \A r \in pending_writes'[c] : q[i].ts < r.commit.ts
      BY <3>1, <3>4, <3>6
    <3>10. /\ persisted_max[c] <= p.commit.ts /\ purged_ts[c] <= p.commit.ts
           /\ phase[c] = "running" => load_ts[c] <= p.commit.ts
      BY <3>3, <3>5, <3>6
    <3> QED
      BY <3>1, <3>7, <3>8, <3>9, <3>10 DEF OrderOK, q
  <2> QED
    BY <2>1, <2>2
<1>12. ASSUME NEW b \in Backends, PublishMaxRepeatableTs(b) PROVE OrderOK(c)'
  <2>1. CASE c # b
    BY <1>0, <1>3, <1>12, <2>1 DEF PublishMaxRepeatableTs, PopHead, TypeOK
  <2>2. CASE c = b
    <3> DEFINE s == persistence_writes[c]
               q == persistence_writes'[c]
               ts == s[1].ts
    <3>1. s \in Seq(Items) /\ s # <<>>
      BY <1>0, <1>12, <2>2 DEF PublishMaxRepeatableTs, HeadLanded, TypeOK
    <3>2. Head(s) = s[1] /\ 1 \in 1..Len(s)
      BY <3>1, TailQueue
    <3>3. /\ q = Tail(s) /\ persisted_max'[c] = ts /\ s[1].kind = "bump"
          /\ UNCHANGED <<purged_ts, load_ts, phase, last_assigned_ts,
                         pending_writes>>
      BY <1>0, <1>12, <2>2, <3>2 DEF PublishMaxRepeatableTs, PopHead, TypeOK
    <3>4. \/ /\ latest_ts[c] < ts /\ latest_ts'[c] = ts
             /\ log'[c] = log[c] \cup {[ts |-> ts, writes |-> {}]}
          \/ /\ ~(latest_ts[c] < ts) /\ latest_ts'[c] = latest_ts[c]
             /\ log'[c] = log[c]
      BY <1>0, <1>12, <2>2, <3>2 DEF PublishMaxRepeatableTs, TypeOK
    <3>5. /\ latest_ts[c] \in Nat /\ persisted_max[c] \in Nat /\ ts \in Nat
          /\ purged_ts[c] \in Nat /\ load_ts[c] \in Nat
          /\ \A r \in pending_writes[c] :
               r.commit.ts \in Nat /\ r.commit.begin \in Nat
          /\ \A e \in log[c] : e.ts \in Nat
      BY <1>0, <3>2, NatFacts
    <3>6. /\ persisted_max[c] <= latest_ts[c] /\ purged_ts[c] <= latest_ts[c]
          /\ phase[c] = "running" => load_ts[c] <= latest_ts[c]
          /\ \A e \in log[c] : e.ts <= latest_ts[c]
          /\ \A r \in pending_writes[c] :
               /\ latest_ts[c] < r.commit.ts
               /\ r.commit.ts <= last_assigned_ts[c]
               /\ r.commit.begin <= latest_ts[c]
               /\ ts < r.commit.ts
      BY <1>1, <3>2, <3>3 DEF OrderOK
    <3>7. \A i \in 1..Len(q) : q[i].kind # "bump"
      <4>1. \A i \in 1..Len(s) : s[i].kind = "bump" => i = 1
        BY <1>1, <3>2, <3>3 DEF QueueOK
      <4>2. \A i \in 1..Len(q) : i + 1 \in 1..Len(s) /\ q[i] = s[i + 1]
        BY <3>1, <3>3, TailQueue
      <4> HIDE DEF s, q
      <4> QED
        BY <4>1, <4>2
    <3> HIDE DEF s, q, ts
    <3>8. /\ latest_ts'[c] \in Nat /\ latest_ts[c] <= latest_ts'[c]
          /\ ts <= latest_ts'[c]
      BY <3>4, <3>5
    <3>9. \A e \in log'[c] : e.ts <= latest_ts'[c]
      <4>1. CASE log'[c] = log[c]
        BY <3>5, <3>6, <3>8, <4>1
      <4>2. CASE log'[c] = log[c] \cup {[ts |-> ts, writes |-> {}]}
        BY <3>5, <3>6, <3>8, <4>2
      <4> QED
        BY <3>4, <4>1, <4>2
    <3>10. \A r \in pending_writes'[c] :
             /\ latest_ts'[c] < r.commit.ts
             /\ r.commit.ts <= last_assigned_ts[c]
             /\ r.commit.begin <= latest_ts'[c]
      BY <3>3, <3>4, <3>5, <3>6, <3>8
    <3>11. /\ purged_ts[c] <= latest_ts'[c]
           /\ phase[c] = "running" => load_ts[c] <= latest_ts'[c]
      BY <3>5, <3>6, <3>8
    <3> QED
      BY <3>3, <3>7, <3>8, <3>9, <3>10, <3>11 DEF OrderOK, q
  <2> QED
    BY <2>1, <2>2
<1>13. ASSUME NEW b \in Backends, TrimLog(b) PROVE OrderOK(c)'
  <2>1. PICK e \in log[b] : /\ log' = [log EXCEPT ![b] = log[b] \ {e}]
                            /\ purged_ts' = [purged_ts EXCEPT ![b] = e.ts]
    BY <1>13 DEF TrimLog
  <2>2. UNCHANGED <<startupVars, snapshotVars, queueVars>>
    BY <1>13 DEF TrimLog
  <2> QED
    BY <1>0, <1>1, <2>1, <2>2 DEF OrderOK, TypeOK
<1>14. ASSUME NEW t \in Txns, NEW reads \in SUBSET Keys,
              NEW writes \in SUBSET Keys, NEW ts \in Timestamps,
              RejectCommit(t, reads, writes, ts)
       PROVE  OrderOK(c)'
  <2> DEFINE b == txn[t].backend
  <2>1. /\ b \in Backends /\ last_assigned_ts[b] < ts
        /\ last_assigned_ts' = [last_assigned_ts EXCEPT ![b] = ts]
        /\ UNCHANGED <<startupVars, snapshotVars, logVars, pending_writes,
                       persistence_writes>>
    BY <1>14, StartCommitOpen DEF RejectCommit, ValidateCommit
  <2> HIDE DEF b
  <2>2. /\ last_assigned_ts'[c] \in Nat /\ last_assigned_ts[c] \in Nat
        /\ last_assigned_ts[c] <= last_assigned_ts'[c]
    <3>1. /\ last_assigned_ts[c] \in Nat /\ ts \in Nat
          /\ last_assigned_ts \in [Backends -> Timestamps]
      BY <1>0, NatFacts DEF TypeOK, Timestamps
    <3>2. last_assigned_ts'[c] = IF c = b THEN ts ELSE last_assigned_ts[c]
      BY <2>1, <3>1
    <3> QED
      BY <2>1, <3>1, <3>2
  <2>3. /\ \A p \in pending_writes[c] : p.commit.ts <= last_assigned_ts'[c]
        /\ \A i \in 1..Len(persistence_writes[c]) :
             persistence_writes[c][i].kind = "bump" =>
               persistence_writes[c][i].ts <= last_assigned_ts'[c]
    BY <1>0, <1>1, <2>2, NatFacts DEF OrderOK
  <2> QED
    BY <1>1, <2>1, <2>3 DEF OrderOK
<1>15. ASSUME NEW t \in Txns, NEW reads \in SUBSET Keys,
              NEW writes \in SUBSET Keys, NEW ts \in Timestamps,
              StartCommit(t, reads, writes, ts)
       PROVE  OrderOK(c)'
  <2> DEFINE b == txn[t].backend
             s == persistence_writes[c]
             q == persistence_writes'[c]
  <2>1. /\ b \in Backends /\ last_assigned_ts[b] < ts /\ latest_ts[b] < ts
        /\ txn[t].begin <= latest_ts[b]
        /\ last_assigned_ts' = [last_assigned_ts EXCEPT ![b] = ts]
        /\ persistence_writes' = [persistence_writes EXCEPT ![b] =
             Append(persistence_writes[b], CommitItem(ts))]
    BY <1>15, StartCommitEffect, StartCommitOpen
  <2>2. PICK base \in LatestPendingSnapshot(b) :
          pending_writes' = [pending_writes EXCEPT ![b] =
            pending_writes[b] \cup {PendingWrite(t, reads, writes, ts, base)}]
    BY <1>15, StartCommitPending
  <2>3. UNCHANGED <<startupVars, snapshotVars, logVars>>
    BY <1>15 DEF StartCommit
  <2> DEFINE n == PendingWrite(t, reads, writes, ts, base)
  <2>4. n.commit.ts = ts /\ n.commit.begin = txn[t].begin
    BY PendingWriteFields
  <2> HIDE DEF b, n
  <2>5. CASE c # b
    <3>1. UNCHANGED <<pending_writes[c], persistence_writes[c],
                      last_assigned_ts[c]>>
      BY <1>0, <2>1, <2>2, <2>5 DEF TypeOK
    <3> QED
      BY <1>3, <2>3, <3>1
  <2>6. CASE c = b
    <3>1. /\ q = Append(s, CommitItem(ts)) /\ s \in Seq(Items)
          /\ last_assigned_ts'[c] = ts
          /\ pending_writes'[c] = pending_writes[c] \cup {n}
      BY <1>0, <2>1, <2>2, <2>6 DEF TypeOK, n
    <3>2. /\ CommitItem(ts) \in Items /\ CommitItem(ts).kind = "commit"
      BY DEF CommitItem, Items
    <3>3. /\ ts \in Nat /\ latest_ts[c] \in Nat /\ last_assigned_ts[c] \in Nat
          /\ \A r \in pending_writes[c] : r.commit.ts \in Nat
          /\ \A i \in 1..Len(s) : s[i].ts \in Nat
      BY <1>0, NatFacts DEF Timestamps
    <3>4. /\ \A r \in pending_writes[c] :
               /\ latest_ts[c] < r.commit.ts
               /\ r.commit.ts <= last_assigned_ts[c]
               /\ r.commit.begin <= latest_ts[c]
          /\ \A i \in 1..Len(s) : s[i].kind = "bump" =>
               /\ persisted_max[c] <= s[i].ts
               /\ s[i].ts <= last_assigned_ts[c]
               /\ \A r \in pending_writes[c] : s[i].ts < r.commit.ts
      BY <1>1 DEF OrderOK
    <3> HIDE DEF s, q
    <3>5. /\ Len(q) = Len(s) + 1 /\ Len(s) \in Nat
          /\ \A i \in 1..Len(s) : q[i] = s[i]
          /\ q[Len(s) + 1] = CommitItem(ts)
      BY <3>1, <3>2, AppendQueue
    <3>6. \A r \in pending_writes'[c] :
            /\ latest_ts[c] < r.commit.ts /\ r.commit.ts <= ts
            /\ r.commit.begin <= latest_ts[c]
      BY <2>1, <2>4, <2>6, <3>1, <3>3, <3>4
    <3>7. \A i \in 1..Len(q) : q[i].kind = "bump" =>
            /\ persisted_max[c] <= q[i].ts /\ q[i].ts <= ts
            /\ \A r \in pending_writes'[c] : q[i].ts < r.commit.ts
      <4> SUFFICES ASSUME NEW i \in 1..Len(q), q[i].kind = "bump"
                   PROVE  /\ persisted_max[c] <= q[i].ts /\ q[i].ts <= ts
                          /\ \A r \in pending_writes'[c] : q[i].ts < r.commit.ts
        OBVIOUS
      <4>1. i \in 1..Len(s) /\ q[i] = s[i]
        BY <3>2, <3>5
      <4>2. s[i].ts < ts
        BY <2>1, <2>6, <3>3, <3>4, <4>1
      <4> QED
        BY <2>4, <3>1, <3>3, <3>4, <4>1, <4>2
    <3> QED
      BY <1>1, <2>3, <3>1, <3>6, <3>7 DEF OrderOK, q
  <2> QED
    BY <2>5, <2>6
<1>16. ASSUME NEW b \in Backends, NEW p \in pending_writes[b], LandCommit(b, p)
       PROVE  OrderOK(c)'
  BY <1>10, <1>16 DEF LandCommit
<1>17. ASSUME NEW b \in Backends, NEW ts \in Timestamps, LandBump(b, ts)
       PROVE  OrderOK(c)'
  BY <1>10, <1>17 DEF LandBump
<1>18. ASSUME UNCHANGED <<startupVars, snapshotVars, logVars, queueVars>>
       PROVE  OrderOK(c)'
  BY <1>3, <1>18
<1> QED
  BY ServerActions, <1>4, <1>5, <1>6, <1>7, <1>8, <1>9, <1>11, <1>12, <1>13,
     <1>14, <1>15, <1>16, <1>17, <1>18

-----------------------------------------------------------------------------
(* Open transactions.                                                      *)

\* The latest published timestamp of a backend never goes backward.
LEMMA LatestMonotone ==
  ASSUME LocalInv, [Next]_vars, NEW c \in Backends
  PROVE  latest_ts[c] <= latest_ts'[c]
<1> USE DEF snapshotVars
<1>0. TypeOK /\ StartInv /\ OrderOK(c) /\ TypeOK'
  BY StepType DEF LocalInv, OrderInv
<1>1. latest_ts[c] \in Nat /\ latest_ts'[c] \in Nat
  BY <1>0 DEF TypeOK, Timestamps
<1>2. ASSUME NEW b \in Backends, FinishLoad(b) PROVE latest_ts[c] <= latest_ts'[c]
  <2>1. c = b => latest_ts[c] = 0
    BY <1>0, <1>2 DEF FinishLoad, StartInv
  <2>2. c # b => latest_ts'[c] = latest_ts[c]
    BY <1>0, <1>2 DEF FinishLoad, TypeOK
  <2> QED
    BY <1>1, <2>1, <2>2
<1>3. ASSUME NEW b \in Backends, NEW p \in pending_writes[b], PublishCommit(b, p)
      PROVE  latest_ts[c] <= latest_ts'[c]
  <2>1. c = b => latest_ts'[c] = p.commit.ts /\ latest_ts[c] < p.commit.ts
    BY <1>0, <1>3 DEF PublishCommit, TypeOK, OrderOK
  <2>2. c # b => latest_ts'[c] = latest_ts[c]
    BY <1>0, <1>3 DEF PublishCommit, TypeOK
  <2> QED
    BY <1>1, <2>1, <2>2
<1>4. ASSUME NEW b \in Backends, PublishMaxRepeatableTs(b)
      PROVE  latest_ts[c] <= latest_ts'[c]
  <2> DEFINE ts == Head(persistence_writes[b]).ts
  <2>1. \/ latest_ts[b] < ts /\ latest_ts' = [latest_ts EXCEPT ![b] = ts]
        \/ latest_ts' = latest_ts
    BY <1>4 DEF PublishMaxRepeatableTs
  <2> HIDE DEF ts
  <2>2. \/ c = b /\ latest_ts[c] < ts /\ latest_ts'[c] = ts
        \/ latest_ts'[c] = latest_ts[c]
    BY <1>0, <2>1 DEF TypeOK
  <2> QED
    BY <1>1, <2>2
<1>5. CASE latest_ts' = latest_ts
  BY <1>1, <1>5
<1> QED
  BY ServerActions, <1>2, <1>3, <1>4, <1>5
     DEF AcquireLease, IdleRepeatableTs, WriteIdleRepeatableTs, LoadSnapshot,
         BumpMaxRepeatableTs, LandCommit, LandBump, TrimLog, RejectCommit,
         StartCommit

\* A running backend runs until it dies.
LEMMA RunningStable ==
  ASSUME LocalInv, [Next]_vars, NEW c \in Backends, phase[c] = "running"
  PROVE  phase'[c] = "running"
BY NotRunningStep

\* Who changes what clients know.
LEMMA ClientActions ==
  ASSUME [Next]_vars
  PROVE  \/ UNCHANGED <<txn, alive>>
         \/ \E b \in Backends :
              Shutdown(b) /\ UNCHANGED <<persistenceVars, startupVars,
                                 snapshotVars, logVars, queueVars>>
         \/ \E b \in Backends : \E p \in pending_writes[b] : PublishCommit(b, p)
         \/ \E t \in Txns, b \in Backends : Begin(t, b)
         \/ \E t \in Txns : ReadOnlyCommit(t)
         \/ \E t \in Txns, reads, writes \in SUBSET Keys, ts \in Timestamps :
              \/ RejectCommit(t, reads, writes, ts)
              \/ StartCommit(t, reads, writes, ts)
BY DEF Next, vars, AcquireLease, LeaseRefused, IdleRepeatableTs,
       WriteIdleRepeatableTs, LoadSnapshot, FinishLoad, LoadRace,
       BumpMaxRepeatableTs, LandCommit, LandBump, PublishMaxRepeatableTs,
       TrimLog, LeaseLost, Crash

LEMMA OpenStep ==
  ASSUME LocalInv, [Next]_vars PROVE OpenInv'
<1>0. TypeOK /\ OpenInv
  BY DEF LocalInv
<1> SUFFICES ASSUME NEW u \in Txns
             PROVE  /\ txn'[u].phase \in {"running", "readonly"} =>
                         /\ txn'[u].backend \in Backends
                         /\ phase'[txn'[u].backend] = "running"
                         /\ txn'[u].begin <= latest_ts'[txn'[u].backend]
                    /\ txn'[u].phase \in {"running", "committing"} =>
                         txn'[u].backend \in Backends /\ alive'[txn'[u].backend]
  BY DEF OpenInv
<1> DEFINE Good ==
      /\ txn'[u].phase \in {"running", "readonly"} =>
           /\ txn'[u].backend \in Backends
           /\ phase'[txn'[u].backend] = "running"
           /\ txn'[u].begin <= latest_ts'[txn'[u].backend]
      /\ txn'[u].phase \in {"running", "committing"} =>
           txn'[u].backend \in Backends /\ alive'[txn'[u].backend]
<1>1. txn[u] \in ClientTxns
  BY <1>0 DEF TypeOK
<1>2. ASSUME txn[u].phase \in {"running", "readonly"}
      PROVE  /\ txn[u].backend \in Backends
             /\ phase'[txn[u].backend] = "running"
             /\ txn[u].begin <= latest_ts'[txn[u].backend]
  <2>1. /\ txn[u].backend \in Backends /\ phase[txn[u].backend] = "running"
        /\ txn[u].begin <= latest_ts[txn[u].backend]
    BY <1>0, <1>2 DEF OpenInv
  <2>2. latest_ts[txn[u].backend] <= latest_ts'[txn[u].backend]
    BY <2>1, LatestMonotone
  <2>3. /\ latest_ts[txn[u].backend] \in Nat /\ latest_ts'[txn[u].backend] \in Nat
        /\ txn[u].begin \in Nat
    <3>1. TypeOK'
      BY <1>0, StepType
    <3> QED
      BY <1>0, <1>1, <2>1, <3>1 DEF TypeOK, Timestamps, ClientTxns
  <2> QED
    BY <2>1, <2>2, <2>3, RunningStable
<1>3. ASSUME txn'[u].backend = txn[u].backend, txn'[u].begin = txn[u].begin,
             txn'[u].phase \in {"running", "readonly"} =>
               txn[u].phase \in {"running", "readonly"},
             txn'[u].phase \in {"running", "committing"} =>
               /\ txn[u].phase \in {"running", "committing"}
               /\ alive'[txn[u].backend] = alive[txn[u].backend]
      PROVE  Good
  BY <1>0, <1>2, <1>3 DEF OpenInv
<1>4. ASSUME UNCHANGED <<txn, alive>> PROVE Good
  BY <1>3, <1>4
<1>5. ASSUME NEW b \in Backends, Shutdown(b) PROVE Good
  <2>1. txn'[u] = IF txn[u].backend = b /\ txn[u].phase = "running"
                  THEN [txn[u] EXCEPT !.phase = "failed"]
                  ELSE IF txn[u].backend = b /\ txn[u].phase = "committing"
                  THEN [txn[u] EXCEPT !.phase = "unknown"]
                  ELSE txn[u]
    BY <1>5 DEF Shutdown
  <2>2. alive' = [alive EXCEPT ![b] = FALSE]
    BY <1>5 DEF Shutdown
  <2>3. CASE txn[u].backend = b /\ txn[u].phase = "running"
    <3>1. txn'[u].phase = "failed"
      BY <1>1, <2>1, <2>3 DEF ClientTxns
    <3> QED
      BY <3>1
  <2>4. CASE txn[u].backend = b /\ txn[u].phase = "committing"
    <3>1. txn'[u].phase = "unknown"
      BY <1>1, <2>1, <2>4 DEF ClientTxns
    <3> QED
      BY <3>1
  <2>5. CASE ~(txn[u].backend = b /\ txn[u].phase \in {"running", "committing"})
    <3>1. txn'[u] = txn[u]
      BY <2>1, <2>5
    <3>2. txn[u].phase \in {"running", "committing"} =>
            txn[u].backend \in Backends /\ txn[u].backend # b
      BY <1>0, <2>5 DEF OpenInv
    <3>3. txn[u].phase \in {"running", "committing"} =>
            alive'[txn[u].backend] = alive[txn[u].backend]
      BY <1>0, <2>2, <3>2 DEF TypeOK
    <3> QED
      BY <1>3, <3>1, <3>3
  <2> QED
    BY <2>3, <2>4, <2>5
<1>6. ASSUME NEW b \in Backends, NEW p \in pending_writes[b], PublishCommit(b, p)
      PROVE  Good
  <2>1. /\ txn' = [txn EXCEPT ![p.commit.txn].phase = "ok",
                              ![p.commit.txn].ts = p.commit.ts]
        /\ alive' = alive
    BY <1>6 DEF PublishCommit
  <2>2. CASE u # p.commit.txn
    <3>1. txn'[u] = txn[u]
      BY <1>0, <2>1, <2>2 DEF TypeOK
    <3> QED
      BY <1>3, <2>1, <3>1
  <2>3. CASE u = p.commit.txn
    <3>1. txn'[u].phase = "ok"
      BY <1>0, <1>1, <2>1, <2>3 DEF TypeOK, ClientTxns
    <3> QED
      BY <3>1
  <2> QED
    BY <2>2, <2>3
<1>7. ASSUME NEW t \in Txns, NEW b \in Backends, Begin(t, b) PROVE Good
  <2>1. PICK acked \in Timestamps :
          txn' = [txn EXCEPT ![t] = [phase |-> "running", backend |-> b,
                                     begin |-> latest_ts[b],
                                     view |-> snapshot[b],
                                     acked |-> acked, ts |-> 0]]
    BY <1>7 DEF Begin
  <2>2. /\ phase[b] = "running" /\ alive[b]
        /\ UNCHANGED <<phase, alive, latest_ts>>
    BY <1>7 DEF Begin, Running, startupVars, snapshotVars
  <2>3. CASE u # t
    <3>1. txn'[u] = txn[u]
      BY <1>0, <2>1, <2>3 DEF TypeOK
    <3> QED
      BY <1>3, <2>2, <3>1
  <2>4. CASE u = t
    <3>1. /\ txn'[u].phase = "running" /\ txn'[u].backend = b
          /\ txn'[u].begin = latest_ts[b]
      BY <1>0, <2>1, <2>4 DEF TypeOK
    <3>2. latest_ts[b] \in Nat
      BY <1>0 DEF TypeOK, Timestamps
    <3> QED
      BY <2>2, <3>1, <3>2
  <2> QED
    BY <2>3, <2>4
<1>8. ASSUME NEW t \in Txns, NEW ph, txn' = [txn EXCEPT ![t].phase = ph],
             txn[t].phase = "running", alive' = alive,
             ph \in {"readonly", "failed", "committing"}
      PROVE  Good
  <2>1. CASE u # t
    <3>1. txn'[u] = txn[u]
      BY <1>0, <1>8, <2>1 DEF TypeOK
    <3> QED
      BY <1>3, <1>8, <3>1
  <2>2. CASE u = t
    <3>1. /\ txn'[u].phase = ph /\ txn'[u].backend = txn[u].backend
          /\ txn'[u].begin = txn[u].begin
      BY <1>0, <1>1, <1>8, <2>2 DEF TypeOK, ClientTxns
    <3> QED
      BY <1>3, <1>8, <2>2, <3>1
  <2> QED
    BY <2>1, <2>2
<1>9. ASSUME NEW t \in Txns, ReadOnlyCommit(t) PROVE Good
  <2>1. /\ txn' = [txn EXCEPT ![t].phase = "readonly"]
        /\ txn[t].phase = "running" /\ alive' = alive
    BY <1>9 DEF ReadOnlyCommit
  <2> QED
    BY <1>8, <2>1
<1>10. ASSUME NEW t \in Txns, NEW reads \in SUBSET Keys,
              NEW writes \in SUBSET Keys, NEW ts \in Timestamps,
              RejectCommit(t, reads, writes, ts)
       PROVE  Good
  <2>1. /\ txn' = [txn EXCEPT ![t].phase = "failed"]
        /\ txn[t].phase = "running" /\ alive' = alive
    BY <1>10 DEF RejectCommit, ValidateCommit
  <2> QED
    BY <1>8, <2>1
<1>11. ASSUME NEW t \in Txns, NEW reads \in SUBSET Keys,
              NEW writes \in SUBSET Keys, NEW ts \in Timestamps,
              StartCommit(t, reads, writes, ts)
       PROVE  Good
  <2>1. /\ txn' = [txn EXCEPT ![t].phase = "committing"]
        /\ txn[t].phase = "running" /\ alive' = alive
    BY <1>11 DEF StartCommit, ValidateCommit
  <2> QED
    BY <1>8, <2>1
<1> HIDE DEF Good
<1>12. Good
  <2>1. CASE \E b \in Backends : Shutdown(b)
    BY <1>5, <2>1
  <2>2. CASE \E b \in Backends : \E p \in pending_writes[b] : PublishCommit(b, p)
    BY <1>6, <2>2
  <2>3. CASE \E t \in Txns, b \in Backends : Begin(t, b)
    BY <1>7, <2>3
  <2>4. CASE \E t \in Txns : ReadOnlyCommit(t)
    BY <1>9, <2>4
  <2>5. CASE \E t \in Txns, reads, writes \in SUBSET Keys, ts \in Timestamps :
               \/ RejectCommit(t, reads, writes, ts)
               \/ StartCommit(t, reads, writes, ts)
    BY <1>10, <1>11, <2>5
  <2> QED
    BY ClientActions, <1>4, <2>1, <2>2, <2>3, <2>4, <2>5
<1> QED
  BY <1>12 DEF Good

-----------------------------------------------------------------------------
(* The theorems.                                                           *)

LEMMA LocalInit == Init => LocalInv
<1> SUFFICES ASSUME Init PROVE LocalInv
  OBVIOUS
<1>1. TypeOK
  BY InitType
<1>2. StartInv
  BY DEF Init, StartInv
<1>3. ASSUME NEW b \in Backends PROVE QueueOK(b) /\ OrderOK(b)
  <2>1. /\ persistence_writes[b] = <<>> /\ pending_writes[b] = {}
        /\ landed[b] = {} /\ log[b] = {} /\ phase[b] = "off"
        /\ persisted_max[b] = 0 /\ latest_ts[b] = 0 /\ purged_ts[b] = 0
    BY DEF Init
  <2> QED
    BY <2>1 DEF QueueOK, OrderOK
<1>4. OpenInv
  <2>1. \A t \in Txns : txn[t].phase = "idle"
    BY DEF Init
  <2> QED
    BY <2>1 DEF OpenInv
<1> QED
  BY <1>1, <1>2, <1>3, <1>4 DEF LocalInv, QueueInv, OrderInv

LEMMA LocalStep == LocalInv /\ [Next]_vars => LocalInv'
<1> SUFFICES ASSUME LocalInv, [Next]_vars PROVE LocalInv'
  OBVIOUS
<1>1. TypeOK'
  BY StepType DEF LocalInv
<1> QED
  BY <1>1, StartStep, QueueStep, OrderStep, OpenStep DEF LocalInv

\* Each backend's queue of persistence writes mirrors its pending writes, in
\* timestamp order, and every timestamp in its memory is where the code
\* expects it, through any interleaving of commits, bumps, late writes,
\* trims, crashes and take-overs.
THEOREM LocallyOrdered == Spec => []LocalInv
<1>1. Init => LocalInv
  BY LocalInit
<1>2. LocalInv /\ [Next]_vars => LocalInv'
  BY LocalStep
<1> QED
  BY <1>1, <1>2, PTL DEF Spec

LEMMA LocalAssertions == LocalInv => AssertionsHold
<1> SUFFICES ASSUME LocalInv, NEW b \in Backends
             PROVE  /\ persisted_max[b] <= latest_ts[b]
                    /\ persistence_writes[b] # <<>> =>
                         LET head == Head(persistence_writes[b]) IN
                         /\ head.kind = "commit" =>
                              /\ \E p \in pending_writes[b] : p.commit.ts = head.ts
                              /\ \A p \in pending_writes[b] : head.ts <= p.commit.ts
                              /\ latest_ts[b] < head.ts /\ purged_ts[b] < head.ts
                              /\ \A e \in log[b] : e.ts < head.ts
                         /\ head.kind = "bump" =>
                              /\ persisted_max[b] <= head.ts
                              /\ latest_ts[b] < head.ts =>
                                   \A e \in log[b] : e.ts < head.ts
  BY DEF AssertionsHold
<1>1. TypeOK /\ QueueOK(b) /\ OrderOK(b)
  BY DEF LocalInv, QueueInv, OrderInv
<1>2. persisted_max[b] <= latest_ts[b]
  BY <1>1 DEF OrderOK
<1> DEFINE s == persistence_writes[b]
<1>3. ASSUME s # <<>>
      PROVE  Head(s) = s[1] /\ 1 \in 1..Len(s) /\ s[1].ts \in Nat
  <2>1. s \in Seq(Items)
    BY <1>1 DEF TypeOK
  <2> QED
    BY <1>1, <1>3, <2>1, TailQueue, NatFacts
<1>4. ASSUME s # <<>>, s[1].kind = "commit"
      PROVE  /\ \E p \in pending_writes[b] : p.commit.ts = s[1].ts
             /\ \A p \in pending_writes[b] : s[1].ts <= p.commit.ts
             /\ latest_ts[b] < s[1].ts /\ purged_ts[b] < s[1].ts
             /\ \A e \in log[b] : e.ts < s[1].ts
  <2>1. PICK q \in pending_writes[b] : q.commit.ts = s[1].ts
    BY <1>1, <1>3, <1>4 DEF QueueOK
  <2>2. ASSUME NEW p \in pending_writes[b] PROVE s[1].ts <= p.commit.ts
    <3>1. PICK i \in 1..Len(s) : s[i] = CommitItem(p.commit.ts)
      BY <1>1 DEF QueueOK
    <3>2. s[i].kind = "commit" /\ s[i].ts = p.commit.ts
      BY <3>1 DEF CommitItem
    <3>3. i # 1 => s[1].ts < s[i].ts
      BY <1>1, <1>3, <1>4, <3>2 DEF QueueOK
    <3> QED
      BY <1>1, <1>3, <1>4, <3>2, <3>3, NatFacts
  <2>3. latest_ts[b] < s[1].ts
    BY <1>1, <2>1 DEF OrderOK
  <2>4. purged_ts[b] <= latest_ts[b] /\ \A e \in log[b] : e.ts <= latest_ts[b]
    BY <1>1 DEF OrderOK
  <2>5. /\ latest_ts[b] \in Nat /\ purged_ts[b] \in Nat
        /\ \A e \in log[b] : e.ts \in Nat
    BY <1>1, NatFacts
  <2>6. purged_ts[b] < s[1].ts /\ \A e \in log[b] : e.ts < s[1].ts
    BY <1>3, <1>4, <2>3, <2>4, <2>5
  <2> QED
    BY <2>1, <2>2, <2>3, <2>6
<1>5. ASSUME s # <<>>, s[1].kind = "bump"
      PROVE  /\ persisted_max[b] <= s[1].ts
             /\ latest_ts[b] < s[1].ts => \A e \in log[b] : e.ts < s[1].ts
  <2>1. /\ persisted_max[b] <= s[1].ts
        /\ \A e \in log[b] : e.ts <= latest_ts[b]
    BY <1>1, <1>3, <1>5 DEF OrderOK
  <2>2. latest_ts[b] \in Nat /\ \A e \in log[b] : e.ts \in Nat
    BY <1>1, NatFacts
  <2> QED
    BY <1>3, <1>5, <2>1, <2>2
<1> QED
  BY <1>2, <1>3, <1>4, <1>5

\* publish_commit never panics "commits out of order", and the assertions of
\* append, push and the bump of persisted_max_repeatable_ts never fail.
THEOREM AssertionsNeverFail == Spec => []AssertionsHold
BY LocallyOrdered, LocalAssertions, PTL


-----------------------------------------------------------------------------
(* Which actions touch persistence, and how.                               *)

\* The four actions that write to persistence.
LEMMA PersistenceActions ==
  ASSUME [Next]_vars
  PROVE  \/ UNCHANGED persistenceVars
         \/ \E b \in Backends :
              \/ \E ts \in 1..MaxLease : AcquireLease(b, ts)
              \/ WriteIdleRepeatableTs(b)
              \/ \E p \in pending_writes[b] : LandCommit(b, p)
              \/ \E ts \in Timestamps : LandBump(b, ts)
BY DEF Next, vars, LeaseRefused, IdleRepeatableTs, LoadSnapshot, FinishLoad,
       LoadRace, BumpMaxRepeatableTs, PublishCommit, PublishMaxRepeatableTs,
       TrimLog, LeaseLost, Crash, Begin, ReadOnlyCommit, RejectCommit,
       StartCommit

\* The five actions of start-up.
LEMMA StartupActions ==
  ASSUME [Next]_vars
  PROVE  \/ UNCHANGED startupVars
         \/ \E b \in Backends :
              \/ \E ts \in 1..MaxLease : AcquireLease(b, ts)
              \/ IdleRepeatableTs(b)
              \/ WriteIdleRepeatableTs(b)
              \/ LoadSnapshot(b)
              \/ FinishLoad(b)
BY DEF Next, vars, LeaseRefused, LoadRace, BumpMaxRepeatableTs, LandCommit,
       LandBump, PublishCommit, PublishMaxRepeatableTs, TrimLog, LeaseLost,
       Crash, Begin, ReadOnlyCommit, RejectCommit, StartCommit

LEMMA DocumentActions ==
  ASSUME [Next]_vars
  PROVE  \/ documents' = documents
         \/ \E b \in Backends : \E p \in pending_writes[b] : LandCommit(b, p)
BY PersistenceActions DEF persistenceVars, AcquireLease,
   WriteIdleRepeatableTs, LandBump

LEMMA GlobalActions ==
  ASSUME [Next]_vars
  PROVE  \/ max_repeatable' = max_repeatable
         \/ \E b \in Backends : \/ WriteIdleRepeatableTs(b)
                                \/ \E ts \in Timestamps : LandBump(b, ts)
BY PersistenceActions DEF persistenceVars, AcquireLease, LandCommit

LEMMA LeaseActions ==
  ASSUME [Next]_vars
  PROVE  \/ UNCHANGED <<lease, lease_ts>>
         \/ \E b \in Backends, ts \in 1..MaxLease : AcquireLease(b, ts)
<1>1. \/ lease' = lease
      \/ \E b \in Backends, ts \in 1..MaxLease : AcquireLease(b, ts)
  BY PersistenceActions DEF persistenceVars, WriteIdleRepeatableTs,
     LandCommit, LandBump
<1>2. \/ lease_ts' = lease_ts
      \/ \E b \in Backends, ts \in 1..MaxLease : AcquireLease(b, ts)
  BY StartupActions DEF startupVars, IdleRepeatableTs, WriteIdleRepeatableTs,
     LoadSnapshot, FinishLoad
<1> QED
  BY <1>1, <1>2

\* How a backend moves through start-up.
LEMMA PhaseStep ==
  ASSUME TypeOK, [Next]_vars, NEW c \in Backends
  PROVE  \/ UNCHANGED <<phase[c], load_ts[c]>>
         \/ \E ts \in 1..MaxLease : AcquireLease(c, ts)
         \/ IdleRepeatableTs(c)
         \/ WriteIdleRepeatableTs(c)
         \/ LoadSnapshot(c)
         \/ FinishLoad(c)
<1>1. ASSUME NEW b \in Backends, NEW ts \in 1..MaxLease, AcquireLease(b, ts),
             b # c
      PROVE  UNCHANGED <<phase[c], load_ts[c]>>
  BY <1>1 DEF AcquireLease, TypeOK
<1>2. ASSUME NEW b \in Backends, b # c,
             \/ IdleRepeatableTs(b) \/ WriteIdleRepeatableTs(b)
             \/ LoadSnapshot(b) \/ FinishLoad(b)
      PROVE  UNCHANGED <<phase[c], load_ts[c]>>
  BY <1>2 DEF IdleRepeatableTs, WriteIdleRepeatableTs, LoadSnapshot,
              FinishLoad, TypeOK
<1> QED
  BY <1>1, <1>2, StartupActions DEF startupVars

\* What each step of start-up does.
LEMMA StartupEffect ==
  ASSUME TypeOK, NEW c \in Backends
  PROVE  /\ \A ts \in 1..MaxLease : AcquireLease(c, ts) =>
              /\ phase[c] = "off" /\ phase'[c] = "leased"
              /\ load_ts'[c] = load_ts[c]
         /\ IdleRepeatableTs(c) =>
              /\ phase[c] = "leased" /\ phase'[c] = "idle_ts"
              /\ max_repeatable <= load_ts'[c]
              /\ \A d \in documents : d.ts <= load_ts'[c]
              /\ UNCHANGED <<documents, max_repeatable, lease, lease_ts>>
         /\ WriteIdleRepeatableTs(c) =>
              /\ phase[c] = "idle_ts" /\ phase'[c] = "idle_written"
              /\ load_ts'[c] = load_ts[c]
              /\ max_repeatable' = load_ts[c] /\ Holds(c)
              /\ UNCHANGED <<documents, lease, lease_ts>>
         /\ LoadSnapshot(c) =>
              /\ phase[c] = "idle_written" /\ phase'[c] = "snapshot_read"
              /\ load_ts'[c] = load_ts[c]
              /\ UNCHANGED <<documents, max_repeatable, lease, lease_ts>>
         /\ FinishLoad(c) =>
              /\ phase[c] = "snapshot_read" /\ phase'[c] = "running"
              /\ load_ts'[c] = load_ts[c]
              /\ latest_ts'[c] = load_ts[c] /\ persisted_max'[c] = load_ts[c]
              /\ purged_ts'[c] = load_ts[c]
              /\ IsMaxTs(load_ts[c])
              /\ UNCHANGED <<documents, max_repeatable, lease, lease_ts, landed,
                             pending_writes, persistence_writes, log, snapshot>>
<1> USE DEF persistenceVars, queueVars
<1>1. ASSUME NEW ts \in 1..MaxLease, AcquireLease(c, ts)
      PROVE  phase[c] = "off" /\ phase'[c] = "leased" /\ load_ts'[c] = load_ts[c]
  BY <1>1 DEF AcquireLease, TypeOK
<1>2. ASSUME IdleRepeatableTs(c)
      PROVE  /\ phase[c] = "leased" /\ phase'[c] = "idle_ts"
             /\ max_repeatable <= load_ts'[c]
             /\ \A d \in documents : d.ts <= load_ts'[c]
             /\ UNCHANGED <<documents, max_repeatable, lease, lease_ts>>
  BY <1>2 DEF IdleRepeatableTs, TypeOK
<1>3. ASSUME WriteIdleRepeatableTs(c)
      PROVE  /\ phase[c] = "idle_ts" /\ phase'[c] = "idle_written"
             /\ load_ts'[c] = load_ts[c]
             /\ max_repeatable' = load_ts[c] /\ Holds(c)
             /\ UNCHANGED <<documents, lease, lease_ts>>
  BY <1>3 DEF WriteIdleRepeatableTs, TypeOK
<1>4. ASSUME LoadSnapshot(c)
      PROVE  /\ phase[c] = "idle_written" /\ phase'[c] = "snapshot_read"
             /\ load_ts'[c] = load_ts[c]
             /\ UNCHANGED <<documents, max_repeatable, lease, lease_ts>>
  BY <1>4 DEF LoadSnapshot, TypeOK
<1>5. ASSUME FinishLoad(c)
      PROVE  /\ phase[c] = "snapshot_read" /\ phase'[c] = "running"
             /\ load_ts'[c] = load_ts[c]
             /\ latest_ts'[c] = load_ts[c] /\ persisted_max'[c] = load_ts[c]
             /\ purged_ts'[c] = load_ts[c]
             /\ IsMaxTs(load_ts[c])
             /\ UNCHANGED <<documents, max_repeatable, lease, lease_ts, landed,
                            pending_writes, persistence_writes, log, snapshot>>
  BY <1>5 DEF FinishLoad, TypeOK
<1> QED
  BY <1>1, <1>2, <1>3, <1>4, <1>5

\* What a landing write does; only a running holder has one.
LEMMA LandCommitEffect ==
  ASSUME LocalInv, NEW b \in Backends, NEW p \in pending_writes[b],
         LandCommit(b, p)
  PROVE  /\ Holds(b) /\ phase[b] = "running"
         /\ latest_ts[b] < p.commit.ts /\ load_ts[b] <= latest_ts[b]
         /\ CommitItem(p.commit.ts) \notin landed[b]
         /\ documents' = documents \cup {p.commit}
         /\ landed' = [landed EXCEPT ![b] = landed[b] \cup {CommitItem(p.commit.ts)}]
         /\ UNCHANGED <<max_repeatable, lease, startupVars, alive, snapshotVars,
                        logVars, pending_writes, persistence_writes,
                        last_assigned_ts, txn>>
<1>1. persistence_writes[b] # <<>>
  BY DEF LandCommit, InFlight
<1>2. phase[b] = "running"
  BY <1>1 DEF LocalInv, StartInv
<1>3. latest_ts[b] < p.commit.ts /\ load_ts[b] <= latest_ts[b]
  BY <1>2 DEF LocalInv, OrderInv, OrderOK
<1> QED
  BY <1>2, <1>3 DEF LandCommit, InFlight, CommitItem

LEMMA LandBumpEffect ==
  ASSUME LocalInv, NEW b \in Backends, NEW ts \in Timestamps, LandBump(b, ts)
  PROVE  LET x == [kind |-> "bump", ts |-> ts] IN
         /\ Holds(b) /\ phase[b] = "running"
         /\ persisted_max[b] <= ts
         /\ \A y \in landed[b] : y.kind # "bump"
         /\ max_repeatable' = ts
         /\ landed' = [landed EXCEPT ![b] = landed[b] \cup {x}]
         /\ UNCHANGED <<documents, lease, startupVars, alive, snapshotVars,
                        logVars, pending_writes, persistence_writes,
                        last_assigned_ts, txn>>
<1> DEFINE x == [kind |-> "bump", ts |-> ts]
           s == persistence_writes[b]
<1>1. PICK i \in 1..Len(s) : s[i] = x
  BY DEF LandBump, InFlight
<1>2. x \notin landed[b] /\ x.kind = "bump" /\ x.ts = ts
  BY DEF LandBump, InFlight
<1>3. s \in Seq(Items) /\ QueueOK(b) /\ OrderOK(b)
  BY DEF LocalInv, TypeOK, QueueInv, OrderInv
<1>4. s # <<>>
  BY <1>1, <1>3
<1>5. phase[b] = "running"
  BY <1>4 DEF LocalInv, StartInv
<1>6. persisted_max[b] <= ts
  BY <1>1, <1>2, <1>3 DEF OrderOK
<1>7. ASSUME NEW y \in landed[b], y.kind = "bump" PROVE FALSE
  <2>1. PICK j \in 1..Len(s) : s[j] = y
    BY <1>3 DEF QueueOK
  <2>2. i = j
    BY <1>1, <1>2, <1>3, <1>7, <2>1 DEF QueueOK
  <2> QED
    BY <1>1, <1>2, <2>1, <2>2
<1> QED
  BY <1>5, <1>6, <1>7 DEF LandBump

\* What a publication does, for the backend that publishes.
LEMMA PublishCommitEffect ==
  ASSUME LocalInv, NEW b \in Backends, NEW p \in pending_writes[b],
         PublishCommit(b, p)
  PROVE  /\ phase[b] = "running" /\ alive[b]
         /\ CommitItem(p.commit.ts) \in landed[b]
         /\ \A q \in pending_writes[b] : q # p => p.commit.ts < q.commit.ts
         /\ latest_ts[b] < p.commit.ts
         /\ latest_ts' = [latest_ts EXCEPT ![b] = p.commit.ts]
         /\ snapshot' = [snapshot EXCEPT ![b] = p.snapshot]
         /\ pending_writes' = [pending_writes EXCEPT ![b] = pending_writes[b] \ {p}]
         /\ landed' = [landed EXCEPT ![b] = landed[b] \ {CommitItem(p.commit.ts)}]
         /\ log' = [log EXCEPT ![b] = log[b] \cup
                      {[ts |-> p.commit.ts, writes |-> p.commit.writes]}]
         /\ UNCHANGED <<persistenceVars, startupVars, alive, persisted_max,
                        purged_ts>>
<1>1. TypeOK /\ QueueOK(b) /\ OrderOK(b)
  BY DEF LocalInv, QueueInv, OrderInv
<1>2. Head(persistence_writes[b]) = CommitItem(p.commit.ts)
  BY <1>1, HeadIsFirst DEF PublishCommit, HeadLanded
<1>3. CommitItem(p.commit.ts) \in landed[b]
  BY <1>2 DEF PublishCommit, HeadLanded
<1>4. ASSUME NEW q \in pending_writes[b], q # p PROVE p.commit.ts < q.commit.ts
  <2>1. p.commit.ts <= q.commit.ts /\ p.commit.ts # q.commit.ts
    BY <1>1, <1>4 DEF PublishCommit, QueueOK
  <2> QED
    BY <1>1, <1>4, <2>1, NatFacts
<1>5. latest_ts[b] < p.commit.ts
  BY <1>1 DEF OrderOK
<1>6. landed' = [landed EXCEPT ![b] = landed[b] \ {CommitItem(p.commit.ts)}]
  BY <1>2 DEF PublishCommit, PopHead
<1> QED
  BY <1>3, <1>4, <1>5, <1>6 DEF PublishCommit, Running

LEMMA PublishBumpEffect ==
  ASSUME LocalInv, NEW b \in Backends, PublishMaxRepeatableTs(b)
  PROVE  \E x \in landed[b] :
         /\ x.kind = "bump" /\ x.ts \in Timestamps
         /\ phase[b] = "running"
         /\ persisted_max[b] <= x.ts
         /\ \A y \in landed[b] : y.kind = "bump" => y = x
         /\ \A p \in pending_writes[b] : x.ts < p.commit.ts
         /\ landed' = [landed EXCEPT ![b] = landed[b] \ {x}]
         /\ persisted_max' = [persisted_max EXCEPT ![b] = x.ts]
         /\ \/ /\ latest_ts[b] < x.ts
               /\ latest_ts' = [latest_ts EXCEPT ![b] = x.ts]
               /\ log' = [log EXCEPT ![b] = log[b] \cup
                            {[ts |-> x.ts, writes |-> {}]}]
            \/ UNCHANGED <<latest_ts, log>>
         /\ UNCHANGED <<persistenceVars, startupVars, alive, snapshot,
                        purged_ts, pending_writes, txn>>
<1> DEFINE s == persistence_writes[b]
           x == Head(s)
<1>1. TypeOK /\ QueueOK(b) /\ OrderOK(b) /\ s \in Seq(Items)
  BY DEF LocalInv, QueueInv, OrderInv, TypeOK
<1>2. s # <<>> /\ x \in landed[b] /\ x.kind = "bump"
  BY DEF PublishMaxRepeatableTs, HeadLanded
<1>3. x = s[1] /\ 1 \in 1..Len(s)
  BY <1>1, <1>2, TailQueue
<1>4. x.ts \in Timestamps
  BY <1>1, <1>2 DEF TypeOK, Items
<1>5. persisted_max[b] <= x.ts /\ \A p \in pending_writes[b] : x.ts < p.commit.ts
  BY <1>1, <1>2, <1>3 DEF OrderOK
<1>6. ASSUME NEW y \in landed[b], y.kind = "bump" PROVE y = x
  <2>1. PICK j \in 1..Len(s) : s[j] = y
    BY <1>1 DEF QueueOK
  <2>2. j = 1
    BY <1>1, <1>2, <1>3, <1>6, <2>1 DEF QueueOK
  <2> QED
    BY <1>3, <2>1, <2>2
<1>7. /\ phase[b] = "running"
      /\ landed' = [landed EXCEPT ![b] = landed[b] \ {x}]
      /\ persisted_max' = [persisted_max EXCEPT ![b] = x.ts]
      /\ \/ /\ latest_ts[b] < x.ts
            /\ latest_ts' = [latest_ts EXCEPT ![b] = x.ts]
            /\ log' = [log EXCEPT ![b] = log[b] \cup
                         {[ts |-> x.ts, writes |-> {}]}]
         \/ UNCHANGED <<latest_ts, log>>
      /\ UNCHANGED <<persistenceVars, startupVars, alive, snapshot,
                     purged_ts, pending_writes, txn>>
  BY DEF PublishMaxRepeatableTs, PopHead, Running
<1> HIDE DEF x, s
<1> QED
  BY <1>2, <1>4, <1>5, <1>6, <1>7


-----------------------------------------------------------------------------
(* The memory of one backend.                                              *)

\* The actions that change what a backend has published or queued.
LEMMA MemoryStep ==
  ASSUME LocalInv, [Next]_vars, NEW c \in Backends
  PROVE  \/ UNCHANGED <<latest_ts[c], persisted_max[c], pending_writes[c],
                        landed[c]>>
         \/ FinishLoad(c)
         \/ \E p \in pending_writes[c] : LandCommit(c, p)
         \/ \E ts \in Timestamps : LandBump(c, ts)
         \/ \E p \in pending_writes[c] : PublishCommit(c, p)
         \/ PublishMaxRepeatableTs(c)
         \/ \E t \in Txns, reads, writes \in SUBSET Keys, ts \in Timestamps :
              StartCommit(t, reads, writes, ts) /\ txn[t].backend = c
<1> DEFINE Quiet == UNCHANGED <<latest_ts[c], persisted_max[c],
                                pending_writes[c], landed[c]>>
<1> USE DEF snapshotVars, queueVars
<1>0. TypeOK
  BY DEF LocalInv
<1>1. ASSUME UNCHANGED <<snapshotVars, queueVars>> PROVE Quiet
  BY <1>1
<1>2. ASSUME NEW b \in Backends, NEW ts, AcquireLease(b, ts) PROVE Quiet
  BY <1>2 DEF AcquireLease
<1>3. ASSUME NEW b \in Backends, IdleRepeatableTs(b) PROVE Quiet
  BY <1>3 DEF IdleRepeatableTs
<1>4. ASSUME NEW b \in Backends, WriteIdleRepeatableTs(b) PROVE Quiet
  BY <1>4 DEF WriteIdleRepeatableTs
<1>5. ASSUME NEW b \in Backends, LoadSnapshot(b) PROVE Quiet
  BY <1>5 DEF LoadSnapshot
<1>6. ASSUME NEW b \in Backends, FinishLoad(b), b # c PROVE Quiet
  BY <1>0, <1>6 DEF FinishLoad, TypeOK
<1>7. ASSUME NEW b \in Backends, BumpMaxRepeatableTs(b) PROVE Quiet
  BY <1>7 DEF BumpMaxRepeatableTs
<1>8. ASSUME NEW b \in Backends, NEW p \in pending_writes[b],
             LandCommit(b, p), b # c
      PROVE  Quiet
  BY <1>0, <1>8, LandCommitEffect DEF TypeOK
<1>9. ASSUME NEW b \in Backends, NEW ts \in Timestamps, LandBump(b, ts), b # c
      PROVE  Quiet
  <2>1. \E x : landed' = [landed EXCEPT ![b] = x]
    BY <1>9 DEF LandBump
  <2>2. UNCHANGED <<latest_ts, persisted_max, pending_writes>>
    BY <1>9 DEF LandBump
  <2> QED
    BY <1>0, <1>9, <2>1, <2>2 DEF TypeOK
<1>10. ASSUME NEW b \in Backends, NEW p \in pending_writes[b],
              PublishCommit(b, p), b # c
       PROVE  Quiet
  BY <1>0, <1>10, PublishCommitEffect DEF TypeOK
<1>11. ASSUME NEW b \in Backends, PublishMaxRepeatableTs(b), b # c PROVE Quiet
  <2>1. \E x \in landed[b] :
          /\ landed' = [landed EXCEPT ![b] = landed[b] \ {x}]
          /\ persisted_max' = [persisted_max EXCEPT ![b] = x.ts]
          /\ \/ latest_ts' = [latest_ts EXCEPT ![b] = x.ts]
             \/ latest_ts' = latest_ts
          /\ UNCHANGED pending_writes
    BY <1>11, PublishBumpEffect
  <2> QED
    BY <1>0, <1>11, <2>1 DEF TypeOK
<1>12. ASSUME NEW b \in Backends, TrimLog(b) PROVE Quiet
  BY <1>12 DEF TrimLog
<1>13. ASSUME NEW t, NEW reads, NEW writes, NEW ts,
              RejectCommit(t, reads, writes, ts)
       PROVE  Quiet
  BY <1>13 DEF RejectCommit
<1>14. ASSUME NEW t \in Txns, NEW reads \in SUBSET Keys,
              NEW writes \in SUBSET Keys, NEW ts \in Timestamps,
              StartCommit(t, reads, writes, ts), txn[t].backend # c
       PROVE  Quiet
  <2>1. \E x : pending_writes' = [pending_writes EXCEPT ![txn[t].backend] = x]
    BY <1>14, StartCommitPending
  <2>2. UNCHANGED <<latest_ts, persisted_max, landed>>
    BY <1>14 DEF StartCommit
  <2> QED
    BY <1>0, <1>14, <2>1, <2>2 DEF TypeOK
<1> HIDE DEF Quiet
<1>15. \/ Quiet
       \/ FinishLoad(c)
       \/ \E p \in pending_writes[c] : LandCommit(c, p)
       \/ \E ts \in Timestamps : LandBump(c, ts)
       \/ \E p \in pending_writes[c] : PublishCommit(c, p)
       \/ PublishMaxRepeatableTs(c)
       \/ \E t \in Txns, reads, writes \in SUBSET Keys, ts \in Timestamps :
            StartCommit(t, reads, writes, ts) /\ txn[t].backend = c
  BY ServerActions, <1>1, <1>2, <1>3, <1>4, <1>5, <1>6, <1>7, <1>8, <1>9,
     <1>10, <1>11, <1>12, <1>13, <1>14
<1> QED
  BY <1>15 DEF Quiet

\* The same effects, at the backend that acts.
LEMMA LandCommitAt ==
  ASSUME LocalInv, NEW b \in Backends, NEW p \in pending_writes[b],
         LandCommit(b, p)
  PROVE  /\ Holds(b) /\ phase[b] = "running"
         /\ landed'[b] = landed[b] \cup {CommitItem(p.commit.ts)}
         /\ documents' = documents \cup {p.commit}
         /\ UNCHANGED <<latest_ts[b], persisted_max[b], pending_writes[b],
                        max_repeatable, lease, lease_ts, phase, load_ts>>
<1>1. TypeOK
  BY DEF LocalInv
<1> QED
  BY <1>1, LandCommitEffect DEF TypeOK, startupVars, snapshotVars

LEMMA LandBumpAt ==
  ASSUME LocalInv, NEW b \in Backends, NEW ts \in Timestamps, LandBump(b, ts)
  PROVE  /\ Holds(b) /\ phase[b] = "running"
         /\ persisted_max[b] <= ts
         /\ \A y \in landed[b] : y.kind # "bump"
         /\ max_repeatable' = ts
         /\ landed'[b] = landed[b] \cup {[kind |-> "bump", ts |-> ts]}
         /\ UNCHANGED <<latest_ts[b], persisted_max[b], pending_writes[b],
                        documents, lease, lease_ts, phase, load_ts>>
<1>1. TypeOK
  BY DEF LocalInv
<1>2. /\ Holds(b) /\ phase[b] = "running" /\ persisted_max[b] <= ts
      /\ \A y \in landed[b] : y.kind # "bump"
  BY LandBumpEffect
<1>3. landed' = [landed EXCEPT ![b] =
                   landed[b] \cup {[kind |-> "bump", ts |-> ts]}]
  BY DEF LandBump
<1>4. /\ max_repeatable' = ts
      /\ UNCHANGED <<latest_ts, persisted_max, pending_writes, documents,
                     lease, lease_ts, phase, load_ts>>
  BY DEF LandBump, startupVars, snapshotVars
<1>5. landed'[b] = landed[b] \cup {[kind |-> "bump", ts |-> ts]}
  BY <1>1, <1>3 DEF TypeOK
<1> QED
  BY <1>2, <1>4, <1>5

LEMMA PublishCommitAt ==
  ASSUME LocalInv, NEW b \in Backends, NEW p \in pending_writes[b],
         PublishCommit(b, p)
  PROVE  /\ phase[b] = "running" /\ alive[b]
         /\ CommitItem(p.commit.ts) \in landed[b]
         /\ \A q \in pending_writes[b] : q # p => p.commit.ts < q.commit.ts
         /\ latest_ts[b] < p.commit.ts
         /\ latest_ts'[b] = p.commit.ts
         /\ snapshot'[b] = p.snapshot
         /\ pending_writes'[b] = pending_writes[b] \ {p}
         /\ landed'[b] = landed[b] \ {CommitItem(p.commit.ts)}
         /\ log'[b] = log[b] \cup
              {[ts |-> p.commit.ts, writes |-> p.commit.writes]}
         /\ UNCHANGED <<documents, max_repeatable, lease, lease_ts, phase,
                        load_ts, persisted_max, purged_ts>>
<1>1. TypeOK
  BY DEF LocalInv
<1> QED
  BY <1>1, PublishCommitEffect DEF TypeOK, startupVars, persistenceVars

LEMMA PublishBumpAt ==
  ASSUME LocalInv, NEW b \in Backends, PublishMaxRepeatableTs(b)
  PROVE  \E x \in landed[b] :
         /\ x.kind = "bump" /\ x.ts \in Timestamps
         /\ phase[b] = "running"
         /\ persisted_max[b] <= x.ts
         /\ \A y \in landed[b] : y.kind = "bump" => y = x
         /\ \A p \in pending_writes[b] : x.ts < p.commit.ts
         /\ landed'[b] = landed[b] \ {x}
         /\ persisted_max'[b] = x.ts
         /\ \/ latest_ts[b] < x.ts /\ latest_ts'[b] = x.ts
            \/ latest_ts'[b] = latest_ts[b]
         /\ log[b] \subseteq log'[b]
         /\ UNCHANGED <<documents, max_repeatable, lease, lease_ts, phase,
                        load_ts, snapshot, purged_ts, pending_writes, txn,
                        alive>>
<1>1. TypeOK
  BY DEF LocalInv
<1>2. PICK x \in landed[b] :
         /\ x.kind = "bump" /\ x.ts \in Timestamps
         /\ phase[b] = "running"
         /\ persisted_max[b] <= x.ts
         /\ \A y \in landed[b] : y.kind = "bump" => y = x
         /\ \A p \in pending_writes[b] : x.ts < p.commit.ts
         /\ landed' = [landed EXCEPT ![b] = landed[b] \ {x}]
         /\ persisted_max' = [persisted_max EXCEPT ![b] = x.ts]
         /\ \/ /\ latest_ts[b] < x.ts
               /\ latest_ts' = [latest_ts EXCEPT ![b] = x.ts]
               /\ log' = [log EXCEPT ![b] = log[b] \cup
                            {[ts |-> x.ts, writes |-> {}]}]
            \/ UNCHANGED <<latest_ts, log>>
         /\ UNCHANGED <<persistenceVars, startupVars, alive, snapshot,
                        purged_ts, pending_writes, txn>>
  BY PublishBumpEffect
<1>3. /\ landed'[b] = landed[b] \ {x} /\ persisted_max'[b] = x.ts
      /\ \/ latest_ts[b] < x.ts /\ latest_ts'[b] = x.ts
         \/ latest_ts'[b] = latest_ts[b]
      /\ log[b] \subseteq log'[b]
  BY <1>1, <1>2 DEF TypeOK
<1> QED
  BY <1>2, <1>3 DEF persistenceVars, startupVars

\* A commit that starts has a timestamp no landed write has.
LEMMA StartCommitAt ==
  ASSUME LocalInv, NEW t \in Txns, NEW reads \in SUBSET Keys,
         NEW writes \in SUBSET Keys, NEW ts \in Timestamps,
         StartCommit(t, reads, writes, ts)
  PROVE  LET b == txn[t].backend IN
         /\ b \in Backends /\ phase[b] = "running"
         /\ CommitItem(ts) \notin landed[b]
         /\ \E base \in LatestPendingSnapshot(b) : pending_writes'[b] =
              pending_writes[b] \cup {PendingWrite(t, reads, writes, ts, base)}
         /\ UNCHANGED <<latest_ts, persisted_max, landed, documents,
                        max_repeatable, lease, lease_ts, phase, load_ts>>
<1> DEFINE b == txn[t].backend
           s == persistence_writes[b]
<1>1. ValidateCommit(t, reads, writes, ts)
  BY DEF StartCommit
<1>2. b \in Backends /\ phase[b] = "running" /\ last_assigned_ts[b] < ts
  BY <1>1, StartCommitOpen
<1>3. UNCHANGED <<latest_ts, persisted_max, landed, documents,
                  max_repeatable, lease, lease_ts, phase, load_ts>>
  BY DEF StartCommit, persistenceVars, startupVars, snapshotVars
<1>4. \E base \in LatestPendingSnapshot(b) :
           pending_writes' = [pending_writes EXCEPT ![b] =
             pending_writes[b] \cup {PendingWrite(t, reads, writes, ts, base)}]
  BY StartCommitPending
<1> HIDE DEF b
<1>5. TypeOK /\ QueueOK(b) /\ OrderOK(b) /\ s \in Seq(Items)
  BY <1>2 DEF LocalInv, QueueInv, OrderInv, TypeOK
<1>6. ASSUME CommitItem(ts) \in landed[b] PROVE FALSE
  <2>1. PICK i \in 1..Len(s) : s[i] = CommitItem(ts)
    BY <1>5, <1>6 DEF QueueOK
  <2>2. PICK p \in pending_writes[b] : p.commit.ts = ts
    BY <1>5, <2>1 DEF QueueOK, CommitItem
  <2>3. p.commit.ts <= last_assigned_ts[b]
    BY <1>5 DEF OrderOK
  <2> QED
    BY <1>2, <1>5, <2>2, <2>3, NatFacts
<1>7. \E base \in LatestPendingSnapshot(b) : pending_writes'[b] =
              pending_writes[b] \cup {PendingWrite(t, reads, writes, ts, base)}
  BY <1>2, <1>4, <1>5 DEF TypeOK
<1> QED
  BY <1>2, <1>3, <1>6, <1>7 DEF b

-----------------------------------------------------------------------------
(* The lease.                                                              *)

LEMMA LeaseStep ==
  ASSUME TypeOK, LeaseInv, [Next]_vars PROVE LeaseInv'
<1>1. CASE UNCHANGED <<lease, lease_ts>>
  <2>1. ASSUME NEW c \in Backends
        PROVE  phase'[c] = "off" <=> phase[c] = "off"
    <3>1. \A ts \in 1..MaxLease : ~AcquireLease(c, ts)
      BY <1>1 DEF AcquireLease, TypeOK
    <3> QED
      BY <3>1, PhaseStep, StartupEffect
  <2> QED
    BY <1>1, <2>1 DEF LeaseInv
<1>2. ASSUME NEW b \in Backends, NEW ts \in 1..MaxLease, AcquireLease(b, ts)
      PROVE  LeaseInv'
  <2>1. /\ lease < ts /\ lease' = ts /\ lease_ts'[b] = ts
        /\ phase'[b] = "leased"
        /\ \A c \in Backends : c # b =>
             lease_ts'[c] = lease_ts[c] /\ phase'[c] = phase[c]
    BY <1>2 DEF AcquireLease, TypeOK
  <2>2. lease \in Nat /\ ts \in Nat /\ ts # 0
        /\ \A c \in Backends : lease_ts[c] \in Nat
    BY DEF TypeOK
  <2>3. \A c \in Backends : lease_ts[c] <= lease
    BY DEF LeaseInv
  <2>4. \A c \in Backends : lease_ts'[c] <= ts /\ (c # b => lease_ts'[c] < ts)
    BY <2>1, <2>2, <2>3
  <2>5. \A c \in Backends : phase'[c] = "off" <=> lease_ts'[c] = 0
    BY <2>1, <2>2 DEF LeaseInv
  <2>6. \A a, c \in Backends :
          lease_ts'[a] = lease_ts'[c] /\ lease_ts'[a] # 0 => a = c
    <3> SUFFICES ASSUME NEW a \in Backends, NEW c \in Backends,
                        lease_ts'[a] = lease_ts'[c], lease_ts'[a] # 0
                 PROVE  a = c
      OBVIOUS
    <3>1. CASE a = b
      BY <2>1, <2>2, <2>4, <3>1
    <3>2. CASE c = b
      BY <2>1, <2>2, <2>4, <3>2
    <3>3. CASE a # b /\ c # b
      BY <2>1, <3>3 DEF LeaseInv
    <3> QED
      BY <3>1, <3>2, <3>3
  <2> QED
    BY <2>1, <2>4, <2>5, <2>6 DEF LeaseInv
<1> QED
  BY <1>1, <1>2, LeaseActions

LEMMA OneHolder ==
  ASSUME LeaseInv, NEW a \in Backends, NEW b \in Backends, Holds(a), Holds(b)
  PROVE  a = b
BY DEF LeaseInv, Holds

\* A backend holds the lease because it did before or has just acquired it.
LEMMA HoldsStep ==
  ASSUME TypeOK, LeaseInv, [Next]_vars, NEW h \in Backends, Holds(h)'
  PROVE  \/ Holds(h) /\ UNCHANGED <<lease, lease_ts>>
         \/ \E ts \in 1..MaxLease : AcquireLease(h, ts)
<1>1. CASE UNCHANGED <<lease, lease_ts>>
  BY <1>1 DEF Holds
<1>2. ASSUME NEW b \in Backends, NEW ts \in 1..MaxLease, AcquireLease(b, ts),
             b # h
      PROVE  FALSE
  <2>1. lease < ts /\ lease' = ts /\ lease_ts'[h] = lease_ts[h]
    BY <1>2 DEF AcquireLease, TypeOK
  <2>2. lease_ts[h] <= lease /\ lease_ts'[h] = lease'
    BY DEF LeaseInv, Holds
  <2>3. lease_ts[h] \in Nat /\ lease \in Nat /\ ts \in Nat
    BY DEF TypeOK
  <2> QED
    BY <2>1, <2>2, <2>3
<1> QED
  BY <1>1, <1>2, LeaseActions

\* Numbers of persistence.
LEMMA StoreFacts ==
  ASSUME TypeOK
  PROVE  /\ max_repeatable \in Nat
         /\ \A d \in documents : d.ts \in Nat
         /\ \A b \in Backends : \A x \in landed[b] :
              x.ts \in Nat /\ x.kind \in {"commit", "bump"}
<1>1. max_repeatable \in Nat /\ documents \subseteq Commits
      /\ \A b \in Backends : landed[b] \subseteq Items
  BY DEF TypeOK, Timestamps
<1>2. \A d \in Commits : d.ts \in Nat
  BY DEF Commits, Timestamps
<1>3. \A x \in Items : x.ts \in Nat /\ x.kind \in {"commit", "bump"}
  BY DEF Items, Timestamps
<1> QED
  BY <1>1, <1>2, <1>3

-----------------------------------------------------------------------------
(* The holder and the repeatable timestamp.                                *)

LEMMA HolderStep ==
  ASSUME LocalInv, LeaseInv, HolderInv, [Next]_vars PROVE HolderInv'
<1> DEFINE Loading(h) ==
             phase[h] \in {"idle_ts", "idle_written", "snapshot_read"}
           LoadBound(h) == /\ max_repeatable <= load_ts[h]
                           /\ \A d \in documents : d.ts <= load_ts[h]
           RunBound(h) ==
             \/ max_repeatable <= persisted_max[h]
             \/ \E x \in landed[h] : x.kind = "bump" /\ max_repeatable = x.ts
<1> SUFFICES ASSUME NEW h \in Backends, Holds(h)'
             PROVE  /\ Loading(h)' => LoadBound(h)'
                    /\ phase'[h] = "running" => RunBound(h)'
  BY DEF HolderInv
<1>0. TypeOK
  BY DEF LocalInv
<1>1. ASSUME NEW ts \in 1..MaxLease, AcquireLease(h, ts)
      PROVE  /\ Loading(h)' => LoadBound(h)'
             /\ phase'[h] = "running" => RunBound(h)'
  BY <1>0, <1>1, StartupEffect
<1> SUFFICES ASSUME Holds(h), UNCHANGED <<lease, lease_ts>>
             PROVE  /\ Loading(h)' => LoadBound(h)'
                    /\ phase'[h] = "running" => RunBound(h)'
  BY <1>0, <1>1, HoldsStep
<1>2. /\ Loading(h) => LoadBound(h)
      /\ phase[h] = "running" => RunBound(h)
  BY DEF HolderInv
<1>3. ASSUME IdleRepeatableTs(h) PROVE Loading(h)' /\ LoadBound(h)'
  BY <1>0, <1>3, StartupEffect
<1>4. ASSUME WriteIdleRepeatableTs(h) PROVE Loading(h)' /\ LoadBound(h)'
  <2>1. /\ phase[h] = "idle_ts" /\ phase'[h] = "idle_written"
        /\ load_ts'[h] = load_ts[h] /\ max_repeatable' = load_ts[h]
        /\ documents' = documents
    BY <1>0, <1>4, StartupEffect
  <2> QED
    BY <1>0, <1>2, <2>1, NatFacts
<1>5. ASSUME LoadSnapshot(h) PROVE Loading(h)' /\ LoadBound(h)'
  BY <1>0, <1>2, <1>5, StartupEffect
<1>6. ASSUME FinishLoad(h) PROVE phase'[h] = "running" /\ RunBound(h)'
  BY <1>0, <1>2, <1>6, StartupEffect
<1>7. ASSUME UNCHANGED <<phase[h], load_ts[h]>>
      PROVE  /\ Loading(h)' => LoadBound(h)'
             /\ phase'[h] = "running" => RunBound(h)'
  <2>1. ASSUME NEW b \in Backends, NEW ts \in Timestamps, LandBump(b, ts)
        PROVE  ~Loading(h)' /\ RunBound(h)'
    <3>1. b = h
      BY <2>1, LandBumpAt, OneHolder
    <3>2. /\ phase[h] = "running" /\ max_repeatable' = ts
          /\ [kind |-> "bump", ts |-> ts] \in landed'[h]
      BY <2>1, <3>1, LandBumpAt
    <3> QED
      BY <1>7, <3>2
  <2>2. ASSUME NEW b \in Backends, NEW p \in pending_writes[b], LandCommit(b, p)
        PROVE  ~Loading(h)' /\ RunBound(h)'
    <3>1. b = h
      BY <2>2, LandCommitAt, OneHolder
    <3>2. /\ phase[h] = "running" /\ max_repeatable' = max_repeatable
          /\ persisted_max'[h] = persisted_max[h]
          /\ landed[h] \subseteq landed'[h]
      BY <2>2, <3>1, LandCommitAt
    <3> QED
      BY <1>2, <1>7, <3>2
  <2>3. ASSUME NEW b \in Backends, WriteIdleRepeatableTs(b) PROVE b = h
    BY <1>0, <2>3, StartupEffect, OneHolder
  <2>4. ASSUME UNCHANGED <<documents, max_repeatable>>, Loading(h)'
        PROVE  LoadBound(h)'
    BY <1>2, <1>7, <2>4
  <2>5. ASSUME UNCHANGED <<documents, max_repeatable>>, phase'[h] = "running",
               ~FinishLoad(h),
               \A p \in pending_writes[h] : ~LandCommit(h, p),
               \A ts \in Timestamps : ~LandBump(h, ts)
        PROVE  RunBound(h)'
    <3>1. phase[h] = "running" /\ RunBound(h)
      BY <1>2, <1>7, <2>5
    <3>2. ASSUME NEW p \in pending_writes[h], PublishCommit(h, p)
          PROVE  RunBound(h)'
      <4>1. /\ persisted_max' = persisted_max
            /\ landed'[h] = landed[h] \ {CommitItem(p.commit.ts)}
        BY <3>2, PublishCommitAt
      <4>2. CommitItem(p.commit.ts).kind = "commit"
        BY DEF CommitItem
      <4> QED
        BY <2>5, <3>1, <4>1, <4>2
    <3>3. ASSUME PublishMaxRepeatableTs(h) PROVE RunBound(h)'
      <4>1. PICK x \in landed[h] :
              /\ \A y \in landed[h] : y.kind = "bump" => y = x
              /\ persisted_max'[h] = x.ts /\ persisted_max[h] <= x.ts
        BY <3>3, PublishBumpAt
      <4>2. max_repeatable \in Nat /\ persisted_max[h] \in Nat /\ x.ts \in Nat
        BY <1>0, StoreFacts, NatFacts
      <4>3. max_repeatable <= x.ts
        BY <3>1, <4>1, <4>2
      <4> QED
        BY <2>5, <4>1, <4>3
    <3>4. ASSUME UNCHANGED <<persisted_max[h], landed[h]>> PROVE RunBound(h)'
      BY <2>5, <3>1, <3>4
    <3>5. ASSUME NEW t \in Txns, NEW reads \in SUBSET Keys,
                 NEW writes \in SUBSET Keys, NEW ts \in Timestamps,
                 StartCommit(t, reads, writes, ts)
          PROVE  RunBound(h)'
      BY <3>4, <3>5, StartCommitAt
    <3> HIDE DEF RunBound
    <3> QED
      BY <2>5, <3>2, <3>3, <3>4, <3>5, MemoryStep
  <2>6. ~WriteIdleRepeatableTs(h)
    BY <1>0, <1>7, StartupEffect
  <2>7. ~FinishLoad(h)
    BY <1>0, <1>7, StartupEffect
  <2>8. CASE UNCHANGED <<documents, max_repeatable>>
    <3>1. CASE \E p \in pending_writes[h] : LandCommit(h, p)
      BY <2>2, <3>1
    <3>2. CASE \E ts \in Timestamps : LandBump(h, ts)
      BY <2>1, <3>2
    <3> QED
      BY <2>4, <2>5, <2>7, <2>8, <3>1, <3>2
  <2> HIDE DEF Loading, LoadBound, RunBound
  <2> QED
    BY <2>1, <2>2, <2>3, <2>6, <2>8, DocumentActions, GlobalActions
<1>8. Loading(h)' => phase'[h] # "running"
  OBVIOUS
<1> HIDE DEF Loading, LoadBound, RunBound
<1>9. CASE \E ts \in 1..MaxLease : AcquireLease(h, ts)
  BY <1>1, <1>9
<1> QED
  BY <1>0, <1>3, <1>4, <1>5, <1>6, <1>7, <1>8, <1>9, PhaseStep

\* MaxRepeatableTimestamp never goes backward.
LEMMA MaxRepeatableStep ==
  ASSUME LocalInv, LeaseInv, HolderInv, [Next]_vars
  PROVE  max_repeatable <= max_repeatable'
<1>0. TypeOK
  BY DEF LocalInv
<1>1. max_repeatable \in Nat
  BY <1>0, StoreFacts
<1>2. ASSUME NEW b \in Backends, WriteIdleRepeatableTs(b)
      PROVE  max_repeatable <= max_repeatable'
  <2>1. phase[b] = "idle_ts" /\ max_repeatable' = load_ts[b] /\ Holds(b)
    BY <1>0, <1>2, StartupEffect
  <2> QED
    BY <2>1 DEF HolderInv
<1>3. ASSUME NEW b \in Backends, NEW ts \in Timestamps, LandBump(b, ts)
      PROVE  max_repeatable <= max_repeatable'
  <2>1. /\ Holds(b) /\ phase[b] = "running" /\ persisted_max[b] <= ts
        /\ \A y \in landed[b] : y.kind # "bump"
        /\ max_repeatable' = ts
    BY <1>3, LandBumpAt
  <2>2. max_repeatable <= persisted_max[b]
    BY <2>1 DEF HolderInv
  <2>3. persisted_max[b] \in Nat /\ ts \in Nat
    BY <1>0, NatFacts DEF Timestamps
  <2> QED
    BY <1>1, <2>1, <2>2, <2>3
<1>4. CASE max_repeatable' = max_repeatable
  BY <1>1, <1>4
<1> QED
  BY <1>2, <1>3, <1>4, GlobalActions

-----------------------------------------------------------------------------
(* What has landed is durable.                                             *)

LEMMA DocumentsGrow ==
  ASSUME [Next]_vars PROVE documents \subseteq documents'
<1>1. ASSUME NEW b \in Backends, NEW p \in pending_writes[b], LandCommit(b, p)
      PROVE  documents \subseteq documents'
  BY <1>1 DEF LandCommit
<1> QED
  BY <1>1, DocumentActions

\* The landed part of one backend's queue.
LandedCommits(b) ==
  \A p \in pending_writes[b] :
    CommitItem(p.commit.ts) \in landed[b] => p.commit \in documents

LandedBumps(b) ==
  \A x \in landed[b] : x.kind = "bump" => x.ts <= max_repeatable

LatestDurable(b) ==
  \/ latest_ts[b] <= max_repeatable
  \/ \E d \in documents : latest_ts[b] <= d.ts

LEMMA LandedCommitsStep ==
  ASSUME LocalInv, LandedInv, [Next]_vars, NEW b \in Backends
  PROVE  LandedCommits(b)'
<1>0. documents \subseteq documents' /\ LandedCommits(b) /\ TypeOK
  BY DocumentsGrow DEF LandedInv, LandedCommits, LocalInv
<1>1. ASSUME pending_writes'[b] \subseteq pending_writes[b],
             landed'[b] \subseteq landed[b]
      PROVE  LandedCommits(b)'
  BY <1>0, <1>1 DEF LandedCommits
<1>2. ASSUME UNCHANGED <<latest_ts[b], persisted_max[b], pending_writes[b],
                         landed[b]>>
      PROVE  LandedCommits(b)'
  BY <1>1, <1>2
<1>3. ASSUME FinishLoad(b) PROVE LandedCommits(b)'
  BY <1>0, <1>1, <1>3, StartupEffect
<1>4. ASSUME NEW p \in pending_writes[b], LandCommit(b, p)
      PROVE  LandedCommits(b)'
  <2>1. /\ landed'[b] = landed[b] \cup {CommitItem(p.commit.ts)}
        /\ pending_writes'[b] = pending_writes[b]
        /\ documents' = documents \cup {p.commit}
    BY <1>4, LandCommitAt
  <2>2. \A q \in pending_writes[b] : q.commit.ts = p.commit.ts => q = p
    BY DEF LocalInv, QueueInv, QueueOK
  <2>3. \A q \in pending_writes[b] :
          CommitItem(q.commit.ts) = CommitItem(p.commit.ts) =>
            q.commit.ts = p.commit.ts
    BY DEF CommitItem
  <2> QED
    BY <1>0, <2>1, <2>2, <2>3 DEF LandedCommits
<1>5. ASSUME NEW ts \in Timestamps, LandBump(b, ts) PROVE LandedCommits(b)'
  <2>1. /\ landed'[b] = landed[b] \cup {[kind |-> "bump", ts |-> ts]}
        /\ pending_writes'[b] = pending_writes[b]
    BY <1>5, LandBumpAt
  <2>2. \A u : CommitItem(u) # [kind |-> "bump", ts |-> ts]
    BY DEF CommitItem
  <2> QED
    BY <1>0, <2>1, <2>2 DEF LandedCommits
<1>6. ASSUME NEW p \in pending_writes[b], PublishCommit(b, p)
      PROVE  LandedCommits(b)'
  BY <1>1, <1>6, PublishCommitAt
<1>7. ASSUME PublishMaxRepeatableTs(b) PROVE LandedCommits(b)'
  <2>1. pending_writes' = pending_writes /\ landed'[b] \subseteq landed[b]
    BY <1>7, PublishBumpAt
  <2> QED
    BY <1>1, <2>1
<1>8. ASSUME NEW t \in Txns, NEW reads \in SUBSET Keys,
             NEW writes \in SUBSET Keys, NEW ts \in Timestamps,
             StartCommit(t, reads, writes, ts), txn[t].backend = b
      PROVE  LandedCommits(b)'
  <2>1. CommitItem(ts) \notin landed[b] /\ landed' = landed
    BY <1>8, StartCommitAt
  <2>2. PICK base \in LatestPendingSnapshot(txn[t].backend) :
          pending_writes'[txn[t].backend] =
            pending_writes[txn[t].backend]
              \cup {PendingWrite(t, reads, writes, ts, base)}
    BY <1>8, StartCommitAt
  <2>3. PendingWrite(t, reads, writes, ts, base).commit.ts = ts
    BY PendingWriteFields
  <2> QED
    BY <1>0, <1>8, <2>1, <2>2, <2>3 DEF LandedCommits
<1> QED
  BY <1>2, <1>3, <1>4, <1>5, <1>6, <1>7, <1>8, MemoryStep

LEMMA LandedBumpsStep ==
  ASSUME LocalInv, LeaseInv, HolderInv, LandedInv, [Next]_vars,
         NEW b \in Backends
  PROVE  LandedBumps(b)'
<1>0. LandedBumps(b) /\ TypeOK /\ max_repeatable <= max_repeatable'
  BY MaxRepeatableStep DEF LandedInv, LandedBumps, LocalInv
<1>a. TypeOK'
  BY <1>0, StepType
<1>c. max_repeatable \in Nat /\ \A x \in landed[b] : x.ts \in Nat
  BY <1>0, StoreFacts
<1>b. max_repeatable' \in Nat
  BY <1>a DEF TypeOK, Timestamps
<1>1. ASSUME \A x \in landed'[b] :
               x \in landed[b] \/ x.kind # "bump" \/ x.ts = max_repeatable'
      PROVE  LandedBumps(b)'
  BY <1>0, <1>b, <1>c, <1>1 DEF LandedBumps
<1>3. ASSUME FinishLoad(b) PROVE LandedBumps(b)'
  BY <1>0, <1>1, <1>3, StartupEffect
<1>4. ASSUME NEW p \in pending_writes[b], LandCommit(b, p)
      PROVE  LandedBumps(b)'
  <2>1. landed'[b] = landed[b] \cup {CommitItem(p.commit.ts)}
    BY <1>4, LandCommitAt
  <2>2. CommitItem(p.commit.ts).kind # "bump"
    BY DEF CommitItem
  <2> QED
    BY <1>1, <2>1, <2>2
<1>5. ASSUME NEW ts \in Timestamps, LandBump(b, ts) PROVE LandedBumps(b)'
  <2>1. /\ landed'[b] = landed[b] \cup {[kind |-> "bump", ts |-> ts]}
        /\ max_repeatable' = ts
    BY <1>5, LandBumpAt
  <2> QED
    BY <1>1, <2>1
<1>6. ASSUME NEW p \in pending_writes[b], PublishCommit(b, p)
      PROVE  LandedBumps(b)'
  <2>1. landed'[b] \subseteq landed[b]
    BY <1>6, PublishCommitAt
  <2> QED
    BY <1>1, <2>1
<1>7. ASSUME PublishMaxRepeatableTs(b) PROVE LandedBumps(b)'
  <2>1. landed'[b] \subseteq landed[b]
    BY <1>7, PublishBumpAt
  <2> QED
    BY <1>1, <2>1
<1>8. ASSUME NEW t \in Txns, NEW reads \in SUBSET Keys,
             NEW writes \in SUBSET Keys, NEW ts \in Timestamps,
             StartCommit(t, reads, writes, ts)
      PROVE  LandedBumps(b)'
  <2>1. landed' = landed
    BY <1>8, StartCommitAt
  <2> QED
    BY <1>1, <2>1
<1>9. ASSUME landed'[b] = landed[b] PROVE LandedBumps(b)'
  BY <1>1, <1>9
<1> QED
  BY <1>3, <1>4, <1>5, <1>6, <1>7, <1>8, <1>9, MemoryStep

LEMMA LatestDurableStep ==
  ASSUME LocalInv, LeaseInv, HolderInv, LandedInv, [Next]_vars,
         NEW b \in Backends, phase'[b] = "running"
  PROVE  LatestDurable(b)'
<1>0. /\ TypeOK /\ max_repeatable <= max_repeatable'
      /\ documents \subseteq documents'
  BY MaxRepeatableStep, DocumentsGrow DEF LocalInv
<1>a. TypeOK'
  BY <1>0, StepType
<1>b. /\ max_repeatable \in Nat /\ max_repeatable' \in Nat
      /\ latest_ts[b] \in Nat
  BY <1>0, <1>a, NatFacts DEF TypeOK, Timestamps
<1>1. ASSUME LatestDurable(b), latest_ts'[b] = latest_ts[b]
      PROVE  LatestDurable(b)'
  BY <1>0, <1>b, <1>1 DEF LatestDurable
<1>2. phase[b] = "running" => LatestDurable(b)
  BY DEF LandedInv, LatestDurable
<1>3. ASSUME FinishLoad(b) PROVE LatestDurable(b)'
  <2>1. /\ phase[b] = "snapshot_read" /\ latest_ts'[b] = load_ts[b]
        /\ max_repeatable' = max_repeatable
    BY <1>0, <1>3, StartupEffect
  <2>2. load_ts[b] <= max_repeatable
    BY <2>1 DEF LandedInv
  <2> QED
    BY <2>1, <2>2 DEF LatestDurable
<1>4. ASSUME NEW p \in pending_writes[b], PublishCommit(b, p)
      PROVE  LatestDurable(b)'
  <2>1. /\ CommitItem(p.commit.ts) \in landed[b]
        /\ latest_ts'[b] = p.commit.ts
    BY <1>4, PublishCommitAt
  <2>2. p.commit \in documents'
    BY <1>0, <2>1 DEF LandedInv
  <2>3. p.commit.ts \in Nat
    BY <1>0, NatFacts
  <2>4. latest_ts'[b] <= p.commit.ts
    BY <2>1, <2>3
  <2> QED
    BY <2>2, <2>4 DEF LatestDurable
<1>5. ASSUME PublishMaxRepeatableTs(b) PROVE LatestDurable(b)'
  <2>1. PICK x \in landed[b] :
          /\ x.kind = "bump" /\ phase[b] = "running"
          /\ latest_ts'[b] = x.ts \/ latest_ts'[b] = latest_ts[b]
          /\ max_repeatable' = max_repeatable
    BY <1>5, PublishBumpAt
  <2>2. x.ts <= max_repeatable
    BY <2>1 DEF LandedInv
  <2>3. CASE latest_ts'[b] = x.ts
    BY <2>1, <2>2, <2>3 DEF LatestDurable
  <2>4. CASE latest_ts'[b] = latest_ts[b]
    BY <1>1, <1>2, <2>1, <2>4
  <2> QED
    BY <2>1, <2>3, <2>4
<1>6. ASSUME latest_ts'[b] = latest_ts[b], ~FinishLoad(b)
      PROVE  LatestDurable(b)'
  <2>1. phase[b] = "running"
    BY <1>0, <1>6, PhaseStep, StartupEffect
  <2> QED
    BY <1>1, <1>2, <1>6, <2>1
<1>7. ASSUME NEW p \in pending_writes[b], LandCommit(b, p)
      PROVE  latest_ts'[b] = latest_ts[b]
  BY <1>7, LandCommitAt
<1>8. ASSUME NEW ts \in Timestamps, LandBump(b, ts)
      PROVE  latest_ts'[b] = latest_ts[b]
  BY <1>8, LandBumpAt
<1>9. ASSUME NEW t \in Txns, NEW reads \in SUBSET Keys,
             NEW writes \in SUBSET Keys, NEW ts \in Timestamps,
             StartCommit(t, reads, writes, ts)
      PROVE  latest_ts'[b] = latest_ts[b]
  BY <1>9, StartCommitAt
<1> QED
  BY <1>3, <1>4, <1>5, <1>6, <1>7, <1>8, <1>9, MemoryStep

LEMMA LandedStep ==
  ASSUME LocalInv, LeaseInv, HolderInv, LandedInv, [Next]_vars
  PROVE  LandedInv'
<1>0. TypeOK /\ max_repeatable <= max_repeatable'
  BY MaxRepeatableStep DEF LocalInv
<1>a. TypeOK'
  BY <1>0, StepType
<1>1. ASSUME NEW b \in Backends,
             phase'[b] \in {"idle_written", "snapshot_read"}
      PROVE  load_ts'[b] <= max_repeatable'
  <2>0. /\ max_repeatable \in Nat /\ max_repeatable' \in Nat
        /\ load_ts[b] \in Nat
    BY <1>0, <1>a, NatFacts DEF TypeOK, Timestamps
  <2>1. CASE WriteIdleRepeatableTs(b)
    BY <1>0, <2>0, <2>1, StartupEffect
  <2>2. CASE ~WriteIdleRepeatableTs(b)
    <3>1. phase[b] \in {"idle_written", "snapshot_read"}
          /\ load_ts'[b] = load_ts[b]
      BY <1>0, <1>1, <2>2, PhaseStep, StartupEffect
    <3>2. load_ts[b] <= max_repeatable
      BY <3>1 DEF LandedInv
    <3> QED
      BY <1>0, <2>0, <3>1, <3>2
  <2> QED
    BY <2>1, <2>2
<1>2. \A b \in Backends : LandedCommits(b)' /\ LandedBumps(b)'
  BY LandedCommitsStep, LandedBumpsStep
<1>3. \A b \in Backends : phase'[b] = "running" => LatestDurable(b)'
  BY LatestDurableStep
<1> QED
  BY <1>1, <1>2, <1>3 DEF LandedInv, LandedCommits, LandedBumps, LatestDurable

-----------------------------------------------------------------------------
(* What deposed backends may still publish.                                *)

\* Everything landed is bounded by what a new leader sees.
LEMMA LandedBound ==
  ASSUME LocalInv, LandedInv, NEW b \in Backends, NEW x \in landed[b]
  PROVE  x.ts <= max_repeatable \/ \E d \in documents : d.ts = x.ts
<1> DEFINE s == persistence_writes[b]
<1>0. TypeOK /\ QueueOK(b) /\ s \in Seq(Items) /\ x \in Items
  BY DEF LocalInv, QueueInv, TypeOK
<1>1. CASE x.kind = "bump"
  BY <1>1 DEF LandedInv
<1>2. CASE x.kind = "commit"
  <2>1. PICK i \in 1..Len(s) : s[i] = x
    BY <1>0 DEF QueueOK
  <2>2. PICK p \in pending_writes[b] : p.commit.ts = x.ts
    BY <1>0, <1>2, <2>1 DEF QueueOK
  <2>3. x = CommitItem(p.commit.ts)
    BY <1>0, <1>2, <2>2 DEF CommitItem, Items
  <2>4. p.commit \in documents
    BY <2>3 DEF LandedInv
  <2> QED
    BY <2>2, <2>4
<1> QED
  BY <1>0, <1>1, <1>2 DEF Items

LEMMA DeposedStep ==
  ASSUME LocalInv, LeaseInv, HolderInv, LandedInv, DeposedInv, [Next]_vars
  PROVE  DeposedInv'
<1> DEFINE Bounded(h, b) ==
             /\ phase[b] \in {"idle_written", "snapshot_read"} =>
                  load_ts[b] <= load_ts[h]
             /\ phase[b] = "running" =>
                  /\ latest_ts[b] <= load_ts[h]
                  /\ \A x \in landed[b] : x.ts <= load_ts[h]
<1> SUFFICES ASSUME NEW h \in Backends, NEW b \in Backends, Holds(h)',
                    phase'[h] # "leased", h # b
             PROVE  Bounded(h, b)'
  BY DEF DeposedInv
<1>0. TypeOK /\ StartInv
  BY DEF LocalInv
<1>1. Holds(h) /\ UNCHANGED <<lease, lease_ts>>
  BY <1>0, HoldsStep, StartupEffect
<1>2. ~Holds(b)
  BY <1>1, OneHolder
<1>3. CASE IdleRepeatableTs(h)
  <2>1. /\ max_repeatable <= load_ts'[h]
        /\ \A d \in documents : d.ts <= load_ts'[h]
    BY <1>0, <1>3, StartupEffect
  <2>2. /\ UNCHANGED <<phase[b], load_ts[b]>>
        /\ UNCHANGED <<latest_ts, landed>>
    BY <1>0, <1>3 DEF IdleRepeatableTs, TypeOK, snapshotVars, queueVars
  <2>3. load_ts' \in [Backends -> Timestamps]
    BY <1>0, StepType DEF TypeOK
  <2>4. load_ts'[h] \in Nat
    BY <2>3 DEF Timestamps
  <2>5. /\ max_repeatable \in Nat /\ load_ts[b] \in Nat /\ latest_ts[b] \in Nat
        /\ \A d \in documents : d.ts \in Nat
        /\ \A x \in landed[b] : x.ts \in Nat
    BY <1>0, StoreFacts, NatFacts
  <2>6. phase[b] \in {"idle_written", "snapshot_read"} =>
          load_ts[b] <= load_ts'[h]
    <3> SUFFICES ASSUME phase[b] \in {"idle_written", "snapshot_read"}
                 PROVE  load_ts[b] <= load_ts'[h]
      OBVIOUS
    <3>1. load_ts[b] <= max_repeatable
      BY DEF LandedInv
    <3> QED
      BY <2>1, <2>4, <2>5, <3>1
  <2>7. phase[b] = "running" => latest_ts[b] <= load_ts'[h]
    <3> SUFFICES ASSUME phase[b] = "running"
                 PROVE  latest_ts[b] <= load_ts'[h]
      OBVIOUS
    <3>1. \/ latest_ts[b] <= max_repeatable
          \/ \E d \in documents : latest_ts[b] <= d.ts
      BY DEF LandedInv
    <3> QED
      BY <2>1, <2>4, <2>5, <3>1
  <2>8. \A x \in landed[b] : x.ts <= load_ts'[h]
    BY <2>1, <2>4, <2>5, LandedBound
  <2> QED
    BY <2>2, <2>6, <2>7, <2>8
<1>4. CASE ~IdleRepeatableTs(h)
  <2>1. phase[h] # "leased" /\ load_ts'[h] = load_ts[h]
    BY <1>0, <1>4, PhaseStep, StartupEffect
  <2>2. Bounded(h, b)
    BY <1>1, <2>1 DEF DeposedInv
  <2>3. ~WriteIdleRepeatableTs(b)
    BY <1>0, <1>2, StartupEffect
  <2>4. CASE FinishLoad(b)
    <3>1. /\ phase[b] = "snapshot_read" /\ phase'[b] = "running"
          /\ latest_ts'[b] = load_ts[b] /\ landed' = landed
      BY <1>0, <2>4, StartupEffect
    <3>2. landed[b] = {}
      BY <1>0, <3>1 DEF StartInv
    <3> QED
      BY <2>1, <2>2, <3>1, <3>2
  <2>5. CASE phase'[b] # "running"
    <3>1. phase'[b] \in {"idle_written", "snapshot_read"} =>
            /\ phase[b] \in {"idle_written", "snapshot_read"}
            /\ load_ts'[b] = load_ts[b]
      BY <1>0, <2>3, PhaseStep, StartupEffect
    <3> QED
      BY <2>1, <2>2, <2>5, <3>1
  <2>6. CASE phase'[b] = "running" /\ ~FinishLoad(b)
    <3>1. phase[b] = "running"
      BY <1>0, <2>6, PhaseStep, StartupEffect
    <3>2. /\ latest_ts[b] <= load_ts[h]
          /\ \A x \in landed[b] : x.ts <= load_ts[h]
      BY <2>2, <3>1
    <3>3. ASSUME latest_ts'[b] = latest_ts[b]
                   \/ \E x \in landed[b] : latest_ts'[b] = x.ts,
                 landed'[b] \subseteq landed[b]
          PROVE  Bounded(h, b)'
      BY <2>1, <2>6, <3>2, <3>3
    <3>4. ASSUME NEW p \in pending_writes[b], PublishCommit(b, p)
          PROVE  Bounded(h, b)'
      <4>1. /\ CommitItem(p.commit.ts) \in landed[b]
            /\ latest_ts'[b] = p.commit.ts /\ landed'[b] \subseteq landed[b]
        BY <3>4, PublishCommitAt
      <4>2. CommitItem(p.commit.ts).ts = p.commit.ts
        BY DEF CommitItem
      <4> HIDE DEF Bounded
      <4> QED
        BY <3>3, <4>1, <4>2
    <3>5. ASSUME PublishMaxRepeatableTs(b) PROVE Bounded(h, b)'
      <4>1. /\ landed'[b] \subseteq landed[b]
            /\ \/ latest_ts'[b] = latest_ts[b]
               \/ \E x \in landed[b] : latest_ts'[b] = x.ts
        BY <3>5, PublishBumpAt
      <4> HIDE DEF Bounded
      <4> QED
        BY <3>3, <4>1
    <3>6. ASSUME NEW t \in Txns, NEW reads \in SUBSET Keys,
                 NEW writes \in SUBSET Keys, NEW ts \in Timestamps,
                 StartCommit(t, reads, writes, ts)
          PROVE  Bounded(h, b)'
      <4>1. latest_ts' = latest_ts /\ landed' = landed
        BY <3>6, StartCommitAt
      <4> HIDE DEF Bounded
      <4> QED
        BY <3>3, <4>1
    <3>7. /\ \A p \in pending_writes[b] : ~LandCommit(b, p)
          /\ \A ts \in Timestamps : ~LandBump(b, ts)
      BY <1>2, LandCommitAt, LandBumpAt
    <3> HIDE DEF Bounded
    <3> QED
      BY <2>6, <3>3, <3>4, <3>5, <3>6, <3>7, MemoryStep
  <2> QED
    BY <2>4, <2>5, <2>6
<1> QED
  BY <1>3, <1>4

-----------------------------------------------------------------------------
(* What is durable and not published.                                      *)

LEMMA PublishedStep ==
  ASSUME LocalInv, LeaseInv, LandedInv, DeposedInv, PublishedInv, [Next]_vars
  PROVE  PublishedInv'
<1> DEFINE Own(b, d) == \E p \in pending_writes[b] :
                          p.commit = d /\ CommitItem(d.ts) \in landed[b]
           Above(b, d) == ~Holds(b) /\ \A x \in landed[b] : x.ts < d.ts
           Placed(b, d) == d.ts <= latest_ts[b] \/ Own(b, d) \/ Above(b, d)
<1> SUFFICES ASSUME NEW b \in Backends, phase'[b] = "running",
                    NEW d \in documents'
             PROVE  Placed(b, d)'
  BY DEF PublishedInv
<1>0. TypeOK /\ QueueOK(b) /\ OrderOK(b)
  BY DEF LocalInv, QueueInv, OrderInv
<1>a. TypeOK'
  BY <1>0, StepType
<1>1. CASE FinishLoad(b)
  BY <1>0, <1>1, StartupEffect DEF IsMaxTs
<1>2. CASE ~FinishLoad(b) /\ d \notin documents
  <2>1. PICK a \in Backends : \E p \in pending_writes[a] : LandCommit(a, p)
    BY <1>2, DocumentActions
  <2>2. PICK p \in pending_writes[a] : LandCommit(a, p)
    BY <2>1
  <2>3. /\ Holds(a) /\ phase[a] = "running" /\ d = p.commit
        /\ landed'[a] = landed[a] \cup {CommitItem(p.commit.ts)}
        /\ pending_writes'[a] = pending_writes[a]
        /\ UNCHANGED <<phase, lease, lease_ts>>
    BY <1>2, <2>2, LandCommitAt
  <2>4. CASE a = b
    BY <2>3, <2>4
  <2>5. CASE a # b
    <3>1. ~Holds(b)' /\ landed'[b] = landed[b]
      <4>1. ~Holds(b)
        BY <2>3, <2>5, OneHolder
      <4>2. landed' = [landed EXCEPT ![a] =
                         landed[a] \cup {CommitItem(p.commit.ts)}]
        BY <2>2, LandCommitEffect
      <4> QED
        BY <1>0, <2>3, <2>5, <4>1, <4>2 DEF Holds, TypeOK
    <3>2. phase[b] = "running"
      BY <2>3
    <3>3. \A x \in landed[b] : x.ts <= load_ts[a]
      BY <2>3, <2>5, <3>2 DEF DeposedInv
    <3>4. load_ts[a] <= latest_ts[a] /\ latest_ts[a] < p.commit.ts
      BY <2>2, LandCommitEffect
    <3>5. \A x \in landed[b] : x.ts \in Nat
      BY <1>0, StoreFacts
    <3>6. load_ts[a] \in Nat /\ latest_ts[a] \in Nat /\ p.commit.ts \in Nat
      BY <1>0, NatFacts
    <3>7. \A x \in landed[b] : x.ts < p.commit.ts
      BY <3>3, <3>4, <3>5, <3>6
    <3> QED
      BY <2>3, <3>1, <3>7
  <2> QED
    BY <2>4, <2>5
<1>3. CASE ~FinishLoad(b) /\ d \in documents
  <2>1. phase[b] = "running"
    BY <1>0, <1>3, PhaseStep, StartupEffect
  <2>2. CASE d.ts <= latest_ts[b]
    <3>1. latest_ts[b] <= latest_ts'[b]
      BY LatestMonotone
    <3>2. latest_ts[b] \in Nat /\ d.ts \in Nat
      BY <1>0, <1>3, NatFacts, StoreFacts
    <3>3. latest_ts'[b] \in Nat
      BY <1>a DEF TypeOK, Timestamps
    <3>4. d.ts <= latest_ts'[b]
      BY <2>2, <3>1, <3>2, <3>3
    <3> QED
      BY <3>4
  <2>3. CASE Own(b, d)
    <3>1. PICK p \in pending_writes[b] :
            p.commit = d /\ CommitItem(d.ts) \in landed[b]
      BY <2>3
    <3>2. ASSUME p \in pending_writes'[b], CommitItem(d.ts) \in landed'[b]
          PROVE  Placed(b, d)'
      BY <3>1, <3>2
    <3>3. ASSUME NEW q \in pending_writes[b], PublishCommit(b, q)
          PROVE  Placed(b, d)'
      <4>1. /\ latest_ts'[b] = q.commit.ts
            /\ pending_writes'[b] = pending_writes[b] \ {q}
            /\ landed'[b] = landed[b] \ {CommitItem(q.commit.ts)}
            /\ p # q => q.commit.ts < p.commit.ts
        BY <3>3, PublishCommitAt
      <4>2. p.commit.ts \in Nat /\ q.commit.ts \in Nat
        BY <1>0, NatFacts
      <4>3. CASE p = q
        BY <3>1, <4>1, <4>2, <4>3
      <4>4. CASE p # q
        <5>1. CommitItem(d.ts) # CommitItem(q.commit.ts)
          BY <3>1, <4>1, <4>2, <4>4 DEF CommitItem
        <5> HIDE DEF Placed
        <5> QED
          BY <3>1, <3>2, <4>1, <4>4, <5>1
      <4> QED
        BY <4>3, <4>4
    <3>4. ASSUME PublishMaxRepeatableTs(b) PROVE Placed(b, d)'
      <4>1. PICK x \in landed[b] : /\ x.kind = "bump"
                                   /\ landed'[b] = landed[b] \ {x}
                                   /\ pending_writes' = pending_writes
        BY <3>4, PublishBumpAt
      <4>2. CommitItem(d.ts) # x
        BY <4>1 DEF CommitItem
      <4> HIDE DEF Placed
      <4> QED
        BY <3>1, <3>2, <4>1, <4>2
    <3>5. ASSUME NEW q \in pending_writes[b], LandCommit(b, q)
          PROVE  Placed(b, d)'
      <4>1. pending_writes'[b] = pending_writes[b] /\ landed[b] \subseteq landed'[b]
        BY <3>5, LandCommitAt
      <4> HIDE DEF Placed
      <4> QED
        BY <3>1, <3>2, <4>1
    <3>6. ASSUME NEW ts \in Timestamps, LandBump(b, ts) PROVE Placed(b, d)'
      <4>1. pending_writes'[b] = pending_writes[b] /\ landed[b] \subseteq landed'[b]
        BY <3>6, LandBumpAt
      <4> HIDE DEF Placed
      <4> QED
        BY <3>1, <3>2, <4>1
    <3>7. ASSUME NEW t \in Txns, NEW reads \in SUBSET Keys,
                 NEW writes \in SUBSET Keys, NEW ts \in Timestamps,
                 StartCommit(t, reads, writes, ts), txn[t].backend = b
          PROVE  Placed(b, d)'
      <4>1. landed' = landed
        BY <3>7, StartCommitAt
      <4>2. \E y : pending_writes'[txn[t].backend] =
                     pending_writes[txn[t].backend] \cup {y}
        BY <3>7, StartCommitAt
      <4> HIDE DEF Placed
      <4> QED
        BY <3>1, <3>2, <3>7, <4>1, <4>2
    <3> HIDE DEF Placed
    <3>8. ASSUME UNCHANGED <<pending_writes[b], landed[b]>> PROVE Placed(b, d)'
      BY <3>1, <3>2, <3>8
    <3> QED
      BY <1>3, <3>3, <3>4, <3>5, <3>6, <3>7, <3>8, MemoryStep
  <2>4. CASE Above(b, d)
    <3>1. ~Holds(b)'
      <4>1. \A ts \in 1..MaxLease : ~AcquireLease(b, ts)
        BY <1>0, <2>1, StartupEffect
      <4> QED
        BY <1>0, <2>4, <4>1, HoldsStep
    <3>2. ASSUME landed'[b] \subseteq landed[b] PROVE Placed(b, d)'
      BY <2>4, <3>1, <3>2
    <3>3. ASSUME NEW q \in pending_writes[b], PublishCommit(b, q)
          PROVE  landed'[b] \subseteq landed[b]
      BY <3>3, PublishCommitAt
    <3>4. ASSUME PublishMaxRepeatableTs(b) PROVE landed'[b] \subseteq landed[b]
      BY <3>4, PublishBumpAt
    <3>5. ASSUME NEW t \in Txns, NEW reads \in SUBSET Keys,
                 NEW writes \in SUBSET Keys, NEW ts \in Timestamps,
                 StartCommit(t, reads, writes, ts)
          PROVE  landed'[b] \subseteq landed[b]
      BY <3>5, StartCommitAt
    <3>6. /\ \A p \in pending_writes[b] : ~LandCommit(b, p)
          /\ \A ts \in Timestamps : ~LandBump(b, ts)
      BY <2>4, LandCommitAt, LandBumpAt
    <3> HIDE DEF Placed
    <3> QED
      BY <1>3, <3>2, <3>3, <3>4, <3>5, <3>6, MemoryStep
  <2>5. Placed(b, d)
    BY <1>3, <2>1 DEF PublishedInv
  <2> HIDE DEF Own, Above
  <2> QED
    BY <2>2, <2>3, <2>4, <2>5
<1> QED
  BY <1>1, <1>2, <1>3

-----------------------------------------------------------------------------

LEMMA FenceInit == Init => FenceInv
<1> SUFFICES ASSUME Init PROVE FenceInv
  OBVIOUS
<1>1. \A b \in Backends : /\ phase[b] = "off" /\ lease_ts[b] = 0 /\ ~Holds(b)
                          /\ pending_writes[b] = {} /\ landed[b] = {}
  BY DEF Init, Holds
<1>2. lease = 0
  BY DEF Init
<1>3. LeaseInv
  BY <1>1, <1>2 DEF LeaseInv
<1>4. HolderInv /\ DeposedInv /\ PublishedInv
  BY <1>1 DEF HolderInv, DeposedInv, PublishedInv
<1>5. LandedInv
  BY <1>1 DEF LandedInv
<1> QED
  BY <1>3, <1>4, <1>5 DEF FenceInv

LEMMA FenceStep == LocalInv /\ FenceInv /\ [Next]_vars => FenceInv'
<1> SUFFICES ASSUME LocalInv, FenceInv, [Next]_vars PROVE FenceInv'
  OBVIOUS
<1>0. /\ TypeOK /\ LeaseInv /\ HolderInv /\ LandedInv /\ DeposedInv
      /\ PublishedInv
  BY DEF FenceInv, LocalInv
<1> QED
  BY <1>0, LeaseStep, HolderStep, LandedStep, DeposedStep, PublishedStep
     DEF FenceInv

\* Fencing: the lease timestamp is held by one backend, nothing above a
\* loading leader's timestamp exists, and what deposed backends may still
\* publish is below where the holder started (Lease::transact,
\* Database::load), whatever the number of backends and transactions.
THEOREM Fenced == Spec => []FenceInv
<1>1. Init => FenceInv
  BY FenceInit
<1>2. LocalInv /\ FenceInv /\ [Next]_vars => FenceInv'
  BY FenceStep
<1> QED
  BY <1>1, <1>2, LocallyOrdered, PTL DEF Spec

\* A commit lands above every timestamp that can be read at.
LEMMA LandsAbove ==
  ASSUME LocalInv, FenceInv, NEW a \in Backends, NEW p \in pending_writes[a],
         LandCommit(a, p)
  PROVE  /\ max_repeatable < p.commit.ts
         /\ \A b \in Backends :
              phase[b] = "running" => latest_ts[b] < p.commit.ts
<1>0. TypeOK /\ OrderOK(a) /\ QueueOK(a) /\ HolderInv /\ DeposedInv
  BY DEF LocalInv, OrderInv, QueueInv, FenceInv
<1>1. /\ Holds(a) /\ phase[a] = "running" /\ load_ts[a] <= latest_ts[a]
      /\ latest_ts[a] < p.commit.ts
  BY LandCommitEffect
<1>2. /\ max_repeatable \in Nat /\ p.commit.ts \in Nat /\ load_ts[a] \in Nat
      /\ persisted_max[a] \in Nat
      /\ \A b \in Backends : latest_ts[b] \in Nat
  BY <1>0, StoreFacts, NatFacts
<1>3. max_repeatable < p.commit.ts
  <2>1. CASE max_repeatable <= persisted_max[a]
    <3>1. persisted_max[a] <= latest_ts[a]
      BY <1>0 DEF OrderOK
    <3> QED
      BY <1>1, <1>2, <2>1, <3>1
  <2>2. ASSUME NEW x \in landed[a], x.kind = "bump", max_repeatable = x.ts
        PROVE  max_repeatable < p.commit.ts
    <3>1. PICK i \in 1..Len(persistence_writes[a]) : persistence_writes[a][i] = x
      BY <1>0 DEF QueueOK
    <3> QED
      BY <1>0, <2>2, <3>1 DEF OrderOK
  <2> QED
    BY <1>0, <1>1, <2>1, <2>2 DEF HolderInv
<1>4. ASSUME NEW b \in Backends, phase[b] = "running"
      PROVE  latest_ts[b] < p.commit.ts
  <2>1. CASE b = a
    BY <1>1, <2>1
  <2>2. CASE b # a
    <3>1. latest_ts[b] <= load_ts[a]
      BY <1>0, <1>1, <1>4, <2>2 DEF DeposedInv
    <3> QED
      BY <1>1, <1>2, <3>1
  <2> QED
    BY <2>1, <2>2
<1> QED
  BY <1>3, <1>4

\* Repeatable reads, for every instance: no commit lands at or below
\* MaxRepeatableTimestamp or a timestamp some backend has published
\* (next_max_repeatable_ts, Lease::transact, Database::load).
THEOREM ReadsAreRepeatable == Spec => RepeatableReads
<1> DEFINE A == \A d \in documents' \ documents :
                  /\ max_repeatable < d.ts
                  /\ \A b \in Backends :
                       phase[b] = "running" => latest_ts[b] < d.ts
<1>1. LocalInv /\ FenceInv /\ [Next]_vars => A
  <2> SUFFICES ASSUME LocalInv, FenceInv, [Next]_vars,
                      NEW d \in documents' \ documents
               PROVE  /\ max_repeatable < d.ts
                      /\ \A b \in Backends :
                           phase[b] = "running" => latest_ts[b] < d.ts
    OBVIOUS
  <2>1. PICK a \in Backends : \E p \in pending_writes[a] : LandCommit(a, p)
    BY DocumentActions
  <2>2. PICK p \in pending_writes[a] : LandCommit(a, p)
    BY <2>1
  <2>3. d = p.commit
    BY <2>2, LandCommitAt
  <2> QED
    BY <2>2, <2>3, LandsAbove
<1>2. LocalInv /\ FenceInv /\ [Next]_vars => [A]_vars
  BY <1>1
<1> QED
  BY <1>2, LocallyOrdered, Fenced, PTL DEF Spec, RepeatableReads

\* The MaxRepeatableTimestamp global never goes backward, for every instance
\* (bump_max_repeatable_ts, new_idle_repeatable_ts).
THEOREM MaxRepeatableNeverRegresses == Spec => MaxRepeatableMonotone
<1>1. LocalInv /\ FenceInv /\ [Next]_vars =>
        [max_repeatable <= max_repeatable']_max_repeatable
  BY MaxRepeatableStep DEF FenceInv
<1> QED
  BY <1>1, LocallyOrdered, Fenced, PTL DEF Spec, MaxRepeatableMonotone

-----------------------------------------------------------------------------
(* Versions.                                                               *)

\* A commit that lands above ts changes no version at ts.
LEMMA VersionStable ==
  ASSUME NEW k, NEW ts \in Nat, NEW v, NEW c,
         documents' = documents \cup {c}, c.ts \in Nat, ts < c.ts,
         IsVersionAt(k, ts, v)
  PROVE  IsVersionAt(k, ts, v)'
<1>1. /\ v <= ts
      /\ v = 0 \/ \E d \in documents : d.ts = v /\ k \in d.writes
      /\ \A d \in documents : v < d.ts /\ d.ts <= ts => k \notin d.writes
  BY DEF IsVersionAt
<1>2. ~(c.ts <= ts)
  OBVIOUS
<1>3. \A d \in documents' : v < d.ts /\ d.ts <= ts => k \notin d.writes
  BY <1>1, <1>2
<1>4. v = 0 \/ \E d \in documents' : d.ts = v /\ k \in d.writes
  BY <1>1
<1> QED
  BY <1>1, <1>3, <1>4 DEF IsVersionAt

\* A version stays current while nothing that writes the key follows.
LEMMA VersionExtends ==
  ASSUME NEW k, NEW ts \in Nat, NEW u \in Nat, NEW v \in Nat, ts <= u,
         \A d \in documents : d.ts \in Nat,
         IsVersionAt(k, ts, v),
         \A d \in documents : ts < d.ts /\ d.ts <= u => k \notin d.writes
  PROVE  IsVersionAt(k, u, v)
<1>1. /\ v <= ts
      /\ v = 0 \/ \E d \in documents : d.ts = v /\ k \in d.writes
      /\ \A d \in documents : v < d.ts /\ d.ts <= ts => k \notin d.writes
  BY DEF IsVersionAt
<1>2. \A d \in documents : v < d.ts /\ d.ts <= u => k \notin d.writes
  BY <1>1
<1>3. v <= u
  BY <1>1
<1> QED
  BY <1>1, <1>2, <1>3 DEF IsVersionAt

\* Versions in memory are numbers, keys and sets what they should be.
LEMMA ViewFacts ==
  ASSUME TypeOK
  PROVE  /\ \A b \in Backends, k \in Keys : snapshot[b][k] \in Nat
         /\ \A b \in Backends : \A p \in pending_writes[b] :
              /\ p.commit \in Commits
              /\ p.commit.reads \subseteq Keys /\ p.commit.writes \subseteq Keys
              /\ \A k \in Keys : p.snapshot[k] \in Nat
                                 /\ p.commit.view[k] \in Nat
         /\ \A d \in documents :
              /\ d.reads \subseteq Keys /\ d.writes \subseteq Keys
              /\ \A k \in Keys : d.view[k] \in Nat
         /\ \A t \in Txns : txn[t].begin \in Nat
                            /\ \A k \in Keys : txn[t].view[k] \in Nat
<1>1. \A s \in Snapshots, k \in Keys : s[k] \in Nat
  BY DEF Snapshots, Timestamps
<1>2. \A c \in Commits : /\ c.reads \subseteq Keys /\ c.writes \subseteq Keys
                         /\ c.view \in Snapshots
  BY DEF Commits
<1>3. \A b \in Backends : snapshot[b] \in Snapshots
  BY DEF TypeOK
<1>4. \A b \in Backends : \A p \in pending_writes[b] :
        p.commit \in Commits /\ p.snapshot \in Snapshots
  BY DEF TypeOK
<1>5. \A d \in documents : d \in Commits
  BY DEF TypeOK
<1>6. \A t \in Txns : txn[t].begin \in Nat /\ txn[t].view \in Snapshots
  BY DEF TypeOK, ClientTxns, Timestamps
<1> QED
  BY <1>1, <1>2, <1>3, <1>4, <1>5, <1>6

-----------------------------------------------------------------------------
(* Who changes the write log and the snapshots.                            *)

LEMMA LogActions ==
  ASSUME [Next]_vars
  PROVE  \/ UNCHANGED logVars
         \/ \E b \in Backends :
              \/ FinishLoad(b)
              \/ \E p \in pending_writes[b] : PublishCommit(b, p)
              \/ PublishMaxRepeatableTs(b)
              \/ TrimLog(b)
BY DEF Next, vars, AcquireLease, LeaseRefused, IdleRepeatableTs,
       WriteIdleRepeatableTs, LoadSnapshot, LoadRace, BumpMaxRepeatableTs,
       LandCommit, LandBump, LeaseLost, Crash, Begin, ReadOnlyCommit,
       RejectCommit, StartCommit

LEMMA TrimLogAt ==
  ASSUME LocalInv, NEW b \in Backends, TrimLog(b)
  PROVE  \E e \in log[b] :
           /\ \A f \in log[b] : e.ts <= f.ts
           /\ log'[b] = log[b] \ {e} /\ purged_ts'[b] = e.ts
           /\ UNCHANGED <<persistenceVars, startupVars, alive, snapshotVars,
                          queueVars, txn>>
BY DEF TrimLog, LocalInv, TypeOK

\* The write log of one backend.
LEMMA LogStep ==
  ASSUME LocalInv, [Next]_vars, NEW c \in Backends
  PROVE  \/ UNCHANGED <<log[c], purged_ts[c]>>
         \/ FinishLoad(c)
         \/ \E p \in pending_writes[c] : PublishCommit(c, p)
         \/ PublishMaxRepeatableTs(c)
         \/ TrimLog(c)
<1> DEFINE Quiet == UNCHANGED <<log[c], purged_ts[c]>>
<1>0. TypeOK
  BY DEF LocalInv
<1>1. ASSUME UNCHANGED logVars PROVE Quiet
  BY <1>1 DEF logVars
<1>2. ASSUME NEW b \in Backends, FinishLoad(b), b # c PROVE Quiet
  BY <1>0, <1>2 DEF FinishLoad, TypeOK
<1>3. ASSUME NEW b \in Backends, NEW p \in pending_writes[b],
             PublishCommit(b, p), b # c
      PROVE  Quiet
  BY <1>0, <1>3, PublishCommitEffect DEF TypeOK
<1>4. ASSUME NEW b \in Backends, PublishMaxRepeatableTs(b), b # c PROVE Quiet
  <2>1. /\ \/ \E y : log' = [log EXCEPT ![b] = y]
           \/ log' = log
        /\ purged_ts' = purged_ts
    BY <1>4 DEF PublishMaxRepeatableTs
  <2> QED
    BY <1>0, <1>4, <2>1 DEF TypeOK
<1>5. ASSUME NEW b \in Backends, TrimLog(b), b # c PROVE Quiet
  BY <1>0, <1>5 DEF TrimLog, TypeOK
<1> HIDE DEF Quiet
<1>6. \/ Quiet
      \/ FinishLoad(c)
      \/ \E p \in pending_writes[c] : PublishCommit(c, p)
      \/ PublishMaxRepeatableTs(c)
      \/ TrimLog(c)
  BY <1>1, <1>2, <1>3, <1>4, <1>5, LogActions
<1> QED
  BY <1>6 DEF Quiet

\* The snapshot of one backend.
LEMMA SnapshotStep ==
  ASSUME LocalInv, [Next]_vars, NEW c \in Backends
  PROVE  \/ UNCHANGED snapshot[c]
         \/ LoadSnapshot(c)
         \/ \E p \in pending_writes[c] : PublishCommit(c, p)
<1> DEFINE Quiet == UNCHANGED snapshot[c]
<1>0. TypeOK
  BY DEF LocalInv
<1>1. ASSUME UNCHANGED snapshotVars PROVE Quiet
  BY <1>1 DEF snapshotVars
<1>2. ASSUME NEW b \in Backends, LoadSnapshot(b), b # c PROVE Quiet
  BY <1>0, <1>2 DEF LoadSnapshot, TypeOK
<1>3. ASSUME NEW b \in Backends, NEW p \in pending_writes[b],
             PublishCommit(b, p), b # c
      PROVE  Quiet
  BY <1>0, <1>3, PublishCommitEffect DEF TypeOK
<1>4. ASSUME NEW b \in Backends, PublishMaxRepeatableTs(b) PROVE Quiet
  BY <1>4 DEF PublishMaxRepeatableTs
<1>5. ASSUME NEW b \in Backends, FinishLoad(b) PROVE Quiet
  BY <1>5 DEF FinishLoad
<1> HIDE DEF Quiet
<1>6. \/ UNCHANGED snapshotVars
      \/ \E b \in Backends :
           \/ LoadSnapshot(b) \/ FinishLoad(b)
           \/ \E p \in pending_writes[b] : PublishCommit(b, p)
           \/ PublishMaxRepeatableTs(b)
  BY DEF Next, vars, AcquireLease, LeaseRefused, IdleRepeatableTs,
         WriteIdleRepeatableTs, LoadRace, BumpMaxRepeatableTs, LandCommit,
         LandBump, TrimLog, LeaseLost, Crash, Begin, ReadOnlyCommit,
         RejectCommit, StartCommit
<1>7. \/ Quiet
      \/ LoadSnapshot(c)
      \/ \E p \in pending_writes[c] : PublishCommit(c, p)
  BY <1>1, <1>2, <1>3, <1>4, <1>5, <1>6
<1> QED
  BY <1>7 DEF Quiet

-----------------------------------------------------------------------------
(* The write log.                                                          *)

\* What is durable between a backend's latest timestamp and the commit it
\* publishes is that commit.
LEMMA PublishGap ==
  ASSUME LocalInv, PublishedInv, NEW b \in Backends,
         NEW p \in pending_writes[b], PublishCommit(b, p),
         NEW d \in documents, latest_ts[b] < d.ts, d.ts <= p.commit.ts
  PROVE  d = p.commit
<1>0. TypeOK
  BY DEF LocalInv
<1>1. /\ phase[b] = "running" /\ CommitItem(p.commit.ts) \in landed[b]
      /\ \A q \in pending_writes[b] : q # p => p.commit.ts < q.commit.ts
  BY PublishCommitAt
<1>2. /\ d.ts \in Nat /\ latest_ts[b] \in Nat
      /\ \A q \in pending_writes[b] : q.commit.ts \in Nat
  BY <1>0, StoreFacts, NatFacts
<1>3. ~(d.ts <= latest_ts[b])
  BY <1>2
<1>4. CommitItem(p.commit.ts).ts = p.commit.ts
  BY DEF CommitItem
<1>5. ~(\A x \in landed[b] : x.ts < d.ts)
  BY <1>1, <1>2, <1>4
<1>6. PICK q \in pending_writes[b] : q.commit = d
  BY <1>1, <1>3, <1>5 DEF PublishedInv
<1> QED
  BY <1>1, <1>2, <1>6

\* Nothing is durable between the latest timestamp and a landed bump's.
LEMMA BumpGap ==
  ASSUME LocalInv, PublishedInv, NEW b \in Backends, phase[b] = "running",
         NEW x \in landed[b], x.ts \in Nat,
         \A p \in pending_writes[b] : x.ts < p.commit.ts,
         NEW d \in documents, latest_ts[b] < d.ts, d.ts <= x.ts
  PROVE  FALSE
<1>0. TypeOK
  BY DEF LocalInv
<1>2. /\ d.ts \in Nat /\ latest_ts[b] \in Nat
      /\ \A q \in pending_writes[b] : q.commit.ts \in Nat
  BY <1>0, StoreFacts, NatFacts
<1>3. ~(d.ts <= latest_ts[b]) /\ ~(x.ts < d.ts)
  BY <1>2
<1>4. \A q \in pending_writes[b] : q.commit # d
  BY <1>2
<1> QED
  BY <1>3, <1>4 DEF PublishedInv

LEMMA LogInvStep ==
  ASSUME LocalInv, FenceInv, LogInv, [Next]_vars PROVE LogInv'
<1> DEFINE From(b) == \A e \in log[b] : purged_ts[b] <= e.ts
           Has(b, d) == \E e \in log[b] : e.ts = d.ts /\ e.writes = d.writes
           Window(b) == \A d \in documents :
                          purged_ts[b] < d.ts /\ d.ts <= latest_ts[b] => Has(b, d)
<1> SUFFICES ASSUME NEW b \in Backends
             PROVE  From(b)' /\ (phase'[b] = "running" => Window(b)')
  BY DEF LogInv
<1>0. /\ TypeOK /\ StartInv /\ OrderOK(b) /\ PublishedInv
      /\ From(b) /\ (phase[b] = "running" => Window(b))
  BY DEF LocalInv, OrderInv, FenceInv, LogInv
<1>a. TypeOK'
  BY <1>0, StepType
<1>b. /\ latest_ts[b] \in Nat /\ purged_ts[b] \in Nat /\ purged_ts[b] <= latest_ts[b]
      /\ \A e \in log[b] : e.ts \in Nat
      /\ \A d \in documents : d.ts \in Nat
  BY <1>0, NatFacts, StoreFacts DEF OrderOK
<1>1. CASE FinishLoad(b)
  <2>1. /\ phase[b] = "snapshot_read" /\ latest_ts'[b] = load_ts[b]
        /\ purged_ts'[b] = load_ts[b]
        /\ UNCHANGED <<log, documents>>
    BY <1>0, <1>1, StartupEffect
  <2>2. log[b] = {}
    BY <1>0, <2>1 DEF StartInv
  <2>3. load_ts[b] \in Nat
    BY <1>0, NatFacts
  <2> QED
    BY <1>b, <2>1, <2>2, <2>3
<1>2. ASSUME NEW p \in pending_writes[b], PublishCommit(b, p)
      PROVE  From(b)' /\ Window(b)'
  <2> DEFINE e == [ts |-> p.commit.ts, writes |-> p.commit.writes]
  <2>1. /\ phase[b] = "running" /\ latest_ts[b] < p.commit.ts
        /\ latest_ts'[b] = p.commit.ts
        /\ log'[b] = log[b] \cup {e}
        /\ purged_ts' = purged_ts /\ documents' = documents
    BY <1>2, PublishCommitAt
  <2>2. e.ts = p.commit.ts /\ e.writes = p.commit.writes
    OBVIOUS
  <2>3. p.commit.ts \in Nat
    BY <1>0, NatFacts
  <2> HIDE DEF e
  <2>4. From(b)'
    BY <1>0, <1>b, <2>1, <2>2, <2>3
  <2>5. ASSUME NEW d \in documents, purged_ts[b] < d.ts, d.ts <= p.commit.ts
        PROVE  Has(b, d)'
    <3>1. CASE d.ts <= latest_ts[b]
      BY <1>0, <2>1, <2>5, <3>1
    <3>2. CASE ~(d.ts <= latest_ts[b])
      <4>1. latest_ts[b] < d.ts
        BY <1>b, <3>2
      <4>2. d = p.commit
        BY <1>0, <1>2, <2>5, <4>1, PublishGap
      <4> QED
        BY <2>1, <2>2, <4>2
    <3> QED
      BY <3>1, <3>2
  <2> QED
    BY <2>1, <2>4, <2>5
<1>3. ASSUME PublishMaxRepeatableTs(b) PROVE From(b)' /\ Window(b)'
  <2>1. PICK x \in landed[b] :
         /\ x.ts \in Timestamps /\ phase[b] = "running"
         /\ \A p \in pending_writes[b] : x.ts < p.commit.ts
         /\ \/ /\ latest_ts[b] < x.ts
               /\ latest_ts' = [latest_ts EXCEPT ![b] = x.ts]
               /\ log' = [log EXCEPT ![b] = log[b] \cup
                            {[ts |-> x.ts, writes |-> {}]}]
            \/ UNCHANGED <<latest_ts, log>>
         /\ UNCHANGED <<persistenceVars, purged_ts>>
    BY <1>3, PublishBumpEffect
  <2>2. /\ \/ /\ latest_ts[b] < x.ts /\ latest_ts'[b] = x.ts
              /\ log'[b] = log[b] \cup {[ts |-> x.ts, writes |-> {}]}
           \/ latest_ts'[b] = latest_ts[b] /\ log'[b] = log[b]
        /\ documents' = documents /\ purged_ts'[b] = purged_ts[b]
    BY <1>0, <2>1 DEF TypeOK, persistenceVars
  <2>3. x.ts \in Nat
    BY <2>1 DEF Timestamps
  <2>4. From(b)'
    BY <1>0, <1>b, <2>2, <2>3
  <2>5. ASSUME NEW d \in documents, purged_ts[b] < d.ts, d.ts <= latest_ts'[b]
        PROVE  Has(b, d)'
    <3>1. CASE d.ts <= latest_ts[b]
      BY <1>0, <2>1, <2>2, <2>5, <3>1
    <3>2. CASE ~(d.ts <= latest_ts[b])
      <4>1. latest_ts[b] < d.ts /\ d.ts <= x.ts
        BY <1>b, <2>2, <2>3, <2>5, <3>2
      <4> QED
        BY <1>0, <2>1, <2>3, <4>1, BumpGap
    <3> QED
      BY <3>1, <3>2
  <2> QED
    BY <2>2, <2>4, <2>5
<1>4. ASSUME TrimLog(b) PROVE From(b)' /\ (phase'[b] = "running" => Window(b)')
  <2>1. PICK e \in log[b] :
          /\ \A f \in log[b] : e.ts <= f.ts
          /\ log'[b] = log[b] \ {e} /\ purged_ts'[b] = e.ts
          /\ UNCHANGED <<persistenceVars, startupVars, alive, snapshotVars,
                         queueVars, txn>>
    BY <1>4, TrimLogAt
  <2>2. UNCHANGED <<documents, phase, latest_ts>>
    BY <2>1 DEF persistenceVars, startupVars, snapshotVars
  <2>3. From(b)'
    BY <2>1
  <2>4. ASSUME NEW d \in documents, e.ts < d.ts, d.ts <= latest_ts[b],
               phase[b] = "running"
        PROVE  Has(b, d)'
    <3>1. purged_ts[b] < d.ts
      BY <1>0, <1>b, <2>4
    <3>2. PICK f \in log[b] : f.ts = d.ts /\ f.writes = d.writes
      BY <1>0, <2>4, <3>1
    <3>3. f # e
      BY <1>b, <2>4, <3>2
    <3> QED
      BY <2>1, <3>2, <3>3
  <2> QED
    BY <2>1, <2>2, <2>3, <2>4
<1>5. ASSUME UNCHANGED <<log[b], purged_ts[b]>>, latest_ts'[b] = latest_ts[b],
             ~FinishLoad(b)
      PROVE  From(b)' /\ (phase'[b] = "running" => Window(b)')
  <2>1. From(b)'
    BY <1>0, <1>5
  <2>2. ASSUME phase'[b] = "running" PROVE Window(b)'
    <3>1. phase[b] = "running"
      BY <1>0, <1>5, <2>2, PhaseStep, StartupEffect
    <3>2. ASSUME NEW a \in Backends, NEW p \in pending_writes[a], LandCommit(a, p)
          PROVE  Window(b)'
      <4>1. documents' = documents \cup {p.commit}
        BY <3>2, LandCommitAt
      <4>2. latest_ts[b] < p.commit.ts
        BY <3>1, <3>2, LandsAbove
      <4>3. ~(p.commit.ts <= latest_ts[b])
        BY <1>0, <1>b, <3>2, <4>2, NatFacts
      <4> QED
        BY <1>0, <1>5, <3>1, <4>1, <4>3
    <3>3. CASE documents' = documents
      BY <1>0, <1>5, <3>1, <3>3
    <3> QED
      BY <3>2, <3>3, DocumentActions
  <2> QED
    BY <2>1, <2>2
<1>6. \/ latest_ts'[b] = latest_ts[b]
      \/ FinishLoad(b)
      \/ \E p \in pending_writes[b] : PublishCommit(b, p)
      \/ PublishMaxRepeatableTs(b)
  BY MemoryStep, LandCommitAt, LandBumpAt, StartCommitAt
<1> HIDE DEF From, Window
<1> QED
  BY <1>1, <1>2, <1>3, <1>4, <1>5, <1>6, LogStep

-----------------------------------------------------------------------------
(* Conflicts.                                                              *)

\* The conflict check of a holder sees every durable commit.
LEMMA CheckIsComplete ==
  ASSUME LocalInv, FenceInv, LogInv, NEW b \in Backends, Holds(b),
         phase[b] = "running",
         NEW reads, NEW begin \in Nat, NEW ts \in Nat,
         latest_ts[b] < ts,
         ~commit_has_conflict(b, reads, begin, ts)
  PROVE  /\ \A d \in documents :
              begin < d.ts /\ d.ts < ts => d.writes \cap reads = {}
         /\ \A q \in pending_writes[b] :
              begin < q.commit.ts /\ q.commit.ts < ts =>
                q.commit.writes \cap reads = {}
<1>0. TypeOK /\ PublishedInv
  BY DEF LocalInv, FenceInv
<1>1. /\ ~(begin < purged_ts[b])
      /\ \A e \in log[b] : begin < e.ts /\ e.ts <= ts => e.writes \cap reads = {}
  BY DEF commit_has_conflict, LogIsStale
<1>2. \A q \in pending_writes[b] : begin < q.commit.ts /\ q.commit.ts <= ts =>
        q.commit.writes \cap reads = {}
  BY DEF commit_has_conflict, PendingIsStale
<1>3. /\ latest_ts[b] \in Nat /\ purged_ts[b] \in Nat
      /\ \A q \in pending_writes[b] : q.commit.ts \in Nat
      /\ \A d \in documents : d.ts \in Nat
  BY <1>0, NatFacts, StoreFacts
<1>4. \A q \in pending_writes[b] : begin < q.commit.ts /\ q.commit.ts < ts =>
        q.commit.writes \cap reads = {}
  BY <1>2, <1>3
<1>5. ASSUME NEW d \in documents, begin < d.ts, d.ts < ts
      PROVE  d.writes \cap reads = {}
  <2>1. CASE d.ts <= latest_ts[b]
    <3>1. purged_ts[b] < d.ts
      BY <1>1, <1>3, <1>5
    <3>2. PICK e \in log[b] : e.ts = d.ts /\ e.writes = d.writes
      BY <2>1, <3>1 DEF LogInv
    <3> QED
      BY <1>1, <1>3, <1>5, <3>2
  <2>2. CASE ~(d.ts <= latest_ts[b])
    <3>1. PICK q \in pending_writes[b] : q.commit = d
      BY <1>0, <2>2 DEF PublishedInv
    <3> QED
      BY <1>4, <1>5, <3>1
  <2> QED
    BY <2>1, <2>2
<1> QED
  BY <1>4, <1>5

\* p conflicts with nothing durable or pending.
NoConflict(h, p) ==
  /\ \A d \in documents :
       p.commit.begin < d.ts /\ d.ts < p.commit.ts =>
         d.writes \cap p.commit.reads = {}
  /\ \A q \in pending_writes[h] :
       p.commit.begin < q.commit.ts /\ q.commit.ts < p.commit.ts =>
         q.commit.writes \cap p.commit.reads = {}

\* The pending writes of a backend after a commit has started there.
AddsPending(t, reads, writes, ts) ==
  \E base \in LatestPendingSnapshot(txn[t].backend) :
    pending_writes'[txn[t].backend] =
      pending_writes[txn[t].backend] \cup {PendingWrite(t, reads, writes, ts, base)}

LEMMA StartCommitAdds ==
  ASSUME LocalInv, NEW t \in Txns, NEW reads \in SUBSET Keys,
         NEW writes \in SUBSET Keys, NEW ts \in Timestamps,
         StartCommit(t, reads, writes, ts)
  PROVE  AddsPending(t, reads, writes, ts)
<1> DEFINE b == txn[t].backend
<1>1. \E base \in LatestPendingSnapshot(b) : pending_writes'[b] =
        pending_writes[b] \cup {PendingWrite(t, reads, writes, ts, base)}
  BY StartCommitAt
<1> QED
  BY <1>1 DEF AddsPending

LEMMA HolderConflictStep ==
  ASSUME LocalInv, FenceInv, LogInv, HolderConflictInv, [Next]_vars
  PROVE  HolderConflictInv'
<1> SUFFICES ASSUME NEW h \in Backends, Holds(h)', NEW p \in pending_writes'[h]
             PROVE  NoConflict(h, p)'
  BY DEF HolderConflictInv, NoConflict
<1>0. TypeOK /\ LeaseInv /\ StartInv /\ OrderOK(h)
  BY DEF LocalInv, FenceInv, OrderInv
<1>a. TypeOK'
  BY <1>0, StepType
<1>1. ASSUME NEW ts \in 1..MaxLease, AcquireLease(h, ts) PROVE FALSE
  <2>1. pending_writes[h] = {}
    BY <1>0, <1>1, StartupEffect DEF StartInv
  <2>2. pending_writes' = pending_writes
    BY <1>1 DEF AcquireLease, queueVars
  <2> QED
    BY <2>1, <2>2
<1>2. Holds(h)
  BY <1>0, <1>1, HoldsStep
<1>3. \A q \in pending_writes[h] : NoConflict(h, q)
  BY <1>2 DEF HolderConflictInv, NoConflict
<1>4. ASSUME NEW q \in pending_writes[h], LandCommit(h, q)
      PROVE  NoConflict(h, p)'
  <2>1. /\ documents' = documents \cup {q.commit}
        /\ pending_writes'[h] = pending_writes[h]
    BY <1>4, LandCommitAt
  <2> QED
    BY <1>3, <2>1 DEF NoConflict
<1>5. ASSUME NEW t \in Txns, NEW reads \in SUBSET Keys,
             NEW writes \in SUBSET Keys, NEW ts \in Timestamps,
             StartCommit(t, reads, writes, ts), txn[t].backend = h
      PROVE  NoConflict(h, p)'
  <2>1. /\ ValidateCommit(t, reads, writes, ts)
        /\ ~commit_has_conflict(txn[t].backend, reads, txn[t].begin, ts)
    BY <1>5 DEF StartCommit
  <2>2. /\ phase[h] = "running" /\ latest_ts[h] < ts /\ last_assigned_ts[h] < ts
    BY <1>5, <2>1, StartCommitOpen
  <2>3. documents' = documents
    BY <1>5, StartCommitAt
  <2>4. PICK base \in LatestPendingSnapshot(txn[t].backend) :
          pending_writes'[txn[t].backend] =
            pending_writes[txn[t].backend]
              \cup {PendingWrite(t, reads, writes, ts, base)}
    <3>1. AddsPending(t, reads, writes, ts)
      BY <1>5, StartCommitAdds
    <3> QED
      BY <3>1 DEF AddsPending
  <2> DEFINE new == PendingWrite(t, reads, writes, ts, base)
  <2>5. /\ new.commit.ts = ts /\ new.commit.begin = txn[t].begin
        /\ new.commit.reads = reads
    BY PendingWriteFields
  <2> HIDE DEF new
  <2>6. ts \in Nat /\ txn[t].begin \in Nat
    BY <1>0, ViewFacts DEF Timestamps
  <2>7. \A q \in pending_writes[h] : q.commit.ts < ts /\ q.commit.ts \in Nat
    <3>1. \A q \in pending_writes[h] : q.commit.ts <= last_assigned_ts[h]
      BY <1>0 DEF OrderOK
    <3>2. last_assigned_ts[h] \in Nat /\ \A q \in pending_writes[h] : q.commit.ts \in Nat
      BY <1>0, NatFacts
    <3> QED
      BY <2>2, <2>6, <3>1, <3>2
  <2>8. pending_writes'[h] = pending_writes[h] \cup {new}
    BY <1>5, <2>4 DEF new
  <2>9. CASE p = new
    <3>1. /\ \A d \in documents :
               txn[t].begin < d.ts /\ d.ts < ts => d.writes \cap reads = {}
          /\ \A q \in pending_writes[h] :
               txn[t].begin < q.commit.ts /\ q.commit.ts < ts =>
                 q.commit.writes \cap reads = {}
      <4>1. ~commit_has_conflict(h, reads, txn[t].begin, ts)
        BY <1>5, <2>1
      <4> QED
        BY <1>2, <2>2, <2>6, <4>1, CheckIsComplete
    <3>2. ~(new.commit.ts < ts)
      BY <2>5, <2>6
    <3> QED
      BY <2>3, <2>5, <2>8, <2>9, <3>1, <3>2 DEF NoConflict
  <2>10. CASE p \in pending_writes[h]
    <3>1. ~(new.commit.ts < p.commit.ts)
      BY <2>5, <2>6, <2>7, <2>10
    <3>2. NoConflict(h, p)
      BY <1>3, <2>10
    <3> QED
      BY <2>3, <2>8, <3>1, <3>2 DEF NoConflict
  <2> QED
    BY <2>8, <2>9, <2>10
<1>6. ASSUME documents' = documents, pending_writes'[h] \subseteq pending_writes[h]
      PROVE  NoConflict(h, p)'
  BY <1>3, <1>6 DEF NoConflict
<1>7. ASSUME NEW q \in pending_writes[h], PublishCommit(h, q)
      PROVE  pending_writes'[h] \subseteq pending_writes[h]
  BY <1>7, PublishCommitAt
<1>8. ASSUME PublishMaxRepeatableTs(h)
      PROVE  pending_writes'[h] \subseteq pending_writes[h]
  BY <1>8, PublishBumpAt
<1>9. ASSUME FinishLoad(h) PROVE pending_writes'[h] \subseteq pending_writes[h]
  BY <1>0, <1>9, StartupEffect
<1>10. ASSUME NEW ts \in Timestamps, LandBump(h, ts)
       PROVE  pending_writes'[h] \subseteq pending_writes[h]
  BY <1>10, LandBumpAt
<1>11. \/ documents' = documents
       \/ \E q \in pending_writes[h] : LandCommit(h, q)
  BY <1>0, <1>2, DocumentActions, LandCommitAt, OneHolder
<1> QED
  BY <1>4, <1>5, <1>6, <1>7, <1>8, <1>9, <1>10, <1>11, MemoryStep

-----------------------------------------------------------------------------
(* Serializability.                                                        *)

LEMMA SerializableStep ==
  ASSUME LocalInv, FenceInv, HolderConflictInv, SnapshotInv, Serializable,
         [Next]_vars
  PROVE  Serializable'
<1>0. TypeOK /\ PublishedInv
  BY DEF LocalInv, FenceInv
<1>1. CASE documents' = documents
  BY <1>1 DEF Serializable, IsVersionAt
<1>2. ASSUME NEW a \in Backends, NEW p \in pending_writes[a], LandCommit(a, p)
      PROVE  Serializable'
  <2>1. /\ Holds(a) /\ phase[a] = "running" /\ latest_ts[a] < p.commit.ts
        /\ documents' = documents \cup {p.commit}
    BY <1>2, LandCommitEffect
  <2>2. /\ \A q \in pending_writes[a] :
             q.commit.ts \in Nat /\ q.commit.begin \in Nat
             /\ q.commit.begin <= latest_ts[a]
        /\ latest_ts[a] \in Nat
        /\ \A d \in documents : d.ts \in Nat
    BY <1>0, NatFacts, StoreFacts DEF LocalInv, OrderInv, OrderOK
  <2>3. \A k \in p.commit.reads :
          IsVersionAt(k, p.commit.ts - 1, p.commit.view[k])'
    <3> SUFFICES ASSUME NEW k \in p.commit.reads
                 PROVE  IsVersionAt(k, p.commit.ts - 1, p.commit.view[k])'
      OBVIOUS
    <3>1. k \in Keys /\ p.commit.view[k] \in Nat
      BY <1>0, ViewFacts
    <3>2. IsVersionAt(k, p.commit.begin, p.commit.view[k])
      BY <3>1 DEF SnapshotInv
    <3>3. p.commit.ts - 1 \in Nat /\ p.commit.begin <= p.commit.ts - 1
      BY <2>1, <2>2
    <3>4. \A d \in documents :
            p.commit.begin < d.ts /\ d.ts < p.commit.ts =>
              d.writes \cap p.commit.reads = {}
      BY <2>1 DEF HolderConflictInv
    <3>5. \A d \in documents :
            p.commit.begin < d.ts /\ d.ts <= p.commit.ts - 1 => k \notin d.writes
      BY <2>2, <3>4
    <3>6. IsVersionAt(k, p.commit.ts - 1, p.commit.view[k])
      BY <2>2, <3>1, <3>2, <3>3, <3>5, VersionExtends
    <3>7. p.commit.ts - 1 < p.commit.ts
      BY <2>2
    <3>8. p.commit.ts \in Nat
      BY <2>2
    <3> QED
      BY <2>1, <3>3, <3>6, <3>7, <3>8, VersionStable
  <2>4. ASSUME NEW e \in documents, NEW k \in e.reads
        PROVE  IsVersionAt(k, e.ts - 1, e.view[k])'
    <3>1. IsVersionAt(k, e.ts - 1, e.view[k])
      BY <2>4 DEF Serializable
    <3>2. p.commit.ts < e.ts => k \notin p.commit.writes
      <4> SUFFICES ASSUME p.commit.ts < e.ts PROVE k \notin p.commit.writes
        OBVIOUS
      <4>1. ~(e.ts <= latest_ts[a])
        BY <2>1, <2>2
      <4>2. PICK q \in pending_writes[a] : q.commit = e
        BY <1>0, <2>1, <4>1 DEF PublishedInv
      <4>3. q.commit.begin < p.commit.ts /\ p.commit.ts < q.commit.ts
        BY <2>1, <2>2, <4>2
      <4>4. p.commit.writes \cap q.commit.reads = {}
        BY <2>1, <4>3 DEF HolderConflictInv
      <4> QED
        BY <2>4, <4>2, <4>4
    <3>3. p.commit.ts <= e.ts - 1 => k \notin p.commit.writes
      BY <2>2, <3>2
    <3>4. /\ e.view[k] <= e.ts - 1
          /\ e.view[k] = 0 \/ \E d \in documents : d.ts = e.view[k] /\ k \in d.writes
          /\ \A d \in documents :
               e.view[k] < d.ts /\ d.ts <= e.ts - 1 => k \notin d.writes
      BY <3>1 DEF IsVersionAt
    <3>5. e.view[k] = 0 \/ \E d \in documents' : d.ts = e.view[k] /\ k \in d.writes
      BY <2>1, <3>4
    <3>6. \A d \in documents' :
            e.view[k] < d.ts /\ d.ts <= e.ts - 1 => k \notin d.writes
      BY <2>1, <3>3, <3>4
    <3> QED
      BY <3>4, <3>5, <3>6 DEF IsVersionAt
  <2> QED
    BY <2>1, <2>3, <2>4 DEF Serializable
<1> QED
  BY <1>1, <1>2, DocumentActions

-----------------------------------------------------------------------------
(* Pending snapshots.                                                      *)

\* publish_commit: the first pending write leaves, its snapshot is published.
LEMMA PublishPendingVersion ==
  ASSUME LocalInv, PendingSnapshotInv, NEW b \in Backends,
         NEW f \in pending_writes[b], PublishCommit(b, f),
         NEW p \in pending_writes[b], p # f, NEW k \in Keys
  PROVE  PendingVersion(b, k, p.commit.ts, p.snapshot[k])'
<1>0. TypeOK
  BY DEF LocalInv
<1>1. /\ \A q \in pending_writes[b] : q # f => f.commit.ts < q.commit.ts
      /\ pending_writes'[b] = pending_writes[b] \ {f}
      /\ snapshot'[b] = f.snapshot
  BY PublishCommitAt
<1>2. \A q \in pending_writes[b] : q.commit.ts \in Nat
  BY <1>0, NatFacts
<1>3. f.commit.ts <= p.commit.ts
  BY <1>1, <1>2
<1>4. PendingVersion(b, k, f.commit.ts, f.snapshot[k])
  BY DEF PendingSnapshotInv
<1>5. \/ f.snapshot[k] = snapshot[b][k] /\ k \notin f.commit.writes
      \/ f.snapshot[k] = f.commit.ts /\ k \in f.commit.writes
  <2>1. ASSUME f.snapshot[k] = snapshot[b][k],
               \A q \in pending_writes[b] :
                 q.commit.ts <= f.commit.ts => k \notin q.commit.writes
        PROVE  f.snapshot[k] = snapshot[b][k] /\ k \notin f.commit.writes
    BY <1>2, <2>1
  <2>2. ASSUME NEW q \in pending_writes[b], q.commit.ts = f.snapshot[k],
               q.commit.ts <= f.commit.ts, k \in q.commit.writes
        PROVE  f.snapshot[k] = f.commit.ts /\ k \in f.commit.writes
    <3>1. q = f
      BY <1>1, <1>2, <2>2
    <3> QED
      BY <2>2, <3>1
  <2> QED
    BY <1>4, <2>1, <2>2 DEF PendingVersion
<1>6. ASSUME p.snapshot[k] = snapshot[b][k],
             \A q \in pending_writes[b] :
               q.commit.ts <= p.commit.ts => k \notin q.commit.writes
      PROVE  PendingVersion(b, k, p.commit.ts, p.snapshot[k])'
  <2>1. k \notin f.commit.writes
    BY <1>3, <1>6
  <2>2. p.snapshot[k] = snapshot'[b][k]
    BY <1>1, <1>5, <1>6, <2>1
  <2>3. \A q \in pending_writes'[b] :
          q.commit.ts <= p.commit.ts => k \notin q.commit.writes
    BY <1>1, <1>6
  <2> QED
    BY <2>2, <2>3 DEF PendingVersion
<1>7. ASSUME NEW q \in pending_writes[b], q.commit.ts = p.snapshot[k],
             q.commit.ts <= p.commit.ts, k \in q.commit.writes,
             \A r \in pending_writes[b] :
               q.commit.ts < r.commit.ts /\ r.commit.ts <= p.commit.ts =>
                 k \notin r.commit.writes
      PROVE  PendingVersion(b, k, p.commit.ts, p.snapshot[k])'
  <2>1. CASE q # f
    <3>1. q \in pending_writes'[b]
      BY <1>1, <2>1
    <3>2. \A r \in pending_writes'[b] :
            q.commit.ts < r.commit.ts /\ r.commit.ts <= p.commit.ts =>
              k \notin r.commit.writes
      BY <1>1, <1>7
    <3> QED
      BY <1>7, <3>1, <3>2 DEF PendingVersion
  <2>2. CASE q = f
    <3>1. p.snapshot[k] = snapshot'[b][k]
      BY <1>1, <1>5, <1>7, <2>2
    <3>2. \A r \in pending_writes'[b] :
            r.commit.ts <= p.commit.ts => k \notin r.commit.writes
      BY <1>1, <1>7, <2>2
    <3> QED
      BY <3>1, <3>2 DEF PendingVersion
  <2> QED
    BY <2>1, <2>2
<1>8. PendingVersion(b, k, p.commit.ts, p.snapshot[k])
  BY DEF PendingSnapshotInv
<1> QED
  BY <1>6, <1>7, <1>8 DEF PendingVersion

\* start_commit: a commit above all pending ones, on top of the last snapshot.
LEMMA StartPendingVersion ==
  ASSUME LocalInv, PendingSnapshotInv, NEW t \in Txns,
         NEW reads \in SUBSET Keys, NEW writes \in SUBSET Keys,
         NEW ts \in Timestamps, StartCommit(t, reads, writes, ts),
         NEW b \in Backends, txn[t].backend = b,
         NEW p \in pending_writes'[b], NEW k \in Keys
  PROVE  PendingVersion(b, k, p.commit.ts, p.snapshot[k])'
<1>0. TypeOK /\ OrderOK(b)
  BY DEF LocalInv, OrderInv
<1>1. PICK base \in LatestPendingSnapshot(txn[t].backend) :
        pending_writes'[txn[t].backend] =
          pending_writes[txn[t].backend]
            \cup {PendingWrite(t, reads, writes, ts, base)}
  <2>1. AddsPending(t, reads, writes, ts)
    BY StartCommitAdds
  <2> QED
    BY <2>1 DEF AddsPending
<1> DEFINE new == PendingWrite(t, reads, writes, ts, base)
<1>2. /\ new.commit.ts = ts /\ new.commit.writes = writes
      /\ new.snapshot = compute_writes(base, writes, ts)
  BY PendingWriteFields
<1> HIDE DEF new
<1>3. new.snapshot[k] = IF k \in writes THEN ts ELSE base[k]
  BY <1>2 DEF compute_writes
<1>4. /\ pending_writes'[b] = pending_writes[b] \cup {new}
      /\ base \in LatestPendingSnapshot(b)
  BY <1>1 DEF new
<1>5. snapshot' = snapshot
  BY DEF StartCommit, snapshotVars
<1>6. ts \in Nat /\ \A q \in pending_writes[b] :
        q.commit.ts < ts /\ q.commit.ts \in Nat
  <2>1. ValidateCommit(t, reads, writes, ts)
    BY DEF StartCommit
  <2>2. last_assigned_ts[b] < ts
    BY <2>1, StartCommitOpen
  <2>3. \A q \in pending_writes[b] : q.commit.ts <= last_assigned_ts[b]
    BY <1>0 DEF OrderOK
  <2>4. last_assigned_ts[b] \in Nat /\ ts \in Nat
        /\ \A q \in pending_writes[b] : q.commit.ts \in Nat
    BY <1>0, NatFacts DEF Timestamps
  <2> QED
    BY <2>2, <2>3, <2>4
<1>7. ASSUME NEW u \in Nat, NEW v, u < ts, PendingVersion(b, k, u, v)
      PROVE  PendingVersion(b, k, u, v)'
  <2>1. ~(new.commit.ts <= u)
    BY <1>2, <1>6, <1>7
  <2>2. ASSUME v = snapshot[b][k],
               \A q \in pending_writes[b] :
                 q.commit.ts <= u => k \notin q.commit.writes
        PROVE  PendingVersion(b, k, u, v)'
    BY <1>4, <1>5, <2>1, <2>2 DEF PendingVersion
  <2>3. ASSUME NEW q \in pending_writes[b], q.commit.ts = v,
               q.commit.ts <= u, k \in q.commit.writes,
               \A r \in pending_writes[b] :
                 q.commit.ts < r.commit.ts /\ r.commit.ts <= u =>
                   k \notin r.commit.writes
        PROVE  PendingVersion(b, k, u, v)'
    <3>1. \A r \in pending_writes'[b] :
            q.commit.ts < r.commit.ts /\ r.commit.ts <= u =>
              k \notin r.commit.writes
      BY <1>4, <2>1, <2>3
    <3> QED
      BY <1>4, <2>3, <3>1 DEF PendingVersion
  <2> QED
    BY <1>7, <2>2, <2>3 DEF PendingVersion
<1>8. CASE p \in pending_writes[b]
  <2>1. PendingVersion(b, k, p.commit.ts, p.snapshot[k])
    BY <1>8 DEF PendingSnapshotInv
  <2> QED
    BY <1>6, <1>7, <1>8, <2>1
<1>9. CASE p = new /\ k \in writes
  <2>1. \A r \in pending_writes'[b] : ~(ts < r.commit.ts)
    BY <1>2, <1>4, <1>6
  <2>2. ts <= ts
    BY <1>6
  <2>3. new \in pending_writes'[b] /\ new.snapshot[k] = ts
    BY <1>3, <1>4, <1>9
  <2> QED
    BY <1>2, <1>9, <2>1, <2>2, <2>3 DEF PendingVersion
<1>10. CASE p = new /\ k \notin writes
  <2>0. p.snapshot[k] = base[k] /\ p.commit.ts = ts /\ k \notin new.commit.writes
    BY <1>2, <1>3, <1>10
  <2>1. CASE pending_writes[b] = {}
    <3>1. base = snapshot[b]
      BY <1>4, <2>1 DEF LatestPendingSnapshot
    <3> QED
      BY <1>4, <1>5, <2>0, <2>1, <3>1 DEF PendingVersion
  <2>2. CASE pending_writes[b] # {}
    <3>1. PICK l \in pending_writes[b] :
            /\ base = l.snapshot
            /\ \A r \in pending_writes[b] : r.commit.ts <= l.commit.ts
      BY <1>4, <2>2 DEF LatestPendingSnapshot
    <3>2. PendingVersion(b, k, l.commit.ts, base[k])
      BY <3>1 DEF PendingSnapshotInv
    <3>3. ASSUME base[k] = snapshot[b][k],
                 \A q \in pending_writes[b] :
                   q.commit.ts <= l.commit.ts => k \notin q.commit.writes
          PROVE  PendingVersion(b, k, p.commit.ts, p.snapshot[k])'
      <4>1. \A q \in pending_writes'[b] : k \notin q.commit.writes
        BY <1>4, <2>0, <3>1, <3>3
      <4> QED
        BY <1>5, <2>0, <3>3, <4>1 DEF PendingVersion
    <3>4. ASSUME NEW q \in pending_writes[b], q.commit.ts = base[k],
                 q.commit.ts <= l.commit.ts, k \in q.commit.writes,
                 \A r \in pending_writes[b] :
                   q.commit.ts < r.commit.ts /\ r.commit.ts <= l.commit.ts =>
                     k \notin r.commit.writes
          PROVE  PendingVersion(b, k, p.commit.ts, p.snapshot[k])'
      <4>1. \A r \in pending_writes'[b] :
              q.commit.ts < r.commit.ts => k \notin r.commit.writes
        BY <1>4, <2>0, <3>1, <3>4
      <4>2. q \in pending_writes'[b] /\ q.commit.ts <= ts
        BY <1>4, <1>6, <3>4
      <4> QED
        BY <2>0, <3>4, <4>1, <4>2 DEF PendingVersion
    <3> QED
      BY <3>2, <3>3, <3>4 DEF PendingVersion
  <2> QED
    BY <2>1, <2>2
<1> QED
  BY <1>4, <1>8, <1>9, <1>10

LEMMA PendingSnapshotStep ==
  ASSUME LocalInv, PendingSnapshotInv, [Next]_vars PROVE PendingSnapshotInv'
<1> SUFFICES ASSUME NEW b \in Backends, NEW p \in pending_writes'[b],
                    NEW k \in Keys
             PROVE  PendingVersion(b, k, p.commit.ts, p.snapshot[k])'
  BY DEF PendingSnapshotInv
<1>0. TypeOK /\ StartInv
  BY DEF LocalInv
<1>1. ASSUME NEW f \in pending_writes[b], PublishCommit(b, f)
      PROVE  PendingVersion(b, k, p.commit.ts, p.snapshot[k])'
  <2>1. p \in pending_writes[b] /\ p # f
    BY <1>1, PublishCommitAt
  <2> QED
    BY <1>1, <2>1, PublishPendingVersion
<1>2. ASSUME NEW t \in Txns, NEW reads \in SUBSET Keys,
             NEW writes \in SUBSET Keys, NEW ts \in Timestamps,
             StartCommit(t, reads, writes, ts), txn[t].backend = b
      PROVE  PendingVersion(b, k, p.commit.ts, p.snapshot[k])'
  BY <1>2, StartPendingVersion
<1>3. ASSUME pending_writes'[b] = pending_writes[b], snapshot'[b] = snapshot[b]
      PROVE  PendingVersion(b, k, p.commit.ts, p.snapshot[k])'
  <2>1. PendingVersion(b, k, p.commit.ts, p.snapshot[k])
    BY <1>3 DEF PendingSnapshotInv
  <2> QED
    BY <1>3, <2>1 DEF PendingVersion
<1>4. ASSUME LoadSnapshot(b) PROVE FALSE
  <2>1. pending_writes[b] = {}
    BY <1>0, <1>4, StartupEffect DEF StartInv
  <2>2. pending_writes' = pending_writes
    BY <1>4 DEF LoadSnapshot, queueVars
  <2> QED
    BY <2>1, <2>2
<1>5. \/ pending_writes'[b] = pending_writes[b]
      \/ \E f \in pending_writes[b] : PublishCommit(b, f)
      \/ \E t \in Txns, reads, writes \in SUBSET Keys, ts \in Timestamps :
           StartCommit(t, reads, writes, ts) /\ txn[t].backend = b
  <2>1. ASSUME FinishLoad(b) PROVE pending_writes'[b] = pending_writes[b]
    BY <1>0, <2>1, StartupEffect
  <2>2. ASSUME NEW q \in pending_writes[b], LandCommit(b, q)
        PROVE  pending_writes'[b] = pending_writes[b]
    BY <2>2, LandCommitAt
  <2>3. ASSUME NEW ts \in Timestamps, LandBump(b, ts)
        PROVE  pending_writes'[b] = pending_writes[b]
    BY <2>3, LandBumpAt
  <2>4. ASSUME PublishMaxRepeatableTs(b)
        PROVE  pending_writes'[b] = pending_writes[b]
    BY <2>4, PublishBumpAt
  <2> QED
    BY <2>1, <2>2, <2>3, <2>4, MemoryStep
<1> QED
  BY <1>1, <1>2, <1>3, <1>4, <1>5, SnapshotStep

-----------------------------------------------------------------------------
(* Published snapshots and the views of transactions.                      *)

LEMMA SameVersion ==
  ASSUME documents' = documents, NEW k, NEW ts, NEW v, IsVersionAt(k, ts, v)
  PROVE  IsVersionAt(k, ts, v)'
BY DEF IsVersionAt

\* A version at a timestamp some backend may read at survives every step.
LEMMA ReadableVersion ==
  ASSUME LocalInv, FenceInv, [Next]_vars, NEW k, NEW ts \in Nat, NEW v,
         IsVersionAt(k, ts, v),
         \/ ts <= max_repeatable
         \/ \E b \in Backends : phase[b] = "running" /\ ts <= latest_ts[b]
  PROVE  IsVersionAt(k, ts, v)'
<1>0. TypeOK
  BY DEF LocalInv
<1>1. ASSUME NEW a \in Backends, NEW p \in pending_writes[a], LandCommit(a, p)
      PROVE  IsVersionAt(k, ts, v)'
  <2>1. documents' = documents \cup {p.commit}
    BY <1>1, LandCommitAt
  <2>2. /\ max_repeatable < p.commit.ts
        /\ \A b \in Backends :
             phase[b] = "running" => latest_ts[b] < p.commit.ts
    BY <1>1, LandsAbove
  <2>3. /\ max_repeatable \in Nat /\ \A b \in Backends : latest_ts[b] \in Nat
        /\ p.commit.ts \in Nat
    BY <1>0, StoreFacts, NatFacts
  <2>4. ts < p.commit.ts
    BY <2>2, <2>3
  <2> QED
    BY <2>1, <2>3, <2>4, VersionStable
<1> QED
  BY <1>1, SameVersion, DocumentActions

\* What publish_commit publishes is what persistence holds.
LEMMA PublishedVersion ==
  ASSUME LocalInv, FenceInv, SnapshotInv, PendingSnapshotInv,
         NEW b \in Backends, NEW p \in pending_writes[b], PublishCommit(b, p),
         NEW k \in Keys
  PROVE  IsVersionAt(k, p.commit.ts, p.snapshot[k])
<1>0. TypeOK /\ PublishedInv /\ LandedInv
  BY DEF LocalInv, FenceInv
<1>1. /\ phase[b] = "running" /\ CommitItem(p.commit.ts) \in landed[b]
      /\ \A q \in pending_writes[b] : q # p => p.commit.ts < q.commit.ts
      /\ latest_ts[b] < p.commit.ts
  BY PublishCommitAt
<1>2. /\ latest_ts[b] \in Nat /\ \A d \in documents : d.ts \in Nat
      /\ \A q \in pending_writes[b] : q.commit.ts \in Nat
      /\ p.snapshot[k] \in Nat
  BY <1>0, StoreFacts, NatFacts, ViewFacts
<1>3. p.commit \in documents
  BY <1>0, <1>1 DEF LandedInv
<1>4. \A d \in documents :
        latest_ts[b] < d.ts /\ d.ts <= p.commit.ts => d = p.commit
  BY <1>0, PublishGap
<1>5. PendingVersion(b, k, p.commit.ts, p.snapshot[k])
  BY DEF PendingSnapshotInv
<1>6. ASSUME p.snapshot[k] = snapshot[b][k],
             \A q \in pending_writes[b] :
               q.commit.ts <= p.commit.ts => k \notin q.commit.writes
      PROVE  IsVersionAt(k, p.commit.ts, p.snapshot[k])
  <2>1. IsVersionAt(k, latest_ts[b], p.snapshot[k])
    BY <1>1, <1>6 DEF SnapshotInv
  <2>2. k \notin p.commit.writes
    BY <1>2, <1>6
  <2>3. \A d \in documents :
          latest_ts[b] < d.ts /\ d.ts <= p.commit.ts => k \notin d.writes
    BY <1>4, <2>2
  <2>4. latest_ts[b] <= p.commit.ts /\ p.commit.ts \in Nat
    BY <1>1, <1>2
  <2> QED
    BY <1>2, <2>1, <2>3, <2>4, VersionExtends
<1>7. ASSUME NEW q \in pending_writes[b], q.commit.ts = p.snapshot[k],
             q.commit.ts <= p.commit.ts, k \in q.commit.writes
      PROVE  IsVersionAt(k, p.commit.ts, p.snapshot[k])
  <2>1. q = p
    BY <1>1, <1>2, <1>7
  <2>2. p.snapshot[k] = p.commit.ts /\ k \in p.commit.writes
    BY <1>7, <2>1
  <2>3. p.commit.ts <= p.commit.ts
        /\ \A d \in documents : ~(p.commit.ts < d.ts /\ d.ts <= p.commit.ts)
    BY <1>2
  <2> QED
    BY <1>3, <2>2, <2>3 DEF IsVersionAt
<1> QED
  BY <1>5, <1>6, <1>7 DEF PendingVersion

\* The three places a snapshot is kept.
ServedOK(b, k) ==
  phase[b] = "running" => IsVersionAt(k, latest_ts[b], snapshot[b][k])

LoadedOK(b, k) ==
  phase[b] = "snapshot_read" => IsVersionAt(k, load_ts[b], snapshot[b][k])

LEMMA ServedStep ==
  ASSUME LocalInv, FenceInv, SnapshotInv, PendingSnapshotInv, [Next]_vars,
         NEW b \in Backends, NEW k \in Keys
  PROVE  ServedOK(b, k)'
<1> SUFFICES ASSUME phase'[b] = "running"
             PROVE  IsVersionAt(k, latest_ts[b], snapshot[b][k])'
  BY DEF ServedOK
<1>0. TypeOK /\ PublishedInv
  BY DEF LocalInv, FenceInv
<1>1. CASE FinishLoad(b)
  <2>1. /\ phase[b] = "snapshot_read" /\ latest_ts'[b] = load_ts[b]
        /\ UNCHANGED <<documents, snapshot>>
    BY <1>0, <1>1, StartupEffect
  <2>2. IsVersionAt(k, load_ts[b], snapshot[b][k])
    BY <2>1 DEF SnapshotInv
  <2> QED
    BY <2>1, <2>2 DEF IsVersionAt
<1>2. ASSUME NEW p \in pending_writes[b], PublishCommit(b, p)
      PROVE  IsVersionAt(k, latest_ts[b], snapshot[b][k])'
  <2>1. /\ latest_ts'[b] = p.commit.ts /\ snapshot'[b] = p.snapshot
        /\ documents' = documents
    BY <1>2, PublishCommitAt
  <2>2. IsVersionAt(k, p.commit.ts, p.snapshot[k])
    BY <1>2, PublishedVersion
  <2> QED
    BY <2>1, <2>2 DEF IsVersionAt
<1>3. CASE PublishMaxRepeatableTs(b)
  <2>1. PICK x \in landed[b] :
          /\ x.ts \in Timestamps /\ phase[b] = "running"
          /\ \A p \in pending_writes[b] : x.ts < p.commit.ts
          /\ \/ latest_ts[b] < x.ts /\ latest_ts'[b] = x.ts
             \/ latest_ts'[b] = latest_ts[b]
          /\ UNCHANGED <<documents, snapshot>>
    BY <1>3, PublishBumpAt
  <2>2. IsVersionAt(k, latest_ts[b], snapshot[b][k])
    BY <2>1 DEF SnapshotInv
  <2>3. CASE latest_ts'[b] = latest_ts[b]
    BY <2>1, <2>2, <2>3 DEF IsVersionAt
  <2>4. CASE latest_ts[b] < x.ts /\ latest_ts'[b] = x.ts
    <3>1. /\ x.ts \in Nat /\ latest_ts[b] \in Nat
          /\ \A d \in documents : d.ts \in Nat
          /\ snapshot[b][k] \in Nat
      BY <1>0, <2>1, NatFacts, StoreFacts, ViewFacts DEF Timestamps
    <3>2. \A d \in documents : ~(latest_ts[b] < d.ts /\ d.ts <= x.ts)
      BY <1>0, <2>1, <3>1, BumpGap
    <3>3. latest_ts[b] <= x.ts
      BY <2>4, <3>1
    <3>4. IsVersionAt(k, x.ts, snapshot[b][k])
      BY <2>2, <3>1, <3>2, <3>3, VersionExtends
    <3> QED
      BY <2>1, <2>4, <3>4 DEF IsVersionAt
  <2> QED
    BY <2>1, <2>3, <2>4
<1>4. ASSUME ~FinishLoad(b), latest_ts'[b] = latest_ts[b],
             snapshot'[b] = snapshot[b]
      PROVE  IsVersionAt(k, latest_ts[b], snapshot[b][k])'
  <2>1. phase[b] = "running"
    BY <1>0, <1>4, PhaseStep, StartupEffect
  <2>2. IsVersionAt(k, latest_ts[b], snapshot[b][k])
    BY <2>1 DEF SnapshotInv
  <2>3. latest_ts[b] \in Nat
    BY <1>0, NatFacts
  <2>4. latest_ts[b] <= latest_ts[b]
    BY <2>3
  <2> DEFINE ts == latest_ts[b]
             v == snapshot[b][k]
  <2>5. ASSUME NEW u, NEW w, u = ts, w = v PROVE IsVersionAt(k, u, w)'
    <3>1. IsVersionAt(k, u, w) /\ u \in Nat /\ u <= latest_ts[b]
      BY <2>2, <2>3, <2>4, <2>5
    <3> QED
      BY <2>1, <3>1, ReadableVersion
  <2>6. ts = latest_ts'[b] /\ v = snapshot'[b][k]
    BY <1>4
  <2> HIDE DEF ts, v
  <2> QED
    BY <2>5, <2>6 DEF IsVersionAt
<1>5. ~LoadSnapshot(b)
  BY <1>0, StartupEffect
<1>6. \/ latest_ts'[b] = latest_ts[b]
      \/ FinishLoad(b)
      \/ \E p \in pending_writes[b] : PublishCommit(b, p)
      \/ PublishMaxRepeatableTs(b)
  BY MemoryStep, LandCommitAt, LandBumpAt, StartCommitAt
<1> QED
  BY <1>1, <1>2, <1>3, <1>4, <1>5, <1>6, SnapshotStep

LEMMA LoadedStep ==
  ASSUME LocalInv, FenceInv, SnapshotInv, [Next]_vars,
         NEW b \in Backends, NEW k \in Keys
  PROVE  LoadedOK(b, k)'
<1> SUFFICES ASSUME phase'[b] = "snapshot_read"
             PROVE  IsVersionAt(k, load_ts[b], snapshot[b][k])'
  BY DEF LoadedOK
<1>0. TypeOK /\ LandedInv
  BY DEF LocalInv, FenceInv
<1>1. CASE LoadSnapshot(b)
  <2>1. PICK s \in Snapshots :
          /\ \A j \in Keys : IsVersionAt(j, load_ts[b], s[j])
          /\ snapshot' = [snapshot EXCEPT ![b] = s]
    BY <1>1 DEF LoadSnapshot
  <2>2. snapshot'[b] = s
    BY <1>0, <2>1 DEF TypeOK
  <2>3. load_ts'[b] = load_ts[b] /\ documents' = documents
    BY <1>0, <1>1, StartupEffect
  <2>4. IsVersionAt(k, load_ts[b], s[k])
    BY <2>1
  <2> QED
    BY <2>2, <2>3, <2>4 DEF IsVersionAt
<1>2. CASE ~LoadSnapshot(b)
  <2>1. phase[b] = "snapshot_read" /\ load_ts'[b] = load_ts[b]
    BY <1>0, <1>2, PhaseStep, StartupEffect
  <2>2. snapshot'[b] = snapshot[b]
    <3>1. \A p \in pending_writes[b] : ~PublishCommit(b, p)
      BY <2>1, PublishCommitAt
    <3> QED
      BY <1>2, <3>1, SnapshotStep
  <2>3. IsVersionAt(k, load_ts[b], snapshot[b][k])
    BY <2>1 DEF SnapshotInv
  <2>4. load_ts[b] \in Nat /\ load_ts[b] <= max_repeatable
    BY <1>0, <2>1, NatFacts DEF LandedInv
  <2> DEFINE ts == load_ts[b]
             v == snapshot[b][k]
  <2>5. ASSUME NEW u, NEW w, u = ts, w = v PROVE IsVersionAt(k, u, w)'
    <3>1. IsVersionAt(k, u, w) /\ u \in Nat /\ u <= max_repeatable
      BY <2>3, <2>4, <2>5
    <3> QED
      BY <3>1, ReadableVersion
  <2>6. ts = load_ts'[b] /\ v = snapshot'[b][k]
    BY <2>1, <2>2
  <2> HIDE DEF ts, v
  <2> QED
    BY <2>5, <2>6 DEF IsVersionAt
<1> QED
  BY <1>1, <1>2

\* A pending commit keeps the view its transaction had.
LEMMA PendingViewStep ==
  ASSUME LocalInv, FenceInv, SnapshotInv, ViewInv, [Next]_vars,
         NEW b \in Backends, NEW p \in pending_writes'[b], NEW k \in Keys
  PROVE  IsVersionAt(k, p.commit.begin, p.commit.view[k])'
<1>0. TypeOK /\ StartInv /\ OrderOK(b)
  BY DEF LocalInv, OrderInv
<1>1. ASSUME p \in pending_writes[b]
      PROVE  IsVersionAt(k, p.commit.begin, p.commit.view[k])'
  <2>1. IsVersionAt(k, p.commit.begin, p.commit.view[k])
    BY <1>1 DEF SnapshotInv
  <2>2. p.commit.begin \in Nat /\ p.commit.begin <= latest_ts[b]
    BY <1>0, <1>1, NatFacts DEF OrderOK
  <2>3. phase[b] = "running"
    BY <1>0, <1>1 DEF StartInv
  <2> QED
    BY <2>1, <2>2, <2>3, ReadableVersion
<1>2. ASSUME NEW t \in Txns, NEW reads \in SUBSET Keys,
             NEW writes \in SUBSET Keys, NEW ts \in Timestamps,
             StartCommit(t, reads, writes, ts), txn[t].backend = b,
             p \notin pending_writes[b]
      PROVE  IsVersionAt(k, p.commit.begin, p.commit.view[k])'
  <2>0. StartCommit(t, reads, writes, ts)
    BY <1>2
  <2>1. PICK base \in LatestPendingSnapshot(txn[t].backend) :
          pending_writes'[txn[t].backend] =
            pending_writes[txn[t].backend]
              \cup {PendingWrite(t, reads, writes, ts, base)}
    <3>1. AddsPending(t, reads, writes, ts)
      BY <2>0, StartCommitAdds
    <3> QED
      BY <3>1 DEF AddsPending
  <2>2. p = PendingWrite(t, reads, writes, ts, base)
    BY <1>2, <2>1
  <2>3. p.commit.begin = txn[t].begin /\ p.commit.view = txn[t].view
    BY <2>2, PendingWriteFields
  <2>4. txn[t].phase = "running"
    BY <1>2 DEF StartCommit, ValidateCommit
  <2>5. IsVersionAt(k, txn[t].begin, txn[t].view[k])
    BY <2>4 DEF ViewInv
  <2>6. IsVersionAt(k, p.commit.begin, p.commit.view[k])
    BY <2>3, <2>5
  <2>7. documents' = documents
    BY <1>2, StartCommitAt
  <2> QED
    BY <2>6, <2>7, SameVersion
<1>3. \/ p \in pending_writes[b]
      \/ \E t \in Txns, reads, writes \in SUBSET Keys, ts \in Timestamps :
           StartCommit(t, reads, writes, ts) /\ txn[t].backend = b
  <2>1. ASSUME FinishLoad(b) PROVE p \in pending_writes[b]
    BY <1>0, <2>1, StartupEffect
  <2>2. ASSUME NEW q \in pending_writes[b], LandCommit(b, q)
        PROVE  p \in pending_writes[b]
    BY <2>2, LandCommitAt
  <2>3. ASSUME NEW ts \in Timestamps, LandBump(b, ts)
        PROVE  p \in pending_writes[b]
    BY <2>3, LandBumpAt
  <2>4. ASSUME PublishMaxRepeatableTs(b) PROVE p \in pending_writes[b]
    BY <2>4, PublishBumpAt
  <2>5. ASSUME NEW q \in pending_writes[b], PublishCommit(b, q)
        PROVE  p \in pending_writes[b]
    BY <2>5, PublishCommitAt
  <2> QED
    BY <2>1, <2>2, <2>3, <2>4, <2>5, MemoryStep
<1> QED
  BY <1>1, <1>2, <1>3

LEMMA SnapshotInvStep ==
  ASSUME LocalInv, FenceInv, SnapshotInv, PendingSnapshotInv, ViewInv,
         [Next]_vars
  PROVE  SnapshotInv'
<1>1. \A b \in Backends, k \in Keys : ServedOK(b, k)' /\ LoadedOK(b, k)'
  BY ServedStep, LoadedStep
<1>2. \A b \in Backends : \A p \in pending_writes'[b], k \in Keys :
        IsVersionAt(k, p.commit.begin, p.commit.view[k])'
  BY PendingViewStep
<1> QED
  BY <1>1, <1>2 DEF SnapshotInv, ServedOK, LoadedOK

\* An open transaction was open before, or begins.
LEMMA OpenTxnStep ==
  ASSUME TypeOK, [Next]_vars, NEW t \in Txns,
         txn'[t].phase \in {"running", "readonly"}
  PROVE  \/ /\ txn[t].phase \in {"running", "readonly"}
            /\ txn'[t].begin = txn[t].begin /\ txn'[t].view = txn[t].view
         \/ \E b \in Backends : Begin(t, b)
<1> DEFINE Same == /\ txn[t].phase \in {"running", "readonly"}
                   /\ txn'[t].begin = txn[t].begin /\ txn'[t].view = txn[t].view
<1>0. txn \in [Txns -> ClientTxns] /\ txn[t] \in ClientTxns
  BY DEF TypeOK
<1>a. \A u, ph : u # t /\ txn' = [txn EXCEPT ![u].phase = ph] => Same
  BY <1>0
<1>b. \A ph : txn' = [txn EXCEPT ![t].phase = ph] =>
        /\ txn'[t].phase = ph
        /\ txn'[t].begin = txn[t].begin /\ txn'[t].view = txn[t].view
  BY <1>0 DEF ClientTxns
<1>1. ASSUME NEW b \in Backends, Shutdown(b) PROVE Same
  <2>1. txn'[t] = IF txn[t].backend = b /\ txn[t].phase = "running"
                  THEN [txn[t] EXCEPT !.phase = "failed"]
                  ELSE IF txn[t].backend = b /\ txn[t].phase = "committing"
                  THEN [txn[t] EXCEPT !.phase = "unknown"]
                  ELSE txn[t]
    BY <1>1 DEF Shutdown
  <2>2. /\ [txn[t] EXCEPT !.phase = "failed"].phase = "failed"
        /\ [txn[t] EXCEPT !.phase = "unknown"].phase = "unknown"
    BY <1>0 DEF ClientTxns
  <2>3. txn'[t] = txn[t]
    BY <2>1, <2>2
  <2> QED
    BY <2>3
<1>2. ASSUME NEW b \in Backends, NEW p \in pending_writes[b],
             PublishCommit(b, p)
      PROVE  Same
  <2>1. txn' = [txn EXCEPT ![p.commit.txn].phase = "ok",
                           ![p.commit.txn].ts = p.commit.ts]
    BY <1>2 DEF PublishCommit
  <2>2. CASE p.commit.txn = t
    <3>1. txn'[t].phase = "ok"
      BY <1>0, <2>1, <2>2 DEF ClientTxns
    <3> QED
      BY <3>1
  <2>3. CASE p.commit.txn # t
    BY <1>0, <2>1, <2>3
  <2> QED
    BY <2>2, <2>3
<1>3. ASSUME NEW u \in Txns, NEW b \in Backends, Begin(u, b), u # t PROVE Same
  <2>1. \E r : txn' = [txn EXCEPT ![u] = r]
    BY <1>3 DEF Begin
  <2> QED
    BY <1>0, <1>3, <2>1
<1>4. ASSUME NEW u \in Txns, ReadOnlyCommit(u) PROVE Same
  <2>1. txn' = [txn EXCEPT ![u].phase = "readonly"] /\ txn[u].phase = "running"
    BY <1>4 DEF ReadOnlyCommit
  <2> QED
    BY <1>a, <1>b, <2>1
<1>5. ASSUME NEW u \in Txns, NEW reads, NEW writes, NEW ts,
             RejectCommit(u, reads, writes, ts)
      PROVE  Same
  <2>1. txn' = [txn EXCEPT ![u].phase = "failed"]
    BY <1>5 DEF RejectCommit
  <2> QED
    BY <1>a, <1>b, <2>1
<1>6. ASSUME NEW u \in Txns, NEW reads, NEW writes, NEW ts,
             StartCommit(u, reads, writes, ts)
      PROVE  Same
  <2>1. txn' = [txn EXCEPT ![u].phase = "committing"]
    BY <1>6 DEF StartCommit
  <2> QED
    BY <1>a, <1>b, <2>1
<1>7. ASSUME txn' = txn PROVE Same
  BY <1>7
<1> HIDE DEF Same
<1>8. Same \/ \E b \in Backends : Begin(t, b)
  BY <1>1, <1>2, <1>3, <1>4, <1>5, <1>6, <1>7, ClientActions
<1> QED
  BY <1>8 DEF Same

LEMMA ViewStep ==
  ASSUME LocalInv, FenceInv, SnapshotInv, ViewInv, [Next]_vars
  PROVE  ViewInv'
<1> SUFFICES ASSUME NEW t \in Txns, txn'[t].phase \in {"running", "readonly"},
                    NEW k \in Keys
             PROVE  IsVersionAt(k, txn[t].begin, txn[t].view[k])'
  BY DEF ViewInv
<1>0. TypeOK /\ OpenInv
  BY DEF LocalInv
<1>1. ASSUME NEW b \in Backends, Begin(t, b)
      PROVE  IsVersionAt(k, txn[t].begin, txn[t].view[k])'
  <2>1. phase[b] = "running" /\ documents' = documents
    BY <1>1 DEF Begin, Running, persistenceVars
  <2>2. PICK acked \in Timestamps :
          txn' = [txn EXCEPT ![t] = [phase |-> "running", backend |-> b,
                                     begin |-> latest_ts[b],
                                     view |-> snapshot[b],
                                     acked |-> acked, ts |-> 0]]
    BY <1>1 DEF Begin
  <2>3. txn'[t].begin = latest_ts[b] /\ txn'[t].view = snapshot[b]
    BY <1>0, <2>2 DEF TypeOK
  <2>4. IsVersionAt(k, latest_ts[b], snapshot[b][k])
    BY <2>1 DEF SnapshotInv
  <2> QED
    BY <2>1, <2>3, <2>4 DEF IsVersionAt
<1>2. ASSUME txn[t].phase \in {"running", "readonly"},
             txn'[t].begin = txn[t].begin, txn'[t].view = txn[t].view
      PROVE  IsVersionAt(k, txn[t].begin, txn[t].view[k])'
  <2>1. IsVersionAt(k, txn[t].begin, txn[t].view[k])
    BY <1>2 DEF ViewInv
  <2>2. /\ txn[t].backend \in Backends /\ phase[txn[t].backend] = "running"
        /\ txn[t].begin <= latest_ts[txn[t].backend]
    BY <1>0, <1>2 DEF OpenInv
  <2>3. txn[t].begin \in Nat
    BY <1>0, ViewFacts
  <2> DEFINE ts == txn[t].begin
             v == txn[t].view[k]
  <2>4. ASSUME NEW u, NEW w, u = ts, w = v PROVE IsVersionAt(k, u, w)'
    <3>1. /\ IsVersionAt(k, u, w) /\ u \in Nat
          /\ u <= latest_ts[txn[t].backend]
      BY <2>1, <2>2, <2>3, <2>4
    <3> QED
      BY <2>2, <3>1, ReadableVersion
  <2>5. ts = txn'[t].begin /\ v = txn'[t].view[k]
    BY <1>2
  <2> HIDE DEF ts, v
  <2> QED
    BY <2>4, <2>5 DEF IsVersionAt
<1> QED
  BY <1>0, <1>1, <1>2, OpenTxnStep

-----------------------------------------------------------------------------

LEMMA SerialInit == Init => SerialInv
<1> SUFFICES ASSUME Init PROVE SerialInv
  OBVIOUS
<1>1. /\ documents = {}
      /\ \A b \in Backends : /\ phase[b] = "off" /\ log[b] = {}
                             /\ pending_writes[b] = {}
      /\ \A t \in Txns : txn[t].phase = "idle"
  BY DEF Init
<1>2. LogInv /\ HolderConflictInv /\ SnapshotInv
  BY <1>1 DEF LogInv, HolderConflictInv, SnapshotInv
<1>3. PendingSnapshotInv /\ ViewInv /\ Serializable
  BY <1>1 DEF PendingSnapshotInv, ViewInv, Serializable
<1> QED
  BY <1>2, <1>3 DEF SerialInv

LEMMA SerialStep ==
  LocalInv /\ FenceInv /\ SerialInv /\ [Next]_vars => SerialInv'
<1> SUFFICES ASSUME LocalInv, FenceInv, SerialInv, [Next]_vars
             PROVE  SerialInv'
  OBVIOUS
<1>0. /\ LogInv /\ HolderConflictInv /\ SnapshotInv /\ PendingSnapshotInv
      /\ ViewInv /\ Serializable
  BY DEF SerialInv
<1> QED
  BY <1>0, LogInvStep, HolderConflictStep, SnapshotInvStep,
     PendingSnapshotStep, ViewStep, SerializableStep DEF SerialInv

LEMMA SerialAlways == Spec => []SerialInv
<1>1. Init => SerialInv
  BY SerialInit
<1>2. LocalInv /\ FenceInv /\ SerialInv /\ [Next]_vars => SerialInv'
  BY SerialStep
<1> QED
  BY <1>1, <1>2, LocallyOrdered, Fenced, PTL DEF Spec

\* Serializability, for every instance: each durable transaction read what
\* was current just before its own commit timestamp, whatever persistence
\* writes landed, in whatever order and under whatever leaders
\* (commit_has_conflict, compute_writes, Lease::transact).
THEOREM CommitsAreSerializable == Spec => []Serializable
<1>1. SerialInv => Serializable
  BY DEF SerialInv
<1> QED
  BY <1>1, SerialAlways, PTL

\* For every instance, the snapshots backends serve and open transactions
\* read are what persistence holds (publish_commit, begin).
THEOREM SnapshotsAreFaithful == Spec => []SnapshotsFaithful
<1>1. SerialInv => SnapshotsFaithful
  BY DEF SerialInv, SnapshotInv, ViewInv, SnapshotsFaithful
<1> QED
  BY <1>1, SerialAlways, PTL

-----------------------------------------------------------------------------
(* The abstract store.                                                     *)

\* No two commits land at one timestamp.
LEMMA LandsAtNewTs ==
  ASSUME LocalInv, FenceInv, NEW a \in Backends, NEW p \in pending_writes[a],
         LandCommit(a, p), NEW e \in documents
  PROVE  e.ts # p.commit.ts
<1>0. TypeOK /\ PublishedInv /\ QueueOK(a)
  BY DEF LocalInv, FenceInv, QueueInv
<1>1. /\ Holds(a) /\ phase[a] = "running" /\ latest_ts[a] < p.commit.ts
      /\ CommitItem(p.commit.ts) \notin landed[a]
  BY LandCommitEffect
<1>2. e.ts \in Nat /\ latest_ts[a] \in Nat /\ p.commit.ts \in Nat
  BY <1>0, StoreFacts, NatFacts
<1>3. CASE e.ts <= latest_ts[a]
  BY <1>1, <1>2, <1>3
<1>4. CASE CommitItem(e.ts) \in landed[a]
  BY <1>1, <1>4
<1> QED
  BY <1>0, <1>1, <1>3, <1>4 DEF PublishedInv

\* Every step of the commit path is a step of the store, or none.
LEMMA StoreStep ==
  ASSUME LocalInv, FenceInv, SerialInv, [Next]_vars
  PROVE  [Store!Next]_<<documents, max_repeatable>>
<1>0. TypeOK
  BY DEF LocalInv
<1>1. ASSUME NEW a \in Backends, NEW p \in pending_writes[a], LandCommit(a, p)
      PROVE  Store!Commit
  <2>1. documents' = documents \cup {p.commit} /\ UNCHANGED max_repeatable
    BY <1>1, LandCommitAt
  <2>2. max_repeatable < p.commit.ts
    BY <1>1, LandsAbove
  <2>3. \A e \in documents : e.ts # p.commit.ts
    BY <1>1, LandsAtNewTs
  <2>4. Serializable'
    BY SerialStep DEF SerialInv
  <2>5. Store!SerialIn(documents')
    BY <2>4 DEF Serializable, IsVersionAt, Store!SerialIn, Store!VersionIn
  <2> QED
    BY <2>1, <2>2, <2>3, <2>5 DEF Store!Commit
<1>2. CASE documents' = documents
  <2>1. TypeOK'
    BY <1>0, StepType
  <2>2. max_repeatable \in Nat /\ max_repeatable' \in Nat
    BY <1>0, <2>1 DEF TypeOK, Timestamps
  <2>3. max_repeatable <= max_repeatable'
    BY MaxRepeatableStep DEF FenceInv
  <2>4. max_repeatable < max_repeatable' \/ UNCHANGED max_repeatable
    BY <2>2, <2>3
  <2> QED
    BY <1>2, <2>2, <2>4 DEF Store!Next, Store!Advance
<1> QED
  BY <1>1, <1>2, DocumentActions DEF Store!Next

\* Every behaviour of backends, leases, crashes and late writes is, seen
\* from persistence, one of RepeatableStore: serial commits above a rising
\* repeatable timestamp.
THEOREM CommitterImplementsStore == Spec => ImplementsStore
<1>1. Init => Store!Init
  BY DEF Init, Store!Init
<1>2. LocalInv /\ FenceInv /\ SerialInv /\ [Next]_vars =>
        [Store!Next]_<<documents, max_repeatable>>
  BY StoreStep
<1> QED
  BY <1>1, <1>2, LocallyOrdered, Fenced, SerialAlways, PTL
     DEF Spec, ImplementsStore, Store!Spec

-----------------------------------------------------------------------------
(* Clients: what a step does to one.                                       *)

LEMMA BeginAt ==
  ASSUME TypeOK, NEW t \in Txns, NEW b \in Backends, Begin(t, b)
  PROVE  /\ txn[t].phase = "idle" /\ Running(b)
         /\ txn'[t].phase = "running" /\ txn'[t].backend = b
         /\ txn'[t].begin = latest_ts[b]
         /\ Acked(txn'[t].acked) /\ txn'[t].acked \in Timestamps
         /\ UNCHANGED <<persistenceVars, startupVars, alive, snapshotVars,
                        logVars, queueVars>>
<1>1. PICK acked \in Timestamps :
        /\ Acked(acked)
        /\ txn' = [txn EXCEPT ![t] = [phase |-> "running", backend |-> b,
                                      begin |-> latest_ts[b],
                                      view |-> snapshot[b],
                                      acked |-> acked, ts |-> 0]]
  BY DEF Begin
<1>2. txn'[t] = [phase |-> "running", backend |-> b, begin |-> latest_ts[b],
                 view |-> snapshot[b], acked |-> acked, ts |-> 0]
  BY <1>1 DEF TypeOK
<1>3. /\ txn'[t].phase = "running" /\ txn'[t].backend = b
      /\ txn'[t].begin = latest_ts[b] /\ txn'[t].acked = acked
  BY <1>2
<1>4. /\ txn[t].phase = "idle" /\ Running(b)
      /\ UNCHANGED <<persistenceVars, startupVars, alive, snapshotVars,
                     logVars, queueVars>>
  BY DEF Begin
<1> QED
  BY <1>1, <1>3, <1>4

\* A running transaction is answered or handed to the committer.
Answered(t) ==
  /\ txn[t].phase = "running"
  /\ txn'[t].phase \in {"readonly", "failed"}

\* Its process goes away.
Orphaned(t) ==
  /\ Shutdown(txn[t].backend) /\ txn[t].phase = "committing"
  /\ txn'[t].phase = "unknown" /\ txn'[t].backend = txn[t].backend

LEMMA TxnStep ==
  ASSUME TypeOK, [Next]_vars, NEW t \in Txns
  PROVE  \/ txn'[t] = txn[t]
         \/ Answered(t)
         \/ Orphaned(t)
         \/ \E b \in Backends : Begin(t, b)
         \/ \E b \in Backends : \E p \in pending_writes[b] :
              /\ PublishCommit(b, p) /\ p.commit.txn = t
              /\ txn'[t].phase = "ok" /\ txn'[t].ts = p.commit.ts
         \/ \E reads, writes \in SUBSET Keys, ts \in Timestamps :
              /\ StartCommit(t, reads, writes, ts)
              /\ txn[t].phase = "running" /\ txn'[t].phase = "committing"
              /\ txn'[t].backend = txn[t].backend
<1> DEFINE Published == \E b \in Backends : \E p \in pending_writes[b] :
              /\ PublishCommit(b, p) /\ p.commit.txn = t
              /\ txn'[t].phase = "ok" /\ txn'[t].ts = p.commit.ts
           Started == \E reads, writes \in SUBSET Keys, ts \in Timestamps :
              /\ StartCommit(t, reads, writes, ts)
              /\ txn[t].phase = "running" /\ txn'[t].phase = "committing"
              /\ txn'[t].backend = txn[t].backend
           Same == txn'[t] = txn[t]
<1>0. txn \in [Txns -> ClientTxns] /\ txn[t] \in ClientTxns
  BY DEF TypeOK
<1>a. \A u, ph : u # t /\ txn' = [txn EXCEPT ![u].phase = ph] => Same
  BY <1>0
<1>b. \A ph : txn' = [txn EXCEPT ![t].phase = ph] =>
        txn'[t].phase = ph /\ txn'[t].backend = txn[t].backend
  BY <1>0 DEF ClientTxns
<1>1. ASSUME NEW b \in Backends, Shutdown(b)
      PROVE  Same \/ Answered(t) \/ Orphaned(t)
  <2>1. txn'[t] = IF txn[t].backend = b /\ txn[t].phase = "running"
                  THEN [txn[t] EXCEPT !.phase = "failed"]
                  ELSE IF txn[t].backend = b /\ txn[t].phase = "committing"
                  THEN [txn[t] EXCEPT !.phase = "unknown"]
                  ELSE txn[t]
    BY <1>1 DEF Shutdown
  <2>2. /\ [txn[t] EXCEPT !.phase = "failed"].phase = "failed"
        /\ [txn[t] EXCEPT !.phase = "unknown"].phase = "unknown"
        /\ [txn[t] EXCEPT !.phase = "unknown"].backend = txn[t].backend
    BY <1>0 DEF ClientTxns
  <2>3. CASE txn[t].backend = b /\ txn[t].phase = "running"
    BY <2>1, <2>2, <2>3 DEF Answered
  <2>4. CASE txn[t].backend = b /\ txn[t].phase = "committing"
    <3>1. txn'[t].phase = "unknown" /\ txn'[t].backend = txn[t].backend
      BY <2>1, <2>2, <2>4
    <3> QED
      BY <1>1, <2>4, <3>1 DEF Orphaned
  <2> QED
    BY <2>1, <2>3, <2>4
<1>2. ASSUME NEW b \in Backends, NEW p \in pending_writes[b],
             PublishCommit(b, p)
      PROVE  Same \/ Published
  <2>1. txn' = [txn EXCEPT ![p.commit.txn].phase = "ok",
                           ![p.commit.txn].ts = p.commit.ts]
    BY <1>2 DEF PublishCommit
  <2>2. CASE p.commit.txn = t
    <3>1. txn'[t].phase = "ok" /\ txn'[t].ts = p.commit.ts
      BY <1>0, <2>1, <2>2 DEF ClientTxns
    <3> QED
      BY <1>2, <2>2, <3>1
  <2>3. CASE p.commit.txn # t
    BY <1>0, <2>1, <2>3
  <2> QED
    BY <2>2, <2>3
<1>3. ASSUME NEW u \in Txns, NEW b \in Backends, Begin(u, b), u # t PROVE Same
  <2>1. \E r : txn' = [txn EXCEPT ![u] = r]
    BY <1>3 DEF Begin
  <2> QED
    BY <1>0, <1>3, <2>1
<1>4. ASSUME NEW u \in Txns, ReadOnlyCommit(u) PROVE Same \/ Answered(t)
  <2>1. txn' = [txn EXCEPT ![u].phase = "readonly"] /\ txn[u].phase = "running"
    BY <1>4 DEF ReadOnlyCommit
  <2> QED
    BY <1>a, <1>b, <2>1 DEF Answered
<1>5. ASSUME NEW u \in Txns, NEW reads, NEW writes, NEW ts,
             RejectCommit(u, reads, writes, ts)
      PROVE  Same \/ Answered(t)
  <2>1. txn' = [txn EXCEPT ![u].phase = "failed"] /\ txn[u].phase = "running"
    BY <1>5 DEF RejectCommit, ValidateCommit
  <2> QED
    BY <1>a, <1>b, <2>1 DEF Answered
<1>6. ASSUME NEW u \in Txns, NEW reads \in SUBSET Keys,
             NEW writes \in SUBSET Keys, NEW ts \in Timestamps,
             StartCommit(u, reads, writes, ts)
      PROVE  Same \/ Started
  <2>1. txn' = [txn EXCEPT ![u].phase = "committing"]
    BY <1>6 DEF StartCommit
  <2>2. txn[u].phase = "running"
    BY <1>6 DEF StartCommit, ValidateCommit
  <2>3. CASE u = t
    <3>1. txn'[t].phase = "committing" /\ txn'[t].backend = txn[t].backend
      BY <1>b, <2>1, <2>3
    <3> QED
      BY <1>6, <2>2, <2>3, <3>1
  <2>4. CASE u # t
    BY <1>a, <2>1, <2>4
  <2> QED
    BY <2>3, <2>4
<1>7. ASSUME txn' = txn PROVE Same
  BY <1>7
<1> HIDE DEF Same, Published, Started
<1>8. \/ Same \/ Answered(t) \/ Orphaned(t) \/ Published \/ Started
      \/ \E b \in Backends : Begin(t, b)
  BY <1>1, <1>2, <1>3, <1>4, <1>5, <1>6, <1>7, ClientActions
<1> QED
  BY <1>8 DEF Same, Published, Started

\* A process does not come back to life.
LEMMA AliveStep ==
  ASSUME TypeOK, [Next]_vars, NEW b \in Backends, alive'[b]
  PROVE  alive[b] /\ ~Shutdown(b)
<1>1. ASSUME NEW c \in Backends, Shutdown(c) PROVE alive[b] /\ b # c
  BY <1>1 DEF Shutdown, TypeOK
<1>2. alive' = alive \/ \E c \in Backends : Shutdown(c)
  BY ClientActions DEF PublishCommit, Begin, ReadOnlyCommit, RejectCommit,
     StartCommit
<1> QED
  BY <1>1, <1>2

-----------------------------------------------------------------------------
(* Clients and commits.                                                    *)

\* What TxnInv says of one pending write.
OwnerOK(b, p) ==
  /\ txn[p.commit.txn].backend = b
  /\ txn[p.commit.txn].phase \in {"committing", "unknown"}
  /\ alive[b] => txn[p.commit.txn].phase = "committing"

\* A pending write was pending, or starts.
LEMMA PendingStep ==
  ASSUME LocalInv, [Next]_vars, NEW b \in Backends, NEW p \in pending_writes'[b]
  PROVE  \/ p \in pending_writes[b]
         \/ \E t \in Txns, reads, writes \in SUBSET Keys, ts \in Timestamps :
              \E base \in LatestPendingSnapshot(txn[t].backend) :
                /\ StartCommit(t, reads, writes, ts) /\ txn[t].backend = b
                /\ p = PendingWrite(t, reads, writes, ts, base)
                /\ pending_writes'[b] = pending_writes[b] \cup {p}
<1>0. TypeOK
  BY DEF LocalInv
<1>1. ASSUME FinishLoad(b) PROVE p \in pending_writes[b]
  BY <1>0, <1>1, StartupEffect
<1>2. ASSUME NEW q \in pending_writes[b], LandCommit(b, q)
      PROVE  p \in pending_writes[b]
  BY <1>2, LandCommitAt
<1>3. ASSUME NEW ts \in Timestamps, LandBump(b, ts)
      PROVE  p \in pending_writes[b]
  BY <1>3, LandBumpAt
<1>4. ASSUME PublishMaxRepeatableTs(b) PROVE p \in pending_writes[b]
  BY <1>4, PublishBumpAt
<1>5. ASSUME NEW q \in pending_writes[b], PublishCommit(b, q)
      PROVE  p \in pending_writes[b]
  BY <1>5, PublishCommitAt
<1>6. ASSUME NEW t \in Txns, NEW reads \in SUBSET Keys,
             NEW writes \in SUBSET Keys, NEW ts \in Timestamps,
             StartCommit(t, reads, writes, ts), txn[t].backend = b
      PROVE  \/ p \in pending_writes[b]
             \/ \E base \in LatestPendingSnapshot(txn[t].backend) :
                  /\ p = PendingWrite(t, reads, writes, ts, base)
                  /\ pending_writes'[b] = pending_writes[b] \cup {p}
  <2>0. StartCommit(t, reads, writes, ts)
    BY <1>6
  <2>1. PICK base \in LatestPendingSnapshot(txn[t].backend) :
          pending_writes'[txn[t].backend] =
            pending_writes[txn[t].backend]
              \cup {PendingWrite(t, reads, writes, ts, base)}
    <3>1. AddsPending(t, reads, writes, ts)
      BY <2>0, StartCommitAdds
    <3> QED
      BY <3>1 DEF AddsPending
  <2> QED
    BY <1>6, <2>1
<1> QED
  BY <1>1, <1>2, <1>3, <1>4, <1>5, <1>6, MemoryStep

LEMMA OwnerStep ==
  ASSUME LocalInv, TxnInv, [Next]_vars, NEW b \in Backends,
         NEW p \in pending_writes'[b]
  PROVE  OwnerOK(b, p)'
<1>0. TypeOK
  BY DEF LocalInv
<1>1. CASE p \in pending_writes[b]
  <2> DEFINE t == p.commit.txn
  <2>1. /\ txn[t].backend = b /\ txn[t].phase \in {"committing", "unknown"}
        /\ alive[b] => txn[t].phase = "committing"
    BY <1>1 DEF TxnInv
  <2>2. t \in Txns
    BY <1>0, <1>1, ViewFacts DEF Commits
  <2>3. alive'[b] => alive[b] /\ ~Shutdown(b)
    BY <1>0, AliveStep
  <2>4. CASE txn'[t] = txn[t]
    BY <2>1, <2>3, <2>4 DEF OwnerOK
  <2>5. CASE Orphaned(t)
    BY <2>1, <2>3, <2>5 DEF OwnerOK, Orphaned
  <2>6. ASSUME NEW c \in Backends, NEW q \in pending_writes[c],
               PublishCommit(c, q), q.commit.txn = t
        PROVE  FALSE
    <3>1. c = b
      BY <2>1, <2>6 DEF TxnInv
    <3>2. q = p
      BY <1>1, <2>6, <3>1 DEF TxnInv
    <3> QED
      BY <2>6, <3>1, <3>2, PublishCommitAt
  <2>7. ~Answered(t) /\ txn[t].phase # "running"
        /\ \A c \in Backends : ~Begin(t, c)
    BY <2>1 DEF Answered, Begin
  <2> HIDE DEF t
  <2> QED
    BY <1>0, <2>2, <2>4, <2>5, <2>6, <2>7, TxnStep
<1>2. ASSUME NEW t \in Txns, NEW reads \in SUBSET Keys,
             NEW writes \in SUBSET Keys, NEW ts \in Timestamps, NEW base,
             StartCommit(t, reads, writes, ts), txn[t].backend = b,
             p = PendingWrite(t, reads, writes, ts, base)
      PROVE  OwnerOK(b, p)'
  <2>1. p.commit.txn = t
    BY <1>2, PendingWriteFields
  <2>2. txn' = [txn EXCEPT ![t].phase = "committing"]
    BY <1>2 DEF StartCommit
  <2>3. txn[t] \in ClientTxns /\ txn \in [Txns -> ClientTxns]
    BY <1>0 DEF TypeOK
  <2>4. txn'[t].phase = "committing" /\ txn'[t].backend = txn[t].backend
    BY <2>2, <2>3 DEF ClientTxns
  <2> QED
    BY <1>2, <2>1, <2>4 DEF OwnerOK
<1> QED
  BY <1>1, <1>2, PendingStep

LEMMA TxnInvStep ==
  ASSUME LocalInv, TxnInv, [Next]_vars PROVE TxnInv'
<1>0. TypeOK
  BY DEF LocalInv
<1>1. \A b \in Backends : \A p \in pending_writes'[b] : OwnerOK(b, p)'
  BY OwnerStep
<1>2. ASSUME NEW b \in Backends, NEW p \in pending_writes'[b],
             NEW q \in pending_writes'[b], p.commit.txn = q.commit.txn
      PROVE  p = q
  <2>1. CASE p \in pending_writes[b] /\ q \in pending_writes[b]
    BY <1>2, <2>1 DEF TxnInv
  <2>2. ASSUME NEW t \in Txns, NEW reads \in SUBSET Keys,
               NEW writes \in SUBSET Keys, NEW ts \in Timestamps, NEW base,
               StartCommit(t, reads, writes, ts), NEW x, NEW y,
               x = PendingWrite(t, reads, writes, ts, base),
               y \in pending_writes[b], x.commit.txn = y.commit.txn
        PROVE  FALSE
    <3>1. x.commit.txn = t
      BY <2>2, PendingWriteFields
    <3>2. txn[t].phase = "running"
      BY <2>2 DEF StartCommit, ValidateCommit
    <3>3. txn[y.commit.txn].phase \in {"committing", "unknown"}
      BY <2>2 DEF TxnInv
    <3> QED
      BY <2>2, <3>1, <3>2, <3>3
  <2>3. CASE p \notin pending_writes[b]
    <3>1. PICK t \in Txns, reads \in SUBSET Keys, writes \in SUBSET Keys,
               ts \in Timestamps :
            \E base \in LatestPendingSnapshot(txn[t].backend) :
              /\ StartCommit(t, reads, writes, ts)
              /\ p = PendingWrite(t, reads, writes, ts, base)
              /\ pending_writes'[b] = pending_writes[b] \cup {p}
      BY <2>3, PendingStep
    <3>2. q = p \/ q \in pending_writes[b]
      BY <3>1
    <3> QED
      BY <1>2, <2>2, <3>1, <3>2
  <2>4. CASE q \notin pending_writes[b]
    <3>1. PICK t \in Txns, reads \in SUBSET Keys, writes \in SUBSET Keys,
               ts \in Timestamps :
            \E base \in LatestPendingSnapshot(txn[t].backend) :
              /\ StartCommit(t, reads, writes, ts)
              /\ q = PendingWrite(t, reads, writes, ts, base)
              /\ pending_writes'[b] = pending_writes[b] \cup {q}
      BY <2>4, PendingStep
    <3>2. p = q \/ p \in pending_writes[b]
      BY <3>1
    <3> QED
      BY <1>2, <2>2, <3>1, <3>2
  <2> QED
    BY <2>1, <2>3, <2>4
<1>3. ASSUME NEW d \in documents'
      PROVE  txn'[d.txn].phase \in {"committing", "ok", "unknown"}
  <2>1. CASE d \in documents
    <3> DEFINE t == d.txn
    <3>1. txn[t].phase \in {"committing", "ok", "unknown"}
      BY <2>1 DEF TxnInv
    <3>2. t \in Txns
      BY <1>0, <2>1 DEF TypeOK, Commits
    <3>3. ~Answered(t) /\ txn[t].phase # "running"
          /\ \A c \in Backends : ~Begin(t, c)
      BY <3>1 DEF Answered, Begin
    <3>4. CASE Orphaned(t)
      BY <3>4 DEF Orphaned
    <3> HIDE DEF t
    <3>5. txn'[t].phase \in {"committing", "ok", "unknown"}
      BY <1>0, <3>1, <3>2, <3>3, <3>4, TxnStep DEF Orphaned
    <3> QED
      BY <3>5 DEF t
  <2>2. CASE d \notin documents
    <3>1. PICK a \in Backends : \E p \in pending_writes[a] : LandCommit(a, p)
      BY <2>2, DocumentActions
    <3>2. PICK p \in pending_writes[a] : LandCommit(a, p)
      BY <3>1
    <3>3. d = p.commit /\ txn' = txn
      BY <2>2, <3>2, LandCommitEffect
    <3> QED
      BY <3>3 DEF TxnInv
  <2> QED
    BY <2>1, <2>2
<1> QED
  BY <1>1, <1>2, <1>3 DEF TxnInv, OwnerOK

-----------------------------------------------------------------------------
(* Outcomes.                                                               *)

LEMMA OutcomeStep ==
  ASSUME LocalInv, FenceInv, TxnInv, OutcomeTruthful, [Next]_vars
  PROVE  OutcomeTruthful'
<1>0. TypeOK /\ LandedInv /\ documents \subseteq documents'
  BY DocumentsGrow DEF LocalInv, FenceInv
<1>1. ASSUME NEW t \in Txns, txn'[t].phase = "ok"
      PROVE  \E d \in documents' : d.txn = t /\ d.ts = txn'[t].ts
  <2>1. CASE txn'[t] = txn[t]
    <3>1. \E d \in documents : d.txn = t /\ d.ts = txn[t].ts
      BY <1>1, <2>1 DEF OutcomeTruthful
    <3> QED
      BY <1>0, <2>1, <3>1
  <2>2. ASSUME NEW b \in Backends, NEW p \in pending_writes[b],
               PublishCommit(b, p), p.commit.txn = t, txn'[t].ts = p.commit.ts
        PROVE  \E d \in documents' : d.txn = t /\ d.ts = txn'[t].ts
    <3>1. CommitItem(p.commit.ts) \in landed[b]
      BY <2>2, PublishCommitAt
    <3>2. p.commit \in documents'
      BY <1>0, <3>1 DEF LandedInv
    <3> QED
      BY <2>2, <3>2
  <2>3. /\ ~Answered(t) /\ ~Orphaned(t) /\ txn'[t].phase # "committing"
        /\ \A b \in Backends : ~Begin(t, b)
    BY <1>0, <1>1, BeginAt DEF Answered, Orphaned
  <2> QED
    BY <1>0, <2>1, <2>2, <2>3, TxnStep
<1>2. TxnInv'
  BY TxnInvStep
<1>3. ASSUME NEW t \in Txns, txn'[t].phase = "failed", NEW d \in documents'
      PROVE  d.txn # t
  BY <1>2, <1>3 DEF TxnInv
<1> QED
  BY <1>1, <1>3 DEF OutcomeTruthful

-----------------------------------------------------------------------------
(* Real-time order.                                                        *)

\* The holder has published, or loaded, every acknowledged commit.
LEMMA AckedVisible ==
  ASSUME FenceInv, TxnInv, OutcomeTruthful, NEW t \in Txns,
         txn[t].phase = "ok", NEW h \in Backends, Holds(h)
  PROVE  /\ phase[h] = "running" => txn[t].ts <= latest_ts[h]
         /\ phase[h] \in {"idle_ts", "idle_written", "snapshot_read"} =>
              txn[t].ts <= load_ts[h]
<1>0. HolderInv /\ PublishedInv
  BY DEF FenceInv
<1>1. PICK d \in documents : d.txn = t /\ d.ts = txn[t].ts
  BY DEF OutcomeTruthful
<1>2. ASSUME phase[h] = "running" PROVE d.ts <= latest_ts[h]
  <2>1. ASSUME NEW p \in pending_writes[h], p.commit = d PROVE FALSE
    <3>1. txn[p.commit.txn].phase \in {"committing", "unknown"}
      BY DEF TxnInv
    <3> QED
      BY <1>1, <2>1, <3>1
  <2> QED
    BY <1>0, <1>2, <2>1 DEF PublishedInv
<1>3. ASSUME phase[h] \in {"idle_ts", "idle_written", "snapshot_read"}
      PROVE  d.ts <= load_ts[h]
  BY <1>0, <1>3 DEF HolderInv
<1> QED
  BY <1>1, <1>2, <1>3

LEMMA AckedStep ==
  ASSUME LocalInv, FenceInv, TxnInv, OutcomeTruthful, AckedInv, [Next]_vars
  PROVE  AckedInv'
<1>0. TypeOK /\ LeaseInv /\ OpenInv /\ StartInv
  BY DEF LocalInv, FenceInv
<1>1. FenceInv' /\ TxnInv' /\ OutcomeTruthful'
  BY FenceStep, TxnInvStep, OutcomeStep
<1>2. ASSUME NEW t \in Txns, txn'[t].phase = "ok", NEW h \in Backends, Holds(h)'
      PROVE  /\ phase'[h] = "running" => txn'[t].ts <= latest_ts'[h]
             /\ phase'[h] \in {"idle_ts", "idle_written", "snapshot_read"} =>
                  txn'[t].ts <= load_ts'[h]
  <2>1. HolderInv' /\ PublishedInv'
    BY <1>1 DEF FenceInv
  <2>2. PICK d \in documents' : d.txn = t /\ d.ts = txn'[t].ts
    BY <1>1, <1>2 DEF OutcomeTruthful
  <2>3. ASSUME phase'[h] = "running" PROVE d.ts <= latest_ts'[h]
    <3>1. ASSUME NEW p \in pending_writes'[h], p.commit = d PROVE FALSE
      <4>1. txn'[p.commit.txn].phase \in {"committing", "unknown"}
        BY <1>1 DEF TxnInv
      <4> QED
        BY <1>2, <2>2, <3>1, <4>1
    <3> QED
      BY <1>2, <2>1, <2>3, <3>1 DEF PublishedInv
  <2>4. ASSUME phase'[h] \in {"idle_ts", "idle_written", "snapshot_read"}
        PROVE  d.ts <= load_ts'[h]
    BY <1>2, <2>1, <2>4 DEF HolderInv
  <2> QED
    BY <2>2, <2>3, <2>4
<1>3. ASSUME NEW t \in Txns, txn'[t].phase = "running",
             txn'[t].backend \in Backends, Holds(txn[t].backend)'
      PROVE  txn'[t].acked <= txn'[t].begin
  <2>1. ASSUME NEW b \in Backends, Begin(t, b)
        PROVE  txn'[t].acked <= txn'[t].begin
    <3>1. /\ phase[b] = "running" /\ txn'[t].backend = b
          /\ txn'[t].begin = latest_ts[b] /\ Acked(txn'[t].acked)
          /\ txn'[t].acked \in Timestamps
          /\ UNCHANGED <<lease, lease_ts>>
      BY <1>0, <2>1, BeginAt DEF Running, persistenceVars, startupVars
    <3>2. Holds(b)
      BY <1>3, <3>1 DEF Holds
    <3>3. CASE txn'[t].acked = 0
      <4>1. latest_ts[b] \in Nat
        BY <1>0, NatFacts
      <4> QED
        BY <3>1, <3>3, <4>1
    <3>4. ASSUME NEW u \in Txns, txn[u].phase = "ok", txn[u].ts = txn'[t].acked
          PROVE  txn'[t].acked <= txn'[t].begin
      BY <3>1, <3>2, <3>4, AckedVisible
    <3> QED
      BY <3>1, <3>3, <3>4 DEF Acked
  <2>2. CASE txn'[t] = txn[t]
    <3>1. txn[t].phase = "running" /\ txn[t].backend \in Backends
      BY <1>3, <2>2
    <3>2. phase[txn[t].backend] = "running"
      BY <1>0, <3>1 DEF OpenInv
    <3>3. ASSUME NEW b \in Backends, b = txn[t].backend, Holds(b)'
          PROVE  Holds(b)
      BY <1>0, <3>2, <3>3, HoldsStep, StartupEffect
    <3>4. ASSUME NEW b \in Backends, b = txn[t].backend PROVE Holds(b)'
      BY <1>3, <2>2, <3>4 DEF Holds
    <3>5. Holds(txn[t].backend)
      BY <3>1, <3>3, <3>4
    <3> QED
      BY <2>2, <3>1, <3>5 DEF AckedInv
  <2>3. /\ ~Answered(t) /\ ~Orphaned(t)
        /\ txn'[t].phase # "ok" /\ txn'[t].phase # "committing"
    BY <1>3 DEF Answered, Orphaned
  <2> QED
    BY <1>0, <2>1, <2>2, <2>3, TxnStep
<1>4. ASSUME NEW h \in Backends, Holds(h)', NEW p \in pending_writes'[h]
      PROVE  p.commit.acked <= p.commit.begin
  <2>1. Holds(h)
    <3>1. ASSUME NEW ts \in 1..MaxLease, AcquireLease(h, ts) PROVE FALSE
      <4>1. pending_writes[h] = {}
        BY <1>0, <3>1, StartupEffect DEF StartInv
      <4>2. pending_writes' = pending_writes
        BY <3>1 DEF AcquireLease, queueVars
      <4> QED
        BY <1>4, <4>1, <4>2
    <3> QED
      BY <1>0, <1>4, <3>1, HoldsStep
  <2>2. CASE p \in pending_writes[h]
    BY <2>1, <2>2 DEF AckedInv
  <2>3. ASSUME NEW t \in Txns, NEW reads \in SUBSET Keys,
               NEW writes \in SUBSET Keys, NEW ts \in Timestamps, NEW base,
               StartCommit(t, reads, writes, ts), txn[t].backend = h,
               p = PendingWrite(t, reads, writes, ts, base)
        PROVE  p.commit.acked <= p.commit.begin
    <3>1. p.commit.begin = txn[t].begin /\ p.commit.acked = txn[t].acked
      BY <2>3, PendingWriteFields
    <3>2. txn[t].phase = "running"
      BY <2>3 DEF StartCommit, ValidateCommit
    <3>3. Holds(txn[t].backend)
      BY <2>1, <2>3
    <3> QED
      BY <3>1, <3>2, <3>3 DEF AckedInv
  <2> QED
    BY <1>4, <2>2, <2>3, PendingStep
<1>5. \A t \in Txns : txn'[t].phase = "running" /\ Holds(txn[t].backend)' =>
        txn'[t].backend \in Backends
  <2>1. OpenInv'
    BY LocalStep DEF LocalInv
  <2> QED
    BY <2>1 DEF OpenInv
<1> QED
  BY <1>2, <1>3, <1>4, <1>5 DEF AckedInv

LEMMA RealTimeStep ==
  ASSUME LocalInv, AckedInv, RealTimeOrder, [Next]_vars
  PROVE  RealTimeOrder'
<1>1. ASSUME NEW a \in Backends, NEW p \in pending_writes[a], LandCommit(a, p)
      PROVE  RealTimeOrder'
  <2>1. Holds(a) /\ documents' = documents \cup {p.commit}
    BY <1>1, LandCommitAt
  <2>2. p.commit.acked <= p.commit.begin
    BY <2>1 DEF AckedInv
  <2> QED
    BY <2>1, <2>2 DEF RealTimeOrder
<1>2. CASE documents' = documents
  BY <1>2 DEF RealTimeOrder
<1> QED
  BY <1>1, <1>2, DocumentActions

-----------------------------------------------------------------------------

LEMMA ClientInit == Init => ClientInv
<1> SUFFICES ASSUME Init PROVE ClientInv
  OBVIOUS
<1>1. /\ documents = {}
      /\ \A b \in Backends : pending_writes[b] = {}
      /\ \A t \in Txns : txn[t].phase = "idle"
  BY DEF Init
<1> QED
  BY <1>1 DEF ClientInv, TxnInv, AckedInv, OutcomeTruthful, RealTimeOrder

LEMMA ClientAlways == Spec => []ClientInv
<1>1. Init => ClientInv
  BY ClientInit
<1>2. LocalInv /\ FenceInv /\ ClientInv /\ [Next]_vars => ClientInv'
  <2> SUFFICES ASSUME LocalInv, FenceInv, ClientInv, [Next]_vars
               PROVE  ClientInv'
    OBVIOUS
  <2>1. TxnInv /\ AckedInv /\ OutcomeTruthful /\ RealTimeOrder
    BY DEF ClientInv
  <2> QED
    BY <2>1, TxnInvStep, AckedStep, OutcomeStep, RealTimeStep DEF ClientInv
<1> QED
  BY <1>1, <1>2, LocallyOrdered, Fenced, PTL DEF Spec

\* For every instance, a client told of success has a durable commit at that
\* timestamp and one told of failure has none (publish_commit, start_commit).
THEOREM OutcomesAreTruthful == Spec => []OutcomeTruthful
<1>1. ClientInv => OutcomeTruthful
  BY DEF ClientInv
<1> QED
  BY <1>1, ClientAlways, PTL

\* For every instance, a durable transaction's snapshot includes every commit
\* any client had been told of before it began, through leader changes
\* (Database::load, Lease::transact).
THEOREM RealTimeOrderHolds == Spec => []RealTimeOrder
<1>1. ClientInv => RealTimeOrder
  BY DEF ClientInv
<1> QED
  BY <1>1, ClientAlways, PTL

==============================================================================
