------------------------ MODULE IndexBackfillProofs ------------------------
(***************************************************************************)
(* An index that was declared backfilled can be read, for any documents,   *)
(* values, number of workers, delay and failures; and the retention of the *)
(* worker leaves nothing behind.                                           *)
(*                                                                         *)
(* The argument: from the timestamp the index was added at, every commit   *)
(* writes its rows.  Only the documents that have not changed since then   *)
(* depend on the copy, and a cursor that is reached in one snapshot holds  *)
(* for every later one, whoever sent it.  Retention begins after the copy, *)
(* so that a deleted row is never written again, and it deletes a row only *)
(* with all older ones of its key.                                         *)
(***************************************************************************)
EXTENDS IndexBackfill, NaturalsInduction, WellFoundedInduction, TLAPS

USE IndexBackfillAssumption

-----------------------------------------------------------------------------
(* Revisions and the rows they make.                                       *)

RowType == [id : Ids, value : 1..NumValues, ts : Timestamps, deleted : BOOLEAN]

\* r is the revision of its document at ts.
IsCurrent(docs, r, ts) ==
  r.ts <= ts /\ \A q \in docs : q.id = r.id /\ q.ts <= ts => q.ts <= r.ts

\* n replaces p, which was live.
Replaces(docs, n, p) ==
  /\ n.id = p.id /\ p.ts < n.ts /\ p.value # Deleted
  /\ \A q \in docs : q.id = p.id /\ p.ts < q.ts => n.ts <= q.ts

\* A row that the commit of n writes.
IsUpdate(docs, n, row) ==
  /\ row.id = n.id /\ row.ts = n.ts
  /\ \/ ~row.deleted /\ row.value = n.value /\ n.value # Deleted
     \/ /\ row.deleted
        /\ \E p \in docs : Replaces(docs, n, p) /\ p.value # n.value /\ row.value = p.value

\* A row that revisions in from..(to - 1) made deletable.
Expired(docs, from, to, row) ==
  \E n, p \in docs :
    /\ Replaces(docs, n, p) /\ from <= n.ts /\ n.ts < to
    /\ row.id = p.id /\ row.value = p.value
    /\ row.ts <= p.ts \/ (p.value # n.value /\ row.ts <= n.ts)

-----------------------------------------------------------------------------
(* The inductive invariant.                                                *)

DocumentsInv ==
  /\ \A r \in documents : 1 <= r.ts /\ r.ts <= latest_ts
  /\ \A r, q \in documents : r.id = q.id /\ r.ts = q.ts => r = q

TimeInv ==
  /\ min_snapshot <= repeatable_ts /\ repeatable_ts <= latest_ts
  /\ index.created_lower_bound <= latest_ts
  /\ progress.snapshot_ts <= latest_ts /\ task.snapshot_ts <= latest_ts
  /\ task.min_ts <= min_snapshot /\ deleter.end <= min_snapshot
  /\ deleter.step = "pass" => 1 <= deleter.end

\* Retention begins after the copy, in which no snapshot is from before the
\* index was added.
PhaseInv ==
  /\ index.state = "none" =>
       /\ rows = {} /\ ~index.retention_started
       /\ task.step = "idle" /\ channel = <<>> /\ progress.cursor = 0
  /\ index.state = "backfilled" => index.retention_started
  /\ task.step \in {"initialize", "copy"} =>
       /\ ~index.retention_started /\ index.state # "none"
       /\ index.created_lower_bound <= task.snapshot_ts
       /\ progress.snapshot_ts <= task.snapshot_ts
  /\ task.step = "initialize" => task.cursor = 0 /\ task.written = {}
  /\ task.step = "copy" => task.snapshot_ts = progress.snapshot_ts
  /\ task.step \notin {"idle", "initialize", "copy"} => index.retention_started
  /\ task.step \in {"min", "delete"} => task.begin_ts = index.created_lower_bound
  /\ deleter.known \/ deleter.before => index.retention_started
  /\ progress.cursor # 0 \/ channel # <<>> \/ index.retention_started =>
       index.created_lower_bound <= progress.snapshot_ts

\* Where a row comes from.
RowsInv ==
  \A x \in rows : \E n \in documents :
    \/ n.ts > index.created_lower_bound /\ IsUpdate(documents, n, x)
    \/ /\ IsCurrent(documents, n, index.created_lower_bound) /\ n.value # Deleted
       /\ x = copy_row(n)

\* A row of a commit is there, or retention deleted it with all older ones.
UpdatesInv ==
  index.state # "none" =>
    \A n \in documents :
      \A x \in RowType :
        n.ts > index.created_lower_bound /\ IsUpdate(documents, n, x) =>
          \/ x \in rows
          \/ /\ index.retention_started /\ Expired(documents, 0, min_snapshot, x)
             /\ \A y \in rows : y.id = x.id /\ y.value = x.value => x.ts < y.ts

\* What the index was added over, of one document, is there if it is still
\* current at ts, or retention deleted it.
Covered(id, ts) ==
  \A r \in documents :
    r.id = id /\ IsCurrent(documents, r, ts) /\ r.value # Deleted
      /\ r.ts <= index.created_lower_bound =>
        \/ copy_row(r) \in rows
        \/ index.retention_started /\ Expired(documents, 0, min_snapshot, copy_row(r))

\* What a cursor, whichever task it is from, or the task says is copied.
Reached(id) ==
  \/ id <= progress.cursor
  \/ \E i \in DOMAIN channel : id <= channel[i]
  \/ task.step = "copy" /\ (id <= task.cursor \/ id \in task.written)
  \/ index.retention_started

CoverInv == \A id \in Ids : Reached(id) => Covered(id, progress.snapshot_ts)

Inv == TypeOK /\ DocumentsInv /\ TimeInv /\ PhaseInv /\ RowsInv /\ UpdatesInv /\ CoverInv

-----------------------------------------------------------------------------
(* Least and greatest elements.                                            *)

LEMMA LeastNat ==
  ASSUME NEW S \in SUBSET Nat, S # {}
  PROVE  \E x \in S : \A y \in S : x <= y
<1>1. PICK x \in S : \A y \in S : ~(<<y, x>> \in OpToRel(<, Nat))
  BY NatLessThanWellFounded, WFMin
<1>2. ASSUME NEW y \in S, y < x PROVE <<y, x>> \in OpToRel(<, Nat)
  <2>1. <<y, x>> \in Nat \X Nat /\ <<y, x>>[1] < <<y, x>>[2]
    BY <1>2
  <2> QED
    BY <2>1, Zenon DEF OpToRel
<1>3. \A y \in S : ~(y < x)
  BY <1>1, <1>2
<1> QED
  BY <1>3

\* The greatest element is the least bound.
LEMMA MaxIsGreatest ==
  ASSUME NEW S \in SUBSET Nat, S # {}, NEW bound \in Nat, \A x \in S : x <= bound
  PROVE  Max(S) \in S /\ \A x \in S : x <= Max(S)
<1> DEFINE Bounds == {b \in Nat : \A x \in S : x <= b}
<1>1. bound \in Bounds
  OBVIOUS
<1>2. PICK b \in Bounds : \A c \in Bounds : b <= c
  BY <1>1, LeastNat
<1>3. b \in S
  <2>1. CASE b = 0
    <3>1. PICK x \in S : TRUE
      OBVIOUS
    <3>2. x \in Nat /\ x <= b
      BY <1>2
    <3> QED
      BY <2>1, <3>2
  <2>2. CASE b # 0
    <3>1. b - 1 \in Nat /\ b - 1 \notin Bounds
      BY <2>2, <1>2
    <3>2. PICK x \in S : ~(x <= b - 1)
      BY <3>1
    <3> QED
      BY <3>2, <1>2
  <2> QED
    BY <2>1, <2>2
<1>4. \E x \in S : \A y \in S : y <= x
  BY <1>2, <1>3
<1> QED
  BY <1>4 DEF Max

-----------------------------------------------------------------------------
(* Types.                                                                  *)

LEMMA RevisionTypes ==
  ASSUME NEW r \in Revisions
  PROVE  r.id \in Ids /\ r.id \in Nat /\ r.ts \in Timestamps /\ r.ts \in Nat /\ r.value \in 0..NumValues
BY DEF Revisions, Ids, Timestamps

LEMMA RowTypes ==
  ASSUME NEW x \in RowType
  PROVE  x.id \in Ids /\ x.ts \in Timestamps /\ x.ts \in Nat /\ x.value \in 1..NumValues /\ x.deleted \in BOOLEAN
BY DEF RowType, Timestamps

LEMMA Types ==
  ASSUME TypeOK
  PROVE  /\ documents \subseteq Revisions /\ rows \subseteq RowType
         /\ latest_ts \in Nat /\ repeatable_ts \in Nat /\ min_snapshot \in Nat
         /\ latest_ts \in Timestamps /\ repeatable_ts \in Timestamps /\ min_snapshot \in Timestamps
         /\ index.created_lower_bound \in Nat /\ index.created_lower_bound \in Timestamps
         /\ index.retention_started \in BOOLEAN /\ index.started_ts \in Timestamps
         /\ index.state \in {"none", "backfilling", "backfilled"}
         /\ progress.snapshot_ts \in Nat /\ progress.snapshot_ts \in Timestamps
         /\ progress.cursor \in {0} \cup Ids
<1>1. Timestamps \subseteq Nat
  BY DEF Timestamps
<1>2. documents \subseteq Revisions /\ rows \subseteq RowType
  BY DEF TypeOK, RowType
<1>3. latest_ts \in Timestamps /\ repeatable_ts \in Timestamps /\ min_snapshot \in Timestamps
  BY DEF TypeOK
<1>4. /\ index.created_lower_bound \in Timestamps
      /\ index.retention_started \in BOOLEAN /\ index.started_ts \in Timestamps
      /\ index.state \in {"none", "backfilling", "backfilled"}
  BY DEF TypeOK
<1>5. progress.snapshot_ts \in Timestamps /\ progress.cursor \in {0} \cup Ids
  BY DEF TypeOK
<1> QED
  BY <1>1, <1>2, <1>3, <1>4, <1>5

LEMMA WorkerTypes ==
  ASSUME TypeOK
  PROVE  /\ task.snapshot_ts \in Timestamps /\ task.written \in SUBSET Ids
         /\ task.cursor \in {0} \cup Ids /\ task.sent \in {0} \cup Ids
         /\ task.begin_ts \in Timestamps /\ task.min_ts \in Timestamps
         /\ task.snapshot_ts \in Nat /\ task.begin_ts \in Nat /\ task.min_ts \in Nat
         /\ task.step \in {"idle", "initialize", "copy", "retention", "min", "delete", "finish"}
         /\ deleter.cursor \in Timestamps /\ deleter.end \in Timestamps
         /\ deleter.cursor \in Nat /\ deleter.end \in Nat
         /\ deleter.checkpoint \in Timestamps /\ deleter.step \in {"wait", "pass"}
         /\ deleter.before \in BOOLEAN /\ deleter.known \in BOOLEAN
         /\ channel \in Seq(Ids) /\ failures \in 0..MaxFailures
<1>1. Timestamps \subseteq Nat
  BY DEF Timestamps
<1>2. /\ task.snapshot_ts \in Timestamps /\ task.written \in SUBSET Ids
      /\ task.cursor \in {0} \cup Ids /\ task.sent \in {0} \cup Ids
      /\ task.begin_ts \in Timestamps /\ task.min_ts \in Timestamps
      /\ task.step \in {"idle", "initialize", "copy", "retention", "min", "delete", "finish"}
  BY DEF TypeOK
<1>3. /\ deleter.cursor \in Timestamps /\ deleter.end \in Timestamps
      /\ deleter.checkpoint \in Timestamps /\ deleter.step \in {"wait", "pass"}
      /\ deleter.before \in BOOLEAN /\ deleter.known \in BOOLEAN
  BY DEF TypeOK
<1>4. channel \in Seq(Ids) /\ failures \in 0..MaxFailures
  BY DEF TypeOK
<1> QED
  BY <1>1, <1>2, <1>3, <1>4

-----------------------------------------------------------------------------
(* Revisions.                                                              *)

\* The model's revision of a document, and the entries retention computes.
LEMMA CurrentIs ==
  ASSUME NEW id, NEW ts
  PROVE  Current(id, ts) = {r \in documents : r.id = id /\ IsCurrent(documents, r, ts)}
BY DEF Current, IsCurrent

LEMMA PreviousIs ==
  ASSUME TypeOK, NEW n \in documents
  PROVE  {p \in Current(n.id, n.ts - 1) : p.value # Deleted} = {p \in documents : Replaces(documents, n, p)}
<1>1. \A q \in documents : q.ts \in Nat
  BY Types, RevisionTypes
<1>2. ASSUME NEW p \in documents, p.id = n.id
      PROVE  IsCurrent(documents, p, n.ts - 1) <=>
               p.ts < n.ts /\ \A q \in documents : q.id = p.id /\ p.ts < q.ts => n.ts <= q.ts
  <2>1. n.ts \in Nat /\ p.ts \in Nat
    BY <1>1
  <2>2. \A q \in documents : (q.ts <= n.ts - 1 => q.ts <= p.ts) <=> (p.ts < q.ts => n.ts <= q.ts)
    BY <1>1, <2>1
  <2>3. p.ts <= n.ts - 1 <=> p.ts < n.ts
    BY <2>1
  <2> QED
    BY <2>2, <2>3, <1>2 DEF IsCurrent
<1> QED
  BY <1>2, CurrentIs DEF Replaces

\* An entry names a key and how far it is deleted.
LEMMA EntryIs ==
  ASSUME TypeOK, NEW from, NEW to, NEW e
  PROVE  e \in expired_index_entries(from, to) <=>
           \E n, p \in documents :
             /\ Replaces(documents, n, p) /\ from <= n.ts /\ n.ts < to
             /\ \/ e = <<n.id, p.value, p.ts>>
                \/ p.value # n.value /\ e = <<n.id, p.value, n.ts>>
<1> DEFINE prev(n) == {p \in Current(n.id, n.ts - 1) : p.value # Deleted}
           part(n) == {<<n.id, p.value, p.ts>> : p \in prev(n)}
                      \cup {<<n.id, p.value, n.ts>> : p \in {q \in prev(n) : q.value # n.value}}
<1>1. expired_index_entries(from, to) =
        UNION {part(n) : n \in {q \in documents : from <= q.ts /\ q.ts < to}}
  BY DEF expired_index_entries
<1>2. \A n \in documents : prev(n) = {p \in documents : Replaces(documents, n, p)}
  BY PreviousIs
<1>3. \A n \in documents : e \in part(n) <=>
        \E p \in documents : /\ Replaces(documents, n, p)
                             /\ \/ e = <<n.id, p.value, p.ts>>
                                \/ p.value # n.value /\ e = <<n.id, p.value, n.ts>>
  <2> HIDE DEF prev
  <2> QED
    BY <1>2
<1> HIDE DEF part
<1> QED
  BY <1>1, <1>3

\* What deleting an entry removes.
LEMMA EntryDeletes ==
  ASSUME TypeOK, NEW from, NEW to, NEW e \in expired_index_entries(from, to),
         NEW x \in ExpiredRows({e})
  PROVE  x \in rows /\ Expired(documents, from, to, x)
<1>1. PICK n \in documents, p \in documents :
        /\ Replaces(documents, n, p) /\ from <= n.ts /\ n.ts < to
        /\ \/ e = <<n.id, p.value, p.ts>>
           \/ p.value # n.value /\ e = <<n.id, p.value, n.ts>>
  BY EntryIs
<1>2. x \in rows /\ e[1] = x.id /\ e[2] = x.value /\ x.ts <= e[3]
  BY DEF ExpiredRows
<1>3. p.id = n.id
  BY <1>1 DEF Replaces
<1> QED
  BY <1>1, <1>2, <1>3 DEF Expired

LEMMA PurgedIs ==
  ASSUME TypeOK, NEW from, NEW to
  PROVE  Purged(from, to) <=> \A x \in rows : ~Expired(documents, from, to, x)
<1>1. ASSUME NEW x \in rows, Expired(documents, from, to, x)
      PROVE  x \in ExpiredRows(expired_index_entries(from, to))
  <2>1. PICK n \in documents, p \in documents :
          /\ Replaces(documents, n, p) /\ from <= n.ts /\ n.ts < to
          /\ x.id = p.id /\ x.value = p.value
          /\ x.ts <= p.ts \/ (p.value # n.value /\ x.ts <= n.ts)
    BY <1>1 DEF Expired
  <2>2. p.id = n.id
    BY <2>1 DEF Replaces
  <2>3. CASE x.ts <= p.ts
    <3> DEFINE e == <<n.id, p.value, p.ts>>
    <3>1. e \in expired_index_entries(from, to)
      BY <2>1, EntryIs
    <3>2. e[1] = x.id /\ e[2] = x.value /\ x.ts <= e[3]
      BY <2>1, <2>2, <2>3
    <3> QED
      BY <3>1, <3>2 DEF ExpiredRows
  <2>4. CASE p.value # n.value /\ x.ts <= n.ts
    <3> DEFINE e == <<n.id, p.value, n.ts>>
    <3>1. e \in expired_index_entries(from, to)
      BY <2>1, <2>4, EntryIs
    <3>2. e[1] = x.id /\ e[2] = x.value /\ x.ts <= e[3]
      BY <2>1, <2>2, <2>4
    <3> QED
      BY <3>1, <3>2 DEF ExpiredRows
  <2> QED
    BY <2>1, <2>3, <2>4
<1>2. ASSUME NEW x \in ExpiredRows(expired_index_entries(from, to))
      PROVE  x \in rows /\ Expired(documents, from, to, x)
  <2>1. PICK e \in expired_index_entries(from, to) : x \in ExpiredRows({e})
    BY DEF ExpiredRows
  <2> QED
    BY <2>1, EntryDeletes
<1> QED
  BY <1>1, <1>2 DEF Purged

\* The next revision of a document after one that is no longer current.
LEMMA NextRevision ==
  ASSUME TypeOK, DocumentsInv, NEW r \in documents, NEW ts \in Nat, r.ts <= ts,
         ~IsCurrent(documents, r, ts), r.value # Deleted
  PROVE  \E n \in documents : Replaces(documents, n, r) /\ n.ts <= ts
<1> DEFINE later == {q \in documents : q.id = r.id /\ r.ts < q.ts}
           S == {q.ts : q \in later}
<1>1. \A q \in documents : q.ts \in Nat
  BY Types, RevisionTypes
<1>2. PICK q \in later : q.ts <= ts
  BY <1>1 DEF IsCurrent
<1>3. S \in SUBSET Nat /\ q.ts \in S
  BY <1>1
<1>4. PICK m \in S : \A y \in S : m <= y
  BY <1>3, LeastNat
<1>5. PICK n \in later : n.ts = m
  BY <1>4
<1>6. \A x \in documents : x.id = r.id /\ r.ts < x.ts => n.ts <= x.ts
  BY <1>4, <1>5
<1>7. n.ts <= ts
  BY <1>1, <1>2, <1>3, <1>4, <1>5
<1> QED
  BY <1>5, <1>6, <1>7 DEF Replaces

-----------------------------------------------------------------------------
(* What the invariant says of reads and of the worker's retention.         *)

\* The revision a row is from.
LEMMA RowSource ==
  ASSUME Inv, NEW x \in rows
  PROVE  \E n \in documents :
           /\ n.id = x.id /\ n.ts = x.ts
           /\ n.ts > index.created_lower_bound
              \/ (IsCurrent(documents, n, index.created_lower_bound) /\ x = copy_row(n))
           /\ ~x.deleted => n.value = x.value /\ n.value # Deleted
<1>1. PICK n \in documents :
        \/ n.ts > index.created_lower_bound /\ IsUpdate(documents, n, x)
        \/ /\ IsCurrent(documents, n, index.created_lower_bound) /\ n.value # Deleted
           /\ x = copy_row(n)
  BY DEF Inv, RowsInv
<1>2. CASE n.ts > index.created_lower_bound /\ IsUpdate(documents, n, x)
  BY <1>2 DEF IsUpdate
<1>3. CASE /\ IsCurrent(documents, n, index.created_lower_bound) /\ n.value # Deleted
           /\ x = copy_row(n)
  BY <1>3 DEF copy_row
<1> QED
  BY <1>1, <1>2, <1>3

\* A row for a revision is a row.
LEMMA RowOf ==
  ASSUME TypeOK, NEW r \in documents, r.value # Deleted, NEW ts \in Timestamps, NEW d \in BOOLEAN
  PROVE  /\ [id |-> r.id, value |-> r.value, ts |-> ts, deleted |-> d] \in RowType
         /\ copy_row(r) \in RowType
<1>1. r.id \in Ids /\ r.ts \in Timestamps /\ r.value \in 0..NumValues
  BY Types, RevisionTypes
<1>2. r.value \in 1..NumValues
  BY <1>1 DEF Deleted
<1> QED
  BY <1>1, <1>2 DEF RowType, copy_row

\* What is current after the minimum snapshot has not expired.
LEMMA CurrentNotExpired ==
  ASSUME Inv, NEW ts \in Nat, min_snapshot <= ts, NEW r \in documents,
         IsCurrent(documents, r, ts)
  PROVE  ~Expired(documents, 0, min_snapshot, copy_row(r))
<1> SUFFICES ASSUME NEW n \in documents, NEW p \in documents,
                    Replaces(documents, n, p), n.ts < min_snapshot,
                    r.id = p.id, r.value = p.value,
                    r.ts <= p.ts \/ (p.value # n.value /\ r.ts <= n.ts)
             PROVE  FALSE
  BY DEF Expired, copy_row
<1>1. r.ts \in Nat /\ n.ts \in Nat /\ p.ts \in Nat /\ min_snapshot \in Nat
  BY Types, RevisionTypes DEF Inv
<1>2. n.id = r.id /\ p.ts < n.ts
  BY DEF Replaces
<1>3. n.ts <= r.ts
  BY <1>1, <1>2 DEF IsCurrent
<1>4. p.value # n.value /\ r.ts = n.ts
  BY <1>1, <1>2, <1>3
<1>5. r = n
  BY <1>2, <1>4 DEF Inv, DocumentsInv
<1> QED
  BY <1>4, <1>5

\* Every live document has its row.
LEMMA LiveHasRow ==
  ASSUME Inv, index.state = "backfilled", NEW ts \in Nat,
         progress.snapshot_ts <= ts, min_snapshot <= ts,
         NEW r \in documents, IsCurrent(documents, r, ts), r.value # Deleted
  PROVE  copy_row(r) \in rows
<1>1. /\ r.ts \in Nat /\ r.id \in Ids /\ r.ts \in Timestamps
      /\ index.created_lower_bound \in Nat /\ progress.snapshot_ts \in Nat
  BY Types, RevisionTypes DEF Inv
<1>2. index.retention_started /\ index.created_lower_bound <= progress.snapshot_ts
  BY DEF Inv, PhaseInv
<1>3. ~Expired(documents, 0, min_snapshot, copy_row(r))
  BY CurrentNotExpired
<1>4. CASE r.ts > index.created_lower_bound
  <2>1. copy_row(r) \in RowType
    BY <1>1, RowOf DEF Inv
  <2>2. IsUpdate(documents, r, copy_row(r))
    BY DEF IsUpdate, copy_row
  <2> QED
    BY <1>3, <1>4, <2>1, <2>2 DEF Inv, UpdatesInv
<1>5. CASE r.ts <= index.created_lower_bound
  <2>1. \A q \in documents : q.ts \in Nat
    BY Types, RevisionTypes DEF Inv
  <2>2. IsCurrent(documents, r, progress.snapshot_ts)
    BY <1>1, <1>2, <1>5, <2>1 DEF IsCurrent
  <2>3. Covered(r.id, progress.snapshot_ts)
    BY <1>1, <1>2 DEF Inv, CoverInv, Reached
  <2> QED
    BY <1>3, <1>5, <2>2, <2>3 DEF Covered
<1> QED
  BY <1>1, <1>4, <1>5

\* The row that replaces another in its key.
NextRow(n, p) ==
  [id |-> p.id, value |-> p.value, ts |-> n.ts, deleted |-> n.value # p.value]

\* A row that a read sees is of the current revision.
LEMMA SeenIsCurrent ==
  ASSUME Inv, index.state = "backfilled", NEW ts \in Nat,
         NEW x \in rows, x.ts <= ts, ~x.deleted,
         \A y \in rows : y.id = x.id /\ y.value = x.value /\ y.ts <= ts => y.ts <= x.ts
  PROVE  \E r \in documents : /\ IsCurrent(documents, r, ts) /\ r.value # Deleted
                              /\ r.id = x.id /\ r.value = x.value
<1>1. PICK r \in documents :
        /\ r.id = x.id /\ r.ts = x.ts
        /\ r.ts > index.created_lower_bound
           \/ IsCurrent(documents, r, index.created_lower_bound)
        /\ r.value = x.value /\ r.value # Deleted
  BY RowSource
<1>2. CASE ~IsCurrent(documents, r, ts)
  <2>1. PICK n \in documents : Replaces(documents, n, r) /\ n.ts <= ts
    BY <1>1, <1>2, NextRevision DEF Inv
  <2>2. r.ts \in Nat /\ n.ts \in Nat /\ n.ts \in Timestamps /\ index.created_lower_bound \in Nat
    BY Types, RevisionTypes DEF Inv
  <2>3. n.id = r.id /\ r.ts < n.ts
    BY <2>1 DEF Replaces
  <2>4. n.ts > index.created_lower_bound
    BY <1>1, <2>2, <2>3 DEF IsCurrent
  <2> DEFINE z == NextRow(n, r)
  <2>5. z \in RowType
    BY <1>1, <2>2, RowOf DEF NextRow, Inv
  <2>6. z.id = x.id /\ z.value = x.value /\ z.ts = n.ts
    BY <1>1 DEF NextRow
  <2>7. IsUpdate(documents, n, z)
    BY <1>1, <2>1, <2>3 DEF IsUpdate, NextRow
  <2> HIDE DEF z
  <2>8. z \in rows \/ \A y \in rows : y.id = z.id /\ y.value = z.value => z.ts < y.ts
    BY <2>4, <2>5, <2>7 DEF Inv, UpdatesInv
  <2>9. z \notin rows
    BY <1>1, <2>1, <2>2, <2>3, <2>6
  <2>10. z.ts < x.ts
    BY <2>6, <2>8, <2>9
  <2> QED
    BY <1>1, <2>2, <2>3, <2>6, <2>10
<1> QED
  BY <1>1, <1>2

LEMMA InvReadable ==
  ASSUME Inv
  PROVE  BackfilledReadable
<1> DEFINE S == {progress.snapshot_ts, min_snapshot}
<1>1. progress.snapshot_ts \in Nat /\ min_snapshot \in Nat /\ latest_ts \in Nat
  BY Types DEF Inv
<1>2. Max(S) \in Nat /\ progress.snapshot_ts <= Max(S) /\ min_snapshot <= Max(S)
  <2>1. S \in SUBSET Nat /\ S # {} /\ \A x \in S : x <= progress.snapshot_ts + min_snapshot
    BY <1>1
  <2>2. progress.snapshot_ts + min_snapshot \in Nat
    BY <1>1
  <2>3. Max(S) \in S /\ \A x \in S : x <= Max(S)
    BY <2>1, <2>2, MaxIsGreatest
  <2> QED
    BY <1>1, <2>3
<1> SUFFICES ASSUME index.state = "backfilled", NEW ts \in Max(S)..latest_ts
             PROVE  IndexAt(ts) = DocumentsAt(ts)
  BY DEF BackfilledReadable
<1> HIDE DEF S
<1>3. ts \in Nat /\ progress.snapshot_ts <= ts /\ min_snapshot <= ts
  BY <1>1, <1>2
<1> DEFINE live == {q \in documents : IsCurrent(documents, q, ts) /\ q.value # Deleted}
           seen == {x \in rows : x.ts <= ts /\ ~x.deleted /\
                      \A y \in rows : y.id = x.id /\ y.value = x.value /\ y.ts <= ts => y.ts <= x.ts}
<1>4. DocumentsAt(ts) = {<<r.id, r.value>> : r \in live}
  <2>1. \A q \in documents : q.id \in Ids
    BY Types, RevisionTypes DEF Inv
  <2>2. UNION {Current(id, ts) : id \in Ids} = {q \in documents : IsCurrent(documents, q, ts)}
    BY <2>1, CurrentIs
  <2>3. {q \in UNION {Current(id, ts) : id \in Ids} : q.value # Deleted} = live
    BY <2>2
  <2> QED
    BY <2>3 DEF DocumentsAt
<1>5. IndexAt(ts) = {<<x.id, x.value>> : x \in seen}
  BY DEF IndexAt
<1>6. ASSUME NEW r \in live
      PROVE  copy_row(r) \in seen /\ copy_row(r).id = r.id /\ copy_row(r).value = r.value
  <2> DEFINE x == copy_row(r)
  <2>1. x \in rows
    BY <1>3, LiveHasRow
  <2>2. x.id = r.id /\ x.value = r.value /\ x.ts = r.ts /\ ~x.deleted
    BY DEF copy_row
  <2>3. r.ts <= ts
    BY DEF IsCurrent
  <2>4. ASSUME NEW y \in rows, y.id = x.id, y.ts <= ts
        PROVE  y.ts <= x.ts
    <3>1. PICK n \in documents : n.id = y.id /\ n.ts = y.ts
      BY RowSource
    <3> QED
      BY <2>2, <2>4, <3>1 DEF IsCurrent
  <2> HIDE DEF x
  <2> QED
    BY <2>1, <2>2, <2>3, <2>4 DEF x
<1>7. ASSUME NEW x \in seen
      PROVE  \E r \in live : r.id = x.id /\ r.value = x.value
  BY <1>3, SeenIsCurrent
<1> HIDE DEF live, seen
<1> QED
  BY <1>4, <1>5, <1>6, <1>7

\* Nothing in the index is old enough to have expired before the index was
\* added, so that starting from there is enough.
LEMMA InvOwnRetention ==
  ASSUME Inv
  PROVE  OwnRetentionComplete
<1> SUFFICES ASSUME task.step = "delete", Purged(task.begin_ts, task.min_ts),
                    NEW x \in rows, Expired(documents, 0, task.min_ts, x)
             PROVE  FALSE
  BY PurgedIs DEF OwnRetentionComplete, Inv
<1>1. task.begin_ts = index.created_lower_bound /\ index.created_lower_bound \in Nat
  BY Types DEF Inv, PhaseInv
<1>2. PICK n \in documents, p \in documents :
        /\ Replaces(documents, n, p) /\ n.ts < task.min_ts
        /\ x.id = p.id /\ x.value = p.value
        /\ x.ts <= p.ts \/ (p.value # n.value /\ x.ts <= n.ts)
  BY DEF Expired
<1>3. n.ts \in Nat /\ p.ts \in Nat /\ n.id = p.id /\ p.ts < n.ts /\ x.ts \in Nat
  BY <1>2, Types, RevisionTypes, RowTypes DEF Inv, Replaces
<1>4. ~Expired(documents, task.begin_ts, task.min_ts, x)
  BY PurgedIs DEF Inv
<1>5. n.ts < index.created_lower_bound
  BY <1>1, <1>2, <1>3, <1>4 DEF Expired
<1>6. PICK m \in documents :
        /\ m.id = x.id /\ m.ts = x.ts
        /\ m.ts > index.created_lower_bound
           \/ (IsCurrent(documents, m, index.created_lower_bound) /\ x = copy_row(m))
  BY RowSource
<1>7. IsCurrent(documents, m, index.created_lower_bound) /\ x = copy_row(m)
  BY <1>1, <1>2, <1>3, <1>5, <1>6
<1>8. n.ts <= m.ts
  BY <1>1, <1>2, <1>3, <1>5, <1>6, <1>7 DEF IsCurrent
<1>9. m = n /\ p.value # n.value
  <2>1. x.ts = n.ts /\ p.value # n.value
    BY <1>2, <1>3, <1>6, <1>8
  <2> QED
    BY <1>2, <1>3, <1>6, <2>1 DEF Inv, DocumentsInv
<1> QED
  BY <1>2, <1>7, <1>9 DEF copy_row

-----------------------------------------------------------------------------
(* What steps do to the rows.                                              *)

LEMMA ExpiredGrows ==
  ASSUME NEW docs, NEW docs2, docs \subseteq docs2,
         \A n, p \in docs : Replaces(docs, n, p) => Replaces(docs2, n, p),
         \A n \in docs : n.ts \in Nat,
         NEW from \in Nat, NEW to \in Nat, NEW to2 \in Nat, to <= to2, NEW x,
         Expired(docs, from, to, x)
  PROVE  Expired(docs2, 0, to2, x)
<1>1. PICK n \in docs, p \in docs :
        /\ Replaces(docs, n, p) /\ from <= n.ts /\ n.ts < to
        /\ x.id = p.id /\ x.value = p.value
        /\ x.ts <= p.ts \/ (p.value # n.value /\ x.ts <= n.ts)
  BY DEF Expired
<1>2. n.ts \in Nat /\ 0 <= n.ts /\ n.ts < to2
  BY <1>1
<1> QED
  BY <1>1, <1>2 DEF Expired

\* Steps that leave the rows alone.
LEMMA KeepRows ==
  ASSUME Inv, documents' = documents, rows' = rows,
         min_snapshot' \in Nat, min_snapshot <= min_snapshot',
         index'.created_lower_bound = index.created_lower_bound,
         (index'.state = "none") <=> (index.state = "none"),
         index.retention_started => index'.retention_started
  PROVE  /\ RowsInv' /\ UpdatesInv'
         /\ \A id, ts : Covered(id, ts) => Covered(id, ts)'
<1>1. \A n \in documents : n.ts \in Nat
  BY Types, RevisionTypes DEF Inv
<1>2. ASSUME NEW x, Expired(documents, 0, min_snapshot, x)
      PROVE  Expired(documents, 0, min_snapshot', x)
  BY <1>1, <1>2, Types, ExpiredGrows DEF Inv
<1>3. RowsInv'
  BY DEF RowsInv, Inv, copy_row
<1>4. UpdatesInv'
  BY <1>2 DEF UpdatesInv, Inv
<1>5. ASSUME NEW id, NEW ts, Covered(id, ts)
      PROVE  Covered(id, ts)'
  BY <1>2, <1>5 DEF Covered, copy_row
<1> QED
  BY <1>3, <1>4, <1>5

\* Deleting an entry that expired before the minimum snapshot.
LEMMA DeleteRows ==
  ASSUME Inv, NEW from \in Nat, NEW to \in Nat, to <= min_snapshot,
         NEW e \in expired_index_entries(from, to), index.retention_started,
         documents' = documents, rows' = rows \ ExpiredRows({e}),
         min_snapshot' = min_snapshot, index' = index
  PROVE  /\ RowsInv' /\ UpdatesInv'
         /\ \A id, ts : Covered(id, ts) => Covered(id, ts)'
<1>1. \A n \in documents : n.ts \in Nat
  BY Types, RevisionTypes DEF Inv
<1>2. ASSUME NEW x \in ExpiredRows({e})
      PROVE  Expired(documents, 0, min_snapshot, x)
  <2>1. Expired(documents, from, to, x)
    BY EntryDeletes DEF Inv
  <2> QED
    BY <1>1, <2>1, Types, ExpiredGrows DEF Inv
<1>3. RowsInv'
  <2>1. rows' \subseteq rows
    OBVIOUS
  <2> QED
    BY <2>1 DEF RowsInv, Inv, copy_row
<1>4. ASSUME NEW x \in ExpiredRows({e}), NEW y \in rows',
             y.id = x.id, y.value = x.value
      PROVE  x.ts < y.ts
  <2>1. e[3] \in Nat
    <3>1. PICK n \in documents, p \in documents :
            e = <<n.id, p.value, p.ts>> \/ e = <<n.id, p.value, n.ts>>
      BY EntryIs DEF Inv
    <3> QED
      BY <1>1, <3>1
  <2>2. x \in rows /\ e[1] = x.id /\ e[2] = x.value /\ x.ts <= e[3]
    BY DEF ExpiredRows
  <2>3. y \in rows /\ ~(e[1] = y.id /\ e[2] = y.value /\ y.ts <= e[3])
    BY DEF ExpiredRows
  <2>4. x.ts \in Nat /\ y.ts \in Nat
    BY <2>2, <2>3, Types, RowTypes DEF Inv
  <2> QED
    BY <1>4, <2>1, <2>2, <2>3, <2>4
<1>5. UpdatesInv'
  <2> SUFFICES ASSUME index.state # "none", NEW n \in documents, NEW x \in RowType,
                      n.ts > index.created_lower_bound, IsUpdate(documents, n, x),
                      x \notin rows'
               PROVE  /\ Expired(documents, 0, min_snapshot, x)
                      /\ \A y \in rows' : y.id = x.id /\ y.value = x.value => x.ts < y.ts
    BY DEF UpdatesInv
  <2>1. CASE x \in rows
    BY <1>2, <1>4, <2>1
  <2>2. CASE x \notin rows
    BY <2>2 DEF UpdatesInv, Inv
  <2> QED
    BY <2>1, <2>2
<1>6. ASSUME NEW id, NEW ts, Covered(id, ts)
      PROVE  Covered(id, ts)'
  <2> SUFFICES ASSUME NEW r \in documents, r.id = id, IsCurrent(documents, r, ts),
                      r.value # Deleted, r.ts <= index.created_lower_bound,
                      copy_row(r) \notin rows'
               PROVE  Expired(documents, 0, min_snapshot, copy_row(r))
    BY DEF Covered, copy_row
  <2>1. copy_row(r) \in rows \/ Expired(documents, 0, min_snapshot, copy_row(r))
    BY <1>6 DEF Covered
  <2> QED
    BY <1>2, <2>1
<1> QED
  BY <1>3, <1>5, <1>6

\* A commit leaves the past alone.
LEMMA CommitKeeps ==
  ASSUME Inv, NEW rev, documents' = documents \cup {rev}, rev.ts = latest_ts + 1
  PROVE  /\ \A r \in documents, ts \in Nat : ts <= latest_ts =>
              (IsCurrent(documents', r, ts) <=> IsCurrent(documents, r, ts))
         /\ \A n, p \in documents : Replaces(documents', n, p) <=> Replaces(documents, n, p)
         /\ \A n \in documents, x \in RowType : IsUpdate(documents', n, x) <=> IsUpdate(documents, n, x)
         /\ \A p \in documents :
              Replaces(documents', rev, p) <=> /\ p.id = rev.id /\ p.value # Deleted
                                               /\ IsCurrent(documents, p, latest_ts)
         /\ \A n \in documents' : ~Replaces(documents', n, rev)
<1>1. latest_ts \in Nat /\ \A q \in documents : q.ts \in Nat /\ q.ts <= latest_ts
  BY Types, RevisionTypes DEF Inv, DocumentsInv
<1>2. \A r \in documents, ts \in Nat : ts <= latest_ts =>
        (IsCurrent(documents', r, ts) <=> IsCurrent(documents, r, ts))
  BY <1>1 DEF IsCurrent
<1>3. \A n, p \in documents : Replaces(documents', n, p) <=> Replaces(documents, n, p)
  BY <1>1 DEF Replaces
<1>4. \A n \in documents' : ~Replaces(documents', n, rev)
  BY <1>1 DEF Replaces
<1>5. \A n \in documents, x \in RowType : IsUpdate(documents', n, x) <=> IsUpdate(documents, n, x)
  BY <1>3, <1>4 DEF IsUpdate
<1>6. ASSUME NEW p \in documents
      PROVE  Replaces(documents', rev, p) <=> /\ p.id = rev.id /\ p.value # Deleted
                                              /\ IsCurrent(documents, p, latest_ts)
  <2>1. p.ts \in Nat /\ p.ts <= latest_ts /\ p.ts < rev.ts
    BY <1>1
  <2>2. \A q \in documents : (p.ts < q.ts => rev.ts <= q.ts) <=> q.ts <= p.ts
    BY <1>1, <2>1
  <2> QED
    BY <1>1, <2>1, <2>2 DEF Replaces, IsCurrent
<1> QED
  BY <1>2, <1>3, <1>4, <1>5, <1>6

-----------------------------------------------------------------------------
(* The steps.                                                              *)

\* The documents that are not to be copied are covered.
LEMMA NotToCopy ==
  ASSUME Inv, task.step = "copy", NEW id \in Ids, id \notin ToCopy
  PROVE  Covered(id, progress.snapshot_ts)
<1>1. task.snapshot_ts = progress.snapshot_ts
  BY DEF Inv, PhaseInv
<1>2. CASE id <= task.cursor \/ id \in task.written
  BY <1>2 DEF Inv, CoverInv, Reached
<1>3. CASE ~(id <= task.cursor \/ id \in task.written)
  <2>1. ASSUME NEW r \in documents, r.id = id, IsCurrent(documents, r, task.snapshot_ts),
               r.value # Deleted
        PROVE  FALSE
    <3>1. r \in Current(id, task.snapshot_ts)
      BY <2>1, CurrentIs
    <3>2. <<id, r.value>> \in DocumentsAt(task.snapshot_ts)
      BY <2>1, <3>1 DEF DocumentsAt
    <3>3. id > task.cursor
      BY <1>3, WorkerTypes DEF Inv, Ids
    <3>4. <<id, r.value>>[1] = id
      OBVIOUS
    <3> QED
      BY <1>3, <3>2, <3>3, <3>4 DEF ToCopy
  <2> QED
    BY <1>1, <2>1 DEF Covered
<1> QED
  BY <1>2, <1>3

\* What is covered in one snapshot is covered in a later one.
LEMMA CoveredLater ==
  ASSUME Inv, NEW id, NEW s \in Nat, NEW s2 \in Nat, s <= s2,
         index.created_lower_bound <= s, Covered(id, s)
  PROVE  Covered(id, s2)
<1>1. \A r \in documents : r.ts \in Nat
  BY Types, RevisionTypes DEF Inv
<1>2. index.created_lower_bound \in Nat
  BY Types DEF Inv
<1>3. \A r \in documents : r.ts <= index.created_lower_bound /\ IsCurrent(documents, r, s2)
        => IsCurrent(documents, r, s)
  BY <1>1, <1>2 DEF IsCurrent
<1> QED
  BY <1>3 DEF Covered

\* Steps that touch neither documents nor rows.
LEMMA QuietStep ==
  ASSUME Inv, documents' = documents, rows' = rows,
         latest_ts' \in Nat, latest_ts <= latest_ts',
         min_snapshot' \in Nat, min_snapshot <= min_snapshot',
         index'.created_lower_bound = index.created_lower_bound,
         (index'.state = "none") <=> (index.state = "none"),
         index.retention_started => index'.retention_started,
         \A id \in Ids : Reached(id)' => Covered(id, progress'.snapshot_ts)
  PROVE  DocumentsInv' /\ RowsInv' /\ UpdatesInv' /\ CoverInv'
<1>1. RowsInv' /\ UpdatesInv' /\ \A id, ts : Covered(id, ts) => Covered(id, ts)'
  BY KeepRows
<1>2. CoverInv'
  BY <1>1 DEF CoverInv
<1>3. DocumentsInv'
  <2>1. \A r \in documents : r.ts \in Nat
    BY Types, RevisionTypes DEF Inv
  <2> QED
    BY <2>1, Types DEF Inv, DocumentsInv
<1> QED
  BY <1>1, <1>2, <1>3

LEMMA CommitStep ==
  ASSUME Inv, NEW id \in Ids, NEW value \in 0..NumValues, Commit(id, value)
  PROVE  Inv'
<1> DEFINE prev == Current(id, latest_ts)
           rev == [id |-> id, ts |-> commit_ts, value |-> value]
<1>1. /\ documents' = documents \cup {rev} /\ latest_ts' = latest_ts + 1
      /\ rows' = IF index.state = "none" THEN rows ELSE rows \cup index_updates(rev, prev)
      /\ \A p \in prev : p.value # Deleted
      /\ repeatable_ts' = repeatable_ts /\ index' = index /\ progress' = progress
      /\ min_snapshot' = min_snapshot /\ deleter' = deleter /\ task' = task
      /\ channel' = channel /\ failures' = failures /\ latest_ts + 1 <= MaxTs
  BY DEF Commit, commit_ts, retentionVars
<1>2. rev.id = id /\ rev.ts = latest_ts + 1 /\ rev.value = value
  BY DEF commit_ts
<1>3. /\ latest_ts \in Nat /\ index.created_lower_bound \in Nat /\ documents \subseteq Revisions
      /\ progress.snapshot_ts \in Nat /\ min_snapshot \in Nat /\ rows \subseteq RowType
      /\ progress.snapshot_ts <= latest_ts /\ index.created_lower_bound <= latest_ts
      /\ latest_ts + 1 \in Timestamps /\ repeatable_ts \in Nat /\ repeatable_ts <= latest_ts
  <2>1. latest_ts \in Nat
    BY Types DEF Inv
  <2> QED
    BY <1>1, <2>1, Types DEF Inv, TimeInv, Timestamps
<1>4. \A q \in documents : q.ts \in Nat /\ q.ts <= latest_ts
  BY <1>3, RevisionTypes DEF Inv, DocumentsInv
<1>5. /\ \A r \in documents, ts \in Nat : ts <= latest_ts =>
           (IsCurrent(documents', r, ts) <=> IsCurrent(documents, r, ts))
      /\ \A n, p \in documents : Replaces(documents', n, p) <=> Replaces(documents, n, p)
      /\ \A n \in documents, x \in RowType : IsUpdate(documents', n, x) <=> IsUpdate(documents, n, x)
      /\ \A p \in documents :
           Replaces(documents', rev, p) <=> /\ p.id = rev.id /\ p.value # Deleted
                                            /\ IsCurrent(documents, p, latest_ts)
      /\ \A n \in documents' : ~Replaces(documents', n, rev)
  BY <1>1, <1>2, CommitKeeps
<1>6. \A p : p \in prev <=> p \in documents /\ Replaces(documents', rev, p)
  BY <1>1, <1>2, <1>5, CurrentIs
<1>7. rev \in Revisions
  BY <1>2, <1>3 DEF Revisions, commit_ts
<1> HIDE DEF rev, prev
\* The rows written are those of the revision.
<1>8. index_updates(rev, prev) \subseteq RowType
  <2>1. ASSUME NEW p \in prev PROVE p.value \in 1..NumValues
    <3>1. p \in documents /\ p.value # Deleted
      BY <1>1, <1>6
    <3> QED
      BY <1>3, <3>1, RevisionTypes DEF Deleted
  <2>2. {rev.value} \ {Deleted} \subseteq 1..NumValues
    BY <1>2 DEF Deleted
  <2> SUFFICES ASSUME NEW x \in index_updates(rev, prev)
               PROVE  x \in RowType
    OBVIOUS
  <2>3. CASE \E p \in prev : x = [id |-> rev.id, value |-> p.value, ts |-> rev.ts, deleted |-> TRUE]
    <3>1. PICK p \in prev : x = [id |-> rev.id, value |-> p.value, ts |-> rev.ts, deleted |-> TRUE]
      BY <2>3
    <3> QED
      BY <1>2, <1>3, <2>1, <3>1 DEF RowType
  <2>4. CASE \E v \in {rev.value} \ {Deleted} :
               x = [id |-> rev.id, value |-> v, ts |-> rev.ts, deleted |-> FALSE]
    <3>1. PICK v \in {rev.value} \ {Deleted} :
            x = [id |-> rev.id, value |-> v, ts |-> rev.ts, deleted |-> FALSE]
      BY <2>4
    <3>2. v \in 1..NumValues
      BY <2>2
    <3> QED
      BY <1>2, <1>3, <3>1, <3>2 DEF RowType
  <2> QED
    BY <2>3, <2>4 DEF index_updates
<1>9. \A x \in RowType : x \in index_updates(rev, prev) <=> IsUpdate(documents', rev, x)
  <2> SUFFICES ASSUME NEW x \in RowType
               PROVE  x \in index_updates(rev, prev) <=> IsUpdate(documents', rev, x)
    OBVIOUS
  <2>1. ASSUME x \in index_updates(rev, prev) PROVE IsUpdate(documents', rev, x)
    <3>1. CASE \E p \in prev : p.value # rev.value /\
                 x = [id |-> rev.id, value |-> p.value, ts |-> rev.ts, deleted |-> TRUE]
      <4>1. PICK p \in prev : p.value # rev.value /\
              x = [id |-> rev.id, value |-> p.value, ts |-> rev.ts, deleted |-> TRUE]
        BY <3>1
      <4>2. p \in documents' /\ Replaces(documents', rev, p)
        BY <1>1, <1>6
      <4>3. x.id = rev.id /\ x.ts = rev.ts /\ x.deleted /\ x.value = p.value
        BY <4>1
      <4> QED
        BY <4>1, <4>2, <4>3 DEF IsUpdate
    <3>2. CASE rev.value # Deleted /\
                 x = [id |-> rev.id, value |-> rev.value, ts |-> rev.ts, deleted |-> FALSE]
      BY <3>2 DEF IsUpdate
    <3> QED
      BY <2>1, <3>1, <3>2 DEF index_updates
  <2>2. ASSUME IsUpdate(documents', rev, x) PROVE x \in index_updates(rev, prev)
    <3>1. x = [id |-> x.id, value |-> x.value, ts |-> x.ts, deleted |-> x.deleted]
          /\ x.deleted \in BOOLEAN
      BY DEF RowType
    <3>2. CASE x.deleted
      <4>1. PICK p \in documents' : Replaces(documents', rev, p) /\ p.value # rev.value /\ x.value = p.value
        BY <2>2, <3>2 DEF IsUpdate
      <4>2. p \in prev
        BY <1>1, <1>5, <1>6, <4>1
      <4>3. x = [id |-> rev.id, value |-> p.value, ts |-> rev.ts, deleted |-> TRUE]
        BY <2>2, <3>1, <3>2, <4>1 DEF IsUpdate
      <4> QED
        BY <4>1, <4>2, <4>3 DEF index_updates
    <3>3. CASE ~x.deleted
      <4>1. x = [id |-> rev.id, value |-> rev.value, ts |-> rev.ts, deleted |-> FALSE]
            /\ rev.value # Deleted
        BY <2>2, <3>1, <3>3 DEF IsUpdate
      <4> QED
        BY <4>1 DEF index_updates
    <3> QED
      BY <3>2, <3>3
  <2> QED
    BY <2>1, <2>2
<1>10. ASSUME NEW x, Expired(documents, 0, min_snapshot, x)
       PROVE  Expired(documents', 0, min_snapshot, x)
  <2>1. PICK n \in documents, p \in documents :
          /\ Replaces(documents, n, p) /\ 0 <= n.ts /\ n.ts < min_snapshot
          /\ x.id = p.id /\ x.value = p.value
          /\ x.ts <= p.ts \/ (p.value # n.value /\ x.ts <= n.ts)
    BY <1>10 DEF Expired
  <2>2. n \in documents' /\ p \in documents' /\ Replaces(documents', n, p)
    BY <1>1, <1>5, <2>1
  <2> QED
    BY <2>1, <2>2 DEF Expired
<1>11. TypeOK'
  <2>1. documents' \subseteq Revisions
    BY <1>1, <1>3, <1>7
  <2>2. rows' \subseteq RowType
    BY <1>1, <1>3, <1>8
  <2> QED
    BY <1>1, <1>3, <2>1, <2>2 DEF Inv, TypeOK, RowType
<1>12. DocumentsInv'
  BY <1>1, <1>2, <1>3, <1>4 DEF Inv, DocumentsInv
<1>13. TimeInv'
  <2>1. latest_ts <= latest_ts' /\ latest_ts' \in Nat /\ task.snapshot_ts \in Nat
    BY <1>1, <1>3, WorkerTypes DEF Inv
  <2> QED
    BY <1>1, <1>3, <2>1 DEF Inv, TimeInv
<1>14. PhaseInv'
  BY <1>1 DEF Inv, PhaseInv
<1>15. CASE index.state = "none"
  <2>1. rows' = {} /\ ~index.retention_started /\ task.step = "idle" /\ channel = <<>>
        /\ progress.cursor = 0
    BY <1>1, <1>15 DEF Inv, PhaseInv
  <2>2. RowsInv' /\ UpdatesInv'
    BY <1>1, <1>15, <2>1 DEF RowsInv, UpdatesInv
  <2>3. ASSUME NEW i \in Ids PROVE ~Reached(i)'
    <3>1. i \in Nat /\ 1 <= i
      BY DEF Ids
    <3> QED
      BY <1>1, <2>1, <3>1 DEF Reached
  <2>4. CoverInv'
    BY <2>3 DEF CoverInv
  <2> QED
    BY <1>11, <1>12, <1>13, <1>14, <2>2, <2>4 DEF Inv
<1>16. CASE index.state # "none"
  <2>1. rows' = rows \cup index_updates(rev, prev)
    BY <1>1, <1>16
  <2>2. RowsInv'
    <3> SUFFICES ASSUME NEW x \in rows'
                 PROVE  \E n \in documents' :
                          \/ n.ts > index.created_lower_bound /\ IsUpdate(documents', n, x)
                          \/ /\ IsCurrent(documents', n, index.created_lower_bound) /\ n.value # Deleted
                             /\ x = copy_row(n)
      BY <1>1 DEF RowsInv, copy_row
    <3>1. CASE x \in rows
      <4>1. PICK n \in documents :
              \/ n.ts > index.created_lower_bound /\ IsUpdate(documents, n, x)
              \/ /\ IsCurrent(documents, n, index.created_lower_bound) /\ n.value # Deleted
                 /\ x = copy_row(n)
        BY <3>1 DEF Inv, RowsInv
      <4> QED
        BY <1>1, <1>3, <1>5, <3>1, <4>1
    <3>2. CASE x \in index_updates(rev, prev)
      <4>1. IsUpdate(documents', rev, x)
        BY <1>8, <1>9, <3>2
      <4>2. rev \in documents' /\ rev.ts > index.created_lower_bound
        BY <1>1, <1>2, <1>3
      <4> QED
        BY <4>1, <4>2
    <3> QED
      BY <2>1, <3>1, <3>2
  <2>3. UpdatesInv'
    <3> SUFFICES ASSUME NEW n \in documents', NEW x \in RowType,
                        n.ts > index.created_lower_bound, IsUpdate(documents', n, x), x \notin rows'
                 PROVE  /\ index.retention_started /\ Expired(documents', 0, min_snapshot, x)
                        /\ \A y \in rows' : y.id = x.id /\ y.value = x.value => x.ts < y.ts
      BY <1>1 DEF UpdatesInv
    <3>1. n \in documents
      BY <1>1, <1>9, <2>1
    <3>2. /\ index.retention_started /\ Expired(documents, 0, min_snapshot, x)
          /\ \A y \in rows : y.id = x.id /\ y.value = x.value => x.ts < y.ts
      BY <1>5, <1>16, <2>1, <3>1 DEF Inv, UpdatesInv
    <3>3. ASSUME NEW y \in index_updates(rev, prev) PROVE x.ts < y.ts
      <4>1. y.ts = rev.ts
        BY DEF index_updates
      <4>2. x.ts = n.ts
        BY DEF IsUpdate
      <4> QED
        BY <1>2, <1>3, <1>4, <3>1, <4>1, <4>2
    <3> QED
      BY <1>10, <2>1, <3>2, <3>3
  <2>4. ASSUME NEW i, Covered(i, progress.snapshot_ts)
        PROVE  Covered(i, progress.snapshot_ts)'
    <3> SUFFICES ASSUME NEW r \in documents', r.id = i,
                        IsCurrent(documents', r, progress.snapshot_ts), r.value # Deleted,
                        r.ts <= index.created_lower_bound
                 PROVE  \/ copy_row(r) \in rows'
                        \/ index.retention_started /\ Expired(documents', 0, min_snapshot, copy_row(r))
      BY <1>1 DEF Covered, copy_row
    <3>1. r \in documents
      BY <1>1, <1>2, <1>3
    <3>2. IsCurrent(documents, r, progress.snapshot_ts)
      BY <1>3, <1>5, <3>1
    <3> QED
      BY <1>10, <2>1, <2>4, <3>1, <3>2 DEF Covered
  <2>5. CoverInv'
    <3>1. \A i \in Ids : Reached(i)' <=> Reached(i)
      BY <1>1 DEF Reached
    <3> QED
      BY <2>4, <3>1 DEF Inv, CoverInv
  <2> QED
    BY <1>11, <1>12, <1>13, <1>14, <2>2, <2>3, <2>5 DEF Inv
<1> QED
  BY <1>15, <1>16

LEMMA MetadataTypes ==
  ASSUME Inv, MetadataCommit
  PROVE  /\ documents' = documents /\ repeatable_ts' = repeatable_ts
         /\ latest_ts' = latest_ts + 1 /\ latest_ts' \in Timestamps /\ latest_ts' \in Nat
         /\ latest_ts \in Nat /\ latest_ts <= latest_ts'
<1>1. latest_ts \in Nat
  BY Types DEF Inv
<1> QED
  BY <1>1 DEF MetadataCommit, commit_ts, Timestamps

LEMMA AddIndexStep ==
  ASSUME Inv, AddIndex
  PROVE  Inv'
<1>1. /\ index.state = "none" /\ MetadataCommit
      /\ index' = [index EXCEPT !.state = "backfilling", !.created_lower_bound = latest_ts]
      /\ rows' = rows /\ progress' = progress /\ min_snapshot' = min_snapshot
      /\ deleter' = deleter /\ task' = task /\ channel' = channel /\ failures' = failures
  BY DEF AddIndex, retentionVars
<1>2. /\ documents' = documents /\ repeatable_ts' = repeatable_ts
      /\ latest_ts' = latest_ts + 1 /\ latest_ts' \in Timestamps /\ latest_ts' \in Nat
      /\ latest_ts \in Nat /\ latest_ts <= latest_ts'
  BY <1>1, MetadataTypes
<1>3. /\ rows = {} /\ ~index.retention_started
      /\ task.step = "idle" /\ channel = <<>> /\ progress.cursor = 0
  BY <1>1 DEF Inv, PhaseInv
<1>4. /\ index'.created_lower_bound = latest_ts /\ index'.state = "backfilling"
      /\ index'.retention_started = index.retention_started
      /\ index' \in [state : {"none", "backfilling", "backfilled"}, created_lower_bound : Timestamps,
                     retention_started : BOOLEAN, started_ts : Timestamps]
  <2>1. latest_ts \in Timestamps
    BY Types DEF Inv
  <2> QED
    BY <1>1, <2>1 DEF Inv, TypeOK
<1>5. TypeOK'
  BY <1>1, <1>2, <1>4 DEF Inv, TypeOK
<1>6. DocumentsInv'
  <2>1. \A r \in documents : r.ts \in Nat
    BY Types, RevisionTypes DEF Inv
  <2> QED
    BY <1>2, <2>1 DEF Inv, DocumentsInv
<1>7. TimeInv'
  <2>1. /\ repeatable_ts \in Nat /\ progress.snapshot_ts \in Nat /\ task.snapshot_ts \in Nat
    BY Types, WorkerTypes DEF Inv
  <2> QED
    BY <1>1, <1>2, <1>4, <2>1 DEF Inv, TimeInv
<1>8. PhaseInv'
  BY <1>1, <1>3, <1>4 DEF Inv, PhaseInv
<1>9. RowsInv' /\ UpdatesInv'
  <2>1. \A n \in documents : n.ts \in Nat /\ ~(n.ts > latest_ts)
    BY <1>2, Types, RevisionTypes DEF Inv, DocumentsInv
  <2> QED
    BY <1>1, <1>2, <1>3, <1>4, <2>1 DEF RowsInv, UpdatesInv
<1>10. CoverInv'
  <2>1. ASSUME NEW i \in Ids PROVE ~Reached(i)'
    <3>1. i \in Nat /\ 1 <= i
      BY DEF Ids
    <3> QED
      BY <1>1, <1>3, <1>4, <3>1 DEF Reached
  <2> QED
    BY <2>1 DEF CoverInv
<1> QED
  BY <1>5, <1>6, <1>7, <1>8, <1>9, <1>10 DEF Inv

\* Steps of the repeatable and the minimum timestamp, and stuttering.
LEMMA ClockStep ==
  ASSUME Inv, documents' = documents, rows' = rows, index' = index, progress' = progress,
         latest_ts' = latest_ts, deleter' = deleter, task' = task, channel' = channel,
         failures' = failures, repeatable_ts' \in Timestamps, min_snapshot' \in Timestamps,
         min_snapshot <= min_snapshot', min_snapshot' <= repeatable_ts',
         repeatable_ts' <= latest_ts
  PROVE  Inv'
<1>1. min_snapshot' \in Nat /\ latest_ts' \in Nat /\ latest_ts <= latest_ts' /\ min_snapshot \in Nat
  BY Types DEF Inv, Timestamps
<1>2. TypeOK'
  BY DEF Inv, TypeOK
<1>3. TimeInv'
  <2>1. task.min_ts \in Nat /\ deleter.end \in Nat
    BY WorkerTypes DEF Inv
  <2> QED
    BY <1>1, <2>1 DEF Inv, TimeInv
<1>4. PhaseInv'
  BY DEF Inv, PhaseInv
<1>5. \A id \in Ids : Reached(id)' => Covered(id, progress'.snapshot_ts)
  BY DEF Inv, CoverInv, Reached
<1>6. DocumentsInv' /\ RowsInv' /\ UpdatesInv' /\ CoverInv'
  BY <1>1, <1>5, QuietStep
<1> QED
  BY <1>2, <1>3, <1>4, <1>6 DEF Inv

LEMMA BumpStep ==
  ASSUME Inv, BumpRepeatable
  PROVE  Inv'
<1>1. /\ documents' = documents /\ rows' = rows /\ index' = index /\ progress' = progress
      /\ latest_ts' = latest_ts /\ deleter' = deleter /\ task' = task /\ channel' = channel
      /\ failures' = failures /\ min_snapshot' = min_snapshot /\ repeatable_ts' = latest_ts
  BY DEF BumpRepeatable, retentionVars
<1>2. /\ latest_ts \in Timestamps /\ min_snapshot \in Timestamps /\ repeatable_ts \in Nat
      /\ latest_ts \in Nat /\ min_snapshot \in Nat
  BY Types DEF Inv
<1> QED
  BY <1>1, <1>2, ClockStep DEF Inv, TimeInv

LEMMA AdvanceStep ==
  ASSUME Inv, AdvanceMinSnapshot
  PROVE  Inv'
<1>1. /\ documents' = documents /\ rows' = rows /\ index' = index /\ progress' = progress
      /\ latest_ts' = latest_ts /\ deleter' = deleter /\ task' = task /\ channel' = channel
      /\ failures' = failures /\ repeatable_ts' = repeatable_ts
      /\ min_snapshot' = repeatable_ts - Delay /\ repeatable_ts >= Delay
      /\ min_snapshot < repeatable_ts - Delay
  BY DEF AdvanceMinSnapshot, storeVars
<1>2. /\ repeatable_ts \in Timestamps /\ repeatable_ts \in Nat /\ latest_ts \in Nat
      /\ min_snapshot \in Nat /\ Delay \in Nat
  BY Types DEF Inv
<1>3. min_snapshot' \in Timestamps /\ min_snapshot <= min_snapshot' /\ min_snapshot' <= repeatable_ts
  BY <1>1, <1>2 DEF Timestamps
<1> QED
  BY <1>1, <1>2, <1>3, ClockStep DEF Inv, TimeInv

LEMMA StutterStep ==
  ASSUME Inv, UNCHANGED vars
  PROVE  Inv'
<1>1. /\ documents' = documents /\ rows' = rows /\ index' = index /\ progress' = progress
      /\ latest_ts' = latest_ts /\ deleter' = deleter /\ task' = task /\ channel' = channel
      /\ failures' = failures /\ repeatable_ts' = repeatable_ts /\ min_snapshot' = min_snapshot
  BY DEF vars, storeVars, retentionVars
<1>2. /\ repeatable_ts \in Timestamps /\ min_snapshot \in Timestamps /\ min_snapshot \in Nat
  BY Types DEF Inv
<1> QED
  BY <1>1, <1>2, ClockStep DEF Inv, TimeInv

-----------------------------------------------------------------------------
(* The worker.                                                             *)

TaskType ==
  [step : {"idle", "initialize", "copy", "retention", "min", "delete", "finish"},
   snapshot_ts : Timestamps, written : SUBSET Ids, cursor : {0} \cup Ids,
   sent : {0} \cup Ids, begin_ts : Timestamps, min_ts : Timestamps]

\* A step of the task alone, or with the channel.
LEMMA TaskStep ==
  ASSUME Inv, documents' = documents, rows' = rows, index' = index, progress' = progress,
         latest_ts' = latest_ts, repeatable_ts' = repeatable_ts, min_snapshot' = min_snapshot,
         deleter' = deleter, task' \in TaskType, channel' \in Seq(Ids), failures' \in 0..MaxFailures,
         task'.snapshot_ts <= latest_ts, task'.min_ts <= min_snapshot,
         PhaseInv',
         \A id \in Ids : Reached(id)' => Covered(id, progress.snapshot_ts)
  PROVE  Inv'
<1>1. min_snapshot' \in Nat /\ latest_ts' \in Nat /\ latest_ts <= latest_ts' /\ min_snapshot <= min_snapshot'
  BY Types DEF Inv
<1>2. TypeOK'
  BY DEF Inv, TypeOK, TaskType
<1>3. TimeInv'
  BY DEF Inv, TimeInv
<1>4. DocumentsInv' /\ RowsInv' /\ UpdatesInv' /\ CoverInv'
  BY <1>1, QuietStep
<1> QED
  BY <1>2, <1>3, <1>4 DEF Inv

LEMMA NoTaskType ==
  /\ NoTask \in TaskType /\ NoTask.step = "idle" /\ NoTask.snapshot_ts = 0
  /\ NoTask.written = {} /\ NoTask.cursor = 0 /\ NoTask.min_ts = 0
<1>1. 0 \in Timestamps
  BY DEF Timestamps
<1> QED
  BY <1>1 DEF NoTask, TaskType

LEMMA StartTaskStep ==
  ASSUME Inv, StartTask
  PROVE  Inv'
<1>1. /\ task.step = "idle" /\ index.state = "backfilling"
      /\ documents' = documents /\ rows' = rows /\ index' = index /\ progress' = progress
      /\ latest_ts' = latest_ts /\ repeatable_ts' = repeatable_ts /\ min_snapshot' = min_snapshot
      /\ deleter' = deleter /\ channel' = channel /\ failures' = failures
      /\ task' =
           IF index.retention_started THEN [NoTask EXCEPT !.step = "retention"]
           ELSE IF progress.cursor # 0
             THEN [NoTask EXCEPT !.step = "copy", !.snapshot_ts = progress.snapshot_ts,
                                 !.cursor = progress.cursor, !.sent = progress.cursor]
           ELSE [NoTask EXCEPT !.step = "initialize", !.snapshot_ts = latest_ts]
  BY DEF StartTask, storeVars, retentionVars
<1>2. /\ latest_ts \in Timestamps /\ progress.snapshot_ts \in Timestamps
      /\ progress.cursor \in {0} \cup Ids /\ index.retention_started \in BOOLEAN
      /\ 0 \in Timestamps /\ latest_ts \in Nat /\ min_snapshot \in Nat
  BY Types DEF Inv, Timestamps
<1>3. /\ channel' \in Seq(Ids) /\ failures' \in 0..MaxFailures
  BY <1>1, WorkerTypes DEF Inv
<1>4. CASE index.retention_started
  <2>1. /\ task' \in TaskType /\ task'.step = "retention"
        /\ task'.snapshot_ts = 0 /\ task'.min_ts = 0
    BY <1>1, <1>2, <1>4 DEF NoTask, TaskType
  <2>2. PhaseInv'
    BY <1>1, <1>4, <2>1 DEF Inv, PhaseInv
  <2>3. \A id \in Ids : Reached(id)' => Covered(id, progress.snapshot_ts)
    BY <1>4 DEF Inv, CoverInv, Reached
  <2> QED
    BY <1>1, <1>2, <1>3, <2>1, <2>2, <2>3, TaskStep
<1>5. CASE ~index.retention_started /\ progress.cursor # 0
  <2>1. /\ task' \in TaskType /\ task'.step = "copy" /\ task'.snapshot_ts = progress.snapshot_ts
        /\ task'.cursor = progress.cursor /\ task'.written = {} /\ task'.min_ts = 0
    BY <1>1, <1>2, <1>5 DEF NoTask, TaskType
  <2>2. PhaseInv'
    BY <1>1, <1>2, <1>5, <2>1, Types DEF Inv, PhaseInv
  <2>3. \A id \in Ids : Reached(id)' => Covered(id, progress.snapshot_ts)
    BY <1>1, <2>1 DEF Inv, CoverInv, Reached
  <2>4. task'.snapshot_ts <= latest_ts
    BY <2>1 DEF Inv, TimeInv
  <2> QED
    BY <1>1, <1>2, <1>3, <2>1, <2>2, <2>3, <2>4, TaskStep
<1>6. CASE ~index.retention_started /\ progress.cursor = 0
  <2>1. /\ task' \in TaskType /\ task'.step = "initialize" /\ task'.snapshot_ts = latest_ts
        /\ task'.cursor = 0 /\ task'.written = {} /\ task'.min_ts = 0
    BY <1>1, <1>2, <1>6 DEF NoTask, TaskType
  <2>2. PhaseInv'
    BY <1>1, <1>2, <1>6, <2>1 DEF Inv, PhaseInv, TimeInv
  <2>3. \A id \in Ids : Reached(id)' => Covered(id, progress.snapshot_ts)
    BY <1>1, <2>1 DEF Inv, CoverInv, Reached
  <2> QED
    BY <1>1, <1>2, <1>3, <2>1, <2>2, <2>3, TaskStep
<1> QED
  BY <1>2, <1>4, <1>5, <1>6

\* A cursor reached in an older snapshot holds in the new one.
LEMMA InitializeStep ==
  ASSUME Inv, InitializeBackfill
  PROVE  Inv'
<1>1. /\ task.step = "initialize" /\ MetadataCommit
      /\ progress' = [snapshot_ts |-> task.snapshot_ts, cursor |-> 0]
      /\ task' = [task EXCEPT !.step = "copy"]
      /\ rows' = rows /\ index' = index /\ min_snapshot' = min_snapshot /\ deleter' = deleter
      /\ channel' = channel /\ failures' = failures
  BY DEF InitializeBackfill, retentionVars
<1>2. /\ documents' = documents /\ repeatable_ts' = repeatable_ts
      /\ latest_ts' = latest_ts + 1 /\ latest_ts' \in Timestamps /\ latest_ts' \in Nat
      /\ latest_ts \in Nat /\ latest_ts <= latest_ts'
  BY <1>1, MetadataTypes
<1>3. /\ task' \in TaskType /\ task'.step = "copy" /\ task'.snapshot_ts = task.snapshot_ts
      /\ task'.cursor = task.cursor /\ task'.written = task.written /\ task'.min_ts = task.min_ts
  BY <1>1 DEF Inv, TypeOK, TaskType
<1>4. /\ progress'.snapshot_ts = task.snapshot_ts /\ progress'.cursor = 0
      /\ progress' \in [snapshot_ts : Timestamps, cursor : {0} \cup Ids]
  BY <1>1, WorkerTypes DEF Inv
<1>5. /\ task.snapshot_ts \in Nat /\ min_snapshot \in Nat /\ repeatable_ts \in Nat
      /\ progress.snapshot_ts \in Nat /\ index.created_lower_bound \in Nat
  BY Types, WorkerTypes DEF Inv
<1>6. /\ ~index.retention_started /\ index.state # "none"
      /\ index.created_lower_bound <= task.snapshot_ts
      /\ progress.snapshot_ts <= task.snapshot_ts /\ task.cursor = 0 /\ task.written = {}
  BY <1>1 DEF Inv, PhaseInv
<1>7. TypeOK'
  BY <1>1, <1>2, <1>3, <1>4 DEF Inv, TypeOK, TaskType
<1>8. TimeInv'
  BY <1>1, <1>2, <1>3, <1>4, <1>5 DEF Inv, TimeInv
<1>9. PhaseInv'
  BY <1>1, <1>3, <1>4, <1>5, <1>6 DEF Inv, PhaseInv
<1>10. ASSUME NEW id \in Ids, Reached(id)'
       PROVE  Covered(id, progress'.snapshot_ts)
  <2>1. id \in Nat /\ 1 <= id
    BY DEF Ids
  <2>2. \E i \in DOMAIN channel : id <= channel[i]
    BY <1>1, <1>3, <1>4, <1>6, <1>10, <2>1 DEF Reached
  <2>3. channel # <<>>
    BY <2>2
  <2>4. Covered(id, progress.snapshot_ts) /\ index.created_lower_bound <= progress.snapshot_ts
    BY <2>2, <2>3 DEF Inv, CoverInv, Reached, PhaseInv
  <2> QED
    BY <1>4, <1>5, <1>6, <2>4, CoveredLater
<1>11. DocumentsInv' /\ RowsInv' /\ UpdatesInv' /\ CoverInv'
  BY <1>1, <1>2, <1>5, <1>10, QuietStep
<1> QED
  BY <1>7, <1>8, <1>9, <1>11 DEF Inv

\* A copied row is one the index should have.
LEMMA WriteChunkStep ==
  ASSUME Inv, NEW id \in Ids, WriteChunk(id)
  PROVE  Inv'
<1> DEFINE s == task.snapshot_ts
           added == {copy_row(r) : r \in Current(id, s)}
<1>1. /\ task.step = "copy" /\ id \in ToCopy
      /\ rows' = rows \cup added
      /\ task' = [task EXCEPT !.written = @ \cup {id}]
      /\ documents' = documents /\ latest_ts' = latest_ts /\ repeatable_ts' = repeatable_ts
      /\ index' = index /\ progress' = progress /\ min_snapshot' = min_snapshot
      /\ deleter' = deleter /\ channel' = channel /\ failures' = failures
  BY DEF WriteChunk, storeVars, retentionVars
<1>2. /\ ~index.retention_started /\ index.state # "none"
      /\ index.created_lower_bound <= s /\ s = progress.snapshot_ts
  BY <1>1 DEF Inv, PhaseInv
<1>3. /\ s \in Nat /\ index.created_lower_bound \in Nat /\ rows \subseteq RowType
      /\ \A q \in documents : q.ts \in Nat /\ q.ts \in Timestamps
  BY Types, WorkerTypes, RevisionTypes DEF Inv
<1>4. ASSUME NEW r \in documents, r.id = id, IsCurrent(documents, r, s)
      PROVE  r.value # Deleted
  <2>1. PICK d \in DocumentsAt(s) : d[1] = id
    BY <1>1 DEF ToCopy
  <2>2. PICK q \in UNION {Current(i, s) : i \in Ids} : q.value # Deleted /\ d = <<q.id, q.value>>
    BY <2>1 DEF DocumentsAt
  <2>3. q \in documents /\ IsCurrent(documents, q, s) /\ q.id = id
    BY <2>1, <2>2, CurrentIs
  <2>4. q.ts <= r.ts /\ r.ts <= q.ts
    BY <1>4, <2>3 DEF IsCurrent
  <2>5. q = r
    BY <1>3, <1>4, <2>3, <2>4 DEF Inv, DocumentsInv
  <2> QED
    BY <2>2, <2>5
<1>5. \A x : x \in added <=>
        \E r \in documents : r.id = id /\ IsCurrent(documents, r, s) /\ x = copy_row(r)
  BY CurrentIs
<1>6. added \subseteq RowType
  BY <1>3, <1>4, <1>5, RowOf DEF Inv
<1> HIDE DEF added
<1>7. /\ task' \in TaskType /\ task'.step = "copy" /\ task'.snapshot_ts = s
      /\ task'.cursor = task.cursor /\ task'.written = task.written \cup {id}
      /\ task'.min_ts = task.min_ts
  BY <1>1 DEF Inv, TypeOK, TaskType
<1>8. TypeOK'
  BY <1>1, <1>3, <1>6, <1>7 DEF Inv, TypeOK, RowType, TaskType
<1>9. DocumentsInv' /\ TimeInv'
  BY <1>1, <1>7 DEF Inv, DocumentsInv, TimeInv
<1>10. PhaseInv'
  BY <1>1, <1>2, <1>7 DEF Inv, PhaseInv
<1>11. RowsInv'
  <2> SUFFICES ASSUME NEW x \in rows'
               PROVE  \E n \in documents :
                        \/ n.ts > index.created_lower_bound /\ IsUpdate(documents, n, x)
                        \/ /\ IsCurrent(documents, n, index.created_lower_bound) /\ n.value # Deleted
                           /\ x = copy_row(n)
    BY <1>1 DEF RowsInv, copy_row
  <2>1. CASE x \in rows
    BY <2>1 DEF Inv, RowsInv
  <2>2. CASE x \in added
    <3>1. PICK r \in documents : r.id = id /\ IsCurrent(documents, r, s) /\ x = copy_row(r)
      BY <1>5, <2>2
    <3>2. r.value # Deleted
      BY <1>4, <3>1
    <3>3. CASE r.ts > index.created_lower_bound
      BY <3>1, <3>2, <3>3 DEF IsUpdate, copy_row
    <3>4. CASE r.ts <= index.created_lower_bound
      <4>1. IsCurrent(documents, r, index.created_lower_bound)
        BY <1>2, <1>3, <3>1, <3>4 DEF IsCurrent
      <4> QED
        BY <3>1, <3>2, <4>1
    <3> QED
      BY <1>3, <3>3, <3>4
  <2> QED
    BY <1>1, <2>1, <2>2
<1>12. UpdatesInv'
  BY <1>1, <1>2 DEF Inv, UpdatesInv
<1>13. CoverInv'
  <2>1. ASSUME NEW i, Covered(i, s)
        PROVE  Covered(i, progress.snapshot_ts)'
    BY <1>1, <1>2, <2>1 DEF Covered, copy_row
  <2>2. Covered(id, progress.snapshot_ts)'
    <3> SUFFICES ASSUME NEW r \in documents, r.id = id, IsCurrent(documents, r, s)
                 PROVE  copy_row(r) \in rows'
      BY <1>1, <1>2 DEF Covered, copy_row
    <3> QED
      BY <1>1, <1>5
  <2>3. \A i \in Ids : Reached(i)' => Reached(i) \/ i = id
    BY <1>1, <1>7 DEF Reached
  <2> QED
    BY <1>2, <2>1, <2>2, <2>3 DEF Inv, CoverInv
<1> QED
  BY <1>8, <1>9, <1>10, <1>11, <1>12, <1>13 DEF Inv

LEMMA SendStep ==
  ASSUME Inv, NEW id \in Ids, SendProgress(id)
  PROVE  Inv'
<1>1. /\ task.step = "copy" /\ reportable(id) /\ channel' = Append(channel, id)
      /\ task' = [task EXCEPT !.sent = id]
      /\ documents' = documents /\ latest_ts' = latest_ts /\ repeatable_ts' = repeatable_ts
      /\ rows' = rows /\ index' = index /\ progress' = progress /\ min_snapshot' = min_snapshot
      /\ deleter' = deleter /\ failures' = failures
  BY DEF SendProgress, storeVars, retentionVars
<1>2. /\ task' \in TaskType /\ task'.step = "copy" /\ task'.snapshot_ts = task.snapshot_ts
      /\ task'.cursor = task.cursor /\ task'.written = task.written /\ task'.min_ts = task.min_ts
  BY <1>1 DEF Inv, TypeOK, TaskType
<1>3. channel \in Seq(Ids) /\ channel' \in Seq(Ids) /\ failures \in 0..MaxFailures
  BY <1>1, WorkerTypes DEF Inv
<1>4. PhaseInv'
  BY <1>1, <1>2 DEF Inv, PhaseInv
<1>5. ASSUME NEW i \in Ids, Reached(i)'
      PROVE  Covered(i, progress.snapshot_ts)
  <2>1. CASE i <= id
    <3>1. i \notin ToCopy
      BY <1>1, <2>1 DEF reportable, Ids
    <3> QED
      BY <1>1, <3>1, NotToCopy
  <2>2. CASE ~(i <= id)
    <3>1. \A k \in DOMAIN channel' : channel'[k] = id \/ (k \in DOMAIN channel /\ channel'[k] = channel[k])
      BY <1>1, <1>3
    <3>2. Reached(i)
      BY <1>1, <1>2, <1>5, <2>2, <3>1 DEF Reached
    <3> QED
      BY <3>2 DEF Inv, CoverInv
  <2> QED
    BY <2>1, <2>2
<1> QED
  BY <1>1, <1>2, <1>3, <1>4, <1>5, TaskStep DEF Inv, TimeInv

LEMMA ReceiveStep ==
  ASSUME Inv, ReceiveProgress
  PROVE  Inv'
<1>1. /\ channel # <<>> /\ channel' = Tail(channel)
      /\ rows' = rows /\ index' = index /\ min_snapshot' = min_snapshot
      /\ deleter' = deleter /\ task' = task /\ failures' = failures
  BY DEF ReceiveProgress, retentionVars
<1>2. /\ channel \in Seq(Ids) /\ channel' \in Seq(Ids)
      /\ \A k \in DOMAIN channel' : k + 1 \in DOMAIN channel /\ channel'[k] = channel[k + 1]
      /\ 1 \in DOMAIN channel /\ Head(channel) = channel[1] /\ Head(channel) \in Ids
  BY <1>1, WorkerTypes DEF Inv
<1>3. index.created_lower_bound <= progress.snapshot_ts /\ index.state # "none"
  BY <1>1 DEF Inv, PhaseInv
<1>4. ASSUME progress'.snapshot_ts = progress.snapshot_ts,
             progress' \in [snapshot_ts : Timestamps, cursor : {0} \cup Ids],
             progress'.cursor \in {progress.cursor, Head(channel)},
             documents' = documents, repeatable_ts' = repeatable_ts,
             latest_ts' \in Timestamps, latest_ts <= latest_ts'
      PROVE  Inv'
  <2>1. latest_ts' \in Nat /\ latest_ts \in Nat /\ min_snapshot \in Nat /\ repeatable_ts \in Nat
        /\ progress.snapshot_ts \in Nat /\ index.created_lower_bound \in Nat
    BY <1>4, Types DEF Inv, Timestamps
  <2>2. TypeOK'
    BY <1>1, <1>2, <1>4 DEF Inv, TypeOK
  <2>3. TimeInv'
    <3>1. task.snapshot_ts \in Nat
      BY WorkerTypes DEF Inv
    <3> QED
      BY <1>1, <1>4, <2>1, <3>1 DEF Inv, TimeInv
  <2>4. PhaseInv'
    BY <1>1, <1>3, <1>4 DEF Inv, PhaseInv
  <2>5. \A id \in Ids : Reached(id)' => Reached(id)
    BY <1>1, <1>2, <1>4 DEF Reached
  <2>6. DocumentsInv' /\ RowsInv' /\ UpdatesInv' /\ CoverInv'
    BY <1>1, <1>4, <2>1, <2>5, QuietStep DEF Inv, CoverInv
  <2> QED
    BY <2>2, <2>3, <2>4, <2>6 DEF Inv
<1>5. CASE MetadataCommit /\ progress' = [progress EXCEPT !.cursor = Head(channel)]
  <2>1. /\ progress'.snapshot_ts = progress.snapshot_ts /\ progress'.cursor = Head(channel)
        /\ progress' \in [snapshot_ts : Timestamps, cursor : {0} \cup Ids]
    BY <1>2, <1>5 DEF Inv, TypeOK
  <2>2. /\ documents' = documents /\ repeatable_ts' = repeatable_ts
        /\ latest_ts' \in Timestamps /\ latest_ts <= latest_ts'
    BY <1>5, MetadataTypes
  <2> QED
    BY <1>4, <2>1, <2>2
<1>6. CASE UNCHANGED <<storeVars, progress>>
  <2>1. progress' = progress /\ documents' = documents /\ repeatable_ts' = repeatable_ts
        /\ latest_ts' = latest_ts
    BY <1>6 DEF storeVars
  <2>2. progress \in [snapshot_ts : Timestamps, cursor : {0} \cup Ids]
    BY DEF Inv, TypeOK
  <2>3. latest_ts \in Timestamps /\ latest_ts <= latest_ts
    BY Types DEF Inv
  <2> QED
    BY <1>4, <2>1, <2>2, <2>3
<1> QED
  BY <1>5, <1>6 DEF ReceiveProgress

\* All documents are covered when retention begins.
LEMMA BeginRetentionStep ==
  ASSUME Inv, BeginRetention
  PROVE  Inv'
<1>1. /\ (task.step = "copy" /\ ToCopy = {}) \/ task.step = "retention"
      /\ index.state = "backfilling" /\ MetadataCommit
      /\ index' = [index EXCEPT !.retention_started = TRUE, !.started_ts = commit_ts]
      /\ task' = [task EXCEPT !.step = "min", !.begin_ts = retention_begin]
      /\ rows' = rows /\ progress' = progress /\ min_snapshot' = min_snapshot
      /\ deleter' = deleter /\ channel' = channel /\ failures' = failures
  BY DEF BeginRetention, retentionVars
<1>2. /\ documents' = documents /\ repeatable_ts' = repeatable_ts
      /\ latest_ts' = latest_ts + 1 /\ latest_ts' \in Timestamps /\ latest_ts' \in Nat
      /\ latest_ts \in Nat /\ latest_ts <= latest_ts'
  BY <1>1, MetadataTypes
<1>3. /\ index'.created_lower_bound = index.created_lower_bound /\ index'.state = "backfilling"
      /\ index'.retention_started = TRUE
      /\ index' \in [state : {"none", "backfilling", "backfilled"}, created_lower_bound : Timestamps,
                     retention_started : BOOLEAN, started_ts : Timestamps]
  <2>1. commit_ts \in Timestamps
    BY <1>2 DEF commit_ts
  <2> QED
    BY <1>1, <2>1 DEF Inv, TypeOK
<1>4. /\ task' \in TaskType /\ task'.step = "min" /\ task'.snapshot_ts = task.snapshot_ts
      /\ task'.begin_ts = index.created_lower_bound /\ task'.min_ts = task.min_ts
  <2>1. index.created_lower_bound \in Timestamps
    BY Types DEF Inv
  <2> QED
    BY <1>1, <2>1 DEF Inv, TypeOK, TaskType, retention_begin
<1>5. index.created_lower_bound <= progress.snapshot_ts
  BY <1>1 DEF Inv, PhaseInv
<1>6. \A id \in Ids : Covered(id, progress.snapshot_ts)
  <2>1. CASE task.step = "copy" /\ ToCopy = {}
    BY <2>1, NotToCopy
  <2>2. CASE task.step = "retention"
    BY <2>2 DEF Inv, PhaseInv, CoverInv, Reached
  <2> QED
    BY <1>1, <2>1, <2>2
<1>7. TypeOK'
  BY <1>1, <1>2, <1>3, <1>4 DEF Inv, TypeOK, TaskType
<1>8. TimeInv'
  <2>1. /\ repeatable_ts \in Nat /\ progress.snapshot_ts \in Nat /\ task.snapshot_ts \in Nat
        /\ index.created_lower_bound \in Nat
    BY Types, WorkerTypes DEF Inv
  <2> QED
    BY <1>1, <1>2, <1>3, <1>4, <2>1 DEF Inv, TimeInv
<1>9. PhaseInv'
  BY <1>1, <1>3, <1>4, <1>5 DEF Inv, PhaseInv
<1>10. DocumentsInv' /\ RowsInv' /\ UpdatesInv' /\ CoverInv'
  <2>1. min_snapshot' \in Nat /\ min_snapshot <= min_snapshot'
    BY <1>1, Types DEF Inv
  <2> QED
    BY <1>1, <1>2, <1>3, <1>6, <2>1, QuietStep
<1> QED
  BY <1>7, <1>8, <1>9, <1>10 DEF Inv

LEMMA ReadMinStep ==
  ASSUME Inv, ReadMinSnapshot
  PROVE  Inv'
<1>1. /\ task.step = "min" /\ task' = [task EXCEPT !.step = "delete", !.min_ts = min_snapshot]
      /\ documents' = documents /\ latest_ts' = latest_ts /\ repeatable_ts' = repeatable_ts
      /\ rows' = rows /\ index' = index /\ progress' = progress /\ min_snapshot' = min_snapshot
      /\ deleter' = deleter /\ channel' = channel /\ failures' = failures
  BY DEF ReadMinSnapshot, storeVars, retentionVars
<1>2. min_snapshot \in Timestamps /\ min_snapshot \in Nat
  BY Types DEF Inv
<1>3. /\ task' \in TaskType /\ task'.step = "delete" /\ task'.snapshot_ts = task.snapshot_ts
      /\ task'.begin_ts = task.begin_ts /\ task'.min_ts = min_snapshot
  BY <1>1, <1>2 DEF Inv, TypeOK, TaskType
<1>4. PhaseInv'
  BY <1>1, <1>3 DEF Inv, PhaseInv
<1>5. \A id \in Ids : Reached(id)' => Covered(id, progress.snapshot_ts)
  BY <1>1, <1>3 DEF Inv, CoverInv, Reached
<1>6. channel' \in Seq(Ids) /\ failures' \in 0..MaxFailures
  BY <1>1, WorkerTypes DEF Inv
<1>7. task'.snapshot_ts <= latest_ts /\ task'.min_ts <= min_snapshot
  BY <1>2, <1>3 DEF Inv, TimeInv
<1> QED
  BY <1>1, <1>3, <1>4, <1>5, <1>6, <1>7, TaskStep

LEMMA FinishStep ==
  ASSUME Inv, FinishBackfill
  PROVE  Inv'
<1>1. /\ task.step = "delete" /\ index.state = "backfilling" /\ MetadataCommit
      /\ index' = [index EXCEPT !.state = "backfilled"] /\ task' = NoTask
      /\ rows' = rows /\ progress' = progress /\ min_snapshot' = min_snapshot
      /\ deleter' = deleter /\ channel' = channel /\ failures' = failures
  BY DEF FinishBackfill, retentionVars
<1>2. /\ documents' = documents /\ repeatable_ts' = repeatable_ts
      /\ latest_ts' = latest_ts + 1 /\ latest_ts' \in Timestamps /\ latest_ts' \in Nat
      /\ latest_ts \in Nat /\ latest_ts <= latest_ts'
  BY <1>1, MetadataTypes
<1>3. /\ index'.created_lower_bound = index.created_lower_bound /\ index'.state = "backfilled"
      /\ index'.retention_started = index.retention_started
      /\ index' \in [state : {"none", "backfilling", "backfilled"}, created_lower_bound : Timestamps,
                     retention_started : BOOLEAN, started_ts : Timestamps]
  BY <1>1 DEF Inv, TypeOK
<1>4. index.retention_started
  BY <1>1 DEF Inv, PhaseInv
<1>5. TypeOK'
  BY <1>1, <1>2, <1>3, NoTaskType DEF Inv, TypeOK, TaskType
<1>6. TimeInv'
  <2>1. /\ repeatable_ts \in Nat /\ progress.snapshot_ts \in Nat /\ min_snapshot \in Nat
        /\ index.created_lower_bound \in Nat
    BY Types DEF Inv
  <2> QED
    BY <1>1, <1>2, <1>3, <2>1, NoTaskType DEF Inv, TimeInv
<1>7. PhaseInv'
  BY <1>1, <1>3, <1>4, NoTaskType DEF Inv, PhaseInv
<1>8. DocumentsInv' /\ RowsInv' /\ UpdatesInv' /\ CoverInv'
  <2>1. min_snapshot' \in Nat /\ min_snapshot <= min_snapshot'
    BY <1>1, Types DEF Inv
  <2>2. \A id \in Ids : Covered(id, progress'.snapshot_ts)
    BY <1>1, <1>4 DEF Inv, CoverInv, Reached
  <2> QED
    BY <1>1, <1>2, <1>3, <2>1, <2>2, QuietStep
<1> QED
  BY <1>5, <1>6, <1>7, <1>8 DEF Inv

LEMMA FailStep ==
  ASSUME Inv, TaskFails
  PROVE  Inv'
<1>1. /\ task.step # "idle" /\ failures < MaxFailures /\ task' = NoTask /\ failures' = failures + 1
      /\ documents' = documents /\ latest_ts' = latest_ts /\ repeatable_ts' = repeatable_ts
      /\ rows' = rows /\ index' = index /\ progress' = progress /\ min_snapshot' = min_snapshot
      /\ deleter' = deleter /\ channel' = channel
  BY DEF TaskFails, storeVars, retentionVars
<1>2. PhaseInv'
  BY <1>1, NoTaskType DEF Inv, PhaseInv
<1>3. \A id \in Ids : Reached(id)' => Covered(id, progress.snapshot_ts)
  BY <1>1, NoTaskType DEF Inv, CoverInv, Reached
<1>4. channel' \in Seq(Ids) /\ failures' \in 0..MaxFailures
  BY <1>1, WorkerTypes DEF Inv
<1>5. task'.snapshot_ts <= latest_ts /\ task'.min_ts <= min_snapshot
  BY <1>1, NoTaskType, Types DEF Inv
<1> QED
  BY <1>1, <1>2, <1>3, <1>4, <1>5, NoTaskType, TaskStep

-----------------------------------------------------------------------------
(* Retention.                                                              *)

\* Either deleter deletes an entry.
LEMMA DeletionStep ==
  ASSUME Inv, NEW from \in Nat, NEW to \in Nat, to <= min_snapshot,
         NEW e \in expired_index_entries(from, to), index.retention_started,
         rows' = rows \ ExpiredRows({e}),
         UNCHANGED <<storeVars, index, progress, retentionVars, task, channel, failures>>
  PROVE  Inv'
<1>1. /\ documents' = documents /\ latest_ts' = latest_ts /\ repeatable_ts' = repeatable_ts
      /\ index' = index /\ progress' = progress /\ min_snapshot' = min_snapshot
      /\ deleter' = deleter /\ task' = task /\ channel' = channel /\ failures' = failures
  BY DEF storeVars, retentionVars
<1>2. RowsInv' /\ UpdatesInv' /\ \A id, ts : Covered(id, ts) => Covered(id, ts)'
  BY <1>1, DeleteRows
<1>3. TypeOK'
  BY <1>1 DEF Inv, TypeOK
<1>4. DocumentsInv' /\ TimeInv'
  BY <1>1 DEF Inv, DocumentsInv, TimeInv
<1>5. PhaseInv'
  BY <1>1 DEF Inv, PhaseInv
<1>6. CoverInv'
  <2>1. \A id \in Ids : Reached(id)' <=> Reached(id)
    BY <1>1 DEF Reached
  <2>2. \A id, ts : Covered(id, ts) => Covered(id, ts)'
    BY <1>2
  <2>3. ASSUME NEW id \in Ids, Reached(id)'
        PROVE  Covered(id, progress.snapshot_ts)'
    BY <1>1, <2>1, <2>2, <2>3 DEF Inv, CoverInv
  <2> QED
    BY <2>3 DEF CoverInv
<1> QED
  BY <1>2, <1>3, <1>4, <1>5, <1>6 DEF Inv

LEMMA DeleteEntryStep ==
  ASSUME Inv, NEW e, DeleteEntry(e)
  PROVE  Inv'
<1>1. index.retention_started /\ task.min_ts <= min_snapshot
  BY DEF DeleteEntry, Inv, PhaseInv, TimeInv
<1>2. task.begin_ts \in Nat /\ task.min_ts \in Nat
  BY WorkerTypes DEF Inv
<1> QED
  BY <1>1, <1>2, DeletionStep DEF DeleteEntry

LEMMA PassDeletesStep ==
  ASSUME Inv, NEW e, PassDeletes(e)
  PROVE  Inv'
<1>1. index.retention_started /\ deleter.end <= min_snapshot
  BY DEF PassDeletes, Inv, PhaseInv, TimeInv
<1>2. deleter.cursor \in Nat /\ deleter.end \in Nat
  BY WorkerTypes DEF Inv
<1> QED
  BY <1>1, <1>2, DeletionStep DEF PassDeletes

DeleterType ==
  [step : {"wait", "pass"}, cursor : Timestamps, end : Timestamps, checkpoint : Timestamps,
   before : BOOLEAN, known : BOOLEAN]

\* The deleter moves between its passes.
LEMMA DeleterStep ==
  ASSUME Inv, documents' = documents, rows' = rows, index' = index, progress' = progress,
         latest_ts' = latest_ts, repeatable_ts' \in Timestamps, min_snapshot <= repeatable_ts',
         repeatable_ts' <= latest_ts, min_snapshot' = min_snapshot,
         deleter' \in DeleterType, deleter'.end <= min_snapshot,
         deleter'.step = "pass" => 1 <= deleter'.end,
         deleter'.known \/ deleter'.before => index.retention_started,
         task' \in {task, NoTask}, channel' \in {channel, <<>>}, failures' \in 0..MaxFailures
  PROVE  Inv'
<1>1. min_snapshot' \in Nat /\ latest_ts' \in Nat /\ latest_ts <= latest_ts' /\ min_snapshot <= min_snapshot'
  BY Types DEF Inv
<1>2. task' \in TaskType /\ channel' \in Seq(Ids)
  <2>1. task \in TaskType /\ channel \in Seq(Ids)
    BY DEF Inv, TypeOK, TaskType
  <2>2. <<>> \in Seq(Ids)
    OBVIOUS
  <2> QED
    BY <2>1, <2>2, NoTaskType
<1>3. TypeOK'
  BY <1>2 DEF Inv, TypeOK, TaskType, DeleterType
<1>4. TimeInv'
  BY <1>1, NoTaskType DEF Inv, TimeInv
<1>5. PhaseInv'
  BY NoTaskType DEF Inv, PhaseInv
<1>6. \A id \in Ids : Reached(id)' => Reached(id)
  BY NoTaskType DEF Reached
<1>7. DocumentsInv' /\ RowsInv' /\ UpdatesInv' /\ CoverInv'
  BY <1>1, <1>6, QuietStep DEF Inv, CoverInv
<1> QED
  BY <1>3, <1>4, <1>5, <1>7 DEF Inv

LEMMA StartPassStep ==
  ASSUME Inv, StartPass
  PROVE  Inv'
<1> DEFINE known == deleter.known \/ accumulates(repeatable_ts)
<1>1. /\ deleter.cursor + 1 < min_snapshot
      /\ deleter' = [deleter EXCEPT !.step = "pass", !.end = min_snapshot,
                                    !.before = known, !.known = known]
      /\ documents' = documents /\ latest_ts' = latest_ts /\ repeatable_ts' = repeatable_ts
      /\ rows' = rows /\ index' = index /\ progress' = progress /\ min_snapshot' = min_snapshot
      /\ task' = task /\ channel' = channel /\ failures' = failures
  BY DEF StartPass, storeVars
<1>2. known \in BOOLEAN /\ (known => index.retention_started)
  BY DEF Inv, PhaseInv, accumulates
<1> HIDE DEF known
<1>3. /\ min_snapshot \in Timestamps /\ min_snapshot \in Nat /\ deleter.cursor \in Nat
      /\ repeatable_ts \in Timestamps /\ failures \in 0..MaxFailures
  BY Types, WorkerTypes DEF Inv
<1>4. /\ deleter' \in DeleterType /\ deleter'.end = min_snapshot
      /\ deleter'.before = known /\ deleter'.known = known
  BY <1>1, <1>2, <1>3 DEF Inv, TypeOK, DeleterType
<1>5. 1 <= min_snapshot /\ min_snapshot <= min_snapshot
  BY <1>1, <1>3
<1> QED
  BY <1>1, <1>2, <1>3, <1>4, <1>5, DeleterStep DEF Inv, TimeInv

LEMMA EndPassStep ==
  ASSUME Inv, EndPass
  PROVE  Inv'
<1> DEFINE known == deleter.known \/ accumulates(repeatable_ts)
           cursor == pass_cursor(known)
<1>1. /\ deleter.step = "pass"
      /\ \E saved \in {deleter.checkpoint, cursor} :
           deleter' = [deleter EXCEPT !.step = "wait", !.known = known, !.cursor = cursor,
                                      !.end = 0, !.checkpoint = saved]
      /\ documents' = documents /\ latest_ts' = latest_ts /\ repeatable_ts' = repeatable_ts
      /\ rows' = rows /\ index' = index /\ progress' = progress /\ min_snapshot' = min_snapshot
      /\ task' = task /\ channel' = channel /\ failures' = failures
  BY DEF EndPass, storeVars
<1>2. known \in BOOLEAN /\ (known => index.retention_started)
  BY DEF Inv, PhaseInv, accumulates
<1>3. /\ min_snapshot \in Timestamps /\ min_snapshot \in Nat /\ deleter.cursor \in Timestamps
      /\ repeatable_ts \in Timestamps /\ failures \in 0..MaxFailures
      /\ deleter.end \in Nat /\ deleter.end \in Timestamps /\ deleter.checkpoint \in Timestamps
      /\ deleter.before \in BOOLEAN
  BY Types, WorkerTypes DEF Inv
<1>4. cursor \in Timestamps /\ 0 \in Timestamps
  <2>1. 1 <= deleter.end
    BY <1>1 DEF Inv, TimeInv
  <2>2. deleter.end - 1 \in Timestamps /\ 0 \in Timestamps
    BY <1>3, <2>1 DEF Timestamps
  <2> QED
    BY <1>3, <2>2 DEF pass_cursor
<1> HIDE DEF known, cursor
<1>5. PICK saved \in {deleter.checkpoint, cursor} :
        deleter' = [deleter EXCEPT !.step = "wait", !.known = known, !.cursor = cursor,
                                   !.end = 0, !.checkpoint = saved]
  BY <1>1
<1>6. /\ deleter' \in DeleterType /\ deleter'.end = 0 /\ deleter'.step = "wait"
      /\ deleter'.before = deleter.before /\ deleter'.known = known
  BY <1>2, <1>3, <1>4, <1>5 DEF Inv, TypeOK, DeleterType
<1>7. deleter.before => index.retention_started
  BY DEF Inv, PhaseInv
<1> QED
  BY <1>1, <1>2, <1>3, <1>6, <1>7, DeleterStep DEF Inv, TimeInv

LEMMA RestartStep ==
  ASSUME Inv, Restart
  PROVE  Inv'
<1>1. /\ failures < MaxFailures /\ failures' = failures + 1
      /\ task' = NoTask /\ channel' = <<>> /\ repeatable_ts' = latest_ts
      /\ deleter' = [deleter EXCEPT !.step = "wait", !.end = 0, !.cursor = deleter.checkpoint,
                                    !.known = accumulates(latest_ts)]
      /\ documents' = documents /\ latest_ts' = latest_ts
      /\ rows' = rows /\ index' = index /\ progress' = progress /\ min_snapshot' = min_snapshot
  BY DEF Restart
<1>2. accumulates(latest_ts) \in BOOLEAN /\ (accumulates(latest_ts) => index.retention_started)
  BY Types DEF Inv, accumulates
<1>3. /\ min_snapshot \in Nat /\ latest_ts \in Timestamps /\ failures' \in 0..MaxFailures
      /\ deleter.checkpoint \in Timestamps /\ 0 \in Timestamps /\ repeatable_ts \in Nat
      /\ latest_ts \in Nat
  <2>1. /\ min_snapshot \in Nat /\ latest_ts \in Timestamps /\ repeatable_ts \in Nat
        /\ latest_ts \in Nat /\ deleter.checkpoint \in Timestamps
    BY Types, WorkerTypes DEF Inv, TypeOK
  <2>2. failures \in 0..MaxFailures
    BY DEF Inv, TypeOK
  <2>3. failures' \in 0..MaxFailures
    BY <1>1, <2>2
  <2>4. 0 \in Timestamps
    BY DEF Timestamps
  <2> QED
    BY <2>1, <2>3, <2>4
<1>4. /\ deleter' \in DeleterType /\ deleter'.end = 0 /\ deleter'.step = "wait"
      /\ deleter'.before = deleter.before /\ deleter'.known = accumulates(latest_ts)
  BY <1>1, <1>2, <1>3 DEF Inv, TypeOK, DeleterType
<1>5. /\ deleter.before => index.retention_started
      /\ min_snapshot <= latest_ts
  BY <1>3 DEF Inv, PhaseInv, TimeInv
<1> QED
  BY <1>1, <1>2, <1>3, <1>4, <1>5, DeleterStep

-----------------------------------------------------------------------------
(* The specification.                                                      *)

\* Nothing is reached before the index exists.
LEMMA InvInit == Init => Inv
<1> SUFFICES ASSUME Init PROVE Inv
  OBVIOUS
<1>1. PICK live \in SUBSET Ids : \E values \in [live -> 1..NumValues] :
        documents = {[id |-> id, ts |-> 1, value |-> values[id]] : id \in live}
  BY DEF Init
<1>2. PICK values \in [live -> 1..NumValues] :
        documents = {[id |-> id, ts |-> 1, value |-> values[id]] : id \in live}
  BY <1>1
<1>3. 0 \in Timestamps /\ 1 \in Timestamps /\ 0 \in 0..MaxFailures
  BY DEF Timestamps
<1>4. documents \subseteq Revisions
  <2> SUFFICES ASSUME NEW r \in documents PROVE r \in Revisions
    OBVIOUS
  <2>1. PICK id \in live : r = [id |-> id, ts |-> 1, value |-> values[id]]
    BY <1>2
  <2>2. id \in Ids /\ values[id] \in 0..NumValues
    BY <1>2
  <2> QED
    BY <2>1, <2>2, <1>3 DEF Revisions
<1>5. TypeOK
  <2>1. channel \in Seq(Ids)
    BY DEF Init
  <2>2. task \in TaskType
    BY NoTaskType DEF Init
  <2> QED
    BY <1>3, <1>4, <2>1, <2>2 DEF Init, TypeOK, TaskType
<1>6. DocumentsInv
  BY <1>2 DEF Init, DocumentsInv
<1>7. TimeInv
  BY NoTaskType DEF Init, TimeInv
<1>8. PhaseInv
  BY NoTaskType DEF Init, PhaseInv
<1>9. RowsInv /\ UpdatesInv
  BY DEF Init, RowsInv, UpdatesInv
<1>10. CoverInv
  <2> SUFFICES ASSUME NEW id \in Ids PROVE ~Reached(id)
    BY DEF CoverInv
  <2>1. id \in Nat /\ 1 <= id
    BY DEF Ids
  <2>2. progress.cursor = 0 /\ ~index.retention_started /\ task.step = "idle"
    BY NoTaskType DEF Init
  <2>3. DOMAIN channel = {}
    BY DEF Init
  <2> QED
    BY <2>1, <2>2, <2>3 DEF Reached
<1> QED
  BY <1>5, <1>6, <1>7, <1>8, <1>9, <1>10 DEF Inv

LEMMA InvStep == Inv /\ [Next]_vars => Inv'
<1> SUFFICES ASSUME Inv, [Next]_vars PROVE Inv'
  OBVIOUS
<1>1. CASE \E id \in Ids, value \in 0..NumValues : Commit(id, value)
  BY <1>1, CommitStep
<1>2. CASE AddIndex
  BY <1>2, AddIndexStep
<1>3. CASE BumpRepeatable
  BY <1>3, BumpStep
<1>4. CASE StartTask
  BY <1>4, StartTaskStep
<1>5. CASE InitializeBackfill
  BY <1>5, InitializeStep
<1>6. CASE \E id \in Ids : WriteChunk(id) \/ SendProgress(id)
  BY <1>6, WriteChunkStep, SendStep
<1>7. CASE ReceiveProgress
  BY <1>7, ReceiveStep
<1>8. CASE BeginRetention
  BY <1>8, BeginRetentionStep
<1>9. CASE ReadMinSnapshot
  BY <1>9, ReadMinStep
<1>10. CASE FinishBackfill
  BY <1>10, FinishStep
<1>11. CASE TaskFails
  BY <1>11, FailStep
<1>12. CASE \E e \in Ids \X (1..NumValues) \X Timestamps : DeleteEntry(e) \/ PassDeletes(e)
  <2>1. PICK e \in Ids \X (1..NumValues) \X Timestamps : DeleteEntry(e) \/ PassDeletes(e)
    BY <1>12
  <2> QED
    BY <2>1, DeleteEntryStep, PassDeletesStep
<1>13. CASE AdvanceMinSnapshot
  BY <1>13, AdvanceStep
<1>14. CASE StartPass
  BY <1>14, StartPassStep
<1>15. CASE EndPass
  BY <1>15, EndPassStep
<1>16. CASE Restart
  BY <1>16, RestartStep
<1>17. CASE UNCHANGED vars
  BY <1>17, StutterStep
<1> QED
  BY <1>1, <1>2, <1>3, <1>4, <1>5, <1>6, <1>7, <1>8, <1>9, <1>10, <1>11, <1>12, <1>13,
     <1>14, <1>15, <1>16, <1>17 DEF Next

\* The inductive invariant of a backfill beside commits and retention holds in
\* every reachable state, failed tasks and restarts included.
THEOREM IndexBackfillInvariant == Spec => []Inv
  BY InvInit, InvStep, PTL DEF Spec

\* Every variable of the backfill keeps its type.
THEOREM IndexBackfillTypeCorrect == Spec => []TypeOK
<1>1. Inv => TypeOK
  BY DEF Inv
<1> QED
  BY <1>1, IndexBackfillInvariant, PTL

\* When finish_backfill has declared the index backfilled, a read of it at any
\* timestamp that retention and the backfill allow returns the documents of the
\* table, whatever was interrupted, resumed or deleted in between.
THEOREM BackfilledIndexReadable == Spec => []BackfilledReadable
<1>1. Inv => BackfilledReadable
  BY InvReadable
<1> QED
  BY <1>1, IndexBackfillInvariant, PTL

\* When run_retention has no entry left to delete from created_lower_bound on,
\* no expired row of the index's whole life is left: nothing older was written.
THEOREM OwnRetentionIsComplete == Spec => []OwnRetentionComplete
<1>1. Inv => OwnRetentionComplete
  BY InvOwnRetention
<1> QED
  BY <1>1, IndexBackfillInvariant, PTL

=============================================================================
