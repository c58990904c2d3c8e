--------------------------- MODULE RetentionProofs ---------------------------
(***************************************************************************)
(* What Retention promises for any documents, values and retention delays. *)
(*                                                                         *)
(* The argument: what is deleted lies below the bound in the leader's      *)
(* memory, which never passes the persisted one and never moves back; the  *)
(* rows that are gone from a key of the index are its oldest, and a later  *)
(* revision below the bound replaces them; index retention has cleared all *)
(* that the revisions up to its cursor made obsolete, and documents expire *)
(* only below what it has confirmed.                                       *)
(***************************************************************************)
EXTENDS Retention, WellFoundedInduction, TLAPS

USE RetentionAssumption

-----------------------------------------------------------------------------
(* The inductive invariant.                                                *)

Rows == [id : Ids, value : Values, ts : Timestamps, deleted : BOOLEAN]

\* Timestamps are unique, and prev_ts is the revision before.
HistoryInv ==
  \A r \in history :
    /\ 0 < r.ts /\ r.ts <= latest_ts /\ r.prev_ts < r.ts
    /\ r.prev_ts # 0 =>
         \E p \in history : p.id = r.id /\ p.ts = r.prev_ts /\ p.value # Deleted
    /\ \A q \in history :
         /\ q.ts = r.ts => q = r
         /\ q.id = r.id /\ q.ts < r.ts => q.ts <= r.prev_ts

\* The timestamps of the store, the bounds and the cursors.
BoundsInv ==
  /\ BoundsOrdered /\ repeatable_ts <= latest_ts
  /\ \A type \in RetentionTypes :
       /\ confirmed[type] <= deleter[type].cursor
       /\ deleter[type].cursor <= bounds[type]
       /\ deleter[type].step = "confirmed" => deleter[type].cursor <= confirmed[type]
       /\ min_persisted[type] = 0 \/ min_persisted[type] + Delay[type] <= repeatable_ts
  /\ checkpoint["index"] <= confirmed["index"]
  /\ checkpoint["index"] = 0 \/ min_persisted["document"] <= checkpoint["index"]

\* A new minimum snapshot on its way to persistence, memory and the channel.
AdvanceInv ==
  /\ advance.step = "persist" =>
       /\ min_persisted[advance.type] <= advance.ts
       /\ advance.ts + Delay[advance.type] <= repeatable_ts
       /\ advance.type = "document" => advance.ts <= checkpoint["index"]
  /\ advance.step = "memory" => advance.ts <= min_persisted[advance.type]
  /\ advance.step = "emit" => advance.ts <= bounds[advance.type]

\* A revision that is gone was replaced, or is a tombstone, below the bound.
DocumentsInv ==
  \A r \in history \ documents :
    /\ r.ts < bounds["document"]
    /\ \/ r.value = Deleted
       \/ \E q \in history : q.id = r.id /\ r.ts < q.ts /\ q.ts < bounds["document"]

\* A commit wrote this row of the index.
Wrote(h) ==
  \E r \in history :
    /\ r.id = h.id /\ r.ts = h.ts
    /\ \/ ~h.deleted /\ r.value = h.value
       \/ /\ h.deleted /\ r.value # h.value
          /\ \E p \in history : p.id = r.id /\ p.ts = r.prev_ts /\ p.value = h.value

\* Nothing of x's key is left up to x.
Cleared(x) ==
  \A row \in indexes : row.id = x.id /\ row.value = x.value => x.ts < row.ts

\* A row that is gone was replaced below the bound, with all older ones.
IndexInv ==
  /\ \A h \in indexes : Wrote(h)
  /\ \A h \in Rows : Wrote(h) /\ h \notin indexes =>
       /\ Cleared(h)
       /\ \E q \in history :
            /\ q.id = h.id /\ q.ts < bounds["index"]
            /\ h.ts < q.ts \/ (h.deleted /\ h.ts = q.ts)

\* What the revision at x.scan makes obsolete in the index, and in the
\* documents table.
ObsoleteRow(x) ==
  \E r, p \in history :
    /\ p.id = r.id /\ p.ts = r.prev_ts
    /\ x.scan = r.ts /\ x.id = r.id /\ x.value = p.value
    /\ x.ts = p.ts \/ (x.ts = r.ts /\ r.value # p.value)

ObsoleteRevision(x) ==
  \E r \in history :
    /\ x.scan = r.ts /\ x.id = r.id
    /\ x.ts = r.prev_ts \/ (x.ts = r.ts /\ r.value = Deleted)

\* The index deleter: up to its cursor everything is cleared, from there to
\* its end what is not cleared is still to be deleted.
IndexDeleterInv ==
  LET d == deleter["index"] IN
  /\ d.step # "delete" => d.chunk = {}
  /\ \A x \in ExpiredRows : ObsoleteRow(x) /\ x.scan <= d.cursor => Cleared(x)
  /\ d.step = "delete" =>
       /\ d.cursor <= d.new_cursor /\ d.new_cursor < d.end /\ d.end <= bounds["index"]
       /\ \A x \in d.todo \cup d.chunk : ObsoleteRow(x) /\ x.scan < d.end
       /\ \A x \in d.todo : d.new_cursor = d.cursor \/ d.new_cursor < x.scan
       /\ \A x \in ExpiredRows :
            ObsoleteRow(x) /\ d.cursor <= x.scan /\ x.scan < d.end =>
              x \in d.todo \cup d.chunk \/ Cleared(x)

DocumentDeleterInv ==
  LET d == deleter["document"] IN
  /\ d.step # "delete" => d.chunk = {}
  /\ d.step = "delete" =>
       /\ d.cursor <= d.new_cursor /\ d.new_cursor < d.end /\ d.end <= bounds["document"]
       /\ \A x \in d.todo \cup d.chunk : ObsoleteRevision(x) /\ x.scan < d.end

\* A read that came back incomplete is below the bound.
ReaderInv ==
  /\ AcceptedReadsTrue
  /\ reader.step = "read" /\ ~reader.good => reader.ts < bounds[reader.type]

Inv ==
  /\ TypeOK /\ HistoryInv /\ BoundsInv /\ AdvanceInv /\ DocumentsInv
  /\ IndexInv /\ IndexDeleterInv /\ DocumentDeleterInv /\ ReaderInv

-----------------------------------------------------------------------------
(* Least and greatest elements.                                            *)

LEMMA LeastNat ==
  ASSUME NEW S \in SUBSET Nat, S # {}
  PROVE  \E x \in S : \A y \in S : x <= y
<1>1. PICK x \in S : \A y \in S : ~(<<y, x>> \in OpToRel(<, Nat))
  BY NatLessThanWellFounded, WFMin
<1>2. ASSUME NEW y \in S, y < x PROVE <<y, x>> \in OpToRel(<, Nat)
  <2>1. <<y, x>> \in Nat \X Nat /\ <<y, x>>[1] < <<y, x>>[2]
    BY <1>2
  <2> QED
    BY <2>1, Zenon DEF OpToRel
<1>3. \A y \in S : ~(y < x)
  BY <1>1, <1>2
<1> QED
  BY <1>3

\* The greatest element is the least bound.
LEMMA MaxIsGreatest ==
  ASSUME NEW S \in SUBSET Timestamps, S # {}
  PROVE  Max(S) \in S /\ \A x \in S : x <= Max(S)
<1> DEFINE Bounds == {b \in Nat : \A x \in S : x <= b}
<1>1. MaxTs \in Bounds
  BY DEF Timestamps
<1>2. PICK b \in Bounds : \A c \in Bounds : b <= c
  BY <1>1, LeastNat
<1>3. b \in S
  <2>1. CASE b = 0
    <3>1. PICK x \in S : TRUE
      OBVIOUS
    <3>2. x \in Nat /\ x <= b
      BY <1>2 DEF Timestamps
    <3> QED
      BY <2>1, <3>2
  <2>2. CASE b # 0
    <3>1. b - 1 \in Nat /\ b - 1 \notin Bounds
      BY <2>2, <1>2
    <3>2. PICK x \in S : ~(x <= b - 1)
      BY <3>1
    <3> QED
      BY <3>2, <1>2 DEF Timestamps
  <2> QED
    BY <2>1, <2>2
<1>4. \E x \in S : \A y \in S : y <= x
  BY <1>2, <1>3
<1> QED
  BY <1>4 DEF Max

LEMMA MaxPair ==
  ASSUME NEW a \in Int, NEW b \in Int
  PROVE  Max({a, b}) \in {a, b} /\ a <= Max({a, b}) /\ b <= Max({a, b})
<1>1. \E x \in {a, b} : \A y \in {a, b} : y <= x
  <2>1. CASE a <= b
    BY <2>1
  <2>2. CASE b <= a
    BY <2>2
  <2> QED
    BY <2>1, <2>2
<1> QED
  BY <1>1 DEF Max

LEMMA MinPair ==
  ASSUME NEW a \in Int, NEW b \in Int
  PROVE  Min({a, b}) \in {a, b} /\ Min({a, b}) <= a /\ Min({a, b}) <= b
<1>1. \E x \in {a, b} : \A y \in {a, b} : x <= y
  <2>1. CASE a <= b
    BY <2>1
  <2>2. CASE b <= a
    BY <2>2
  <2> QED
    BY <2>1, <2>2
<1> QED
  BY <1>1 DEF Min

-----------------------------------------------------------------------------
(* Types.                                                                  *)

Revisions == [id : Ids, ts : Timestamps, value : Values \cup {Deleted}, prev_ts : Timestamps]

AdvanceType == [step : {"idle", "persist", "memory", "emit"}, type : RetentionTypes,
                ts : Timestamps]

DeleterType ==
  [step : {"wait", "delete", "checkpoint", "confirmed"}, cursor : Timestamps,
   end : Timestamps, new_cursor : Timestamps, todo : SUBSET ExpiredRows,
   chunk : SUBSET ExpiredRows]

ReaderType == [step : {"idle", "read", "accepted"}, leader : BOOLEAN,
               type : RetentionTypes, ts : Timestamps, good : BOOLEAN]

LEMMA TimeTypes ==
  /\ 0 \in Timestamps /\ \A t \in Timestamps : t \in Nat
  /\ \A t \in Timestamps, n \in Nat : n <= t => n \in Timestamps
  /\ "index" \in RetentionTypes /\ "document" \in RetentionTypes
BY DEF Timestamps, RetentionTypes

LEMMA Types ==
  ASSUME TypeOK
  PROVE  /\ history \in SUBSET Revisions /\ documents \subseteq history
         /\ indexes \in SUBSET Rows
         /\ latest_ts \in Timestamps /\ repeatable_ts \in Timestamps
         /\ min_persisted \in [RetentionTypes -> Timestamps]
         /\ confirmed \in [RetentionTypes -> Timestamps]
         /\ bounds \in [RetentionTypes -> Timestamps]
         /\ checkpoint \in [RetentionTypes -> Timestamps]
         /\ watch \in [RetentionTypes -> Timestamps]
         /\ advance \in AdvanceType /\ deleter \in [RetentionTypes -> DeleterType]
         /\ reader \in ReaderType
BY DEF TypeOK, Revisions, Rows, AdvanceType, DeleterType, ReaderType

\* The parts of TypeOK that change.
LEMMA TypesNext ==
  ASSUME history' \in SUBSET Revisions, documents' \subseteq history',
         indexes' \in SUBSET Rows, latest_ts' \in Timestamps, repeatable_ts' \in Timestamps,
         min_persisted' \in [RetentionTypes -> Timestamps],
         confirmed' \in [RetentionTypes -> Timestamps],
         bounds' \in [RetentionTypes -> Timestamps],
         checkpoint' \in [RetentionTypes -> Timestamps],
         watch' \in [RetentionTypes -> Timestamps],
         advance' \in AdvanceType, deleter' \in [RetentionTypes -> DeleterType],
         reader' \in ReaderType
  PROVE  TypeOK'
BY DEF TypeOK, Revisions, Rows, AdvanceType, DeleterType, ReaderType

LEMMA WaitingType ==
  ASSUME NEW cursor \in Timestamps
  PROVE  /\ Waiting(cursor) \in DeleterType
         /\ Waiting(cursor).step = "wait" /\ Waiting(cursor).cursor = cursor
BY TimeTypes DEF Waiting, DeleterType

LEMMA InitType ==
  ASSUME Init
  PROVE  TypeOK
<1>1. /\ history \in SUBSET Revisions /\ documents \subseteq history /\ indexes \in SUBSET Rows
  BY DEF Init
<1>2. Zero \in [RetentionTypes -> Timestamps]
  BY TimeTypes DEF Zero
<1>3. deleter \in [RetentionTypes -> DeleterType]
  BY TimeTypes, WaitingType DEF Init
<1>4. advance \in AdvanceType /\ reader \in ReaderType
  BY TimeTypes DEF Init, Idle, NoRead, AdvanceType, ReaderType
<1> QED
  BY <1>1, <1>2, <1>3, <1>4, TimeTypes
     DEF Init, TypeOK, Revisions, Rows, AdvanceType, DeleterType, ReaderType

-----------------------------------------------------------------------------
(* What a commit writes.                                                   *)

Previous(id) == {r \in history : r.id = id /\ IsCurrent(r, latest_ts)}

Revision(id, value) ==
  [id |-> id, ts |-> latest_ts + 1, value |-> value,
   prev_ts |-> IF Previous(id) = {} THEN 0 ELSE Max({r.ts : r \in Previous(id)})]

LEMMA PreviousFacts ==
  ASSUME TypeOK, HistoryInv, NEW id
  PROVE  /\ Previous(id) = {} => \A q \in history : q.id # id
         /\ \A p \in Previous(id) :
              /\ p \in history /\ p.id = id /\ Previous(id) = {p}
              /\ Max({r.ts : r \in Previous(id)}) = p.ts
              /\ \A q \in history : q.id = id => q.ts <= p.ts
<1>0. \A r \in history : r.ts \in Timestamps /\ r.ts <= latest_ts
  BY Types DEF Revisions, HistoryInv
<1>1. ASSUME NEW p \in Previous(id)
      PROVE  /\ p \in history /\ p.id = id /\ Previous(id) = {p}
             /\ Max({r.ts : r \in Previous(id)}) = p.ts
             /\ \A q \in history : q.id = id => q.ts <= p.ts
  <2>1. p \in history /\ p.id = id /\ \A q \in history : q.id = id => q.ts <= p.ts
    BY <1>0 DEF Previous, IsCurrent
  <2>2. ASSUME NEW q \in Previous(id) PROVE q = p
    <3>1. q \in history /\ q.ts <= p.ts /\ p.ts <= q.ts
      BY <1>0, <2>1 DEF Previous, IsCurrent
    <3>2. q.ts = p.ts
      BY <1>0, <2>1, <3>1 DEF Timestamps
    <3> QED
      BY <2>1, <3>1, <3>2 DEF HistoryInv
  <2>3. {r.ts : r \in Previous(id)} = {p.ts}
    BY <2>2
  <2>4. Max({p.ts}) = p.ts
    BY <1>0, <2>1, MaxIsGreatest
  <2> QED
    BY <2>1, <2>2, <2>3, <2>4
<1>2. ASSUME NEW q \in history, q.id = id PROVE Previous(id) # {}
  <2> DEFINE S == {r.ts : r \in {h \in history : h.id = id}}
  <2>1. S \in SUBSET Timestamps /\ S # {}
    BY <1>0, <1>2
  <2>2. Max(S) \in S /\ \A x \in S : x <= Max(S)
    BY <2>1, MaxIsGreatest
  <2>3. PICK p \in history : p.id = id /\ p.ts = Max(S)
    BY <2>2
  <2>4. \A r \in history : r.id = id => r.ts <= p.ts
    BY <2>2, <2>3
  <2>5. p \in Previous(id)
    BY <1>0, <2>3, <2>4 DEF Previous, IsCurrent
  <2> QED
    BY <2>5
<1> QED
  BY <1>1, <1>2

LEMMA CommitFacts ==
  ASSUME TypeOK, HistoryInv, NEW id \in Ids, NEW value \in Values \cup {Deleted},
         Commit(id, value)
  PROVE  LET rev == Revision(id, value) IN
         /\ rev \in Revisions /\ rev.id = id /\ rev.value = value /\ rev.ts = latest_ts + 1
         /\ rev.prev_ts <= latest_ts
         /\ Previous(id) = {} => rev.prev_ts = 0
         /\ \A p \in Previous(id) : rev.prev_ts = p.ts /\ p.value # Deleted
         /\ latest_ts' = latest_ts + 1
         /\ history' = history \cup {rev} /\ documents' = documents \cup {rev}
         /\ indexes' = indexes \cup IndexRows(id, latest_ts + 1, value, Previous(id))
         /\ UNCHANGED <<repeatable_ts, min_persisted, confirmed, leaderVars, reader>>
<1> DEFINE rev == Revision(id, value)
<1>1. /\ latest_ts + 1 <= MaxTs /\ latest_ts' = latest_ts + 1
      /\ \A p \in Previous(id) : p.value # Deleted
      /\ history' = history \cup {rev} /\ documents' = documents \cup {rev}
      /\ indexes' = indexes \cup IndexRows(id, latest_ts + 1, value, Previous(id))
      /\ UNCHANGED <<repeatable_ts, min_persisted, confirmed, leaderVars, reader>>
  BY Zenon DEF Commit, Previous, Revision
<1>2. /\ rev.id = id /\ rev.value = value /\ rev.ts = latest_ts + 1
      /\ rev.prev_ts = IF Previous(id) = {} THEN 0 ELSE Max({r.ts : r \in Previous(id)})
  BY DEF Revision
<1>3. latest_ts \in Timestamps /\ latest_ts \in Nat
  BY Types, TimeTypes
<1>4. latest_ts + 1 \in Timestamps
  BY <1>1, <1>3 DEF Timestamps
<1>5. Previous(id) = {} => rev.prev_ts = 0
  BY <1>2
<1>6. ASSUME NEW p \in Previous(id) PROVE rev.prev_ts = p.ts
  BY <1>2, <1>6, PreviousFacts
<1>7. rev.prev_ts \in Timestamps /\ rev.prev_ts <= latest_ts
  <2>1. CASE Previous(id) = {}
    BY <1>3, <1>5, <2>1, TimeTypes
  <2>2. CASE Previous(id) # {}
    <3>1. PICK p \in Previous(id) : TRUE
      BY <2>2
    <3>2. p \in history /\ rev.prev_ts = p.ts
      BY <1>6, PreviousFacts
    <3> QED
      BY <3>2, Types DEF HistoryInv, Revisions
  <2> QED
    BY <2>1, <2>2
<1>8. rev \in Revisions
  <2>1. rev = [id |-> rev.id, ts |-> rev.ts, value |-> rev.value, prev_ts |-> rev.prev_ts]
    BY <1>2 DEF Revision
  <2> HIDE DEF rev
  <2>2. /\ rev.id \in Ids /\ rev.ts \in Timestamps /\ rev.prev_ts \in Timestamps
        /\ rev.value \in Values \cup {Deleted}
    BY <1>2, <1>4, <1>7
  <2> QED
    BY <2>1, <2>2 DEF Revisions
<1> QED
  BY <1>1, <1>2, <1>5, <1>6, <1>7, <1>8

LEMMA HistoryStep ==
  ASSUME TypeOK, TypeOK', HistoryInv, [Next]_vars
  PROVE  HistoryInv'
<1>1. ASSUME NEW id \in Ids, NEW value \in Values \cup {Deleted}, Commit(id, value)
      PROVE  HistoryInv'
  <2> DEFINE rev == Revision(id, value)
  <2>1. /\ rev.id = id /\ rev.ts = latest_ts + 1 /\ rev.prev_ts <= latest_ts
        /\ rev \in Revisions
        /\ Previous(id) = {} => rev.prev_ts = 0
        /\ \A p \in Previous(id) : rev.prev_ts = p.ts /\ p.value # Deleted
        /\ latest_ts' = latest_ts + 1 /\ history' = history \cup {rev}
    BY <1>1, CommitFacts
  <2> HIDE DEF rev
  <2>0. latest_ts \in Nat /\ rev.prev_ts \in Nat /\ \A r \in history : r.ts \in Nat
    BY <2>1, Types, TimeTypes DEF Revisions
  <2>2. /\ 0 < rev.ts /\ rev.ts <= latest_ts' /\ rev.prev_ts < rev.ts
    BY <2>0, <2>1
  <2>3. rev.prev_ts # 0 =>
          \E p \in history' : p.id = rev.id /\ p.ts = rev.prev_ts /\ p.value # Deleted
    <3>1. SUFFICES ASSUME NEW p \in Previous(id)
                   PROVE  p \in history' /\ p.id = rev.id /\ p.ts = rev.prev_ts /\ p.value # Deleted
      BY <2>1
    <3>2. p \in history /\ p.id = id
      BY PreviousFacts
    <3>3. rev.prev_ts = p.ts /\ p.value # Deleted /\ rev.id = id /\ history' = history \cup {rev}
      BY <2>1
    <3> QED
      BY <3>2, <3>3
  <2>4. \A q \in history : q.id = rev.id => q.ts <= rev.prev_ts
    <3>1. CASE Previous(id) = {}
      <4>1. \A q \in history : q.id # id
        BY <3>1, PreviousFacts
      <4> QED
        BY <2>1, <4>1
    <3>2. CASE Previous(id) # {}
      <4>1. PICK p \in Previous(id) : TRUE
        BY <3>2
      <4>2. \A q \in history : q.id = id => q.ts <= p.ts
        BY PreviousFacts
      <4>3. rev.prev_ts = p.ts /\ rev.id = id
        BY <2>1
      <4> QED
        BY <4>2, <4>3
    <3> QED
      BY <3>1, <3>2
  <2>5. \A q \in history : q.ts < rev.ts
    BY <2>0, <2>1 DEF HistoryInv
  <2>6. ASSUME NEW r \in history
        PROVE  /\ 0 < r.ts /\ r.ts <= latest_ts' /\ r.prev_ts < r.ts
               /\ r.prev_ts # 0 =>
                    \E p \in history' : p.id = r.id /\ p.ts = r.prev_ts /\ p.value # Deleted
               /\ \A q \in history : /\ q.ts = r.ts => q = r
                                     /\ q.id = r.id /\ q.ts < r.ts => q.ts <= r.prev_ts
    BY <2>0, <2>1 DEF HistoryInv
  <2>7. ASSUME NEW r \in history, NEW q \in history'
        PROVE  /\ q.ts = r.ts => q = r
               /\ q.id = r.id /\ q.ts < r.ts => q.ts <= r.prev_ts
    <3>1. CASE q \in history
      BY <2>6, <3>1
    <3>2. CASE q = rev
      BY <2>0, <2>1, <2>5, <3>2
    <3> QED
      BY <2>1, <3>1, <3>2
  <2>8. ASSUME NEW q \in history'
        PROVE  /\ q.ts = rev.ts => q = rev
               /\ q.id = rev.id /\ q.ts < rev.ts => q.ts <= rev.prev_ts
    <3>1. CASE q \in history
      BY <2>0, <2>1, <2>4, <2>5, <3>1
    <3>2. CASE q = rev
      BY <2>0, <2>1, <3>2
    <3> QED
      BY <2>1, <3>1, <3>2
  <2> QED
    BY <2>1, <2>2, <2>3, <2>6, <2>7, <2>8 DEF HistoryInv
<1>2. ASSUME UNCHANGED <<history, latest_ts>> PROVE HistoryInv'
  BY <1>2 DEF HistoryInv
<1>3. ASSUME NEW type \in RetentionTypes,
             \/ \E ts \in Timestamps : AdvanceTimestamp(type, ts)
             \/ \E end \in Timestamps : StartDelete(type, end)
             \/ \E chunk \in SUBSET deleter[type].todo : TakeChunk(type, chunk)
             \/ \E x \in deleter[type].chunk : DeletePart(type, x)
             \/ \E step \in {"wait", "checkpoint"} : DeleteReturns(type, step)
             \/ DeleteFails(type) \/ CheckpointPersist(type) \/ CheckpointMemory(type)
             \/ CheckpointFails(type)
             \/ \E leader \in BOOLEAN, ts \in Timestamps : Read(leader, type, ts)
      PROVE  UNCHANGED <<history, latest_ts>>
  BY <1>3 DEF AdvanceTimestamp, StartDelete, TakeChunk, DeletePart, DeleteReturns, DeleteFails,
     CheckpointPersist, CheckpointMemory, CheckpointFails, Read, storeVars
<1>4. CASE BumpRepeatable \/ AdvancePersist \/ AdvanceMemory \/ AdvanceFails \/ EmitTimestamp
           \/ Restart \/ ValidateSnapshot \/ FinishRead \/ UNCHANGED vars
  BY <1>2, <1>4 DEF BumpRepeatable, AdvancePersist, AdvanceMemory, AdvanceFails,
     EmitTimestamp, Restart, ValidateSnapshot, FinishRead, vars, storeVars
<1> QED
  BY <1>1, <1>2, <1>3, <1>4 DEF Next

-----------------------------------------------------------------------------
(* Every step keeps the types.                                             *)

LEMMA Deleting ==
  ASSUME IndexDeleterInv, DocumentDeleterInv, NEW type \in RetentionTypes,
         deleter[type].step = "delete"
  PROVE  /\ deleter[type].cursor <= deleter[type].new_cursor
         /\ deleter[type].new_cursor < deleter[type].end
         /\ deleter[type].end <= bounds[type]
BY DEF IndexDeleterInv, DocumentDeleterInv, RetentionTypes

\* What a step of a deleter leaves alone.
LEMMA DeleterFrame ==
  ASSUME NEW type \in RetentionTypes,
         \/ \E end \in Timestamps : StartDelete(type, end)
         \/ \E chunk \in SUBSET deleter[type].todo : TakeChunk(type, chunk)
         \/ \E step \in {"wait", "checkpoint"} : DeleteReturns(type, step)
         \/ DeleteFails(type) \/ CheckpointFails(type)
  PROVE  UNCHANGED <<storeVars, min_persisted, confirmed, bounds, checkpoint, watch, advance,
                     reader>>
BY DEF StartDelete, TakeChunk, DeleteReturns, DeleteFails, CheckpointFails

LEMMA ExpiredType ==
  ASSUME TypeOK, NEW type \in RetentionTypes, NEW cursor, NEW end
  PROVE  Expired(type, cursor, end) \in SUBSET ExpiredRows
<1>0. documents \in SUBSET Revisions
  BY Types
<1>1. ASSUME NEW r \in documents PROVE ExpiredByIndex(r) \subseteq ExpiredRows
  BY <1>0 DEF ExpiredByIndex, ExpiredRows, Revisions
<1>2. ASSUME NEW r \in documents PROVE ExpiredByDocument(r) \subseteq ExpiredRows
  BY <1>0 DEF ExpiredByDocument, ExpiredRows, Revisions
<1>3. ASSUME NEW x \in Expired(type, cursor, end) PROVE x \in ExpiredRows
  <2>1. PICK r \in documents :
          x \in IF type = "index" THEN ExpiredByIndex(r) ELSE ExpiredByDocument(r)
    BY DEF Expired
  <2> QED
    BY <1>1, <1>2, <2>1
<1> QED
  BY <1>3

\* The cursor that a chunk leads to.
LEMMA ChunkCursor ==
  ASSUME NEW chunk \in SUBSET ExpiredRows, chunk # {}, NEW cursor \in Timestamps
  PROVE  LET new == Max({cursor, chunk_cursor(chunk)}) IN
         /\ new \in Timestamps /\ cursor <= new
         /\ \E x \in chunk : /\ \A y \in chunk : y.scan <= x.scan
                             /\ new = cursor \/ new = x.scan - 1
<1> DEFINE S == {x.scan : x \in chunk}
<1>1. S \in SUBSET Timestamps /\ S # {}
  BY DEF ExpiredRows
<1>2. Max(S) \in S /\ \A t \in S : t <= Max(S)
  BY <1>1, MaxIsGreatest
<1>3. PICK x \in chunk : x.scan = Max(S)
  BY <1>2
<1>4. chunk_cursor(chunk) = x.scan - 1 /\ \A y \in chunk : y.scan <= x.scan
  BY <1>2, <1>3 DEF chunk_cursor
<1>5. x.scan \in Timestamps
  BY <1>1, <1>2, <1>3
<1> HIDE DEF S
<1>6. x.scan - 1 \in Int /\ cursor \in Int
  BY <1>5 DEF Timestamps
<1> DEFINE new == Max({cursor, x.scan - 1})
<1>7. new \in {cursor, x.scan - 1} /\ cursor <= new
  BY <1>6, MaxPair
<1> HIDE DEF new
<1>8. new \in Timestamps
  BY <1>5, <1>7 DEF Timestamps
<1> QED
  BY <1>4, <1>7, <1>8 DEF new

LEMMA TypeStep ==
  ASSUME TypeOK, HistoryInv, IndexDeleterInv, DocumentDeleterInv, [Next]_vars
  PROVE  TypeOK'
<1>0. /\ history \in SUBSET Revisions /\ documents \subseteq history
      /\ indexes \in SUBSET Rows
      /\ latest_ts \in Timestamps /\ repeatable_ts \in Timestamps
      /\ min_persisted \in [RetentionTypes -> Timestamps]
      /\ confirmed \in [RetentionTypes -> Timestamps]
      /\ bounds \in [RetentionTypes -> Timestamps]
      /\ checkpoint \in [RetentionTypes -> Timestamps]
      /\ watch \in [RetentionTypes -> Timestamps]
      /\ advance \in AdvanceType /\ deleter \in [RetentionTypes -> DeleterType]
      /\ reader \in ReaderType
  BY Types
<1>1. ASSUME NEW id \in Ids, NEW value \in Values \cup {Deleted}, Commit(id, value)
      PROVE  TypeOK'
  <2> DEFINE rev == Revision(id, value)
             new == IndexRows(id, latest_ts + 1, value, Previous(id))
  <2>1. /\ rev \in Revisions /\ rev.ts = latest_ts + 1
        /\ \A p \in Previous(id) : p.value # Deleted
        /\ latest_ts' = latest_ts + 1
        /\ history' = history \cup {rev} /\ documents' = documents \cup {rev}
        /\ indexes' = indexes \cup new
        /\ UNCHANGED <<repeatable_ts, min_persisted, confirmed, leaderVars, reader>>
    BY <1>1, CommitFacts
  <2>2. new \in SUBSET Rows
    <3>1. latest_ts + 1 \in Timestamps
      BY <2>1 DEF Revisions
    <3>2. \A p \in Previous(id) : p.value \in Values
      BY <1>0, <2>1 DEF Previous, Revisions
    <3>3. ASSUME NEW h \in new PROVE h \in Rows
      <4>1. \/ \E p \in Previous(id) :
                 h = [id |-> id, value |-> p.value, ts |-> latest_ts + 1, deleted |-> TRUE]
            \/ /\ value # Deleted
               /\ h = [id |-> id, value |-> value, ts |-> latest_ts + 1, deleted |-> FALSE]
        BY DEF IndexRows
      <4>2. ASSUME NEW v \in Values, NEW gone \in BOOLEAN
            PROVE  [id |-> id, value |-> v, ts |-> latest_ts + 1, deleted |-> gone] \in Rows
        BY <3>1 DEF Rows
      <4>3. value # Deleted => value \in Values
        OBVIOUS
      <4> QED
        BY <3>2, <4>1, <4>2, <4>3
    <3> QED
      BY <3>3
  <2> HIDE DEF rev, new
  <2>3. latest_ts' \in Timestamps
    BY <2>1 DEF Revisions
  <2> QED
    BY <1>0, <2>1, <2>2, <2>3, TypesNext DEF leaderVars
<1>2. CASE BumpRepeatable
  BY <1>0, <1>2, TypesNext DEF BumpRepeatable, leaderVars
<1>3. CASE AdvanceFails \/ EmitTimestamp \/ AdvancePersist \/ AdvanceMemory
  <2>0. advance.type \in RetentionTypes /\ advance.ts \in Timestamps
    BY <1>0 DEF AdvanceType
  <2>1. Idle \in AdvanceType /\ \A step \in {"memory", "emit"} : [advance EXCEPT !.step = step] \in AdvanceType
    BY <1>0, TimeTypes DEF Idle, AdvanceType
  <2>2. CASE AdvanceFails
    BY <1>0, <2>1, <2>2, TypesNext DEF AdvanceFails, storeVars
  <2>3. CASE EmitTimestamp
    <3>1. watch' \in [RetentionTypes -> Timestamps] /\ advance' \in AdvanceType
      BY <1>0, <2>0, <2>1, <2>3 DEF EmitTimestamp
    <3> QED
      BY <1>0, <2>3, <3>1, TypesNext DEF EmitTimestamp, storeVars
  <2>4. CASE AdvancePersist
    <3>1. min_persisted' \in [RetentionTypes -> Timestamps] /\ advance' \in AdvanceType
      BY <1>0, <2>0, <2>1, <2>4 DEF AdvancePersist, PersistBound
    <3> QED
      BY <1>0, <2>4, <3>1, TypesNext DEF AdvancePersist, storeVars
  <2>5. CASE AdvanceMemory
    <3>1. Max({bounds[advance.type], advance.ts}) \in Timestamps
      BY <1>0, <2>0, MaxIsGreatest
    <3>2. bounds' \in [RetentionTypes -> Timestamps] /\ advance' \in AdvanceType
      BY <1>0, <2>0, <2>1, <2>5, <3>1 DEF AdvanceMemory
    <3> QED
      BY <1>0, <2>5, <3>2, TypesNext DEF AdvanceMemory, storeVars
  <2> QED
    BY <1>3, <2>2, <2>3, <2>4, <2>5
<1>4. CASE Restart
  <2>1. deleter' \in [RetentionTypes -> DeleterType]
    BY <1>0, <1>4, WaitingType DEF Restart
  <2>2. Zero \in [RetentionTypes -> Timestamps] /\ Idle \in AdvanceType /\ NoRead \in ReaderType
    BY TimeTypes DEF Zero, Idle, AdvanceType, NoRead, ReaderType
  <2>3. reader' \in ReaderType
    BY <1>0, <1>4, <2>2 DEF Restart
  <2> QED
    BY <1>0, <1>4, <2>1, <2>2, <2>3, TypesNext DEF Restart, storeVars
<1>5. CASE ValidateSnapshot \/ FinishRead
  <2>1. NoRead \in ReaderType
    BY TimeTypes DEF NoRead, ReaderType
  <2>2. [NoRead EXCEPT !.step = "accepted", !.good = reader.good] \in ReaderType
    BY <1>0, <2>1 DEF ReaderType
  <2>3. reader' \in ReaderType /\ UNCHANGED <<storeVars, min_persisted, confirmed, leaderVars>>
    BY <1>5, <2>1, <2>2 DEF ValidateSnapshot, FinishRead
  <2> QED
    BY <1>0, <2>3, TypesNext DEF storeVars, leaderVars
<1>6. ASSUME NEW type \in RetentionTypes, NEW leader \in BOOLEAN, NEW ts \in Timestamps,
             Read(leader, type, ts)
      PROVE  TypeOK'
  <2>1. reader' \in ReaderType
    <3>1. IndexScanGood(ts) \in BOOLEAN /\ DocumentScanGood(ts) \in BOOLEAN
      BY DEF IndexScanGood, DocumentScanGood
    <3> QED
      BY <1>6, <3>1 DEF Read, ReaderType
  <2> QED
    BY <1>0, <1>6, <2>1, TypesNext DEF Read, storeVars, leaderVars
<1>7. ASSUME NEW type \in RetentionTypes, NEW ts \in Timestamps, AdvanceTimestamp(type, ts)
      PROVE  TypeOK'
  <2>1. advance' \in AdvanceType
    BY <1>7 DEF AdvanceTimestamp, AdvanceType
  <2> QED
    BY <1>0, <1>7, <2>1, TypesNext DEF AdvanceTimestamp, storeVars
<1>d. ASSUME NEW type \in RetentionTypes, NEW d \in DeleterType, Deleter(type, d)
      PROVE  deleter' \in [RetentionTypes -> DeleterType]
  BY <1>0, <1>d DEF Deleter
<1>8. ASSUME NEW type \in RetentionTypes,
             \/ \E end \in Timestamps : StartDelete(type, end)
             \/ \E chunk \in SUBSET deleter[type].todo : TakeChunk(type, chunk)
             \/ \E step \in {"wait", "checkpoint"} : DeleteReturns(type, step)
             \/ DeleteFails(type) \/ CheckpointFails(type)
      PROVE  TypeOK'
  <2> DEFINE d == deleter[type]
  <2>0. d \in DeleterType
    BY <1>0
  <2>1. deleter' \in [RetentionTypes -> DeleterType]
    <3>1. ASSUME NEW end \in Timestamps, StartDelete(type, end)
          PROVE  deleter' \in [RetentionTypes -> DeleterType]
      <4> DEFINE e == Expired(type, d.cursor, end)
      <4>1. e \in SUBSET ExpiredRows
        BY ExpiredType
      <4>2. Deleter(type, [d EXCEPT !.step = "delete", !.end = end,
                                    !.new_cursor = d.cursor, !.todo = e])
        BY <3>1 DEF StartDelete
      <4> HIDE DEF e, d
      <4>3. [d EXCEPT !.step = "delete", !.end = end, !.new_cursor = d.cursor, !.todo = e]
              \in DeleterType
        BY <2>0, <4>1 DEF DeleterType
      <4> QED
        BY <1>d, <4>2, <4>3
    <3>2. ASSUME NEW chunk \in SUBSET d.todo, TakeChunk(type, chunk)
          PROVE  deleter' \in [RetentionTypes -> DeleterType]
      <4> DEFINE n == Max({d.new_cursor, chunk_cursor(chunk)})
      <4>1. /\ Deleter(type, [d EXCEPT !.chunk = chunk, !.todo = @ \ chunk, !.new_cursor = n])
            /\ chunk # {}
        BY <3>2 DEF TakeChunk
      <4>2. chunk \in SUBSET ExpiredRows /\ d.new_cursor \in Timestamps
        BY <2>0, <3>2 DEF DeleterType
      <4>3. n \in Timestamps
        BY <4>1, <4>2, ChunkCursor
      <4> HIDE DEF n, d
      <4>4. [d EXCEPT !.chunk = chunk, !.todo = @ \ chunk, !.new_cursor = n] \in DeleterType
        BY <2>0, <4>2, <4>3 DEF DeleterType
      <4> QED
        BY <1>d, <4>1, <4>4
    <3>3. ASSUME NEW step \in {"wait", "checkpoint"}, DeleteReturns(type, step)
          PROVE  deleter' \in [RetentionTypes -> DeleterType]
      <4>1. PICK cursor \in {d.end - 1, d.new_cursor} :
              Deleter(type, [Waiting(cursor) EXCEPT !.step = step])
        BY <3>3 DEF DeleteReturns
      <4>2. d.end \in Timestamps /\ d.new_cursor \in Timestamps /\ d.new_cursor < d.end
        BY <2>0, <3>3, Deleting DEF DeleteReturns, DeleterType
      <4>3. cursor \in Timestamps
        BY <4>1, <4>2 DEF Timestamps
      <4>4. [Waiting(cursor) EXCEPT !.step = step] \in DeleterType
        BY <4>3, WaitingType DEF DeleterType
      <4> QED
        BY <1>d, <4>1, <4>4
    <3>4. ASSUME DeleteFails(type) \/ CheckpointFails(type)
          PROVE  deleter' \in [RetentionTypes -> DeleterType]
      <4>1. Deleter(type, Waiting(d.cursor)) /\ d.cursor \in Timestamps
        BY <2>0, <3>4 DEF DeleteFails, CheckpointFails, DeleterType
      <4> QED
        BY <1>d, <4>1, WaitingType
    <3> QED
      BY <1>8, <3>1, <3>2, <3>3, <3>4
  <2> QED
    BY <1>0, <1>8, <2>1, DeleterFrame, TypesNext DEF storeVars
<1>9. ASSUME NEW type \in RetentionTypes, NEW x \in deleter[type].chunk, DeletePart(type, x)
      PROVE  TypeOK'
  <2> DEFINE d == deleter[type]
             part == {y \in d.chunk : y.id = x.id /\ y.value = x.value}
  <2>0. d \in DeleterType
    BY <1>0
  <2>1. /\ indexes' \subseteq indexes /\ documents' \subseteq documents
        /\ Deleter(type, [d EXCEPT !.chunk = @ \ part])
        /\ UNCHANGED <<history, latest_ts, repeatable_ts, min_persisted, confirmed, bounds,
                       checkpoint, watch, advance, reader>>
    BY <1>9 DEF DeletePart
  <2> HIDE DEF d, part
  <2>2. [d EXCEPT !.chunk = @ \ part] \in DeleterType
    BY <2>0 DEF DeleterType
  <2>3. deleter' \in [RetentionTypes -> DeleterType]
    BY <1>d, <2>1, <2>2
  <2> QED
    BY <1>0, <2>1, <2>3, TypesNext
<1>10. ASSUME NEW type \in RetentionTypes, CheckpointPersist(type) \/ CheckpointMemory(type)
       PROVE  TypeOK'
  <2> DEFINE d == deleter[type]
  <2>0. d \in DeleterType /\ d.cursor \in Timestamps
    BY <1>0 DEF DeleterType
  <2>1. CASE CheckpointPersist(type)
    <3>1. [d EXCEPT !.step = "confirmed"] \in DeleterType
      BY <2>0 DEF DeleterType
    <3>2. deleter' \in [RetentionTypes -> DeleterType]
      BY <1>d, <2>1, <3>1 DEF CheckpointPersist
    <3>3. confirmed' \in [RetentionTypes -> Timestamps]
      BY <1>0, <2>0, <2>1 DEF CheckpointPersist
    <3> QED
      BY <1>0, <2>1, <3>2, <3>3, TypesNext DEF CheckpointPersist, storeVars
  <2>2. CASE CheckpointMemory(type)
    <3>1. deleter' \in [RetentionTypes -> DeleterType]
      BY <1>d, <2>0, <2>2, WaitingType DEF CheckpointMemory
    <3>2. Max({checkpoint[type], d.cursor}) \in Timestamps
      BY <1>0, <2>0, MaxIsGreatest
    <3>3. checkpoint' \in [RetentionTypes -> Timestamps]
      BY <1>0, <2>2, <3>2 DEF CheckpointMemory
    <3> QED
      BY <1>0, <2>2, <3>1, <3>3, TypesNext DEF CheckpointMemory, storeVars
  <2> QED
    BY <1>10, <2>1, <2>2
<1>11. CASE UNCHANGED vars
  BY <1>0, <1>11, TypesNext DEF vars, storeVars, leaderVars
<1> QED
  BY <1>1, <1>2, <1>3, <1>4, <1>5, <1>6, <1>7, <1>8, <1>9, <1>10, <1>11 DEF Next

-----------------------------------------------------------------------------
(* The bounds.                                                             *)

\* Between restarts a deleter's cursor only moves forward, below the bound.
Forward(t) ==
  /\ deleter[t].cursor <= deleter'[t].cursor /\ deleter'[t].cursor <= bounds[t]
  /\ deleter'[t].step = "confirmed" =>
       deleter[t].step = "confirmed" /\ deleter'[t].cursor = deleter[t].cursor

LEMMA CursorStep ==
  ASSUME TypeOK, BoundsInv, IndexDeleterInv, DocumentDeleterInv, [Next]_vars, ~Restart,
         ~(\E type \in RetentionTypes : CheckpointPersist(type)), NEW t \in RetentionTypes
  PROVE  Forward(t)
<1>0. /\ deleter \in [RetentionTypes -> DeleterType] /\ bounds[t] \in Timestamps
      /\ deleter[t].cursor \in Timestamps /\ deleter[t].cursor <= bounds[t]
  BY Types DEF DeleterType, BoundsInv
<1>1. ASSUME deleter'[t] = deleter[t]
      PROVE  Forward(t)
  BY <1>0, <1>1 DEF Timestamps, Forward
<1>a. ASSUME deleter'[t].cursor = deleter[t].cursor, deleter'[t].step # "confirmed"
      PROVE  Forward(t)
  BY <1>0, <1>a DEF Timestamps, Forward
<1>2. ASSUME NEW type \in RetentionTypes, NEW d, Deleter(type, d)
      PROVE  deleter'[type] = d /\ (t # type => deleter'[t] = deleter[t])
  BY <1>0, <1>2 DEF Deleter
<1>z. ASSUME NEW type \in RetentionTypes, NEW d, Deleter(type, d),
             d.cursor = deleter[type].cursor, d.step # "confirmed"
      PROVE  Forward(t)
  <2>1. CASE t = type
    BY <1>2, <1>a, <1>z, <2>1
  <2>2. CASE t # type
    BY <1>1, <1>2, <1>z, <2>2
  <2> QED
    BY <2>1, <2>2
<1>3. ASSUME NEW type \in RetentionTypes, NEW step \in {"wait", "checkpoint"},
             DeleteReturns(type, step)
      PROVE  Forward(t)
  <2> DEFINE d == deleter[type]
  <2>1. PICK cursor \in {d.end - 1, d.new_cursor} :
          Deleter(type, [Waiting(cursor) EXCEPT !.step = step])
    BY <1>3 DEF DeleteReturns
  <2>2. /\ d.cursor <= d.new_cursor /\ d.new_cursor < d.end /\ d.end <= bounds[type]
        /\ d.cursor \in Nat /\ d.new_cursor \in Nat /\ d.end \in Nat /\ bounds[type] \in Nat
    BY <1>3, Deleting, Types, TimeTypes DEF DeleteReturns, DeleterType
  <2>3. /\ [Waiting(cursor) EXCEPT !.step = step].cursor = cursor
        /\ [Waiting(cursor) EXCEPT !.step = step].step = step
    BY DEF Waiting
  <2>4. d.cursor <= cursor /\ cursor <= bounds[type]
    BY <2>1, <2>2
  <2> HIDE DEF d
  <2>5. CASE t = type
    BY <1>2, <2>1, <2>3, <2>4, <2>5 DEF d, Forward
  <2>6. CASE t # type
    BY <1>1, <1>2, <2>1, <2>6
  <2> QED
    BY <2>5, <2>6
<1>4. ASSUME NEW type \in RetentionTypes,
             \/ \E end \in Timestamps : StartDelete(type, end)
             \/ \E chunk \in SUBSET deleter[type].todo : TakeChunk(type, chunk)
             \/ \E x \in deleter[type].chunk : DeletePart(type, x)
             \/ DeleteFails(type) \/ CheckpointFails(type) \/ CheckpointMemory(type)
      PROVE  Forward(t)
  <2> DEFINE d == deleter[type]
  <2>0. d \in DeleterType
    BY <1>0
  <2>a. /\ Waiting(d.cursor).cursor = d.cursor /\ Waiting(d.cursor).step # "confirmed"
    BY DEF Waiting
  <2>1. CASE \E end \in Timestamps : StartDelete(type, end)
    <3>1. PICK end, e : Deleter(type, [d EXCEPT !.step = "delete", !.end = end,
                                                !.new_cursor = d.cursor, !.todo = e])
      BY <2>1, Zenon DEF StartDelete
    <3> DEFINE n == [d EXCEPT !.step = "delete", !.end = end, !.new_cursor = d.cursor,
                              !.todo = e]
    <3>2. n.cursor = d.cursor /\ n.step = "delete"
      BY <2>0 DEF DeleterType
    <3>3. Deleter(type, n)
      BY <3>1
    <3> HIDE DEF n
    <3> QED
      BY <1>z, <3>2, <3>3
  <2>2. CASE \E chunk \in SUBSET deleter[type].todo : TakeChunk(type, chunk)
    <3>1. PICK chunk, c : Deleter(type, [d EXCEPT !.chunk = chunk, !.todo = @ \ chunk,
                                                  !.new_cursor = c])
      BY <2>2, Zenon DEF TakeChunk
    <3>2. d.step = "delete"
      BY <2>2 DEF TakeChunk
    <3> DEFINE n == [d EXCEPT !.chunk = chunk, !.todo = @ \ chunk, !.new_cursor = c]
    <3>3. n.cursor = d.cursor /\ n.step = d.step
      BY <2>0 DEF DeleterType
    <3>4. Deleter(type, n)
      BY <3>1
    <3> HIDE DEF n
    <3> QED
      BY <1>z, <3>2, <3>3, <3>4
  <2>3. CASE \E x \in deleter[type].chunk : DeletePart(type, x)
    <3>1. PICK part : Deleter(type, [d EXCEPT !.chunk = @ \ part])
      BY <2>3, Zenon DEF DeletePart
    <3>2. d.step = "delete"
      BY <2>3 DEF DeletePart
    <3> DEFINE n == [d EXCEPT !.chunk = @ \ part]
    <3>3. n.cursor = d.cursor /\ n.step = d.step
      BY <2>0 DEF DeleterType
    <3>4. Deleter(type, n)
      BY <3>1
    <3> HIDE DEF n
    <3> QED
      BY <1>z, <3>2, <3>3, <3>4
  <2>4. CASE DeleteFails(type) \/ CheckpointFails(type) \/ CheckpointMemory(type)
    <3>1. Deleter(type, Waiting(d.cursor))
      BY <2>4 DEF DeleteFails, CheckpointFails, CheckpointMemory
    <3> QED
      BY <1>z, <2>a, <3>1
  <2> QED
    BY <1>4, <2>1, <2>2, <2>3, <2>4
<1>5. ASSUME NEW type \in RetentionTypes,
             \/ \E ts \in Timestamps : AdvanceTimestamp(type, ts)
             \/ \E leader \in BOOLEAN, ts \in Timestamps : Read(leader, type, ts)
      PROVE  deleter' = deleter
  BY <1>5 DEF AdvanceTimestamp, Read, leaderVars
<1>6. ASSUME NEW id, NEW value, Commit(id, value) PROVE deleter' = deleter
  BY <1>6 DEF Commit, leaderVars
<1>7. CASE BumpRepeatable \/ AdvancePersist \/ AdvanceMemory \/ AdvanceFails \/ EmitTimestamp
           \/ ValidateSnapshot \/ FinishRead \/ UNCHANGED vars
  BY <1>1, <1>7 DEF BumpRepeatable, AdvancePersist, AdvanceMemory, AdvanceFails,
     EmitTimestamp, ValidateSnapshot, FinishRead, vars, leaderVars
<1> QED
  BY <1>1, <1>3, <1>4, <1>5, <1>6, <1>7 DEF Next

\* The numbers the bounds are about.
LEMMA Numbers ==
  ASSUME TypeOK, NEW t \in RetentionTypes
  PROVE  /\ min_persisted[t] \in Nat /\ confirmed[t] \in Nat /\ bounds[t] \in Nat
         /\ checkpoint[t] \in Nat /\ watch[t] \in Nat /\ deleter[t].cursor \in Nat
         /\ Delay[t] \in Nat /\ repeatable_ts \in Nat /\ latest_ts \in Nat
         /\ advance.ts \in Nat /\ advance.type \in RetentionTypes
BY Types, TimeTypes DEF DeleterType, AdvanceType

\* A step that only moves cursors, commits or publishes a repeatable ts.
LEMMA BoundsKept ==
  ASSUME TypeOK, TypeOK', BoundsInv, AdvanceInv,
         UNCHANGED <<min_persisted, confirmed, bounds, checkpoint, watch>>,
         repeatable_ts <= repeatable_ts', repeatable_ts' <= latest_ts',
         advance' = advance \/ advance' = Idle,
         \A t \in RetentionTypes : Forward(t)
  PROVE  BoundsInv' /\ AdvanceInv'
<1>0. ASSUME NEW t \in RetentionTypes
      PROVE  /\ min_persisted[t] \in Nat /\ confirmed[t] \in Nat /\ bounds[t] \in Nat
             /\ checkpoint[t] \in Nat /\ watch[t] \in Nat /\ deleter[t].cursor \in Nat
             /\ Delay[t] \in Nat /\ repeatable_ts \in Nat /\ latest_ts \in Nat
             /\ advance.ts \in Nat /\ advance.type \in RetentionTypes
             /\ deleter'[t].cursor \in Nat /\ repeatable_ts' \in Nat
  BY Numbers, TimeTypes DEF TypeOK
<1>i. "index" \in RetentionTypes /\ "document" \in RetentionTypes
  BY DEF RetentionTypes
<1>1. BoundsOrdered'
  BY <1>0, <1>i DEF BoundsInv, BoundsOrdered
<1>2. BoundsInv'
  BY <1>0, <1>1, <1>i DEF BoundsInv, Forward
<1>3. AdvanceInv'
  <2>1. CASE advance' = advance
    BY <1>0, <1>i, <2>1 DEF AdvanceInv
  <2>2. CASE advance' = Idle
    BY <2>2 DEF AdvanceInv, Idle
  <2> QED
    BY <2>1, <2>2
<1> QED
  BY <1>2, <1>3

LEMMA BoundsStep ==
  ASSUME TypeOK, TypeOK', BoundsInv, AdvanceInv, IndexDeleterInv, DocumentDeleterInv,
         [Next]_vars
  PROVE  BoundsInv' /\ AdvanceInv'
<1>i. "index" \in RetentionTypes /\ "document" \in RetentionTypes
      /\ RetentionTypes = {"index", "document"}
  BY DEF RetentionTypes
<1>0. ASSUME NEW t \in RetentionTypes
      PROVE  /\ min_persisted[t] \in Nat /\ confirmed[t] \in Nat /\ bounds[t] \in Nat
             /\ checkpoint[t] \in Nat /\ watch[t] \in Nat /\ deleter[t].cursor \in Nat
             /\ Delay[t] \in Nat /\ repeatable_ts \in Nat /\ latest_ts \in Nat
             /\ advance.ts \in Nat /\ advance.type \in RetentionTypes
  BY Numbers
<1>t. /\ min_persisted \in [RetentionTypes -> Timestamps]
      /\ confirmed \in [RetentionTypes -> Timestamps]
      /\ bounds \in [RetentionTypes -> Timestamps]
      /\ checkpoint \in [RetentionTypes -> Timestamps]
      /\ watch \in [RetentionTypes -> Timestamps] /\ advance \in AdvanceType
      /\ deleter \in [RetentionTypes -> DeleterType]
  BY Types
<1>k. ASSUME UNCHANGED <<min_persisted, confirmed, bounds, checkpoint, watch>>,
             repeatable_ts <= repeatable_ts', repeatable_ts' <= latest_ts',
             advance' = advance \/ advance' = Idle, ~Restart,
             ~(\E t \in RetentionTypes : CheckpointPersist(t))
      PROVE  BoundsInv' /\ AdvanceInv'
  BY <1>k, CursorStep, BoundsKept
<1>r. repeatable_ts <= repeatable_ts /\ repeatable_ts <= latest_ts
      /\ latest_ts <= latest_ts + 1 /\ repeatable_ts <= latest_ts + 1
  BY <1>0, <1>i DEF BoundsInv
<1>b. ASSUME NEW t \in RetentionTypes
      PROVE  /\ watch[t] <= bounds[t] /\ bounds[t] <= min_persisted[t]
             /\ confirmed[t] <= min_persisted[t]
             /\ confirmed[t] <= deleter[t].cursor /\ deleter[t].cursor <= bounds[t]
             /\ deleter[t].step = "confirmed" => deleter[t].cursor <= confirmed[t]
             /\ min_persisted[t] = 0 \/ min_persisted[t] + Delay[t] <= repeatable_ts
  BY DEF BoundsInv, BoundsOrdered
<1>c. /\ min_persisted["document"] <= confirmed["index"]
      /\ min_persisted["document"] <= min_persisted["index"]
      /\ min_persisted["index"] <= repeatable_ts /\ repeatable_ts <= latest_ts
      /\ checkpoint["index"] <= confirmed["index"]
      /\ checkpoint["index"] = 0 \/ min_persisted["document"] <= checkpoint["index"]
  BY DEF BoundsInv, BoundsOrdered
<1>1. ASSUME NEW id, NEW value, Commit(id, value) PROVE BoundsInv' /\ AdvanceInv'
  <2>1. /\ UNCHANGED <<min_persisted, confirmed, bounds, checkpoint, watch, advance, deleter>>
        /\ repeatable_ts' = repeatable_ts /\ latest_ts' = latest_ts + 1
    BY <1>1 DEF Commit, leaderVars
  <2>2. \A t \in RetentionTypes : Forward(t)
    BY <1>0, <1>b, <2>1 DEF Forward
  <2> QED
    BY <1>r, <2>1, <2>2, BoundsKept
<1>2. CASE BumpRepeatable
  <2>1. /\ UNCHANGED <<min_persisted, confirmed, bounds, checkpoint, watch, advance, deleter>>
        /\ repeatable_ts' = latest_ts /\ latest_ts' = latest_ts
    BY <1>2 DEF BumpRepeatable, leaderVars
  <2>2. latest_ts <= latest_ts /\ \A t \in RetentionTypes : Forward(t)
    BY <1>0, <1>b, <1>i, <2>1 DEF Forward
  <2> QED
    BY <1>r, <2>1, <2>2, BoundsKept
<1>3. ASSUME NEW t \in RetentionTypes,
             \/ \E end \in Timestamps : StartDelete(t, end)
             \/ \E chunk \in SUBSET deleter[t].todo : TakeChunk(t, chunk)
             \/ \E y \in deleter[t].chunk : DeletePart(t, y)
             \/ \E step \in {"wait", "checkpoint"} : DeleteReturns(t, step)
             \/ DeleteFails(t) \/ CheckpointFails(t)
             \/ \E leader \in BOOLEAN, ts \in Timestamps : Read(leader, t, ts),
             ~Restart, ~(\E type \in RetentionTypes : CheckpointPersist(type))
      PROVE  BoundsInv' /\ AdvanceInv'
  <2>1. UNCHANGED <<min_persisted, confirmed, bounds, checkpoint, watch, repeatable_ts,
                    latest_ts, advance>>
    BY <1>3 DEF StartDelete, TakeChunk, DeletePart, DeleteReturns, DeleteFails,
       CheckpointFails, Read, storeVars, leaderVars
  <2> QED
    BY <1>3, <1>k, <1>r, <2>1
<1>4. CASE /\ AdvanceFails \/ ValidateSnapshot \/ FinishRead \/ UNCHANGED vars
           /\ ~Restart /\ ~(\E type \in RetentionTypes : CheckpointPersist(type))
  <2>1. /\ UNCHANGED <<min_persisted, confirmed, bounds, checkpoint, watch, repeatable_ts,
                       latest_ts>>
        /\ advance' = advance \/ advance' = Idle
    BY <1>4 DEF AdvanceFails, ValidateSnapshot, FinishRead, vars, storeVars, leaderVars
  <2> QED
    BY <1>4, <1>k, <1>r, <2>1
<1>5. ASSUME NEW t \in RetentionTypes, NEW ts \in Timestamps, AdvanceTimestamp(t, ts)
      PROVE  BoundsInv' /\ AdvanceInv'
  <2>1. /\ UNCHANGED <<min_persisted, confirmed, bounds, checkpoint, watch, repeatable_ts,
                       latest_ts, deleter>>
        /\ advance' = [step |-> "persist", type |-> t, ts |-> ts]
        /\ ts \in candidate_min_snapshot_ts(t) /\ bounds[t] < ts
    BY <1>5 DEF AdvanceTimestamp, storeVars
  <2>2. BoundsInv'
    BY <2>1 DEF BoundsInv, BoundsOrdered
  <2>3. Delay[t] <= repeatable_ts /\ repeatable_ts - Delay[t] \in Int
    BY <2>1, <1>0 DEF candidate_min_snapshot_ts
  <2>a. ts \in Nat
    BY TimeTypes
  <2>4. /\ min_persisted[t] <= ts /\ ts + Delay[t] <= repeatable_ts
        /\ t = "document" => ts <= checkpoint["index"]
    <3>1. CASE t = "index"
      <4>1. ts = repeatable_ts - Delay[t]
        BY <2>1, <2>3, <3>1, <1>0 DEF candidate_min_snapshot_ts
      <4> QED
        BY <1>0, <1>b, <2>3, <2>a, <3>1, <4>1
    <3>2. CASE t = "document"
      <4>1. ts = Min({repeatable_ts - Delay[t], checkpoint["index"]})
        BY <2>1, <2>3, <3>2, <1>0 DEF candidate_min_snapshot_ts
      <4>2. checkpoint["index"] \in Int
        BY <1>0, <1>i
      <4>3. /\ ts \in {repeatable_ts - Delay[t], checkpoint["index"]}
            /\ ts <= repeatable_ts - Delay[t] /\ ts <= checkpoint["index"]
        BY <2>3, <4>1, <4>2, MinPair
      <4>4. checkpoint["index"] # 0
        BY <1>0, <1>i, <2>1, <2>a, <4>3
      <4> QED
        BY <1>0, <1>i, <1>b, <1>c, <2>3, <2>a, <3>2, <4>3, <4>4
    <3> QED
      BY <1>i, <3>1, <3>2
  <2>5. AdvanceInv'
    BY <2>1, <2>4 DEF AdvanceInv
  <2> QED
    BY <2>2, <2>5
<1>6. CASE AdvancePersist
  <2> DEFINE a == advance.type
  <2>1. /\ UNCHANGED <<confirmed, bounds, checkpoint, watch, repeatable_ts, latest_ts, deleter>>
        /\ advance.step = "persist" /\ advance' = [advance EXCEPT !.step = "memory"]
        /\ min_persisted' = [min_persisted EXCEPT ![a] = advance.ts]
    BY <1>6 DEF AdvancePersist, PersistBound, storeVars
  <2>2. /\ min_persisted[a] <= advance.ts /\ advance.ts + Delay[a] <= repeatable_ts
        /\ a = "document" => advance.ts <= checkpoint["index"]
        /\ a \in RetentionTypes
    BY <1>0, <1>i, <2>1 DEF AdvanceInv
  <2>3. \A t \in RetentionTypes :
          min_persisted'[t] = IF t = a THEN advance.ts ELSE min_persisted[t]
    BY <1>t, <2>1, <2>2
  <2>4. advance'.step = "memory" /\ advance'.type = a /\ advance'.ts = advance.ts
    BY <1>t, <2>1 DEF AdvanceType
  <2> HIDE DEF a
  <2>5. AdvanceInv'
    BY <1>0, <1>i, <2>2, <2>3, <2>4 DEF AdvanceInv
  <2>6. \A t \in RetentionTypes :
          /\ bounds[t] <= min_persisted'[t] /\ confirmed[t] <= min_persisted'[t]
          /\ min_persisted'[t] = 0 \/ min_persisted'[t] + Delay[t] <= repeatable_ts
    BY <1>0, <1>b, <2>2, <2>3
  <2>7. /\ min_persisted'["document"] <= confirmed["index"]
        /\ min_persisted'["document"] <= min_persisted'["index"]
        /\ min_persisted'["index"] <= repeatable_ts
        /\ checkpoint["index"] = 0 \/ min_persisted'["document"] <= checkpoint["index"]
    <3>1. CASE a = "document"
      <4>1. /\ min_persisted'["document"] = advance.ts
            /\ min_persisted'["index"] = min_persisted["index"]
        BY <1>i, <2>3, <3>1
      <4>2. advance.ts <= checkpoint["index"] /\ checkpoint["index"] <= confirmed["index"]
            /\ confirmed["index"] <= min_persisted["index"]
        BY <1>b, <1>c, <1>i, <2>2, <3>1
      <4> QED
        BY <1>0, <1>i, <1>c, <4>1, <4>2
    <3>2. CASE a = "index"
      <4>1. /\ min_persisted'["document"] = min_persisted["document"]
            /\ min_persisted'["index"] = advance.ts
        BY <1>i, <2>3, <3>2
      <4>2. /\ min_persisted["index"] <= advance.ts
            /\ advance.ts + Delay["index"] <= repeatable_ts
        BY <2>2, <3>2
      <4> QED
        BY <1>0, <1>i, <1>c, <4>1, <4>2
    <3> QED
      BY <1>i, <2>2, <3>1, <3>2
  <2>8. BoundsInv'
    BY <1>b, <1>c, <2>1, <2>6, <2>7 DEF BoundsInv, BoundsOrdered
  <2> QED
    BY <2>5, <2>8
<1>7. CASE AdvanceMemory
  <2> DEFINE a == advance.type
             new == Max({bounds[a], advance.ts})
  <2>1. /\ UNCHANGED <<min_persisted, confirmed, checkpoint, watch, repeatable_ts, latest_ts,
                       deleter>>
        /\ advance.step = "memory" /\ advance' = [advance EXCEPT !.step = "emit"]
        /\ bounds' = [bounds EXCEPT ![a] = Max({@, advance.ts})]
    BY <1>7 DEF AdvanceMemory, storeVars
  <2>2. advance.ts <= min_persisted[a] /\ a \in RetentionTypes
    BY <1>0, <1>i, <2>1 DEF AdvanceInv
  <2>a. bounds[a] \in Int /\ advance.ts \in Int
    BY <1>0, <2>2
  <2>3. new \in {bounds[a], advance.ts} /\ bounds[a] <= new /\ advance.ts <= new
    BY <2>a, MaxPair
  <2>4. \A t \in RetentionTypes : bounds'[t] = IF t = a THEN new ELSE bounds[t]
    BY <1>t, <2>1, <2>2
  <2>5. advance'.step = "emit" /\ advance'.type = a /\ advance'.ts = advance.ts
    BY <1>t, <2>1 DEF AdvanceType
  <2> HIDE DEF a, new
  <2>6. AdvanceInv'
    BY <2>2, <2>3, <2>4, <2>5 DEF AdvanceInv
  <2>7. \A t \in RetentionTypes :
          /\ watch[t] <= bounds'[t] /\ bounds'[t] <= min_persisted[t]
          /\ deleter[t].cursor <= bounds'[t]
    BY <1>0, <1>b, <2>2, <2>3, <2>4
  <2>8. BoundsInv'
    BY <1>b, <1>c, <2>1, <2>7 DEF BoundsInv, BoundsOrdered
  <2> QED
    BY <2>6, <2>8
<1>8. CASE EmitTimestamp
  <2>1. /\ UNCHANGED <<min_persisted, confirmed, bounds, checkpoint, repeatable_ts, latest_ts,
                       deleter>>
        /\ advance.step = "emit" /\ advance' = Idle
        /\ watch' = watch \/ watch' = [watch EXCEPT ![advance.type] = advance.ts]
    BY <1>8 DEF EmitTimestamp, storeVars
  <2>2. advance.ts <= bounds[advance.type]
    BY <2>1 DEF AdvanceInv
  <2>3. \A t \in RetentionTypes : watch'[t] <= bounds[t]
    BY <1>b, <1>t, <2>1, <2>2
  <2>4. AdvanceInv'
    BY <2>1 DEF AdvanceInv, Idle
  <2>5. BoundsInv'
    BY <2>1, <2>3 DEF BoundsInv, BoundsOrdered
  <2> QED
    BY <2>4, <2>5
<1>9. ASSUME NEW t \in RetentionTypes, CheckpointPersist(t) PROVE BoundsInv' /\ AdvanceInv'
  <2> DEFINE dt == deleter[t]
  <2>1. /\ UNCHANGED <<min_persisted, bounds, checkpoint, watch, advance, repeatable_ts,
                       latest_ts>>
        /\ confirmed' = [confirmed EXCEPT ![t] = dt.cursor]
        /\ Deleter(t, [dt EXCEPT !.step = "confirmed"])
    BY <1>9 DEF CheckpointPersist, storeVars
  <2>0. dt \in DeleterType
    BY <1>t
  <2>2. \A n \in RetentionTypes : /\ deleter'[n].cursor = deleter[n].cursor
                                  /\ n # t => deleter'[n].step = deleter[n].step
    <3>1. [dt EXCEPT !.step = "confirmed"].cursor = dt.cursor
      BY <2>0 DEF DeleterType
    <3> QED
      BY <1>t, <2>1, <3>1 DEF Deleter
  <2>3. \A n \in RetentionTypes :
          confirmed'[n] = IF n = t THEN deleter[n].cursor ELSE confirmed[n]
    BY <1>t, <2>1
  <2>4. \A n \in RetentionTypes :
          /\ confirmed[n] <= confirmed'[n] /\ confirmed'[n] <= min_persisted[n]
          /\ confirmed'[n] <= deleter'[n].cursor /\ deleter'[n].cursor <= bounds[n]
          /\ deleter'[n].step = "confirmed" => deleter'[n].cursor <= confirmed'[n]
          /\ confirmed'[n] \in Nat
    <3>1. ASSUME NEW n \in RetentionTypes, n = t
          PROVE  confirmed'[n] = deleter'[n].cursor /\ deleter'[n].cursor = deleter[n].cursor
      BY <2>2, <2>3, <3>1
    <3>2. ASSUME NEW n \in RetentionTypes, n # t
          PROVE  /\ confirmed'[n] = confirmed[n] /\ deleter'[n].cursor = deleter[n].cursor
                 /\ deleter'[n].step = deleter[n].step
      BY <2>2, <2>3, <3>2
    <3> QED
      BY <1>0, <1>b, <3>1, <3>2
  <2>5. min_persisted["document"] <= confirmed'["index"]
        /\ checkpoint["index"] <= confirmed'["index"]
    BY <1>0, <1>c, <1>i, <2>4
  <2>6. BoundsInv'
    BY <1>b, <1>c, <2>1, <2>4, <2>5 DEF BoundsInv, BoundsOrdered
  <2>7. AdvanceInv'
    BY <2>1 DEF AdvanceInv
  <2> QED
    BY <2>6, <2>7
<1>10. ASSUME NEW t \in RetentionTypes, CheckpointMemory(t) PROVE BoundsInv' /\ AdvanceInv'
  <2> DEFINE new == Max({checkpoint[t], deleter[t].cursor})
  <2>1. /\ UNCHANGED <<min_persisted, confirmed, bounds, watch, advance, repeatable_ts,
                       latest_ts>>
        /\ checkpoint' = [checkpoint EXCEPT ![t] = Max({@, deleter[t].cursor})]
        /\ Deleter(t, Waiting(deleter[t].cursor)) /\ deleter[t].step = "confirmed"
    BY <1>10 DEF CheckpointMemory, storeVars
  <2>2. \A n \in RetentionTypes : deleter'[n].cursor = deleter[n].cursor
    BY <1>t, <2>1 DEF Deleter, Waiting
  <2>3. /\ new \in {checkpoint[t], deleter[t].cursor} /\ checkpoint[t] <= new
        /\ deleter[t].cursor <= new
    <3>1. checkpoint[t] \in Int /\ deleter[t].cursor \in Int
      BY <1>0
    <3> QED
      BY <3>1, MaxPair
  <2>4. \A n \in RetentionTypes : checkpoint'[n] = IF n = t THEN new ELSE checkpoint[n]
    BY <1>t, <2>1
  <2>5. deleter[t].cursor <= confirmed[t]
    BY <1>b, <2>1
  <2>6. \A n \in RetentionTypes :
          deleter'[n].step = "confirmed" => deleter'[n].cursor <= confirmed[n]
    <3>1. /\ deleter'[t].step # "confirmed"
          /\ \A n \in RetentionTypes \ {t} : deleter'[n] = deleter[n]
      BY <1>t, <2>1 DEF Deleter, Waiting
    <3> QED
      BY <1>b, <3>1
  <2> HIDE DEF new
  <2>7. /\ checkpoint["index"] <= checkpoint'["index"]
        /\ checkpoint'["index"] <= confirmed["index"]
        /\ checkpoint'["index"] = 0 \/ min_persisted["document"] <= checkpoint'["index"]
    <3>1. CASE t = "index"
      <4>1. new <= confirmed["index"]
        BY <1>c, <2>3, <2>5, <3>1
      <4>2. min_persisted["document"] <= deleter["index"].cursor
        BY <1>0, <1>b, <1>c, <1>i
      <4>3. checkpoint'["index"] = new /\ new \in Nat
        BY <1>0, <1>i, <2>3, <2>4, <3>1
      <4> QED
        BY <1>0, <1>c, <1>i, <2>3, <3>1, <4>1, <4>2, <4>3
    <3>2. CASE t # "index"
      <4>1. checkpoint'["index"] = checkpoint["index"]
        BY <1>i, <2>4, <3>2
      <4> QED
        BY <1>0, <1>c, <1>i, <4>1
    <3> QED
      BY <3>1, <3>2
  <2>8. BoundsInv'
    BY <1>b, <1>c, <2>1, <2>2, <2>6, <2>7 DEF BoundsInv, BoundsOrdered
  <2>9. AdvanceInv'
    <3>1. advance.step = "persist" /\ advance.type = "document" =>
            advance.ts <= checkpoint'["index"]
      <4>1. checkpoint'["index"] \in Nat
        BY <1>i, TimeTypes DEF TypeOK
      <4> QED
        BY <1>0, <1>i, <2>7, <4>1 DEF AdvanceInv
    <3> QED
      BY <2>1, <3>1 DEF AdvanceInv
  <2> QED
    BY <2>8, <2>9
<1>11. CASE Restart
  <2>1. /\ bounds' = min_persisted /\ watch' = min_persisted /\ checkpoint' = Zero
        /\ advance' = Idle
        /\ UNCHANGED <<min_persisted, confirmed, repeatable_ts, latest_ts>>
        /\ \A t \in RetentionTypes : deleter'[t] = Waiting(confirmed[t])
    BY <1>11 DEF Restart, storeVars
  <2>2. \A t \in RetentionTypes : /\ deleter'[t].cursor = confirmed[t]
                                  /\ deleter'[t].step = "wait"
    BY <1>t, <2>1, WaitingType
  <2>3. checkpoint'["index"] = 0
    BY <1>i, <2>1 DEF Zero
  <2>4. BoundsInv'
    <3>1. \A t \in RetentionTypes :
            /\ watch'[t] <= bounds'[t] /\ bounds'[t] <= min_persisted'[t]
            /\ confirmed'[t] <= deleter'[t].cursor /\ deleter'[t].cursor <= bounds'[t]
      BY <1>0, <1>b, <2>1, <2>2
    <3>2. checkpoint'["index"] <= confirmed["index"]
      BY <1>0, <1>i, <2>3
    <3> QED
      BY <1>b, <1>c, <2>1, <2>2, <2>3, <3>1, <3>2 DEF BoundsInv, BoundsOrdered
  <2>5. AdvanceInv'
    BY <2>1 DEF AdvanceInv, Idle
  <2> QED
    BY <2>4, <2>5
<1> QED
  BY <1>1, <1>2, <1>3, <1>4, <1>5, <1>6, <1>7, <1>8, <1>9, <1>10, <1>11 DEF Next

-----------------------------------------------------------------------------
(* What is gone from the tables.                                           *)

LEMMA BoundsGrow ==
  ASSUME TypeOK, TypeOK', BoundsInv, [Next]_vars, NEW t \in RetentionTypes
  PROVE  bounds[t] <= bounds'[t] /\ bounds[t] \in Nat /\ bounds'[t] \in Nat
<1>0. bounds[t] \in Nat /\ bounds'[t] \in Nat
  BY TimeTypes DEF TypeOK
<1>1. ASSUME bounds' = bounds PROVE bounds[t] <= bounds'[t]
  BY <1>0, <1>1
<1>2. CASE AdvanceMemory
  <2>1. bounds' = [bounds EXCEPT ![advance.type] = Max({@, advance.ts})]
    BY <1>2 DEF AdvanceMemory
  <2>2. bounds[t] \in Int /\ advance.ts \in Int
    BY <1>0, Numbers
  <2>3. bounds[t] <= Max({bounds[t], advance.ts})
    BY <2>2, MaxPair
  <2>4. bounds'[t] = bounds[t] \/ bounds'[t] = Max({bounds[t], advance.ts})
    BY <2>1, Types
  <2> QED
    BY <1>0, <2>3, <2>4
<1>3. CASE Restart
  BY <1>0, <1>3 DEF Restart, BoundsInv, BoundsOrdered
<1>4. ASSUME NEW type \in RetentionTypes,
             \/ \E ts \in Timestamps : AdvanceTimestamp(type, ts)
             \/ \E end \in Timestamps : StartDelete(type, end)
             \/ \E chunk \in SUBSET deleter[type].todo : TakeChunk(type, chunk)
             \/ \E x \in deleter[type].chunk : DeletePart(type, x)
             \/ \E step \in {"wait", "checkpoint"} : DeleteReturns(type, step)
             \/ DeleteFails(type) \/ CheckpointPersist(type) \/ CheckpointMemory(type)
             \/ CheckpointFails(type)
             \/ \E leader \in BOOLEAN, ts \in Timestamps : Read(leader, type, ts)
      PROVE  bounds' = bounds
  BY <1>4 DEF AdvanceTimestamp, StartDelete, TakeChunk, DeletePart, DeleteReturns, DeleteFails,
     CheckpointPersist, CheckpointMemory, CheckpointFails, Read, leaderVars
<1>5. CASE \/ \E id \in Ids, value \in Values \cup {Deleted} : Commit(id, value)
           \/ BumpRepeatable \/ AdvancePersist \/ AdvanceFails \/ EmitTimestamp
           \/ ValidateSnapshot \/ FinishRead \/ UNCHANGED vars
  BY <1>0, <1>1, <1>5 DEF Commit, BumpRepeatable, AdvancePersist, AdvanceFails, EmitTimestamp,
     ValidateSnapshot, FinishRead, vars, leaderVars
<1> QED
  BY <1>0, <1>1, <1>2, <1>3, <1>4, <1>5 DEF Next

Commits == \E id \in Ids, value \in Values \cup {Deleted} : Commit(id, value)

Deletes == \E type \in RetentionTypes : \E x \in deleter[type].chunk : DeletePart(type, x)

LEMMA StoreFrame ==
  ASSUME [Next]_vars, ~Commits, ~Deletes
  PROVE  UNCHANGED <<history, documents, indexes, latest_ts>>
<1>1. ASSUME NEW type \in RetentionTypes,
             \/ \E ts \in Timestamps : AdvanceTimestamp(type, ts)
             \/ \E end \in Timestamps : StartDelete(type, end)
             \/ \E chunk \in SUBSET deleter[type].todo : TakeChunk(type, chunk)
             \/ \E step \in {"wait", "checkpoint"} : DeleteReturns(type, step)
             \/ DeleteFails(type) \/ CheckpointPersist(type) \/ CheckpointMemory(type)
             \/ CheckpointFails(type)
             \/ \E leader \in BOOLEAN, ts \in Timestamps : Read(leader, type, ts)
      PROVE  UNCHANGED <<history, documents, indexes, latest_ts>>
  BY <1>1 DEF AdvanceTimestamp, StartDelete, TakeChunk, DeleteReturns, DeleteFails,
     CheckpointPersist, CheckpointMemory, CheckpointFails, Read, storeVars
<1>2. CASE BumpRepeatable \/ AdvancePersist \/ AdvanceMemory \/ AdvanceFails \/ EmitTimestamp
           \/ Restart \/ ValidateSnapshot \/ FinishRead \/ UNCHANGED vars
  BY <1>2 DEF BumpRepeatable, AdvancePersist, AdvanceMemory, AdvanceFails,
     EmitTimestamp, Restart, ValidateSnapshot, FinishRead, vars, storeVars
<1> QED
  BY <1>1, <1>2 DEF Next, Commits, Deletes

\* The part of a chunk that is deleted with x, and what it covers.
Part(type, x) == {y \in deleter[type].chunk : y.id = x.id /\ y.value = x.value}

Covers(type, x, row) == \E y \in Part(type, x) : y.id = row.id /\ row.ts <= y.ts

LEMMA DeleteFacts ==
  ASSUME NEW type \in RetentionTypes, NEW x, DeletePart(type, x)
  PROVE  /\ deleter[type].step = "delete" /\ x \in deleter[type].chunk
         /\ type = "index" =>
              /\ indexes' = {row \in indexes : row.value # x.value \/ ~Covers(type, x, row)}
              /\ documents' = documents
         /\ type = "document" =>
              /\ documents' = {row \in documents : ~Covers(type, x, row)}
              /\ indexes' = indexes
         /\ Deleter(type, [deleter[type] EXCEPT !.chunk = @ \ Part(type, x)])
         /\ UNCHANGED <<history, latest_ts, bounds>>
BY DEF DeletePart, Part, Covers

LEMMA HistoryFacts ==
  ASSUME TypeOK, HistoryInv, NEW r \in history
  PROVE  /\ r.ts \in Nat /\ r.prev_ts \in Nat /\ latest_ts \in Nat
         /\ 0 < r.ts /\ r.ts <= latest_ts /\ r.prev_ts < r.ts
         /\ r \in Revisions
BY Types, TimeTypes DEF HistoryInv, Revisions

LEMMA DocumentsStep ==
  ASSUME TypeOK, TypeOK', HistoryInv, BoundsInv, DocumentsInv, DocumentDeleterInv, [Next]_vars
  PROVE  DocumentsInv'
<1>b. /\ bounds["document"] <= bounds'["document"] /\ bounds["document"] \in Nat
      /\ bounds'["document"] \in Nat
  BY BoundsGrow, TimeTypes
<1>1. ASSUME NEW r \in history \ documents, history \subseteq history'
      PROVE  /\ r.ts < bounds'["document"]
             /\ \/ r.value = Deleted
                \/ \E q \in history' : q.id = r.id /\ r.ts < q.ts /\ q.ts < bounds'["document"]
  <2>1. r.ts \in Nat /\ r.ts < bounds["document"]
    BY HistoryFacts DEF DocumentsInv
  <2>2. CASE r.value = Deleted
    BY <1>b, <2>1, <2>2
  <2>3. ASSUME NEW q \in history, q.id = r.id, r.ts < q.ts, q.ts < bounds["document"]
        PROVE  \E p \in history' : p.id = r.id /\ r.ts < p.ts /\ p.ts < bounds'["document"]
    <3>1. q.ts \in Nat /\ q \in history'
      BY <1>1, HistoryFacts
    <3> QED
      BY <1>b, <2>3, <3>1
  <2> QED
    BY <1>b, <2>1, <2>2, <2>3 DEF DocumentsInv
<1>2. CASE Commits
  <2>1. PICK id \in Ids, value \in Values \cup {Deleted} : Commit(id, value)
    BY <1>2 DEF Commits
  <2>2. /\ history' = history \cup {Revision(id, value)}
        /\ documents' = documents \cup {Revision(id, value)}
    BY <2>1, CommitFacts
  <2>3. history \subseteq history' /\ history' \ documents' \subseteq history \ documents
    BY <2>2
  <2> QED
    BY <1>1, <2>3 DEF DocumentsInv
<1>3. CASE Deletes
  <2>0. PICK type \in RetentionTypes : \E x \in deleter[type].chunk : DeletePart(type, x)
    BY <1>3 DEF Deletes
  <2>1. PICK x \in deleter[type].chunk : DeletePart(type, x)
    BY <2>0
  <2>2. history' = history /\ bounds' = bounds
    BY <2>1, DeleteFacts
  <2>3. CASE type = "index"
    BY <1>1, <2>1, <2>2, <2>3, DeleteFacts DEF DocumentsInv
  <2>4. CASE type = "document"
    <3>1. ASSUME NEW r \in documents \ documents'
          PROVE  /\ r.ts < bounds["document"]
                 /\ \/ r.value = Deleted
                    \/ \E q \in history : q.id = r.id /\ r.ts < q.ts /\ q.ts < bounds["document"]
      <4>1. Covers("document", x, r) /\ deleter["document"].step = "delete"
        BY <2>1, <2>4, DeleteFacts
      <4>2. PICK y \in deleter["document"].chunk : y.id = r.id /\ r.ts <= y.ts
        BY <4>1 DEF Covers, Part
      <4>3. /\ ObsoleteRevision(y) /\ y.scan < deleter["document"].end
            /\ deleter["document"].end <= bounds["document"]
        BY <4>1, <4>2 DEF DocumentDeleterInv
      <4>4. PICK q \in history : /\ y.scan = q.ts /\ y.id = q.id
                                 /\ y.ts = q.prev_ts \/ (y.ts = q.ts /\ q.value = Deleted)
        BY <4>3 DEF ObsoleteRevision
      <4>5. /\ r \in history /\ r.ts \in Nat /\ q.ts \in Nat /\ q.prev_ts \in Nat
            /\ q.prev_ts < q.ts /\ deleter["document"].end \in Nat
        BY HistoryFacts, Types, TimeTypes DEF DeleterType
      <4>6. q.ts < bounds["document"] /\ r.ts <= q.ts
        BY <1>b, <4>2, <4>3, <4>4, <4>5
      <4>7. CASE r.ts < q.ts
        BY <1>b, <4>2, <4>4, <4>5, <4>6, <4>7
      <4>8. CASE r.ts = q.ts
        <5>1. r = q /\ q.value = Deleted
          BY <4>2, <4>4, <4>5, <4>8 DEF HistoryInv
        <5> QED
          BY <4>6, <5>1
      <4> QED
        BY <4>5, <4>6, <4>7, <4>8
    <3>2. \A r \in history' \ documents' : r \in history \ documents \/ r \in documents \ documents'
      BY <2>2
    <3> QED
      BY <1>1, <2>2, <3>1, <3>2 DEF DocumentsInv
  <2> QED
    BY <2>3, <2>4 DEF RetentionTypes
<1>4. CASE ~Commits /\ ~Deletes
  BY <1>1, <1>4, StoreFrame DEF DocumentsInv
<1> QED
  BY <1>2, <1>3, <1>4

LEMMA WroteFacts ==
  ASSUME TypeOK, HistoryInv, NEW h, Wrote(h)
  PROVE  h.ts \in Nat /\ h.ts <= latest_ts /\ latest_ts \in Nat
<1>1. PICK r \in history : r.ts = h.ts
  BY DEF Wrote
<1> QED
  BY <1>1, HistoryFacts

\* The rows of a commit are the rows that its revision wrote.
LEMMA CommittedRows ==
  ASSUME TypeOK, HistoryInv, NEW id \in Ids, NEW value \in Values \cup {Deleted},
         Commit(id, value), NEW h
  PROVE  /\ h \in IndexRows(id, latest_ts + 1, value, Previous(id)) =>
              Wrote(h)' /\ h.ts = latest_ts + 1
         /\ h \in Rows /\ Wrote(h)' =>
              Wrote(h) \/ h \in IndexRows(id, latest_ts + 1, value, Previous(id))
<1> DEFINE rev == Revision(id, value)
<1>1. /\ rev \in Revisions /\ rev.id = id /\ rev.value = value /\ rev.ts = latest_ts + 1
      /\ rev.prev_ts <= latest_ts
      /\ \A p \in Previous(id) : rev.prev_ts = p.ts
      /\ history' = history \cup {rev}
  BY CommitFacts
<1> HIDE DEF rev
<1>2. latest_ts \in Nat /\ rev.prev_ts \in Nat
  BY <1>1, Types, TimeTypes DEF Revisions
<1>3. \A r \in history : r.ts \in Nat /\ r.prev_ts \in Nat /\ r.ts <= latest_ts /\ r.prev_ts < r.ts
  BY HistoryFacts
<1>4. ASSUME h \in IndexRows(id, latest_ts + 1, value, Previous(id))
      PROVE  Wrote(h)' /\ h.ts = latest_ts + 1
  <2>1. CASE \E p \in Previous(id) : /\ p.value # value
               /\ h = [id |-> id, value |-> p.value, ts |-> latest_ts + 1, deleted |-> TRUE]
    <3>1. PICK p \in Previous(id) : /\ p.value # value
               /\ h = [id |-> id, value |-> p.value, ts |-> latest_ts + 1, deleted |-> TRUE]
      BY <2>1
    <3>2. h.id = id /\ h.value = p.value /\ h.ts = latest_ts + 1 /\ h.deleted = TRUE
      BY <3>1
    <3>3. p \in history /\ p.id = id /\ p.ts = rev.prev_ts
      BY <1>1, PreviousFacts
    <3> QED
      BY <1>1, <3>1, <3>2, <3>3 DEF Wrote
  <2>2. CASE h = [id |-> id, value |-> value, ts |-> latest_ts + 1, deleted |-> FALSE]
    <3>1. h.id = id /\ h.value = value /\ h.ts = latest_ts + 1 /\ h.deleted = FALSE
      BY <2>2
    <3> QED
      BY <1>1, <3>1 DEF Wrote
  <2> QED
    BY <1>4, <2>1, <2>2 DEF IndexRows
<1>5. ASSUME h \in Rows, Wrote(h)'
      PROVE  Wrote(h) \/ h \in IndexRows(id, latest_ts + 1, value, Previous(id))
  <2>1. PICK r \in history' :
          /\ r.id = h.id /\ r.ts = h.ts
          /\ \/ ~h.deleted /\ r.value = h.value
             \/ /\ h.deleted /\ r.value # h.value
                /\ \E p \in history' : p.id = r.id /\ p.ts = r.prev_ts /\ p.value = h.value
    BY <1>5 DEF Wrote
  <2>2. \A p \in history' : p.ts = r.prev_ts => p \in history
    BY <1>1, <1>2, <1>3, <2>1
  <2>3. CASE r \in history
    BY <2>1, <2>2, <2>3 DEF Wrote
  <2>4. CASE r = rev
    <3>0. /\ h = [id |-> h.id, value |-> h.value, ts |-> h.ts, deleted |-> h.deleted]
          /\ h.value \in Values /\ h.deleted \in BOOLEAN
      BY <1>5 DEF Rows
    <3>1. h.id = id /\ h.ts = latest_ts + 1
      BY <1>1, <2>1, <2>4
    <3>2. CASE ~h.deleted
      <4>1. h.value = value /\ value # Deleted /\ h.deleted = FALSE
        BY <1>1, <2>1, <2>4, <3>0, <3>2
      <4> QED
        BY <3>0, <3>1, <4>1 DEF IndexRows
    <3>3. CASE h.deleted
      <4>1. PICK p \in history : p.id = id /\ p.ts = rev.prev_ts /\ p.value = h.value
        BY <1>1, <2>1, <2>2, <2>4, <3>3
      <4>2. PICK c \in Previous(id) : TRUE
        BY <4>1, PreviousFacts
      <4>3. c \in history /\ c.ts = p.ts
        BY <1>1, <4>1, <4>2, PreviousFacts
      <4>4. p = c
        BY <4>3 DEF HistoryInv
      <4>5. p \in {q \in Previous(id) : q.value # value} /\ h.deleted = TRUE
        BY <1>1, <2>1, <2>4, <3>0, <3>3, <4>1, <4>2, <4>4
      <4> QED
        BY <3>0, <3>1, <4>1, <4>5 DEF IndexRows
    <3> QED
      BY <3>2, <3>3
  <2> QED
    BY <1>1, <2>3, <2>4
<1> QED
  BY <1>4, <1>5

\* New rows are above whatever has been cleared.
LEMMA ClearedKept ==
  ASSUME TypeOK, HistoryInv, Commits, NEW x, x.ts \in Nat, x.ts <= latest_ts, Cleared(x)
  PROVE  Cleared(x)'
<1>1. PICK id \in Ids, value \in Values \cup {Deleted} : Commit(id, value)
  BY DEF Commits
<1>2. indexes' = indexes \cup IndexRows(id, latest_ts + 1, value, Previous(id))
  BY <1>1, CommitFacts
<1>3. \A row \in IndexRows(id, latest_ts + 1, value, Previous(id)) : row.ts = latest_ts + 1
  BY <1>1, CommittedRows
<1>4. latest_ts \in Nat
  BY Types, TimeTypes
<1> QED
  BY <1>2, <1>3, <1>4 DEF Cleared

\* Deleting a part clears every row of the part.
LEMMA PartCleared ==
  ASSUME TypeOK, NEW x, DeletePart("index", x), NEW y \in Part("index", x)
  PROVE  Cleared(y)'
<1>1. indexes' = {row \in indexes : row.value # x.value \/ ~Covers("index", x, row)}
  BY DeleteFacts, TimeTypes
<1>2. y.value = x.value /\ y \in deleter["index"].chunk
  BY DEF Part
<1>3. y.ts \in Nat
  BY <1>2, Types, TimeTypes DEF DeleterType, ExpiredRows
<1>4. ASSUME NEW row \in indexes', row.id = y.id, row.value = y.value PROVE y.ts < row.ts
  <2>1. row \in indexes /\ ~Covers("index", x, row)
    BY <1>1, <1>2, <1>4
  <2>2. row.ts \in Nat
    BY <2>1, Types, TimeTypes DEF Rows
  <2>3. ~(row.ts <= y.ts)
    BY <1>4, <2>1 DEF Covers
  <2> QED
    BY <1>3, <2>2, <2>3
<1> QED
  BY <1>4 DEF Cleared

LEMMA IndexStep ==
  ASSUME TypeOK, TypeOK', HistoryInv, BoundsInv, IndexInv, IndexDeleterInv, [Next]_vars
  PROVE  IndexInv'
<1>b. /\ bounds["index"] <= bounds'["index"] /\ bounds["index"] \in Nat
      /\ bounds'["index"] \in Nat
  BY BoundsGrow, TimeTypes
<1> DEFINE Replaced(h) == \E q \in history :
             /\ q.id = h.id /\ q.ts < bounds["index"]
             /\ h.ts < q.ts \/ (h.deleted /\ h.ts = q.ts)
<1>1. ASSUME NEW h, Replaced(h), history \subseteq history'
      PROVE  Replaced(h)'
  <2>1. PICK q \in history : /\ q.id = h.id /\ q.ts < bounds["index"]
                             /\ h.ts < q.ts \/ (h.deleted /\ h.ts = q.ts)
    BY <1>1
  <2>2. q \in history' /\ q.ts < bounds'["index"]
    BY <1>b, <1>1, <2>1, HistoryFacts
  <2> QED
    BY <2>1, <2>2
<1>2. IndexInv <=> /\ \A h \in indexes : Wrote(h)
                   /\ \A h \in Rows : Wrote(h) /\ h \notin indexes => Cleared(h) /\ Replaced(h)
  BY DEF IndexInv
<1>3. IndexInv' <=> /\ \A h \in indexes' : Wrote(h)'
                    /\ \A h \in Rows : Wrote(h)' /\ h \notin indexes' => Cleared(h)' /\ Replaced(h)'
  BY DEF IndexInv
<1> HIDE DEF Replaced
<1>4. CASE Commits
  <2>1. PICK id \in Ids, value \in Values \cup {Deleted} : Commit(id, value)
    BY <1>4 DEF Commits
  <2> DEFINE new == IndexRows(id, latest_ts + 1, value, Previous(id))
  <2>2. history \subseteq history' /\ indexes' = indexes \cup new
    BY <2>1, CommitFacts
  <2>3. \A h : /\ h \in new => Wrote(h)'
               /\ h \in Rows /\ Wrote(h)' => Wrote(h) \/ h \in new
    BY <2>1, CommittedRows
  <2> HIDE DEF new
  <2>4. ASSUME NEW h \in indexes' PROVE Wrote(h)'
    <3>1. CASE h \in indexes
      BY <1>2, <2>2, <3>1 DEF Wrote
    <3> QED
      BY <2>2, <2>3, <2>4, <3>1
  <2>5. ASSUME NEW h \in Rows, Wrote(h)', h \notin indexes'
        PROVE  Cleared(h)' /\ Replaced(h)'
    <3>1. Wrote(h) /\ h \notin indexes
      BY <2>2, <2>3, <2>5
    <3>2. Cleared(h) /\ Replaced(h)
      BY <1>2, <3>1
    <3>3. Cleared(h)'
      BY <1>4, <3>1, <3>2, WroteFacts, ClearedKept
    <3> QED
      BY <1>1, <2>2, <3>2, <3>3
  <2> QED
    BY <1>3, <2>4, <2>5
<1>5. CASE Deletes
  <2>0. PICK type \in RetentionTypes : \E x \in deleter[type].chunk : DeletePart(type, x)
    BY <1>5 DEF Deletes
  <2>1. PICK x \in deleter[type].chunk : DeletePart(type, x)
    BY <2>0
  <2>2. history' = history /\ bounds' = bounds /\ indexes' \subseteq indexes
    BY <2>1, DeleteFacts DEF RetentionTypes
  <2>3. ASSUME NEW h PROVE (Wrote(h)' <=> Wrote(h)) /\ (Cleared(h) => Cleared(h)')
    BY <2>2 DEF Wrote, Cleared
  <2>4. ASSUME NEW h \in indexes, h \notin indexes' PROVE Cleared(h)' /\ Replaced(h)
    <3>0. type = "index" /\ deleter["index"].step = "delete"
      BY <2>1, <2>4, DeleteFacts DEF RetentionTypes
    <3>1. h.value = x.value /\ Covers("index", x, h)
      BY <2>1, <2>4, <3>0, DeleteFacts
    <3>2. PICK y \in Part("index", x) : y.id = h.id /\ h.ts <= y.ts
      BY <3>1 DEF Covers
    <3>3. y \in deleter["index"].chunk /\ y.value = h.value
      BY <3>1, <3>2 DEF Part
    <3>4. h.ts \in Nat /\ y.ts \in Nat /\ y.scan \in Nat /\ deleter["index"].end \in Nat
      BY <2>4, <3>3, Types, TimeTypes DEF Rows, DeleterType, ExpiredRows
    <3>5. Cleared(h)'
      <4>1. Cleared(y)'
        BY <2>1, <3>0, PartCleared
      <4>2. \A row \in indexes' : row.ts \in Nat
        BY <2>2, Types, TimeTypes DEF Rows
      <4> QED
        BY <3>2, <3>3, <3>4, <4>1, <4>2 DEF Cleared
    <3>6. /\ ObsoleteRow(y) /\ y.scan < deleter["index"].end
          /\ deleter["index"].end <= bounds["index"]
      BY <3>0, <3>3 DEF IndexDeleterInv
    <3>7. PICK r, p \in history :
            /\ p.id = r.id /\ p.ts = r.prev_ts
            /\ y.scan = r.ts /\ y.id = r.id /\ y.value = p.value
            /\ y.ts = p.ts \/ (y.ts = r.ts /\ r.value # p.value)
      BY <3>6 DEF ObsoleteRow
    <3>8. r.ts \in Nat /\ p.ts \in Nat /\ p.ts < r.ts /\ r.ts < bounds["index"] /\ r.id = h.id
      BY <1>b, <3>2, <3>4, <3>6, <3>7, HistoryFacts
    <3>9. h.ts <= r.ts
      BY <3>2, <3>4, <3>7, <3>8
    <3>10. CASE h.ts = r.ts
      <4>1. r.value # h.value
        BY <3>2, <3>3, <3>4, <3>7, <3>8, <3>10
      <4>2. PICK q \in history : /\ q.ts = h.ts /\ (~h.deleted => q.value = h.value)
        BY <1>2, <2>4 DEF Wrote
      <4>3. q = r
        BY <3>10, <4>2 DEF HistoryInv
      <4> QED
        BY <3>5, <3>8, <3>10, <4>1, <4>2, <4>3 DEF Replaced
    <3>11. CASE h.ts < r.ts
      BY <3>5, <3>8, <3>11 DEF Replaced
    <3> QED
      BY <3>4, <3>8, <3>9, <3>10, <3>11
  <2>5. ASSUME NEW h \in Rows, Wrote(h)', h \notin indexes'
        PROVE  Cleared(h)' /\ Replaced(h)'
    <3>1. Wrote(h) /\ (h \notin indexes => Cleared(h) /\ Replaced(h))
      BY <1>2, <2>3, <2>5
    <3>2. Cleared(h)' /\ Replaced(h)
      BY <2>3, <2>4, <2>5, <3>1
    <3> QED
      BY <1>1, <2>2, <3>2
  <2>6. \A h \in indexes' : Wrote(h)'
    BY <1>2, <2>2, <2>3
  <2> QED
    BY <1>3, <2>5, <2>6
<1>6. CASE ~Commits /\ ~Deletes
  <2>1. history' = history /\ indexes' = indexes
    BY <1>6, StoreFrame
  <2>2. ASSUME NEW h PROVE (Wrote(h)' <=> Wrote(h)) /\ (Cleared(h) <=> Cleared(h)')
    BY <2>1 DEF Wrote, Cleared
  <2>3. ASSUME NEW h, Replaced(h) PROVE Replaced(h)'
    BY <1>1, <2>1, <2>3
  <2> QED
    BY <1>2, <1>3, <2>1, <2>2, <2>3
<1> QED
  BY <1>4, <1>5, <1>6

-----------------------------------------------------------------------------
(* The steps of a deleter, field by field.                                 *)

Started(t, d, n) ==
  /\ d.step = "wait" /\ n.step = "delete" /\ n.cursor = d.cursor /\ n.new_cursor = d.cursor
  /\ d.cursor < n.end /\ n.end <= watch[t]
  /\ n.todo = Expired(t, d.cursor, n.end) /\ n.chunk = d.chunk

Taken(d, n) ==
  /\ d.step = "delete" /\ n.step = "delete" /\ n.cursor = d.cursor /\ n.end = d.end
  /\ d.chunk = {} /\ n.chunk \subseteq d.todo /\ n.todo = d.todo \ n.chunk
  /\ d.new_cursor <= n.new_cursor
  /\ \E x \in n.chunk : /\ \A y \in n.todo : x.scan <= y.scan
                        /\ n.new_cursor = d.new_cursor \/ n.new_cursor = x.scan - 1

Removed(t, d, n, x) ==
  /\ d.step = "delete" /\ n.step = "delete" /\ n.cursor = d.cursor /\ n.end = d.end
  /\ n.new_cursor = d.new_cursor /\ n.todo = d.todo /\ n.chunk = d.chunk \ Part(t, x)

Returned(d, n) ==
  /\ d.step = "delete" /\ d.chunk = {} /\ n.step # "delete" /\ n.chunk = {}
  /\ \/ d.todo = {} /\ n.cursor = d.end - 1
     \/ d.new_cursor > d.cursor /\ n.cursor = d.new_cursor

Rested(d, n) == n.step # "delete" /\ n.chunk = {} /\ n.cursor <= d.cursor

LEMMA DeleterMoves ==
  ASSUME TypeOK, BoundsInv, [Next]_vars, NEW t \in RetentionTypes,
         deleter[t].step # "delete" => deleter[t].chunk = {}
  PROVE  \/ deleter'[t] = deleter[t]
         \/ Started(t, deleter[t], deleter'[t]) \/ Taken(deleter[t], deleter'[t])
         \/ \E x \in deleter[t].chunk :
              DeletePart(t, x) /\ Removed(t, deleter[t], deleter'[t], x)
         \/ Returned(deleter[t], deleter'[t]) \/ Rested(deleter[t], deleter'[t])
<1> DEFINE d == deleter[t]
           Goal == \/ deleter'[t] = d
                   \/ Started(t, d, deleter'[t]) \/ Taken(d, deleter'[t])
                   \/ \E x \in d.chunk : DeletePart(t, x) /\ Removed(t, d, deleter'[t], x)
                   \/ Returned(d, deleter'[t]) \/ Rested(d, deleter'[t])
<1>0. deleter \in [RetentionTypes -> DeleterType] /\ d \in DeleterType /\ d.cursor \in Nat
  BY Types, TimeTypes DEF DeleterType
<1>d. d = deleter[t]
  OBVIOUS
<1>e. d.step # "delete" => d.chunk = {}
  OBVIOUS
<1>g. Goal <=> (\/ deleter'[t] = d
                \/ Started(t, d, deleter'[t]) \/ Taken(d, deleter'[t])
                \/ \E x \in d.chunk : DeletePart(t, x) /\ Removed(t, d, deleter'[t], x)
                \/ Returned(d, deleter'[t]) \/ Rested(d, deleter'[t]))
  OBVIOUS
<1>w. ASSUME NEW c PROVE Waiting(c).step = "wait" /\ Waiting(c).cursor = c /\ Waiting(c).chunk = {}
  BY DEF Waiting
<1> HIDE DEF d, Goal
<1>1. ASSUME NEW n, Deleter(t, n) PROVE deleter'[t] = n
  BY <1>0, <1>1 DEF Deleter
<1>2. ASSUME NEW type \in RetentionTypes, type # t, NEW n, Deleter(type, n)
      PROVE  deleter'[t] = d
  BY <1>0, <1>2, <1>d DEF Deleter
<1>3. ASSUME NEW end \in Timestamps, StartDelete(t, end) PROVE Goal
  <2>1. /\ d.step = "wait" /\ d.cursor < end /\ end <= watch[t]
        /\ Deleter(t, [d EXCEPT !.step = "delete", !.end = end, !.new_cursor = d.cursor,
                                !.todo = Expired(t, d.cursor, end)])
    BY <1>3, <1>d, Zenon DEF StartDelete
  <2> DEFINE e == Expired(t, d.cursor, end)
             n == [d EXCEPT !.step = "delete", !.end = end, !.new_cursor = d.cursor, !.todo = e]
  <2>2. Deleter(t, n)
    BY <2>1
  <2> HIDE DEF e
  <2>3. /\ n.step = "delete" /\ n.end = end /\ n.new_cursor = d.cursor /\ n.todo = e
        /\ n.cursor = d.cursor /\ n.chunk = d.chunk
    BY <1>0 DEF DeleterType
  <2> HIDE DEF n
  <2>4. Started(t, d, n)
    BY <2>1, <2>3 DEF Started, e
  <2> QED
    BY <1>1, <1>g, <2>2, <2>4
<1>4. ASSUME NEW chunk \in SUBSET deleter[t].todo, TakeChunk(t, chunk) PROVE Goal
  <2>1. /\ d.step = "delete" /\ d.chunk = {} /\ chunk # {}
        /\ \A x \in chunk, y \in d.todo \ chunk : x.scan <= y.scan
        /\ Deleter(t, [d EXCEPT !.chunk = chunk, !.todo = @ \ chunk,
                                !.new_cursor = Max({@, chunk_cursor(chunk)})])
    BY <1>4, <1>d, Zenon DEF TakeChunk
  <2>a. chunk \in SUBSET ExpiredRows /\ d.new_cursor \in Timestamps /\ chunk \subseteq d.todo
    BY <1>0, <1>d DEF DeleterType
  <2> DEFINE c == Max({d.new_cursor, chunk_cursor(chunk)})
             n == [d EXCEPT !.chunk = chunk, !.todo = @ \ chunk, !.new_cursor = c]
  <2>2. Deleter(t, n)
    BY <2>1
  <2>3. /\ d.new_cursor <= c
        /\ \E x \in chunk : c = d.new_cursor \/ c = x.scan - 1
    BY <2>1, <2>a, ChunkCursor
  <2> HIDE DEF c
  <2>4. /\ n.step = d.step /\ n.end = d.end /\ n.new_cursor = c /\ n.todo = d.todo \ chunk
        /\ n.cursor = d.cursor /\ n.chunk = chunk
    BY <1>0 DEF DeleterType
  <2> HIDE DEF n
  <2>5. Taken(d, n)
    BY <2>1, <2>a, <2>3, <2>4 DEF Taken
  <2> QED
    BY <1>1, <1>g, <2>2, <2>5
<1>5. ASSUME NEW x \in deleter[t].chunk, DeletePart(t, x) PROVE Goal
  <2>1. d.step = "delete" /\ Deleter(t, [d EXCEPT !.chunk = @ \ Part(t, x)])
    BY <1>5, <1>d, DeleteFacts
  <2> DEFINE p == Part(t, x)
             n == [d EXCEPT !.chunk = @ \ p]
  <2>2. Deleter(t, n)
    BY <2>1
  <2> HIDE DEF p
  <2>3. /\ n.step = d.step /\ n.end = d.end /\ n.new_cursor = d.new_cursor /\ n.todo = d.todo
        /\ n.cursor = d.cursor /\ n.chunk = d.chunk \ p
    BY <1>0 DEF DeleterType
  <2> HIDE DEF n
  <2>4. Removed(t, d, n, x)
    BY <2>1, <2>3 DEF Removed, p
  <2> QED
    BY <1>1, <1>5, <1>d, <1>g, <2>2, <2>4
<1>6. ASSUME NEW step \in {"wait", "checkpoint"}, DeleteReturns(t, step) PROVE Goal
  <2>1. PICK c : /\ Deleter(t, [Waiting(c) EXCEPT !.step = step])
                 /\ d.step = "delete" /\ d.chunk = {}
                 /\ (d.todo = {} /\ c = d.end - 1) \/ (d.new_cursor > d.cursor /\ c = d.new_cursor)
    BY <1>6, <1>d DEF DeleteReturns
  <2> DEFINE n == [Waiting(c) EXCEPT !.step = step]
  <2>2. n.step # "delete" /\ n.chunk = {} /\ n.cursor = c
    BY DEF Waiting
  <2>3. Deleter(t, n)
    BY <2>1
  <2> HIDE DEF n
  <2> QED
    BY <1>1, <1>g, <2>1, <2>2, <2>3 DEF Returned
<1>7. ASSUME DeleteFails(t) \/ CheckpointMemory(t) \/ CheckpointFails(t) PROVE Goal
  <2>1. Deleter(t, Waiting(d.cursor))
    BY <1>7, <1>d DEF DeleteFails, CheckpointMemory, CheckpointFails
  <2> QED
    BY <1>0, <1>1, <1>g, <1>w, <2>1 DEF Rested
<1>8. ASSUME CheckpointPersist(t) PROVE Goal
  <2> DEFINE n == [d EXCEPT !.step = "confirmed"]
  <2>1. Deleter(t, n) /\ d.step = "checkpoint"
    BY <1>8, <1>d DEF CheckpointPersist
  <2>2. n.step = "confirmed" /\ n.cursor = d.cursor /\ n.chunk = d.chunk
    BY <1>0 DEF DeleterType
  <2> HIDE DEF n
  <2>3. Rested(d, n)
    BY <1>0, <1>e, <2>1, <2>2 DEF Rested
  <2> QED
    BY <1>1, <1>g, <2>1, <2>3
<1>9. ASSUME Restart PROVE Goal
  <2>1. deleter'[t] = Waiting(confirmed[t]) /\ confirmed[t] <= d.cursor
    BY <1>9, <1>d DEF Restart, BoundsInv
  <2> QED
    BY <1>g, <1>w, <2>1 DEF Rested
<1>10. ASSUME NEW type \in RetentionTypes, type # t,
              \/ \E end \in Timestamps : StartDelete(type, end)
              \/ \E chunk \in SUBSET deleter[type].todo : TakeChunk(type, chunk)
              \/ \E x \in deleter[type].chunk : DeletePart(type, x)
              \/ \E step \in {"wait", "checkpoint"} : DeleteReturns(type, step)
              \/ DeleteFails(type) \/ CheckpointPersist(type) \/ CheckpointMemory(type)
              \/ CheckpointFails(type)
       PROVE  deleter'[t] = d
  <2>1. \E n : Deleter(type, n)
    BY <1>10, Zenon DEF StartDelete, TakeChunk, DeletePart, DeleteReturns, DeleteFails,
       CheckpointPersist, CheckpointMemory, CheckpointFails
  <2> QED
    BY <1>2, <1>10, <2>1
<1>11. ASSUME NEW type \in RetentionTypes,
              \/ \E ts \in Timestamps : AdvanceTimestamp(type, ts)
              \/ \E leader \in BOOLEAN, ts \in Timestamps : Read(leader, type, ts)
       PROVE  deleter'[t] = d
  BY <1>11, <1>d DEF AdvanceTimestamp, Read, leaderVars
<1>12. ASSUME NEW id, NEW value, Commit(id, value) PROVE deleter'[t] = d
  BY <1>12, <1>d DEF Commit, leaderVars
<1>13. ASSUME \/ BumpRepeatable \/ AdvancePersist \/ AdvanceMemory \/ AdvanceFails \/ EmitTimestamp
              \/ ValidateSnapshot \/ FinishRead \/ UNCHANGED vars
       PROVE  Goal
  <2>1. deleter' = deleter
    BY <1>13 DEF BumpRepeatable, AdvancePersist, AdvanceMemory, AdvanceFails,
       EmitTimestamp, ValidateSnapshot, FinishRead, vars, leaderVars
  <2> QED
    BY <1>d, <1>g, <2>1
<1>14. Goal
  <2>1. ASSUME NEW type \in RetentionTypes,
               \/ \E ts \in Timestamps : AdvanceTimestamp(type, ts)
               \/ \E end \in Timestamps : StartDelete(type, end)
               \/ \E chunk \in SUBSET deleter[type].todo : TakeChunk(type, chunk)
               \/ \E x \in deleter[type].chunk : DeletePart(type, x)
               \/ \E step \in {"wait", "checkpoint"} : DeleteReturns(type, step)
               \/ DeleteFails(type) \/ CheckpointPersist(type) \/ CheckpointMemory(type)
               \/ CheckpointFails(type)
               \/ \E leader \in BOOLEAN, ts \in Timestamps : Read(leader, type, ts)
        PROVE  Goal
    <3>1. CASE type = t
      BY <1>3, <1>4, <1>5, <1>6, <1>7, <1>8, <1>11, <1>g, <2>1, <3>1
    <3>2. CASE type # t
      BY <1>10, <1>11, <1>g, <2>1, <3>2
    <3> QED
      BY <3>1, <3>2
  <2> QED
    BY <1>9, <1>12, <1>13, <1>g, <2>1 DEF Next
<1> QED
  BY <1>14 DEF Goal, d

-----------------------------------------------------------------------------
(* What the deleters have done.                                            *)

\* IndexDeleterInv of a state of the deleter.
IndexProgress(d) ==
  /\ d.step # "delete" => d.chunk = {}
  /\ \A x \in ExpiredRows : ObsoleteRow(x) /\ x.scan <= d.cursor => Cleared(x)
  /\ d.step = "delete" =>
       /\ d.cursor <= d.new_cursor /\ d.new_cursor < d.end /\ d.end <= bounds["index"]
       /\ \A x \in d.todo \cup d.chunk : ObsoleteRow(x) /\ x.scan < d.end
       /\ \A x \in d.todo : d.new_cursor = d.cursor \/ d.new_cursor < x.scan
       /\ \A x \in ExpiredRows :
            ObsoleteRow(x) /\ d.cursor <= x.scan /\ x.scan < d.end =>
              x \in d.todo \cup d.chunk \/ Cleared(x)

LEMMA IndexProgressIs ==
  /\ IndexDeleterInv <=> IndexProgress(deleter["index"])
  /\ \A n : n = deleter'["index"] /\ IndexProgress(n)' => IndexDeleterInv'
BY DEF IndexDeleterInv, IndexProgress

LEMMA ObsoleteFacts ==
  ASSUME TypeOK, HistoryInv, NEW x, ObsoleteRow(x)
  PROVE  /\ x.ts \in Nat /\ x.scan \in Nat /\ x.ts <= x.scan /\ x.scan <= latest_ts
         /\ latest_ts \in Nat
<1>1. PICK r, p \in history :
        /\ p.ts = r.prev_ts /\ x.scan = r.ts
        /\ x.ts = p.ts \/ x.ts = r.ts
  BY DEF ObsoleteRow
<1> QED
  BY <1>1, HistoryFacts

\* Index retention finds both revisions of everything from its cursor on:
\* documents have expired only below what it has confirmed.
LEMMA ScannedPresent ==
  ASSUME TypeOK, HistoryInv, BoundsInv, DocumentsInv, NEW r \in history, NEW p \in history,
         p.id = r.id, p.ts = r.prev_ts, confirmed["index"] <= r.ts
  PROVE  r \in documents /\ p \in documents /\ p.value # Deleted
<1>1. /\ bounds["document"] \in Nat /\ min_persisted["document"] \in Nat
      /\ confirmed["index"] \in Nat
      /\ bounds["document"] <= min_persisted["document"]
      /\ min_persisted["document"] <= confirmed["index"]
  BY Numbers, TimeTypes DEF BoundsInv, BoundsOrdered
<1>2. /\ r.ts \in Nat /\ p.ts \in Nat /\ p.ts # 0 /\ p.ts < r.ts
  BY HistoryFacts
<1>3. bounds["document"] <= r.ts
  BY <1>1, <1>2
<1>4. p.value # Deleted
  <2>1. PICK q \in history : q.ts = p.ts /\ q.value # Deleted
    BY <1>2 DEF HistoryInv
  <2> QED
    BY <2>1 DEF HistoryInv
<1>5. r \in documents
  BY <1>1, <1>2, <1>3 DEF DocumentsInv
<1>6. ASSUME p \notin documents PROVE FALSE
  <2>1. PICK q \in history : q.id = p.id /\ p.ts < q.ts /\ q.ts < bounds["document"]
    BY <1>4, <1>6 DEF DocumentsInv
  <2>2. q.ts \in Nat /\ q.ts < r.ts
    BY <1>1, <1>2, <1>3, <2>1, HistoryFacts
  <2>3. q.ts <= p.ts
    BY <2>1, <2>2 DEF HistoryInv
  <2> QED
    BY <1>2, <2>1, <2>2, <2>3
<1> QED
  BY <1>4, <1>5, <1>6

LEMMA ExpiredIsObsolete ==
  ASSUME TypeOK, HistoryInv, BoundsInv, DocumentsInv, NEW cursor \in Nat, NEW end \in Nat,
         confirmed["index"] <= cursor, NEW x
  PROVE  /\ x \in Expired("index", cursor, end) => ObsoleteRow(x) /\ x.scan < end
         /\ x \in ExpiredRows /\ ObsoleteRow(x) /\ cursor <= x.scan /\ x.scan < end =>
              x \in Expired("index", cursor, end)
<1>1. ASSUME x \in Expired("index", cursor, end) PROVE ObsoleteRow(x) /\ x.scan < end
  <2>1. PICK r \in documents : cursor <= r.ts /\ r.ts < end /\ x \in ExpiredByIndex(r)
    BY <1>1 DEF Expired
  <2>2. PICK p \in documents :
          /\ p.id = r.id /\ p.ts = r.prev_ts
          /\ \/ x = [scan |-> r.ts, id |-> p.id, value |-> p.value, ts |-> p.ts]
             \/ /\ x = [scan |-> r.ts, id |-> p.id, value |-> p.value, ts |-> r.ts]
                /\ r.value # p.value
    BY <2>1 DEF ExpiredByIndex
  <2>3. /\ x.scan = r.ts /\ x.id = r.id /\ x.value = p.value
        /\ x.ts = p.ts \/ (x.ts = r.ts /\ r.value # p.value)
    BY <2>2
  <2>4. r \in history /\ p \in history
    BY Types
  <2> QED
    BY <2>1, <2>2, <2>3, <2>4 DEF ObsoleteRow
<1>2. ASSUME x \in ExpiredRows, ObsoleteRow(x), cursor <= x.scan, x.scan < end
      PROVE  x \in Expired("index", cursor, end)
  <2>1. PICK r, p \in history :
          /\ p.id = r.id /\ p.ts = r.prev_ts
          /\ x.scan = r.ts /\ x.id = r.id /\ x.value = p.value
          /\ x.ts = p.ts \/ (x.ts = r.ts /\ r.value # p.value)
    BY <1>2 DEF ObsoleteRow
  <2>2. confirmed["index"] \in Nat /\ r.ts \in Nat
    BY HistoryFacts, Numbers, TimeTypes
  <2>3. r \in documents /\ p \in documents /\ p.value # Deleted
    BY <1>2, <2>1, <2>2, ScannedPresent
  <2>4. x = [scan |-> x.scan, id |-> x.id, value |-> x.value, ts |-> x.ts]
    BY <1>2 DEF ExpiredRows
  <2>5. \/ x = [scan |-> r.ts, id |-> p.id, value |-> p.value, ts |-> p.ts]
        \/ /\ x = [scan |-> r.ts, id |-> p.id, value |-> p.value, ts |-> r.ts]
           /\ r.value # p.value
    BY <2>1, <2>4
  <2>6. x \in ExpiredByIndex(r)
    <3>1. p \in {q \in documents : q.id = r.id /\ q.ts = r.prev_ts /\ q.value # Deleted}
      BY <2>1, <2>3
    <3>2. x \in {[scan |-> r.ts, id |-> p.id, value |-> p.value, ts |-> p.ts]}
                 \cup {[scan |-> r.ts, id |-> p.id, value |-> p.value, ts |-> r.ts] :
                         v \in {r.value} \ {p.value}}
      BY <2>5
    <3> QED
      BY <3>1, <3>2 DEF ExpiredByIndex
  <2> QED
    BY <1>2, <2>1, <2>3, <2>6 DEF Expired
<1> QED
  BY <1>1, <1>2

LEMMA IndexProgressKept ==
  ASSUME NEW d \in DeleterType, UNCHANGED <<history, indexes>>, bounds["index"] \in Nat,
         bounds'["index"] \in Nat, bounds["index"] <= bounds'["index"], IndexProgress(d)
  PROVE  IndexProgress(d)'
<1>1. ASSUME NEW x PROVE (ObsoleteRow(x)' <=> ObsoleteRow(x)) /\ (Cleared(x)' <=> Cleared(x))
  BY DEF ObsoleteRow, Cleared
<1>2. d.end \in Nat
  BY TimeTypes DEF DeleterType
<1> QED
  BY <1>1, <1>2 DEF IndexProgress

LEMMA IndexProgressCommit ==
  ASSUME TypeOK, HistoryInv, BoundsInv, Commits, NEW d \in DeleterType, IndexProgress(d),
         d.cursor <= bounds["index"]
  PROVE  IndexProgress(d)'
<1>1. PICK id \in Ids, value \in Values \cup {Deleted} : Commit(id, value)
  BY DEF Commits
<1> DEFINE rev == Revision(id, value)
<1>2. /\ history' = history \cup {rev} /\ rev.ts = latest_ts + 1
      /\ rev.prev_ts <= latest_ts /\ bounds' = bounds
      /\ rev.prev_ts \in Nat
  BY <1>1, CommitFacts, TimeTypes DEF leaderVars, Revisions
<1> HIDE DEF rev
<1>3. /\ bounds["index"] \in Nat /\ latest_ts \in Nat /\ bounds["index"] <= latest_ts
  <2>1. /\ bounds["index"] \in Nat /\ min_persisted["index"] \in Nat /\ repeatable_ts \in Nat
        /\ latest_ts \in Nat /\ bounds["index"] <= min_persisted["index"]
        /\ min_persisted["index"] <= repeatable_ts /\ repeatable_ts <= latest_ts
    BY Numbers, TimeTypes DEF BoundsInv, BoundsOrdered
  <2> QED
    BY <2>1
<1>4. d.cursor \in Nat /\ d.end \in Nat
  BY TimeTypes DEF DeleterType
<1>5. ASSUME NEW x, ObsoleteRow(x)', x.scan <= latest_ts PROVE ObsoleteRow(x)
  <2>1. PICK r, p \in history' :
          /\ p.id = r.id /\ p.ts = r.prev_ts
          /\ x.scan = r.ts /\ x.id = r.id /\ x.value = p.value
          /\ x.ts = p.ts \/ (x.ts = r.ts /\ r.value # p.value)
    BY <1>5 DEF ObsoleteRow
  <2>2. r \in history
    BY <1>2, <1>3, <1>5, <2>1
  <2>3. p \in history
    BY <1>2, <1>3, <2>1, <2>2, HistoryFacts
  <2> QED
    BY <2>1, <2>2, <2>3 DEF ObsoleteRow
<1>6. ASSUME NEW x, ObsoleteRow(x) PROVE ObsoleteRow(x)'
  BY <1>2, <1>6 DEF ObsoleteRow
<1>7. ASSUME NEW x, ObsoleteRow(x), Cleared(x) PROVE Cleared(x)'
  <2>1. x.ts \in Nat /\ x.ts <= latest_ts
    BY <1>7, ObsoleteFacts
  <2> QED
    BY <1>7, <2>1, ClearedKept
<1>8. ASSUME NEW x \in ExpiredRows PROVE x.scan \in Nat
  BY TimeTypes DEF ExpiredRows
<1>9. ASSUME NEW x \in ExpiredRows, ObsoleteRow(x)', x.scan <= d.cursor PROVE Cleared(x)'
  <2>1. ObsoleteRow(x)
    BY <1>3, <1>4, <1>5, <1>8, <1>9
  <2> QED
    BY <1>7, <1>9, <2>1 DEF IndexProgress
<1>10. ASSUME d.step = "delete", NEW x \in ExpiredRows, ObsoleteRow(x)', d.cursor <= x.scan,
              x.scan < d.end
       PROVE  x \in d.todo \cup d.chunk \/ Cleared(x)'
  <2>0. d.end <= bounds["index"]
    BY <1>10 DEF IndexProgress
  <2>1. ObsoleteRow(x)
    BY <1>3, <1>4, <1>5, <1>8, <1>10, <2>0
  <2> QED
    BY <1>7, <1>10, <2>1 DEF IndexProgress
<1> QED
  BY <1>2, <1>6, <1>9, <1>10 DEF IndexProgress

LEMMA IndexProgressStarted ==
  ASSUME TypeOK, HistoryInv, BoundsInv, DocumentsInv, NEW d \in DeleterType, d = deleter["index"],
         NEW n \in DeleterType, IndexProgress(d), Started("index", d, n)
  PROVE  IndexProgress(n)
<1>1. /\ d.cursor \in Nat /\ n.end \in Nat /\ watch["index"] \in Nat /\ bounds["index"] \in Nat
      /\ watch["index"] <= bounds["index"] /\ confirmed["index"] <= d.cursor
  BY Numbers, TimeTypes DEF DeleterType, BoundsInv, BoundsOrdered
<1>2. /\ n.step = "delete" /\ n.cursor = d.cursor /\ n.new_cursor = d.cursor /\ n.chunk = {}
      /\ d.cursor < n.end /\ n.end <= watch["index"]
      /\ n.todo = Expired("index", d.cursor, n.end)
  BY DEF Started, IndexProgress
<1>3. \A x : /\ x \in n.todo => ObsoleteRow(x) /\ x.scan < n.end
             /\ x \in ExpiredRows /\ ObsoleteRow(x) /\ d.cursor <= x.scan /\ x.scan < n.end =>
                  x \in n.todo
  BY <1>1, <1>2, ExpiredIsObsolete
<1>4. n.end <= bounds["index"] /\ d.cursor <= d.cursor
  BY <1>1, <1>2
<1> QED
  BY <1>2, <1>3, <1>4 DEF IndexProgress

LEMMA IndexProgressTaken ==
  ASSUME NEW d \in DeleterType, NEW n \in DeleterType, IndexProgress(d), Taken(d, n)
  PROVE  IndexProgress(n)
<1>1. /\ d.cursor \in Nat /\ d.end \in Nat /\ d.new_cursor \in Nat /\ n.new_cursor \in Nat
      /\ \A y \in d.todo : y.scan \in Nat
  BY TimeTypes DEF DeleterType, ExpiredRows
<1>2. /\ d.step = "delete" /\ n.step = "delete" /\ n.cursor = d.cursor /\ n.end = d.end
      /\ n.todo \cup n.chunk = d.todo \cup d.chunk /\ n.todo \subseteq d.todo
      /\ d.new_cursor <= n.new_cursor
  BY DEF Taken
<1>3. PICK x \in n.chunk : /\ \A y \in n.todo : x.scan <= y.scan
                           /\ n.new_cursor = d.new_cursor \/ n.new_cursor = x.scan - 1
  BY DEF Taken
<1>4. /\ d.cursor <= d.new_cursor /\ d.new_cursor < d.end
      /\ x \in d.todo /\ x.scan < d.end
      /\ \A y \in d.todo : d.new_cursor = d.cursor \/ d.new_cursor < y.scan
  BY <1>2, <1>3 DEF IndexProgress, Taken
<1>5. n.cursor <= n.new_cursor /\ n.new_cursor < n.end
  BY <1>1, <1>2, <1>3, <1>4
<1>6. \A y \in n.todo : n.new_cursor = n.cursor \/ n.new_cursor < y.scan
  <2>1. CASE n.new_cursor = d.new_cursor
    BY <1>2, <1>4, <2>1
  <2>2. CASE n.new_cursor = x.scan - 1
    BY <1>1, <1>2, <1>3, <1>4, <2>2
  <2> QED
    BY <1>3, <2>1, <2>2
<1> QED
  BY <1>2, <1>5, <1>6 DEF IndexProgress

LEMMA IndexProgressRemoved ==
  ASSUME TypeOK, NEW d \in DeleterType, d = deleter["index"], NEW n \in DeleterType, NEW x,
         IndexProgress(d), DeletePart("index", x), Removed("index", d, n, x)
  PROVE  IndexProgress(n)'
<1>1. /\ history' = history /\ bounds' = bounds /\ indexes' \subseteq indexes
  BY DeleteFacts, TimeTypes
<1>2. ASSUME NEW y PROVE (ObsoleteRow(y)' <=> ObsoleteRow(y)) /\ (Cleared(y) => Cleared(y)')
  BY <1>1 DEF ObsoleteRow, Cleared
<1>3. \A y \in d.chunk \ n.chunk : Cleared(y)'
  BY PartCleared DEF Removed, Part
<1>4. /\ n.chunk \subseteq d.chunk /\ n.todo = d.todo /\ n.cursor = d.cursor /\ n.end = d.end
      /\ n.new_cursor = d.new_cursor /\ n.step = "delete" /\ d.step = "delete"
  BY DEF Removed
<1> QED
  BY <1>1, <1>2, <1>3, <1>4 DEF IndexProgress

LEMMA IndexProgressReturned ==
  ASSUME NEW d \in DeleterType, NEW n \in DeleterType, IndexProgress(d),
         Returned(d, n) \/ Rested(d, n)
  PROVE  IndexProgress(n)
<1>0. /\ d.cursor \in Nat /\ d.end \in Nat /\ d.new_cursor \in Nat /\ n.cursor \in Nat
      /\ \A y \in ExpiredRows : y.scan \in Nat
  BY TimeTypes DEF DeleterType, ExpiredRows
<1>1. n.step # "delete" /\ n.chunk = {}
  BY DEF Returned, Rested
<1>2. ASSUME NEW x \in ExpiredRows, ObsoleteRow(x), x.scan <= n.cursor PROVE Cleared(x)
  <2>1. CASE x.scan <= d.cursor
    BY <1>2, <2>1 DEF IndexProgress
  <2>2. CASE d.cursor <= x.scan /\ ~(x.scan <= d.cursor)
    <3>1. Returned(d, n)
      BY <1>0, <1>2, <2>2 DEF Rested
    <3>2. /\ d.step = "delete" /\ d.new_cursor < d.end /\ x.scan < d.end
      BY <1>0, <1>2, <3>1 DEF Returned, IndexProgress
    <3>3. x \notin d.todo \cup d.chunk
      BY <1>0, <1>2, <3>1 DEF Returned, IndexProgress
    <3> QED
      BY <1>2, <2>2, <3>2, <3>3 DEF IndexProgress
  <2> QED
    BY <1>0, <2>1, <2>2
<1> QED
  BY <1>1, <1>2 DEF IndexProgress

LEMMA IndexDeleterStep ==
  ASSUME TypeOK, TypeOK', HistoryInv, BoundsInv, DocumentsInv, IndexDeleterInv, [Next]_vars
  PROVE  IndexDeleterInv'
<1>1. PICK n : n = deleter'["index"]
  OBVIOUS
<1>2. PICK d : d = deleter["index"]
  OBVIOUS
<1>3. d \in DeleterType /\ n \in DeleterType
  <2>1. deleter' \in [RetentionTypes -> DeleterType]
    BY DEF TypeOK, DeleterType
  <2> QED
    BY <1>1, <1>2, <2>1, Types, TimeTypes
<1>4. IndexProgress(d) /\ (d.step # "delete" => d.chunk = {}) /\ d.cursor <= bounds["index"]
  BY <1>2, IndexProgressIs, TimeTypes DEF IndexProgress, BoundsInv
<1>5. /\ bounds["index"] <= bounds'["index"] /\ bounds["index"] \in Nat
      /\ bounds'["index"] \in Nat
  BY BoundsGrow, TimeTypes
<1>6. CASE Commits
  <2>1. n = d
    BY <1>1, <1>2, <1>6 DEF Commits, Commit, leaderVars
  <2> QED
    BY <1>1, <1>3, <1>4, <1>6, <2>1, IndexProgressCommit, IndexProgressIs
<1>7. CASE \E x : DeletePart("index", x) /\ Removed("index", d, n, x)
  BY <1>1, <1>2, <1>3, <1>4, <1>7, IndexProgressRemoved, IndexProgressIs
<1>8. CASE ~Commits /\ ~(\E x : DeletePart("index", x) /\ Removed("index", d, n, x))
  <2>1. \/ n = d \/ Started("index", d, n) \/ Taken(d, n) \/ Returned(d, n) \/ Rested(d, n)
    BY <1>1, <1>2, <1>4, <1>8, DeleterMoves, TimeTypes
  <2>2. IndexProgress(n)
    BY <1>2, <1>3, <1>4, <2>1, IndexProgressStarted, IndexProgressTaken, IndexProgressReturned
  <2>3. UNCHANGED <<history, indexes>>
    <3>1. CASE Deletes
      <4>1. PICK type \in RetentionTypes : \E x \in deleter[type].chunk : DeletePart(type, x)
        BY <3>1 DEF Deletes
      <4>2. CASE type = "document"
        BY <4>1, <4>2, DeleteFacts
      <4>3. CASE type = "index"
        <5>1. PICK x \in deleter["index"].chunk : DeletePart("index", x)
          BY <4>1, <4>3
        <5>2. /\ d.step = "delete" /\ x \in d.chunk
              /\ Deleter("index", [d EXCEPT !.chunk = @ \ Part("index", x)])
          BY <1>2, <5>1, DeleteFacts, TimeTypes
        <5> DEFINE p == Part("index", x)
                   e == [d EXCEPT !.chunk = @ \ p]
        <5>3. n = e
          BY <1>1, <5>2, Types, TimeTypes DEF Deleter
        <5> HIDE DEF p
        <5>4. /\ e.step = d.step /\ e.end = d.end /\ e.new_cursor = d.new_cursor
              /\ e.todo = d.todo /\ e.cursor = d.cursor /\ e.chunk = d.chunk \ p
          BY <1>3 DEF DeleterType
        <5> HIDE DEF e
        <5>5. Removed("index", d, n, x)
          BY <5>2, <5>3, <5>4 DEF Removed, p
        <5> QED
          BY <1>8, <5>1, <5>5
      <4> QED
        BY <4>2, <4>3 DEF RetentionTypes
    <3>2. CASE ~Deletes
      BY <1>8, <3>2, StoreFrame
    <3> QED
      BY <3>1, <3>2
  <2> QED
    BY <1>1, <1>3, <1>5, <2>2, <2>3, IndexProgressKept, IndexProgressIs
<1> QED
  BY <1>6, <1>7, <1>8

DocumentProgress(d) ==
  /\ d.step # "delete" => d.chunk = {}
  /\ d.step = "delete" =>
       /\ d.cursor <= d.new_cursor /\ d.new_cursor < d.end /\ d.end <= bounds["document"]
       /\ \A x \in d.todo \cup d.chunk : ObsoleteRevision(x) /\ x.scan < d.end

LEMMA DocumentProgressIs ==
  /\ DocumentDeleterInv <=> DocumentProgress(deleter["document"])
  /\ \A n : n = deleter'["document"] /\ DocumentProgress(n)' => DocumentDeleterInv'
BY DEF DocumentDeleterInv, DocumentProgress

LEMMA DocumentProgressKept ==
  ASSUME NEW d \in DeleterType, history \subseteq history', bounds["document"] \in Nat,
         bounds'["document"] \in Nat, bounds["document"] <= bounds'["document"],
         DocumentProgress(d)
  PROVE  DocumentProgress(d)'
<1>1. ASSUME NEW x, ObsoleteRevision(x) PROVE ObsoleteRevision(x)'
  BY <1>1 DEF ObsoleteRevision
<1>2. d.end \in Nat
  BY TimeTypes DEF DeleterType
<1> QED
  BY <1>1, <1>2 DEF DocumentProgress

LEMMA DocumentProgressStarted ==
  ASSUME TypeOK, BoundsInv, NEW d \in DeleterType, NEW n \in DeleterType, DocumentProgress(d),
         Started("document", d, n)
  PROVE  DocumentProgress(n)
<1>1. /\ d.cursor \in Nat /\ n.end \in Nat /\ watch["document"] \in Nat
      /\ bounds["document"] \in Nat /\ watch["document"] <= bounds["document"]
  BY Numbers, TimeTypes DEF DeleterType, BoundsInv, BoundsOrdered
<1>2. /\ n.step = "delete" /\ n.cursor = d.cursor /\ n.new_cursor = d.cursor /\ n.chunk = {}
      /\ d.cursor < n.end /\ n.end <= watch["document"]
      /\ n.todo = Expired("document", d.cursor, n.end)
  BY DEF Started, DocumentProgress
<1>3. ASSUME NEW x \in n.todo PROVE ObsoleteRevision(x) /\ x.scan < n.end
  <2>1. PICK r \in documents : r.ts < n.end /\ x \in ExpiredByDocument(r)
    BY <1>2, <1>3 DEF Expired
  <2>2. PICK ts : /\ x = [scan |-> r.ts, id |-> r.id, value |-> Deleted, ts |-> ts]
                  /\ ts = r.prev_ts \/ (ts = r.ts /\ r.value = Deleted)
    BY <2>1 DEF ExpiredByDocument
  <2>3. x.scan = r.ts /\ x.id = r.id /\ x.ts = ts /\ r \in history
    BY <2>2, Types
  <2> QED
    BY <2>1, <2>2, <2>3 DEF ObsoleteRevision
<1>4. n.end <= bounds["document"] /\ d.cursor <= d.cursor
  BY <1>1, <1>2
<1> QED
  BY <1>2, <1>3, <1>4 DEF DocumentProgress

LEMMA DocumentProgressOther ==
  ASSUME NEW d \in DeleterType, NEW n \in DeleterType, NEW x, DocumentProgress(d),
         Taken(d, n) \/ Removed("document", d, n, x) \/ Returned(d, n) \/ Rested(d, n)
  PROVE  DocumentProgress(n)
<1>0. /\ d.cursor \in Nat /\ d.end \in Nat /\ d.new_cursor \in Nat /\ n.new_cursor \in Nat
      /\ \A y \in d.todo : y.scan \in Nat
  BY TimeTypes DEF DeleterType, ExpiredRows
<1>1. CASE Taken(d, n)
  <2>1. PICK y \in n.chunk : /\ y \in d.todo
                             /\ n.new_cursor = d.new_cursor \/ n.new_cursor = y.scan - 1
    BY <1>1 DEF Taken
  <2>2. d.new_cursor < d.end /\ y.scan < d.end /\ d.cursor <= d.new_cursor
    BY <1>1, <2>1 DEF DocumentProgress, Taken
  <2>3. d.cursor <= n.new_cursor /\ n.new_cursor < d.end
    BY <1>0, <1>1, <2>1, <2>2 DEF Taken
  <2> QED
    BY <1>1, <2>3 DEF Taken, DocumentProgress
<1>2. CASE Removed("document", d, n, x)
  BY <1>2 DEF Removed, DocumentProgress
<1>3. CASE Returned(d, n) \/ Rested(d, n)
  BY <1>3 DEF Returned, Rested, DocumentProgress
<1> QED
  BY <1>1, <1>2, <1>3

LEMMA DocumentDeleterStep ==
  ASSUME TypeOK, TypeOK', HistoryInv, BoundsInv, DocumentDeleterInv, [Next]_vars
  PROVE  DocumentDeleterInv'
<1>1. PICK n : n = deleter'["document"]
  OBVIOUS
<1>2. PICK d : d = deleter["document"]
  OBVIOUS
<1>3. d \in DeleterType /\ n \in DeleterType
  <2>1. deleter' \in [RetentionTypes -> DeleterType]
    BY DEF TypeOK, DeleterType
  <2> QED
    BY <1>1, <1>2, <2>1, Types, TimeTypes
<1>4. DocumentProgress(d) /\ (d.step # "delete" => d.chunk = {})
  BY <1>2, DocumentProgressIs DEF DocumentProgress
<1>5. /\ bounds["document"] <= bounds'["document"] /\ bounds["document"] \in Nat
      /\ bounds'["document"] \in Nat
  BY BoundsGrow, TimeTypes
<1>6. \/ n = d \/ Started("document", d, n) \/ Taken(d, n)
      \/ \E x : Removed("document", d, n, x)
      \/ Returned(d, n) \/ Rested(d, n)
  BY <1>1, <1>2, <1>4, DeleterMoves, TimeTypes
<1>7. DocumentProgress(n)
  BY <1>3, <1>4, <1>6, DocumentProgressStarted, DocumentProgressOther
<1>8. history \subseteq history'
  <2>1. CASE Commits
    BY <2>1, CommitFacts DEF Commits
  <2>2. CASE Deletes
    BY <2>2, DeleteFacts DEF Deletes
  <2> QED
    BY <2>1, <2>2, StoreFrame
<1> QED
  BY <1>1, <1>3, <1>5, <1>7, <1>8, DocumentProgressKept, DocumentProgressIs

-----------------------------------------------------------------------------
(* What follows for the tables and for a scan.                             *)

LEMMA ConfirmedIsDeleted ==
  ASSUME TypeOK, HistoryInv, BoundsInv, IndexDeleterInv
  PROVE  ConfirmedDeleted
<1> SUFFICES ASSUME NEW r \in history, NEW p \in history, p.id = r.id, p.ts = r.prev_ts,
                    r.ts <= confirmed["index"],
                    NEW row \in indexes, row.id = p.id, row.value = p.value
             PROVE  /\ row.ts > p.ts
                    /\ r.value # p.value => row.ts > r.ts
  BY DEF ConfirmedDeleted
<1>1. /\ r.ts \in Timestamps /\ p.ts \in Timestamps /\ p.id \in Ids
      /\ p.value \in Values \cup {Deleted} /\ r.ts \in Nat /\ p.ts \in Nat /\ row.ts \in Nat
  BY Types, TimeTypes DEF Revisions, Rows
<1>2. r.ts <= deleter["index"].cursor
  <2>1. /\ confirmed["index"] \in Nat /\ deleter["index"].cursor \in Nat
        /\ confirmed["index"] <= deleter["index"].cursor
    BY Numbers, TimeTypes DEF BoundsInv
  <2> QED
    BY <1>1, <2>1
<1>3. ASSUME NEW ts \in {p.ts, r.ts}, ts = p.ts \/ r.value # p.value PROVE row.ts > ts
  <2> DEFINE x == [scan |-> r.ts, id |-> p.id, value |-> p.value, ts |-> ts]
  <2>1. x \in ExpiredRows /\ x.scan = r.ts /\ x.id = p.id /\ x.value = p.value /\ x.ts = ts
    BY <1>1 DEF ExpiredRows
  <2> HIDE DEF x
  <2>2. ObsoleteRow(x)
    BY <1>3, <2>1 DEF ObsoleteRow
  <2>3. Cleared(x)
    BY <1>2, <2>1, <2>2 DEF IndexDeleterInv
  <2>4. ts < row.ts
    BY <2>1, <2>3 DEF Cleared
  <2> QED
    BY <1>1, <1>3, <2>4
<1> QED
  BY <1>3

\* A revision that is not the last of its document has a next one.
LEMMA Successor ==
  ASSUME TypeOK, HistoryInv, NEW r \in history, NEW q \in history, q.id = r.id, r.ts < q.ts
  PROVE  \E s \in history : s.id = r.id /\ s.prev_ts = r.ts /\ s.ts <= q.ts /\ r.ts < s.ts
<1> DEFINE S == {h.ts : h \in {k \in history : k.id = r.id /\ r.ts < k.ts}}
<1>0. \A h \in history : h.ts \in Nat /\ h.prev_ts \in Nat /\ h.prev_ts < h.ts
  BY HistoryFacts
<1>1. S \in SUBSET Nat /\ q.ts \in S
  BY <1>0
<1>2. PICK t \in S : \A u \in S : t <= u
  BY <1>1, LeastNat
<1>3. PICK s \in history : s.id = r.id /\ r.ts < s.ts /\ s.ts = t
  BY <1>2
<1>4. r.ts <= s.prev_ts
  BY <1>3 DEF HistoryInv
<1>5. ASSUME r.ts < s.prev_ts PROVE FALSE
  <2>1. PICK p \in history : p.id = s.id /\ p.ts = s.prev_ts
    BY <1>0, <1>3, <1>5 DEF HistoryInv
  <2>2. p.ts \in S
    BY <1>3, <1>5, <2>1
  <2> QED
    BY <1>0, <1>2, <1>3, <2>1, <2>2
<1>6. s.prev_ts = r.ts
  BY <1>0, <1>4, <1>5
<1> QED
  BY <1>1, <1>2, <1>3, <1>6

LEMMA NothingDangles ==
  ASSUME TypeOK, HistoryInv, BoundsInv, DocumentsInv, IndexInv, IndexDeleterInv
  PROVE  NoDanglingReference
<1> SUFFICES ASSUME NEW row \in indexes, ~row.deleted
             PROVE  \E r \in documents : r.id = row.id /\ r.ts = row.ts
  BY DEF NoDanglingReference
<1>1. row.value \in Values /\ row.ts \in Nat /\ row.value # Deleted
  BY Types, TimeTypes DEF Rows
<1>2. PICK r \in history : r.id = row.id /\ r.ts = row.ts /\ r.value = row.value
  BY DEF IndexInv, Wrote
<1>3. ASSUME r \notin documents PROVE FALSE
  <2>1. PICK q \in history : q.id = r.id /\ r.ts < q.ts /\ q.ts < bounds["document"]
    BY <1>1, <1>2, <1>3 DEF DocumentsInv
  <2>2. PICK s \in history : s.id = r.id /\ s.prev_ts = r.ts /\ s.ts <= q.ts
    BY <2>1, Successor
  <2>3. /\ bounds["document"] \in Nat /\ min_persisted["document"] \in Nat
        /\ confirmed["index"] \in Nat
        /\ bounds["document"] <= min_persisted["document"]
        /\ min_persisted["document"] <= confirmed["index"]
    BY Numbers, TimeTypes DEF BoundsInv, BoundsOrdered
  <2>4. s.ts <= confirmed["index"] /\ r.ts \in Nat
    BY <2>1, <2>2, <2>3, HistoryFacts
  <2>5. row.ts > r.ts
    BY <1>2, <2>2, <2>4, ConfirmedIsDeleted DEF ConfirmedDeleted
  <2> QED
    BY <1>1, <1>2, <2>4, <2>5
<1> QED
  BY <1>2, <1>3

LEMMA NothingSkipped ==
  ASSUME TypeOK, HistoryInv, BoundsInv, DocumentsInv
  PROVE  NoSkippedRevision
<1> SUFFICES ASSUME NEW r \in documents, confirmed["index"] <= r.ts, r.prev_ts # 0
             PROVE  \E p \in documents : p.id = r.id /\ p.ts = r.prev_ts
  BY DEF NoSkippedRevision
<1>1. r \in history
  BY Types
<1>2. PICK p \in history : p.id = r.id /\ p.ts = r.prev_ts
  BY <1>1 DEF HistoryInv
<1> QED
  BY <1>1, <1>2, ScannedPresent

LEMMA WroteRow ==
  ASSUME TypeOK, HistoryInv, NEW r \in history, r.value # Deleted, NEW s \in history,
         s = r \/ (s.id = r.id /\ s.prev_ts = r.ts)
  PROVE  \E h \in Rows : /\ Wrote(h) /\ h.id = r.id /\ h.value = r.value /\ h.ts = s.ts
                         /\ h.deleted <=> s.value # r.value
<1> DEFINE h == [id |-> r.id, value |-> r.value, ts |-> s.ts, deleted |-> s.value # r.value]
<1>1. r \in Revisions /\ s \in Revisions
  BY Types
<1>2. h \in Rows
  BY <1>1 DEF Revisions, Rows
<1>3. /\ h.id = r.id /\ h.value = r.value /\ h.ts = s.ts /\ (h.deleted <=> s.value # r.value)
  OBVIOUS
<1> HIDE DEF h
<1>4. Wrote(h)
  <2>1. CASE s.value = r.value
    BY <1>3, <2>1 DEF Wrote
  <2>2. CASE s.value # r.value
    <3>1. s.id = r.id /\ s.prev_ts = r.ts
      BY <2>2
    <3> QED
      BY <1>3, <2>2, <3>1 DEF Wrote
  <2> QED
    BY <2>1, <2>2
<1> QED
  BY <1>2, <1>3, <1>4

LEMMA IndexScanComplete ==
  ASSUME TypeOK, HistoryInv, BoundsInv, DocumentsInv, IndexInv, IndexDeleterInv, NEW ts \in Nat,
         bounds["index"] <= ts
  PROVE  IndexScanGood(ts)
<1>0. /\ bounds["index"] \in Nat
      /\ \A r \in history : r.ts \in Nat
      /\ \A row \in indexes : row.ts \in Nat /\ row.value \in Values /\ row.value # Deleted
  BY Numbers, TimeTypes, Types, HistoryFacts DEF Rows
<1> DEFINE Current == {q \in history : IsCurrent(q, ts) /\ q.value # Deleted}
<1>1. ASSUME NEW row \in IndexScan(ts)
      PROVE  \E r \in Current : r.id = row.id /\ r.value = row.value /\ r.ts = row.ts
  <2>1. /\ row \in indexes /\ row.ts <= ts /\ ~row.deleted
        /\ \A other \in indexes :
             other.id = row.id /\ other.value = row.value /\ other.ts <= ts => other.ts <= row.ts
    BY DEF IndexScan
  <2>2. PICK r \in history : r.id = row.id /\ r.value = row.value /\ r.ts = row.ts
    BY <2>1 DEF IndexInv, Wrote
  <2>3. ASSUME NEW q \in history, q.id = r.id, q.ts <= ts PROVE q.ts <= r.ts
    <3>1. ASSUME r.ts < q.ts PROVE FALSE
      <4>1. PICK s \in history : s.id = r.id /\ s.prev_ts = r.ts /\ s.ts <= q.ts /\ r.ts < s.ts
        BY <2>3, <3>1, Successor
      <4>2. PICK h \in Rows : Wrote(h) /\ h.id = r.id /\ h.value = r.value /\ h.ts = s.ts
        BY <1>0, <2>1, <2>2, <4>1, WroteRow
      <4>3. h.ts \in Nat /\ h.ts <= ts /\ row.ts < h.ts /\ row.ts \in Nat
        BY <1>0, <2>1, <2>2, <2>3, <4>1, <4>2
      <4>4. CASE h \in indexes
        BY <2>1, <2>2, <4>2, <4>3, <4>4
      <4>5. CASE h \notin indexes
        <5>1. h.ts < row.ts
          BY <2>1, <2>2, <4>2, <4>5 DEF IndexInv, Cleared
        <5> QED
          BY <4>3, <5>1
      <4> QED
        BY <4>4, <4>5
    <3> QED
      BY <1>0, <3>1
  <2>4. r \in Current
    BY <1>0, <2>1, <2>2, <2>3 DEF IsCurrent
  <2> QED
    BY <2>2, <2>4
<1>2. ASSUME NEW r \in Current
      PROVE  \E row \in IndexScan(ts) : r.id = row.id /\ r.value = row.value /\ r.ts = row.ts
  <2>1. /\ r \in history /\ r.value # Deleted /\ r.ts <= ts
        /\ \A q \in history : q.id = r.id /\ q.ts <= ts => q.ts <= r.ts
    BY DEF IsCurrent
  <2>2. PICK h \in Rows : /\ Wrote(h) /\ h.id = r.id /\ h.value = r.value /\ h.ts = r.ts
                          /\ ~h.deleted
    BY <2>1, WroteRow
  <2>3. h \in indexes
    <3>1. ASSUME h \notin indexes PROVE FALSE
      <4>1. PICK q \in history : /\ q.id = h.id /\ q.ts < bounds["index"] /\ h.ts < q.ts
        BY <2>2, <3>1 DEF IndexInv
      <4> QED
        BY <1>0, <2>1, <2>2, <4>1
    <3> QED
      BY <3>1
  <2>4. ASSUME NEW other \in indexes, other.id = h.id, other.ts <= ts PROVE other.ts <= h.ts
    <3>1. PICK q \in history : q.id = other.id /\ q.ts = other.ts
      BY DEF IndexInv, Wrote
    <3> QED
      BY <2>1, <2>2, <2>4, <3>1
  <2>5. h \in IndexScan(ts)
    BY <2>1, <2>2, <2>3, <2>4 DEF IndexScan
  <2> QED
    BY <2>2, <2>5
<1>3. ASSUME NEW row \in IndexScan(ts) PROVE \E r \in documents : r.id = row.id /\ r.ts = row.ts
  BY NothingDangles DEF IndexScan, NoDanglingReference
<1>4. {[id |-> row.id, value |-> row.value, ts |-> row.ts] : row \in IndexScan(ts)}
        = {[id |-> r.id, value |-> r.value, ts |-> r.ts] : r \in Current}
  <2> DEFINE A == {[id |-> row.id, value |-> row.value, ts |-> row.ts] : row \in IndexScan(ts)}
             B == {[id |-> r.id, value |-> r.value, ts |-> r.ts] : r \in Current}
  <2> HIDE DEF Current
  <2>1. ASSUME NEW e \in A PROVE e \in B
    <3>1. PICK row \in IndexScan(ts) : e = [id |-> row.id, value |-> row.value, ts |-> row.ts]
      BY <2>1
    <3>2. PICK r \in Current : r.id = row.id /\ r.value = row.value /\ r.ts = row.ts
      BY <1>1
    <3>3. e = [id |-> r.id, value |-> r.value, ts |-> r.ts]
      BY <3>1, <3>2
    <3> QED
      BY <3>3
  <2>2. ASSUME NEW e \in B PROVE e \in A
    <3>1. PICK r \in Current : e = [id |-> r.id, value |-> r.value, ts |-> r.ts]
      BY <2>2
    <3>2. PICK row \in IndexScan(ts) : r.id = row.id /\ r.value = row.value /\ r.ts = row.ts
      BY <1>2
    <3>3. e = [id |-> row.id, value |-> row.value, ts |-> row.ts]
      BY <3>1, <3>2
    <3> QED
      BY <3>3
  <2> HIDE DEF A, B
  <2>3. A = B
    BY <2>1, <2>2
  <2> QED
    BY <2>3 DEF A, B
<1> QED
  BY <1>3, <1>4 DEF IndexScanGood

LEMMA DocumentScanComplete ==
  ASSUME TypeOK, HistoryInv, DocumentsInv, NEW ts \in Nat, bounds["document"] <= ts
  PROVE  DocumentScanGood(ts)
<1> SUFFICES ASSUME NEW r \in history, r.ts > ts \/ (IsCurrent(r, ts) /\ r.value # Deleted),
                    r \notin documents
             PROVE  FALSE
  BY DEF DocumentScanGood
<1>1. bounds["document"] \in Nat /\ \A q \in history : q.ts \in Nat
  BY Numbers, TimeTypes, HistoryFacts
<1>2. /\ r.ts < bounds["document"]
      /\ \/ r.value = Deleted
         \/ \E q \in history : q.id = r.id /\ r.ts < q.ts /\ q.ts < bounds["document"]
  BY DEF DocumentsInv
<1>3. IsCurrent(r, ts) /\ r.value # Deleted
  BY <1>1, <1>2
<1>4. PICK q \in history : q.id = r.id /\ r.ts < q.ts /\ q.ts < bounds["document"]
  BY <1>2, <1>3
<1>5. q.ts <= r.ts
  BY <1>1, <1>3, <1>4 DEF IsCurrent
<1> QED
  BY <1>1, <1>4, <1>5

-----------------------------------------------------------------------------
(* Readers.                                                                *)

LEMMA ReaderFrame ==
  ASSUME [Next]_vars, ~Restart, ~ValidateSnapshot, ~FinishRead,
         ~(\E type \in RetentionTypes, leader \in BOOLEAN, ts \in Timestamps :
             Read(leader, type, ts))
  PROVE  reader' = reader
<1>1. ASSUME NEW type \in RetentionTypes,
             \/ \E ts \in Timestamps : AdvanceTimestamp(type, ts)
             \/ \E end \in Timestamps : StartDelete(type, end)
             \/ \E chunk \in SUBSET deleter[type].todo : TakeChunk(type, chunk)
             \/ \E x \in deleter[type].chunk : DeletePart(type, x)
             \/ \E step \in {"wait", "checkpoint"} : DeleteReturns(type, step)
             \/ DeleteFails(type) \/ CheckpointPersist(type) \/ CheckpointMemory(type)
             \/ CheckpointFails(type)
      PROVE  reader' = reader
  BY <1>1 DEF AdvanceTimestamp, StartDelete, TakeChunk, DeletePart, DeleteReturns, DeleteFails,
     CheckpointPersist, CheckpointMemory, CheckpointFails
<1>2. CASE \/ \E id \in Ids, value \in Values \cup {Deleted} : Commit(id, value)
           \/ BumpRepeatable \/ AdvancePersist \/ AdvanceMemory \/ AdvanceFails
           \/ EmitTimestamp \/ UNCHANGED vars
  BY <1>2 DEF Commit, BumpRepeatable, AdvancePersist, AdvanceMemory, AdvanceFails,
     EmitTimestamp, vars
<1> QED
  BY <1>1, <1>2 DEF Next

LEMMA ReaderStep ==
  ASSUME TypeOK, TypeOK', HistoryInv, BoundsInv, DocumentsInv, IndexInv, IndexDeleterInv,
         ReaderInv, [Next]_vars
  PROVE  ReaderInv'
<1>0. reader \in ReaderType /\ reader.type \in RetentionTypes /\ reader.ts \in Nat
  BY Types, TimeTypes DEF ReaderType
<1>1. /\ bounds[reader.type] <= bounds'[reader.type] /\ bounds[reader.type] \in Nat
      /\ bounds'[reader.type] \in Nat
  BY <1>0, BoundsGrow
<1>2. ASSUME reader' = reader PROVE ReaderInv'
  BY <1>0, <1>1, <1>2 DEF ReaderInv, AcceptedReadsTrue
<1>3. ASSUME reader' = NoRead PROVE ReaderInv'
  BY <1>3 DEF ReaderInv, AcceptedReadsTrue, NoRead
<1>4. ASSUME NEW type \in RetentionTypes, NEW leader \in BOOLEAN, NEW ts \in Timestamps,
             Read(leader, type, ts)
      PROVE  ReaderInv'
  <2> DEFINE good == IF type = "index" THEN IndexScanGood(ts) ELSE DocumentScanGood(ts)
  <2>1. /\ reader' = [step |-> "read", leader |-> leader, type |-> type, ts |-> ts,
                      good |-> good]
        /\ bounds' = bounds
    BY <1>4 DEF Read, leaderVars
  <2>2. ts \in Nat /\ bounds[type] \in Nat
    BY TimeTypes, Numbers
  <2>3. bounds[type] <= ts => good
    BY <2>2, IndexScanComplete, DocumentScanComplete DEF RetentionTypes
  <2> HIDE DEF good
  <2>4. reader'.step = "read" /\ reader'.type = type /\ reader'.ts = ts /\ (reader'.good <=> good)
    BY <2>1
  <2>5. ~good => ts < bounds[type]
    BY <2>2, <2>3
  <2> QED
    BY <2>1, <2>4, <2>5 DEF ReaderInv, AcceptedReadsTrue
<1>5. CASE ValidateSnapshot
  <2>1. CASE reader.ts < Bound(reader.leader, reader.type)
    BY <1>3, <1>5, <2>1 DEF ValidateSnapshot
  <2>2. CASE ~(reader.ts < Bound(reader.leader, reader.type))
    <3>1. /\ reader.step = "read"
          /\ reader' = [NoRead EXCEPT !.step = "accepted", !.good = reader.good]
      BY <1>5, <2>2 DEF ValidateSnapshot
    <3>2. reader'.step = "accepted" /\ reader'.good = reader.good
      BY <3>1 DEF NoRead
    <3>3. /\ min_persisted[reader.type] \in Nat
          /\ bounds[reader.type] <= min_persisted[reader.type]
      BY <1>0, Numbers DEF BoundsInv, BoundsOrdered
    <3>4. ~(reader.ts < bounds[reader.type])
      BY <1>0, <1>1, <2>2, <3>3 DEF Bound
    <3>5. reader.good
      BY <3>1, <3>4 DEF ReaderInv
    <3> QED
      BY <3>2, <3>5 DEF ReaderInv, AcceptedReadsTrue
  <2> QED
    BY <2>1, <2>2
<1>6. CASE FinishRead \/ Restart
  BY <1>2, <1>3, <1>6 DEF FinishRead, Restart
<1> QED
  BY <1>2, <1>4, <1>5, <1>6, ReaderFrame

-----------------------------------------------------------------------------
(* The theorems.                                                           *)

LEMMA InitInv == Init => Inv
<1> SUFFICES ASSUME Init PROVE Inv
  OBVIOUS
<1>1. TypeOK
  BY InitType
<1>2. /\ history = {} /\ indexes = {} /\ latest_ts = 0 /\ repeatable_ts = 0
      /\ advance.step = "idle" /\ reader.step = "idle"
      /\ \A t \in RetentionTypes :
           /\ min_persisted[t] = 0 /\ confirmed[t] = 0 /\ bounds[t] = 0 /\ checkpoint[t] = 0
           /\ watch[t] = 0
           /\ deleter[t].step = "wait" /\ deleter[t].cursor = 0 /\ deleter[t].chunk = {}
  BY DEF Init, Zero, Idle, NoRead, Waiting
<1>3. HistoryInv /\ DocumentsInv /\ IndexInv
  BY <1>2 DEF HistoryInv, DocumentsInv, IndexInv, Wrote
<1>4. BoundsInv
  BY <1>2, TimeTypes DEF BoundsInv, BoundsOrdered
<1>5. AdvanceInv /\ ReaderInv
  BY <1>2 DEF AdvanceInv, ReaderInv, AcceptedReadsTrue
<1>6. IndexDeleterInv /\ DocumentDeleterInv
  BY <1>2, TimeTypes DEF IndexDeleterInv, DocumentDeleterInv, ObsoleteRow
<1> QED
  BY <1>1, <1>3, <1>4, <1>5, <1>6 DEF Inv

LEMMA InvStep == Inv /\ [Next]_vars => Inv'
<1> SUFFICES ASSUME Inv, [Next]_vars PROVE Inv'
  OBVIOUS
<1>1. /\ TypeOK /\ HistoryInv /\ BoundsInv /\ AdvanceInv /\ DocumentsInv
      /\ IndexInv /\ IndexDeleterInv /\ DocumentDeleterInv /\ ReaderInv
  BY DEF Inv
<1>2. TypeOK'
  BY <1>1, TypeStep
<1>3. HistoryInv' /\ BoundsInv' /\ AdvanceInv' /\ DocumentsInv'
  BY <1>1, <1>2, HistoryStep, BoundsStep, DocumentsStep
<1>4. IndexInv' /\ IndexDeleterInv' /\ DocumentDeleterInv' /\ ReaderInv'
  BY <1>1, <1>2, IndexStep, IndexDeleterStep, DocumentDeleterStep, ReaderStep
<1> QED
  BY <1>2, <1>3, <1>4 DEF Inv

\* The inductive invariant holds in every behaviour of the retention tasks,
\* the commits they run beside and the readers.
THEOREM RetentionInvariant == Spec => []Inv
<1>1. Init => Inv
  BY InitInv
<1>2. Inv /\ [Next]_vars => Inv'
  BY InvStep
<1> QED
  BY <1>1, <1>2, PTL DEF Spec

\* The tables, the persistence globals and the memory of the tasks keep their
\* types; a document in the table is a revision that was committed.
THEOREM RetentionTypeCorrect == Spec => []TypeOK
<1>1. Inv => TypeOK
  BY DEF Inv
<1> QED
  BY <1>1, RetentionInvariant, PTL

\* advance_timestamp and checkpoint keep the bounds in order over crashes
\* between the write to persistence and the one to memory: "persistence >=
\* memory", and documents expire only where index retention is confirmed.
THEOREM BoundsStayOrdered == Spec => []BoundsOrdered
<1>1. Inv => BoundsOrdered
  BY DEF Inv, BoundsInv
<1> QED
  BY <1>1, RetentionInvariant, PTL

\* A persisted checkpoint of index retention is true: whatever the revisions
\* up to it made obsolete is deleted, with chunks that end in the middle of a
\* timestamp, parts that run concurrently and deletions that fail half-way.
THEOREM CheckpointsAreTrue == Spec => []ConfirmedDeleted
<1>1. Inv => ConfirmedDeleted
  BY ConfirmedIsDeleted DEF Inv
<1> QED
  BY <1>1, RetentionInvariant, PTL

\* index_scan never meets a row whose document is gone.
THEOREM IndexNeverDangles == Spec => []NoDanglingReference
<1>1. Inv => NoDanglingReference
  BY NothingDangles DEF Inv
<1> QED
  BY <1>1, RetentionInvariant, PTL

\* expired_index_entries finds the previous revision of everything it has
\* not confirmed yet, so that nothing is skipped for good.
THEOREM NothingIsSkipped == Spec => []NoSkippedRevision
<1>1. Inv => NoSkippedRevision
  BY NothingSkipped DEF Inv
<1> QED
  BY <1>1, RetentionInvariant, PTL

\* A read that validate_snapshot accepted afterwards saw exactly the database
\* at its timestamp, on the leader and on followers, whatever was deleted
\* while it ran and whatever a crash left undone.
THEOREM ReadsAreTrue == Spec => []AcceptedReadsTrue
<1>1. Inv => AcceptedReadsTrue
  BY DEF Inv, ReaderInv
<1> QED
  BY <1>1, RetentionInvariant, PTL

==============================================================================
