------------------------ MODULE TableIterationProofs ------------------------
(***************************************************************************)
(* The walk of a snapshot yields exactly the snapshot, for any tables,     *)
(* documents, page size and commits, and its checks never fail.            *)
(*                                                                         *)
(* The argument: a document is either as it was at the snapshot when its   *)
(* page is read, and then the page has it, or it has changed since, and    *)
(* then the first entry of the log after the snapshot leads to what it     *)
(* was.  The log is read up to the timestamp of the page, so that no       *)
(* document is both and none is neither.                                   *)
(***************************************************************************)
EXTENDS TableIteration, FiniteSetTheorems, TLAPS

-----------------------------------------------------------------------------
(* The inductive invariant.                                                *)

\* The document log: prev_ts links each revision to the one before it.
DocumentsInv ==
  /\ \A r \in documents : 1 <= r.ts /\ r.ts <= latest_ts /\ r.prev_ts < r.ts
  /\ \A r, q \in documents : r.id = q.id /\ r.ts = q.ts => r = q
  /\ \A r \in documents : r.prev_ts # 0 =>
       \E q \in documents : q.id = r.id /\ q.ts = r.prev_ts
  /\ \A r, q \in documents : r.id = q.id /\ q.ts < r.ts => q.ts <= r.prev_ts

TimeInv ==
  /\ snapshot_ts <= end_ts /\ end_ts <= recent_ts /\ recent_ts <= latest_ts
  /\ walk.step = "log" => end_ts <= walk.page_ts /\ walk.page_ts <= recent_ts

\* The documents of a table with an entry in (from, to].
Changed(docs, t, from, to) ==
  {id \in Ids : TableOf[id] = t /\ \E r \in docs : r.id = id /\ from < r.ts /\ r.ts <= to}

\* p is the timestamp of the document's revision at the snapshot, 0 if none.
IsRevisionTs(docs, snap, id, p) ==
  /\ \A r \in docs : r.id = id /\ r.ts <= snap => r.ts <= p
  /\ p # 0 => p <= snap /\ \E r \in docs : r.id = id /\ r.ts = p

\* The buffers hold what the log says up to end_ts.
BufferInv ==
  \A t \in DOMAIN buffered :
    /\ DOMAIN buffered[t] = Changed(documents, t, snapshot_ts, end_ts)
    /\ \A id \in DOMAIN buffered[t] :
         IsRevisionTs(documents, snapshot_ts, id, buffered[t][id])

\* The rows of one table between two keys at a timestamp.
Rows(docs, ts, t, from, to) ==
  {r \in docs : /\ r.ts <= ts /\ r.value # Deleted
                /\ \A q \in docs : q.id = r.id /\ q.ts <= ts => q.ts <= r.ts
                /\ TableOf[r.id] = t /\ from < Key(r) /\ Key(r) <= to}

\* What the walk knows: what it has yielded, the documents of its table that
\* have changed, their revisions beyond the cursor, and its page.
WalkInv ==
  /\ walk.step # "failed"
  /\ walk.yielded = Rows(documents, snapshot_ts, walk.table, 0, walk.cursor)
  /\ walk.step \in {"page", "log"} =>
       /\ walk.observed = Changed(documents, walk.table, snapshot_ts, end_ts)
       /\ walk.skipped = {r \in Rows(documents, snapshot_ts, walk.table, walk.cursor, End) :
                            r.id \in walk.observed}
  /\ walk.step = "log" =>
       /\ walk.page = Rows(documents, walk.page_ts, walk.table, walk.cursor, walk.page_end)
       /\ walk.cursor <= walk.page_end

Inv == TypeOK /\ DocumentsInv /\ TimeInv /\ BufferInv /\ WalkInv

-----------------------------------------------------------------------------
(* Least and greatest elements.                                            *)

LEMMA LeastNat ==
  ASSUME NEW S \in SUBSET Nat, S # {}
  PROVE  \E x \in S : \A y \in S : x <= y
<1>1. PICK x \in S : \A y \in S : ~(<<y, x>> \in OpToRel(<, Nat))
  BY NatLessThanWellFounded, WFMin
<1>2. ASSUME NEW y \in S, y < x PROVE <<y, x>> \in OpToRel(<, Nat)
  <2>1. <<y, x>> \in Nat \X Nat /\ <<y, x>>[1] < <<y, x>>[2]
    BY <1>2
  <2> QED
    BY <2>1, Zenon DEF OpToRel
<1>3. \A y \in S : ~(y < x)
  BY <1>1, <1>2
<1> QED
  BY <1>3

\* The greatest element is the least bound.
LEMMA MaxIsGreatest ==
  ASSUME NEW S \in SUBSET Nat, S # {}, NEW bound \in Nat, \A x \in S : x <= bound
  PROVE  Max(S) \in S /\ \A x \in S : x <= Max(S)
<1> DEFINE Bounds == {b \in Nat : \A x \in S : x <= b}
<1>1. bound \in Bounds
  OBVIOUS
<1>2. PICK b \in Bounds : \A c \in Bounds : b <= c
  BY <1>1, LeastNat
<1>3. b \in S
  <2>1. CASE b = 0
    <3>1. PICK x \in S : TRUE
      OBVIOUS
    <3>2. x \in Nat /\ x <= b
      BY <1>2
    <3> QED
      BY <2>1, <3>2
  <2>2. CASE b # 0
    <3>1. b - 1 \in Nat /\ b - 1 \notin Bounds
      BY <2>2, <1>2
    <3>2. PICK x \in S : ~(x <= b - 1)
      BY <3>1
    <3> QED
      BY <3>2, <1>2
  <2> QED
    BY <2>1, <2>2
<1>4. \E x \in S : \A y \in S : y <= x
  BY <1>2, <1>3
<1> QED
  BY <1>4 DEF Max

-----------------------------------------------------------------------------
(* Types and keys.                                                         *)

LEMMA Types ==
  ASSUME TableIterationAssumption, TypeOK
  PROVE  /\ latest_ts \in Timestamps /\ recent_ts \in Timestamps
         /\ snapshot_ts \in Timestamps /\ end_ts \in Timestamps
         /\ latest_ts \in Nat /\ recent_ts \in Nat /\ snapshot_ts \in Nat /\ end_ts \in Nat
         /\ MaxTs \in Nat /\ walk.page_ts \in Nat /\ walk.page_ts \in Timestamps
         /\ documents \subseteq Revisions /\ walk \in Walks
<1>1. walk.page_ts \in Timestamps /\ walk \in Walks
  BY DEF TypeOK, Walks
<1> QED
  BY <1>1 DEF TypeOK, Timestamps, TableIterationAssumption

LEMMA RevisionTypes ==
  ASSUME TableIterationAssumption, NEW r \in Revisions
  PROVE  /\ r.id \in Ids /\ r.id \in Nat /\ 1 <= r.id /\ r.id <= NumDocs
         /\ r.ts \in Nat /\ r.prev_ts \in Nat /\ r.ts \in Timestamps
         /\ r.value \in Nat /\ r.value <= NumValues
BY DEF Revisions, Timestamps, TableIterationAssumption

LEMMA Products ==
  ASSUME NEW a \in Nat, NEW b \in Nat, NEW c \in Nat
  PROVE  /\ a * c \in Nat /\ (a + 1) * c = a * c + c
         /\ a <= b => a * c <= b * c
<1>1. a * c \in Nat /\ (a + 1) * c = a * c + c
  OBVIOUS
<1>2. ASSUME a <= b PROVE a * c <= b * c
  <2>1. b - a \in Nat /\ (b - a) * c \in Nat
    BY <1>2
  <2>2. b * c = a * c + (b - a) * c
    BY <2>1
  <2>3. a * c \in Nat /\ b * c \in Nat
    OBVIOUS
  <2> QED
    BY <2>1, <2>2, <2>3
<1> QED
  BY <1>1, <1>2

\* Keys order the rows: by value, then by id.
LEMMA KeyFacts ==
  ASSUME TableIterationAssumption, NEW r \in Revisions
  PROVE  /\ Key(r) \in Nat /\ 0 < Key(r) /\ Key(r) < End /\ Key(r) \in Keys
         /\ End \in Nat /\ End \in Keys /\ 0 \in Keys
         /\ \A q \in Revisions : Key(q) = Key(r) => q.id = r.id
<1> DEFINE n == NumDocs + 1
<1>1. n \in Nat /\ NumValues \in Nat /\ NumDocs \in Nat
  BY DEF TableIterationAssumption
<1>2. \A q \in Revisions : /\ q.id \in Nat /\ 1 <= q.id /\ q.id < n
                           /\ q.value \in Nat /\ q.value <= NumValues
  BY RevisionTypes, <1>1
<1>3. \A q \in Revisions : Key(q) = q.value * n + q.id /\ q.value * n \in Nat
  BY <1>1, <1>2, Products DEF Key
<1>4. End = NumValues * n + n /\ NumValues * n \in Nat
  BY <1>1, Products DEF End
<1> HIDE DEF n
<1>5. Key(r) \in Nat /\ 0 < Key(r)
  BY <1>2, <1>3
<1>6. Key(r) < End
  <2>1. r.value * n <= NumValues * n
    BY <1>1, <1>2, Products
  <2> QED
    BY <1>1, <1>2, <1>3, <1>4, <2>1
<1>7. Keys = 0..End /\ End \in Nat
  BY <1>1, <1>4 DEF Keys, End
<1>8. ASSUME NEW q \in Revisions, Key(q) = Key(r)
      PROVE  q.id = r.id
  <2>1. ASSUME NEW x \in Revisions, NEW y \in Revisions, x.value < y.value
        PROVE  Key(x) < Key(y)
    <3>1. x.value + 1 <= y.value /\ x.value + 1 \in Nat
      BY <1>2, <2>1
    <3>2. (x.value + 1) * n <= y.value * n /\ (x.value + 1) * n = x.value * n + n
      BY <1>1, <1>2, <3>1, Products
    <3> QED
      BY <1>1, <1>2, <1>3, <3>2
  <2>2. q.value = r.value
    BY <1>2, <1>3, <1>8, <2>1
  <2> QED
    BY <1>2, <1>3, <1>8, <2>2
<1> QED
  BY <1>5, <1>6, <1>7, <1>8

-----------------------------------------------------------------------------
(* The log.                                                                *)

\* A revision timestamp of the snapshot finds the row of the snapshot.
LEMMA RevisionFound ==
  ASSUME TableIterationAssumption, TypeOK, DocumentsInv, NEW id, NEW p \in Nat,
         IsRevisionTs(documents, snapshot_ts, id, p)
  PROVE  revision_at_snapshot(id, p) = {r \in At(snapshot_ts) : r.id = id}
<1>1. /\ snapshot_ts \in Nat
      /\ \A r \in documents : r.ts \in Nat /\ 1 <= r.ts
  BY Types, RevisionTypes DEF DocumentsInv
<1>2. ASSUME NEW r \in documents, r.id = id, r.ts = p, r.value # Deleted
      PROVE  r \in At(snapshot_ts)
  BY <1>1, <1>2 DEF At, IsRevisionTs
<1>3. ASSUME NEW r \in At(snapshot_ts), r.id = id
      PROVE  r.ts = p
  <2>1. r \in documents /\ r.ts <= snapshot_ts /\ r.ts <= p /\ r.ts \in Nat /\ 1 <= r.ts
    BY <1>1, <1>3 DEF At, IsRevisionTs
  <2>2. PICK q \in documents : q.id = id /\ q.ts = p
    BY <1>1, <2>1 DEF IsRevisionTs
  <2>3. p <= snapshot_ts
    BY <1>1, <2>1 DEF IsRevisionTs
  <2>4. q.ts <= r.ts
    BY <1>3, <2>2, <2>3 DEF At
  <2> QED
    BY <2>1, <2>2, <2>4
<1> QED
  BY <1>2, <1>3 DEF At, revision_at_snapshot

\* The first entry after the snapshot leads to the revision at the snapshot.
LEMMA FirstEntryLeads ==
  ASSUME TableIterationAssumption, TypeOK, DocumentsInv, TimeInv,
         NEW to, NEW r \in FirstEntries(end_ts, to),
         r.id \notin Changed(documents, TableOf[r.id], snapshot_ts, end_ts)
  PROVE  IsRevisionTs(documents, snapshot_ts, r.id, r.prev_ts)
<1>1. /\ snapshot_ts \in Nat /\ end_ts \in Nat /\ snapshot_ts <= end_ts
      /\ \A q \in documents : q.ts \in Nat /\ q.id \in Ids /\ q.prev_ts \in Nat
  BY Types, RevisionTypes DEF TimeInv
<1>2. r \in documents /\ end_ts < r.ts
  BY DEF FirstEntries
<1>3. ASSUME NEW q \in documents, q.id = r.id, q.ts <= snapshot_ts
      PROVE  q.ts <= r.prev_ts
  BY <1>1, <1>2, <1>3 DEF DocumentsInv
<1>4. ASSUME r.prev_ts # 0
      PROVE  r.prev_ts <= snapshot_ts /\ \E q \in documents : q.id = r.id /\ q.ts = r.prev_ts
  <2>1. PICK q \in documents : q.id = r.id /\ q.ts = r.prev_ts
    BY <1>2, <1>4 DEF DocumentsInv
  <2>2. q.ts < r.ts
    BY <1>2, <2>1 DEF DocumentsInv
  <2>3. ~(end_ts < q.ts)
    BY <1>1, <1>2, <2>1, <2>2 DEF FirstEntries
  <2>4. ~(snapshot_ts < q.ts /\ q.ts <= end_ts)
    BY <1>1, <2>1 DEF Changed
  <2> QED
    BY <1>1, <2>1, <2>3, <2>4
<1> QED
  BY <1>3, <1>4 DEF IsRevisionTs

\* Every document with an entry in the piece of the log has a first one.
LEMMA FirstEntriesComplete ==
  ASSUME TableIterationAssumption, TypeOK, DocumentsInv, NEW from \in Nat, NEW to \in Nat,
         NEW q \in documents, from < q.ts, q.ts <= to
  PROVE  \E r \in FirstEntries(from, to) : r.id = q.id
<1> DEFINE S == {r.ts : r \in {x \in documents : x.id = q.id /\ from < x.ts}}
<1>1. \A x \in documents : x.ts \in Nat
  BY Types, RevisionTypes
<1>2. S \in SUBSET Nat /\ q.ts \in S
  BY <1>1
<1>3. PICK m \in S : \A y \in S : m <= y
  BY <1>2, LeastNat
<1>4. PICK r \in documents : r.id = q.id /\ from < r.ts /\ r.ts = m
  BY <1>3
<1>5. r.ts <= to
  BY <1>1, <1>2, <1>3, <1>4
<1>6. \A x \in documents : x.id = r.id /\ from < x.ts => r.ts <= x.ts
  BY <1>3, <1>4
<1>7. r \in FirstEntries(from, to)
  BY <1>4, <1>5, <1>6 DEF FirstEntries
<1> QED
  BY <1>4, <1>7

-----------------------------------------------------------------------------
(* Rows.                                                                   *)

\* The rows of a table at a timestamp, up to a key.
LEMMA RowsAre ==
  ASSUME TableIterationAssumption, TypeOK, NEW ts, NEW t, NEW from, NEW to
  PROVE  /\ Rows(documents, ts, t, from, to) =
              {r \in At(ts) : TableOf[r.id] = t /\ from < Key(r) /\ Key(r) <= to}
         /\ Rows(documents, ts, t, from, to) \subseteq Revisions
         /\ At(ts) \subseteq Revisions
BY Types DEF Rows, At

\* What a page at a later timestamp has unchanged is the snapshot's.
LEMMA UnchangedRows ==
  ASSUME TableIterationAssumption, TypeOK, NEW later \in Nat, snapshot_ts <= later,
         NEW t, NEW from, NEW to
  PROVE  {r \in Rows(documents, later, t, from, to) : r.ts <= snapshot_ts} =
           {r \in Rows(documents, snapshot_ts, t, from, to) :
              r.id \notin Changed(documents, t, snapshot_ts, later)}
<1>1. /\ snapshot_ts \in Nat
      /\ \A r \in documents : r.ts \in Nat /\ r.id \in Ids
  BY Types, RevisionTypes
<1>2. ASSUME NEW r \in Rows(documents, later, t, from, to), r.ts <= snapshot_ts
      PROVE  /\ r \in Rows(documents, snapshot_ts, t, from, to)
             /\ r.id \notin Changed(documents, t, snapshot_ts, later)
  BY <1>1, <1>2 DEF Rows, Changed
<1>3. ASSUME NEW r \in Rows(documents, snapshot_ts, t, from, to),
             r.id \notin Changed(documents, t, snapshot_ts, later)
      PROVE  r \in Rows(documents, later, t, from, to) /\ r.ts <= snapshot_ts
  <2>1. r \in documents /\ r.ts <= snapshot_ts /\ TableOf[r.id] = t
    BY DEF Rows
  <2>2. ASSUME NEW q \in documents, q.id = r.id, q.ts <= later
        PROVE  q.ts <= r.ts
    <3>1. q.ts <= snapshot_ts
      BY <1>1, <1>3, <2>1, <2>2 DEF Changed
    <3> QED
      BY <2>2, <3>1 DEF Rows
  <2> QED
    BY <1>1, <2>1, <2>2 DEF Rows
<1> QED
  BY <1>2, <1>3

-----------------------------------------------------------------------------
(* Pages.                                                                  *)

\* The rows beyond a cursor, and what fetch_page makes of them.
Listing(live, cursor) ==
  /\ live \in SUBSET Revisions /\ cursor \in Nat /\ cursor <= End
  /\ \A r, q \in live : r.id = q.id => r = q
  /\ \A r \in live : cursor < Key(r)

PageOf(live) == {r \in live : Cardinality({q \in live : Key(q) <= Key(r)}) <= PageSize}

EndOf(page) == IF Cardinality(page) < PageSize THEN End ELSE Max({Key(r) : r \in page})

\* A page is the rows up to its end: page_size keys, or all that are left.
LEMMA PageIs ==
  ASSUME TableIterationAssumption, NEW live, NEW cursor, Listing(live, cursor)
  PROVE  /\ PageOf(live) = {r \in live : Key(r) <= EndOf(PageOf(live))}
         /\ EndOf(PageOf(live)) \in Keys /\ cursor <= EndOf(PageOf(live))
<1> DEFINE page == PageOf(live)
           end == EndOf(page)
<1>a. /\ live \in SUBSET Revisions /\ cursor \in Nat /\ cursor <= End
      /\ \A r, q \in live : r.id = q.id => r = q
      /\ \A r \in live : cursor < Key(r)
  BY DEF Listing
<1>b. page \in SUBSET live /\ \A r \in live :
        r \in page <=> Cardinality({q \in live : Key(q) <= Key(r)}) <= PageSize
  BY DEF PageOf
<1>c. end = IF Cardinality(page) < PageSize THEN End ELSE Max({Key(r) : r \in page})
  BY DEF EndOf
<1>d. SUFFICES page = {r \in live : Key(r) <= end} /\ end \in Keys /\ cursor <= end
  OBVIOUS
<1> HIDE DEF page, end
<1> DEFINE upTo(r) == {q \in live : Key(q) <= Key(r)}
<1>1. /\ PageSize \in Nat /\ 1 <= PageSize /\ End \in Nat /\ End \in Keys /\ Keys = 0..End
  <2>1. NumValues \in Nat /\ NumDocs \in Nat
    BY DEF TableIterationAssumption
  <2>2. End \in Nat
    BY <2>1, Products DEF End
  <2> QED
    BY <2>2 DEF TableIterationAssumption, Keys, End
<1>2. \A r \in live : Key(r) \in Nat /\ Key(r) < End
  BY <1>a, KeyFacts
<1>3. \A r, q \in live : Key(r) = Key(q) => r = q
  BY <1>a, KeyFacts
<1>4. IsFiniteSet(live)
  <2> DEFINE f == [r \in live |-> r.id]
  <2>1. f \in Injection(live, Ids)
    <3>1. f \in [live -> Ids]
      BY <1>a, RevisionTypes
    <3>2. \A r, q \in live : f[r] = f[q] => r = q
      BY <1>a
    <3> QED
      BY <3>1, <3>2 DEF Injection, IsInjective
  <2>2. IsFiniteSet(Ids)
    BY FS_Interval DEF TableIterationAssumption
  <2> QED
    BY <2>1, <2>2, FS_Injection
<1>5. page \in SUBSET live /\ IsFiniteSet(page) /\ Cardinality(page) \in Nat
  BY <1>b, <1>4, FS_Subset, FS_CardinalityType
<1>6. ASSUME NEW r \in page, NEW q \in live, Key(q) <= Key(r)
      PROVE  q \in page
  <2>1. upTo(q) \in SUBSET upTo(r)
    BY <1>2, <1>5, <1>6
  <2>2. IsFiniteSet(upTo(r)) /\ IsFiniteSet(upTo(q))
    <3>1. upTo(r) \in SUBSET live /\ upTo(q) \in SUBSET live
      OBVIOUS
    <3> QED
      BY <1>4, <3>1, FS_Subset
  <2>3. /\ Cardinality(upTo(q)) <= Cardinality(upTo(r))
        /\ Cardinality(upTo(q)) \in Nat /\ Cardinality(upTo(r)) \in Nat
    BY <2>1, <2>2, FS_Subset, FS_CardinalityType
  <2>4. Cardinality(upTo(r)) <= PageSize
    BY <1>b, <1>5, <1>6
  <2> QED
    BY <1>b, <1>1, <1>6, <2>3, <2>4
<1>7. CASE Cardinality(page) < PageSize
  <2>1. end = End
    BY <1>c, <1>7
  <2>2. page = live
    <3>1. SUFFICES ASSUME page # live PROVE FALSE
      OBVIOUS
    <3> DEFINE rest == {Key(r) : r \in live \ page}
    <3>2. rest \in SUBSET Nat /\ rest # {}
      <4>1. PICK x \in live : x \notin page
        BY <1>5, <3>1
      <4>2. Key(x) \in rest
        BY <4>1
      <4>3. \A y \in rest : y \in Nat
        BY <1>2
      <4> QED
        BY <4>2, <4>3
    <3>3. PICK m \in rest : \A y \in rest : m <= y
      BY <3>2, LeastNat
    <3>4. PICK r \in live \ page : Key(r) = m
      BY <3>3
    <3>5. upTo(r) \subseteq page \cup {r}
      <4>1. SUFFICES ASSUME NEW q \in live, Key(q) <= Key(r), q \notin page
                     PROVE  q = r
        OBVIOUS
      <4>2. m <= Key(q)
        BY <3>3, <4>1
      <4> QED
        BY <1>2, <1>3, <3>4, <4>1, <4>2
    <3>6. /\ IsFiniteSet(page \cup {r}) /\ Cardinality(page \cup {r}) = Cardinality(page) + 1
      BY <1>5, <3>4, FS_AddElement
    <3>7. /\ Cardinality(upTo(r)) <= Cardinality(page \cup {r})
          /\ Cardinality(upTo(r)) \in Nat
      <4>1. upTo(r) \in SUBSET (page \cup {r})
        BY <3>5
      <4> QED
        BY <3>6, <4>1, FS_Subset, FS_CardinalityType
    <3>8. Cardinality(upTo(r)) <= PageSize
      BY <1>1, <1>5, <1>7, <3>6, <3>7
    <3> QED
      BY <1>b, <3>4, <3>8
  <2>3. \A r \in live : Key(r) <= End
    BY <1>1, <1>2
  <2> QED
    BY <1>a, <1>1, <2>1, <2>2, <2>3
<1>8. CASE ~(Cardinality(page) < PageSize)
  <2> DEFINE ks == {Key(r) : r \in page}
  <2>1. page # {}
    <3>1. Cardinality(page) # 0
      BY <1>1, <1>5, <1>8
    <3> QED
      BY <3>1, FS_EmptySet
  <2>2. ks \in SUBSET Nat /\ ks # {} /\ \A x \in ks : x <= End
    <3>1. PICK x \in page : TRUE
      BY <2>1
    <3>2. Key(x) \in ks
      BY <3>1
    <3>3. \A r \in page : Key(r) \in Nat /\ Key(r) <= End
      BY <1>1, <1>2, <1>5
    <3>4. \A y \in ks : y \in Nat /\ y <= End
      BY <3>3
    <3> QED
      BY <3>2, <3>4
  <2>3. Max(ks) \in ks /\ \A x \in ks : x <= Max(ks)
    BY <1>1, <2>2, MaxIsGreatest
  <2>4. end = Max(ks)
    BY <1>c, <1>8
  <2>5. PICK last \in page : Key(last) = end
    BY <2>3, <2>4
  <2>6. page = {r \in live : Key(r) <= end}
    <3>1. \A r \in page : r \in live /\ Key(r) <= end
      BY <1>5, <2>3, <2>4
    <3>2. \A r \in live : Key(r) <= end => r \in page
      BY <1>6, <2>5
    <3> QED
      BY <3>1, <3>2
  <2>7. end \in Keys /\ cursor <= end
    BY <1>a, <1>1, <1>2, <1>5, <2>5
  <2> QED
    BY <2>6, <2>7
<1> QED
  BY <1>7, <1>8

-----------------------------------------------------------------------------
(* Commits.                                                                *)

LEMMA CommitStep ==
  ASSUME TableIterationAssumption, Inv, NEW id \in Ids, NEW value \in 0..NumValues,
         Commit(id, value)
  PROVE  Inv'
<1> DEFINE mine == {q \in documents : q.id = id}
           prev == {r.ts : r \in mine}
           ts == latest_ts + 1
           new == [id |-> id, ts |-> ts, value |-> value, prev_ts |-> Max(prev \cup {0})]
<1>1. /\ ts <= MaxTs /\ documents' = documents \cup {new} /\ latest_ts' = ts
      /\ recent_ts' = recent_ts /\ snapshot_ts' = snapshot_ts /\ end_ts' = end_ts
      /\ buffered' = buffered /\ walk' = walk
  BY DEF Commit
<1>2. /\ latest_ts \in Nat /\ recent_ts \in Nat /\ snapshot_ts \in Nat /\ end_ts \in Nat
      /\ walk.page_ts \in Nat /\ MaxTs \in Nat /\ documents \subseteq Revisions
      /\ snapshot_ts <= end_ts /\ end_ts <= recent_ts /\ recent_ts <= latest_ts
      /\ walk.step = "log" => end_ts <= walk.page_ts /\ walk.page_ts <= recent_ts
  BY Types DEF Inv, TimeInv
<1>3. \A r \in documents : /\ r.ts \in Nat /\ r.prev_ts \in Nat /\ r.id \in Ids
                           /\ 1 <= r.ts /\ r.ts <= latest_ts /\ r.prev_ts < r.ts
  BY <1>2, RevisionTypes DEF Inv, DocumentsInv
<1>4. /\ prev \cup {0} \in SUBSET Nat /\ prev \cup {0} # {}
      /\ \A x \in prev \cup {0} : x <= latest_ts
  BY <1>2, <1>3
<1> DEFINE p == Max(prev \cup {0})
<1>5. p \in prev \cup {0} /\ \A x \in prev \cup {0} : x <= p
  BY <1>2, <1>4, MaxIsGreatest
<1>6. /\ p \in Nat /\ p <= latest_ts /\ p < ts /\ ts \in Nat /\ ts \in Timestamps
      /\ p \in Timestamps
      /\ p # 0 => \E q \in documents : q.id = id /\ q.ts = p
      /\ \A q \in documents : q.id = id => q.ts <= p
  <2>1. p \in Nat /\ p <= latest_ts
    BY <1>4, <1>5
  <2>2. p < ts /\ ts \in Nat /\ ts \in Timestamps /\ p \in Timestamps
    BY <1>1, <1>2, <2>1 DEF Timestamps
  <2>3. p # 0 => \E q \in documents : q.id = id /\ q.ts = p
    BY <1>5
  <2>4. \A q \in documents : q.id = id => q.ts <= p
    BY <1>5
  <2> QED
    BY <2>1, <2>2, <2>3, <2>4
<1>7. new.id = id /\ new.ts = ts /\ new.prev_ts = p /\ new \in Revisions
  BY <1>6 DEF Revisions
<1> HIDE DEF p, new
<1>8. TypeOK'
  <2>1. documents' \subseteq Revisions /\ latest_ts' \in Timestamps
    BY <1>1, <1>2, <1>6, <1>7
  <2> QED
    BY <1>1, <2>1 DEF Inv, TypeOK
<1>9. DocumentsInv'
  <2>1. \A r \in documents' : 1 <= r.ts /\ r.ts <= latest_ts' /\ r.prev_ts < r.ts
    BY <1>1, <1>2, <1>3, <1>6, <1>7
  <2>2. \A r, q \in documents' : r.id = q.id /\ r.ts = q.ts => r = q
    <3>1. \A r \in documents : r.ts # new.ts
      BY <1>2, <1>3, <1>7
    <3> QED
      BY <1>1, <3>1 DEF Inv, DocumentsInv
  <2>3. \A r \in documents' : r.prev_ts # 0 =>
          \E q \in documents' : q.id = r.id /\ q.ts = r.prev_ts
    BY <1>1, <1>6, <1>7 DEF Inv, DocumentsInv
  <2>4. ASSUME NEW r \in documents', NEW q \in documents', r.id = q.id, q.ts < r.ts
        PROVE  q.ts <= r.prev_ts
    <3>1. q \in documents
      BY <1>1, <1>2, <1>3, <1>7, <2>4
    <3>2. CASE r \in documents
      BY <2>4, <3>1, <3>2 DEF Inv, DocumentsInv
    <3>3. CASE r = new
      BY <1>6, <1>7, <2>4, <3>1, <3>3
    <3> QED
      BY <1>1, <3>2, <3>3
  <2> QED
    BY <2>1, <2>2, <2>3, <2>4 DEF DocumentsInv
<1>10. TimeInv'
  BY <1>1, <1>2 DEF TimeInv
<1>11. ASSUME NEW x \in Nat, x <= latest_ts
       PROVE  /\ \A t, from : Changed(documents', t, from, x) = Changed(documents, t, from, x)
              /\ \A t, from, to : Rows(documents', x, t, from, to) = Rows(documents, x, t, from, to)
              /\ \A d, y : y \in Nat /\ IsRevisionTs(documents, x, d, y) =>
                   IsRevisionTs(documents', x, d, y)
  \* The log at and below x does not change.
  <2>1. ~(new.ts <= x) /\ documents' = documents \cup {new}
    BY <1>1, <1>2, <1>6, <1>7, <1>11
  <2>2. \A t, from : Changed(documents', t, from, x) = Changed(documents, t, from, x)
    BY <2>1 DEF Changed
  <2>3. \A t, from, to : Rows(documents', x, t, from, to) = Rows(documents, x, t, from, to)
    BY <2>1 DEF Rows
  <2>4. \A d, y : y \in Nat /\ IsRevisionTs(documents, x, d, y) =>
          IsRevisionTs(documents', x, d, y)
    BY <2>1 DEF IsRevisionTs
  <2> QED
    BY <2>2, <2>3, <2>4
<1>12. BufferInv'
  <2>1. SUFFICES ASSUME NEW t \in DOMAIN buffered
                 PROVE  /\ DOMAIN buffered[t] = Changed(documents', t, snapshot_ts, end_ts)
                        /\ \A d \in DOMAIN buffered[t] :
                             IsRevisionTs(documents', snapshot_ts, d, buffered[t][d])
    BY <1>1 DEF BufferInv
  <2>2. end_ts <= latest_ts /\ snapshot_ts <= latest_ts
    BY <1>2
  <2>3. DOMAIN buffered[t] = Changed(documents', t, snapshot_ts, end_ts)
    BY <1>2, <1>11, <2>2 DEF Inv, BufferInv
  <2>4. ASSUME NEW d \in DOMAIN buffered[t]
        PROVE  IsRevisionTs(documents', snapshot_ts, d, buffered[t][d])
    <3>1. buffered[t][d] \in Nat
      BY DEF Inv, TypeOK, Timestamps
    <3>2. IsRevisionTs(documents, snapshot_ts, d, buffered[t][d])
      BY DEF Inv, BufferInv
    <3> QED
      BY <1>2, <1>11, <2>2, <3>1, <3>2
  <2> QED
    BY <2>3, <2>4
<1>13. WalkInv'
  <2>1. snapshot_ts <= latest_ts /\ end_ts <= latest_ts
        /\ (walk.step = "log" => walk.page_ts <= latest_ts)
    BY <1>2
  <2>2. /\ Rows(documents', snapshot_ts, walk.table, 0, walk.cursor)
             = Rows(documents, snapshot_ts, walk.table, 0, walk.cursor)
        /\ Rows(documents', snapshot_ts, walk.table, walk.cursor, End)
             = Rows(documents, snapshot_ts, walk.table, walk.cursor, End)
        /\ Changed(documents', walk.table, snapshot_ts, end_ts)
             = Changed(documents, walk.table, snapshot_ts, end_ts)
        /\ walk.step = "log" =>
             Rows(documents', walk.page_ts, walk.table, walk.cursor, walk.page_end)
               = Rows(documents, walk.page_ts, walk.table, walk.cursor, walk.page_end)
    BY <1>2, <1>11, <2>1
  <2> QED
    BY <1>1, <2>2 DEF Inv, WalkInv
<1> QED
  BY <1>8, <1>9, <1>10, <1>12, <1>13 DEF Inv

-----------------------------------------------------------------------------
(* The iterator.                                                           *)

LEMMA BumpStep ==
  ASSUME TableIterationAssumption, Inv, BumpRepeatable
  PROVE  Inv'
<1>1. /\ recent_ts < latest_ts /\ recent_ts' = latest_ts
      /\ documents' = documents /\ latest_ts' = latest_ts /\ snapshot_ts' = snapshot_ts
      /\ end_ts' = end_ts /\ buffered' = buffered /\ walk' = walk
  BY DEF BumpRepeatable
<1>2. /\ latest_ts \in Nat /\ recent_ts \in Nat /\ end_ts \in Nat /\ walk.page_ts \in Nat
      /\ latest_ts \in Timestamps
  BY Types DEF Inv
<1>3. TypeOK'
  BY <1>1, <1>2 DEF Inv, TypeOK
<1>4. TimeInv'
  BY <1>1, <1>2 DEF Inv, TimeInv
<1>5. DocumentsInv' /\ BufferInv' /\ WalkInv'
  BY <1>1 DEF Inv, DocumentsInv, BufferInv, WalkInv
<1> QED
  BY <1>3, <1>4, <1>5 DEF Inv

LEMMA UnregisterStep ==
  ASSUME TableIterationAssumption, Inv, NEW t \in Tables, UnregisterTable(t)
  PROVE  Inv'
<1>1. /\ buffered' = [u \in DOMAIN buffered \ {t} |-> buffered[u]]
      /\ documents' = documents /\ latest_ts' = latest_ts /\ snapshot_ts' = snapshot_ts
      /\ end_ts' = end_ts /\ recent_ts' = recent_ts /\ walk' = walk
  BY DEF UnregisterTable
<1>2. /\ DOMAIN buffered' \subseteq DOMAIN buffered
      /\ \A u \in DOMAIN buffered' : buffered'[u] = buffered[u]
  BY <1>1
<1>3. TypeOK'
  BY <1>1, <1>2 DEF Inv, TypeOK
<1>4. BufferInv'
  BY <1>1, <1>2 DEF Inv, BufferInv
<1>5. TimeInv' /\ DocumentsInv' /\ WalkInv'
  BY <1>1 DEF Inv, TimeInv, DocumentsInv, WalkInv
<1> QED
  BY <1>3, <1>4, <1>5 DEF Inv

\* No key is at or below 0.
LEMMA NothingBelow ==
  ASSUME TableIterationAssumption, TypeOK, NEW ts, NEW t
  PROVE  Rows(documents, ts, t, 0, 0) = {}
<1>1. \A r \in documents : Key(r) \in Nat /\ 0 < Key(r)
  BY KeyFacts, Types
<1> QED
  BY <1>1 DEF Rows

LEMMA KeyTypes ==
  ASSUME TableIterationAssumption
  PROVE  End \in Nat /\ Keys = 0..End /\ 0 \in Keys
<1>1. NumValues \in Nat /\ NumDocs \in Nat
  BY DEF TableIterationAssumption
<1>2. End \in Nat
  BY <1>1, Products DEF End
<1> QED
  BY <1>2 DEF Keys, End

\* A walk starts from what the walks before it have read of the log.
LEMMA StartStep ==
  ASSUME TableIterationAssumption, Inv, NEW t \in Tables, StartTable(t)
  PROVE  Inv'
<1> DEFINE seen == IF t \in DOMAIN buffered THEN buffered[t] ELSE [id \in {} |-> 0]
           skipped == UNION {revision_at_snapshot(id, seen[id]) : id \in DOMAIN seen}
           next == [NoWalk(walk.done) EXCEPT !.step = "page", !.table = t,
                      !.observed = DOMAIN seen, !.skipped = skipped]
<1>1. /\ walk' = next
      /\ t \in DOMAIN buffered \/ snapshot_ts = end_ts
      /\ documents' = documents /\ latest_ts' = latest_ts /\ snapshot_ts' = snapshot_ts
      /\ end_ts' = end_ts /\ recent_ts' = recent_ts /\ buffered' = buffered
  BY DEF StartTable
<1>2. /\ snapshot_ts \in Nat /\ end_ts \in Nat /\ documents \subseteq Revisions /\ walk \in Walks
      /\ \A r \in documents : r.ts \in Nat /\ r.id \in Ids
  BY Types, RevisionTypes DEF Inv
<1>3. DOMAIN seen = Changed(documents, t, snapshot_ts, end_ts)
  <2>1. CASE t \in DOMAIN buffered
    BY <2>1 DEF Inv, BufferInv
  <2>2. CASE t \notin DOMAIN buffered
    <3>1. DOMAIN seen = {} /\ snapshot_ts = end_ts
      BY <1>1, <2>2
    <3>2. \A r \in documents : ~(snapshot_ts < r.ts /\ r.ts <= end_ts)
      BY <1>2, <3>1
    <3> QED
      BY <3>1, <3>2 DEF Changed
  <2> QED
    BY <2>1, <2>2
<1>4. \A id \in DOMAIN seen : /\ seen[id] \in Nat
                              /\ IsRevisionTs(documents, snapshot_ts, id, seen[id])
  <2>1. SUFFICES ASSUME NEW id \in DOMAIN seen
                 PROVE  seen[id] \in Nat /\ IsRevisionTs(documents, snapshot_ts, id, seen[id])
    OBVIOUS
  <2>2. t \in DOMAIN buffered /\ seen = buffered[t]
    OBVIOUS
  <2>3. buffered[t][id] \in Nat
    BY <2>2 DEF Inv, TypeOK, Timestamps
  <2> QED
    BY <2>2, <2>3 DEF Inv, BufferInv
<1> HIDE DEF seen
<1>5. skipped = {r \in At(snapshot_ts) : r.id \in DOMAIN seen}
  <2>1. \A id \in DOMAIN seen :
          revision_at_snapshot(id, seen[id]) = {r \in At(snapshot_ts) : r.id = id}
    BY <1>4, RevisionFound DEF Inv
  <2> QED
    BY <2>1
<1>6. skipped = {r \in Rows(documents, snapshot_ts, t, 0, End) : r.id \in DOMAIN seen}
  <2>1. \A r \in documents : Key(r) \in Nat /\ 0 < Key(r) /\ Key(r) <= End
    <3>1. \A r \in documents : Key(r) \in Nat /\ 0 < Key(r) /\ Key(r) < End /\ End \in Nat
      BY <1>2, KeyFacts
    <3> QED
      BY <3>1
  <2>2. \A id \in DOMAIN seen : TableOf[id] = t
    BY <1>3 DEF Changed
  <2>3. \A r \in At(snapshot_ts) : r \in documents
    BY DEF At
  <2>4. Rows(documents, snapshot_ts, t, 0, End) =
          {r \in At(snapshot_ts) : TableOf[r.id] = t /\ 0 < Key(r) /\ Key(r) <= End}
    BY RowsAre DEF Inv
  <2> QED
    BY <1>5, <2>1, <2>2, <2>3, <2>4
<1>7. skipped \in SUBSET Revisions /\ DOMAIN seen \in SUBSET Ids /\ walk.done \in SUBSET Tables
  BY <1>2, <1>3, <1>5 DEF At, Changed, Walks
<1> HIDE DEF skipped
<1>8. /\ next \in Walks /\ next.step = "page" /\ next.table = t /\ next.cursor = 0
      /\ next.observed = DOMAIN seen /\ next.skipped = skipped /\ next.yielded = {}
  <2>1. (CHOOSE x \in Tables : TRUE) \in Tables
    BY DEF TableIterationAssumption
  <2>2. 0 \in Timestamps /\ 0 \in Keys
    BY KeyTypes DEF Timestamps, TableIterationAssumption
  <2>3. /\ NoWalk(walk.done) \in Walks /\ NoWalk(walk.done).cursor = 0
        /\ NoWalk(walk.done).yielded = {}
    BY <1>7, <2>1, <2>2 DEF NoWalk, Walks
  <2> QED
    BY <1>7, <2>3 DEF Walks
<1> HIDE DEF next
<1>9. TypeOK'
  BY <1>1, <1>8 DEF Inv, TypeOK
<1>10. DocumentsInv' /\ BufferInv'
  BY <1>1 DEF Inv, DocumentsInv, BufferInv
<1>11. TimeInv'
  BY <1>1, <1>8 DEF Inv, TimeInv
<1>12. WalkInv'
  <2>1. Rows(documents, snapshot_ts, t, 0, 0) = {}
    BY NothingBelow DEF Inv
  <2> QED
    BY <1>1, <1>3, <1>6, <1>8, <2>1 DEF WalkInv
<1> QED
  BY <1>9, <1>10, <1>11, <1>12 DEF Inv

LEMMA FetchStep ==
  ASSUME TableIterationAssumption, Inv, FetchPage
  PROVE  Inv'
<1> DEFINE live == {r \in At(new_ts) : TableOf[r.id] = walk.table /\ Key(r) > walk.cursor}
           page == {r \in live : Cardinality({q \in live : Key(q) <= Key(r)}) <= PageSize}
           end == IF Cardinality(page) < PageSize THEN End ELSE Max({Key(r) : r \in page})
           next == [walk EXCEPT !.step = "log", !.page = page, !.page_ts = new_ts, !.page_end = end]
<1>1. /\ walk.step = "page" /\ walk' = next
      /\ documents' = documents /\ latest_ts' = latest_ts /\ snapshot_ts' = snapshot_ts
      /\ end_ts' = end_ts /\ recent_ts' = recent_ts /\ buffered' = buffered
  BY DEF FetchPage
<1>2. /\ snapshot_ts \in Nat /\ recent_ts \in Nat /\ end_ts \in Nat /\ latest_ts \in Nat
      /\ recent_ts \in Timestamps /\ documents \subseteq Revisions /\ walk \in Walks
      /\ snapshot_ts <= end_ts /\ end_ts <= recent_ts
  BY Types DEF Inv, TimeInv
<1>3. new_ts = recent_ts
  <2>1. \A x \in {snapshot_ts, recent_ts} : x <= recent_ts
    BY <1>2
  <2>2. /\ {snapshot_ts, recent_ts} \in SUBSET Nat /\ {snapshot_ts, recent_ts} # {}
    BY <1>2
  <2>3. /\ Max({snapshot_ts, recent_ts}) \in {snapshot_ts, recent_ts}
        /\ recent_ts <= Max({snapshot_ts, recent_ts})
    BY <1>2, <2>1, <2>2, MaxIsGreatest
  <2> QED
    BY <1>2, <2>1, <2>3 DEF new_ts
<1>4. walk.cursor \in Keys /\ walk.cursor \in Nat /\ walk.cursor <= End /\ End \in Nat
      /\ Keys = 0..End
  BY <1>2, KeyTypes DEF Walks
<1>5. /\ live \in SUBSET Revisions /\ \A r \in live : walk.cursor < Key(r)
      /\ \A r, q \in live : r.id = q.id => r = q
  <2>1. \A r \in live : r \in documents /\ r \in Revisions /\ r.ts \in Nat /\ Key(r) \in Nat
    BY <1>2, RevisionTypes, KeyFacts DEF At
  <2>2. \A r, q \in live : r.id = q.id => r.ts <= q.ts /\ q.ts <= r.ts
    BY DEF At
  <2>3. \A r, q \in live : r.id = q.id => r = q
    BY <2>1, <2>2 DEF Inv, DocumentsInv
  <2>4. \A r \in live : walk.cursor < Key(r)
    BY <1>4, <2>1
  <2> QED
    BY <2>1, <2>3, <2>4
<1> HIDE DEF live
<1>6. page = {r \in live : Key(r) <= end} /\ end \in Keys /\ walk.cursor <= end
  <2>1. Listing(live, walk.cursor)
    BY <1>4, <1>5 DEF Listing
  <2>2. page = PageOf(live) /\ end = EndOf(PageOf(live))
    BY DEF PageOf, EndOf
  <2> HIDE DEF page, end
  <2> QED
    BY <2>1, <2>2, PageIs
<1>7. page \in SUBSET Revisions
  BY <1>5
<1> HIDE DEF page, end
<1>8. page = Rows(documents, recent_ts, walk.table, walk.cursor, end)
  <2>1. Rows(documents, recent_ts, walk.table, walk.cursor, end) =
          {r \in At(recent_ts) : TableOf[r.id] = walk.table /\ walk.cursor < Key(r) /\ Key(r) <= end}
    BY RowsAre DEF Inv
  <2>2. \A r \in At(recent_ts) : Key(r) \in Nat
    BY <1>2, KeyFacts DEF At
  <2>3. \A r \in At(recent_ts) : Key(r) > walk.cursor <=> walk.cursor < Key(r)
    BY <1>4, <2>2
  <2>4. live = {r \in At(recent_ts) : TableOf[r.id] = walk.table /\ Key(r) > walk.cursor}
    BY <1>3 DEF live
  <2> QED
    BY <1>6, <2>1, <2>3, <2>4
<1>9. /\ next \in Walks /\ next.step = "log" /\ next.table = walk.table
      /\ next.cursor = walk.cursor /\ next.observed = walk.observed
      /\ next.skipped = walk.skipped /\ next.yielded = walk.yielded
      /\ next.page = page /\ next.page_end = end /\ next.page_ts = recent_ts
  BY <1>2, <1>3, <1>6, <1>7 DEF Walks
<1> HIDE DEF next
<1>10. TypeOK'
  BY <1>1, <1>9 DEF Inv, TypeOK
<1>11. DocumentsInv' /\ BufferInv'
  BY <1>1 DEF Inv, DocumentsInv, BufferInv
<1>12. TimeInv'
  BY <1>1, <1>2, <1>9 DEF Inv, TimeInv
<1>13. WalkInv'
  BY <1>1, <1>6, <1>8, <1>9 DEF Inv, WalkInv
<1> QED
  BY <1>10, <1>11, <1>12, <1>13 DEF Inv

\* The piece of the log up to the page's timestamp makes the page whole.
LEMMA MergeStep ==
  ASSUME TableIterationAssumption, Inv, MergePage
  PROVE  Inv'
<1> DEFINE t == walk.table
           to == walk.page_ts
           all == FirstEntries(end_ts, to)
           entries == {r \in all : TableOf[r.id] = t /\ r.id \notin walk.observed}
           revs == UNION {revision_at_snapshot(r.id, r.prev_ts) :
                            r \in {e \in entries : e.prev_ts # 0}}
           skipped == walk.skipped \cup {r \in revs : Key(r) > walk.cursor}
           merged == page_at_snapshot \cup {r \in skipped : Key(r) <= walk.page_end}
           next == [walk EXCEPT
             !.step = IF walk.page_end = End THEN "idle" ELSE "page",
             !.done = IF walk.page_end = End THEN @ \cup {walk.table} ELSE @,
             !.cursor = walk.page_end,
             !.page = {},
             !.skipped = {r \in skipped : Key(r) > walk.page_end},
             !.observed = @ \cup newly_observed(entries),
             !.yielded = @ \cup merged]
           \* The rows of the snapshot the page is about, and those beyond it.
           here == Rows(documents, snapshot_ts, t, walk.cursor, walk.page_end)
           beyond == Rows(documents, snapshot_ts, t, walk.cursor, End)
           changed == Changed(documents, t, snapshot_ts, end_ts)
           changed2 == Changed(documents, t, snapshot_ts, to)
<1>1. /\ walk.step = "log"
      /\ end_ts' = to /\ documents' = documents /\ latest_ts' = latest_ts
      /\ recent_ts' = recent_ts /\ snapshot_ts' = snapshot_ts
      /\ buffered' = [u \in DOMAIN buffered |->
                        buffer_entries(buffered[u], {r \in all : TableOf[r.id] = u})]
  BY DEF MergePage
<1>2. \/ walk' = next
      \/ ~(/\ end_ts <= to
           /\ \A r, q \in merged : r.id = q.id => r = q
           /\ \A r \in skipped : walk.cursor < Key(r)
           /\ \A r \in merged : r.ts <= snapshot_ts /\ walk.cursor < Key(r) /\ Key(r) <= walk.page_end
           /\ walk.page_end = End => \A r \in skipped : Key(r) <= walk.page_end
           /\ \A r \in entries : r.prev_ts <= snapshot_ts)
  BY DEF MergePage
<1>3. /\ snapshot_ts \in Nat /\ recent_ts \in Nat /\ end_ts \in Nat /\ latest_ts \in Nat
      /\ to \in Nat /\ to \in Timestamps /\ documents \subseteq Revisions /\ walk \in Walks
      /\ snapshot_ts <= end_ts /\ end_ts <= to /\ to <= recent_ts /\ recent_ts <= latest_ts
      /\ snapshot_ts <= to
  BY <1>1, Types DEF Inv, TimeInv
<1>4. \A r \in documents : /\ r.ts \in Nat /\ r.prev_ts \in Nat /\ r.id \in Ids
                           /\ Key(r) \in Nat /\ 0 < Key(r) /\ Key(r) <= End
  <2>1. \A r \in documents : Key(r) \in Nat /\ 0 < Key(r) /\ Key(r) < End /\ End \in Nat
    BY <1>3, KeyFacts
  <2>2. \A r \in documents : r.ts \in Nat /\ r.prev_ts \in Nat /\ r.id \in Ids
    BY <1>3, RevisionTypes
  <2> QED
    BY <2>1, <2>2
<1>5. /\ walk.cursor \in Nat /\ walk.page_end \in Nat /\ walk.cursor <= walk.page_end
      /\ walk.page_end <= End /\ End \in Nat /\ walk.page_end \in Keys
  <2>1. walk.cursor \in Keys /\ walk.page_end \in Keys
    BY <1>3 DEF Walks
  <2> QED
    BY <1>1, <2>1, KeyTypes DEF Inv, WalkInv
<1>6. /\ walk.observed = changed
      /\ walk.skipped = {r \in beyond : r.id \in changed}
      /\ walk.page = Rows(documents, to, t, walk.cursor, walk.page_end)
      /\ walk.yielded = Rows(documents, snapshot_ts, t, 0, walk.cursor)
  BY <1>1 DEF Inv, WalkInv
\* The entries are the documents that have changed since.
<1>7. ASSUME NEW r \in all
      PROVE  /\ r \in documents /\ end_ts < r.ts /\ r.ts <= to /\ r.id \in Ids
             /\ r.id \notin Changed(documents, TableOf[r.id], snapshot_ts, end_ts) =>
                  IsRevisionTs(documents, snapshot_ts, r.id, r.prev_ts)
  BY <1>4, FirstEntryLeads DEF FirstEntries, Inv
<1>8. \A u : Changed(documents, u, snapshot_ts, to) =
               Changed(documents, u, snapshot_ts, end_ts) \cup
                 {r.id : r \in {e \in all : TableOf[e.id] = u}}
  <2>1. ASSUME NEW u, NEW id \in Changed(documents, u, snapshot_ts, to),
               id \notin Changed(documents, u, snapshot_ts, end_ts)
        PROVE  \E r \in all : r.id = id /\ TableOf[r.id] = u
    <3>1. PICK q \in documents : q.id = id /\ snapshot_ts < q.ts /\ q.ts <= to
      BY <2>1 DEF Changed
    <3>2. end_ts < q.ts /\ TableOf[id] = u
      BY <1>3, <1>4, <2>1, <3>1 DEF Changed
    <3>3. \E r \in all : r.id = q.id
      BY <1>3, <3>1, <3>2, FirstEntriesComplete DEF Inv
    <3> QED
      BY <3>1, <3>2, <3>3
  <2>2. ASSUME NEW u, NEW r \in all, TableOf[r.id] = u
        PROVE  r.id \in Changed(documents, u, snapshot_ts, to)
    BY <1>3, <1>4, <1>7, <2>2 DEF Changed
  <2>3. ASSUME NEW u, NEW id \in Changed(documents, u, snapshot_ts, end_ts)
        PROVE  id \in Changed(documents, u, snapshot_ts, to)
    BY <1>3, <1>4 DEF Changed
  <2> HIDE DEF all
  <2> QED
    BY <2>1, <2>2, <2>3
<1>9. changed2 = walk.observed \cup newly_observed(entries)
  <2> HIDE DEF all
  <2> QED
    BY <1>6, <1>8 DEF newly_observed
\* What they lead to.
<1>10. ASSUME NEW r \in entries
       PROVE  /\ r \in documents /\ r.id \in Ids /\ r.id \in changed2 /\ r.id \notin changed
              /\ TableOf[r.id] = t
              /\ IsRevisionTs(documents, snapshot_ts, r.id, r.prev_ts)
              /\ revision_at_snapshot(r.id, r.prev_ts) = {x \in At(snapshot_ts) : x.id = r.id}
              /\ r.prev_ts <= snapshot_ts
  <2>1. r \in all /\ TableOf[r.id] = t /\ r.id \notin changed /\ r \in documents
    BY <1>6, <1>7
  <2>2. IsRevisionTs(documents, snapshot_ts, r.id, r.prev_ts)
    BY <1>7, <2>1
  <2>3. revision_at_snapshot(r.id, r.prev_ts) = {x \in At(snapshot_ts) : x.id = r.id}
    BY <1>4, <2>1, <2>2, RevisionFound DEF Inv
  <2>4. r.id \in changed2
    BY <1>9 DEF newly_observed
  <2>5. r.prev_ts <= snapshot_ts
    BY <1>3, <1>4, <2>1, <2>2 DEF IsRevisionTs
  <2> QED
    BY <1>4, <2>1, <2>2, <2>3, <2>4, <2>5
<1>11. revs = {x \in At(snapshot_ts) : \E r \in entries : x.id = r.id}
  <2>1. ASSUME NEW r \in entries, r.prev_ts = 0
        PROVE  revision_at_snapshot(r.id, r.prev_ts) = {}
    BY <1>4, <2>1 DEF revision_at_snapshot, Inv, DocumentsInv
  <2> HIDE DEF entries
  <2>2. ASSUME NEW x \in At(snapshot_ts), NEW r \in entries, x.id = r.id
        PROVE  x \in revs
    <3>1. x \in revision_at_snapshot(r.id, r.prev_ts)
      BY <1>10, <2>2
    <3>2. r.prev_ts # 0
      BY <2>1, <3>1
    <3> QED
      BY <3>1, <3>2
  <2>3. ASSUME NEW x \in revs
        PROVE  x \in At(snapshot_ts) /\ \E r \in entries : x.id = r.id
    BY <1>10
  <2> HIDE DEF revs
  <2> QED
    BY <2>2, <2>3
<1>12. beyond = {x \in At(snapshot_ts) : TableOf[x.id] = t /\ walk.cursor < Key(x)}
       /\ here = {x \in beyond : Key(x) <= walk.page_end}
       /\ (\A x \in At(snapshot_ts) : x \in documents)
  <2>1. beyond = {x \in At(snapshot_ts) :
                    TableOf[x.id] = t /\ walk.cursor < Key(x) /\ Key(x) <= End}
    BY RowsAre DEF Inv
  <2>2. here = {x \in At(snapshot_ts) :
                    TableOf[x.id] = t /\ walk.cursor < Key(x) /\ Key(x) <= walk.page_end}
    BY RowsAre DEF Inv
  <2>3. \A x \in At(snapshot_ts) : x \in documents
    BY DEF At
  <2> HIDE DEF beyond, here
  <2> QED
    BY <1>4, <2>1, <2>2, <2>3
<1>13. skipped = {x \in beyond : x.id \in changed2}
  <2>1. ASSUME NEW x \in beyond
        PROVE  x \in skipped <=> x.id \in changed2
    <3>1. /\ x \in At(snapshot_ts) /\ TableOf[x.id] = t /\ walk.cursor < Key(x)
          /\ Key(x) \in Nat
      BY <1>4, <1>12, <2>1
    <3>2. Key(x) > walk.cursor
      BY <1>5, <3>1
    <3>3. x \in walk.skipped <=> x.id \in changed
      BY <1>6, <2>1
    <3>4. x \in revs <=> x.id \in newly_observed(entries)
      <4> HIDE DEF revs, entries
      <4> QED
        BY <1>11, <3>1 DEF newly_observed
    <3>5. changed2 = changed \cup newly_observed(entries)
      BY <1>6, <1>9
    <3> HIDE DEF revs, entries, changed, changed2
    <3> QED
      BY <3>2, <3>3, <3>4, <3>5
  <2>2. ASSUME NEW x \in skipped
        PROVE  x \in beyond
    <3>1. CASE x \in walk.skipped
      BY <1>6, <3>1
    <3>2. CASE x \in revs /\ Key(x) > walk.cursor
      <4>1. PICK r \in entries : x.id = r.id
        BY <1>11, <3>2
      <4>2. x \in At(snapshot_ts) /\ TableOf[x.id] = t
        BY <1>10, <1>11, <3>2, <4>1
      <4>3. Key(x) \in Nat /\ walk.cursor < Key(x)
        BY <1>4, <1>5, <1>12, <3>2, <4>2
      <4> QED
        BY <1>12, <4>2, <4>3
    <3> QED
      BY <2>2, <3>1, <3>2
  <2> HIDE DEF skipped, beyond, changed2
  <2> QED
    BY <2>1, <2>2
<1>14. page_at_snapshot = {x \in here : x.id \notin changed2}
  BY <1>3, <1>6, UnchangedRows DEF page_at_snapshot, Inv
<1>15. merged = here
  <2> HIDE DEF skipped, here, changed2, beyond
  <2> QED
    BY <1>12, <1>13, <1>14
<1>16. \A r \in entries : r.prev_ts <= snapshot_ts
  BY <1>10
<1> HIDE DEF entries, revs, all, skipped, merged
<1>17. /\ \A r, q \in here : r.id = q.id => r = q
       /\ \A r \in here : /\ r.ts <= snapshot_ts /\ walk.cursor < Key(r)
                          /\ Key(r) <= walk.page_end /\ r \in documents
       /\ \A r \in skipped : walk.cursor < Key(r) /\ Key(r) <= End
  <2>1. \A r, q \in here : r.id = q.id => r.ts <= q.ts /\ q.ts <= r.ts
    BY DEF Rows
  <2>2. \A r \in here : /\ r.ts <= snapshot_ts /\ walk.cursor < Key(r)
                        /\ Key(r) <= walk.page_end /\ r \in documents
    BY DEF Rows
  <2>4. \A r \in skipped : walk.cursor < Key(r) /\ Key(r) <= End
    BY <1>13 DEF Rows
  <2> HIDE DEF here
  <2>3. \A r, q \in here : r.id = q.id => r = q
    BY <1>4, <2>1, <2>2 DEF Inv, DocumentsInv
  <2> QED
    BY <2>2, <2>3, <2>4
<1>18. walk' = next
  <2> HIDE DEF next, here
  <2> QED
    BY <1>2, <1>3, <1>15, <1>16, <1>17
<1>19. /\ next \in Walks /\ next.step \in {"idle", "page"} /\ next.table = t
       /\ next.cursor = walk.page_end /\ next.observed = changed2
       /\ next.skipped = {r \in skipped : Key(r) > walk.page_end}
       /\ next.yielded = walk.yielded \cup here
  <2>1. /\ here \in SUBSET Revisions /\ changed2 \in SUBSET Ids
        /\ skipped \in SUBSET Revisions
    BY <1>3, <1>13 DEF Rows, Changed
  <2>2. /\ (walk.observed \cup newly_observed(entries)) = changed2
        /\ (walk.yielded \cup merged) = walk.yielded \cup here
    BY <1>9, <1>15
  <2>3. /\ walk.yielded \in SUBSET Revisions /\ walk.done \in SUBSET Tables /\ walk.table \in Tables
    BY <1>3 DEF Walks
  <2>4. {r \in skipped : Key(r) > walk.page_end} \in SUBSET Revisions
    BY <2>1
  <2> HIDE DEF here, changed2
  <2> QED
    BY <1>3, <1>5, <2>1, <2>2, <2>3, <2>4 DEF Walks
<1> HIDE DEF next
<1>20. TypeOK' /\ BufferInv'
  <2>1. ASSUME NEW u \in DOMAIN buffered
        PROVE  /\ buffered'[u] \in [Changed(documents, u, snapshot_ts, to) -> Timestamps]
               /\ \A id \in Changed(documents, u, snapshot_ts, to) :
                    IsRevisionTs(documents, snapshot_ts, id, buffered'[u][id])
    <3> DEFINE mine == {r \in all : TableOf[r.id] = u}
               buffer == buffered[u]
               chosen(id) == CHOOSE r \in mine : r.id = id
    <3>1. buffered'[u] = [id \in DOMAIN buffer \cup {r.id : r \in mine} |->
                            IF id \in DOMAIN buffer THEN buffer[id] ELSE chosen(id).prev_ts]
      BY <1>1 DEF buffer_entries
    <3>2. /\ DOMAIN buffer = Changed(documents, u, snapshot_ts, end_ts)
          /\ \A id \in DOMAIN buffer : IsRevisionTs(documents, snapshot_ts, id, buffer[id])
          /\ \A id \in DOMAIN buffer : buffer[id] \in Timestamps
      BY DEF Inv, BufferInv, TypeOK
    <3>3. DOMAIN buffer \cup {r.id : r \in mine} = Changed(documents, u, snapshot_ts, to)
      BY <1>8, <3>2
    <3>4. ASSUME NEW id \in {r.id : r \in mine}, id \notin DOMAIN buffer
          PROVE  /\ chosen(id).prev_ts \in Timestamps
                 /\ IsRevisionTs(documents, snapshot_ts, id, chosen(id).prev_ts)
      <4>1. chosen(id) \in mine /\ chosen(id).id = id
        OBVIOUS
      <4> HIDE DEF chosen
      <4>2. chosen(id) \in documents /\ TableOf[id] = u
        BY <1>7, <4>1
      <4>3. IsRevisionTs(documents, snapshot_ts, id, chosen(id).prev_ts)
        BY <1>7, <3>2, <3>4, <4>1, <4>2
      <4>4. chosen(id).prev_ts \in Timestamps
        BY <1>3, <4>2 DEF Revisions
      <4> QED
        BY <4>3, <4>4
    <3> HIDE DEF chosen, buffer, mine
    <3> QED
      BY <3>1, <3>2, <3>3, <3>4
  <2>2. DOMAIN buffered' = DOMAIN buffered
    BY <1>1
  <2>3. BufferInv'
    BY <1>1, <2>1, <2>2 DEF BufferInv
  <2>4. TypeOK'
    <3>1. DOMAIN buffered' \subseteq Tables
      BY <2>2 DEF Inv, TypeOK
    <3>2. \A u \in DOMAIN buffered' : \E ids \in SUBSET Ids : buffered'[u] \in [ids -> Timestamps]
      <4>1. \A u : Changed(documents, u, snapshot_ts, to) \in SUBSET Ids
        BY DEF Changed
      <4> QED
        BY <2>1, <2>2, <4>1
    <3> QED
      BY <1>1, <1>3, <1>18, <1>19, <3>1, <3>2 DEF Inv, TypeOK
  <2> QED
    BY <2>3, <2>4
<1>21. DocumentsInv'
  BY <1>1 DEF Inv, DocumentsInv
<1>22. TimeInv'
  BY <1>1, <1>3, <1>18, <1>19 DEF TimeInv
<1>23. WalkInv'
  <2>1. walk.yielded \cup here = Rows(documents, snapshot_ts, t, 0, walk.page_end)
    <3>1. \A x \in documents :
            (0 < Key(x) /\ Key(x) <= walk.page_end)
              <=> \/ 0 < Key(x) /\ Key(x) <= walk.cursor
                  \/ walk.cursor < Key(x) /\ Key(x) <= walk.page_end
      BY <1>4, <1>5
    <3> QED
      BY <1>6, <3>1 DEF Rows
  <2>2. {r \in skipped : Key(r) > walk.page_end} =
          {r \in Rows(documents, snapshot_ts, t, walk.page_end, End) : r.id \in changed2}
    <3>1. \A x \in documents :
            (walk.page_end < Key(x) /\ Key(x) <= End)
              <=> walk.cursor < Key(x) /\ Key(x) <= End /\ Key(x) > walk.page_end
      BY <1>4, <1>5
    <3>2. Rows(documents, snapshot_ts, t, walk.page_end, End) = {x \in beyond : Key(x) > walk.page_end}
      BY <3>1 DEF Rows
    <3> HIDE DEF beyond, changed2
    <3> QED
      BY <1>13, <3>2
  <2> QED
    BY <1>1, <1>18, <1>19, <2>1, <2>2 DEF WalkInv
<1> QED
  BY <1>20, <1>21, <1>22, <1>23 DEF Inv

-----------------------------------------------------------------------------
(* The invariant, and what follows.                                        *)

\* Before the first table: one revision of some documents, nothing read.
LEMMA InvInit ==
  ASSUME TableIterationAssumption, Init
  PROVE  Inv
<1>1. PICK live \in SUBSET Ids : \E values \in [live -> 1..NumValues] :
        documents = {[id |-> id, ts |-> 1, value |-> values[id], prev_ts |-> 0] : id \in live}
  BY DEF Init
<1>2. PICK values \in [live -> 1..NumValues] :
        documents = {[id |-> id, ts |-> 1, value |-> values[id], prev_ts |-> 0] : id \in live}
  BY <1>1
<1>3. /\ latest_ts = 1 /\ recent_ts = 1 /\ snapshot_ts = 1 /\ end_ts = 1
      /\ MaxTs \in Nat /\ 1 <= MaxTs /\ NumValues \in Nat /\ Tables # {}
  BY DEF Init, TableIterationAssumption
<1>4. PICK reg \in {Tables, {}} : buffered = [t \in reg |-> [id \in {} |-> 0]]
  BY DEF Init
<1>5. \A r \in documents : r \in Revisions /\ r.ts = 1 /\ r.prev_ts = 0
  <2> SUFFICES ASSUME NEW r \in documents
               PROVE  r \in Revisions /\ r.ts = 1 /\ r.prev_ts = 0
    OBVIOUS
  <2>1. PICK id \in live : r = [id |-> id, ts |-> 1, value |-> values[id], prev_ts |-> 0]
    BY <1>2
  <2>2. values[id] \in 0..NumValues /\ 0 \in Timestamps /\ 1 \in Timestamps
    BY <1>3 DEF Timestamps
  <2> QED
    BY <2>1, <2>2 DEF Revisions
<1>6. walk = NoWalk({}) /\ walk \in Walks /\ walk.step = "idle" /\ walk.cursor = 0
      /\ walk.yielded = {}
  <2>1. 0 \in Keys /\ 0 \in Timestamps
    BY <1>3, KeyTypes DEF Timestamps
  <2>2. (CHOOSE t \in Tables : TRUE) \in Tables
    BY <1>3
  <2> QED
    BY <2>1, <2>2 DEF Init, NoWalk, Walks
<1>7. DOMAIN buffered \subseteq Tables
      /\ \A t \in DOMAIN buffered : buffered[t] = [id \in {} |-> 0]
  BY <1>4
<1>8. TypeOK
  <2>1. \A t \in DOMAIN buffered : \E ids \in SUBSET Ids : buffered[t] \in [ids -> Timestamps]
    <3>1. [id \in {} |-> 0] \in [{} -> Timestamps]
      OBVIOUS
    <3> QED
      BY <1>7, <3>1
  <2>2. 1 \in Timestamps
    BY <1>3 DEF Timestamps
  <2> QED
    BY <1>3, <1>5, <1>6, <1>7, <2>1, <2>2 DEF TypeOK
<1>9. DocumentsInv
  <2>1. \A r, q \in documents : r.id = q.id => r = q
    <3> SUFFICES ASSUME NEW r \in documents, NEW q \in documents, r.id = q.id
                 PROVE  r = q
      OBVIOUS
    <3>1. PICK a \in live : r = [id |-> a, ts |-> 1, value |-> values[a], prev_ts |-> 0]
      BY <1>2
    <3>2. PICK b \in live : q = [id |-> b, ts |-> 1, value |-> values[b], prev_ts |-> 0]
      BY <1>2
    <3> QED
      BY <3>1, <3>2
  <2> QED
    BY <1>3, <1>5, <2>1 DEF DocumentsInv
<1>10. TimeInv
  BY <1>3, <1>6 DEF TimeInv
<1>11. BufferInv
  <2>1. \A t : Changed(documents, t, snapshot_ts, end_ts) = {}
    BY <1>3, <1>5 DEF Changed
  <2>2. \A t \in DOMAIN buffered : DOMAIN buffered[t] = {}
    BY <1>7
  <2> QED
    BY <2>1, <2>2 DEF BufferInv
<1>12. WalkInv
  BY <1>6, <1>8, NothingBelow DEF WalkInv
<1> QED
  BY <1>8, <1>9, <1>10, <1>11, <1>12 DEF Inv

\* Every step of the database and of the iterator keeps the invariant.
LEMMA InvStep ==
  ASSUME TableIterationAssumption, Inv, [Next]_vars
  PROVE  Inv'
<1>1. ASSUME NEW id \in Ids, NEW value \in 0..NumValues, Commit(id, value)
      PROVE  Inv'
  BY <1>1, CommitStep
<1>2. CASE BumpRepeatable
  BY <1>2, BumpStep
<1>3. ASSUME NEW t \in Tables, StartTable(t)
      PROVE  Inv'
  BY <1>3, StartStep
<1>4. ASSUME NEW t \in Tables, UnregisterTable(t)
      PROVE  Inv'
  BY <1>4, UnregisterStep
<1>5. CASE FetchPage
  BY <1>5, FetchStep
<1>6. CASE MergePage
  BY <1>6, MergeStep
<1>7. CASE UNCHANGED vars
  <2>1. /\ documents' = documents /\ latest_ts' = latest_ts /\ recent_ts' = recent_ts
        /\ snapshot_ts' = snapshot_ts /\ end_ts' = end_ts /\ buffered' = buffered
        /\ walk' = walk
    BY <1>7 DEF vars
  <2>2. TypeOK'
    BY <2>1 DEF Inv, TypeOK
  <2>3. DocumentsInv' /\ TimeInv'
    BY <2>1 DEF Inv, DocumentsInv, TimeInv
  <2>4. BufferInv'
    BY <2>1 DEF Inv, BufferInv
  <2>5. WalkInv'
    BY <2>1 DEF Inv, WalkInv
  <2> QED
    BY <2>2, <2>3, <2>4, <2>5 DEF Inv
<1> QED
  BY <1>1, <1>2, <1>3, <1>4, <1>5, <1>6, <1>7 DEF Next

\* What has been yielded is what the table held at the snapshot.
LEMMA InvYieldsSnapshot ==
  ASSUME TableIterationAssumption, Inv
  PROVE  YieldsSnapshot
<1>1. TypeOK /\ walk.yielded = Rows(documents, snapshot_ts, walk.table, 0, walk.cursor)
  BY DEF Inv, WalkInv
<1>2. \A r \in At(snapshot_ts) : 0 < Key(r)
  BY <1>1, RowsAre, KeyFacts
<1>3. walk.yielded = {r \in At(snapshot_ts) :
                        TableOf[r.id] = walk.table /\ 0 < Key(r) /\ Key(r) <= walk.cursor}
  BY <1>1, RowsAre
<1> QED
  BY <1>2, <1>3 DEF YieldsSnapshot

\* No check of the iterator fails: the log is never read backwards, no
\* document is merged twice, a merged page holds only revisions of the
\* snapshot within the page, a skipped key is never behind the cursor, none is
\* left at the end, and the first entry after the snapshot never points past
\* it (the anyhow::ensure! calls of stream_documents_in_table_by_index and
\* load_revisions_at_snapshot_ts).
ChecksHold == walk.step # "failed"

\* The inductive invariant holds of every state: the buffers hold exactly what
\* the log says up to end_ts, and a walk has exactly the changed rows beyond
\* its cursor (MultiTableIterator).
THEOREM TableIterationInvariant ==
  ASSUME TableIterationAssumption
  PROVE  Spec => []Inv
<1>1. Init => Inv
  BY InvInit
<1>2. Inv /\ [Next]_vars => Inv'
  BY InvStep
<1> QED
  BY <1>1, <1>2, PTL DEF Spec

\* The state of the iterator keeps its types.
THEOREM TableIterationTypeCorrect ==
  ASSUME TableIterationAssumption
  PROVE  Spec => []TypeOK
<1>1. Inv => TypeOK
  BY DEF Inv
<1> QED
  BY <1>1, TableIterationInvariant, PTL

\* However the tables change during a walk, what it yields is exactly what the
\* table held at the snapshot, with the keys it had then, up to the cursor
\* (stream_documents_in_table_by_index).
THEOREM WalkYieldsTheSnapshot ==
  ASSUME TableIterationAssumption
  PROVE  Spec => []YieldsSnapshot
<1>1. Inv => YieldsSnapshot
  BY InvYieldsSnapshot
<1> QED
  BY <1>1, TableIterationInvariant, PTL

\* No run of the iterator ends in one of its own checks, whatever is committed
\* meanwhile.
THEOREM IteratorChecksHold ==
  ASSUME TableIterationAssumption
  PROVE  Spec => []ChecksHold
<1>1. Inv => ChecksHold
  BY DEF Inv, WalkInv, ChecksHold
<1> QED
  BY <1>1, TableIterationInvariant, PTL

=============================================================================
