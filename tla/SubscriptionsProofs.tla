------------------------- MODULE SubscriptionsProofs -------------------------
(***************************************************************************)
(* What Subscriptions promises for any number of subscriptions, managers   *)
(* and keys, any retention of the write log and any capacity of the        *)
(* request channels.                                                       *)
(*                                                                         *)
(* The argument: the log is only trimmed below what every manager has      *)
(* reported, so a manager compares its subscribers with every write it has *)
(* not processed; a subscriber is clean up to what its manager has         *)
(* processed; and a subscription is in one place only, a channel or a slot *)
(* of a slab, so nobody else moves its validity.                           *)
(***************************************************************************)
EXTENDS Subscriptions, WellFoundedInduction, TLAPS

USE SubscriptionsAssumption

Writes == [ts : Timestamps, keys : SUBSET Keys]

-----------------------------------------------------------------------------
(* The inductive invariant.                                                *)

\* No write that the query of s has not seen overlaps its reads up to ts.
Clean(s, ts) == Overlapping(writes, sub[s].reads, sub[s].begin, ts) = {}

\* The timestamps of the log, the snapshots and the managers.
LogOrder ==
  /\ snapshot_ts <= max_ts
  /\ \A m \in Managers :
       /\ processed_timestamps[m] <= processed_ts[m]
       /\ processed_ts[m] <= max_ts
       /\ next_ts[m] <= max_ts
       /\ pc[m] = "advance" => processed_ts[m] <= next_ts[m]

\* The log is trimmed below what every manager has reported, and a manager
\* that is about to trim is still the slowest.
TrimOrder ==
  \A m \in Managers :
    /\ purged_ts <= processed_timestamps[m]
    /\ pc[m] = "trim" =>
         \A n \in Managers : processed_ts[m] <= processed_timestamps[n]

\* How the phase of a subscription and its Validity go together.
SubPhaseInv ==
  \A s \in Subs :
    /\ sub[s].begin <= max_ts /\ sub[s].valid_ts <= max_ts
    /\ sub[s].phase \in {"idle", "queried"} =>
         sub[s].valid_ts = None /\ ~sub[s].held /\ extend[s].phase = "none"
    /\ sub[s].phase \in {"refreshed", "queued", "registered"} => sub[s].valid_ts # None
    /\ sub[s].phase \in {"refreshed", "queued"} => sub[s].valid_ts = sub[s].token
    /\ sub[s].valid_ts # None => sub[s].begin <= sub[s].valid_ts

\* A subscription waits in one channel, once.
QueueInv ==
  /\ \A m \in Managers : \A i \in 1..Len(queue[m]) : sub[queue[m][i]].phase = "queued"
  /\ \A m, n \in Managers : \A i \in 1..Len(queue[m]), j \in 1..Len(queue[n]) :
       queue[m][i] = queue[n][j] => m = n /\ i = j

\* A subscriber is in one slab, in a slot of its own.
SlabInv ==
  /\ \A m \in Managers : \A k \in subscribers[m] :
       /\ sub[k.sub].phase = "registered"
       /\ \A l \in subscribers[m] : k.slot = l.slot => k = l
  /\ \A m, n \in Managers : \A k \in subscribers[m], l \in subscribers[n] :
       k.sub = l.sub => m = n /\ k = l

\* The keys that wait for their client are those of the subscriber in the slot
\* or of one that was there before it.
SlotInv ==
  \A m \in Managers :
    /\ \A k \in subscribers[m] \cup closed_subscriptions[m] : k.seq < next_seq[m]
    /\ \A k \in subscribers[m], c \in closed_subscriptions[m] :
         /\ c.slot = k.slot => c.seq <= k.seq
         /\ c.seq = k.seq => c = k

\* A subscriber is clean up to what its manager has processed, and its
\* validity is not ahead of what the manager is about to process.
SubscriberInv ==
  \A m \in Managers : \A k \in subscribers[m] :
    /\ Clean(k.sub, processed_ts[m])
    /\ pc[m] = "advance" => sub[k.sub].valid_ts <= next_ts[m]

\* What extend_validity has read is clean, and what it answers.
ExtendInv ==
  \A s \in Subs :
    /\ extend[s].phase \in {"reading", "valid"} =>
         sub[s].begin <= extend[s].new_ts /\ extend[s].new_ts <= max_ts
    /\ extend[s].phase = "reading" =>
         extend[s].current_ts <= max_ts /\ Clean(s, extend[s].current_ts)

Inv ==
  /\ TypeOK /\ LogOrder /\ TrimOrder /\ SubPhaseInv
  /\ QueueInv /\ SlabInv /\ SlotInv /\ SubscriberInv
  /\ ValiditySound /\ ExtendInv /\ ExtendSound /\ InvalidatedForCause

-----------------------------------------------------------------------------
(* Least and greatest elements, and the operators of the log.              *)

LEMMA LeastNat ==
  ASSUME NEW S \in SUBSET Nat, S # {}
  PROVE  \E x \in S : \A y \in S : x <= y
<1>1. PICK x \in S : \A y \in S : ~(<<y, x>> \in OpToRel(<, Nat))
  BY NatLessThanWellFounded, WFMin
<1>2. ASSUME NEW y \in S, y < x PROVE <<y, x>> \in OpToRel(<, Nat)
  <2>1. <<y, x>> \in Nat \X Nat /\ <<y, x>>[1] < <<y, x>>[2]
    BY <1>2
  <2> QED
    BY <2>1, Zenon DEF OpToRel
<1>3. \A y \in S : ~(y < x)
  BY <1>1, <1>2
<1> QED
  BY <1>3

LEMMA MinIsLeast ==
  ASSUME NEW S \in SUBSET Nat, S # {}
  PROVE  Min(S) \in S
BY LeastNat DEF Min

\* The greatest element is the least bound.
LEMMA MaxIsGreatest ==
  ASSUME NEW S \in SUBSET Timestamps, S # {}
  PROVE  Max(S) \in S /\ \A x \in S : x <= Max(S)
<1> DEFINE Bounds == {b \in Nat : \A x \in S : x <= b}
<1>1. MaxTs \in Bounds
  BY DEF Timestamps
<1>2. PICK b \in Bounds : \A c \in Bounds : b <= c
  BY <1>1, LeastNat
<1>3. b \in S
  <2>1. CASE b = 0
    <3>1. PICK x \in S : TRUE
      OBVIOUS
    <3>2. x \in Nat /\ x <= b
      BY <1>2 DEF Timestamps
    <3> QED
      BY <2>1, <3>2
  <2>2. CASE b # 0
    <3>1. b - 1 \in Nat /\ b - 1 \notin Bounds
      BY <2>2, <1>2
    <3>2. PICK x \in S : ~(x <= b - 1)
      BY <3>1
    <3> QED
      BY <3>2, <1>2 DEF Timestamps
  <2> QED
    BY <2>1, <2>2
<1>4. \E x \in S : \A y \in S : y <= x
  BY <1>2, <1>3
<1> QED
  BY <1>4 DEF Max

\* max_ts as a function of the log.
LogEnd(W, p) == Max({p} \cup {w.ts : w \in {w \in W : p < w.ts}})

LEMMA LogEndFacts ==
  ASSUME NEW W \in SUBSET Writes, NEW p \in Timestamps
  PROVE  /\ LogEnd(W, p) \in Timestamps
         /\ p <= LogEnd(W, p)
         /\ \A w \in W : w.ts <= LogEnd(W, p)
         /\ LogEnd(W, p) = p \/ \E w \in W : w.ts = LogEnd(W, p)
<1> DEFINE S == {p} \cup {w.ts : w \in {w \in W : p < w.ts}}
<1>1. S \in SUBSET Timestamps /\ S # {}
  BY DEF Writes
<1>2. LogEnd(W, p) = Max(S)
  BY DEF LogEnd
<1>3. Max(S) \in S /\ \A x \in S : x <= Max(S)
  BY <1>1, MaxIsGreatest
<1>4. Max(S) \in Timestamps /\ p <= Max(S)
  BY <1>1, <1>3
<1>5. ASSUME NEW w \in W PROVE w.ts <= Max(S)
  <2>1. CASE p < w.ts
    BY <2>1, <1>3
  <2>2. CASE ~(p < w.ts)
    BY <2>2, <1>4 DEF Writes, Timestamps
  <2> QED
    BY <2>1, <2>2
<1>6. Max(S) = p \/ \E w \in W : w.ts = Max(S)
  BY <1>3
<1> QED
  BY <1>2, <1>4, <1>5, <1>6

LEMMA MaxTsFacts ==
  ASSUME TypeOK
  PROVE  /\ max_ts \in Timestamps
         /\ purged_ts <= max_ts
         /\ \A w \in writes : w.ts <= max_ts
         /\ max_ts = purged_ts \/ \E w \in writes : w.ts = max_ts
<1>1. max_ts = LogEnd(writes, purged_ts)
  BY DEF max_ts, log, LogEnd
<1> QED
  BY <1>1, LogEndFacts DEF TypeOK, Writes

\* The same of the next state.
LEMMA MaxTsFactsNext ==
  ASSUME TypeOK'
  PROVE  /\ max_ts' \in Timestamps
         /\ purged_ts' <= max_ts'
         /\ \A w \in writes' : w.ts <= max_ts'
         /\ max_ts' = purged_ts' \/ \E w \in writes' : w.ts = max_ts'
<1>1. max_ts' = LogEnd(writes', purged_ts')
  BY DEF max_ts, log, LogEnd
<1>2. writes' \in SUBSET Writes /\ purged_ts' \in Timestamps
  BY DEF TypeOK, Writes
<1> QED
  BY <1>1, <1>2, LogEndFacts

\* A range that begins in the log misses nothing of what was ever written.
LEMMA OverlapJoin ==
  ASSUME NEW W \in SUBSET Writes, NEW reads, NEW p \in Timestamps,
         NEW lo \in Timestamps, NEW mid \in Timestamps, NEW hi \in Timestamps, p <= mid,
         Overlapping(W, reads, lo, mid) = {},
         Overlapping({w \in W : p < w.ts}, reads, mid, hi) = {}
  PROVE  Overlapping(W, reads, lo, hi) = {}
<1>1. ASSUME NEW w \in W, lo < w.ts, w.ts <= hi, w.keys \cap reads # {} PROVE FALSE
  <2>1. CASE w.ts <= mid
    BY <1>1, <2>1 DEF Overlapping
  <2>2. CASE mid < w.ts
    BY <1>1, <2>2 DEF Overlapping, Writes, Timestamps
  <2> QED
    BY <2>1, <2>2 DEF Writes, Timestamps
<1> QED
  BY <1>1 DEF Overlapping

LEMMA OverlapShorter ==
  ASSUME NEW W \in SUBSET Writes, NEW reads, NEW lo \in Timestamps,
         NEW hi \in Timestamps, NEW less \in Timestamps, less <= hi,
         Overlapping(W, reads, lo, hi) = {}
  PROVE  Overlapping(W, reads, lo, less) = {}
BY DEF Overlapping, Writes, Timestamps

LEMMA OverlapNothing ==
  ASSUME NEW W, NEW lo, NEW hi
  PROVE  Overlapping(W, {}, lo, hi) = {}
BY DEF Overlapping

-----------------------------------------------------------------------------
(* Types.                                                                  *)

SubType ==
  [phase : SubPhases, reads : SUBSET Keys, begin : Timestamps, token : Timestamps,
   valid_ts : Timestamps \cup {None}, invalid_ts : Timestamps \cup {None},
   watch : {"valid", "delayed", "invalid"}, held : BOOLEAN]

ExtendType ==
  [phase : {"none", "reading", "valid", "invalid"}, current_ts : Timestamps,
   new_ts : Timestamps]

KeyType == [slot : Slots, seq : Nat, sub : Subs]

LEMMA EarliestType ==
  ASSUME NEW W \in SUBSET Writes, W # {}
  PROVE  Earliest(W) \in Timestamps /\ \E w \in W : w.ts = Earliest(W)
<1> DEFINE S == {w.ts : w \in W}
<1>1. S \in SUBSET Nat /\ S # {}
  BY DEF Writes, Timestamps
<1>2. Min(S) \in S
  BY <1>1, MinIsLeast
<1>3. Earliest(W) = Min(S)
  BY DEF Earliest
<1> QED
  BY <1>2, <1>3 DEF Writes

LEMMA ConflictType ==
  ASSUME TypeOK, NEW reads, NEW from, NEW to, ~Refreshes(reads, from, to)
  PROVE  /\ ConflictTs(reads, from, to) \in Timestamps \cup {None}
         /\ \/ from < purged_ts
            \/ \E w \in writes : w.ts = ConflictTs(reads, from, to) /\ w.keys \cap reads # {}
<1>1. CASE OutOfRetention(from)
  BY <1>1 DEF ConflictTs, OutOfRetention
<1>2. CASE ~OutOfRetention(from)
  <2> DEFINE W == Overlapping(log, reads, from, to)
  <2>1. W \in SUBSET Writes /\ W # {}
    BY <1>2 DEF Refreshes, Overlapping, log, TypeOK, Writes
  <2>2. ConflictTs(reads, from, to) = Earliest(W)
    BY <1>2 DEF ConflictTs
  <2>3. \A w \in W : w \in writes /\ w.keys \cap reads # {}
    BY DEF Overlapping, log
  <2> HIDE DEF W
  <2> QED
    BY <2>1, <2>2, <2>3, EarliestType
<1> QED
  BY <1>1, <1>2

LEMMA InitType == Init => TypeOK
<1> SUFFICES ASSUME Init PROVE TypeOK
  OBVIOUS
<1>1. /\ writes \in SUBSET Writes /\ purged_ts \in Timestamps /\ snapshot_ts \in Timestamps
      /\ processed_ts \in [Managers -> Timestamps]
      /\ processed_timestamps \in [Managers -> Timestamps]
      /\ next_ts \in [Managers -> Timestamps] /\ next_seq \in [Managers -> Nat]
  BY DEF Init, Timestamps
<1>2. sub \in [Subs -> SubType] /\ extend \in [Subs -> ExtendType]
  BY DEF Init, SubType, ExtendType, NoExtend, SubPhases, Timestamps, None
<1>3. queue \in [Managers -> Seq(Subs)] /\ \A m \in Managers : Len(queue[m]) <= QueueSize
  BY DEF Init
<1>4. /\ pc \in [Managers -> {"select", "waiting", "advance", "report", "trim"}]
      /\ waiter \in [Managers -> {"none", "registered", "notified"}] /\ stopped \in BOOLEAN
  BY DEF Init
<1>5. /\ subscribers \in [Managers -> SUBSET KeyType]
      /\ closed_subscriptions \in [Managers -> SUBSET KeyType]
  BY DEF Init
<1> QED
  BY <1>1, <1>2, <1>3, <1>4, <1>5 DEF TypeOK, Writes, SubType, ExtendType, KeyType

\* The parts of the type, with their names.
LEMMA Types ==
  ASSUME TypeOK
  PROVE  /\ writes \in SUBSET Writes /\ purged_ts \in Timestamps /\ snapshot_ts \in Timestamps
         /\ processed_ts \in [Managers -> Timestamps]
         /\ processed_timestamps \in [Managers -> Timestamps]
         /\ next_ts \in [Managers -> Timestamps] /\ next_seq \in [Managers -> Nat]
         /\ sub \in [Subs -> SubType] /\ extend \in [Subs -> ExtendType]
         /\ queue \in [Managers -> Seq(Subs)]
         /\ subscribers \in [Managers -> SUBSET KeyType]
         /\ closed_subscriptions \in [Managers -> SUBSET KeyType]
         /\ log \in SUBSET Writes
BY DEF TypeOK, Writes, SubType, ExtendType, KeyType, log

\* The managers' types without the rest, for steps that leave them alone.
LEMMA TypeOKSub ==
  ASSUME TypeOK, UNCHANGED <<logVars, managerVars, stopped, extend>>,
         sub' \in [Subs -> SubType]
  PROVE  TypeOK'
BY DEF TypeOK, SubType, logVars, managerVars

LEMMA GoneType == Gone \in SubType
BY DEF Gone, SubType, SubPhases, Timestamps, None

\* One record of the table of subscriptions is replaced.
LEMMA ClientType ==
  ASSUME TypeOK, NEW s \in Subs,
         \/ \E reads \in SUBSET Keys : RunQuery(s, reads)
         \/ RefreshReads(s) \/ SubscribeInvalid(s)
         \/ \E m \in Managers : SendRequest(s, m) \/ SendFails(s, m)
         \/ DropSubscription(s)
         \/ \E new_ts \in 0..snapshot_ts : ExtendStart(s, new_ts)
         \/ ExtendFinish(s) \/ DeliverDelayed(s)
  PROVE  TypeOK'
<1>0. sub[s] \in SubType /\ sub \in [Subs -> SubType] /\ extend \in [Subs -> ExtendType]
  BY Types
<1>1. ASSUME NEW reads \in SUBSET Keys, RunQuery(s, reads) PROVE TypeOK'
  <2>1. sub' \in [Subs -> SubType]
    BY <1>0, <1>1, Types DEF RunQuery, SubType, SubPhases
  <2> QED
    BY <1>1, <2>1, TypeOKSub DEF RunQuery
<1>2. CASE RefreshReads(s)
  <2>1. sub' \in [Subs -> SubType]
    BY <1>0, <1>2, MaxTsFacts DEF RefreshReads, SubType, SubPhases
  <2> QED
    BY <1>2, <2>1, TypeOKSub DEF RefreshReads
<1>3. CASE SubscribeInvalid(s)
  <2>0. ConflictTs(sub[s].reads, sub[s].begin, max_ts) \in Timestamps \cup {None}
    BY <1>3, ConflictType DEF SubscribeInvalid
  <2>1. sub' \in [Subs -> SubType]
    BY <1>0, <1>3, <2>0 DEF SubscribeInvalid, SubType, SubPhases
  <2> QED
    BY <1>3, <2>1, TypeOKSub DEF SubscribeInvalid
<1>4. ASSUME NEW m \in Managers, SendRequest(s, m) PROVE TypeOK'
  <2>1. sub' \in [Subs -> SubType]
    BY <1>0, <1>4 DEF SendRequest, SubType, SubPhases
  <2>2. queue[m] \in Seq(Subs) /\ Len(queue[m]) < QueueSize
    BY <1>4, Types DEF SendRequest, HasRoom
  <2>3. Append(queue[m], s) \in Seq(Subs) /\ Len(Append(queue[m], s)) <= QueueSize
    BY <2>2
  <2>4. queue' \in [Managers -> Seq(Subs)] /\ \A n \in Managers : Len(queue'[n]) <= QueueSize
    BY <1>4, <2>3, Types DEF SendRequest, TypeOK
  <2> QED
    BY <1>4, <2>1, <2>4 DEF SendRequest, TypeOK, SubType, logVars
<1>5. ASSUME NEW m \in Managers, SendFails(s, m) PROVE TypeOK'
  <2>1. sub' \in [Subs -> SubType]
    BY <1>0, <1>5, GoneType DEF SendFails
  <2> QED
    BY <1>5, <2>1, TypeOKSub DEF SendFails
<1>6. CASE DropSubscription(s)
  <2>1. sub' \in [Subs -> SubType]
    BY <1>0, <1>6, GoneType DEF DropSubscription, SubType
  <2>2. extend' \in [Subs -> ExtendType]
    BY <1>0, <1>6 DEF DropSubscription, NoExtend, ExtendType, Timestamps
  <2> QED
    BY <1>6, <2>1, <2>2 DEF DropSubscription, TypeOK, SubType, ExtendType, logVars, managerVars
<1>7. ASSUME NEW new_ts \in 0..snapshot_ts, ExtendStart(s, new_ts) PROVE TypeOK'
  <2>1. new_ts \in Timestamps
    BY Types DEF Timestamps
  <2>2. extend' \in [Subs -> ExtendType]
    BY <1>0, <1>7, <2>1 DEF ExtendStart, ExtendType, SubType, Timestamps
  <2> QED
    BY <1>7, <2>2 DEF ExtendStart, TypeOK, ExtendType, logVars, managerVars
<1>8. CASE ExtendFinish(s)
  <2>2. extend' \in [Subs -> ExtendType]
    BY <1>0, <1>8 DEF ExtendFinish, ExtendType, Timestamps
  <2> QED
    BY <1>8, <2>2 DEF ExtendFinish, TypeOK, ExtendType, logVars, managerVars
<1>9. CASE DeliverDelayed(s)
  <2>1. sub' \in [Subs -> SubType]
    BY <1>0, <1>9 DEF DeliverDelayed, SubType
  <2> QED
    BY <1>9, <2>1, TypeOKSub DEF DeliverDelayed
<1> QED
  BY <1>1, <1>2, <1>3, <1>4, <1>5, <1>6, <1>7, <1>8, <1>9

\* What managers write into a subscription.
LEMMA NewSubTypes ==
  ASSUME TypeOK, NEW s \in Subs, NEW ts \in Timestamps \cup {None}
  PROVE  /\ [sub EXCEPT ![s].phase = "registered", ![s].token = 0] \in [Subs -> SubType]
         /\ [sub EXCEPT ![s].phase = "done", ![s].valid_ts = None, ![s].watch = "invalid",
                        ![s].invalid_ts = ts] \in [Subs -> SubType]
<1>1. sub[s] \in SubType /\ sub \in [Subs -> SubType] /\ 0 \in Timestamps
  BY Types DEF Timestamps
<1>2. [sub EXCEPT ![s].phase = "registered", ![s].token = 0] \in [Subs -> SubType]
  BY <1>1 DEF SubType, SubPhases
<1>3. [sub EXCEPT ![s].phase = "done", ![s].valid_ts = None, ![s].watch = "invalid",
                  ![s].invalid_ts = ts] \in [Subs -> SubType]
  BY <1>1 DEF SubType, SubPhases
<1> QED
  BY <1>2, <1>3

Notified(m, s) == \E k \in to_notify(m) : k.sub = s
Advanced(m, s) == \E k \in subscribers[m] \ to_notify(m) : k.sub = s

\* advance_log, subscription by subscription.
LEMMA AdvanceSub ==
  ASSUME NEW m \in Managers, AdvanceLog(m)
  PROVE  /\ sub' = [s \in Subs |-> sub'[s]]
         /\ \A s \in Subs : ~(Notified(m, s) /\ Advanced(m, s))
         /\ \E watch \in {"invalid", "delayed"} : \A s \in Subs :
              Notified(m, s) =>
                sub'[s] = [sub[s] EXCEPT !.phase = "done", !.valid_ts = None, !.watch = watch,
                             !.invalid_ts = Earliest(Overlapping(log, sub[s].reads,
                                                       processed_ts[m], next_ts[m]))]
         /\ \A s \in Subs : Advanced(m, s) => sub'[s] = [sub[s] EXCEPT !.valid_ts = next_ts[m]]
         /\ \A s \in Subs : ~Notified(m, s) /\ ~Advanced(m, s) => sub'[s] = sub[s]
<1> DEFINE V(s, watch) ==
             [sub[s] EXCEPT !.phase = "done", !.valid_ts = None, !.watch = watch,
                !.invalid_ts = Earliest(Overlapping(log, sub[s].reads,
                                          processed_ts[m], next_ts[m]))]
           A(s) == [sub[s] EXCEPT !.valid_ts = next_ts[m]]
<1>1. PICK watch \in {"invalid", "delayed"} :
        sub' = [s \in Subs |-> CASE Notified(m, s) -> V(s, watch)
                                 [] Advanced(m, s) -> A(s)
                                 [] OTHER -> sub[s]]
  BY Zenon DEF AdvanceLog, Notified, Advanced
<1>2. \A s \in Subs : ~(Notified(m, s) /\ Advanced(m, s))
  BY DEF Notified, Advanced, to_notify
<1> HIDE DEF V, A
<1>3. \A s \in Subs : Notified(m, s) => sub'[s] = V(s, watch)
  BY <1>1, <1>2
<1>4. \A s \in Subs : Advanced(m, s) => sub'[s] = A(s)
  BY <1>1, <1>2
<1>5. \A s \in Subs : ~Notified(m, s) /\ ~Advanced(m, s) => sub'[s] = sub[s]
  BY <1>1
<1>6. sub' = [s \in Subs |-> sub'[s]]
  BY <1>1
<1> QED
  BY <1>2, <1>3, <1>4, <1>5, <1>6, Zenon DEF V, A

\* What advance_log reports to a subscription is a write it overlaps.
LEMMA NotifiedCause ==
  ASSUME TypeOK, NEW m \in Managers, NEW s \in Subs, Notified(m, s)
  PROVE  LET ts == Earliest(Overlapping(log, sub[s].reads, processed_ts[m], next_ts[m]))
         IN  /\ ts \in Timestamps
             /\ \E w \in writes : w.ts = ts /\ w.keys \cap sub[s].reads # {}
<1> DEFINE W == Overlapping(log, sub[s].reads, processed_ts[m], next_ts[m])
<1>1. W # {}
  BY DEF Notified, to_notify
<1>2. W \in SUBSET Writes
  BY Types DEF Overlapping
<1>3. \A w \in W : w \in writes /\ w.keys \cap sub[s].reads # {}
  BY DEF Overlapping, log
<1> HIDE DEF W
<1>4. Earliest(W) \in Timestamps /\ \E w \in W : w.ts = Earliest(W)
  BY <1>1, <1>2, EarliestType
<1> QED
  BY <1>3, <1>4 DEF W

LEMMA ManagerType ==
  ASSUME TypeOK, NEW m \in Managers, ManagerStep(m)
  PROVE  TypeOK'
<1>0. sub \in [Subs -> SubType] /\ queue[m] \in Seq(Subs) /\ Len(queue[m]) <= QueueSize
  BY Types DEF TypeOK
<1>q. queue[m] # <<>> =>
        /\ Head(queue[m]) \in Subs /\ Tail(queue[m]) \in Seq(Subs)
        /\ Len(Tail(queue[m])) <= QueueSize
  BY <1>0
<1>t. queue[m] # <<>> =>
        \A q : q = [queue EXCEPT ![m] = Tail(@)] =>
          q \in [Managers -> Seq(Subs)] /\ \A n \in Managers : Len(q[n]) <= QueueSize
  BY <1>q DEF TypeOK
<1>1. ASSUME NEW slot \in Slots, Subscribe(m, slot) PROVE TypeOK'
  <2> DEFINE s == Head(queue[m])
             key == [slot |-> slot, seq |-> next_seq[m], sub |-> s]
  <2>1. s \in Subs /\ key \in KeyType
    BY <1>q, <1>1, Types DEF Subscribe, KeyType
  <2>2. sub' = [sub EXCEPT ![s].phase = "registered", ![s].token = 0]
    BY <1>1 DEF Subscribe
  <2>3. /\ subscribers' = [subscribers EXCEPT ![m] = @ \cup {key}]
        /\ closed_subscriptions' = [closed_subscriptions EXCEPT ![m] = @ \cup {key}]
    BY <1>1 DEF Subscribe, WatchClosed
  <2> HIDE DEF s, key
  <2>4. sub' \in [Subs -> SubType]
    BY <2>1, <2>2, NewSubTypes
  <2>5. /\ subscribers' \in [Managers -> SUBSET KeyType]
        /\ closed_subscriptions' \in [Managers -> SUBSET KeyType]
    BY <2>1, <2>3, Types
  <2>6. queue' \in [Managers -> Seq(Subs)] /\ \A n \in Managers : Len(queue'[n]) <= QueueSize
    BY <1>1, <1>t DEF Subscribe
  <2>7. next_seq' \in [Managers -> Nat]
    BY <1>1, Types DEF Subscribe
  <2> QED
    BY <1>1, <2>4, <2>5, <2>6, <2>7
    DEF Subscribe, LeaveSelect, TypeOK, SubType, KeyType, logVars
<1>2. CASE SubscribeRefused(m)
  <2> DEFINE s == Head(queue[m])
  <2>1. s \in Subs
    BY <1>q, <1>2 DEF SubscribeRefused
  <2>2. ConflictTs(sub[s].reads, sub[s].token, processed_ts[m]) \in Timestamps \cup {None}
    BY <1>2, ConflictType DEF SubscribeRefused
  <2>3. sub' = [sub EXCEPT ![s].phase = "done", ![s].valid_ts = None, ![s].watch = "invalid",
                  ![s].invalid_ts = ConflictTs(sub[s].reads, sub[s].token, processed_ts[m])]
    BY <1>2 DEF SubscribeRefused
  <2> HIDE DEF s
  <2>4. sub' \in [Subs -> SubType]
    BY <2>1, <2>2, <2>3, NewSubTypes
  <2>6. queue' \in [Managers -> Seq(Subs)] /\ \A n \in Managers : Len(queue'[n]) <= QueueSize
    BY <1>2, <1>t DEF SubscribeRefused
  <2> QED
    BY <1>2, <2>4, <2>6 DEF SubscribeRefused, LeaveSelect, TypeOK, SubType, logVars
<1>3. ASSUME NEW key \in closed_subscriptions[m], Remove(m, key) PROVE TypeOK'
  <2> DEFINE removed == get_subscriber(m, key)
  <2>1. sub' = [s \in Subs |->
               IF ~\E k \in removed : k.sub = s THEN sub[s]
               ELSE IF ~sub[s].held THEN Gone
               ELSE [sub[s] EXCEPT !.phase = "done", !.valid_ts = None, !.watch = "invalid"]]
    BY <1>3 DEF Remove
  <2> HIDE DEF removed
  <2>2. \A s \in Subs : [sub[s] EXCEPT !.phase = "done", !.valid_ts = None, !.watch = "invalid"]
                          \in SubType
    BY <1>0 DEF SubType, SubPhases
  <2>4. sub' \in [Subs -> SubType]
    BY <2>1, <2>2, <1>0, GoneType
  <2>5. /\ subscribers' \in [Managers -> SUBSET KeyType]
        /\ closed_subscriptions' \in [Managers -> SUBSET KeyType]
    BY <1>3, Types DEF Remove
  <2> QED
    BY <1>3, <2>4, <2>5 DEF Remove, LeaveSelect, TypeOK, SubType, KeyType, logVars
<1>4. CASE WaitForHigherTs(m)
  BY <1>4 DEF WaitForHigherTs, TypeOK, logVars
<1>5. CASE SeesHigherTs(m)
  BY <1>5, MaxTsFacts DEF SeesHigherTs, LeaveSelect, higher_ts, TypeOK, logVars
<1>6. CASE AdvanceLog(m)
  <2>1. ASSUME NEW s \in Subs PROVE sub'[s] \in SubType
    <3>1. sub[s] \in SubType /\ next_ts[m] \in Timestamps
      BY Types
    <3>2. CASE Notified(m, s)
      <4> DEFINE ts == Earliest(Overlapping(log, sub[s].reads, processed_ts[m], next_ts[m]))
      <4>1. PICK watch \in {"invalid", "delayed"} :
              sub'[s] = [sub[s] EXCEPT !.phase = "done", !.valid_ts = None, !.watch = watch,
                                       !.invalid_ts = ts]
        BY <1>6, <3>2, AdvanceSub
      <4>2. ts \in Timestamps
        BY <3>2, NotifiedCause
      <4> HIDE DEF ts
      <4> QED
        BY <3>1, <4>1, <4>2 DEF SubType, SubPhases
    <3>3. CASE Advanced(m, s)
      <4>1. sub'[s] = [sub[s] EXCEPT !.valid_ts = next_ts[m]]
        BY <1>6, <3>3, AdvanceSub
      <4> QED
        BY <3>1, <4>1 DEF SubType
    <3> QED
      BY <1>6, <3>1, <3>2, <3>3, AdvanceSub
  <2>4. sub' \in [Subs -> SubType]
    BY <1>6, <2>1, AdvanceSub
  <2>5. subscribers' \in [Managers -> SUBSET KeyType]
    BY <1>6, Types DEF AdvanceLog
  <2>6. processed_ts' \in [Managers -> Timestamps] /\ next_ts' \in [Managers -> Timestamps]
    <3>1. 0 \in Timestamps
      BY DEF Timestamps
    <3> QED
      BY <1>6, <3>1, Types DEF AdvanceLog
  <2> QED
    BY <1>6, <2>4, <2>5, <2>6 DEF AdvanceLog, TypeOK, SubType, KeyType, logVars
<1>7. CASE UpdateProcessed(m)
  <2>1. pc' \in [Managers -> {"select", "waiting", "advance", "report", "trim"}]
    BY <1>7 DEF UpdateProcessed, TypeOK
  <2>2. processed_timestamps' \in [Managers -> Timestamps]
    BY <1>7, Types DEF UpdateProcessed
  <2> QED
    BY <1>7, <2>1, <2>2 DEF UpdateProcessed, TypeOK, logVars
<1>8. ASSUME NEW ts \in Timestamps, EnforceRetention(m, ts) PROVE TypeOK'
  BY <1>8 DEF EnforceRetention, TypeOK
<1> QED
  BY <1>1, <1>2, <1>3, <1>4, <1>5, <1>6, <1>7, <1>8 DEF ManagerStep

LEMMA NextType ==
  ASSUME TypeOK, [Next]_vars
  PROVE  TypeOK'
<1>1. ASSUME NEW keys \in SUBSET Keys, AppendWrite(keys) PROVE TypeOK'
  <2>1. [ts |-> max_ts + 1, keys |-> keys] \in Writes
    BY <1>1, MaxTsFacts DEF AppendWrite, Writes, Timestamps
  <2>2. writes' \in SUBSET Writes
    BY <1>1, <2>1, Types DEF AppendWrite
  <2>3. waiter' \in [Managers -> {"none", "registered", "notified"}]
    BY <1>1 DEF AppendWrite, notify_waiters, TypeOK
  <2> QED
    BY <1>1, <2>2, <2>3 DEF AppendWrite, TypeOK, Writes
<1>2. CASE PushSnapshot
  BY <1>2, MaxTsFacts DEF PushSnapshot, TypeOK, managerVars
<1>3. CASE Shutdown
  <2>1. \A s \in Subs : [sub[s] EXCEPT !.phase = "done", !.valid_ts = None, !.watch = "invalid"]
                          \in SubType
    <3>1. ASSUME NEW s \in Subs PROVE sub[s] \in SubType
      BY Types
    <3> QED
      BY <3>1 DEF SubType, SubPhases
  <2>2. sub' \in [Subs -> SubType]
    BY <1>3, <2>1, Types DEF Shutdown
  <2>3. queue' \in [Managers -> Seq(Subs)] /\ \A n \in Managers : Len(queue'[n]) <= QueueSize
    <3>1. queue' = [n \in Managers |-> <<>>]
      BY <1>3 DEF Shutdown
    <3> QED
      BY <3>1
  <2> QED
    BY <1>3, <2>2, <2>3 DEF Shutdown, TypeOK, SubType, logVars
<1>4. CASE UNCHANGED vars
  BY <1>4 DEF vars, TypeOK, logVars, managerVars
<1> QED
  BY <1>1, <1>2, <1>3, <1>4, ClientType, ManagerType DEF Next

-----------------------------------------------------------------------------
(* The log grows at its end and is trimmed at its beginning.               *)

LEMMA NoLogChange ==
  ASSUME writes' = writes, purged_ts' = purged_ts
  PROVE  max_ts' = max_ts /\ log' = log
BY DEF max_ts, log

LEMMA AppendStep ==
  ASSUME TypeOK, TypeOK', NEW keys, AppendWrite(keys)
  PROVE  max_ts' = max_ts + 1
<1>1. /\ purged_ts' = purged_ts
      /\ writes' = writes \cup {[ts |-> max_ts + 1, keys |-> keys]}
  BY DEF AppendWrite
<1> DEFINE w == [ts |-> max_ts + 1, keys |-> keys]
<1>2. w \in writes' /\ w.ts = max_ts + 1
  BY <1>1
<1>3. max_ts \in Timestamps /\ max_ts' \in Timestamps
  BY MaxTsFacts, MaxTsFactsNext
<1>4. max_ts + 1 <= max_ts'
  BY <1>2, MaxTsFactsNext
<1>5. \A v \in writes' : v.ts <= max_ts + 1
  BY <1>1, <1>2, <1>3, MaxTsFacts, Types DEF Timestamps, Writes
<1>6. purged_ts' <= max_ts
  BY <1>1, MaxTsFacts
<1> QED
  BY <1>3, <1>4, <1>5, <1>6, MaxTsFactsNext DEF Timestamps

LEMMA TrimStep ==
  ASSUME TypeOK, TypeOK', LogOrder, NEW m \in Managers, NEW ts \in Timestamps,
         EnforceRetention(m, ts)
  PROVE  max_ts' = max_ts /\ purged_ts <= ts
<1>1. purged_ts' = ts /\ writes' = writes
  BY DEF EnforceRetention
<1>2. CASE ts = purged_ts
  BY <1>1, <1>2, NoLogChange, Types DEF Timestamps
<1>3. CASE \E w \in log : w.ts = ts
  <2>1. purged_ts < ts /\ ts <= max_ts
    BY <1>3, MaxTsFacts DEF log
  <2> QED
    BY <1>1, <2>1, MaxTsFacts, MaxTsFactsNext, Types DEF Timestamps, Writes
<1> QED
  BY <1>2, <1>3 DEF EnforceRetention

LEMMA LogStep ==
  ASSUME TypeOK, TypeOK', LogOrder, [Next]_vars
  PROVE  /\ purged_ts <= purged_ts' /\ max_ts <= max_ts'
         /\ writes \subseteq writes'
         /\ \A w \in writes' \ writes : w.ts = max_ts + 1
<1>0. purged_ts \in Timestamps /\ max_ts \in Timestamps
  BY Types, MaxTsFacts
<1>1. ASSUME NEW keys, AppendWrite(keys)
      PROVE  /\ purged_ts <= purged_ts' /\ max_ts <= max_ts' /\ writes \subseteq writes'
             /\ \A w \in writes' \ writes : w.ts = max_ts + 1
  BY <1>0, <1>1, AppendStep DEF AppendWrite, Timestamps
<1>2. ASSUME NEW m \in Managers, NEW ts \in Timestamps, EnforceRetention(m, ts)
      PROVE  /\ purged_ts <= purged_ts' /\ max_ts <= max_ts' /\ writes \subseteq writes'
             /\ \A w \in writes' \ writes : w.ts = max_ts + 1
  <2>1. purged_ts' = ts /\ writes' = writes
    BY <1>2 DEF EnforceRetention
  <2>2. max_ts' = max_ts /\ purged_ts <= ts
    BY <1>2, TrimStep
  <2> QED
    BY <1>0, <2>1, <2>2 DEF Timestamps
<1>3. ASSUME writes' = writes, purged_ts' = purged_ts
      PROVE  /\ purged_ts <= purged_ts' /\ max_ts <= max_ts' /\ writes \subseteq writes'
             /\ \A w \in writes' \ writes : w.ts = max_ts + 1
  BY <1>0, <1>3, NoLogChange DEF Timestamps
<1>4. ASSUME ~(\E keys \in SUBSET Keys : AppendWrite(keys)),
             ~(\E m \in Managers, ts \in Timestamps : EnforceRetention(m, ts))
      PROVE  writes' = writes /\ purged_ts' = purged_ts
  <2>1. CASE PushSnapshot \/ Shutdown \/ UNCHANGED vars
    BY <2>1 DEF PushSnapshot, Shutdown, vars, logVars
  <2>2. ASSUME NEW s \in Subs,
               \/ \E reads \in SUBSET Keys : RunQuery(s, reads)
               \/ RefreshReads(s) \/ SubscribeInvalid(s)
               \/ \E m \in Managers : SendRequest(s, m) \/ SendFails(s, m)
               \/ DropSubscription(s)
               \/ \E new_ts \in 0..snapshot_ts : ExtendStart(s, new_ts)
               \/ ExtendFinish(s) \/ DeliverDelayed(s)
        PROVE  UNCHANGED logVars
    BY <2>2 DEF RunQuery, RefreshReads, SubscribeInvalid, SendRequest, SendFails,
         DropSubscription, ExtendStart, ExtendFinish, DeliverDelayed
  <2>3. ASSUME NEW m \in Managers, ManagerStep(m) PROVE UNCHANGED logVars
    BY <1>4, <2>3 DEF ManagerStep, Subscribe, SubscribeRefused, Remove, WaitForHigherTs,
         SeesHigherTs, AdvanceLog, UpdateProcessed
  <2> QED
    BY <1>4, <2>1, <2>2, <2>3 DEF Next, logVars
<1> QED
  BY <1>1, <1>2, <1>3, <1>4

\* What is clean up to the end of the log stays clean, whatever is appended.
LEMMA OverlapStable ==
  ASSUME TypeOK, TypeOK', LogOrder, [Next]_vars,
         NEW reads, NEW lo \in Timestamps, NEW hi \in Timestamps \cup {None}, hi <= max_ts
  PROVE  Overlapping(writes', reads, lo, hi) = Overlapping(writes, reads, lo, hi)
BY LogStep, MaxTsFacts, Types DEF Overlapping, Timestamps, None, Writes

LEMMA OrderStep ==
  ASSUME TypeOK, TypeOK', LogOrder, TrimOrder, [Next]_vars
  PROVE  LogOrder' /\ TrimOrder'
<1>0. /\ max_ts \in Timestamps /\ max_ts' \in Timestamps /\ max_ts <= max_ts'
      /\ purged_ts \in Timestamps /\ purged_ts' \in Timestamps
      /\ snapshot_ts \in Timestamps /\ snapshot_ts' \in Timestamps
      /\ processed_ts \in [Managers -> Timestamps] /\ next_ts \in [Managers -> Timestamps]
      /\ processed_timestamps \in [Managers -> Timestamps]
  BY MaxTsFacts, MaxTsFactsNext, LogStep DEF TypeOK
<1>1. ASSUME purged_ts' = purged_ts, snapshot_ts' <= max_ts',
             UNCHANGED <<pc, processed_ts, processed_timestamps, next_ts>>
      PROVE  LogOrder' /\ TrimOrder'
  BY <1>0, <1>1 DEF LogOrder, TrimOrder, Timestamps
<1>a. ASSUME UNCHANGED logVars, UNCHANGED <<processed_ts, processed_timestamps, next_ts>>,
             NEW m \in Managers, NEW to \in {"select", "waiting"}, pc' = [pc EXCEPT ![m] = to]
      PROVE  LogOrder' /\ TrimOrder'
  <2>1. \A n \in Managers : pc'[n] \in {"advance", "trim"} => pc'[n] = pc[n]
    BY <1>a DEF TypeOK
  <2> QED
    BY <1>0, <1>a, <2>1, NoLogChange DEF LogOrder, TrimOrder, Timestamps, logVars
<1>2. ASSUME NEW keys, AppendWrite(keys) PROVE LogOrder' /\ TrimOrder'
  BY <1>0, <1>1, <1>2 DEF AppendWrite, LogOrder, Timestamps
<1>3. CASE PushSnapshot
  BY <1>0, <1>1, <1>3, NoLogChange DEF PushSnapshot, managerVars, Timestamps
<1>4. CASE Shutdown \/ UNCHANGED vars
  BY <1>0, <1>1, <1>4, NoLogChange DEF Shutdown, vars, logVars, managerVars, LogOrder, Timestamps
<1>5. ASSUME NEW s \in Subs,
             \/ \E reads \in SUBSET Keys : RunQuery(s, reads)
             \/ RefreshReads(s) \/ SubscribeInvalid(s)
             \/ \E m \in Managers : SendRequest(s, m) \/ SendFails(s, m)
             \/ DropSubscription(s)
             \/ \E new_ts \in 0..snapshot_ts : ExtendStart(s, new_ts)
             \/ ExtendFinish(s) \/ DeliverDelayed(s)
      PROVE  LogOrder' /\ TrimOrder'
  <2>1. UNCHANGED <<logVars, pc, processed_ts, processed_timestamps, next_ts>>
    BY <1>5 DEF RunQuery, RefreshReads, SubscribeInvalid, SendRequest, SendFails,
         DropSubscription, ExtendStart, ExtendFinish, DeliverDelayed, managerVars
  <2> QED
    BY <1>1, <2>1, <1>0, NoLogChange DEF logVars, LogOrder, Timestamps
<1>6. ASSUME NEW m \in Managers,
             \/ \E slot \in Slots : Subscribe(m, slot)
             \/ SubscribeRefused(m)
             \/ \E key \in closed_subscriptions[m] : Remove(m, key)
             \/ WaitForHigherTs(m)
      PROVE  LogOrder' /\ TrimOrder'
  <2>1. /\ UNCHANGED logVars /\ UNCHANGED <<processed_ts, processed_timestamps, next_ts>>
        /\ \E to \in {"select", "waiting"} : pc' = [pc EXCEPT ![m] = to]
    BY <1>6 DEF Subscribe, SubscribeRefused, Remove, WaitForHigherTs, LeaveSelect
  <2> QED
    BY <1>a, <2>1
<1>7. ASSUME NEW m \in Managers, SeesHigherTs(m) PROVE LogOrder' /\ TrimOrder'
  <2>1. /\ UNCHANGED logVars /\ UNCHANGED <<processed_ts, processed_timestamps>>
        /\ pc' = [pc EXCEPT ![m] = "advance"] /\ next_ts' = [next_ts EXCEPT ![m] = max_ts]
    BY <1>7 DEF SeesHigherTs, LeaveSelect, higher_ts
  <2>2. \A n \in Managers :
          /\ pc'[n] = "trim" => pc[n] = "trim"
          /\ pc'[n] = "advance" => n = m \/ pc[n] = "advance"
          /\ next_ts'[n] = IF n = m THEN max_ts ELSE next_ts[n]
    BY <1>0, <2>1 DEF TypeOK
  <2>3. max_ts' = max_ts
    BY <2>1, NoLogChange DEF logVars
  <2>4. LogOrder'
    BY <1>0, <2>1, <2>2, <2>3 DEF LogOrder, Timestamps, logVars
  <2>5. TrimOrder'
    BY <2>1, <2>2 DEF TrimOrder, logVars
  <2> QED
    BY <2>4, <2>5
<1>8. ASSUME NEW m \in Managers, AdvanceLog(m) PROVE LogOrder' /\ TrimOrder'
  <2>1. /\ UNCHANGED logVars /\ UNCHANGED processed_timestamps /\ pc[m] = "advance"
        /\ pc' = [pc EXCEPT ![m] = "report"] /\ next_ts' = [next_ts EXCEPT ![m] = 0]
        /\ processed_ts' = [processed_ts EXCEPT ![m] = next_ts[m]]
    BY <1>8 DEF AdvanceLog
  <2>2. \A n \in Managers :
          /\ pc'[n] \in {"advance", "trim"} => n # m /\ pc'[n] = pc[n]
          /\ next_ts'[n] = IF n = m THEN 0 ELSE next_ts[n]
          /\ processed_ts'[n] = IF n = m THEN next_ts[m] ELSE processed_ts[n]
    BY <1>0, <2>1 DEF TypeOK
  <2>3. max_ts' = max_ts
    BY <2>1, NoLogChange DEF logVars
  <2>4. LogOrder'
    BY <1>0, <2>1, <2>2, <2>3 DEF LogOrder, Timestamps, logVars
  <2>5. TrimOrder'
    BY <1>0, <2>1, <2>2 DEF TrimOrder, logVars
  <2> QED
    BY <2>4, <2>5
<1>9. ASSUME NEW m \in Managers, UpdateProcessed(m) PROVE LogOrder' /\ TrimOrder'
  <2>1. /\ UNCHANGED logVars /\ UNCHANGED <<processed_ts, next_ts>>
        /\ processed_timestamps' = [processed_timestamps EXCEPT ![m] = processed_ts[m]]
    BY <1>9 DEF UpdateProcessed
  <2>2. \A n \in Managers :
          /\ pc'[n] = "advance" => pc[n] = "advance"
          /\ pc'[n] = "trim" =>
               \/ pc[n] = "trim"
               \/ n = m /\ \A k \in Managers : processed_ts[m] <= processed_timestamps'[k]
    BY <1>9 DEF UpdateProcessed, TypeOK
  <2> QED
    BY <1>0, <2>1, <2>2, NoLogChange DEF LogOrder, TrimOrder, Timestamps, logVars
<1>10. ASSUME NEW m \in Managers, NEW ts \in Timestamps, EnforceRetention(m, ts)
       PROVE  LogOrder' /\ TrimOrder'
  <2>1. /\ purged_ts' = ts /\ pc[m] = "trim" /\ (ts = purged_ts \/ ts < processed_ts[m])
        /\ UNCHANGED <<snapshot_ts, processed_ts, processed_timestamps, next_ts>>
        /\ pc' = [pc EXCEPT ![m] = "select"]
    BY <1>0, <1>10 DEF EnforceRetention, Timestamps
  <2>2. \A n \in Managers : pc'[n] \in {"advance", "trim"} => pc'[n] = pc[n]
    BY <2>1 DEF TypeOK
  <2> QED
    BY <1>0, <1>10, <2>1, <2>2, TrimStep DEF LogOrder, TrimOrder, Timestamps
<1> QED
  BY <1>2, <1>3, <1>4, <1>5, <1>6, <1>7, <1>8, <1>9, <1>10 DEF Next, ManagerStep

-----------------------------------------------------------------------------
(* The ways a step may change one subscription.                            *)

SameQuery(t) == sub'[t].reads = sub[t].reads /\ sub'[t].begin = sub[t].begin

SameValidity(t) ==
  sub'[t].valid_ts = sub[t].valid_ts /\ sub'[t].invalid_ts = sub[t].invalid_ts

Keeps(t) ==
  /\ SameQuery(t) /\ SameValidity(t) /\ sub'[t].token = sub[t].token
  /\ sub'[t].phase = sub[t].phase /\ sub'[t].held \in {sub[t].held, FALSE}

Queries(t) ==
  /\ sub[t].phase = "idle" /\ sub'[t].phase = "queried" /\ sub'[t].begin = snapshot_ts
  /\ SameValidity(t) /\ sub'[t].held = sub[t].held /\ extend'[t] = extend[t]

Refreshed(t) ==
  /\ sub[t].phase = "queried" /\ sub'[t].phase = "refreshed" /\ SameQuery(t)
  /\ Refreshes(sub[t].reads, sub[t].begin, max_ts)
  /\ sub'[t].valid_ts = max_ts /\ sub'[t].token = max_ts

Sent(t) ==
  /\ sub[t].phase = "refreshed" /\ sub'[t].phase = "queued"
  /\ SameQuery(t) /\ SameValidity(t) /\ sub'[t].token = sub[t].token
  /\ sub'[t].held = sub[t].held

Registered(t) ==
  /\ sub[t].phase = "queued" /\ sub'[t].phase = "registered"
  /\ SameQuery(t) /\ SameValidity(t) /\ sub'[t].held = sub[t].held

\* It ends, for a cause that the client is told.
Conflicts(t) ==
  /\ sub[t].phase \in {"queried", "queued", "registered"} /\ sub'[t].phase = "done"
  /\ SameQuery(t) /\ sub'[t].valid_ts = None
  /\ \/ \E w \in writes : w.ts = sub'[t].invalid_ts /\ w.keys \cap sub[t].reads # {}
     \/ sub[t].begin < purged_ts

\* Its manager has compared it with more of the log.
Advances(t) ==
  /\ sub[t].phase = "registered" /\ sub'[t].phase = "registered"
  /\ SameQuery(t) /\ sub'[t].valid_ts \in Timestamps /\ sub'[t].held = sub[t].held
  /\ sub[t].valid_ts <= sub'[t].valid_ts /\ sub'[t].valid_ts <= max_ts
  /\ Clean(t, sub'[t].valid_ts)

ShutDown(t) ==
  /\ sub[t].phase \in {"queued", "registered"} /\ sub'[t].phase = "done"
  /\ SameQuery(t) /\ sub'[t].valid_ts = None /\ stopped'

SubEdge(t) ==
  \/ Keeps(t) \/ Queries(t) \/ Refreshed(t) \/ Sent(t) \/ Registered(t)
  \/ Conflicts(t) \/ Advances(t) \/ ShutDown(t)
  \/ sub[t].phase \notin {"idle", "queried"} /\ sub'[t] = Gone

LEMMA SameKeeps ==
  ASSUME NEW t, sub'[t] = sub[t]
  PROVE  Keeps(t)
BY DEF Keeps, SameQuery, SameValidity

\* A step of one subscription.
LEMMA OneEdge ==
  ASSUME TypeOK, NEW s \in Subs, NEW new, sub' = [sub EXCEPT ![s] = new]
  PROVE  sub'[s] = new /\ \A t \in Subs \ {s} : Keeps(t)
BY SameKeeps DEF TypeOK

LEMMA ClientEdge ==
  ASSUME TypeOK, SubPhaseInv, NEW s \in Subs,
         \/ \E reads \in SUBSET Keys : RunQuery(s, reads)
         \/ RefreshReads(s) \/ SubscribeInvalid(s)
         \/ \E m \in Managers : SendRequest(s, m) \/ SendFails(s, m)
         \/ DropSubscription(s)
         \/ \E new_ts \in 0..snapshot_ts : ExtendStart(s, new_ts)
         \/ ExtendFinish(s) \/ DeliverDelayed(s)
  PROVE  \A t \in Subs : SubEdge(t)
<1>0. sub[s] \in SubType /\ sub \in [Subs -> SubType]
  BY Types
<1>s. ASSUME sub' = sub PROVE \A t \in Subs : SubEdge(t)
  BY <1>s, SameKeeps DEF SubEdge
<1>1. ASSUME NEW reads \in SUBSET Keys, RunQuery(s, reads) PROVE \A t \in Subs : SubEdge(t)
  <2>1. /\ sub[s].phase = "idle" /\ extend' = extend
        /\ sub' = [sub EXCEPT ![s] = [sub[s] EXCEPT !.phase = "queried", !.reads = reads,
                                                   !.begin = snapshot_ts]]
    BY <1>1, <1>0 DEF RunQuery
  <2>2. Queries(s)
    BY <1>0, <2>1, OneEdge DEF Queries, SameValidity, SubType
  <2> QED
    BY <2>1, <2>2, OneEdge DEF SubEdge
<1>2. CASE RefreshReads(s)
  <2>1. /\ sub[s].phase = "queried" /\ Refreshes(sub[s].reads, sub[s].begin, max_ts)
        /\ sub' = [sub EXCEPT ![s] = [sub[s] EXCEPT !.phase = "refreshed", !.token = max_ts,
                                        !.valid_ts = max_ts, !.held = TRUE]]
    BY <1>2, <1>0 DEF RefreshReads
  <2>2. Refreshed(s)
    BY <1>0, <2>1, OneEdge DEF Refreshed, SameQuery, SubType
  <2> QED
    BY <2>1, <2>2, OneEdge DEF SubEdge
<1>3. CASE SubscribeInvalid(s)
  <2> DEFINE ts == ConflictTs(sub[s].reads, sub[s].begin, max_ts)
  <2>1. /\ sub[s].phase = "queried" /\ ~Refreshes(sub[s].reads, sub[s].begin, max_ts)
        /\ sub' = [sub EXCEPT ![s] = [sub[s] EXCEPT !.phase = "done", !.held = TRUE,
                                        !.watch = "invalid", !.invalid_ts = ts]]
    BY <1>3, <1>0 DEF SubscribeInvalid
  <2>2. \/ sub[s].begin < purged_ts
        \/ \E w \in writes : w.ts = ts /\ w.keys \cap sub[s].reads # {}
    BY <2>1, ConflictType
  <2>3. sub[s].valid_ts = None
    BY <2>1 DEF SubPhaseInv
  <2> HIDE DEF ts
  <2>4. /\ sub'[s].phase = "done" /\ SameQuery(s) /\ sub'[s].valid_ts = None
        /\ sub'[s].invalid_ts = ts
    BY <1>0, <2>1, <2>3, OneEdge DEF SameQuery, SubType
  <2>5. Conflicts(s)
    BY <2>1, <2>2, <2>4 DEF Conflicts
  <2> QED
    BY <2>1, <2>5, OneEdge DEF SubEdge
<1>4. ASSUME NEW m \in Managers, SendRequest(s, m) PROVE \A t \in Subs : SubEdge(t)
  <2>1. sub[s].phase = "refreshed" /\ sub' = [sub EXCEPT ![s] = [sub[s] EXCEPT !.phase = "queued"]]
    BY <1>4, <1>0 DEF SendRequest
  <2>2. Sent(s)
    BY <1>0, <2>1, OneEdge DEF Sent, SameQuery, SameValidity, SubType
  <2> QED
    BY <2>1, <2>2, OneEdge DEF SubEdge
<1>5. ASSUME NEW m \in Managers, SendFails(s, m) PROVE \A t \in Subs : SubEdge(t)
  <2>1. sub[s].phase = "refreshed" /\ sub' = [sub EXCEPT ![s] = Gone]
    BY <1>5 DEF SendFails
  <2> QED
    BY <2>1, OneEdge DEF SubEdge
<1>6. CASE DropSubscription(s)
  <2>1. CASE sub[s].phase = "done"
    <3>1. sub' = [sub EXCEPT ![s] = Gone]
      BY <1>6, <2>1 DEF DropSubscription
    <3> QED
      BY <2>1, <3>1, OneEdge DEF SubEdge
  <2>2. CASE sub[s].phase # "done"
    <3>1. sub' = [sub EXCEPT ![s] = [sub[s] EXCEPT !.held = FALSE]]
      BY <1>6, <2>2 DEF DropSubscription
    <3>2. Keeps(s)
      BY <1>0, <3>1, OneEdge DEF Keeps, SameQuery, SameValidity, SubType
    <3> QED
      BY <3>1, <3>2, OneEdge DEF SubEdge
  <2> QED
    BY <2>1, <2>2
<1>7. CASE (\E new_ts \in 0..snapshot_ts : ExtendStart(s, new_ts)) \/ ExtendFinish(s)
  BY <1>7, <1>s DEF ExtendStart, ExtendFinish
<1>8. CASE DeliverDelayed(s)
  <2>1. sub' = [sub EXCEPT ![s] = [sub[s] EXCEPT !.watch = "invalid"]]
    BY <1>8, <1>0 DEF DeliverDelayed
  <2>2. Keeps(s)
    BY <1>0, <2>1, OneEdge DEF Keeps, SameQuery, SameValidity, SubType
  <2> QED
    BY <2>1, <2>2, OneEdge DEF SubEdge
<1> QED
  BY <1>1, <1>2, <1>3, <1>4, <1>5, <1>6, <1>7, <1>8

\* The head of a manager's channel is queued, with a token at its validity.
LEMMA HeadQueued ==
  ASSUME TypeOK, QueueInv, NEW m \in Managers, queue[m] # <<>>
  PROVE  /\ Head(queue[m]) \in Subs /\ Head(queue[m]) = queue[m][1]
         /\ 1 \in 1..Len(queue[m]) /\ sub[Head(queue[m])].phase = "queued"
<1>1. queue[m] \in Seq(Subs)
  BY Types
<1>2. Head(queue[m]) \in Subs /\ Head(queue[m]) = queue[m][1] /\ 1 \in 1..Len(queue[m])
  BY <1>1
<1> QED
  BY <1>2 DEF QueueInv

\* get_subscriber finds the key's own subscriber or none: a later one in the
\* slot has a higher number.
LEMMA RemovesOwn ==
  ASSUME TypeOK, SlabInv, SlotInv, NEW m \in Managers, NEW key \in closed_subscriptions[m]
  PROVE  get_subscriber(m, key) \subseteq {key}
<1>1. ASSUME NEW k \in get_subscriber(m, key) PROVE k = key
  <2>1. k \in subscribers[m] /\ k.slot = key.slot /\ k.seq <= key.seq
    BY DEF get_subscriber
  <2>2. k \in KeyType /\ key \in KeyType
    BY <2>1, Types
  <2> QED
    BY <2>1, <2>2 DEF SlotInv, KeyType
<1> QED
  BY <1>1

\* A subscriber that advance_log leaves in place is clean to next_ts.
LEMMA AdvancedClean ==
  ASSUME TypeOK, LogOrder, TrimOrder, SubscriberInv, NEW m \in Managers, NEW s \in Subs,
         pc[m] = "advance", Advanced(m, s)
  PROVE  /\ Clean(s, next_ts[m]) /\ sub[s].valid_ts <= next_ts[m]
         /\ next_ts[m] \in Timestamps /\ next_ts[m] <= max_ts
<1>0. PICK k \in subscribers[m] : k \notin to_notify(m) /\ k.sub = s
  BY DEF Advanced
<1>1. Overlapping(log, sub[s].reads, processed_ts[m], next_ts[m]) = {}
  BY <1>0 DEF to_notify
<1>2. Clean(s, processed_ts[m]) /\ sub[s].valid_ts <= next_ts[m]
  BY <1>0 DEF SubscriberInv
<1>3. /\ purged_ts <= processed_ts[m] /\ purged_ts \in Timestamps
      /\ processed_ts[m] \in Timestamps /\ next_ts[m] \in Timestamps
      /\ sub[s].begin \in Timestamps /\ writes \in SUBSET Writes
  BY Types DEF TrimOrder, LogOrder, Timestamps, SubType
<1>4. Clean(s, next_ts[m])
  BY <1>1, <1>2, <1>3, OverlapJoin DEF Clean, log
<1> QED
  BY <1>2, <1>3, <1>4 DEF LogOrder

LEMMA ManagerEdge ==
  ASSUME TypeOK, LogOrder, TrimOrder, SubPhaseInv, QueueInv, SlabInv, SlotInv, SubscriberInv,
         NEW m \in Managers, ManagerStep(m)
  PROVE  \A t \in Subs : SubEdge(t)
<1>0. sub \in [Subs -> SubType]
  BY Types
<1>s. ASSUME sub' = sub PROVE \A t \in Subs : SubEdge(t)
  BY <1>s, SameKeeps DEF SubEdge
<1>1. ASSUME NEW slot \in Slots, Subscribe(m, slot) PROVE \A t \in Subs : SubEdge(t)
  <2> DEFINE s == Head(queue[m])
  <2>1. s \in Subs /\ sub[s].phase = "queued" /\ sub[s] \in SubType
    BY <1>0, <1>1, HeadQueued DEF Subscribe
  <2>2. sub' = [sub EXCEPT ![s].phase = "registered", ![s].token = 0]
    BY <1>1 DEF Subscribe
  <2> HIDE DEF s
  <2>3. sub' = [sub EXCEPT ![s] = [sub[s] EXCEPT !.phase = "registered", !.token = 0]]
    BY <1>0, <2>1, <2>2
  <2>a. sub'[s] = [sub[s] EXCEPT !.phase = "registered", !.token = 0]
    BY <2>1, <2>3, OneEdge
  <2>4. Registered(s)
    BY <2>1, <2>a DEF Registered, SameQuery, SameValidity, SubType
  <2> QED
    BY <2>1, <2>3, <2>4, OneEdge DEF SubEdge
<1>2. CASE SubscribeRefused(m)
  <2> DEFINE s == Head(queue[m])
             ts == ConflictTs(sub[s].reads, sub[s].token, processed_ts[m])
  <2>1. s \in Subs /\ sub[s].phase = "queued" /\ sub[s] \in SubType
    BY <1>0, <1>2, HeadQueued DEF SubscribeRefused
  <2>2. /\ sub' = [sub EXCEPT ![s].phase = "done", ![s].valid_ts = None,
                              ![s].watch = "invalid", ![s].invalid_ts = ts]
        /\ ~Refreshes(sub[s].reads, sub[s].token, processed_ts[m])
    BY <1>2 DEF SubscribeRefused
  <2>3. \/ sub[s].token < purged_ts
        \/ \E w \in writes : w.ts = ts /\ w.keys \cap sub[s].reads # {}
    BY <2>2, ConflictType
  <2>4. sub[s].token < purged_ts => sub[s].begin < purged_ts
    BY <2>1, Types DEF SubPhaseInv, SubType, Timestamps
  <2> HIDE DEF s, ts
  <2>5. sub' = [sub EXCEPT ![s] = [sub[s] EXCEPT !.phase = "done", !.valid_ts = None,
                                     !.watch = "invalid", !.invalid_ts = ts]]
    BY <1>0, <2>1, <2>2
  <2>a. sub'[s] = [sub[s] EXCEPT !.phase = "done", !.valid_ts = None,
                                 !.watch = "invalid", !.invalid_ts = ts]
    BY <2>1, <2>5, OneEdge
  <2>6. /\ sub'[s].phase = "done" /\ SameQuery(s) /\ sub'[s].valid_ts = None
        /\ sub'[s].invalid_ts = ts
    BY <2>1, <2>a DEF SameQuery, SubType
  <2>7. Conflicts(s)
    BY <2>1, <2>3, <2>4, <2>6 DEF Conflicts
  <2> QED
    BY <2>1, <2>5, <2>7, OneEdge DEF SubEdge
<1>3. ASSUME NEW key \in closed_subscriptions[m], Remove(m, key)
      PROVE  \A t \in Subs : SubEdge(t)
  <2> DEFINE removed == get_subscriber(m, key)
  <2>1. /\ ~sub[key.sub].held
        /\ sub' = [s \in Subs |->
               IF ~\E k \in removed : k.sub = s THEN sub[s]
               ELSE IF ~sub[s].held THEN Gone
               ELSE [sub[s] EXCEPT !.phase = "done", !.valid_ts = None, !.watch = "invalid"]]
    BY <1>3 DEF Remove
  <2>2. removed \subseteq {key} /\ removed \subseteq subscribers[m]
    BY RemovesOwn DEF get_subscriber
  <2>3. ASSUME NEW t \in Subs, \E k \in removed : k.sub = t
        PROVE  sub[t].phase = "registered" /\ ~sub[t].held
    BY <2>1, <2>2, <2>3 DEF SlabInv
  <2> HIDE DEF removed
  <2>4. ASSUME NEW t \in Subs PROVE SubEdge(t)
    <3>1. CASE \E k \in removed : k.sub = t
      <4>1. sub'[t] = Gone
        BY <2>1, <2>3, <3>1
      <4> QED
        BY <2>3, <3>1, <4>1 DEF SubEdge
    <3>2. CASE ~\E k \in removed : k.sub = t
      <4>1. sub'[t] = sub[t]
        BY <2>1, <2>3, <3>2
      <4> QED
        BY <4>1, SameKeeps DEF SubEdge
    <3> QED
      BY <3>1, <3>2
  <2> QED
    BY <2>4
<1>4. CASE WaitForHigherTs(m) \/ SeesHigherTs(m) \/ UpdateProcessed(m)
           \/ \E ts \in Timestamps : EnforceRetention(m, ts)
  BY <1>4, <1>s DEF WaitForHigherTs, SeesHigherTs, UpdateProcessed, EnforceRetention
<1>5. CASE AdvanceLog(m)
  <2>0. pc[m] = "advance"
    BY <1>5 DEF AdvanceLog
  <2>1. ASSUME NEW t \in Subs PROVE SubEdge(t)
    <3>0. sub[t] \in SubType
      BY <1>0
    <3>1. CASE Notified(m, t)
      <4> DEFINE ts == Earliest(Overlapping(log, sub[t].reads, processed_ts[m], next_ts[m]))
      <4>1. PICK watch \in {"invalid", "delayed"} :
              sub'[t] = [sub[t] EXCEPT !.phase = "done", !.valid_ts = None, !.watch = watch,
                                       !.invalid_ts = ts]
        BY <1>5, <3>1, AdvanceSub
      <4>2. \E w \in writes : w.ts = ts /\ w.keys \cap sub[t].reads # {}
        BY <3>1, NotifiedCause
      <4>3. sub[t].phase = "registered"
        BY <3>1 DEF Notified, to_notify, SlabInv
      <4> HIDE DEF ts
      <4>4. /\ sub'[t].phase = "done" /\ SameQuery(t) /\ sub'[t].valid_ts = None
            /\ sub'[t].invalid_ts = ts
        BY <3>0, <4>1 DEF SameQuery, SubType
      <4>5. Conflicts(t)
        BY <4>2, <4>3, <4>4 DEF Conflicts
      <4> QED
        BY <4>5 DEF SubEdge
    <3>2. CASE Advanced(m, t)
      <4>1. sub'[t] = [sub[t] EXCEPT !.valid_ts = next_ts[m]]
        BY <1>5, <3>2, AdvanceSub
      <4>2. sub[t].phase = "registered"
        BY <3>2 DEF Advanced, SlabInv
      <4>3. /\ sub'[t].phase = sub[t].phase /\ SameQuery(t) /\ sub'[t].valid_ts = next_ts[m]
            /\ sub'[t].held = sub[t].held
        BY <3>0, <4>1 DEF SameQuery, SubType
      <4>4. Advances(t)
        BY <2>0, <3>2, <4>2, <4>3, AdvancedClean DEF Advances
      <4> QED
        BY <4>4 DEF SubEdge
    <3>3. CASE ~Notified(m, t) /\ ~Advanced(m, t)
      <4>1. sub'[t] = sub[t]
        BY <1>5, <3>3, AdvanceSub
      <4> QED
        BY <4>1, SameKeeps DEF SubEdge
    <3> QED
      BY <3>1, <3>2, <3>3
  <2> QED
    BY <2>1
<1> QED
  BY <1>1, <1>2, <1>3, <1>4, <1>5 DEF ManagerStep

LEMMA NextEdge ==
  ASSUME TypeOK, LogOrder, TrimOrder, SubPhaseInv, QueueInv, SlabInv, SlotInv, SubscriberInv,
         [Next]_vars
  PROVE  \A t \in Subs : SubEdge(t)
<1>1. ASSUME sub' = sub PROVE \A t \in Subs : SubEdge(t)
  BY <1>1, SameKeeps DEF SubEdge
<1>2. CASE Shutdown
  <2>1. ASSUME NEW t \in Subs PROVE SubEdge(t)
    <3>0. sub[t] \in SubType /\ stopped'
      BY <1>2, Types DEF Shutdown
    <3>1. CASE sub[t].phase \in {"queued", "registered"}
      <4>1. sub'[t] = [sub[t] EXCEPT !.phase = "done", !.valid_ts = None, !.watch = "invalid"]
        BY <1>2, <3>1 DEF Shutdown
      <4>2. ShutDown(t)
        BY <3>0, <3>1, <4>1 DEF ShutDown, SameQuery, SubType
      <4> QED
        BY <4>2 DEF SubEdge
    <3>2. CASE sub[t].phase \notin {"queued", "registered"}
      <4>1. sub'[t] = sub[t]
        BY <1>2, <3>2 DEF Shutdown
      <4> QED
        BY <4>1, SameKeeps DEF SubEdge
    <3> QED
      BY <3>1, <3>2
  <2> QED
    BY <2>1
<1>3. CASE (\E keys \in SUBSET Keys : AppendWrite(keys)) \/ PushSnapshot \/ UNCHANGED vars
  BY <1>1, <1>3 DEF AppendWrite, PushSnapshot, vars
<1> QED
  BY <1>2, <1>3, ClientEdge, ManagerEdge DEF Next

-----------------------------------------------------------------------------
(* What those changes preserve.                                            *)

\* What a query has not missed it does not miss later.
LEMMA CleanStable ==
  ASSUME TypeOK, TypeOK', LogOrder, [Next]_vars, NEW t \in Subs, SameQuery(t),
         NEW ts \in Timestamps \cup {None}, ts <= max_ts, Clean(t, ts)
  PROVE  Overlapping(writes', sub'[t].reads, sub'[t].begin, ts) = {}
<1>1. sub[t].begin \in Timestamps
  BY Types DEF SubType
<1> QED
  BY <1>1, OverlapStable DEF SameQuery, Clean

\* refresh_token compares the reads with everything after the query.
LEMMA RefreshClean ==
  ASSUME TypeOK, NEW t \in Subs, NEW from \in Timestamps, NEW to \in Timestamps,
         Clean(t, from), Refreshes(sub[t].reads, from, to)
  PROVE  Clean(t, to)
<1>1. /\ sub[t].begin \in Timestamps /\ writes \in SUBSET Writes
      /\ purged_ts \in Timestamps
  BY Types DEF SubType
<1>2. purged_ts <= from
  BY <1>1 DEF Refreshes, OutOfRetention, Timestamps
<1> QED
  BY <1>1, <1>2, OverlapJoin DEF Refreshes, log, Clean

LEMMA CleanAtBegin ==
  ASSUME TypeOK, NEW t \in Subs
  PROVE  Clean(t, sub[t].begin)
<1>1. sub[t].begin \in Timestamps /\ writes \in SUBSET Writes
  BY Types DEF SubType
<1> QED
  BY <1>1 DEF Clean, Overlapping, Writes, Timestamps

LEMMA ValidityStep ==
  ASSUME TypeOK, TypeOK', LogOrder, SubPhaseInv, ValiditySound, [Next]_vars,
         \A t \in Subs : SubEdge(t)
  PROVE  ValiditySound'
<1> SUFFICES ASSUME NEW t \in Subs, sub'[t].valid_ts # None
             PROVE  Overlapping(writes', sub'[t].reads, sub'[t].begin, sub'[t].valid_ts) = {}
  BY DEF ValiditySound
<1>0. /\ sub[t].valid_ts \in Timestamps \cup {None} /\ sub[t].valid_ts <= max_ts
      /\ max_ts \in Timestamps
  BY Types, MaxTsFacts DEF SubType, SubPhaseInv
<1>1. CASE SameQuery(t) /\ SameValidity(t)
  <2>1. Clean(t, sub[t].valid_ts)
    BY <1>1 DEF ValiditySound, SameValidity, Clean
  <2>2. Overlapping(writes', sub'[t].reads, sub'[t].begin, sub[t].valid_ts) = {}
    BY <1>0, <1>1, <2>1, CleanStable
  <2> QED
    BY <1>1, <2>2 DEF SameValidity
<1>2. CASE Queries(t)
  BY <1>2 DEF Queries, SameValidity, SubPhaseInv
<1>3. CASE Refreshed(t)
  <2>1. sub[t].begin \in Timestamps /\ sub'[t].valid_ts = max_ts /\ SameQuery(t)
    BY <1>3, Types DEF SubType, Refreshed
  <2>2. Clean(t, max_ts)
    BY <1>0, <1>3, <2>1, CleanAtBegin, RefreshClean DEF Refreshed
  <2>3. Overlapping(writes', sub'[t].reads, sub'[t].begin, max_ts) = {}
    BY <1>0, <2>1, <2>2, CleanStable DEF Timestamps
  <2> QED
    BY <2>1, <2>3
<1>4. CASE Advances(t)
  <2>1. /\ sub'[t].valid_ts \in Timestamps /\ sub'[t].valid_ts <= max_ts
        /\ SameQuery(t) /\ Clean(t, sub'[t].valid_ts)
    BY <1>4 DEF Advances
  <2> QED
    BY <2>1, CleanStable
<1>5. CASE sub'[t] = Gone
  BY <1>5 DEF Gone
<1> QED
  BY <1>1, <1>2, <1>3, <1>4, <1>5
     DEF SubEdge, Keeps, Sent, Registered, Conflicts, ShutDown

\* A write or a trim that was a cause remains one.
LEMMA CauseStep ==
  ASSUME TypeOK, TypeOK', LogOrder, SubPhaseInv, InvalidatedForCause, [Next]_vars,
         \A t \in Subs : SubEdge(t)
  PROVE  InvalidatedForCause'
<1> DEFINE Cause(t) == \/ \E w \in writes : w.ts = sub[t].invalid_ts
                                              /\ w.keys \cap sub[t].reads # {}
                       \/ sub[t].begin < purged_ts
<1> SUFFICES ASSUME NEW t \in Subs, sub'[t].held, sub'[t].valid_ts = None, ~stopped'
             PROVE  \/ \E w \in writes' : w.ts = sub'[t].invalid_ts
                                            /\ w.keys \cap sub'[t].reads # {}
                    \/ sub'[t].begin < purged_ts'
  BY DEF InvalidatedForCause
<1>0. /\ writes \subseteq writes' /\ purged_ts <= purged_ts' /\ purged_ts \in Timestamps
      /\ purged_ts' \in Timestamps /\ sub[t].begin \in Timestamps /\ max_ts \in Timestamps
      /\ sub[t].held \in BOOLEAN
  BY LogStep, Types, MaxTsFacts DEF TypeOK, SubType
<1>1. ~stopped
  BY DEF Next, vars, managerVars, AppendWrite, PushSnapshot, RunQuery, RefreshReads,
     SubscribeInvalid, SendRequest, SendFails, DropSubscription, ExtendStart, ExtendFinish,
     DeliverDelayed, ManagerStep, Subscribe, SubscribeRefused, Remove, WaitForHigherTs,
     SeesHigherTs, AdvanceLog, UpdateProcessed, EnforceRetention, Shutdown
<1>2. CASE /\ SameQuery(t) /\ SameValidity(t) /\ sub'[t].held \in {sub[t].held, FALSE}
  <2>1. Cause(t)
    BY <1>1, <1>2 DEF InvalidatedForCause, SameValidity
  <2> QED
    BY <1>0, <1>2, <2>1 DEF SameQuery, SameValidity, Timestamps
<1>3. CASE Queries(t)
  BY <1>3 DEF Queries, SubPhaseInv
<1>4. CASE Refreshed(t) \/ Advances(t)
  BY <1>0, <1>4 DEF Refreshed, Advances, Timestamps, None
<1>5. CASE Conflicts(t)
  BY <1>0, <1>5 DEF Conflicts, SameQuery, Timestamps
<1>6. CASE ShutDown(t)
  BY <1>6 DEF ShutDown
<1>7. CASE sub'[t] = Gone
  BY <1>7 DEF Gone
<1> QED
  BY <1>2, <1>3, <1>4, <1>5, <1>6, <1>7 DEF SubEdge, Keeps, Sent, Registered

\* The ways a step may change an extend_validity call.
Starts(t) ==
  /\ sub[t].held /\ sub'[t] = sub[t] /\ extend'[t].phase = "reading"
  /\ sub[t].valid_ts # None /\ extend'[t].current_ts = sub[t].valid_ts
  /\ sub[t].begin <= extend'[t].new_ts /\ extend'[t].new_ts <= snapshot_ts

Answers(t) ==
  /\ extend[t].phase = "reading" /\ sub'[t] = sub[t] /\ extend'[t].phase = "valid"
  /\ extend'[t].new_ts = extend[t].new_ts
  /\ \/ extend[t].current_ts = extend[t].new_ts
     \/ Refreshes(sub[t].reads, extend[t].current_ts, extend[t].new_ts)

Rejects(t) ==
  /\ extend'[t].phase = "invalid" /\ sub'[t] = sub[t]
  /\ sub[t].held \/ extend[t].phase = "reading"

ExtendEdge(t) ==
  \/ extend'[t] = extend[t] \/ extend'[t].phase = "none"
  \/ Starts(t) \/ Answers(t) \/ Rejects(t)

LEMMA NextExtend ==
  ASSUME TypeOK, [Next]_vars
  PROVE  \A t \in Subs : ExtendEdge(t)
<1>0. extend \in [Subs -> ExtendType] /\ snapshot_ts \in Timestamps
  BY Types
<1>1. ASSUME extend' = extend PROVE \A t \in Subs : ExtendEdge(t)
  BY <1>1 DEF ExtendEdge
<1>o. ASSUME NEW s \in Subs, NEW e, extend' = [extend EXCEPT ![s] = e]
      PROVE  extend'[s] = e /\ \A t \in Subs \ {s} : ExtendEdge(t)
  BY <1>0, <1>o DEF ExtendEdge
<1>2. ASSUME NEW s \in Subs, DropSubscription(s) PROVE \A t \in Subs : ExtendEdge(t)
  <2>1. extend' = [extend EXCEPT ![s] = NoExtend]
    BY <1>2 DEF DropSubscription
  <2> QED
    BY <2>1, <1>o DEF ExtendEdge, NoExtend
<1>3. ASSUME NEW s \in Subs, NEW new_ts \in 0..snapshot_ts, ExtendStart(s, new_ts)
      PROVE  \A t \in Subs : ExtendEdge(t)
  <2>0. sub[s].held /\ sub' = sub
    BY <1>3 DEF ExtendStart
  <2>t. /\ sub[s].begin \in Timestamps /\ new_ts \in Nat /\ new_ts <= snapshot_ts
    BY <1>0, Types DEF SubType, Timestamps
  <2>1. CASE new_ts < sub[s].begin \/ sub[s].valid_ts = None
    <3>1. extend' = [extend EXCEPT ![s] =
                       [phase |-> "invalid", current_ts |-> 0, new_ts |-> new_ts]]
      BY <1>3, <2>1 DEF ExtendStart
    <3>a. extend'[s] = [phase |-> "invalid", current_ts |-> 0, new_ts |-> new_ts]
      BY <3>1, <1>o
    <3>2. extend'[s].phase = "invalid"
      BY <3>a
    <3> QED
      BY <2>0, <3>1, <3>2, <1>o DEF ExtendEdge, Rejects
  <2>2. CASE ~(new_ts < sub[s].begin \/ sub[s].valid_ts = None)
    <3>1. extend' = [extend EXCEPT ![s] =
                       [phase |-> "reading", current_ts |-> sub[s].valid_ts, new_ts |-> new_ts]]
      BY <1>3, <2>2 DEF ExtendStart
    <3>a. extend'[s] =
            [phase |-> "reading", current_ts |-> sub[s].valid_ts, new_ts |-> new_ts]
      BY <3>1, <1>o
    <3>2. /\ extend'[s].phase = "reading" /\ extend'[s].current_ts = sub[s].valid_ts
          /\ extend'[s].new_ts = new_ts
      BY <3>a
    <3>3. Starts(s)
      BY <2>0, <2>t, <2>2, <3>2 DEF Starts, Timestamps
    <3> QED
      BY <3>1, <3>3, <1>o DEF ExtendEdge
  <2> QED
    BY <2>1, <2>2
<1>4. ASSUME NEW s \in Subs, ExtendFinish(s) PROVE \A t \in Subs : ExtendEdge(t)
  <2> DEFINE ok == \/ extend[s].current_ts = extend[s].new_ts
                   \/ Refreshes(sub[s].reads, extend[s].current_ts, extend[s].new_ts)
             e == [extend[s] EXCEPT !.current_ts = 0,
                                    !.phase = IF ok THEN "valid" ELSE "invalid"]
  <2>0. extend[s].phase = "reading" /\ sub' = sub /\ extend[s] \in ExtendType
    BY <1>0, <1>4 DEF ExtendFinish
  <2>1. extend' = [extend EXCEPT ![s].current_ts = 0,
                                 ![s].phase = IF ok THEN "valid" ELSE "invalid"]
    BY <1>4 DEF ExtendFinish
  <2> HIDE DEF ok
  <2>2. extend' = [extend EXCEPT ![s] = e]
    BY <1>0, <2>1
  <2>a. extend'[s] = e
    BY <2>2, <1>o
  <2>3. /\ extend'[s].phase = IF ok THEN "valid" ELSE "invalid"
        /\ extend'[s].new_ts = extend[s].new_ts
    BY <2>0, <2>a DEF ExtendType
  <2>4. ok => Answers(s)
    BY <2>0, <2>3 DEF Answers, ok
  <2>5. ~ok => Rejects(s)
    BY <2>0, <2>3 DEF Rejects
  <2> QED
    BY <2>2, <2>4, <2>5, <1>o DEF ExtendEdge
<1>5. ASSUME NEW m \in Managers, ManagerStep(m) PROVE extend' = extend
  BY <1>5 DEF ManagerStep, Subscribe, SubscribeRefused, Remove, WaitForHigherTs,
     SeesHigherTs, AdvanceLog, UpdateProcessed, EnforceRetention
<1>6. ASSUME NEW s \in Subs,
             \/ \E reads \in SUBSET Keys : RunQuery(s, reads)
             \/ RefreshReads(s) \/ SubscribeInvalid(s)
             \/ \E m \in Managers : SendRequest(s, m) \/ SendFails(s, m)
             \/ DeliverDelayed(s)
      PROVE  extend' = extend
  BY <1>6 DEF RunQuery, RefreshReads, SubscribeInvalid, SendRequest, SendFails, DeliverDelayed
<1>7. ASSUME \/ \E keys \in SUBSET Keys : AppendWrite(keys)
             \/ PushSnapshot \/ Shutdown \/ UNCHANGED vars
      PROVE  extend' = extend
  BY <1>7 DEF AppendWrite, PushSnapshot, Shutdown, vars
<1> QED
  BY <1>1, <1>2, <1>3, <1>4, <1>5, <1>6, <1>7 DEF Next

LEMMA PhaseStep ==
  ASSUME TypeOK, TypeOK', LogOrder, SubPhaseInv, [Next]_vars,
         \A t \in Subs : SubEdge(t) /\ ExtendEdge(t)
  PROVE  SubPhaseInv'
<1> SUFFICES ASSUME NEW t \in Subs
             PROVE  /\ sub'[t].begin <= max_ts' /\ sub'[t].valid_ts <= max_ts'
                    /\ sub'[t].phase \in {"idle", "queried"} =>
                         sub'[t].valid_ts = None /\ ~sub'[t].held /\ extend'[t].phase = "none"
                    /\ sub'[t].phase \in {"refreshed", "queued", "registered"} =>
                         sub'[t].valid_ts # None
                    /\ sub'[t].phase \in {"refreshed", "queued"} =>
                         sub'[t].valid_ts = sub'[t].token
                    /\ sub'[t].valid_ts # None => sub'[t].begin <= sub'[t].valid_ts
  BY DEF SubPhaseInv
<1>0. /\ max_ts <= max_ts' /\ max_ts \in Timestamps /\ max_ts' \in Timestamps
      /\ snapshot_ts <= max_ts /\ snapshot_ts \in Timestamps
      /\ sub[t].begin \in Timestamps /\ sub[t].valid_ts \in Timestamps \cup {None}
      /\ sub[t].held \in BOOLEAN
  BY LogStep, MaxTsFacts, MaxTsFactsNext, Types DEF SubType, LogOrder
<1>1. /\ sub[t].begin <= max_ts /\ sub[t].valid_ts <= max_ts
      /\ sub[t].phase \in {"idle", "queried"} =>
           sub[t].valid_ts = None /\ ~sub[t].held /\ extend[t].phase = "none"
      /\ sub[t].phase \in {"refreshed", "queued", "registered"} => sub[t].valid_ts # None
      /\ sub[t].phase \in {"refreshed", "queued"} => sub[t].valid_ts = sub[t].token
      /\ sub[t].valid_ts # None => sub[t].begin <= sub[t].valid_ts
  BY DEF SubPhaseInv
<1>2. SubEdge(t) /\ ExtendEdge(t)
  OBVIOUS
<1>e. sub[t].phase \in {"idle", "queried"} => extend'[t].phase = "none"
  BY <1>1, <1>2 DEF ExtendEdge, Starts, Answers, Rejects
<1>3. CASE Keeps(t) \/ Sent(t) \/ Registered(t)
  <2>1. SameQuery(t) /\ SameValidity(t) /\ sub'[t].held \in {sub[t].held, FALSE}
    BY <1>3 DEF Keeps, Sent, Registered
  <2>2. /\ sub'[t].begin <= max_ts' /\ sub'[t].valid_ts <= max_ts'
        /\ sub'[t].valid_ts # None => sub'[t].begin <= sub'[t].valid_ts
    BY <1>0, <1>1, <2>1 DEF SameQuery, SameValidity, Timestamps, None
  <2>3. /\ sub'[t].phase \in {"idle", "queried"} => sub[t].phase = sub'[t].phase
        /\ sub'[t].phase \in {"refreshed", "queued", "registered"} =>
             sub[t].phase \in {"refreshed", "queued", "registered"}
        /\ sub'[t].phase \in {"refreshed", "queued"} =>
             sub[t].phase \in {"refreshed", "queued"} /\ sub'[t].token = sub[t].token
    BY <1>3 DEF Keeps, Sent, Registered
  <2> QED
    BY <1>0, <1>1, <1>e, <2>1, <2>2, <2>3 DEF SameValidity
<1>4. CASE Queries(t)
  BY <1>0, <1>1, <1>e, <1>4 DEF Queries, SameValidity, Timestamps, None
<1>5. CASE Refreshed(t)
  BY <1>0, <1>1, <1>5 DEF Refreshed, SameQuery, Timestamps, None
<1>6. CASE Advances(t)
  BY <1>0, <1>1, <1>6 DEF Advances, SameQuery, Timestamps, None
<1>7. CASE Conflicts(t) \/ ShutDown(t)
  BY <1>0, <1>1, <1>7 DEF Conflicts, ShutDown, SameQuery, Timestamps, None
<1>8. CASE sub'[t] = Gone
  BY <1>0, <1>8 DEF Gone, Timestamps, None
<1> QED
  BY <1>2, <1>3, <1>4, <1>5, <1>6, <1>7, <1>8 DEF SubEdge

LEMMA ExtendStep ==
  ASSUME TypeOK, TypeOK', LogOrder, SubPhaseInv, ValiditySound, ExtendInv, ExtendSound,
         [Next]_vars, \A t \in Subs : SubEdge(t) /\ ExtendEdge(t)
  PROVE  ExtendInv' /\ ExtendSound'
<1> DEFINE CleanN(t, ts) == Overlapping(writes', sub'[t].reads, sub'[t].begin, ts) = {}
<1>g. ASSUME NEW t \in Subs
      PROVE  /\ extend'[t].phase \in {"reading", "valid"} =>
                  sub'[t].begin <= extend'[t].new_ts /\ extend'[t].new_ts <= max_ts'
             /\ extend'[t].phase = "reading" =>
                  extend'[t].current_ts <= max_ts' /\ CleanN(t, extend'[t].current_ts)
             /\ extend'[t].phase = "valid" => CleanN(t, extend'[t].new_ts)
  <2>0. /\ max_ts <= max_ts' /\ max_ts \in Timestamps /\ max_ts' \in Timestamps
        /\ snapshot_ts <= max_ts /\ snapshot_ts \in Timestamps
        /\ sub[t].begin \in Timestamps /\ sub[t].valid_ts \in Timestamps \cup {None}
        /\ extend[t].current_ts \in Timestamps /\ extend[t].new_ts \in Timestamps
        /\ extend'[t].new_ts \in Timestamps
    BY LogStep, MaxTsFacts, MaxTsFactsNext, Types DEF SubType, LogOrder, ExtendType, TypeOK
  <2>1. /\ extend[t].phase \in {"reading", "valid"} =>
             sub[t].begin <= extend[t].new_ts /\ extend[t].new_ts <= max_ts
        /\ extend[t].phase = "reading" =>
             extend[t].current_ts <= max_ts /\ Clean(t, extend[t].current_ts)
        /\ extend[t].phase = "valid" => Clean(t, extend[t].new_ts)
    BY DEF ExtendInv, ExtendSound, Clean
  <2>2. SubEdge(t) /\ ExtendEdge(t)
    OBVIOUS
  <2>s. ASSUME NEW ts \in Timestamps, ts <= max_ts, Clean(t, ts), SameQuery(t)
        PROVE  CleanN(t, ts)
    BY <2>s, CleanStable
  <2>3. CASE extend'[t] = extend[t] /\ SameQuery(t)
    <3>1. extend'[t].phase \in {"reading", "valid"} =>
             sub'[t].begin <= extend'[t].new_ts /\ extend'[t].new_ts <= max_ts'
      BY <2>0, <2>1, <2>3 DEF SameQuery, Timestamps
    <3>2. extend'[t].phase = "reading" => extend'[t].current_ts <= max_ts'
      BY <2>0, <2>1, <2>3 DEF Timestamps
    <3> QED
      BY <2>0, <2>1, <2>3, <2>s, <3>1, <3>2
  <2>4. CASE extend'[t] = extend[t] /\ Queries(t)
    BY <2>4 DEF Queries, SubPhaseInv
  <2>5. CASE extend'[t] = extend[t] /\ sub'[t] = Gone
    <3>1. sub'[t].reads = {} /\ sub'[t].begin = 0
      BY <2>5 DEF Gone
    <3>2. \A ts : CleanN(t, ts)
      BY <3>1, OverlapNothing
    <3> QED
      BY <2>0, <2>1, <2>5, <3>1, <3>2 DEF Timestamps
  <2>6. CASE extend'[t].phase \in {"none", "invalid"}
    BY <2>6
  <2>7. CASE Starts(t)
    <3>1. /\ SameQuery(t) /\ sub[t].valid_ts <= max_ts /\ sub[t].valid_ts \in Timestamps
          /\ Clean(t, sub[t].valid_ts)
      BY <2>0, <2>7 DEF Starts, SameQuery, SubPhaseInv, ValiditySound, Clean
    <3>2. CleanN(t, sub[t].valid_ts)
      BY <3>1, <2>s
    <3> QED
      BY <2>0, <2>7, <3>1, <3>2 DEF Starts, Timestamps
  <2>8. CASE Answers(t)
    <3>1. SameQuery(t) /\ Clean(t, extend[t].current_ts)
      BY <2>1, <2>8 DEF Answers, SameQuery
    <3>2. Clean(t, extend[t].new_ts)
      BY <2>0, <2>8, <3>1, RefreshClean DEF Answers
    <3>3. CleanN(t, extend[t].new_ts)
      BY <2>0, <2>1, <2>8, <2>s, <3>1, <3>2 DEF Answers
    <3> QED
      BY <2>0, <2>1, <2>8, <3>3 DEF Answers, Timestamps
  <2>9. SameQuery(t) \/ Queries(t) \/ sub'[t] = Gone
    BY <2>2 DEF SubEdge, Keeps, Refreshed, Sent, Registered, Conflicts, Advances, ShutDown
  <2> HIDE DEF CleanN
  <2> QED
    BY <2>2, <2>3, <2>4, <2>5, <2>6, <2>7, <2>8, <2>9 DEF ExtendEdge, Rejects
<1>1. ExtendInv'
  BY <1>g DEF ExtendInv, Clean
<1>2. ExtendSound'
  BY <1>g DEF ExtendSound
<1> QED
  BY <1>1, <1>2

-----------------------------------------------------------------------------
(* Where a subscription is.                                                *)

Places == QueueInv /\ SlabInv /\ SlotInv /\ SubscriberInv

\* One that waits in a channel or is subscribed is left alone.
Settled(t) ==
  sub[t].phase \in {"queued", "registered"} =>
    sub'[t].phase = sub[t].phase /\ sub'[t].valid_ts = sub[t].valid_ts /\ SameQuery(t)

LEMMA KeepsSettled ==
  ASSUME NEW t, Keeps(t)
  PROVE  Settled(t)
BY DEF Keeps, Settled, SameValidity

\* A subscriber that the step leaves in a slab.
LEMMA StaysClean ==
  ASSUME TypeOK, TypeOK', LogOrder, LogOrder', [Next]_vars, SubscriberInv,
         NEW m \in Managers, NEW k \in subscribers[m], SameQuery(k.sub),
         processed_ts'[m] = processed_ts[m]
  PROVE  Overlapping(writes', sub'[k.sub].reads, sub'[k.sub].begin, processed_ts'[m]) = {}
<1>1. k.sub \in Subs /\ processed_ts[m] \in Timestamps
  BY Types DEF KeyType
<1>2. Clean(k.sub, processed_ts[m]) /\ processed_ts[m] <= max_ts
  BY DEF SubscriberInv, LogOrder
<1> QED
  BY <1>1, <1>2, CleanStable

LEMMA QuietStep ==
  ASSUME TypeOK, TypeOK', LogOrder, LogOrder', SubPhaseInv, Places, [Next]_vars,
         UNCHANGED <<queue, subscribers, closed_subscriptions, next_seq, processed_ts>>,
         \A t \in Subs : Settled(t),
         \A m \in Managers : pc'[m] = "advance" =>
           next_ts'[m] = max_ts \/ (pc[m] = "advance" /\ next_ts'[m] = next_ts[m])
  PROVE  Places'
<1>1. QueueInv'
  <2>1. ASSUME NEW m \in Managers, NEW i \in 1..Len(queue[m])
        PROVE  sub'[queue[m][i]].phase = "queued"
    <3>1. queue[m][i] \in Subs /\ sub[queue[m][i]].phase = "queued"
      BY Types DEF Places, QueueInv
    <3> QED
      BY <3>1 DEF Settled
  <2> QED
    BY <2>1 DEF Places, QueueInv
<1>2. \A m \in Managers : \A k \in subscribers[m] :
        k.sub \in Subs /\ sub[k.sub].phase = "registered"
  BY Types DEF KeyType, Places, SlabInv
<1>3. SlabInv'
  BY <1>2 DEF Places, SlabInv, Settled
<1>4. SlotInv'
  BY DEF Places, SlotInv
<1>5. SubscriberInv'
  <2>1. ASSUME NEW m \in Managers, NEW k \in subscribers[m]
        PROVE  /\ Overlapping(writes', sub'[k.sub].reads, sub'[k.sub].begin,
                              processed_ts'[m]) = {}
               /\ pc'[m] = "advance" => sub'[k.sub].valid_ts <= next_ts'[m]
    <3>1. SameQuery(k.sub) /\ sub'[k.sub].valid_ts = sub[k.sub].valid_ts
      BY <1>2 DEF Settled
    <3>2. sub[k.sub].valid_ts <= max_ts
      BY <1>2 DEF SubPhaseInv
    <3>3. pc'[m] = "advance" => sub'[k.sub].valid_ts <= next_ts'[m]
      BY <3>1, <3>2 DEF Places, SubscriberInv
    <3> QED
      BY <3>1, <3>3, StaysClean DEF Places
  <2> QED
    BY <2>1 DEF SubscriberInv, Clean
<1> QED
  BY <1>1, <1>3, <1>4, <1>5 DEF Places

LEMMA SendPlaces ==
  ASSUME TypeOK, TypeOK', LogOrder, LogOrder', SubPhaseInv, Places, [Next]_vars,
         NEW s \in Subs, NEW m \in Managers, SendRequest(s, m)
  PROVE  Places'
<1>0. /\ sub[s].phase = "refreshed" /\ queue' = [queue EXCEPT ![m] = Append(@, s)]
      /\ UNCHANGED <<subscribers, closed_subscriptions, next_seq, processed_ts, next_ts, pc>>
      /\ queue \in [Managers -> Seq(Subs)] /\ queue[m] \in Seq(Subs) /\ sub[s] \in SubType
      /\ sub' = [sub EXCEPT ![s] = [sub[s] EXCEPT !.phase = "queued"]]
  BY Types DEF SendRequest
<1>1. sub'[s].phase = "queued" /\ \A t \in Subs \ {s} : Keeps(t)
  <2>1. sub'[s] = [sub[s] EXCEPT !.phase = "queued"] /\ \A t \in Subs \ {s} : Keeps(t)
    BY <1>0, OneEdge
  <2> QED
    BY <1>0, <2>1 DEF SubType
<1>2. ASSUME NEW n \in Managers, NEW i \in 1..Len(queue'[n])
      PROVE  \/ i \in 1..Len(queue[n]) /\ queue'[n][i] = queue[n][i]
             \/ n = m /\ i = Len(queue[m]) + 1 /\ queue'[n][i] = s
  <2>1. CASE n = m
    <3>1. queue'[n] = Append(queue[m], s)
      BY <1>0, <2>1
    <3> QED
      BY <1>0, <2>1, <3>1
  <2>2. CASE n # m
    BY <1>0, <2>2
  <2> QED
    BY <2>1, <2>2
<1>3. \A n \in Managers : \A i \in 1..Len(queue[n]) :
        queue[n][i] \in Subs \ {s} /\ sub[queue[n][i]].phase = "queued"
  BY <1>0, Types DEF Places, QueueInv
<1>4. QueueInv'
  <2>1. ASSUME NEW n \in Managers, NEW i \in 1..Len(queue'[n])
        PROVE  sub'[queue'[n][i]].phase = "queued"
    <3>1. CASE i \in 1..Len(queue[n]) /\ queue'[n][i] = queue[n][i]
      BY <1>1, <1>3, <3>1 DEF Keeps
    <3>2. CASE queue'[n][i] = s
      BY <1>1, <3>2
    <3> QED
      BY <1>2, <3>1, <3>2
  <2>2. ASSUME NEW n \in Managers, NEW l \in Managers, NEW i \in 1..Len(queue'[n]),
               NEW j \in 1..Len(queue'[l]), queue'[n][i] = queue'[l][j]
        PROVE  n = l /\ i = j
    BY <1>2, <1>3, <2>2 DEF Places, QueueInv
  <2> QED
    BY <2>1, <2>2 DEF QueueInv
<1>5. ASSUME NEW n \in Managers, NEW k \in subscribers[n]
      PROVE  k.sub \in Subs \ {s} /\ Keeps(k.sub) /\ sub[k.sub].phase = "registered"
  BY <1>0, <1>1, Types DEF Places, SlabInv, KeyType
<1>6. SlabInv' /\ SlotInv'
  BY <1>0, <1>5 DEF Places, SlabInv, SlotInv, Keeps
<1>7. SubscriberInv'
  <2>1. ASSUME NEW n \in Managers, NEW k \in subscribers[n]
        PROVE  /\ Overlapping(writes', sub'[k.sub].reads, sub'[k.sub].begin,
                              processed_ts'[n]) = {}
               /\ pc'[n] = "advance" => sub'[k.sub].valid_ts <= next_ts'[n]
    <3>1. SameQuery(k.sub) /\ sub'[k.sub].valid_ts = sub[k.sub].valid_ts
      BY <1>5 DEF Keeps, SameValidity
    <3> QED
      BY <1>0, <3>1, StaysClean DEF Places, SubscriberInv
  <2> QED
    BY <1>0, <2>1 DEF SubscriberInv, Clean
<1> QED
  BY <1>4, <1>6, <1>7 DEF Places

\* The rest of a channel once its head is taken.
LEMMA TailPlaces ==
  ASSUME TypeOK, QueueInv, NEW m \in Managers, queue[m] # <<>>,
         queue' = [queue EXCEPT ![m] = Tail(@)],
         \A t \in Subs \ {Head(queue[m])} : Keeps(t)
  PROVE  QueueInv'
<1>0. queue \in [Managers -> Seq(Subs)] /\ queue[m] \in Seq(Subs)
  BY Types
<1>1. ASSUME NEW n \in Managers, NEW i \in 1..Len(queue'[n])
      PROVE  LET j == IF n = m THEN i + 1 ELSE i
             IN  j \in 1..Len(queue[n]) /\ queue'[n][i] = queue[n][j]
  <2>1. CASE n = m
    <3>1. queue'[n] = Tail(queue[m])
      BY <1>0, <2>1
    <3> QED
      BY <1>0, <2>1, <3>1
  <2>2. CASE n # m
    BY <1>0, <2>2
  <2> QED
    BY <2>1, <2>2
<1>2. ASSUME NEW n \in Managers, NEW i \in 1..Len(queue'[n])
      PROVE  sub'[queue'[n][i]].phase = "queued"
  <2> DEFINE j == IF n = m THEN i + 1 ELSE i
  <2>1. j \in 1..Len(queue[n]) /\ queue'[n][i] = queue[n][j] /\ ~(n = m /\ j = 1)
    BY <1>1
  <2> HIDE DEF j
  <2>2. queue[n][j] # Head(queue[m])
    BY <2>1, HeadQueued DEF QueueInv
  <2>3. queue[n][j] \in Subs /\ sub[queue[n][j]].phase = "queued"
    BY <1>0, <2>1 DEF QueueInv
  <2> QED
    BY <2>1, <2>2, <2>3 DEF Keeps
<1>3. ASSUME NEW n \in Managers, NEW l \in Managers, NEW i \in 1..Len(queue'[n]),
             NEW j \in 1..Len(queue'[l]), queue'[n][i] = queue'[l][j]
      PROVE  n = l /\ i = j
  BY <1>1, <1>3 DEF QueueInv
<1> QED
  BY <1>2, <1>3 DEF QueueInv

LEMMA SubscribePlaces ==
  ASSUME TypeOK, TypeOK', LogOrder, LogOrder', TrimOrder, SubPhaseInv, ValiditySound, Places,
         [Next]_vars, NEW m \in Managers, NEW slot \in Slots, Subscribe(m, slot)
  PROVE  Places'
<1> DEFINE s == Head(queue[m])
           key == [slot |-> slot, seq |-> next_seq[m], sub |-> s]
<1>0. /\ queue[m] # <<>> /\ s \in Subs /\ sub[s].phase = "queued" /\ sub[s] \in SubType
      /\ queue' = [queue EXCEPT ![m] = Tail(@)]
      /\ \A k \in subscribers[m] : k.slot # slot
      /\ UNCHANGED <<processed_ts, next_ts>>
  BY HeadQueued, Types DEF Subscribe, Places
<1>1. /\ subscribers' = [subscribers EXCEPT ![m] = @ \cup {key}]
      /\ closed_subscriptions' = [closed_subscriptions EXCEPT ![m] = @ \cup {key}]
      /\ next_seq' = [next_seq EXCEPT ![m] = @ + 1]
      /\ pc' = [pc EXCEPT ![m] = "select"]
      /\ sub' = [sub EXCEPT ![s].phase = "registered", ![s].token = 0]
      /\ \/ sub[s].token >= processed_ts[m]
         \/ Refreshes(sub[s].reads, sub[s].token, processed_ts[m])
  BY DEF Subscribe, WatchClosed, LeaveSelect
<1>2. key.slot = slot /\ key.seq = next_seq[m] /\ key.sub = s
  OBVIOUS
<1>k. key \in KeyType /\ next_seq[m] \in Nat
  BY <1>0, Types DEF KeyType
<1> HIDE DEF s, key
<1>a. sub' = [sub EXCEPT ![s] = [sub[s] EXCEPT !.phase = "registered", !.token = 0]]
  BY <1>0, <1>1, Types
<1>3. sub'[s] = [sub[s] EXCEPT !.phase = "registered", !.token = 0]
      /\ \A t \in Subs \ {s} : Keeps(t)
  BY <1>0, <1>a, OneEdge
<1>4. sub'[s].phase = "registered" /\ SameQuery(s)
  BY <1>0, <1>3 DEF SubType, SameQuery
<1>5. QueueInv'
  BY <1>0, <1>3, TailPlaces DEF Places, s
<1>6. ASSUME NEW n \in Managers
      PROVE  /\ subscribers'[n] = IF n = m THEN subscribers[m] \cup {key} ELSE subscribers[n]
             /\ closed_subscriptions'[n] =
                  IF n = m THEN closed_subscriptions[m] \cup {key} ELSE closed_subscriptions[n]
             /\ next_seq'[n] = IF n = m THEN next_seq[m] + 1 ELSE next_seq[n]
             /\ pc'[n] = IF n = m THEN "select" ELSE pc[n]
  BY <1>1 DEF TypeOK
<1>7. ASSUME NEW n \in Managers, NEW k \in subscribers[n]
      PROVE  /\ k \in KeyType /\ k.sub \in Subs \ {s} /\ Keeps(k.sub)
             /\ sub[k.sub].phase = "registered"
  BY <1>0, <1>3, Types DEF Places, SlabInv, KeyType
<1>8. SlabInv'
  <2>1. ASSUME NEW n \in Managers, NEW k \in subscribers'[n]
        PROVE  (k \in subscribers[n]) \/ (n = m /\ k = key)
    BY <1>6
  <2>2. ASSUME NEW n \in Managers, NEW k \in subscribers'[n]
        PROVE  sub'[k.sub].phase = "registered"
    BY <1>2, <1>4, <1>7, <2>1 DEF Keeps
  <2>3. ASSUME NEW n \in Managers, NEW k \in subscribers'[n], NEW l \in subscribers'[n],
               k.slot = l.slot
        PROVE  k = l
    BY <1>0, <1>2, <2>1, <2>3 DEF Places, SlabInv
  <2>4. ASSUME NEW n \in Managers, NEW o \in Managers, NEW k \in subscribers'[n],
               NEW l \in subscribers'[o], k.sub = l.sub
        PROVE  n = o /\ k = l
    BY <1>2, <1>7, <2>1, <2>4 DEF Places, SlabInv
  <2> QED
    BY <2>2, <2>3, <2>4 DEF SlabInv
<1>9. SlotInv'
  <2>1. ASSUME NEW n \in Managers, n # m
        PROVE  /\ subscribers'[n] = subscribers[n] /\ next_seq'[n] = next_seq[n]
               /\ closed_subscriptions'[n] = closed_subscriptions[n]
    BY <1>6, <2>1
  <2>2. /\ subscribers'[m] = subscribers[m] \cup {key} /\ next_seq'[m] = next_seq[m] + 1
        /\ closed_subscriptions'[m] = closed_subscriptions[m] \cup {key}
    BY <1>6
  <2>3. \A k \in subscribers[m] \cup closed_subscriptions[m] :
          k.seq < next_seq[m] /\ k.seq \in Nat
    BY Types DEF Places, SlotInv, KeyType
  <2>4. \A k \in subscribers'[m] \cup closed_subscriptions'[m] : k.seq < next_seq'[m]
    BY <1>2, <1>k, <2>2, <2>3
  <2>5. ASSUME NEW k \in subscribers'[m], NEW c \in closed_subscriptions'[m]
        PROVE  /\ c.slot = k.slot => c.seq <= k.seq
               /\ c.seq = k.seq => c = k
    <3>1. CASE k = key
      BY <1>2, <1>k, <2>2, <2>3, <3>1
    <3>2. CASE k \in subscribers[m] /\ c = key
      BY <1>0, <1>2, <1>k, <2>3, <3>2
    <3>3. CASE k \in subscribers[m] /\ c \in closed_subscriptions[m]
      BY <3>3 DEF Places, SlotInv
    <3> QED
      BY <2>2, <3>1, <3>2, <3>3
  <2> QED
    BY <2>1, <2>4, <2>5 DEF Places, SlotInv
<1>10. SubscriberInv'
  <2>1. ASSUME NEW n \in Managers, NEW k \in subscribers[n]
        PROVE  /\ Overlapping(writes', sub'[k.sub].reads, sub'[k.sub].begin,
                              processed_ts'[n]) = {}
               /\ pc'[n] = "advance" => sub'[k.sub].valid_ts <= next_ts'[n]
    <3>1. SameQuery(k.sub) /\ sub'[k.sub].valid_ts = sub[k.sub].valid_ts
      BY <1>7 DEF Keeps, SameValidity
    <3>2. pc'[n] = "advance" => pc[n] = "advance"
      BY <1>6
    <3> QED
      BY <1>0, <3>1, <3>2, StaysClean DEF Places, SubscriberInv
  <2>2. Overlapping(writes', sub'[s].reads, sub'[s].begin, processed_ts'[m]) = {}
    <3>0. /\ sub[s].token \in Timestamps /\ processed_ts[m] \in Timestamps
          /\ processed_ts[m] <= max_ts /\ sub[s].begin \in Timestamps
          /\ writes \in SUBSET Writes
      BY <1>0, Types DEF SubType, LogOrder
    <3>1. Clean(s, sub[s].token)
      BY <1>0 DEF SubPhaseInv, ValiditySound, Clean
    <3>2. CASE processed_ts[m] <= sub[s].token
      <4>1. Clean(s, processed_ts[m])
        BY <3>0, <3>1, <3>2, OverlapShorter DEF Clean
      <4> QED
        BY <1>0, <1>4, <3>0, <4>1, CleanStable
    <3>3. CASE Refreshes(sub[s].reads, sub[s].token, processed_ts[m])
      <4>1. Clean(s, processed_ts[m])
        BY <1>0, <3>0, <3>1, <3>3, RefreshClean
      <4> QED
        BY <1>0, <1>4, <3>0, <4>1, CleanStable
    <3> QED
      BY <1>1, <3>0, <3>2, <3>3 DEF Timestamps
  <2>3. pc'[m] = "select"
    BY <1>6
  <2>4. ASSUME NEW n \in Managers, NEW k \in subscribers'[n]
        PROVE  /\ Overlapping(writes', sub'[k.sub].reads, sub'[k.sub].begin,
                              processed_ts'[n]) = {}
               /\ pc'[n] = "advance" => sub'[k.sub].valid_ts <= next_ts'[n]
    <3>1. CASE k \in subscribers[n]
      BY <2>1, <3>1
    <3>2. CASE n = m /\ k = key
      BY <1>2, <2>2, <2>3, <3>2
    <3> QED
      BY <1>6, <3>1, <3>2
  <2> QED
    BY <2>4 DEF SubscriberInv, Clean
<1> QED
  BY <1>5, <1>8, <1>9, <1>10 DEF Places

\* A step that takes subscribers and keys away, and leaves the others alone.
LEMMA ShrinkPlaces ==
  ASSUME TypeOK, TypeOK', LogOrder, LogOrder', Places, [Next]_vars,
         UNCHANGED <<next_seq, processed_ts, next_ts>>,
         \A n \in Managers : /\ subscribers'[n] \subseteq subscribers[n]
                             /\ closed_subscriptions'[n] \subseteq closed_subscriptions[n]
                             /\ pc'[n] = "advance" => pc[n] = "advance"
                             /\ \A k \in subscribers'[n] : Keeps(k.sub)
  PROVE  SlabInv' /\ SlotInv' /\ SubscriberInv'
<1>0. ASSUME NEW n \in Managers, NEW k \in subscribers'[n]
      PROVE  sub'[k.sub].phase = "registered"
  <2>1. k \in subscribers[n] /\ Keeps(k.sub)
    OBVIOUS
  <2>2. sub[k.sub].phase = "registered"
    BY <2>1 DEF Places, SlabInv
  <2> QED
    BY <2>1, <2>2 DEF Keeps
<1>1. SlabInv'
  BY <1>0 DEF Places, SlabInv
<1>2. SlotInv'
  BY DEF Places, SlotInv
<1>3. ASSUME NEW n \in Managers, NEW k \in subscribers'[n]
      PROVE  /\ Overlapping(writes', sub'[k.sub].reads, sub'[k.sub].begin,
                            processed_ts'[n]) = {}
             /\ pc'[n] = "advance" => sub'[k.sub].valid_ts <= next_ts'[n]
  <2>1. /\ k \in subscribers[n] /\ SameQuery(k.sub)
        /\ sub'[k.sub].valid_ts = sub[k.sub].valid_ts
    BY DEF Keeps, SameValidity
  <2> QED
    BY <2>1, StaysClean DEF Places, SubscriberInv
<1>4. SubscriberInv'
  BY <1>3 DEF SubscriberInv, Clean
<1> QED
  BY <1>1, <1>2, <1>4

LEMMA QueueKept ==
  ASSUME QueueInv, queue' = queue,
         \A n \in Managers : \A i \in 1..Len(queue[n]) : Keeps(queue[n][i])
  PROVE  QueueInv'
<1>1. ASSUME NEW n \in Managers, NEW i \in 1..Len(queue[n])
      PROVE  sub'[queue[n][i]].phase = "queued"
  <2>1. Keeps(queue[n][i]) /\ sub[queue[n][i]].phase = "queued"
    BY DEF QueueInv
  <2> QED
    BY <2>1 DEF Keeps
<1> QED
  BY <1>1 DEF QueueInv

LEMMA RefusedPlaces ==
  ASSUME TypeOK, TypeOK', LogOrder, LogOrder', Places, [Next]_vars,
         NEW m \in Managers, SubscribeRefused(m)
  PROVE  Places'
<1> DEFINE s == Head(queue[m])
           ts == ConflictTs(sub[s].reads, sub[s].token, processed_ts[m])
<1>0. /\ queue[m] # <<>> /\ s \in Subs /\ sub[s].phase = "queued" /\ sub[s] \in SubType
      /\ queue' = [queue EXCEPT ![m] = Tail(@)]
      /\ UNCHANGED <<subscribers, closed_subscriptions, next_seq, processed_ts, next_ts>>
      /\ pc' = [pc EXCEPT ![m] = "select"]
      /\ sub' = [sub EXCEPT ![s].phase = "done", ![s].valid_ts = None,
                            ![s].watch = "invalid", ![s].invalid_ts = ts]
  BY HeadQueued, Types DEF SubscribeRefused, Places, LeaveSelect
<1> HIDE DEF s, ts
<1>1. sub' = [sub EXCEPT ![s] = [sub[s] EXCEPT !.phase = "done", !.valid_ts = None,
                                   !.watch = "invalid", !.invalid_ts = ts]]
  BY <1>0, Types
<1>2. \A t \in Subs \ {s} : Keeps(t)
  BY <1>0, <1>1, OneEdge
<1>3. QueueInv'
  BY <1>0, <1>2, TailPlaces DEF Places, s
<1>4. \A n \in Managers : \A k \in subscribers[n] : Keeps(k.sub)
  BY <1>0, <1>2, Types DEF Places, SlabInv, KeyType
<1>5. \A n \in Managers : pc'[n] = "advance" => pc[n] = "advance"
  BY <1>0 DEF TypeOK
<1> QED
  BY <1>0, <1>3, <1>4, <1>5, ShrinkPlaces DEF Places

LEMMA RemovePlaces ==
  ASSUME TypeOK, TypeOK', LogOrder, LogOrder', Places, [Next]_vars,
         NEW m \in Managers, NEW key \in closed_subscriptions[m], Remove(m, key)
  PROVE  Places'
<1> DEFINE removed == get_subscriber(m, key)
<1>1. /\ closed_subscriptions' = [closed_subscriptions EXCEPT ![m] = @ \ {key}]
      /\ subscribers' = [subscribers EXCEPT ![m] = @ \ removed]
      /\ \A s \in Subs : ~(\E k \in removed : k.sub = s) => sub'[s] = sub[s]
      /\ UNCHANGED <<queue, next_seq, processed_ts, next_ts>>
      /\ pc' = [pc EXCEPT ![m] = "select"]
  BY DEF Remove, LeaveSelect
<1>2. removed \subseteq {key} /\ removed \subseteq subscribers[m]
  BY RemovesOwn DEF get_subscriber, Places
<1> HIDE DEF removed
<1>3. ASSUME NEW n \in Managers
      PROVE  /\ subscribers'[n] = IF n = m THEN subscribers[m] \ removed ELSE subscribers[n]
             /\ closed_subscriptions'[n] \subseteq closed_subscriptions[n]
             /\ pc'[n] = "advance" => pc[n] = "advance"
  BY <1>1 DEF TypeOK
<1>4. ASSUME NEW n \in Managers, NEW k \in subscribers'[n] PROVE Keeps(k.sub)
  <2>1. k \in subscribers[n] /\ ~(n = m /\ k \in removed) /\ k.sub \in Subs
    BY <1>3, Types DEF KeyType
  <2>2. ~(\E l \in removed : l.sub = k.sub)
    BY <1>2, <2>1 DEF Places, SlabInv
  <2> QED
    BY <1>1, <2>1, <2>2, SameKeeps
<1>5. ASSUME NEW n \in Managers, NEW i \in 1..Len(queue[n]) PROVE Keeps(queue[n][i])
  <2>1. queue[n][i] \in Subs /\ sub[queue[n][i]].phase = "queued"
    BY Types DEF Places, QueueInv
  <2>2. ~(\E l \in removed : l.sub = queue[n][i])
    BY <1>2, <2>1 DEF Places, SlabInv
  <2> QED
    BY <1>1, <2>1, <2>2, SameKeeps
<1>6. QueueInv'
  BY <1>1, <1>5, QueueKept DEF Places
<1> QED
  BY <1>1, <1>3, <1>4, <1>6, ShrinkPlaces DEF Places

LEMMA AdvancePlaces ==
  ASSUME TypeOK, TypeOK', LogOrder, LogOrder', TrimOrder, Places, [Next]_vars,
         NEW m \in Managers, AdvanceLog(m)
  PROVE  Places'
<1>1. /\ subscribers' = [subscribers EXCEPT ![m] = @ \ to_notify(m)]
      /\ UNCHANGED <<queue, next_seq, closed_subscriptions>> /\ pc[m] = "advance"
      /\ pc' = [pc EXCEPT ![m] = "report"] /\ next_ts' = [next_ts EXCEPT ![m] = 0]
      /\ processed_ts' = [processed_ts EXCEPT ![m] = next_ts[m]]
  BY DEF AdvanceLog
<1>2. ASSUME NEW n \in Managers
      PROVE  /\ subscribers'[n] = IF n = m THEN subscribers[m] \ to_notify(m)
                                          ELSE subscribers[n]
             /\ n # m => /\ pc'[n] = pc[n] /\ next_ts'[n] = next_ts[n]
                         /\ processed_ts'[n] = processed_ts[n]
             /\ pc'[m] = "report" /\ processed_ts'[m] = next_ts[m]
  BY <1>1 DEF TypeOK
<1>3. ASSUME NEW n \in Managers, n # m, NEW k \in subscribers[n] PROVE Keeps(k.sub)
  <2>1. k.sub \in Subs
    BY Types DEF KeyType
  <2>2. ~Notified(m, k.sub) /\ ~Advanced(m, k.sub)
    BY <1>3 DEF Places, SlabInv, Notified, Advanced, to_notify
  <2> QED
    BY <2>1, <2>2, AdvanceSub, SameKeeps
<1>4. ASSUME NEW k \in subscribers[m] \ to_notify(m)
      PROVE  /\ k.sub \in Subs /\ SameQuery(k.sub) /\ sub'[k.sub].phase = sub[k.sub].phase
             /\ Clean(k.sub, next_ts[m])
             /\ next_ts[m] \in Timestamps /\ next_ts[m] <= max_ts
  <2>1. k.sub \in Subs /\ sub[k.sub] \in SubType /\ Advanced(m, k.sub)
    BY Types DEF KeyType, Advanced
  <2>2. sub'[k.sub] = [sub[k.sub] EXCEPT !.valid_ts = next_ts[m]]
    BY <2>1, AdvanceSub
  <2>3. SameQuery(k.sub) /\ sub'[k.sub].phase = sub[k.sub].phase
    BY <2>1, <2>2 DEF SameQuery, SubType
  <2> QED
    BY <1>1, <2>1, <2>3, AdvancedClean DEF Places
<1>5. QueueInv'
  <2>1. ASSUME NEW n \in Managers, NEW i \in 1..Len(queue[n]) PROVE Keeps(queue[n][i])
    <3>1. queue[n][i] \in Subs /\ sub[queue[n][i]].phase = "queued"
      BY Types DEF Places, QueueInv
    <3>2. ~Notified(m, queue[n][i]) /\ ~Advanced(m, queue[n][i])
      BY <3>1 DEF Places, SlabInv, Notified, Advanced, to_notify
    <3> QED
      BY <3>1, <3>2, AdvanceSub, SameKeeps
  <2> QED
    BY <1>1, <2>1, QueueKept DEF Places
<1>6. \A n \in Managers : subscribers'[n] \subseteq subscribers[n]
  BY <1>2
<1>7. ASSUME NEW n \in Managers, NEW k \in subscribers'[n]
      PROVE  sub'[k.sub].phase = "registered"
  <2>1. sub[k.sub].phase = "registered"
    BY <1>6 DEF Places, SlabInv
  <2> QED
    BY <1>2, <1>3, <1>4, <2>1 DEF Keeps
<1>8. SlabInv'
  BY <1>6, <1>7 DEF Places, SlabInv
<1>9. SlotInv'
  BY <1>1, <1>6 DEF Places, SlotInv
<1>10. ASSUME NEW n \in Managers, NEW k \in subscribers'[n]
      PROVE  /\ Overlapping(writes', sub'[k.sub].reads, sub'[k.sub].begin,
                            processed_ts'[n]) = {}
             /\ pc'[n] = "advance" => sub'[k.sub].valid_ts <= next_ts'[n]
  <2>1. CASE n = m
    <3>1. k \in subscribers[m] \ to_notify(m)
      BY <1>2, <2>1
    <3>2. Overlapping(writes', sub'[k.sub].reads, sub'[k.sub].begin, next_ts[m]) = {}
      BY <1>4, <3>1, CleanStable
    <3> QED
      BY <1>2, <2>1, <3>2
  <2>2. CASE n # m
    <3>1. k \in subscribers[n] /\ SameQuery(k.sub)
          /\ sub'[k.sub].valid_ts = sub[k.sub].valid_ts
      BY <1>3, <1>6, <2>2 DEF Keeps, SameValidity
    <3> QED
      BY <1>2, <2>2, <3>1, StaysClean DEF Places, SubscriberInv
  <2> QED
    BY <2>1, <2>2
<1>11. SubscriberInv'
  BY <1>10 DEF SubscriberInv, Clean
<1> QED
  BY <1>5, <1>8, <1>9, <1>11 DEF Places

LEMMA PlacesStep ==
  ASSUME TypeOK, TypeOK', LogOrder, LogOrder', TrimOrder, SubPhaseInv, ValiditySound, Places,
         [Next]_vars
  PROVE  Places'
<1>q. ASSUME UNCHANGED <<queue, subscribers, closed_subscriptions, next_seq, processed_ts>>,
             UNCHANGED <<pc, next_ts>>, \A t \in Subs : Settled(t)
      PROVE  Places'
  BY <1>q, QuietStep
<1>s. ASSUME sub' = sub PROVE \A t \in Subs : Settled(t)
  BY <1>s, SameKeeps, KeepsSettled
<1>o. ASSUME NEW s \in Subs, NEW new, sub' = [sub EXCEPT ![s] = new], Settled(s)
      PROVE  \A t \in Subs : Settled(t)
  BY <1>o, OneEdge, KeepsSettled
<1>1. CASE \/ \E keys \in SUBSET Keys : AppendWrite(keys)
           \/ PushSnapshot \/ UNCHANGED vars
  BY <1>1, <1>q, <1>s DEF AppendWrite, PushSnapshot, vars, managerVars
<1>2. CASE Shutdown
  <2>1. \A m \in Managers : /\ queue'[m] = <<>> /\ subscribers'[m] = {}
                            /\ closed_subscriptions'[m] = {}
    BY <1>2 DEF Shutdown
  <2> QED
    BY <2>1 DEF Places, QueueInv, SlabInv, SlotInv, SubscriberInv
<1>3. ASSUME NEW s \in Subs,
             \/ \E reads \in SUBSET Keys : RunQuery(s, reads)
             \/ RefreshReads(s) \/ SubscribeInvalid(s)
             \/ \E m \in Managers : SendFails(s, m)
      PROVE  Places'
  <2>1. UNCHANGED managerVars /\ sub[s].phase \in {"idle", "queried", "refreshed"}
    BY <1>3 DEF RunQuery, RefreshReads, SubscribeInvalid, SendFails
  <2>2. \A t \in Subs \ {s} : sub'[t] = sub[t]
    BY <1>3, Types DEF RunQuery, RefreshReads, SubscribeInvalid, SendFails
  <2>3. Settled(s)
    BY <2>1 DEF Settled
  <2> QED
    BY <1>q, <2>1, <2>2, <2>3, SameKeeps, KeepsSettled DEF managerVars
<1>4. ASSUME NEW s \in Subs, DropSubscription(s) PROVE Places'
  <2>1. UNCHANGED managerVars /\ sub[s] \in SubType
    BY <1>4, Types DEF DropSubscription
  <2>2. CASE sub[s].phase = "done"
    <3>1. sub' = [sub EXCEPT ![s] = Gone]
      BY <1>4, <2>2 DEF DropSubscription
    <3>2. Settled(s)
      BY <2>2 DEF Settled
    <3> QED
      BY <1>q, <1>o, <2>1, <3>1, <3>2 DEF managerVars
  <2>3. CASE sub[s].phase # "done"
    <3>1. sub' = [sub EXCEPT ![s] = [sub[s] EXCEPT !.held = FALSE]]
      BY <1>4, <2>3 DEF DropSubscription
    <3>2. Settled(s)
      <4>1. sub'[s] = [sub[s] EXCEPT !.held = FALSE]
        BY <3>1, OneEdge
      <4> QED
        BY <2>1, <4>1 DEF Settled, SameQuery, SubType
    <3> QED
      BY <1>q, <1>o, <2>1, <3>1, <3>2 DEF managerVars
  <2> QED
    BY <2>2, <2>3
<1>5. ASSUME NEW s \in Subs,
             (\E new_ts \in 0..snapshot_ts : ExtendStart(s, new_ts)) \/ ExtendFinish(s)
      PROVE  Places'
  BY <1>5, <1>q, <1>s DEF ExtendStart, ExtendFinish, managerVars
<1>6. ASSUME NEW s \in Subs, DeliverDelayed(s) PROVE Places'
  <2>1. /\ UNCHANGED managerVars /\ sub[s] \in SubType /\ sub \in [Subs -> SubType]
        /\ sub' = [sub EXCEPT ![s].watch = "invalid"]
    BY <1>6, Types DEF DeliverDelayed
  <2>2. sub' = [sub EXCEPT ![s] = [sub[s] EXCEPT !.watch = "invalid"]]
    BY <2>1
  <2>3. sub'[s] = [sub[s] EXCEPT !.watch = "invalid"]
    BY <2>2, OneEdge
  <2>4. Settled(s)
    BY <2>1, <2>3 DEF Settled, SameQuery, SubType
  <2> QED
    BY <1>q, <1>o, <2>1, <2>2, <2>4 DEF managerVars
<1>7. ASSUME NEW m \in Managers,
             \/ WaitForHigherTs(m) \/ SeesHigherTs(m) \/ UpdateProcessed(m)
             \/ \E ts \in Timestamps : EnforceRetention(m, ts)
      PROVE  Places'
  <2>1. /\ UNCHANGED <<queue, subscribers, closed_subscriptions, next_seq, processed_ts>>
        /\ sub' = sub
    BY <1>7 DEF WaitForHigherTs, SeesHigherTs, UpdateProcessed, EnforceRetention
  <2>2. CASE SeesHigherTs(m)
    <3>1. /\ pc' = [pc EXCEPT ![m] = "advance"] /\ next_ts' = [next_ts EXCEPT ![m] = max_ts]
      BY <2>2 DEF SeesHigherTs, LeaveSelect, higher_ts
    <3>2. \A n \in Managers : pc'[n] = "advance" =>
            next_ts'[n] = max_ts \/ (pc[n] = "advance" /\ next_ts'[n] = next_ts[n])
      BY <3>1 DEF TypeOK
    <3> QED
      BY <1>s, <2>1, <3>2, QuietStep
  <2>3. CASE ~SeesHigherTs(m)
    <3>1. PICK to \in {"waiting", "trim", "select"} :
            pc' = [pc EXCEPT ![m] = to] /\ next_ts' = next_ts
      BY <1>7, <2>3 DEF WaitForHigherTs, UpdateProcessed, EnforceRetention
    <3>2. \A n \in Managers : pc'[n] = "advance" =>
            pc[n] = "advance" /\ next_ts'[n] = next_ts[n]
      BY <3>1 DEF TypeOK
    <3> QED
      BY <1>s, <2>1, <3>2, QuietStep
  <2> QED
    BY <2>2, <2>3
<1>8. ASSUME NEW m \in Managers, ManagerStep(m) PROVE Places'
  BY <1>7, <1>8, SubscribePlaces, RefusedPlaces, RemovePlaces, AdvancePlaces DEF ManagerStep
<1> QED
  BY <1>1, <1>2, <1>3, <1>4, <1>5, <1>6, <1>8, SendPlaces DEF Next

-----------------------------------------------------------------------------
(* The theorems.                                                           *)

LEMMA InitInv ==
  ASSUME Init
  PROVE  Inv
<1>1. TypeOK
  BY InitType
<1>2. /\ writes = {} /\ purged_ts = 0 /\ snapshot_ts = 0
      /\ max_ts \in Timestamps /\ 0 <= max_ts
  BY <1>1, MaxTsFacts DEF Init
<1>3. \A m \in Managers :
        /\ pc[m] = "select" /\ next_ts[m] = 0 /\ processed_ts[m] = 0
        /\ processed_timestamps[m] = 0 /\ queue[m] = <<>> /\ subscribers[m] = {}
        /\ closed_subscriptions[m] = {}
  BY DEF Init
<1>4. \A s \in Subs :
        /\ sub[s].phase = "idle" /\ sub[s].begin = 0 /\ sub[s].valid_ts = None
        /\ sub[s].held = FALSE /\ extend[s].phase = "none"
  BY DEF Init, NoExtend
<1>5. LogOrder /\ TrimOrder
  BY <1>2, <1>3 DEF LogOrder, TrimOrder
<1>6. SubPhaseInv
  BY <1>2, <1>4 DEF SubPhaseInv, Timestamps, None
<1>7. QueueInv /\ SlabInv /\ SlotInv /\ SubscriberInv
  BY <1>3 DEF QueueInv, SlabInv, SlotInv, SubscriberInv
<1>8. ValiditySound /\ ExtendInv /\ ExtendSound /\ InvalidatedForCause
  BY <1>4 DEF ValiditySound, ExtendInv, ExtendSound, InvalidatedForCause
<1> QED
  BY <1>1, <1>5, <1>6, <1>7, <1>8 DEF Inv

LEMMA InvStep ==
  ASSUME Inv, [Next]_vars
  PROVE  Inv'
<1> USE DEF Inv
<1>1. TypeOK'
  BY NextType
<1>2. LogOrder' /\ TrimOrder'
  BY <1>1, OrderStep
<1>3. \A t \in Subs : SubEdge(t) /\ ExtendEdge(t)
  BY NextEdge, NextExtend
<1>4. SubPhaseInv'
  BY <1>1, <1>3, PhaseStep
<1>5. ValiditySound' /\ InvalidatedForCause'
  BY <1>1, <1>3, ValidityStep, CauseStep
<1>6. ExtendInv' /\ ExtendSound'
  BY <1>1, <1>3, ExtendStep
<1>7. Places'
  <2>1. Places
    BY DEF Places
  <2> QED
    BY <1>1, <1>2, <2>1, PlacesStep
<1>8. QueueInv' /\ SlabInv' /\ SlotInv' /\ SubscriberInv'
  BY <1>7 DEF Places
<1> QED
  BY <1>1, <1>2, <1>4, <1>5, <1>6, <1>8

\* The inductive invariant holds in every behaviour of the write log, the
\* subscription managers and their clients.
THEOREM SubscriptionsInvariant == Spec => []Inv
<1>1. Init => Inv
  BY InitInv
<1>2. Inv /\ [Next]_vars => Inv'
  BY InvStep
<1> QED
  BY <1>1, <1>2, PTL DEF Spec

\* The variables keep their types; a request channel never holds more than
\* SUBSCRIPTIONS_WORKER_QUEUE_SIZE requests.
THEOREM SubscriptionsTypeCorrect == Spec => []TypeOK
<1>1. Inv => TypeOK
  BY DEF Inv
<1> QED
  BY <1>1, SubscriptionsInvariant, PTL

\* RetentionCoordinator trims the log only below what every manager has
\* processed: advance_log always finds the range it needs, however far one
\* manager lags behind another.
THEOREM LogKeptForManagers == Spec => []ManagersInRetention
<1>1. Inv => ManagersInRetention
  <2> SUFFICES ASSUME Inv, NEW m \in Managers PROVE purged_ts <= processed_ts[m]
    BY DEF ManagersInRetention
  <2>1. /\ purged_ts <= processed_timestamps[m] /\ processed_timestamps[m] <= processed_ts[m]
        /\ purged_ts \in Timestamps /\ processed_ts[m] \in Timestamps
        /\ processed_timestamps[m] \in Timestamps
    BY Types DEF Inv, LogOrder, TrimOrder, TypeOK
  <2> QED
    BY <2>1 DEF Timestamps
<1> QED
  BY <1>1, SubscriptionsInvariant, PTL

\* A subscription that shows a valid_ts has missed no write, up to there,
\* that overlaps its reads: refresh_token, subscribe and advance_log together
\* cover every entry of the log, trimmed or not.
THEOREM ValidityIsSound == Spec => []ValiditySound
<1>1. Inv => ValiditySound
  BY DEF Inv
<1> QED
  BY <1>1, SubscriptionsInvariant, PTL

\* extend_validity answers "valid" at new_ts only when no write after the
\* query overlaps its reads, although it reads current_ts before the log.
THEOREM ExtensionsAreSound == Spec => []ExtendSound
<1>1. Inv => ExtendSound
  BY DEF Inv
<1> QED
  BY <1>1, SubscriptionsInvariant, PTL

\* A client that still holds its subscription is told it is invalid only for
\* a write that overlaps its reads or because its query left the log: the
\* key of an earlier subscriber of the slot does not remove it.
THEOREM InvalidationsHaveCause == Spec => []InvalidatedForCause
<1>1. Inv => InvalidatedForCause
  BY DEF Inv
<1> QED
  BY <1>1, SubscriptionsInvariant, PTL

\* What advance_log, subscribe and the drops of a sender do to valid_ts only
\* moves it forward, and an invalid subscription stays invalid.
THEOREM ValidityNeverMovesBack == Spec => ValidTsMonotone
<1>1. ASSUME Inv, [Next]_vars, NEW s \in Subs, sub[s].phase \notin {"idle", "queried"},
             sub'[s].valid_ts # None
      PROVE  sub[s].valid_ts # None /\ sub[s].valid_ts <= sub'[s].valid_ts
  <2>1. SubEdge(s) /\ sub[s].valid_ts \in Timestamps \cup {None}
    BY <1>1, NextEdge, Types DEF Inv, SubType
  <2>2. CASE SameValidity(s)
    BY <1>1, <2>1, <2>2 DEF SameValidity, Timestamps, None
  <2>3. CASE Advances(s)
    BY <1>1, <2>3 DEF Advances, Inv, SubPhaseInv
  <2>a. sub'[s] # Gone
    BY <1>1 DEF Gone
  <2>4. SameValidity(s) \/ Advances(s)
    BY <1>1, <2>1, <2>a DEF SubEdge, Keeps, Queries, Refreshed, Sent, Registered, Conflicts,
       ShutDown
  <2> QED
    BY <2>2, <2>3, <2>4
<1>2. Inv /\ [Next]_vars =>
        [\A s \in Subs : sub[s].phase \notin {"idle", "queried"} =>
           \/ sub'[s].valid_ts = None
           \/ sub[s].valid_ts # None /\ sub[s].valid_ts <= sub'[s].valid_ts]_sub
  BY <1>1
<1> QED
  BY <1>2, SubscriptionsInvariant, PTL DEF Spec, ValidTsMonotone

==============================================================================
