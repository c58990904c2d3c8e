-------------------------- MODULE SyncSessionProofs --------------------------
(***************************************************************************)
(* What a client shows of its queries, for any queries, identities,        *)
(* requests, connections and faults: results of one timestamp and one      *)
(* identity, never older than the ones before; and no mutation commits     *)
(* twice for a session.                                                    *)
(*                                                                         *)
(* The argument: for every message on its way to the client there is a     *)
(* view the server takes the client to have before it and one it has after *)
(* it; the client either is at that view or does not apply the message.    *)
(* The views exist in no variable: the invariant says that some do.        *)
(***************************************************************************)
EXTENDS SyncSession, FiniteSetTheorems, FunctionTheorems, SequenceTheorems, NaturalsInduction,
        WellFoundedInduction, TLAPS

-----------------------------------------------------------------------------
(* Types                                                                   *)

QueryUpdates == [op : {"Add", "Remove"}, id : Nat, token : Tokens]

ClientMessages ==
  [t : {"Connect"}, session : Nat]
    \cup [t : {"ModifyQuerySet"}, base : Nat, new : Nat, modifications : SUBSET QueryUpdates]
    \cup [t : {"Authenticate"}, base : Nat, token : Identities]
    \cup [t : {"Mutation", "Action", "none"}, req : Requests]

SocketRequests == [kind : {"Send", "Reconnect"}, m : ClientMessages, awaited : BOOLEAN]

PartialResults == UNION {[S -> Values] : S \in SUBSET QueryIds}

ServerMessages ==
  [t : {"Transition"}, start : Versions, end : Versions, updated : PartialResults, removed : SUBSET Nat]
    \cup [t : {"Response"}, typ : {"Mutation", "Action"}, req : Requests, result : Results, ts : Timestamps]
    \cup [t : {"Error", "Close"}]

\* Mutations an ended connection was asked to run.
Calls == [session : Nat, req : Nat, by : Nat]

Commits == [writes : SUBSET Tokens, session : Nat, req : Nat, by : Nat]

QueryStates == [phase : {"none", "in_progress", "live"}, token : Tokens \cup {None}, sub : SUBSET Nat,
                hash : SUBSET Values, future : BOOLEAN]

Mutations == [req : Requests, by : Identities, result : Results \cup {"none"}, ts : Timestamps]

Transitions == [busy : BOOLEAN, start : Versions, end : Versions, removed : SUBSET Nat,
                remaining : [QueryIds -> SUBSET Nat]]

Workers ==
  [alive : BOOLEAN, session : Nat, current_version : Versions, queries : [QueryIds -> QueryStates],
   identity : Identities, refill_needed : BOOLEAN, pending_query_updates : SUBSET QueryUpdates,
   pending_identity : SUBSET Identities, received : [query_set : Nat, identity : Nat],
   mutations : Seq(Mutations), actions : SUBSET Requests, ran : SUBSET Requests,
   transition : Transitions, update_scheduled : BOOLEAN, unavailable_retry : BOOLEAN]

Remotes == [version : Versions, set : [QueryIds -> SUBSET Values]]

ServerTypeOK ==
  /\ log \in Seq(Commits) /\ Len(log) <= MaxTs
  /\ worker \in Workers
  /\ zombies \in SUBSET (Seq(Calls) \ {<<>>})
  /\ faults \in Nat

LocalTypeOK ==
  /\ query_set \in [Tokens -> QueryIds \cup {None}] /\ num_subscribers \in [Tokens -> Nat]
  /\ next_query_id \in Nat /\ query_set_version \in Nat
  /\ auth_token \in Identities /\ identity_version \in Nat

ViewTypeOK ==
  /\ results \in [QueryIds -> SUBSET Values] /\ remote \in Remotes
  /\ requests \in [Requests -> [typ : {"Mutation", "Action", "none"},
                                status : {"none", "Requested", "Completed", "resolved"},
                                ts : Timestamps]]

ChannelTypeOK ==
  /\ up \in Seq(ClientMessages) /\ outgoing \in Seq(ClientMessages) /\ wsq \in Seq(SocketRequests)
  /\ down \in Seq(ServerMessages) /\ resp \in Seq(ServerMessages)

TypeOK ==
  /\ ServerTypeOK /\ LocalTypeOK /\ ViewTypeOK /\ ChannelTypeOK
  /\ failed \in BOOLEAN /\ restarted \in BOOLEAN /\ connection \in Nat
  /\ ws \in {"connecting", "connected", "draining"}

-----------------------------------------------------------------------------
(* Constants and operators                                                 *)

LEMMA QueryIdsNat ==
  /\ QueryIds \subseteq Nat /\ None \notin QueryIds
  /\ Requests \subseteq Nat /\ None \notin Requests
  /\ \A q \in QueryIds : \A p \in Nat : 1 <= p /\ p <= q => p \in QueryIds
<1>1. Cardinality(QueryIds) \in Nat /\ Cardinality(Requests) \in Nat
  BY SyncChannelAssumption, FS_CardinalityType
<1> QED
  BY <1>1, SyncChannelAssumption DEF None

LEMMA FunctionSeq ==
  ASSUME NEW S, NEW n \in Nat, NEW f \in [1..n -> S]
  PROVE  f \in Seq(S) /\ Len(f) = n
<1>1. f \in Seq(S)
  BY SeqDef
<1> QED
  BY <1>1, LenProperties

LEMMA IdentitiesNat == None \in Identities /\ AuthTokens \subseteq Identities /\ Identities \subseteq Nat
BY SyncChannelAssumption DEF Identities, None

LEMMA TimestampsNat == None \in Timestamps /\ 0 \in Timestamps /\ Timestamps \subseteq Nat
BY SyncChannelAssumption DEF Timestamps, None

LEMMA InitialVersionType == InitialVersion \in Versions
BY TimestampsNat DEF InitialVersion, Versions

\* What a set of numbers has below a bound has a greatest element.
LEMMA LeastNat ==
  ASSUME NEW S \in SUBSET Nat, S # {}
  PROVE  \E x \in S : \A y \in S : x <= y
<1>1. PICK x \in S : \A y \in S : ~(<<y, x>> \in OpToRel(<, Nat))
  BY NatLessThanWellFounded, WFMin
<1>2. ASSUME NEW y \in S, y < x PROVE <<y, x>> \in OpToRel(<, Nat)
  <2>1. <<y, x>> \in Nat \X Nat /\ <<y, x>>[1] < <<y, x>>[2]
    BY <1>2
  <2> QED
    BY <2>1, Zenon DEF OpToRel
<1>3. \A y \in S : ~(y < x)
  BY <1>1, <1>2
<1> QED
  BY <1>3

LEMMA MaxIsGreatest ==
  ASSUME NEW S \in SUBSET Nat, S # {}, NEW bound \in Nat, \A x \in S : x <= bound
  PROVE  Max(S) \in S /\ \A x \in S : x <= Max(S)
<1> DEFINE Bounds == {b \in Nat : \A x \in S : x <= b}
<1>1. bound \in Bounds
  OBVIOUS
<1>2. PICK b \in Bounds : \A c \in Bounds : b <= c
  BY <1>1, LeastNat
<1>3. b \in S
  <2>1. CASE b = 0
    <3>1. PICK x \in S : TRUE
      OBVIOUS
    <3>2. x \in Nat /\ x <= b
      BY <1>2
    <3> QED
      BY <2>1, <3>2
  <2>2. CASE b # 0
    <3>1. b - 1 \in Nat /\ b - 1 \notin Bounds
      BY <2>2, <1>2
    <3>2. PICK x \in S : ~(x <= b - 1)
      BY <3>1
    <3> QED
      BY <3>2, <1>2
  <2> QED
    BY <2>1, <2>2
<1>4. \E x \in S : \A y \in S : y <= x
  BY <1>2, <1>3
<1> QED
  BY <1>4 DEF Max

\* The last change of a query by ts.
LEMMA LastChange ==
  ASSUME NEW token, NEW who, NEW ts \in Nat
  PROVE  LET v == Value(token, who, ts) IN
         /\ v = [by |-> who, at |-> v.at] /\ v.at \in 0..ts
         /\ v.at # 0 => token \in log[v.at].writes
         /\ \A i \in 1..ts : token \in log[i].writes => i <= v.at
<1> DEFINE S == {0} \cup {i \in 1..ts : token \in log[i].writes}
<1>1. S \in SUBSET Nat /\ S # {} /\ \A x \in S : x <= ts
  OBVIOUS
<1>2. Max(S) \in S /\ \A x \in S : x <= Max(S)
  BY <1>1, MaxIsGreatest
<1>3. Value(token, who, ts) = [by |-> who, at |-> Max(S)]
  BY DEF Value
<1> HIDE DEF S
<1>4. Value(token, who, ts).at = Max(S)
  BY <1>3
<1> QED
  BY <1>2, <1>3, <1>4 DEF S

LEMMA ValueType ==
  ASSUME NEW token, NEW who \in Identities, NEW ts \in Timestamps
  PROVE  Value(token, who, ts) \in Values
<1>1. ts \in Nat /\ 0..ts \subseteq Timestamps
  BY SyncChannelAssumption DEF Timestamps
<1>2. Value(token, who, ts) = [by |-> who, at |-> Value(token, who, ts).at]
      /\ Value(token, who, ts).at \in 0..ts
  BY <1>1, LastChange
<1> QED
  BY <1>1, <1>2 DEF Values

LEMMA ClientMessageFields ==
  ASSUME NEW m \in ClientMessages
  PROVE  /\ m.t = "Connect" => m.session \in Nat
         /\ m.t = "ModifyQuerySet" => m.base \in Nat /\ m.new \in Nat /\ m.modifications \in SUBSET QueryUpdates
         /\ m.t = "Authenticate" => m.base \in Nat /\ m.token \in Identities
         /\ m.t \in {"Mutation", "Action"} => m.req \in Requests
BY DEF ClientMessages

LEMMA ServerMessageFields ==
  ASSUME NEW m \in ServerMessages
  PROVE  /\ m.t = "Transition" => /\ m.start \in Versions /\ m.end \in Versions
                                  /\ m.updated \in PartialResults /\ m.removed \in SUBSET Nat
         /\ m.t = "Response" => /\ m.req \in Requests /\ m.ts \in Timestamps
                                /\ m.typ \in {"Mutation", "Action"}
BY DEF ServerMessages

LEMMA PartialResult ==
  ASSUME NEW f
  PROVE  f \in PartialResults <=> \E S \in SUBSET QueryIds : f \in [S -> Values]
BY DEF PartialResults

LEMMA ServerMessageTypes ==
  /\ ErrorMessage \in ServerMessages /\ CloseFrame \in ServerMessages
  /\ \A start, end \in Versions, updated \in PartialResults, removed \in SUBSET Nat :
       Transition(start, end, updated, removed) \in ServerMessages
  /\ \A typ \in {"Mutation", "Action"}, req \in Requests, result \in Results, ts \in Timestamps :
       Response(typ, req, result, ts) \in ServerMessages
<1> HIDE DEF Versions, PartialResults, Results, Timestamps
<1> QED
  BY DEF ServerMessages, ErrorMessage, CloseFrame, Transition, Response

LEMMA ClientMessageTypes ==
  /\ \A session \in Nat : Connect(session) \in ClientMessages
  /\ \A base, new \in Nat, s \in SUBSET QueryUpdates : ModifyQuerySet(base, new, s) \in ClientMessages
  /\ \A base \in Nat, token \in Identities : Authenticate(base, token) \in ClientMessages
  /\ \A typ \in {"Mutation", "Action", "none"}, req \in Requests : Request(typ, req) \in ClientMessages
  /\ \A id \in Nat, t \in Tokens : AddQuery(id, t) \in QueryUpdates /\ RemoveQuery(id, t) \in QueryUpdates
<1> HIDE DEF Identities
<1> QED
  BY DEF ClientMessages, Connect, ModifyQuerySet, Authenticate, Request, AddQuery, RemoveQuery, QueryUpdates

-----------------------------------------------------------------------------
(* Type correctness: the server                                            *)

LEMMA NoQueryType == NoQuery \in QueryStates
BY DEF NoQuery, QueryStates

LEMMA NoTransitionType == NoTransition \in Transitions
<1>1. [q \in QueryIds |-> {}] \in [QueryIds -> SUBSET Nat]
  OBVIOUS
<1> QED
  BY <1>1, InitialVersionType DEF NoTransition, Transitions

LEMMA NewWorkerType == NewWorker \in Workers /\ NoWorker \in Workers
<1>1. [q \in QueryIds |-> NoQuery] \in [QueryIds -> QueryStates]
  BY NoQueryType
<1>2. <<>> \in Seq(Mutations)
  OBVIOUS
<1>3. NewWorker \in Workers
  BY <1>1, <1>2, NoTransitionType, InitialVersionType, IdentitiesNat DEF NewWorker, Workers, None
<1>4. NoWorker \in Workers
  BY <1>3 DEF NoWorker, Workers
<1> QED
  BY <1>3, <1>4

LEMMA IdentityType ==
  ASSUME NEW w \in Workers
  PROVE  Identity(w) \in Identities
<1>1. w.identity \in Identities /\ w.pending_identity \in SUBSET Identities
  BY DEF Workers
<1> QED
  BY <1>1 DEF Identity

\* The records an action of the worker makes of it.
LEMMA WorkerEdits ==
  ASSUME NEW w \in Workers
  PROVE  /\ \A s \in Nat : [w EXCEPT !.session = s] \in Workers
         /\ \A s \in Seq(Mutations) : [w EXCEPT !.mutations = s] \in Workers
         /\ \A s \in SUBSET Requests : [w EXCEPT !.actions = s] \in Workers
         /\ \A s \in SUBSET Requests : [w EXCEPT !.ran = s] \in Workers
         /\ ScheduleUpdate(w) \in Workers
         /\ [w EXCEPT !.unavailable_retry = FALSE] \in Workers
<1>1. ASSUME NEW s \in Nat PROVE [w EXCEPT !.session = s] \in Workers
  BY DEF Workers
<1>2. ASSUME NEW s \in Seq(Mutations) PROVE [w EXCEPT !.mutations = s] \in Workers
  BY DEF Workers
<1>3. ASSUME NEW s \in SUBSET Requests
      PROVE  [w EXCEPT !.actions = s] \in Workers /\ [w EXCEPT !.ran = s] \in Workers
  BY DEF Workers
<1>4. ScheduleUpdate(w) \in Workers /\ [w EXCEPT !.unavailable_retry = FALSE] \in Workers
  BY DEF Workers, ScheduleUpdate
<1> QED
  BY <1>1, <1>2, <1>3, <1>4

LEMMA ModifiedQuerySetType ==
  ASSUME NEW w \in Workers, NEW m \in ClientMessages, m.t = "ModifyQuerySet"
  PROVE  ModifiedQuerySet(w, m) \in Workers
<1>1. m.new \in Nat /\ m.modifications \in SUBSET QueryUpdates
  BY ClientMessageFields
<1>2. [w.received EXCEPT !.query_set = m.new] \in [query_set : Nat, identity : Nat]
      /\ w.pending_query_updates \cup m.modifications \in SUBSET QueryUpdates
  BY <1>1 DEF Workers
<1> QED
  BY <1>2 DEF ModifiedQuerySet, Workers

LEMMA ModifiedIdentityType ==
  ASSUME NEW w \in Workers, NEW m \in ClientMessages, m.t = "Authenticate"
  PROVE  ModifiedIdentity(w, m) \in Workers
<1>1. m.token \in Identities
  BY ClientMessageFields
<1>2. w.received.identity + 1 \in Nat
  BY DEF Workers
<1>3. [w.received EXCEPT !.identity = @ + 1] \in [query_set : Nat, identity : Nat]
  BY <1>2 DEF Workers
<1> QED
  BY <1>1, <1>3 DEF ModifiedIdentity, Workers

LEMMA UpdatedIdsType ==
  ASSUME NEW w \in Workers, NEW op
  PROVE  UpdatedIds(w, op) \in SUBSET Nat
BY DEF UpdatedIds, Updates, Workers, QueryUpdates

LEMMA TakenQueryType ==
  ASSUME NEW w \in Workers, NEW q \in QueryIds
  PROVE  TakenQuery(w, q) \in QueryStates
<1>1. CASE q \in UpdatedIds(w, "Remove")
  BY <1>1, NoQueryType DEF TakenQuery
<1>2. CASE q \notin UpdatedIds(w, "Remove") /\ q \in UpdatedIds(w, "Add")
  <2>1. \E u \in Updates(w, "Add") : u.id = q
    BY <1>2 DEF UpdatedIds
  <2> DEFINE u == CHOOSE u \in Updates(w, "Add") : u.id = q
  <2>2. u \in Updates(w, "Add")
    BY <2>1
  <2>3. u.token \in Tokens
    BY <2>2 DEF Updates, Workers, QueryUpdates
  <2>4. TakenQuery(w, q) = [NoQuery EXCEPT !.phase = "in_progress", !.token = u.token]
    BY <1>2 DEF TakenQuery
  <2> HIDE DEF u
  <2> QED
    BY <2>3, <2>4 DEF NoQuery, QueryStates
<1>3. CASE q \notin UpdatedIds(w, "Remove") /\ q \notin UpdatedIds(w, "Add")
  <2>1. w.queries[q] \in QueryStates
    BY DEF Workers
  <2>2. TakenQuery(w, q) = [w.queries[q] EXCEPT !.sub = {}, !.future = FALSE]
    BY <1>3 DEF TakenQuery
  <2> QED
    BY <2>1, <2>2 DEF QueryStates
<1> QED
  BY <1>1, <1>2, <1>3

LEMMA BeginUpdateFields ==
  ASSUME NEW w \in Workers
  PROVE  LET b == BeginUpdate(w) IN
         /\ b.alive = w.alive /\ b.session = w.session /\ b.current_version = w.current_version
         /\ b.received = w.received /\ b.mutations = w.mutations /\ b.actions = w.actions
         /\ b.ran = w.ran /\ b.unavailable_retry = w.unavailable_retry
         /\ b.pending_query_updates = {} /\ b.pending_identity = {} /\ b.identity = Identity(w)
         /\ b.queries = [q \in QueryIds |-> TakenQuery(w, q)]
         /\ b.update_scheduled = FALSE
         /\ b.refill_needed = (w.refill_needed \/ Present(w) # {} \/ UpdatedIds(w, "Add") # {})
         /\ b.transition =
              [busy |-> TRUE, start |-> w.current_version,
               end |-> [ts |-> TargetTs(w), query_set |-> w.received.query_set,
                        identity |-> IF w.pending_identity = {} THEN w.current_version.identity
                                     ELSE w.received.identity],
               removed |-> UpdatedIds(w, "Remove"),
               remaining |-> [q \in QueryIds |-> Remaining(w, q)]]
         /\ DOMAIN b = DOMAIN w
BY DEF BeginUpdate, Workers

LEMMA BeginUpdateType ==
  ASSUME NEW w \in Workers, Len(log) \in Timestamps
  PROVE  BeginUpdate(w) \in Workers
<1>1. [q \in QueryIds |-> TakenQuery(w, q)] \in [QueryIds -> QueryStates]
  BY TakenQueryType
<1>2. [q \in QueryIds |-> Remaining(w, q)] \in [QueryIds -> SUBSET Nat]
  BY DEF Remaining, Workers, QueryStates
<1>3. UpdatedIds(w, "Remove") \in SUBSET Nat
  BY UpdatedIdsType
<1>4. TargetTs(w) \in Timestamps
  BY DEF TargetTs, latest_timestamp
<1>5. w.current_version \in Versions /\ w.received \in [query_set : Nat, identity : Nat]
  BY DEF Workers
<1> DEFINE end == [ts |-> TargetTs(w), query_set |-> w.received.query_set,
                   identity |-> IF w.pending_identity = {} THEN w.current_version.identity
                                ELSE w.received.identity]
<1>6. end \in Versions
  BY <1>4, <1>5 DEF Versions
<1> HIDE DEF end
<1> DEFINE tr == [busy |-> TRUE, start |-> w.current_version, end |-> end,
                  removed |-> UpdatedIds(w, "Remove"),
                  remaining |-> [q \in QueryIds |-> Remaining(w, q)]]
<1>7. tr \in Transitions
  BY <1>2, <1>3, <1>5, <1>6 DEF Transitions
<1> HIDE DEF tr
<1>8. Identity(w) \in Identities
  BY IdentityType
<1>9. (w.refill_needed \/ Present(w) # {} \/ UpdatedIds(w, "Add") # {}) \in BOOLEAN
  OBVIOUS
<1>10. BeginUpdate(w) = [w EXCEPT
          !.pending_query_updates = {}, !.pending_identity = {}, !.identity = Identity(w),
          !.queries = [q \in QueryIds |-> TakenQuery(w, q)],
          !.refill_needed = @ \/ Present(w) # {} \/ UpdatedIds(w, "Add") # {},
          !.update_scheduled = FALSE, !.transition = tr]
  BY DEF BeginUpdate, tr, end
<1> QED
  BY <1>1, <1>7, <1>8, <1>9, <1>10 DEF Workers

LEMMA IterateType ==
  ASSUME NEW w \in Workers, NEW response \in Seq(ServerMessages), down \in Seq(ServerMessages),
         Len(log) \in Timestamps, Iterate(w, response)
  PROVE  /\ worker' \in {w, BeginUpdate(w)} /\ worker' \in Workers
         /\ down' = down \o response /\ down' \in Seq(ServerMessages) /\ zombies' = zombies
BY BeginUpdateType DEF Iterate

LEMMA UnansweredType ==
  ASSUME worker \in Workers
  PROVE  /\ Unanswered \in Seq(Calls)
         /\ Len(Unanswered) = Len(worker.mutations)
<1> DEFINE f == Unanswered
<1>1. worker.mutations \in Seq(Mutations) /\ worker.session \in Nat
  BY DEF Workers
<1>2. \A i \in 1..Len(worker.mutations) : worker.mutations[i] \in Mutations
  BY <1>1
<1>3. \A i \in 1..Len(worker.mutations) :
        worker.mutations[i].req \in Nat /\ worker.mutations[i].by \in Nat
  BY <1>2, QueryIdsNat, IdentitiesNat DEF Mutations
<1>4. DOMAIN worker.mutations = 1..Len(worker.mutations) /\ Len(worker.mutations) \in Nat
  BY <1>1
<1>5. Unanswered \in [1..Len(worker.mutations) -> Calls]
  BY <1>1, <1>3, <1>4 DEF Unanswered, Calls
<1> QED
  BY <1>4, <1>5, FunctionSeq

LEMMA CloseType ==
  ASSUME ServerTypeOK, down \in Seq(ServerMessages), NEW final \in Seq(ServerMessages),
         NEW n \in 0..Len(worker.mutations), Close(final, n)
  PROVE  /\ worker' = NoWorker /\ worker' \in Workers /\ down' \in Seq(ServerMessages)
         /\ zombies' \in SUBSET (Seq(Calls) \ {<<>>})
<1>1. <<CloseFrame>> \in Seq(ServerMessages)
  BY ServerMessageTypes
<1>2. PICK k \in 0..Len(down) : down' = SubSeq(down, 1, k) \o final \o <<CloseFrame>>
  BY DEF Close
<1>3. SubSeq(down, 1, k) \in Seq(ServerMessages)
  OBVIOUS
<1>4. down' \in Seq(ServerMessages)
  BY <1>1, <1>2, <1>3
<1>5. Unanswered \in Seq(Calls) /\ Len(Unanswered) = Len(worker.mutations)
  BY UnansweredType DEF ServerTypeOK
<1>6. SubSeq(Unanswered, 1, n) \in Seq(Calls)
  <2>1. worker.mutations \in Seq(Mutations)
    BY DEF ServerTypeOK, Workers
  <2>2. n \in Int /\ \A i \in 1..n : Unanswered[i] \in Calls
    BY <2>1, <1>5, ElementOfSeq
  <2> QED
    BY <2>2, SubSeqProperties
<1>7. zombies' \in SUBSET (Seq(Calls) \ {<<>>})
  BY <1>6 DEF Close, ServerTypeOK
<1> QED
  BY <1>4, <1>7, NewWorkerType DEF Close

\* What a step of the server leaves typed.
ServerStepOK == ServerTypeOK' /\ up' \in Seq(ClientMessages) /\ down' \in Seq(ServerMessages)

LEMMA LogTimestamp ==
  ASSUME ServerTypeOK
  PROVE  Len(log) \in Timestamps /\ Len(log) \in Nat
<1>1. Len(log) \in Nat /\ Len(log) <= MaxTs
  BY LenProperties DEF ServerTypeOK
<1> QED
  BY <1>1, SyncChannelAssumption DEF Timestamps

LEMMA IterateStep ==
  ASSUME TypeOK, NEW w \in Workers, NEW response \in Seq(ServerMessages), Iterate(w, response),
         log' = log, faults' = faults, up' \in Seq(ClientMessages)
  PROVE  ServerStepOK
<1>1. Len(log) \in Timestamps /\ down \in Seq(ServerMessages)
  BY LogTimestamp DEF TypeOK, ChannelTypeOK
<1>2. worker' \in Workers /\ down' \in Seq(ServerMessages) /\ zombies' = zombies
  BY <1>1, IterateType
<1> QED
  BY <1>2 DEF ServerStepOK, TypeOK, ServerTypeOK

LEMMA WorkerFailsStep ==
  ASSUME TypeOK, NEW final \in Seq(ServerMessages), WorkerFails(final),
         log' = log, faults' = faults, up' \in Seq(ClientMessages)
  PROVE  ServerStepOK
<1>1. worker.mutations \in Seq(Mutations)
  BY DEF TypeOK, ServerTypeOK, Workers
<1> DEFINE n == Min({1, Len(worker.mutations)})
<1>2. n \in 0..Len(worker.mutations)
  <2>1. Len(worker.mutations) \in Nat
    BY <1>1, LenProperties
  <2>2. \E x \in {1, Len(worker.mutations)} : \A y \in {1, Len(worker.mutations)} : x <= y
    BY <2>1
  <2>3. n \in {1, Len(worker.mutations)} /\ \A y \in {1, Len(worker.mutations)} : n <= y
    BY <2>2 DEF Min
  <2> QED
    BY <2>1, <2>3
<1>3. Close(final, n)
  BY DEF WorkerFails
<1> HIDE DEF n
<1>4. worker' \in Workers /\ down' \in Seq(ServerMessages) /\ zombies' \in SUBSET (Seq(Calls) \ {<<>>})
  BY <1>2, <1>3, CloseType DEF TypeOK, ChannelTypeOK
<1> QED
  BY <1>4 DEF ServerStepOK, TypeOK, ServerTypeOK

LEMMA NoMessages == <<>> \in Seq(ServerMessages) /\ <<ErrorMessage>> \in Seq(ServerMessages)
BY ServerMessageTypes

LEMMA HandleMessageType ==
  ASSUME TypeOK, HandleMessage
  PROVE  ServerStepOK
<1> DEFINE m == Head(up)
<1>1. up \in Seq(ClientMessages) /\ up # <<>> /\ worker \in Workers
  BY DEF TypeOK, ServerTypeOK, ChannelTypeOK, HandleMessage
<1>2. m \in ClientMessages /\ up' \in Seq(ClientMessages)
  BY <1>1, HeadTailProperties DEF HandleMessage
<1>3. log' = log /\ faults' = faults
  BY DEF HandleMessage
<1>4. HandleConnect(m) \/ HandleModifyQuerySet(m) \/ HandleAuthenticate(m) \/ HandleMutation(m) \/ HandleAction(m)
  BY DEF HandleMessage
<1> HIDE DEF m
<1>5. CASE HandleConnect(m)
  <2>1. m.session \in Nat
    BY <1>2, <1>5, ClientMessageFields DEF HandleConnect
  <2>2. [worker EXCEPT !.session = m.session] \in Workers
    BY <1>1, <2>1, WorkerEdits
  <2> QED
    BY <1>2, <1>3, <1>5, <2>2, NoMessages, IterateStep DEF HandleConnect
<1>6. CASE HandleModifyQuerySet(m)
  <2>1. ModifiedQuerySet(worker, m) \in Workers
    BY <1>1, <1>2, <1>6, ModifiedQuerySetType DEF HandleModifyQuerySet
  <2>2. ScheduleUpdate(ModifiedQuerySet(worker, m)) \in Workers
    BY <2>1, WorkerEdits
  <2>3. Iterate(ScheduleUpdate(ModifiedQuerySet(worker, m)), <<>>) \/ WorkerFails(<<ErrorMessage>>)
    BY <1>6 DEF HandleModifyQuerySet
  <2> QED
    BY <1>2, <1>3, <2>2, <2>3, NoMessages, IterateStep, WorkerFailsStep
<1>7. CASE HandleAuthenticate(m)
  <2>1. ModifiedIdentity(worker, m) \in Workers
    BY <1>1, <1>2, <1>7, ModifiedIdentityType DEF HandleAuthenticate
  <2>2. ScheduleUpdate(ModifiedIdentity(worker, m)) \in Workers
    BY <2>1, WorkerEdits
  <2>3. Iterate(ScheduleUpdate(ModifiedIdentity(worker, m)), <<>>) \/ WorkerFails(<<>>)
    BY <1>7 DEF HandleAuthenticate
  <2> QED
    BY <1>2, <1>3, <2>2, <2>3, NoMessages, IterateStep, WorkerFailsStep
<1>8. CASE HandleMutation(m)
  <2> DEFINE e == [req |-> m.req, by |-> Identity(worker), result |-> "none", ts |-> None]
  <2>1. m.req \in Requests
    BY <1>2, <1>8, ClientMessageFields DEF HandleMutation
  <2>2. Identity(worker) \in Identities
    BY <1>1, IdentityType
  <2>3. e \in Mutations
    BY <2>1, <2>2, TimestampsNat DEF Mutations
  <2> HIDE DEF e
  <2>4. worker.mutations \in Seq(Mutations)
    BY <1>1 DEF Workers
  <2>5. Append(worker.mutations, e) \in Seq(Mutations)
    BY <2>3, <2>4
  <2>6. [worker EXCEPT !.mutations = Append(worker.mutations, e)] \in Workers
    BY <1>1, <2>5, WorkerEdits
  <2>7. [worker EXCEPT !.mutations = Append(worker.mutations, e)] = [worker EXCEPT !.mutations = Append(@, e)]
    BY <1>1 DEF Workers
  <2>8. Iterate([worker EXCEPT !.mutations = Append(worker.mutations, e)], <<>>) \/ WorkerFails(<<>>)
    BY <1>8, <2>7 DEF HandleMutation, e
  <2> QED
    BY <1>2, <1>3, <2>6, <2>8, NoMessages, IterateStep, WorkerFailsStep
<1>9. CASE HandleAction(m)
  <2>1. m.req \in Requests
    BY <1>2, <1>9, ClientMessageFields DEF HandleAction
  <2>2. worker.actions \cup {m.req} \in SUBSET Requests
    BY <1>1, <2>1 DEF Workers
  <2>3. [worker EXCEPT !.actions = worker.actions \cup {m.req}] \in Workers
    BY <1>1, <2>2, WorkerEdits
  <2>4. [worker EXCEPT !.actions = worker.actions \cup {m.req}] = [worker EXCEPT !.actions = @ \cup {m.req}]
    BY <1>1 DEF Workers
  <2>5. Iterate([worker EXCEPT !.actions = worker.actions \cup {m.req}], <<>>) \/ WorkerFails(<<>>)
    BY <1>9, <2>4 DEF HandleAction
  <2> QED
    BY <1>2, <1>3, <2>3, <2>5, NoMessages, IterateStep, WorkerFailsStep
<1> QED
  BY <1>4, <1>5, <1>6, <1>7, <1>8, <1>9

LEMMA ConnectionBreaksType ==
  ASSUME TypeOK, ConnectionBreaks
  PROVE  ServerStepOK
<1>1. worker.mutations \in Seq(Mutations)
  BY DEF TypeOK, ServerTypeOK, Workers
<1>2. Len(worker.mutations) \in 0..Len(worker.mutations)
  BY <1>1, LenProperties
<1>3. Close(<<>>, Len(worker.mutations))
  BY DEF ConnectionBreaks
<1>4. worker' \in Workers /\ down' \in Seq(ServerMessages) /\ zombies' \in SUBSET (Seq(Calls) \ {<<>>})
  BY <1>2, <1>3, CloseType, NoMessages DEF TypeOK, ChannelTypeOK
<1>5. log' = log /\ faults' \in Nat /\ up' \in Seq(ClientMessages)
  BY EmptySeq DEF TypeOK, ServerTypeOK, ConnectionBreaks
<1> QED
  BY <1>4, <1>5 DEF ServerStepOK, TypeOK, ServerTypeOK

LEMMA CommitType ==
  ASSUME ServerTypeOK, Len(log) < MaxTs, NEW writes \in SUBSET Tokens, NEW session \in Nat,
         NEW req \in Nat, NEW by \in Nat, log' = Committed(writes, session, req, by)
  PROVE  log' \in Seq(Commits) /\ Len(log') <= MaxTs
<1> DEFINE c == [writes |-> writes, session |-> session, req |-> req, by |-> by]
<1>1. c \in Commits
  BY DEF Commits
<1>2. log' = Append(log, c) /\ log \in Seq(Commits)
  BY DEF Committed, ServerTypeOK
<1> HIDE DEF c
<1>3. log' \in Seq(Commits) /\ Len(log') = Len(log) + 1 /\ Len(log) \in Nat
  BY <1>1, <1>2
<1> QED
  BY <1>3, SyncChannelAssumption

LEMMA OthersWriteType ==
  ASSUME TypeOK, OthersWrite
  PROVE  ServerStepOK
<1>1. PICK writes \in (SUBSET Tokens) \ {{}} : log' = Committed(writes, None, None, None)
  BY DEF OthersWrite
<1>2. log' \in Seq(Commits) /\ Len(log') <= MaxTs
  BY <1>1, CommitType DEF OthersWrite, TypeOK, None
<1> QED
  BY <1>2 DEF OthersWrite, ServerStepOK, TypeOK, ServerTypeOK, ChannelTypeOK

LEMMA RunMutationType ==
  ASSUME ServerTypeOK, NEW m \in Calls, NEW result, NEW ts, RunMutation(m, result, ts)
  PROVE  log' \in Seq(Commits) /\ Len(log') <= MaxTs
<1>1. m.session \in Nat /\ m.req \in Nat /\ m.by \in Nat
  BY DEF Calls
<1>2. CASE UNCHANGED log
  BY <1>2 DEF ServerTypeOK
<1>3. CASE Len(log) < MaxTs /\ log' = Committed(Tokens, m.session, m.req, m.by)
  BY <1>1, <1>3, CommitType
<1> QED
  BY <1>2, <1>3 DEF RunMutation

LEMMA MutationRunsType ==
  ASSUME TypeOK, MutationRuns
  PROVE  ServerStepOK
<1>1. PICK result \in Results, ts \in Timestamps :
        /\ RunMutation(Unanswered[1], result, ts)
        /\ worker' = [worker EXCEPT !.mutations[1].result = result, !.mutations[1].ts = ts]
  BY DEF MutationRuns
<1>2. worker \in Workers /\ worker.mutations \in Seq(Mutations) /\ worker.mutations # <<>>
  BY DEF MutationRuns, TypeOK, ServerTypeOK, Workers
<1>3. 1 \in 1..Len(worker.mutations)
  BY <1>2, EmptySeq
<1>4. Unanswered[1] \in Calls
  BY <1>2, <1>3, UnansweredType, ElementOfSeq
<1>5. log' \in Seq(Commits) /\ Len(log') <= MaxTs
  BY <1>1, <1>4, RunMutationType DEF TypeOK
<1>6. worker.mutations[1] \in Mutations
  BY <1>2, <1>3, ElementOfSeq
<1> DEFINE e == [worker.mutations[1] EXCEPT !.result = result, !.ts = ts]
<1>7. e \in Mutations
  BY <1>6 DEF Mutations
<1>8. [worker.mutations EXCEPT ![1] = e] \in Seq(Mutations)
  BY <1>2, <1>3, <1>7, ExceptSeq
<1>9. worker' = [worker EXCEPT !.mutations = [worker.mutations EXCEPT ![1] = e]]
  <2>1. worker' = [worker EXCEPT !.mutations = [[worker.mutations EXCEPT ![1].result = result] EXCEPT ![1].ts = ts]]
    BY <1>1, <1>2 DEF Workers
  <2>2. [[worker.mutations EXCEPT ![1].result = result] EXCEPT ![1].ts = ts] = [worker.mutations EXCEPT ![1] = e]
    BY <1>2, <1>3, <1>6 DEF Mutations
  <2> QED
    BY <2>1, <2>2
<1>10. worker' \in Workers
  BY <1>2, <1>8, <1>9, WorkerEdits
<1> QED
  BY <1>5, <1>10 DEF MutationRuns, ServerStepOK, TypeOK, ServerTypeOK, ChannelTypeOK

LEMMA MutationRespondsType ==
  ASSUME TypeOK, MutationResponds
  PROVE  ServerStepOK
<1>1. worker \in Workers /\ worker.mutations \in Seq(Mutations) /\ worker.mutations # <<>>
  BY DEF MutationResponds, TypeOK, ServerTypeOK, Workers
<1> DEFINE m == worker.mutations[1]
<1>2. m \in Mutations
  BY <1>1, EmptySeq, ElementOfSeq
<1>3. m.result # "none" /\ m.req \in Requests /\ m.result \in Results /\ m.ts \in Timestamps
  BY <1>2 DEF MutationResponds, Mutations
<1>4. <<Response("Mutation", m.req, m.result, m.ts)>> \in Seq(ServerMessages)
  BY <1>3, ServerMessageTypes
<1>5. [worker EXCEPT !.mutations = Tail(worker.mutations)] \in Workers
  BY <1>1, HeadTailProperties, WorkerEdits
<1>6. [worker EXCEPT !.mutations = Tail(worker.mutations)] = [worker EXCEPT !.mutations = Tail(@)]
  BY <1>1 DEF Workers
<1>7. ScheduleUpdate([worker EXCEPT !.mutations = Tail(@)]) \in Workers
  BY <1>5, <1>6, WorkerEdits
<1> QED
  BY <1>4, <1>7, IterateStep DEF MutationResponds, TypeOK, ChannelTypeOK

LEMMA ZombieRunsType ==
  ASSUME TypeOK, ZombieRuns
  PROVE  ServerStepOK
<1>1. PICK z \in zombies :
        /\ zombies' = (zombies \ {z}) \cup ({Tail(z)} \ {<<>>})
        /\ \E result \in Results, ts \in Timestamps : RunMutation(z[1], result, ts)
  BY DEF ZombieRuns
<1>2. z \in Seq(Calls) /\ z # <<>>
  BY DEF TypeOK, ServerTypeOK
<1>3. z[1] \in Calls /\ Tail(z) \in Seq(Calls)
  BY <1>2, EmptySeq, ElementOfSeq, HeadTailProperties
<1>4. log' \in Seq(Commits) /\ Len(log') <= MaxTs
  BY <1>1, <1>3, RunMutationType DEF TypeOK
<1>5. zombies' \in SUBSET (Seq(Calls) \ {<<>>})
  BY <1>1, <1>3 DEF TypeOK, ServerTypeOK
<1> QED
  BY <1>4, <1>5 DEF ZombieRuns, ServerStepOK, TypeOK, ServerTypeOK, ChannelTypeOK

LEMMA ActionRunsType ==
  ASSUME TypeOK, ActionRuns
  PROVE  ServerStepOK
<1>1. PICK r \in worker.actions : worker' = [worker EXCEPT !.actions = @ \ {r}, !.ran = @ \cup {r}]
  BY DEF ActionRuns
<1>2. worker \in Workers /\ worker.actions \in SUBSET Requests /\ worker.ran \in SUBSET Requests
  BY DEF TypeOK, ServerTypeOK, Workers
<1>3. worker' \in Workers
  BY <1>1, <1>2 DEF Workers
<1> QED
  BY <1>3 DEF ActionRuns, ServerStepOK, TypeOK, ServerTypeOK, ChannelTypeOK

LEMMA ActionRespondsType ==
  ASSUME TypeOK, ActionResponds
  PROVE  ServerStepOK
<1>1. PICK r \in worker.ran :
        Iterate(ScheduleUpdate([worker EXCEPT !.ran = @ \ {r}]), <<Response("Action", r, "Value", None)>>)
  BY DEF ActionResponds
<1>2. worker \in Workers /\ worker.ran \in SUBSET Requests
  BY DEF TypeOK, ServerTypeOK, Workers
<1>3. [worker EXCEPT !.ran = @ \ {r}] \in Workers
  BY <1>2 DEF Workers
<1>4. ScheduleUpdate([worker EXCEPT !.ran = @ \ {r}]) \in Workers
  BY <1>3, WorkerEdits
<1>5. "Value" \in Results /\ r \in Requests
  BY <1>2 DEF Results
<1>6. <<Response("Action", r, "Value", None)>> \in Seq(ServerMessages)
  BY <1>5, ServerMessageTypes, TimestampsNat
<1> QED
  BY <1>1, <1>4, <1>6, IterateStep DEF ActionResponds, TypeOK, ChannelTypeOK

LEMMA QueryInvalidatedType ==
  ASSUME TypeOK, NEW q \in QueryIds, QueryInvalidated(q)
  PROVE  ServerStepOK
<1> DEFINE w == [worker EXCEPT !.queries[q].future = FALSE, !.refill_needed = TRUE]
<1>1. worker \in Workers /\ worker.queries \in [QueryIds -> QueryStates]
  BY DEF TypeOK, ServerTypeOK, Workers
<1>2. [worker.queries EXCEPT ![q].future = FALSE] \in [QueryIds -> QueryStates]
  BY <1>1 DEF QueryStates
<1>3. w \in Workers
  BY <1>1, <1>2 DEF Workers
<1>4. Iterate(ScheduleUpdate(w), <<>>)
  BY DEF QueryInvalidated
<1> HIDE DEF w
<1>5. ScheduleUpdate(w) \in Workers
  BY <1>3, WorkerEdits
<1> QED
  BY <1>4, <1>5, NoMessages, IterateStep DEF QueryInvalidated, TypeOK, ChannelTypeOK

LEMMA PresentType ==
  ASSUME NEW w \in Workers
  PROVE  /\ Present(w) \subseteq QueryIds
         /\ \A q \in QueryIds : q \in Present(w) <=> w.queries[q].phase \in {"live", "in_progress"}
BY DEF Present, InPhase

LEMMA NewHashType ==
  ASSUME worker \in Workers, NEW q \in QueryIds
  PROVE  LET v == Value(worker.queries[q].token, worker.identity, worker.transition.end.ts) IN
         NewHash(q) = {v} /\ v \in Values /\ (CHOOSE x \in NewHash(q) : TRUE) = v
<1> DEFINE v == Value(worker.queries[q].token, worker.identity, worker.transition.end.ts)
<1>1. worker.identity \in Identities /\ worker.transition.end.ts \in Timestamps
  BY DEF Workers, Transitions, Versions
<1>2. v \in Values
  BY <1>1, ValueType
<1>3. NewHash(q) = {v}
  BY DEF NewHash
<1> HIDE DEF v
<1>4. (CHOOSE x \in {v} : TRUE) = v
  OBVIOUS
<1> QED
  BY <1>2, <1>3, <1>4 DEF v

LEMMA FetchedQueryType ==
  ASSUME worker \in Workers, NEW q \in QueryIds, NEW result
  PROVE  FetchedQuery(q, result) \in QueryStates
<1>1. worker.queries[q] \in QueryStates /\ worker.transition.end.ts \in Nat
  BY TimestampsNat DEF Workers, Transitions, Versions
<1>2. NewHash(q) \in SUBSET Values
  BY NewHashType
<1> QED
  BY <1>1, <1>2 DEF FetchedQuery, QueryStates

\* The queries whose results a finished update sends.
Changes(fetched) == {q \in DOMAIN fetched : fetched[q] = "rerun" /\ worker.queries[q].hash # NewHash(q)}

\* The worker after a finished update.
Finished(fetched) ==
  [worker EXCEPT
     !.queries = [q \in QueryIds |-> IF q \in DOMAIN fetched THEN FetchedQuery(q, fetched[q])
                                     ELSE worker.queries[q]],
     !.refill_needed = FALSE, !.current_version = worker.transition.end,
     !.transition = NoTransition,
     !.unavailable_retry = @ \/ \E q \in DOMAIN fetched : fetched[q] = "unavailable"]

\* The message it sends.
Sent(fetched) ==
  Transition(worker.transition.start, worker.transition.end,
             [q \in Changes(fetched) |-> CHOOSE v \in NewHash(q) : TRUE], worker.transition.removed)

LEMMA FinishUpdateCases ==
  ASSUME NEW fetched, worker \in Workers, FinishUpdate(fetched)
  PROVE  WorkerFails(<<>>)
         \/ (~MissingSubscription(fetched) /\ Iterate(Finished(fetched), <<Sent(fetched)>>))
<1>1. CASE MissingSubscription(fetched)
  BY <1>1 DEF FinishUpdate
<1>2. CASE ~MissingSubscription(fetched)
  <2> DEFINE w == [worker EXCEPT
                      !.queries = [q \in QueryIds |-> IF q \in DOMAIN fetched
                                                      THEN FetchedQuery(q, fetched[q]) ELSE @[q]],
                      !.refill_needed = FALSE, !.current_version = worker.transition.end,
                      !.transition = NoTransition,
                      !.unavailable_retry = @ \/ \E q \in DOMAIN fetched : fetched[q] = "unavailable"]
  <2>1. Iterate(w, <<Sent(fetched)>>)
    BY <1>2 DEF FinishUpdate, Sent, Changes
  <2>2. w = Finished(fetched)
    BY DEF Finished, Workers
  <2> HIDE DEF w
  <2> QED
    BY <1>2, <2>1, <2>2
<1> QED
  BY <1>1, <1>2

LEMMA FinishedType ==
  ASSUME worker \in Workers, NEW fetched, DOMAIN fetched \subseteq QueryIds
  PROVE  Finished(fetched) \in Workers /\ Sent(fetched) \in ServerMessages
<1> DEFINE qs == [q \in QueryIds |-> IF q \in DOMAIN fetched THEN FetchedQuery(q, fetched[q])
                                     ELSE worker.queries[q]]
<1>1. qs \in [QueryIds -> QueryStates]
  BY FetchedQueryType DEF Workers
<1>2. worker.transition \in Transitions
  BY DEF Workers
<1>3. worker.transition.start \in Versions /\ worker.transition.end \in Versions
      /\ worker.transition.removed \in SUBSET Nat
  BY <1>2 DEF Transitions
<1>4. (worker.unavailable_retry \/ \E q \in DOMAIN fetched : fetched[q] = "unavailable") \in BOOLEAN
  OBVIOUS
<1> HIDE DEF qs
<1>5. Finished(fetched) = [worker EXCEPT
     !.queries = qs, !.refill_needed = FALSE, !.current_version = worker.transition.end,
     !.transition = NoTransition,
     !.unavailable_retry = @ \/ \E q \in DOMAIN fetched : fetched[q] = "unavailable"]
  BY DEF Finished, qs
<1>6. Finished(fetched) \in Workers
  BY <1>1, <1>3, <1>4, <1>5, NoTransitionType DEF Workers
<1>7. Changes(fetched) \in SUBSET QueryIds
  BY DEF Changes
<1>8. [q \in Changes(fetched) |-> CHOOSE v \in NewHash(q) : TRUE] \in [Changes(fetched) -> Values]
  BY <1>7, NewHashType
<1>9. [q \in Changes(fetched) |-> CHOOSE v \in NewHash(q) : TRUE] \in PartialResults
  BY <1>7, <1>8, PartialResult
<1>10. Sent(fetched) \in ServerMessages
  BY <1>3, <1>9, ServerMessageTypes DEF Sent
<1> QED
  BY <1>6, <1>10

LEMMA UpdateFinishesType ==
  ASSUME TypeOK, UpdateFinishes
  PROVE  ServerStepOK
<1>1. PICK fetched \in [Present(worker) -> {"rerun", "refresh", "unavailable"}] : FinishUpdate(fetched)
  BY DEF UpdateFinishes
<1>2. worker \in Workers
  BY DEF TypeOK, ServerTypeOK
<1>3. DOMAIN fetched \subseteq QueryIds
  BY <1>2, PresentType
<1>4. Finished(fetched) \in Workers /\ <<Sent(fetched)>> \in Seq(ServerMessages)
  BY <1>2, <1>3, FinishedType
<1>5. log' = log /\ faults' = faults /\ up' \in Seq(ClientMessages)
  BY EmptySeq DEF UpdateFinishes, TypeOK, ChannelTypeOK
<1>6. WorkerFails(<<>>) \/ Iterate(Finished(fetched), <<Sent(fetched)>>)
  BY <1>1, <1>2, FinishUpdateCases
<1> QED
  BY <1>4, <1>5, <1>6, NoMessages, IterateStep, WorkerFailsStep

LEMMA UnavailableRetryType ==
  ASSUME TypeOK, UnavailableRetry
  PROVE  ServerStepOK
<1>1. worker \in Workers
  BY DEF TypeOK, ServerTypeOK
<1>2. ScheduleUpdate([worker EXCEPT !.unavailable_retry = FALSE]) \in Workers
  BY <1>1, WorkerEdits
<1> QED
  BY <1>2, NoMessages, IterateStep DEF UnavailableRetry, TypeOK, ChannelTypeOK

LEMMA MessageConsumedType ==
  ASSUME TypeOK, MessageConsumed
  PROVE  ServerStepOK
<1>1. worker \in Workers
  BY DEF TypeOK, ServerTypeOK
<1> QED
  BY <1>1, NoMessages, IterateStep DEF MessageConsumed, TypeOK, ChannelTypeOK

LEMMA ServerNextType ==
  ASSUME TypeOK, ServerNext, UNCHANGED clientVars, restarted' \in BOOLEAN
  PROVE  TypeOK'
<1>1. ServerStepOK
  BY HandleMessageType, ConnectionBreaksType, OthersWriteType, MutationRunsType, MutationRespondsType,
     ZombieRunsType, ActionRunsType, ActionRespondsType, QueryInvalidatedType, UpdateFinishesType,
     UnavailableRetryType, MessageConsumedType DEF ServerNext
<1> QED
  BY <1>1 DEF ServerStepOK, TypeOK, LocalTypeOK, ViewTypeOK, ChannelTypeOK,
     clientVars, localVars, viewVars, taskVars

-----------------------------------------------------------------------------
(* Type correctness: the client                                            *)

RequestStates == [typ : {"Mutation", "Action", "none"},
                  status : {"none", "Requested", "Completed", "resolved"}, ts : Timestamps]

LEMMA RequestField ==
  ASSUME ViewTypeOK
  PROVE  /\ requests \in [Requests -> RequestStates]
         /\ \A r \in Requests : /\ requests[r].typ \in {"Mutation", "Action", "none"}
                                /\ requests[r].ts \in Nat
<1>1. requests \in [Requests -> RequestStates]
  BY DEF ViewTypeOK, RequestStates
<1> QED
  BY <1>1, TimestampsNat DEF RequestStates

\* The ongoing requests can be put in the order they are resent in: each at
\* the place the number of those before it gives.
LEMMA ResendsType ==
  ASSUME ViewTypeOK
  PROVE  /\ Cardinality(Ongoing) \in Nat
         /\ Resends \in [1..Cardinality(Ongoing) -> Ongoing]
         /\ \A i, j \in 1..Cardinality(Ongoing) : i < j => ResendOrder(Resends[i], Resends[j])
<1> DEFINE n == Cardinality(Ongoing)
           Below(r) == {s \in Ongoing : ResendOrder(s, r)}
           rank == [r \in Ongoing |-> Cardinality(Below(r)) + 1]
           seq == [i \in 1..n |-> CHOOSE r \in Ongoing : rank[r] = i]
<1>1. Ongoing \in SUBSET Requests /\ IsFiniteSet(Requests)
  BY SyncChannelAssumption DEF Ongoing
<1>2. IsFiniteSet(Ongoing)
  BY <1>1, FS_Subset
<1>3. n \in Nat
  BY <1>2, FS_CardinalityType
<1>4. \A r \in Ongoing : r \in Nat /\ requests[r].ts \in Nat
  BY <1>1, RequestField, QueryIdsNat
<1>5. /\ \A a, b \in Ongoing : a # b => ResendOrder(a, b) \/ ResendOrder(b, a)
      /\ \A a, b, c \in Ongoing : ResendOrder(a, b) /\ ResendOrder(b, c) => ResendOrder(a, c)
      /\ \A a \in Ongoing : ~ResendOrder(a, a)
  BY <1>4 DEF ResendOrder
<1>6. \A r \in Ongoing : IsFiniteSet(Below(r)) /\ Cardinality(Below(r)) \in Nat /\ rank[r] \in 1..n
  <2> SUFFICES ASSUME NEW r \in Ongoing
               PROVE  IsFiniteSet(Below(r)) /\ Cardinality(Below(r)) \in Nat /\ rank[r] \in 1..n
    OBVIOUS
  <2>1. Below(r) \in SUBSET (Ongoing \ {r})
    BY <1>5
  <2>2. IsFiniteSet(Ongoing \ {r}) /\ Cardinality(Ongoing \ {r}) = n - 1
    BY <1>2, FS_RemoveElement
  <2>3. IsFiniteSet(Below(r)) /\ Cardinality(Below(r)) <= n - 1
    BY <2>1, <2>2, FS_Subset
  <2>4. Cardinality(Below(r)) \in Nat
    BY <2>3, FS_CardinalityType
  <2> QED
    BY <1>3, <2>3, <2>4
<1>7. ASSUME NEW a \in Ongoing, NEW b \in Ongoing, ResendOrder(a, b)
      PROVE  rank[a] < rank[b]
  <2>1. Below(a) \in SUBSET Below(b) /\ a \in Below(b) /\ a \notin Below(a)
    BY <1>5, <1>7
  <2>2. Cardinality(Below(a)) <= Cardinality(Below(b)) /\ Cardinality(Below(a)) # Cardinality(Below(b))
    BY <1>6, <2>1, FS_Subset
  <2>3. Cardinality(Below(a)) \in Nat /\ Cardinality(Below(b)) \in Nat
    BY <1>6
  <2> HIDE DEF Below
  <2> QED
    BY <2>2, <2>3
<1>8. rank \in [Ongoing -> 1..n]
  BY <1>6
<1> HIDE DEF rank
<1>9. rank \in Surjection(Ongoing, 1..n)
  <2>1. \A a, b \in Ongoing : rank[a] = rank[b] => a = b
    BY <1>5, <1>7, <1>8
  <2>2. rank \in Injection(Ongoing, 1..n)
    BY <1>8, <2>1 DEF Injection, IsInjective
  <2>3. IsFiniteSet(1..n) /\ Cardinality(1..n) = n
    BY <1>3, FS_Interval
  <2> QED
    BY <2>2, <2>3, FS_Injection
<1>10. \A i \in 1..n : \E r \in Ongoing : rank[r] = i
  BY <1>9 DEF Surjection
<1>11. seq \in [1..n -> Ongoing] /\ \A i \in 1..n : rank[seq[i]] = i
  BY <1>10
<1> HIDE DEF seq
<1>12. \A i, j \in DOMAIN seq : i < j => ResendOrder(seq[i], seq[j])
  <2> SUFFICES ASSUME NEW i \in 1..n, NEW j \in 1..n, i < j
               PROVE  ResendOrder(seq[i], seq[j])
    BY <1>11
  <2>1. seq[i] \in Ongoing /\ seq[j] \in Ongoing /\ rank[seq[i]] < rank[seq[j]]
    BY <1>11
  <2>2. ~ResendOrder(seq[j], seq[i]) /\ seq[i] # seq[j]
    BY <1>3, <1>7, <1>11, <2>1
  <2> QED
    BY <1>5, <2>1, <2>2
<1>13. /\ Resends \in [1..n -> Ongoing]
       /\ \A i, j \in DOMAIN Resends : i < j => ResendOrder(Resends[i], Resends[j])
  BY <1>11, <1>12 DEF Resends
<1> QED
  BY <1>3, <1>13

LEMMA RestartRequestsType ==
  ASSUME ViewTypeOK
  PROVE  /\ RestartRequests \in Seq(ClientMessages)
         /\ \A i \in 1..Len(RestartRequests) : RestartRequests[i].t \in {"Mutation", "Action", "none"}
<1> DEFINE n == Cardinality(Ongoing)
<1>1. n \in Nat /\ Resends \in [1..n -> Ongoing] /\ Ongoing \subseteq Requests
  BY ResendsType DEF Ongoing
<1>2. \A i \in 1..n : Resends[i] \in Requests /\ requests[Resends[i]].typ \in {"Mutation", "Action", "none"}
  BY <1>1, RequestField
<1>3. RestartRequests \in [1..n -> ClientMessages]
  BY <1>2, ClientMessageTypes DEF RestartRequests
<1>4. RestartRequests \in Seq(ClientMessages) /\ Len(RestartRequests) = n
  BY <1>1, <1>3, FunctionSeq
<1>5. \A i \in 1..n : RestartRequests[i].t = requests[Resends[i]].typ
  BY DEF RestartRequests, Request
<1> QED
  BY <1>2, <1>4, <1>5

LEMMA QuerySetNat ==
  ASSUME LocalTypeOK, NEW t \in Tokens
  PROVE  query_set[t] \in Nat /\ (query_set[t] # None => query_set[t] \in QueryIds)
<1>1. query_set[t] \in QueryIds \cup {None}
  BY DEF LocalTypeOK
<1>2. None \in Nat /\ QueryIds \subseteq Nat
  BY QueryIdsNat DEF None
<1> QED
  BY <1>1, <1>2

LEMMA RestartStateType ==
  ASSUME LocalTypeOK
  PROVE  RestartState \in Seq(ClientMessages)
<1>1. \A t \in SubscribedTokens : t \in Tokens /\ query_set[t] \in Nat
  BY QuerySetNat DEF SubscribedTokens
<1> auth_token \in Identities
  BY DEF LocalTypeOK
<1>2. {AddQuery(query_set[t], t) : t \in SubscribedTokens} \in SUBSET QueryUpdates
  BY <1>1, ClientMessageTypes
<1>3. /\ ModifyQuerySet(0, 1, {AddQuery(query_set[t], t) : t \in SubscribedTokens}) \in ClientMessages
      /\ Authenticate(0, auth_token) \in ClientMessages
  BY <1>1, <1>2, ClientMessageTypes
<1> QED
  BY <1>3 DEF RestartState

LEMMA NoRemoteType == NoRemote \in Remotes
BY InitialVersionType DEF NoRemote, Remotes

LEMMA FailsType ==
  ASSUME wsq \in Seq(SocketRequests), Fails
  PROVE  /\ wsq' \in Seq(SocketRequests) /\ failed' = TRUE /\ Len(wsq') = Len(wsq)
         /\ \A i \in 1..Len(wsq) : wsq'[i].m = wsq[i].m /\ wsq'[i].kind = wsq[i].kind
<1>1. Len(wsq) \in Nat /\ DOMAIN wsq = 1..Len(wsq) /\ \A i \in 1..Len(wsq) : wsq[i] \in SocketRequests
  OBVIOUS
<1>2. \A i \in 1..Len(wsq) : [wsq[i] EXCEPT !.awaited = FALSE] \in SocketRequests
  BY <1>1 DEF SocketRequests
<1>3. wsq' = [i \in 1..Len(wsq) |-> [wsq[i] EXCEPT !.awaited = FALSE]]
  BY <1>1 DEF Fails
<1>4. wsq' \in [1..Len(wsq) -> SocketRequests]
  BY <1>2, <1>3
<1>5. \A i \in 1..Len(wsq) : wsq'[i].m = wsq[i].m /\ wsq'[i].kind = wsq[i].kind
  BY <1>1, <1>3 DEF SocketRequests
<1> QED
  BY <1>1, <1>4, <1>5, FunctionSeq DEF Fails

LEMMA SocketRequestTypes ==
  /\ \A m \in ClientMessages : SendMessage(m) \in SocketRequests
  /\ ReconnectRequest \in SocketRequests
<1>1. Connect(None) \in ClientMessages
  BY ClientMessageTypes DEF None
<1> HIDE DEF ClientMessages
<1> QED
  BY <1>1 DEF SendMessage, ReconnectRequest, SocketRequests

LEMMA SubscribeType ==
  ASSUME TypeOK, NEW t \in Tokens, Subscribe(t)
  PROVE  LocalTypeOK' /\ outgoing' \in Seq(ClientMessages)
<1>1. num_subscribers' \in [Tokens -> Nat]
  BY DEF Subscribe, TypeOK, LocalTypeOK
<1>2. CASE UNCHANGED <<query_set, next_query_id, query_set_version, outgoing>>
  BY <1>1, <1>2 DEF Subscribe, TypeOK, LocalTypeOK, ChannelTypeOK
<1>3. CASE /\ next_query_id \in QueryIds
           /\ query_set' = [query_set EXCEPT ![t] = next_query_id]
           /\ next_query_id' = next_query_id + 1
           /\ query_set_version' = query_set_version + 1
           /\ outgoing' = <<ModifyQuerySet(query_set_version, query_set_version + 1,
                                           {AddQuery(next_query_id, t)})>>
  <2>1. next_query_id \in Nat /\ query_set_version \in Nat /\ {AddQuery(next_query_id, t)} \in SUBSET QueryUpdates
    BY ClientMessageTypes DEF TypeOK, LocalTypeOK
  <2>2. outgoing' \in Seq(ClientMessages)
    BY <1>3, <2>1, ClientMessageTypes
  <2> QED
    BY <1>1, <1>3, <2>2 DEF Subscribe, TypeOK, LocalTypeOK
<1> QED
  BY <1>2, <1>3 DEF Subscribe

LEMMA UnsubscribeType ==
  ASSUME TypeOK, NEW t \in Tokens, Unsubscribe(t)
  PROVE  LocalTypeOK' /\ outgoing' \in Seq(ClientMessages)
<1>1. num_subscribers' \in [Tokens -> Nat]
  BY DEF Unsubscribe, TypeOK, LocalTypeOK
<1>2. CASE UNCHANGED <<query_set, query_set_version, outgoing>>
  BY <1>1, <1>2 DEF Unsubscribe, TypeOK, LocalTypeOK, ChannelTypeOK
<1>3. CASE /\ query_set' = [query_set EXCEPT ![t] = None]
           /\ query_set_version' = query_set_version + 1
           /\ outgoing' = <<ModifyQuerySet(query_set_version, query_set_version + 1,
                                           {RemoveQuery(query_set[t], t)})>>
  <2>1. query_set[t] \in Nat /\ query_set_version \in Nat
    BY QuerySetNat DEF TypeOK, LocalTypeOK
  <2>2. {RemoveQuery(query_set[t], t)} \in SUBSET QueryUpdates
    BY <2>1, ClientMessageTypes
  <2>3. outgoing' \in Seq(ClientMessages)
    BY <1>3, <2>1, <2>2, ClientMessageTypes
  <2> QED
    BY <1>1, <1>3, <2>3 DEF Unsubscribe, TypeOK, LocalTypeOK
<1> QED
  BY <1>2, <1>3 DEF Unsubscribe

LEMMA CallType ==
  ASSUME TypeOK, NEW r \in Requests, NEW typ \in RequestTypes, Call(r, typ)
  PROVE  ViewTypeOK' /\ outgoing' \in Seq(ClientMessages)
<1>1. typ \in {"Mutation", "Action"} /\ requests \in [Requests -> RequestStates]
  BY ConvexClientAssumption, RequestField DEF TypeOK
<1>2. [typ |-> typ, status |-> "Requested", ts |-> None] \in RequestStates
  BY <1>1, TimestampsNat DEF RequestStates
<1>3. requests' \in [Requests -> RequestStates]
  BY <1>1, <1>2 DEF Call
<1>4. outgoing' \in Seq(ClientMessages)
  BY <1>1, ClientMessageTypes DEF Call
<1> QED
  BY <1>3, <1>4 DEF Call, TypeOK, ViewTypeOK, RequestStates, viewVars

LEMMA SetAuthType ==
  ASSUME TypeOK, NEW token \in AuthTokens, SetAuth(token)
  PROVE  LocalTypeOK' /\ outgoing' \in Seq(ClientMessages)
<1>1. token \in Identities /\ identity_version \in Nat
  BY IdentitiesNat DEF TypeOK, LocalTypeOK
<1>2. outgoing' \in Seq(ClientMessages)
  BY <1>1, ClientMessageTypes DEF SetAuth
<1> QED
  BY <1>1, <1>2 DEF SetAuth, TypeOK, LocalTypeOK

LEMMA ApplyType ==
  ASSUME remote \in Remotes, NEW m \in ServerMessages, m.t = "Transition"
  PROVE  /\ ApplyModifications(m) \in [QueryIds -> SUBSET Values]
         /\ [version |-> m.end, set |-> ApplyModifications(m)] \in Remotes
<1>1. m.end \in Versions /\ m.updated \in PartialResults
  BY ServerMessageFields
<1>2. \A q \in DOMAIN m.updated : m.updated[q] \in Values
  BY <1>1, PartialResult
<1>3. ApplyModifications(m) \in [QueryIds -> SUBSET Values]
  BY <1>2 DEF ApplyModifications, Remotes
<1> QED
  BY <1>1, <1>3 DEF Remotes

LEMMA HandleResponseType ==
  ASSUME TypeOK, HandleResponse
  PROVE  /\ ViewTypeOK' /\ wsq' \in Seq(SocketRequests) /\ resp' \in Seq(ServerMessages)
         /\ failed' \in BOOLEAN
<1> DEFINE m == Head(resp)
<1>1. resp \in Seq(ServerMessages) /\ resp # <<>> /\ wsq \in Seq(SocketRequests) /\ failed \in BOOLEAN
  BY DEF HandleResponse, TypeOK, ChannelTypeOK
<1>2. m \in ServerMessages /\ resp' \in Seq(ServerMessages)
  BY <1>1, HeadTailProperties DEF HandleResponse
<1>3. requests \in [Requests -> RequestStates] /\ results \in [QueryIds -> SUBSET Values] /\ remote \in Remotes
  BY RequestField DEF TypeOK, ViewTypeOK
<1>4. Fails => wsq' \in Seq(SocketRequests) /\ failed' \in BOOLEAN
  BY <1>1, FailsType
<1>5. ReceiveTransition(m) \/ ReceiveResponse(m) \/ ReceiveFailure(m)
  BY DEF HandleResponse
<1> HIDE DEF m
<1>6. CASE ReceiveTransition(m)
  <2>1. CASE Fails /\ UNCHANGED <<viewVars, requests>>
    BY <1>2, <1>4, <2>1 DEF TypeOK, ViewTypeOK, viewVars
  <2>2. CASE m.start = remote.version
    <3>1. remote' = [version |-> m.end, set |-> ApplyModifications(m)] /\ m.t = "Transition"
      BY <1>6, <2>2 DEF ReceiveTransition
    <3>2. remote' \in Remotes
      BY <1>2, <1>3, <3>1, ApplyType
    <3>3. requests' = [r \in Requests |-> IF Resolved(r) THEN [requests[r] EXCEPT !.status = "resolved"]
                                          ELSE requests[r]]
      BY <1>6, <2>2 DEF ReceiveTransition
    <3>4. requests' \in [Requests -> RequestStates]
      BY <1>3, <3>3 DEF RequestStates
    <3>5. results' = [q \in QueryIds |-> IF q \in SubscribedIds /\ remote'.set[q] # {}
                                         THEN remote'.set[q] ELSE results[q]]
      BY <1>6, <2>2 DEF ReceiveTransition
    <3>6. results' \in [QueryIds -> SUBSET Values]
      BY <1>3, <3>2, <3>5 DEF Remotes
    <3>7. wsq' = wsq /\ failed' = failed
      BY <1>6, <2>2 DEF ReceiveTransition
    <3> QED
      BY <1>1, <1>2, <3>2, <3>4, <3>6, <3>7 DEF ViewTypeOK, RequestStates
  <2> QED
    BY <1>6, <2>1, <2>2 DEF ReceiveTransition
<1>7. CASE ReceiveResponse(m)
  <2>1. results' = results /\ remote' = remote
    BY <1>7 DEF ReceiveResponse, viewVars
  <2>2. CASE Fails /\ UNCHANGED requests
    BY <1>2, <1>4, <2>1, <2>2 DEF TypeOK, ViewTypeOK
  <2>3. CASE /\ requests' = [requests EXCEPT ![m.req] =
                          [@ EXCEPT !.ts = m.ts,
                                    !.status = IF m.typ = "Action" \/ m.result = "ErrorMessage"
                                               THEN "resolved" ELSE "Completed"]]
             /\ UNCHANGED <<failed, wsq>>
    <3>1. m.ts \in Timestamps
      BY <1>2, <1>7, ServerMessageFields DEF ReceiveResponse
    <3>2. requests' \in [Requests -> RequestStates]
      BY <1>3, <2>3, <3>1 DEF RequestStates
    <3> QED
      BY <1>1, <1>2, <1>3, <2>1, <2>3, <3>2 DEF ViewTypeOK, RequestStates
  <2> QED
    BY <1>7, <2>2, <2>3 DEF ReceiveResponse
<1>8. CASE ReceiveFailure(m)
  BY <1>2, <1>4, <1>8 DEF ReceiveFailure, TypeOK, ViewTypeOK, viewVars
<1> QED
  BY <1>5, <1>6, <1>7, <1>8

LEMMA ReconnectType ==
  ASSUME TypeOK, Reconnect
  PROVE  /\ LocalTypeOK' /\ ViewTypeOK'
         /\ outgoing' \in Seq(ClientMessages) /\ wsq' \in Seq(SocketRequests) /\ failed' \in BOOLEAN
<1>1. RestartState \in Seq(ClientMessages) /\ RestartRequests \in Seq(ClientMessages)
  BY RestartStateType, RestartRequestsType DEF TypeOK
<1>2. outgoing \in Seq(ClientMessages) /\ wsq \in Seq(SocketRequests)
  BY DEF TypeOK, ChannelTypeOK
<1>3. outgoing' \in Seq(ClientMessages)
  BY <1>1, <1>2 DEF Reconnect
<1>4. wsq' \in Seq(SocketRequests) /\ failed' \in BOOLEAN
  <2>1. wsq' = Append(wsq, ReconnectRequest) /\ failed' = FALSE /\ ReconnectRequest \in SocketRequests
    BY SocketRequestTypes DEF Reconnect
  <2> QED
    BY <1>2, <2>1, AppendProperties
<1>5. LocalTypeOK' /\ ViewTypeOK'
  BY NoRemoteType DEF Reconnect, TypeOK, LocalTypeOK, ViewTypeOK
<1> QED
  BY <1>3, <1>4, <1>5

\* The client's steps that no server step is part of.
LEMMA ClientStepType ==
  ASSUME TypeOK, Application \/ ClientTask, UNCHANGED serverVars, restarted' \in BOOLEAN
  PROVE  TypeOK'
<1>1. ServerTypeOK'
  BY DEF TypeOK, ServerTypeOK, serverVars
<1> USE <1>1
<1>2. ASSUME NEW t \in Tokens, Subscribe(t) PROVE TypeOK'
  BY <1>2, SubscribeType DEF Subscribe, TypeOK, ViewTypeOK, ChannelTypeOK, viewVars, taskVars
<1>3. ASSUME NEW t \in Tokens, Unsubscribe(t) PROVE TypeOK'
  BY <1>3, UnsubscribeType DEF Unsubscribe, TypeOK, ViewTypeOK, ChannelTypeOK, viewVars, taskVars
<1>4. ASSUME NEW r \in Requests, NEW typ \in RequestTypes, Call(r, typ) PROVE TypeOK'
  BY <1>4, CallType DEF Call, TypeOK, LocalTypeOK, ChannelTypeOK, localVars, taskVars
<1>5. ASSUME NEW token \in AuthTokens, SetAuth(token) PROVE TypeOK'
  BY <1>5, SetAuthType DEF SetAuth, TypeOK, ViewTypeOK, ChannelTypeOK, viewVars, taskVars
<1>6. CASE Flush
  <2>1. outgoing \in Seq(ClientMessages) /\ outgoing # <<>> /\ wsq \in Seq(SocketRequests)
    BY <1>6 DEF Flush, TypeOK, ChannelTypeOK
  <2>2. Head(outgoing) \in ClientMessages /\ Tail(outgoing) \in Seq(ClientMessages)
    BY <2>1, HeadTailProperties
  <2>3. wsq' \in Seq(SocketRequests) /\ outgoing' \in Seq(ClientMessages)
    BY <1>6, <2>1, <2>2, SocketRequestTypes DEF Flush
  <2> QED
    BY <1>6, <2>3 DEF Flush, TypeOK, LocalTypeOK, ViewTypeOK, ChannelTypeOK, localVars, viewVars
<1>7. CASE HandleResponse
  BY <1>7, HandleResponseType DEF HandleResponse, TypeOK, LocalTypeOK, ChannelTypeOK, localVars
<1>8. CASE Reconnect
  BY <1>8, ReconnectType DEF Reconnect, TypeOK, ChannelTypeOK
<1> QED
  BY <1>2, <1>3, <1>4, <1>5, <1>6, <1>7, <1>8 DEF Application, ClientTask

\* The steps of the WebSocket task.
LEMMA SocketStepType ==
  ASSUME TypeOK, WsTask \/ WsConnectFails, restarted' \in BOOLEAN
  PROVE  TypeOK'
<1> USE DEF TypeOK, localVars, viewVars
<1>1. /\ up \in Seq(ClientMessages) /\ wsq \in Seq(SocketRequests)
      /\ down \in Seq(ServerMessages) /\ resp \in Seq(ServerMessages)
  BY DEF ChannelTypeOK
<1>2. Append(resp, CloseFrame) \in Seq(ServerMessages)
  BY <1>1, ServerMessageTypes
<1>3. wsq # <<>> => Tail(wsq) \in Seq(SocketRequests) /\ Head(wsq) \in SocketRequests
  BY <1>1, HeadTailProperties
<1>4. CASE WsReceive /\ UNCHANGED serverVars
  <2>1. Head(down) \in ServerMessages /\ down' \in Seq(ServerMessages)
    BY <1>1, <1>4, HeadTailProperties DEF WsReceive
  <2>2. \/ resp' = Append(resp, CloseFrame) /\ ws' = "draining"
        \/ resp' = Append(resp, Head(down)) /\ ws' = "connected"
    BY <1>4 DEF WsReceive, WsFails
  <2>3. resp' \in Seq(ServerMessages) /\ ws' \in {"connected", "draining"}
    <3>1. Append(resp, Head(down)) \in Seq(ServerMessages)
      BY <1>1, <2>1, AppendProperties
    <3> QED
      BY <1>2, <2>2, <3>1, Zenon
  <2> QED
    BY <1>4, <2>1, <2>3 DEF WsReceive, ServerTypeOK, LocalTypeOK, ViewTypeOK, ChannelTypeOK, serverVars
<1>5. CASE WsDrain /\ UNCHANGED serverVars
  BY <1>3, <1>5 DEF WsDrain, ServerTypeOK, LocalTypeOK, ViewTypeOK, ChannelTypeOK, serverVars
<1>6. CASE WsConnect
  <2>1. up' \in Seq(ClientMessages) /\ connection' \in Nat /\ down' \in Seq(ServerMessages)
    BY <1>6, ClientMessageTypes, EmptySeq DEF WsConnect
  <2> QED
    BY <1>6, <2>1, NewWorkerType DEF WsConnect, ServerTypeOK, LocalTypeOK, ViewTypeOK, ChannelTypeOK
<1>7. CASE WsConnectFails
  BY <1>2, <1>7 DEF WsConnectFails, WsFails, ServerTypeOK, LocalTypeOK, ViewTypeOK, ChannelTypeOK
<1>8. CASE WsSend
  <2>1. Head(wsq).m \in ClientMessages /\ wsq' \in Seq(SocketRequests)
    BY <1>3, <1>8 DEF WsSend, SocketRequests
  <2>2. up' \in Seq(ClientMessages) /\ resp' \in Seq(ServerMessages) /\ ws' \in {"connected", "draining"}
    <3>1. \/ up' \in {up, Append(up, Head(wsq).m)} /\ resp' = resp /\ ws' = ws /\ ws = "connected"
          \/ up' = up /\ resp' = Append(resp, CloseFrame) /\ ws' = "draining"
      BY <1>8 DEF WsSend, WsFails
    <3>2. Append(up, Head(wsq).m) \in Seq(ClientMessages)
      BY <1>1, <2>1, AppendProperties
    <3> QED
      BY <1>1, <1>2, <3>1, <3>2, Zenon
  <2> QED
    BY <1>8, <2>1, <2>2 DEF WsSend, ServerTypeOK, LocalTypeOK, ViewTypeOK, ChannelTypeOK, serverVars
<1>9. CASE WsReconnect
  <2>1. Unanswered \in Seq(Calls)
    BY UnansweredType DEF ServerTypeOK
  <2>2. zombies' \in SUBSET (Seq(Calls) \ {<<>>})
    BY <1>9, <2>1 DEF WsReconnect, ServerTypeOK
  <2>3. up' \in Seq(ClientMessages) /\ down' \in Seq(ServerMessages) /\ wsq' \in Seq(SocketRequests)
    BY <1>3, <1>9, EmptySeq DEF WsReconnect
  <2> QED
    BY <1>9, <2>2, <2>3, NewWorkerType DEF WsReconnect, ServerTypeOK, LocalTypeOK, ViewTypeOK, ChannelTypeOK
<1> QED
  BY <1>4, <1>5, <1>6, <1>7, <1>8, <1>9 DEF WsTask

LEMMA InitType == Init => TypeOK
<1> SUFFICES ASSUME Init PROVE TypeOK
  OBVIOUS
<1>1. ServerTypeOK
  <2>1. log = <<>> /\ Len(log) = 0 /\ log \in Seq(Commits)
    BY EmptySeq DEF Init, ServerInit
  <2> QED
    BY <2>1, NewWorkerType, SyncChannelAssumption DEF Init, ServerInit, ServerTypeOK
<1>2. LocalTypeOK
  BY IdentitiesNat DEF Init, ClientInit, LocalTypeOK, None
<1>3. ViewTypeOK
  <2>1. NoRequest \in RequestStates
    BY TimestampsNat DEF NoRequest, RequestStates
  <2> QED
    BY <2>1, NoRemoteType DEF Init, ClientInit, ViewTypeOK, RequestStates
<1>4. ChannelTypeOK
  BY EmptySeq DEF Init, ClientInit, ChannelTypeOK
<1> QED
  BY <1>1, <1>2, <1>3, <1>4 DEF Init, ClientInit, TypeOK

LEMMA NextType == TypeOK /\ [Next]_vars => TypeOK'
<1> SUFFICES ASSUME TypeOK, [Next]_vars PROVE TypeOK'
  OBVIOUS
<1>1. CASE Next
  <2>1. restarted' \in BOOLEAN
    BY <1>1 DEF Next
  <2>2. SystemNext
    BY <1>1 DEF Next
  <2> QED
    BY <2>1, <2>2, ServerNextType, ClientStepType, SocketStepType DEF SystemNext
<1>2. CASE UNCHANGED vars
  BY <1>2 DEF vars, systemVars, serverVars, clientVars, localVars, viewVars, taskVars,
     TypeOK, ServerTypeOK, LocalTypeOK, ViewTypeOK, ChannelTypeOK
<1> QED
  BY <1>1, <1>2

\* The messages, the worker's state and the client's state have the types of
\* convex/sync_types, SyncState and LocalSyncState, whatever breaks when.
THEOREM SessionTyped == Spec => []TypeOK
BY InitType, NextType, PTL DEF Spec

-----------------------------------------------------------------------------
(* Mutations and their sessions                                            *)

\* A commit that is no mutation of a session that committed before.
Admissible(c) == c \in Commits /\ (c.req = None \/ Recorded(c.session, c.req) = {})

LogStep == log' = log \/ \E c \in Commits : Admissible(c) /\ log' = Append(log, c)

LEMMA RunMutationLog ==
  ASSUME NEW m \in Calls, NEW result, NEW ts, RunMutation(m, result, ts)
  PROVE  LogStep
<1>1. CASE UNCHANGED log
  BY <1>1 DEF LogStep
<1>2. CASE Recorded(m.session, m.req) = {} /\ log' = Committed(Tokens, m.session, m.req, m.by)
  <2> DEFINE c == [writes |-> Tokens, session |-> m.session, req |-> m.req, by |-> m.by]
  <2>1. c \in Commits
    BY DEF Commits, Calls
  <2>2. c.session = m.session /\ c.req = m.req /\ log' = Append(log, c)
    BY <1>2 DEF Committed
  <2> HIDE DEF c
  <2> QED
    BY <1>2, <2>1, <2>2 DEF LogStep, Admissible
<1> QED
  BY <1>1, <1>2 DEF RunMutation

LEMMA LogSteps ==
  ASSUME TypeOK, [Next]_vars
  PROVE  LogStep
<1>1. CASE log' = log
  BY <1>1 DEF LogStep
<1>2. CASE OthersWrite
  <2>1. PICK writes \in (SUBSET Tokens) \ {{}} : log' = Committed(writes, None, None, None)
    BY <1>2 DEF OthersWrite
  <2> DEFINE c == [writes |-> writes, session |-> None, req |-> None, by |-> None]
  <2>2. c \in Commits /\ c.req = None /\ log' = Append(log, c)
    BY <2>1 DEF Commits, Committed, None
  <2> HIDE DEF c
  <2> QED
    BY <2>2 DEF LogStep, Admissible
<1>3. CASE MutationRuns
  <2>1. worker \in Workers /\ worker.mutations \in Seq(Mutations) /\ worker.mutations # <<>>
    BY <1>3 DEF MutationRuns, TypeOK, ServerTypeOK, Workers
  <2>2. Unanswered[1] \in Calls
    BY <2>1, EmptySeq, UnansweredType, ElementOfSeq
  <2> QED
    BY <1>3, <2>2, RunMutationLog DEF MutationRuns
<1>4. CASE ZombieRuns
  <2>1. PICK z \in zombies : \E result \in Results, ts \in Timestamps : RunMutation(z[1], result, ts)
    BY <1>4 DEF ZombieRuns
  <2>2. z \in Seq(Calls) /\ z # <<>>
    BY DEF TypeOK, ServerTypeOK
  <2>3. z[1] \in Calls
    BY <2>2, EmptySeq, ElementOfSeq
  <2> QED
    BY <2>1, <2>3, RunMutationLog
<1>5. CASE SystemNext /\ ~OthersWrite /\ ~MutationRuns /\ ~ZombieRuns
  <2>1. CASE ServerNext
    BY <1>1, <1>5, <2>1 DEF ServerNext, HandleMessage, ConnectionBreaks, MutationResponds, ActionRuns,
       ActionResponds, QueryInvalidated, UpdateFinishes, UnavailableRetry, MessageConsumed
  <2>2. CASE UNCHANGED serverVars
    BY <1>1, <2>2 DEF serverVars
  <2>3. CASE WsTask \/ WsConnectFails
    BY <1>1, <2>3 DEF WsTask, WsConnect, WsConnectFails, WsSend, WsReconnect, serverVars
  <2> QED
    BY <1>5, <2>1, <2>2, <2>3 DEF SystemNext
<1> QED
  BY <1>1, <1>2, <1>3, <1>4, <1>5 DEF Next, vars, systemVars, serverVars

LEMMA OncePreserved == TypeOK /\ OncePerSession /\ [Next]_vars => OncePerSession'
<1> SUFFICES ASSUME TypeOK, OncePerSession, [Next]_vars PROVE OncePerSession'
  OBVIOUS
<1>1. log \in Seq(Commits)
  BY DEF TypeOK, ServerTypeOK
<1>2. CASE log' = log
  BY <1>2 DEF OncePerSession
<1>3. ASSUME NEW c \in Commits, Admissible(c), log' = Append(log, c)
      PROVE  OncePerSession'
  <2>1. Len(log) \in Nat /\ DOMAIN log = 1..Len(log) /\ DOMAIN log' = 1..(Len(log) + 1)
        /\ \A i \in 1..(Len(log) + 1) : log'[i] = IF i <= Len(log) THEN log[i] ELSE c
    BY <1>1, <1>3
  <2>2. \A i \in 1..Len(log) : c.req = None \/ log[i].session # c.session \/ log[i].req # c.req
    BY <1>3, <2>1 DEF Admissible, Recorded
  <2>3. \A i, j \in 1..Len(log) :
          (log[i].req # None /\ log[i].session = log[j].session /\ log[i].req = log[j].req) => i = j
    BY <2>1 DEF OncePerSession
  <2>4. ASSUME NEW i \in 1..(Len(log) + 1), NEW j \in 1..(Len(log) + 1),
               log'[i].req # None, log'[i].session = log'[j].session, log'[i].req = log'[j].req
        PROVE  i = j
    <3>1. (i <= Len(log) /\ log'[i] = log[i]) \/ (i = Len(log) + 1 /\ log'[i] = c)
      BY <2>1
    <3>2. (j <= Len(log) /\ log'[j] = log[j]) \/ (j = Len(log) + 1 /\ log'[j] = c)
      BY <2>1
    <3> QED
      BY <2>1, <2>2, <2>3, <2>4, <3>1, <3>2
  <2> QED
    BY <2>1, <2>4 DEF OncePerSession
<1> QED
  BY <1>2, <1>3, LogSteps DEF LogStep

\* A mutation is looked up by session and request before it runs, in the
\* transaction that commits it: however often a client sends it, over however
\* many connections, and also when it runs after its connection ended, it
\* commits once.
THEOREM MutationsOnce == Spec => []OncePerSession
<1>1. Init => OncePerSession
  <2> SUFFICES ASSUME Init PROVE OncePerSession
    OBVIOUS
  <2>1. DOMAIN log = {}
    BY DEF Init, ServerInit
  <2> QED
    BY <2>1 DEF OncePerSession
<1> QED
  BY <1>1, OncePreserved, SessionTyped, PTL DEF Spec

-----------------------------------------------------------------------------
(* What the client shows                                                   *)
(*                                                                         *)
(* The query ids the client has given out and their tokens are in no       *)
(* variable once a query is unsubscribed: tok is a function that knows     *)
(* them.                                                                   *)

\* The results of r are those of one timestamp, for one identity.
Snapshot(r, tok, who) == \A q \in QueryIds : r.set[q] \subseteq {Value(tok[q], who, r.version.ts)}

\* A view at the client's query set version lacks no result.
Complete(r) ==
  r.version.query_set = query_set_version =>
    \A t \in SubscribedTokens \ SearchTokens : r.set[query_set[t]] # {}

\* r is a view of the client's queries that a server may have led it to.
Good(r, tok) ==
  /\ r \in Remotes /\ r.version.ts <= Len(log)
  /\ \A q \in QueryIds : r.version.query_set = 0 \/ q >= next_query_id => r.set[q] = {}
  /\ \E who \in Identities :
       /\ Snapshot(r, tok, who)
       /\ ~restarted /\ r.version.identity = identity_version => who = auth_token
  /\ ~restarted => /\ r.version.identity <= identity_version
                   /\ r.version.query_set <= query_set_version
                   /\ Complete(r)

\* The view that message m makes of view r.
Applied(r, m) ==
  [version |-> m.end,
   set |-> [q \in QueryIds |-> IF q \in DOMAIN m.updated THEN {m.updated[q]}
                               ELSE IF q \in m.removed THEN {} ELSE r.set[q]]]

\* What the server takes the client to show, and a bound on the timestamps of
\* the results that subscribers have by then.
Views == [rem : Remotes, seen : Nat]

\* Message m takes the client from view v to view w, or a new connection to
\* the empty view.
Link(m, v, w, tok) ==
  /\ v.seen <= w.seen
  /\ m.t = "Transition" =>
       /\ m.start = v.rem.version /\ v.seen <= m.end.ts /\ m.end.ts <= w.seen
       /\ Good(Applied(v.rem, m), tok)
       /\ w.rem \in {Applied(v.rem, m), NoRemote}
  /\ m.t # "Transition" => w.rem \in {v.rem, NoRemote}

Chain(messages, vs, tok) ==
  /\ vs \in [1..(Len(messages) + 1) -> Views]
  /\ \A i \in 1..(Len(messages) + 1) : Good(vs[i].rem, tok) /\ vs[i].seen <= Len(log)
  /\ \A i \in 1..Len(messages) : Link(messages[i], vs[i], vs[i + 1], tok)

\* What the client has still to handle of its connection.
Incoming == IF ws = "connected" THEN resp \o down ELSE resp

(* What the client asks for *)

GoodUpdate(u, tok) ==
  /\ u.id \in QueryIds /\ u.id < next_query_id
  /\ u.op = "Add" => u.token = tok[u.id]
  /\ u.op = "Remove" => u.id \notin SubscribedIds

GoodMessage(m, tok) ==
  /\ m.t = "ModifyQuerySet" =>
       /\ m.new = m.base + 1
       /\ \A u \in m.modifications : GoodUpdate(u, tok)
       /\ ~restarted => m.new <= query_set_version
  /\ m.t = "Authenticate" /\ ~restarted =>
       /\ m.base < identity_version
       /\ m.base + 1 = identity_version => m.token = auth_token

Adds(m, q) == m.t = "ModifyQuerySet" /\ \E u \in m.modifications : u.op = "Add" /\ u.id = q

\* Message m was sent before message n.
Precedes(m, n) ==
  /\ \A q \in QueryIds : Adds(m, q) /\ Adds(n, q) => n.base = 0
  /\ ~restarted /\ m.t = "ModifyQuerySet" /\ n.t = "ModifyQuerySet" => m.base < n.base

\* The worker has the query or is asked to add it.
Holds(w, q) == w.queries[q].phase # "none" \/ \E u \in w.pending_query_updates : u.op = "Add" /\ u.id = q

\* Message m was sent after those the worker has handled.
Follows(w, m) ==
  /\ \A q \in QueryIds : Adds(m, q) /\ Holds(w, q) => m.base = 0
  /\ ~restarted /\ m.t = "ModifyQuerySet" => w.received.query_set <= m.base

(* The same of sequences of messages *)

AllGood(s, tok) == \A i \in 1..Len(s) : GoodMessage(s[i], tok)
InOrder(s) == \A i, j \in 1..Len(s) : i < j => Precedes(s[i], s[j])
AllPrecede(s, t) == \A i \in 1..Len(s), j \in 1..Len(t) : Precedes(s[i], t[j])
AllFollow(w, s) == \A i \in 1..Len(s) : Follows(w, s[i])
Added(s, q) == \E i \in 1..Len(s) : Adds(s[i], q)
Line(s, w, tok) == AllGood(s, tok) /\ InOrder(s) /\ AllFollow(w, s)

\* The messages in the requests to the WebSocket task.
Messages(s) == [i \in 1..Len(s) |-> s[i].m]

\* What is on its way from the client to the server.
Pipeline == up \o (Messages(wsq) \o outgoing)

\* The worker, or the one that will be there next, gets what is sent.
Reachable == worker.alive \/ ws = "connecting"

(* The worker; v is the view the client has once it has handled Incoming *)

QueriesOK(w, tok) ==
  \A q \in QueryIds :
    /\ w.queries[q].phase # "none" => w.queries[q].token = tok[q] /\ q < next_query_id
    /\ w.queries[q].phase # "live" => w.queries[q].hash = {} /\ w.queries[q].sub = {}
    /\ w.queries[q].phase = "live" => w.queries[q].hash # {}

ChangesOK(w, tok) ==
  /\ \A u \in w.pending_query_updates :
       GoodUpdate(u, tok) /\ (u.op = "Add" => w.queries[u.id].phase = "none")
  /\ w.pending_identity = {} \/ \E i \in Identities : w.pending_identity = {i}
  /\ w.received.query_set = 0 =>
       w.pending_query_updates = {} /\ \A q \in QueryIds : w.queries[q].phase = "none"
  /\ w.current_version.query_set <= w.received.query_set

\* Between two updates, the hashes the worker keeps are of the client's view.
Idle(w, v, tok) ==
  /\ \A q \in QueryIds :
       /\ w.queries[q].hash = v.rem.set[q]
       /\ w.queries[q].hash \subseteq {Value(tok[q], w.identity, w.current_version.ts)}
       /\ w.queries[q].sub \subseteq {w.current_version.ts}
  /\ ~restarted /\ w.current_version.identity = identity_version => w.identity = auth_token

\* During an update, so they are but for the queries it removes.
Busy(w, v, tok) ==
  LET tr == w.transition IN
  /\ tr.start = w.current_version
  /\ w.current_version.ts <= tr.end.ts /\ v.seen <= tr.end.ts /\ tr.end.ts <= Len(log)
  /\ tr.end.query_set <= w.received.query_set
  /\ tr.end.query_set = 0 => \A q \in QueryIds : w.queries[q].phase = "none"
  /\ \A q \in QueryIds :
       /\ q \in tr.removed => w.queries[q].phase = "none" /\ q < next_query_id /\ q \notin SubscribedIds
       /\ q \notin tr.removed => w.queries[q].hash = v.rem.set[q]
       /\ tr.remaining[q] \subseteq {w.current_version.ts}
       /\ tr.remaining[q] # {} /\ w.queries[q].phase # "none" =>
            /\ w.queries[q].phase = "live"
            /\ w.queries[q].hash \subseteq {Value(tok[q], w.identity, w.current_version.ts)}
  /\ ~restarted =>
       /\ tr.end.identity <= w.received.identity
       /\ tr.end.identity = identity_version => w.identity = auth_token
       /\ w.pending_query_updates # {} => tr.end.query_set < w.received.query_set

\* Until the client restarts, what the worker knows of it is its own past.
Known(w) ==
  /\ w.received.identity <= identity_version /\ w.received.query_set <= query_set_version
  /\ w.current_version.identity <= w.received.identity
  /\ w.received.identity = identity_version => Identity(w) = auth_token
  /\ w.pending_query_updates # {} => w.current_version.query_set < w.received.query_set

Serves(w, v, tok) ==
  /\ w.current_version = v.rem.version
  /\ QueriesOK(w, tok) /\ ChangesOK(w, tok)
  /\ ~w.transition.busy => Idle(w, v, tok)
  /\ w.transition.busy => Busy(w, v, tok)
  /\ ~restarted => Known(w)

(* The invariant *)

LocalOK(tok) ==
  /\ \A t \in Tokens : query_set[t] # None => query_set[t] < next_query_id /\ tok[query_set[t]] = t
  /\ \A t \in Tokens : num_subscribers[t] > 0 => query_set[t] # None
  /\ ~restarted /\ identity_version = 0 => auth_token = None
  /\ Good(NoRemote, tok)

PipelineOK(tok) ==
  /\ Line(Pipeline, worker, tok)
  /\ ~restarted =>
       /\ \A i \in 1..Len(wsq) : wsq[i].kind = "Send"
       /\ ws = "connecting" => up = <<>>
       /\ Reachable => \A q \in SubscribedIds : Holds(worker, q) \/ Added(Pipeline, q)

\* Every result a subscriber has is one of a timestamp up to n.
ResultsOK(tok, n) ==
  \A q \in QueryIds :
    /\ q >= next_query_id => results[q] = {}
    /\ \E who \in Identities, ts \in 0..n : results[q] \subseteq {Value(tok[q], who, ts)}

ViewOK(tok, vs) ==
  /\ Chain(Incoming, vs, tok)
  /\ Good(remote, tok)
  /\ ~failed /\ remote.version = vs[1].rem.version => remote = vs[1].rem
  /\ ResultsOK(tok, vs[1].seen)

WorkerOK(tok, vs) ==
  /\ worker.alive => /\ ws = "connected" /\ \A i \in 1..Len(down) : down[i] # CloseFrame
                     /\ Serves(worker, vs[Len(Incoming) + 1], tok)
  /\ ~worker.alive => worker = NoWorker

Core(tok, vs) == LocalOK(tok) /\ PipelineOK(tok) /\ ViewOK(tok, vs) /\ WorkerOK(tok, vs)

SessionInv == TypeOK /\ \E tok, vs : Core(tok, vs)

-----------------------------------------------------------------------------
(* What a query returns, as the log grows                                  *)

LEMMA LogGrows ==
  ASSUME TypeOK, LogStep
  PROVE  /\ Len(log) \in Nat /\ Len(log') \in Nat /\ Len(log) <= Len(log')
         /\ \A i \in 1..Len(log) : log'[i] = log[i]
<1>1. log \in Seq(Commits)
  BY DEF TypeOK, ServerTypeOK
<1>2. CASE log' = log
  BY <1>1, <1>2
<1>3. ASSUME NEW c \in Commits, log' = Append(log, c)
      PROVE  /\ Len(log) \in Nat /\ Len(log') \in Nat /\ Len(log) <= Len(log')
             /\ \A i \in 1..Len(log) : log'[i] = log[i]
  BY <1>1, <1>3
<1> QED
  BY <1>2, <1>3 DEF LogStep

LEMMA ValueStable ==
  ASSUME TypeOK, LogStep, NEW token, NEW who, NEW ts \in Nat, ts <= Len(log)
  PROVE  Value(token, who, ts)' = Value(token, who, ts)
<1>1. \A i \in 1..ts : log'[i] = log[i]
  BY LogGrows
<1>2. {i \in 1..ts : token \in log'[i].writes} = {i \in 1..ts : token \in log[i].writes}
  BY <1>1
<1> QED
  BY <1>2, Zenon DEF Value

LEMMA ValueUnchanged ==
  ASSUME NEW token, NEW who, NEW from \in Nat, NEW to \in Nat, from <= to, ~Changed(token, from, to)
  PROVE  Value(token, who, from) = Value(token, who, to)
<1>1. \A i \in (from + 1)..to : token \notin log[i].writes
  BY DEF Changed
<1>2. \A i \in 1..to : token \in log[i].writes => i \in 1..from
  BY <1>1
<1>3. \A i \in 1..from : i \in 1..to
  OBVIOUS
<1>4. {i \in 1..from : token \in log[i].writes} = {i \in 1..to : token \in log[i].writes}
  BY <1>2, <1>3, Zenon
<1> QED
  BY <1>4, Zenon DEF Value

LEMMA ValueMonotone ==
  ASSUME NEW token, NEW who, NEW other, NEW from \in Nat, NEW to \in Nat, from <= to
  PROVE  Value(token, who, from).at <= Value(token, other, to).at
<1> DEFINE v == Value(token, who, from)
           w == Value(token, other, to)
<1>1. v.at \in 0..from /\ (v.at # 0 => token \in log[v.at].writes)
  BY LastChange
<1>2. w.at \in 0..to /\ \A i \in 1..to : token \in log[i].writes => i <= w.at
  BY LastChange
<1> HIDE DEF v, w
<1>3. v.at <= w.at
  BY <1>1, <1>2
<1> QED
  BY <1>3 DEF v, w

-----------------------------------------------------------------------------
(* Steps that keep what was sent good                                      *)

\* The log and the client's state advance: a commit, a query more or less, a
\* new identity or a restart.
Advances(tok, tok2) ==
  /\ LogStep
  /\ next_query_id <= next_query_id'
  /\ \A q \in QueryIds : q < next_query_id => tok2[q] = tok[q]
  /\ restarted => restarted'
  /\ ~restarted' =>
       /\ \/ identity_version < identity_version'
          \/ identity_version' = identity_version /\ auth_token' = auth_token
       /\ \/ query_set_version < query_set_version'
          \/ query_set_version' = query_set_version /\ query_set' = query_set
  /\ \A q \in QueryIds : q < next_query_id /\ q \notin SubscribedIds => q \notin SubscribedIds'

LEMMA Steady ==
  ASSUME TypeOK, UNCHANGED <<localVars, restarted>>, LogStep, NEW tok
  PROVE  Advances(tok, tok)
<1>1. next_query_id \in Nat
  BY DEF TypeOK, LocalTypeOK
<1>2. SubscribedIds' = SubscribedIds
  BY DEF SubscribedIds, SubscribedTokens, localVars
<1> QED
  BY <1>1, <1>2 DEF Advances, localVars

LEMMA VersionType ==
  ASSUME NEW v \in Versions
  PROVE  v.ts \in Nat /\ v.query_set \in Nat /\ v.identity \in Nat /\ v.ts \in Timestamps
BY TimestampsNat DEF Versions

LEMMA RemoteType ==
  ASSUME NEW r \in Remotes
  PROVE  /\ r.version \in Versions /\ r.set \in [QueryIds -> SUBSET Values]
         /\ r.version.ts \in Nat /\ r.version.query_set \in Nat /\ r.version.identity \in Nat
BY VersionType DEF Remotes

LEMMA GoodStable ==
  ASSUME TypeOK, TypeOK', NEW tok, NEW tok2, Advances(tok, tok2), NEW r, Good(r, tok)
  PROVE  Good(r, tok2)'
<1>1. r \in Remotes /\ r.version.ts <= Len(log)
  BY DEF Good
<1>2. r.version.ts \in Nat /\ r.version.query_set \in Nat /\ r.version.identity \in Nat
  BY <1>1, RemoteType
<1>3. LogStep
  BY DEF Advances
<1>4. Len(log) \in Nat /\ Len(log') \in Nat /\ Len(log) <= Len(log')
  BY <1>3, LogGrows
<1>5. next_query_id \in Nat /\ next_query_id' \in Nat /\ next_query_id <= next_query_id'
  BY DEF TypeOK, LocalTypeOK, Advances
<1>6. query_set_version \in Nat /\ query_set_version' \in Nat /\ identity_version \in Nat /\ identity_version' \in Nat
  BY DEF TypeOK, LocalTypeOK
<1>7. r.version.ts <= Len(log')
  BY <1>1, <1>2, <1>4
<1>8. \A q \in QueryIds : r.version.query_set = 0 \/ q >= next_query_id' => r.set[q] = {}
  BY <1>5, QueryIdsNat DEF Good
<1>9. PICK who \in Identities :
        /\ Snapshot(r, tok, who)
        /\ ~restarted /\ r.version.identity = identity_version => who = auth_token
  BY DEF Good
<1>10. Snapshot(r, tok2, who)'
  <2> SUFFICES ASSUME NEW q \in QueryIds
               PROVE  r.set[q] \subseteq {Value(tok2[q], who, r.version.ts)'}
    BY DEF Snapshot
  <2>1. CASE q >= next_query_id
    BY <2>1 DEF Good
  <2>2. CASE q < next_query_id
    <3>1. tok2[q] = tok[q]
      BY <2>2 DEF Advances
    <3>2. Value(tok[q], who, r.version.ts)' = Value(tok[q], who, r.version.ts)
      BY <1>1, <1>2, <1>3, ValueStable
    <3>3. r.set[q] \subseteq {Value(tok[q], who, r.version.ts)}
      BY <1>9 DEF Snapshot
    <3> QED
      BY <3>1, <3>2, <3>3
  <2> QED
    BY <1>5, <2>1, <2>2, QueryIdsNat
<1>11. ~restarted' /\ r.version.identity = identity_version' => who = auth_token'
  BY <1>2, <1>6, <1>9 DEF Advances, Good
<1>12. ~restarted' => r.version.identity <= identity_version' /\ r.version.query_set <= query_set_version'
  BY <1>2, <1>6 DEF Advances, Good
<1>13. ~restarted' => Complete(r)'
  <2> SUFFICES ASSUME ~restarted', r.version.query_set = query_set_version'
               PROVE  \A t \in (SubscribedTokens \ SearchTokens)' : r.set[query_set'[t]] # {}
    BY DEF Complete
  <2>1. ~restarted /\ r.version.query_set <= query_set_version /\ Complete(r)
    BY DEF Advances, Good
  <2>2. query_set_version' = query_set_version /\ query_set' = query_set
    BY <1>2, <1>6, <2>1 DEF Advances
  <2>3. (SubscribedTokens \ SearchTokens)' = SubscribedTokens \ SearchTokens
    BY <2>2 DEF SubscribedTokens
  <2> QED
    BY <2>1, <2>2, <2>3 DEF Complete
<1> QED
  BY <1>1, <1>7, <1>8, <1>9, <1>10, <1>11, <1>12, <1>13 DEF Good

LEMMA GoodUpdateStable ==
  ASSUME TypeOK, TypeOK', NEW tok, NEW tok2, Advances(tok, tok2), NEW u, GoodUpdate(u, tok)
  PROVE  GoodUpdate(u, tok2)'
<1>1. next_query_id \in Nat /\ next_query_id' \in Nat
  BY DEF TypeOK, LocalTypeOK
<1>2. u.id \in QueryIds /\ u.id < next_query_id /\ u.id \in Nat
  BY QueryIdsNat DEF GoodUpdate
<1> QED
  BY <1>1, <1>2 DEF GoodUpdate, Advances

LEMMA GoodMessageStable ==
  ASSUME TypeOK, TypeOK', NEW tok, NEW tok2, Advances(tok, tok2), NEW m \in ClientMessages, GoodMessage(m, tok)
  PROVE  GoodMessage(m, tok2)'
<1>1. query_set_version \in Nat /\ query_set_version' \in Nat /\ identity_version \in Nat /\ identity_version' \in Nat
  BY DEF TypeOK, LocalTypeOK
<1>2. CASE m.t = "ModifyQuerySet"
  <2>1. \A u \in m.modifications : GoodUpdate(u, tok2)'
    BY <1>2, GoodUpdateStable DEF GoodMessage
  <2>2. m.new \in Nat /\ m.new = m.base + 1 /\ (~restarted => m.new <= query_set_version)
    BY <1>2, ClientMessageFields DEF GoodMessage
  <2>3. ~restarted' => m.new <= query_set_version'
    BY <1>1, <2>2 DEF Advances
  <2> QED
    BY <1>2, <2>1, <2>2, <2>3 DEF GoodMessage
<1>3. CASE m.t = "Authenticate"
  <2>1. m.base \in Nat
    BY <1>3, ClientMessageFields
  <2> QED
    BY <1>1, <1>3, <2>1 DEF GoodMessage, Advances
<1>4. CASE m.t # "ModifyQuerySet" /\ m.t # "Authenticate"
  BY <1>4 DEF GoodMessage
<1> QED
  BY <1>2, <1>3, <1>4

LEMMA OrderStable ==
  ASSUME NEW tok, NEW tok2, Advances(tok, tok2)
  PROVE  /\ \A m, n : Precedes(m, n) => Precedes(m, n)'
         /\ \A w, m : Follows(w, m) => Follows(w, m)'
BY DEF Advances, Precedes, Follows, Adds, Holds

LEMMA LinkStable ==
  ASSUME TypeOK, TypeOK', NEW tok, NEW tok2, Advances(tok, tok2), NEW m, NEW v, NEW w, Link(m, v, w, tok)
  PROVE  Link(m, v, w, tok2)'
<1>1. m.t = "Transition" => Good(Applied(v.rem, m), tok2)'
  <2>1. PICK r : r = Applied(v.rem, m)
    OBVIOUS
  <2>2. m.t = "Transition" => Good(r, tok2)'
    BY <2>1, GoodStable DEF Link
  <2>3. r = Applied(v.rem, m)'
    BY <2>1 DEF Applied
  <2> QED
    BY <2>1, <2>2, <2>3
<1> QED
  BY <1>1 DEF Link, Applied, NoRemote

LEMMA ChainStable ==
  ASSUME TypeOK, TypeOK', NEW tok, NEW tok2, Advances(tok, tok2), NEW messages, NEW vs,
         Chain(messages, vs, tok)
  PROVE  Chain(messages, vs, tok2)'
<1>1. Len(log) \in Nat /\ Len(log') \in Nat /\ Len(log) <= Len(log')
  BY LogGrows DEF Advances
<1>2. ASSUME NEW i \in 1..(Len(messages) + 1) PROVE Good(vs[i].rem, tok2)' /\ vs[i].seen <= Len(log')
  <2>1. Good(vs[i].rem, tok) /\ vs[i].seen <= Len(log) /\ vs[i].seen \in Nat
    BY DEF Chain, Views
  <2> QED
    BY <1>1, <2>1, GoodStable
<1>3. ASSUME NEW i \in 1..Len(messages) PROVE Link(messages[i], vs[i], vs[i + 1], tok2)'
  BY LinkStable DEF Chain
<1> QED
  BY <1>2, <1>3 DEF Chain

LEMMA WorkerType ==
  ASSUME NEW w \in Workers
  PROVE  /\ w.current_version \in Versions /\ w.queries \in [QueryIds -> QueryStates]
         /\ w.identity \in Identities /\ w.pending_query_updates \in SUBSET QueryUpdates
         /\ w.pending_identity \in SUBSET Identities
         /\ w.received.query_set \in Nat /\ w.received.identity \in Nat
         /\ w.transition \in Transitions
         /\ w.transition.start \in Versions /\ w.transition.end \in Versions
         /\ w.transition.remaining \in [QueryIds -> SUBSET Nat]
         /\ w.transition.busy \in BOOLEAN
         /\ \A q \in QueryIds : /\ w.queries[q].phase \in {"none", "in_progress", "live"}
                                /\ w.queries[q].hash \in SUBSET Values
<1>1. w.transition \in Transitions /\ w.queries \in [QueryIds -> QueryStates]
  BY DEF Workers
<1>2. \A q \in QueryIds : /\ w.queries[q].phase \in {"none", "in_progress", "live"}
                          /\ w.queries[q].hash \in SUBSET Values
  BY <1>1 DEF QueryStates
<1>3. /\ w.transition.start \in Versions /\ w.transition.end \in Versions
      /\ w.transition.remaining \in [QueryIds -> SUBSET Nat] /\ w.transition.busy \in BOOLEAN
  BY <1>1 DEF Transitions
<1> QED
  BY <1>1, <1>2, <1>3 DEF Workers

LEMMA ServesStable ==
  ASSUME TypeOK, TypeOK', NEW tok, NEW tok2, Advances(tok, tok2), NEW w \in Workers, NEW v,
         Serves(w, v, tok), Good(v.rem, tok)
  PROVE  Serves(w, v, tok2)'
<1>1. /\ next_query_id \in Nat /\ next_query_id' \in Nat /\ next_query_id <= next_query_id'
      /\ query_set_version \in Nat /\ query_set_version' \in Nat
      /\ identity_version \in Nat /\ identity_version' \in Nat
  BY DEF TypeOK, LocalTypeOK, Advances
<1>2. LogStep /\ Len(log) \in Nat /\ Len(log') \in Nat /\ Len(log) <= Len(log')
  BY LogGrows DEF Advances
<1>3. /\ w.received.query_set \in Nat /\ w.received.identity \in Nat
      /\ w.current_version.ts \in Nat /\ w.current_version.identity \in Nat
      /\ w.transition.end.ts \in Nat /\ w.transition.end.identity \in Nat
  BY WorkerType, VersionType
<1>4. w.current_version.ts <= Len(log) /\ w.current_version = v.rem.version
  BY DEF Serves, Good
<1>5. QueriesOK(w, tok)
  BY DEF Serves
<1>6. \A q \in QueryIds : w.queries[q].phase # "none" => q < next_query_id /\ tok2[q] = tok[q] /\ q < next_query_id'
  BY <1>1, <1>5, QueryIdsNat DEF QueriesOK, Advances
<1>7. QueriesOK(w, tok2)'
  BY <1>5, <1>6 DEF QueriesOK
<1>8. ChangesOK(w, tok2)'
  <2>1. \A u \in w.pending_query_updates : GoodUpdate(u, tok2)'
    BY GoodUpdateStable DEF Serves, ChangesOK
  <2> QED
    BY <2>1 DEF Serves, ChangesOK
<1>9. ASSUME NEW q \in QueryIds, w.queries[q].hash \subseteq {Value(tok[q], w.identity, w.current_version.ts)}
      PROVE  w.queries[q].hash \subseteq {Value(tok2[q], w.identity, w.current_version.ts)'}
  <2>1. CASE w.queries[q].phase = "none"
    BY <1>5, <2>1 DEF QueriesOK
  <2>2. CASE w.queries[q].phase # "none"
    <3>1. tok2[q] = tok[q]
      BY <1>6, <2>2
    <3>2. Value(tok[q], w.identity, w.current_version.ts)' = Value(tok[q], w.identity, w.current_version.ts)
      BY <1>2, <1>3, <1>4, ValueStable
    <3> QED
      BY <1>9, <3>1, <3>2
  <2> QED
    BY <2>1, <2>2
<1>10. ~restarted' => ~restarted
  BY DEF Advances
<1>11. ~restarted => Known(w)
  BY DEF Serves
<1>12. ~restarted' => Known(w)'
  BY <1>1, <1>3, <1>10, <1>11 DEF Known, Advances, Identity
<1>13. ASSUME ~restarted', NEW n \in Nat, n <= w.received.identity, n = identity_version'
       PROVE  n = identity_version /\ auth_token' = auth_token
  BY <1>1, <1>3, <1>10, <1>11, <1>13 DEF Known, Advances
<1>14. ~w.transition.busy => Idle(w, v, tok2)'
  <2> SUFFICES ASSUME ~w.transition.busy PROVE Idle(w, v, tok2)'
    OBVIOUS
  <2>1. Idle(w, v, tok)
    BY DEF Serves
  <2>2. ~restarted' /\ w.current_version.identity = identity_version' => w.identity = auth_token'
    BY <1>3, <1>10, <1>11, <1>13, <2>1 DEF Known, Idle
  <2>3. \A q \in QueryIds : w.queries[q].hash \subseteq {Value(tok2[q], w.identity, w.current_version.ts)'}
    BY <1>9, <2>1 DEF Idle
  <2> QED
    BY <2>1, <2>2, <2>3 DEF Idle
<1>15. w.transition.busy => Busy(w, v, tok2)'
  <2> SUFFICES ASSUME w.transition.busy PROVE Busy(w, v, tok2)'
    OBVIOUS
  <2>1. Busy(w, v, tok)
    BY DEF Serves
  <2>2. w.transition.end.ts <= Len(log')
    BY <1>2, <1>3, <2>1 DEF Busy
  <2>3. ~restarted' => (w.transition.end.identity = identity_version' => w.identity = auth_token')
    BY <1>3, <1>10, <1>13, <2>1 DEF Busy
  <2>4. \A q \in QueryIds : q \in w.transition.removed => q < next_query_id' /\ q \notin SubscribedIds'
    BY <1>1, <2>1, QueryIdsNat DEF Busy, Advances
  <2>5. \A q \in QueryIds : w.transition.remaining[q] # {} /\ w.queries[q].phase # "none" =>
            /\ w.queries[q].phase = "live"
            /\ w.queries[q].hash \subseteq {Value(tok2[q], w.identity, w.current_version.ts)'}
    BY <1>9, <2>1 DEF Busy
  <2> QED
    BY <1>10, <2>1, <2>2, <2>3, <2>4, <2>5 DEF Busy
<1> QED
  BY <1>4, <1>7, <1>8, <1>12, <1>14, <1>15 DEF Serves

-----------------------------------------------------------------------------
(* Sequences of client messages                                            *)

LEMMA ConcatMessages ==
  ASSUME NEW s \in Seq(ClientMessages), NEW t \in Seq(ClientMessages)
  PROVE  /\ s \o t \in Seq(ClientMessages)
         /\ \A tok : AllGood(s \o t, tok) <=> AllGood(s, tok) /\ AllGood(t, tok)
         /\ InOrder(s \o t) <=> InOrder(s) /\ InOrder(t) /\ AllPrecede(s, t)
         /\ \A w : AllFollow(w, s \o t) <=> AllFollow(w, s) /\ AllFollow(w, t)
         /\ \A q : Added(s \o t, q) <=> Added(s, q) \/ Added(t, q)
<1> DEFINE c == s \o t
<1>1. /\ c \in Seq(ClientMessages) /\ Len(s) \in Nat /\ Len(t) \in Nat /\ Len(c) = Len(s) + Len(t)
      /\ \A i \in 1..(Len(s) + Len(t)) : c[i] = IF i <= Len(s) THEN s[i] ELSE t[i - Len(s)]
  BY ConcatProperties, LenProperties
<1> HIDE DEF c
<1>2. \A i \in 1..Len(s) : i \in 1..Len(c) /\ c[i] = s[i]
  BY <1>1
<1>3. ASSUME NEW i \in 1..Len(t) PROVE i + Len(s) \in 1..Len(c) /\ c[i + Len(s)] = t[i]
  <2>1. i + Len(s) \in 1..(Len(s) + Len(t)) /\ ~(i + Len(s) <= Len(s)) /\ (i + Len(s)) - Len(s) = i
    BY <1>1
  <2>2. c[i + Len(s)] = IF i + Len(s) <= Len(s) THEN s[i + Len(s)] ELSE t[(i + Len(s)) - Len(s)]
    BY <1>1, <2>1
  <2> QED
    BY <1>1, <2>1, <2>2
<1>4. \A i \in 1..Len(c) : i \in 1..Len(s) \/ (i - Len(s) \in 1..Len(t) /\ i = (i - Len(s)) + Len(s))
  BY <1>1
<1>5. \A i \in 1..Len(c) : (i \in 1..Len(s) /\ c[i] = s[i]) \/ (\E j \in 1..Len(t) : i = j + Len(s) /\ c[i] = t[j])
  BY <1>1, <1>2, <1>3, <1>4
<1>6. \A tok : AllGood(c, tok) <=> AllGood(s, tok) /\ AllGood(t, tok)
  BY <1>2, <1>3, <1>5 DEF AllGood
<1>7. \A w : AllFollow(w, c) <=> AllFollow(w, s) /\ AllFollow(w, t)
  BY <1>2, <1>3, <1>5 DEF AllFollow
<1>8. \A q : Added(c, q) <=> Added(s, q) \/ Added(t, q)
  BY <1>2, <1>3, <1>5 DEF Added
<1>9. InOrder(c) => InOrder(s) /\ InOrder(t) /\ AllPrecede(s, t)
  <2> SUFFICES ASSUME InOrder(c) PROVE InOrder(s) /\ InOrder(t) /\ AllPrecede(s, t)
    OBVIOUS
  <2>1. InOrder(s)
    BY <1>2 DEF InOrder
  <2>2. InOrder(t)
    <3> SUFFICES ASSUME NEW i \in 1..Len(t), NEW j \in 1..Len(t), i < j PROVE Precedes(t[i], t[j])
      BY DEF InOrder
    <3>1. i + Len(s) < j + Len(s)
      BY <1>1
    <3> QED
      BY <1>3, <3>1 DEF InOrder
  <2>3. AllPrecede(s, t)
    <3> SUFFICES ASSUME NEW i \in 1..Len(s), NEW j \in 1..Len(t) PROVE Precedes(s[i], t[j])
      BY DEF AllPrecede
    <3>1. i < j + Len(s)
      BY <1>1
    <3> QED
      BY <1>2, <1>3, <3>1 DEF InOrder
  <2> QED
    BY <2>1, <2>2, <2>3
<1>10. InOrder(s) /\ InOrder(t) /\ AllPrecede(s, t) => InOrder(c)
  <2> SUFFICES ASSUME InOrder(s), InOrder(t), AllPrecede(s, t),
                      NEW i \in 1..Len(c), NEW j \in 1..Len(c), i < j
               PROVE  Precedes(c[i], c[j])
    BY DEF InOrder
  <2>1. CASE j <= Len(s)
    <3>1. i \in 1..Len(s) /\ j \in 1..Len(s)
      BY <1>1, <2>1
    <3> QED
      BY <1>2, <3>1 DEF InOrder
  <2>2. CASE j > Len(s)
    <3>1. PICK k \in 1..Len(t) : j = k + Len(s) /\ c[j] = t[k]
      BY <1>1, <1>5, <2>2
    <3>2. CASE i \in 1..Len(s)
      BY <1>2, <3>1, <3>2 DEF AllPrecede
    <3>3. CASE ~(i \in 1..Len(s))
      <4>1. PICK l \in 1..Len(t) : i = l + Len(s) /\ c[i] = t[l]
        BY <1>5, <3>3
      <4>2. l < k
        BY <1>1, <3>1, <4>1
      <4> QED
        BY <3>1, <4>1, <4>2 DEF InOrder
    <3> QED
      BY <3>2, <3>3
  <2> QED
    BY <1>1, <2>1, <2>2
<1> QED
  BY <1>1, <1>6, <1>7, <1>8, <1>9, <1>10 DEF c

LEMMA ConcatPrecede ==
  ASSUME NEW s \in Seq(ClientMessages), NEW t \in Seq(ClientMessages), NEW u \in Seq(ClientMessages)
  PROVE  /\ AllPrecede(s \o t, u) <=> AllPrecede(s, u) /\ AllPrecede(t, u)
         /\ AllPrecede(u, s \o t) <=> AllPrecede(u, s) /\ AllPrecede(u, t)
<1> DEFINE c == s \o t
<1>1. /\ Len(s) \in Nat /\ Len(t) \in Nat /\ Len(c) = Len(s) + Len(t)
      /\ \A i \in 1..(Len(s) + Len(t)) : c[i] = IF i <= Len(s) THEN s[i] ELSE t[i - Len(s)]
  BY ConcatProperties, LenProperties
<1> HIDE DEF c
<1>2. \A i \in 1..Len(s) : i \in 1..Len(c) /\ c[i] = s[i]
  BY <1>1
<1>3. ASSUME NEW i \in 1..Len(t) PROVE i + Len(s) \in 1..Len(c) /\ c[i + Len(s)] = t[i]
  <2>1. i + Len(s) \in 1..(Len(s) + Len(t)) /\ ~(i + Len(s) <= Len(s)) /\ (i + Len(s)) - Len(s) = i
    BY <1>1
  <2>2. c[i + Len(s)] = IF i + Len(s) <= Len(s) THEN s[i + Len(s)] ELSE t[(i + Len(s)) - Len(s)]
    BY <1>1, <2>1
  <2> QED
    BY <1>1, <2>1, <2>2
<1>4. \A i \in 1..Len(c) : i \in 1..Len(s) \/ (i - Len(s) \in 1..Len(t) /\ i = (i - Len(s)) + Len(s))
  BY <1>1
<1>5. \A i \in 1..Len(c) : (i \in 1..Len(s) /\ c[i] = s[i]) \/ (\E j \in 1..Len(t) : c[i] = t[j])
  BY <1>2, <1>3, <1>4
<1>6. AllPrecede(c, u) <=> AllPrecede(s, u) /\ AllPrecede(t, u)
  BY <1>2, <1>3, <1>5 DEF AllPrecede
<1>7. AllPrecede(u, c) <=> AllPrecede(u, s) /\ AllPrecede(u, t)
  BY <1>2, <1>3, <1>5 DEF AllPrecede
<1> QED
  BY <1>6, <1>7 DEF c

LEMMA EmptyMessages ==
  /\ <<>> \in Seq(ClientMessages)
  /\ \A tok : AllGood(<<>>, tok)
  /\ InOrder(<<>>)
  /\ \A w : AllFollow(w, <<>>)
  /\ \A q : ~Added(<<>>, q)
  /\ \A s \in Seq(ClientMessages) : AllPrecede(s, <<>>) /\ AllPrecede(<<>>, s)
<1>1. <<>> \in Seq(ClientMessages) /\ Len(<<>>) = 0 /\ 1..0 = {}
  BY EmptySeq
<1> QED
  BY <1>1 DEF AllGood, InOrder, AllFollow, Added, AllPrecede

LEMMA SingleMessage ==
  ASSUME NEW m \in ClientMessages
  PROVE  /\ <<m>> \in Seq(ClientMessages)
         /\ \A tok : AllGood(<<m>>, tok) <=> GoodMessage(m, tok)
         /\ InOrder(<<m>>)
         /\ \A w : AllFollow(w, <<m>>) <=> Follows(w, m)
         /\ \A q : Added(<<m>>, q) <=> Adds(m, q)
         /\ \A s \in Seq(ClientMessages) :
              AllPrecede(s, <<m>>) <=> \A i \in 1..Len(s) : Precedes(s[i], m)
<1>1. <<m>> \in Seq(ClientMessages) /\ Len(<<m>>) = 1 /\ <<m>>[1] = m /\ 1..1 = {1}
  OBVIOUS
<1> HIDE DEF ClientMessages
<1>2. \A i \in 1..Len(<<m>>) : i = 1
  BY <1>1
<1>3. 1 \in 1..Len(<<m>>)
  BY <1>1
<1>4. \A i, j \in 1..Len(<<m>>) : ~(i < j)
  BY <1>2
<1>5. InOrder(<<m>>)
  BY <1>4 DEF InOrder
<1> QED
  BY <1>1, <1>2, <1>3, <1>5 DEF AllGood, AllFollow, Added, AllPrecede

LEMMA FirstMessage ==
  ASSUME NEW S, NEW s \in Seq(S), s # <<>>
  PROVE  s = <<Head(s)>> \o Tail(s) /\ Head(s) \in S /\ Tail(s) \in Seq(S)
<1>1. Head(s) \in S /\ Tail(s) \in Seq(S) /\ Len(Tail(s)) = Len(s) - 1 /\ Len(s) \in Nat /\ Len(s) > 0
  BY HeadTailProperties, EmptySeq
<1> DEFINE c == <<Head(s)>> \o Tail(s)
<1>2. c \in Seq(S) /\ Len(c) = Len(s)
  BY <1>1
<1>3. \A i \in 1..Len(s) : c[i] = s[i]
  BY <1>1
<1> HIDE DEF c
<1>4. c = s
  BY <1>2, <1>3, SeqEqual
<1> QED
  BY <1>1, <1>4 DEF c

LEMMA LineConcat ==
  ASSUME NEW s \in Seq(ClientMessages), NEW t \in Seq(ClientMessages), NEW w, NEW tok
  PROVE  Line(s \o t, w, tok) <=> Line(s, w, tok) /\ Line(t, w, tok) /\ AllPrecede(s, t)
BY ConcatMessages DEF Line

LEMMA LineOfThree ==
  ASSUME NEW s \in Seq(ClientMessages), NEW t \in Seq(ClientMessages), NEW u \in Seq(ClientMessages),
         NEW w, NEW tok
  PROVE  /\ Line(s \o (t \o u), w, tok) <=>
              /\ Line(s, w, tok) /\ Line(t, w, tok) /\ Line(u, w, tok)
              /\ AllPrecede(s, t) /\ AllPrecede(s, u) /\ AllPrecede(t, u)
         /\ \A q : Added(s \o (t \o u), q) <=> Added(s, q) \/ Added(t, q) \/ Added(u, q)
<1>1. t \o u \in Seq(ClientMessages)
  BY ConcatMessages
<1> DEFINE c == t \o u
<1>2. Line(s \o c, w, tok) <=> Line(s, w, tok) /\ Line(c, w, tok) /\ AllPrecede(s, c)
  BY <1>1, LineConcat
<1>3. Line(c, w, tok) <=> Line(t, w, tok) /\ Line(u, w, tok) /\ AllPrecede(t, u)
  BY LineConcat
<1>4. AllPrecede(s, c) <=> AllPrecede(s, t) /\ AllPrecede(s, u)
  BY ConcatPrecede
<1>5. ASSUME NEW q PROVE Added(s \o c, q) <=> Added(s, q) \/ Added(t, q) \/ Added(u, q)
  <2>1. Added(s \o c, q) <=> Added(s, q) \/ Added(c, q)
    BY <1>1, ConcatMessages
  <2>2. Added(c, q) <=> Added(t, q) \/ Added(u, q)
    BY ConcatMessages
  <2> QED
    BY <2>1, <2>2
<1> QED
  BY <1>2, <1>3, <1>4, <1>5

\* The facts about sequences of client messages, for this state and the next.
MessageFacts ==
  /\ \A s, t \in Seq(ClientMessages) :
       /\ \A w, tok : Line(s \o t, w, tok) <=> Line(s, w, tok) /\ Line(t, w, tok) /\ AllPrecede(s, t)
       /\ \A q : Added(s \o t, q) <=> Added(s, q) \/ Added(t, q)
  /\ \A s, t, u \in Seq(ClientMessages) :
       /\ \A w, tok : Line(s \o (t \o u), w, tok) <=>
                        /\ Line(s, w, tok) /\ Line(t, w, tok) /\ Line(u, w, tok)
                        /\ AllPrecede(s, t) /\ AllPrecede(s, u) /\ AllPrecede(t, u)
       /\ \A q : Added(s \o (t \o u), q) <=> Added(s, q) \/ Added(t, q) \/ Added(u, q)
       /\ AllPrecede(s \o t, u) <=> AllPrecede(s, u) /\ AllPrecede(t, u)
       /\ AllPrecede(u, s \o t) <=> AllPrecede(u, s) /\ AllPrecede(u, t)
  /\ \A w, tok : Line(<<>>, w, tok)
  /\ \A q : ~Added(<<>>, q)
  /\ \A s \in Seq(ClientMessages) : AllPrecede(s, <<>>) /\ AllPrecede(<<>>, s)
  /\ \A m \in ClientMessages :
       /\ \A w, tok : Line(<<m>>, w, tok) <=> GoodMessage(m, tok) /\ Follows(w, m)
       /\ \A q : Added(<<m>>, q) <=> Adds(m, q)
       /\ \A s \in Seq(ClientMessages) :
            AllPrecede(s, <<m>>) <=> \A i \in 1..Len(s) : Precedes(s[i], m)

LEMMA MessageFactsHold == MessageFacts /\ MessageFacts'
<1>1. MessageFacts
  <2>1. \A s, t \in Seq(ClientMessages) :
       /\ \A w, tok : Line(s \o t, w, tok) <=> Line(s, w, tok) /\ Line(t, w, tok) /\ AllPrecede(s, t)
       /\ \A q : Added(s \o t, q) <=> Added(s, q) \/ Added(t, q)
    BY LineConcat, ConcatMessages
  <2>2. \A s, t, u \in Seq(ClientMessages) :
       /\ \A w, tok : Line(s \o (t \o u), w, tok) <=>
                        /\ Line(s, w, tok) /\ Line(t, w, tok) /\ Line(u, w, tok)
                        /\ AllPrecede(s, t) /\ AllPrecede(s, u) /\ AllPrecede(t, u)
       /\ \A q : Added(s \o (t \o u), q) <=> Added(s, q) \/ Added(t, q) \/ Added(u, q)
    BY LineOfThree
  <2>3. \A s, t, u \in Seq(ClientMessages) :
       /\ AllPrecede(s \o t, u) <=> AllPrecede(s, u) /\ AllPrecede(t, u)
       /\ AllPrecede(u, s \o t) <=> AllPrecede(u, s) /\ AllPrecede(u, t)
    BY ConcatPrecede
  <2>4. /\ \A w, tok : Line(<<>>, w, tok)
        /\ \A q : ~Added(<<>>, q)
        /\ \A s \in Seq(ClientMessages) : AllPrecede(s, <<>>) /\ AllPrecede(<<>>, s)
    BY EmptyMessages DEF Line
  <2>5. \A m \in ClientMessages :
       /\ \A w, tok : Line(<<m>>, w, tok) <=> GoodMessage(m, tok) /\ Follows(w, m)
       /\ \A q : Added(<<m>>, q) <=> Adds(m, q)
       /\ \A s \in Seq(ClientMessages) :
            AllPrecede(s, <<m>>) <=> \A i \in 1..Len(s) : Precedes(s[i], m)
    BY SingleMessage DEF Line
  <2> QED
    BY <2>1, <2>2, <2>3, <2>4, <2>5 DEF MessageFacts
<1> QED
  BY <1>1, PTL

LEMMA LineStable ==
  ASSUME TypeOK, TypeOK', NEW tok, NEW tok2, Advances(tok, tok2), NEW w, NEW s \in Seq(ClientMessages)
  PROVE  /\ Line(s, w, tok) => Line(s, w, tok2)'
         /\ \A t \in Seq(ClientMessages) : AllPrecede(s, t) => AllPrecede(s, t)'
         /\ \A q : Added(s, q)' <=> Added(s, q)
<1>1. AllGood(s, tok) => AllGood(s, tok2)'
  <2>1. \A i \in 1..Len(s) : s[i] \in ClientMessages
    BY ElementOfSeq
  <2> QED
    BY <2>1, GoodMessageStable DEF AllGood
<1>2. InOrder(s) => InOrder(s)'
  BY OrderStable DEF InOrder
<1>3. AllFollow(w, s) => AllFollow(w, s)'
  BY OrderStable DEF AllFollow
<1>4. \A t \in Seq(ClientMessages) : AllPrecede(s, t) => AllPrecede(s, t)'
  BY OrderStable DEF AllPrecede
<1>5. \A q : Added(s, q)' <=> Added(s, q)
  BY DEF Added, Adds
<1> QED
  BY <1>1, <1>2, <1>3, <1>4, <1>5 DEF Line

\* What of a line is left, in a worker that holds no more, is one.
LEMMA LineFollows ==
  ASSUME NEW tok, NEW w, NEW x, NEW s \in Seq(ClientMessages), Line(s, w, tok),
         \A i \in 1..Len(s) : Follows(w, s[i]) => Follows(x, s[i])
  PROVE  Line(s, x, tok)
BY DEF Line, AllFollow

LEMMA MessagesOf ==
  ASSUME NEW s \in Seq(SocketRequests)
  PROVE  /\ Messages(s) \in Seq(ClientMessages) /\ Len(Messages(s)) = Len(s)
         /\ \A i \in 1..Len(s) : Messages(s)[i] = s[i].m
<1>1. Len(s) \in Nat /\ \A i \in 1..Len(s) : s[i] \in SocketRequests
  BY LenProperties
<1>2. \A i \in 1..Len(s) : s[i].m \in ClientMessages
  BY <1>1 DEF SocketRequests
<1>3. Messages(s) \in [1..Len(s) -> ClientMessages]
  BY <1>2 DEF Messages
<1> QED
  BY <1>1, <1>3, FunctionSeq DEF Messages

LEMMA MessagesAppend ==
  ASSUME NEW s \in Seq(SocketRequests), NEW x \in SocketRequests
  PROVE  Messages(Append(s, x)) = Messages(s) \o <<x.m>>
<1> DEFINE a == Messages(Append(s, x))
           b == Messages(s) \o <<x.m>>
<1>1. x.m \in ClientMessages
  BY DEF SocketRequests
<1>2. /\ Append(s, x) \in Seq(SocketRequests) /\ Len(Append(s, x)) = Len(s) + 1 /\ Len(s) \in Nat
      /\ \A i \in 1..(Len(s) + 1) : Append(s, x)[i] = IF i <= Len(s) THEN s[i] ELSE x
  OBVIOUS
<1>3. /\ a \in Seq(ClientMessages) /\ Len(a) = Len(s) + 1
      /\ \A i \in 1..(Len(s) + 1) : a[i] = Append(s, x)[i].m
  BY <1>2, MessagesOf
<1>4. /\ Messages(s) \in Seq(ClientMessages) /\ Len(Messages(s)) = Len(s)
      /\ \A i \in 1..Len(s) : Messages(s)[i] = s[i].m
  BY MessagesOf
<1>5. /\ b \in Seq(ClientMessages) /\ Len(b) = Len(s) + 1
      /\ \A i \in 1..(Len(s) + 1) : b[i] = IF i <= Len(s) THEN Messages(s)[i] ELSE x.m
  BY <1>1, <1>4
<1> HIDE DEF a, b
<1>6. \A i \in 1..Len(a) : a[i] = b[i]
  BY <1>2, <1>3, <1>4, <1>5
<1>7. a = b
  BY <1>3, <1>5, <1>6, SeqEqual
<1> QED
  BY <1>7 DEF a, b

LEMMA MessagesTail ==
  ASSUME NEW s \in Seq(SocketRequests), s # <<>>
  PROVE  /\ Messages(s) = <<Head(s).m>> \o Messages(Tail(s))
         /\ Head(s).m \in ClientMessages /\ Tail(s) \in Seq(SocketRequests)
         /\ \A i \in 1..Len(Tail(s)) : i + 1 \in 1..Len(s) /\ Tail(s)[i] = s[i + 1]
<1> DEFINE a == Messages(s)
           b == <<Head(s).m>> \o Messages(Tail(s))
<1>1. Head(s) \in SocketRequests /\ Tail(s) \in Seq(SocketRequests) /\ Len(Tail(s)) = Len(s) - 1
      /\ Len(s) \in Nat /\ Len(s) > 0
  BY HeadTailProperties, EmptySeq
<1>2. Head(s).m \in ClientMessages /\ Head(s) = s[1]
  BY <1>1 DEF SocketRequests
<1>3. \A i \in 1..Len(Tail(s)) : i + 1 \in 1..Len(s) /\ Tail(s)[i] = s[i + 1]
  BY <1>1
<1>4. a \in Seq(ClientMessages) /\ Len(a) = Len(s) /\ \A i \in 1..Len(s) : a[i] = s[i].m
  BY MessagesOf
<1>5. /\ Messages(Tail(s)) \in Seq(ClientMessages) /\ Len(Messages(Tail(s))) = Len(s) - 1
      /\ \A i \in 1..(Len(s) - 1) : Messages(Tail(s))[i] = s[i + 1].m
  BY <1>1, <1>3, MessagesOf
<1>6. /\ b \in Seq(ClientMessages) /\ Len(b) = Len(s)
      /\ \A i \in 1..Len(s) : b[i] = IF i <= 1 THEN Head(s).m ELSE Messages(Tail(s))[i - 1]
  <2>1. <<Head(s).m>> \in Seq(ClientMessages) /\ Len(<<Head(s).m>>) = 1 /\ <<Head(s).m>>[1] = Head(s).m
    BY <1>2
  <2>2. b \in Seq(ClientMessages) /\ Len(b) = 1 + (Len(s) - 1)
        /\ \A i \in 1..(1 + (Len(s) - 1)) :
             b[i] = IF i <= 1 THEN <<Head(s).m>>[i] ELSE Messages(Tail(s))[i - 1]
    BY <1>5, <2>1, ConcatProperties
  <2> HIDE DEF b
  <2> QED
    BY <1>1, <2>1, <2>2
<1> HIDE DEF a, b
<1>7. \A i \in 1..Len(s) : a[i] = b[i]
  <2> SUFFICES ASSUME NEW i \in 1..Len(s) PROVE a[i] = b[i]
    OBVIOUS
  <2>1. CASE i = 1
    BY <1>2, <1>4, <1>6, <2>1
  <2>2. CASE i # 1
    <3>1. i - 1 \in 1..(Len(s) - 1) /\ (i - 1) + 1 = i /\ ~(i <= 1)
      BY <1>1, <2>2
    <3>2. Messages(Tail(s))[i - 1] = s[(i - 1) + 1].m
      BY <1>5, <3>1
    <3> QED
      BY <1>4, <1>6, <3>1, <3>2
  <2> QED
    BY <2>1, <2>2
<1>8. a = b
  BY <1>4, <1>6, <1>7, SeqEqual
<1> QED
  BY <1>1, <1>2, <1>3, <1>8 DEF a, b

LEMMA PipelineType ==
  ASSUME TypeOK
  PROVE  /\ up \in Seq(ClientMessages) /\ Messages(wsq) \in Seq(ClientMessages)
         /\ outgoing \in Seq(ClientMessages) /\ Pipeline \in Seq(ClientMessages)
<1>1. /\ up \in Seq(ClientMessages) /\ Messages(wsq) \in Seq(ClientMessages)
      /\ outgoing \in Seq(ClientMessages)
  BY MessagesOf DEF TypeOK, ChannelTypeOK
<1> QED
  BY <1>1, ConcatProperties DEF Pipeline

\* A new worker has nothing that a message could conflict with.
LEMMA FollowsNew ==
  ASSUME NEW m \in ClientMessages
  PROVE  Follows(NoWorker, m) /\ Follows(NewWorker, m)
<1>1. \A q \in QueryIds : ~Holds(NewWorker, q) /\ ~Holds(NoWorker, q)
  BY DEF Holds, NewWorker, NoWorker, NoQuery
<1>2. NewWorker.received.query_set = 0 /\ NoWorker.received.query_set = 0
  BY DEF NewWorker, NoWorker
<1>3. m.t = "ModifyQuerySet" => m.base \in Nat
  BY ClientMessageFields
<1> QED
  BY <1>1, <1>2, <1>3 DEF Follows

LEMMA LineNew ==
  ASSUME NEW s \in Seq(ClientMessages), NEW w, NEW tok, Line(s, w, tok)
  PROVE  Line(s, NoWorker, tok) /\ Line(s, NewWorker, tok)
BY FollowsNew, ElementOfSeq DEF Line, AllFollow

-----------------------------------------------------------------------------
(* Chains of views                                                         *)

LEMMA ChainEnds ==
  ASSUME NEW tok, NEW messages \in Seq(ServerMessages), NEW vs, Chain(messages, vs, tok),
         NEW other \in Seq(ServerMessages), NEW n \in Nat, n <= Len(messages), n <= Len(other),
         \A i \in 1..n : other[i] = messages[i],
         \A i \in 1..Len(other) : i > n => other[i].t # "Transition"
  PROVE  \E vs2 : /\ Chain(other, vs2, tok) /\ vs2[1] = vs[1]
                  /\ vs2[Len(other) + 1] = vs[n + 1]
<1> DEFINE vs2 == [i \in 1..(Len(other) + 1) |-> IF i <= n + 1 THEN vs[i] ELSE vs[n + 1]]
<1>1. Len(messages) \in Nat /\ Len(other) \in Nat
  BY LenProperties
<1>2. /\ vs \in [1..(Len(messages) + 1) -> Views]
      /\ \A i \in 1..(Len(messages) + 1) : Good(vs[i].rem, tok) /\ vs[i].seen <= Len(log)
      /\ \A i \in 1..Len(messages) : Link(messages[i], vs[i], vs[i + 1], tok)
  BY DEF Chain
<1>3. n + 1 \in 1..(Len(messages) + 1) /\ \A i \in 1..(Len(other) + 1) : i <= n + 1 => i \in 1..(Len(messages) + 1)
  BY <1>1
<1>4. vs2 \in [1..(Len(other) + 1) -> Views]
  BY <1>2, <1>3
<1>5. \A i \in 1..(Len(other) + 1) : vs2[i] = IF i <= n + 1 THEN vs[i] ELSE vs[n + 1]
  OBVIOUS
<1> HIDE DEF vs2
<1>6. \A i \in 1..(Len(other) + 1) : Good(vs2[i].rem, tok) /\ vs2[i].seen <= Len(log)
  BY <1>2, <1>3, <1>5
<1>7. ASSUME NEW i \in 1..Len(other) PROVE Link(other[i], vs2[i], vs2[i + 1], tok)
  <2>1. i \in 1..(Len(other) + 1) /\ i + 1 \in 1..(Len(other) + 1)
    BY <1>1
  <2>2. CASE i <= n
    <3>1. i \in 1..n /\ i \in 1..Len(messages) /\ i <= n + 1 /\ i + 1 <= n + 1
      BY <1>1, <2>2
    <3>2. vs2[i] = vs[i] /\ vs2[i + 1] = vs[i + 1] /\ other[i] = messages[i]
      BY <1>5, <2>1, <3>1
    <3> QED
      BY <1>2, <3>1, <3>2
  <2>3. CASE i > n
    <3>1. vs2[i] = vs[n + 1] /\ vs2[i + 1] = vs[n + 1]
      <4>1. ~(i + 1 <= n + 1) /\ (i <= n + 1 => i = n + 1)
        BY <1>1, <2>3
      <4> QED
        BY <1>5, <2>1, <4>1
    <3>2. vs[n + 1].seen \in Nat
      BY <1>2, <1>3 DEF Views
    <3> QED
      BY <2>3, <3>1, <3>2 DEF Link
  <2> QED
    BY <1>1, <2>2, <2>3
<1>8. vs2[1] = vs[1] /\ vs2[Len(other) + 1] = vs[n + 1]
  <2>1. 1 \in 1..(Len(other) + 1) /\ 1 <= n + 1 /\ Len(other) + 1 \in 1..(Len(other) + 1)
        /\ (Len(other) + 1 <= n + 1 => Len(other) + 1 = n + 1)
    BY <1>1
  <2> QED
    BY <1>5, <2>1
<1>9. Chain(other, vs2, tok)
  BY <1>4, <1>6, <1>7 DEF Chain
<1> QED
  BY <1>8, <1>9

LEMMA ChainGrows ==
  ASSUME NEW tok, NEW messages \in Seq(ServerMessages), NEW vs, Chain(messages, vs, tok),
         NEW m \in ServerMessages, NEW v \in Views, Good(v.rem, tok), v.seen <= Len(log),
         Link(m, vs[Len(messages) + 1], v, tok)
  PROVE  \E vs2 : /\ Chain(messages \o <<m>>, vs2, tok) /\ vs2[1] = vs[1]
                  /\ vs2[Len(messages \o <<m>>) + 1] = v
<1> DEFINE n == Len(messages)
           other == messages \o <<m>>
           vs2 == [i \in 1..(n + 2) |-> IF i <= n + 1 THEN vs[i] ELSE v]
<1>1. n \in Nat /\ Len(other) = n + 1 /\ \A i \in 1..(n + 1) : other[i] = IF i <= n THEN messages[i] ELSE m
  BY LenProperties
<1> HIDE DEF n, other
<1>2. /\ vs \in [1..(n + 1) -> Views]
      /\ \A i \in 1..(n + 1) : Good(vs[i].rem, tok) /\ vs[i].seen <= Len(log)
      /\ \A i \in 1..n : Link(messages[i], vs[i], vs[i + 1], tok)
  BY DEF Chain, n
<1>3. vs2 \in [1..(n + 2) -> Views] /\ \A i \in 1..(n + 2) : vs2[i] = IF i <= n + 1 THEN vs[i] ELSE v
  BY <1>1, <1>2
<1> HIDE DEF vs2
<1>4. \A i \in 1..(n + 2) : Good(vs2[i].rem, tok) /\ vs2[i].seen <= Len(log)
  BY <1>1, <1>2, <1>3
<1>5. ASSUME NEW i \in 1..(n + 1) PROVE Link(other[i], vs2[i], vs2[i + 1], tok)
  <2>1. i \in 1..(n + 2) /\ i + 1 \in 1..(n + 2) /\ vs2[i] = vs[i]
    BY <1>1, <1>3
  <2>2. CASE i <= n
    <3>1. vs2[i + 1] = vs[i + 1] /\ other[i] = messages[i] /\ i \in 1..n
      BY <1>1, <1>3, <2>1, <2>2
    <3> QED
      BY <1>2, <2>1, <3>1
  <2>3. CASE i = n + 1
    <3>1. vs2[i + 1] = v /\ other[i] = m /\ ~(n + 1 <= n)
      BY <1>1, <1>3, <2>1, <2>3
    <3> QED
      BY <2>1, <2>3, <3>1 DEF n
  <2> QED
    BY <1>1, <2>2, <2>3
<1>6. Len(other) + 1 = n + 2 /\ 1 \in 1..(n + 2) /\ 1 <= n + 1 /\ n + 2 \in 1..(n + 2) /\ ~(n + 2 <= n + 1)
  BY <1>1
<1>7. Chain(other, vs2, tok)
  BY <1>1, <1>3, <1>4, <1>5, <1>6 DEF Chain
<1>8. vs2[1] = vs[1] /\ vs2[Len(other) + 1] = v
  BY <1>3, <1>6
<1> QED
  BY <1>7, <1>8 DEF other

LEMMA ChainTail ==
  ASSUME NEW tok, NEW messages \in Seq(ServerMessages), messages # <<>>, NEW vs, Chain(messages, vs, tok)
  PROVE  \E vs2 : /\ Chain(Tail(messages), vs2, tok) /\ vs2[1] = vs[2]
                  /\ vs2[Len(Tail(messages)) + 1] = vs[Len(messages) + 1]
<1> DEFINE n == Len(messages)
           vs2 == [i \in 1..n |-> vs[i + 1]]
<1>1. n \in Nat /\ n > 0 /\ Len(Tail(messages)) = n - 1 /\ \A i \in 1..(n - 1) : Tail(messages)[i] = messages[i + 1]
  BY EmptySeq, HeadTailProperties
<1> HIDE DEF n
<1>2. /\ vs \in [1..(n + 1) -> Views]
      /\ \A i \in 1..(n + 1) : Good(vs[i].rem, tok) /\ vs[i].seen <= Len(log)
      /\ \A i \in 1..n : Link(messages[i], vs[i], vs[i + 1], tok)
  BY DEF Chain, n
<1>3. \A i \in 1..n : i + 1 \in 1..(n + 1)
  BY <1>1
<1>4. vs2 \in [1..n -> Views] /\ \A i \in 1..n : vs2[i] = vs[i + 1]
  BY <1>2, <1>3
<1> HIDE DEF vs2
<1>5. \A i \in 1..n : Good(vs2[i].rem, tok) /\ vs2[i].seen <= Len(log)
  BY <1>2, <1>3, <1>4
<1>6. ASSUME NEW i \in 1..(n - 1) PROVE Link(Tail(messages)[i], vs2[i], vs2[i + 1], tok)
  <2>1. i \in 1..n /\ i + 1 \in 1..n
    BY <1>1
  <2> QED
    BY <1>1, <1>2, <1>4, <2>1
<1>7. (n - 1) + 1 = n /\ 1 \in 1..n /\ n \in 1..n
  BY <1>1
<1>8. Chain(Tail(messages), vs2, tok)
  BY <1>1, <1>4, <1>5, <1>6, <1>7 DEF Chain
<1>9. vs2[1] = vs[2] /\ vs2[Len(Tail(messages)) + 1] = vs[Len(messages) + 1]
  BY <1>1, <1>4, <1>7 DEF n
<1> QED
  BY <1>8, <1>9

\* A new connection: its server takes the client to have nothing.
LEMMA ChainReset ==
  ASSUME NEW tok, NEW messages \in Seq(ServerMessages), NEW vs, Chain(messages, vs, tok), Good(NoRemote, tok)
  PROVE  \E vs2 : /\ Chain(messages, vs2, tok) /\ vs2[Len(messages) + 1].rem = NoRemote
                  /\ vs2[1].rem \in {vs[1].rem, NoRemote} /\ vs2[1].seen = vs[1].seen
                  /\ vs2[Len(messages) + 1].seen = vs[Len(messages) + 1].seen
<1> DEFINE n == Len(messages)
           v == [rem |-> NoRemote, seen |-> vs[n + 1].seen]
           vs2 == [i \in 1..(n + 1) |-> IF i <= n THEN vs[i] ELSE v]
<1>1. n \in Nat
  BY LenProperties
<1> HIDE DEF n
<1>2. /\ vs \in [1..(n + 1) -> Views]
      /\ \A i \in 1..(n + 1) : Good(vs[i].rem, tok) /\ vs[i].seen <= Len(log)
      /\ \A i \in 1..n : Link(messages[i], vs[i], vs[i + 1], tok)
  BY DEF Chain, n
<1>3. n + 1 \in 1..(n + 1)
  BY <1>1
<1>4. v \in Views /\ v.rem = NoRemote /\ v.seen = vs[n + 1].seen
  BY <1>2, <1>3, NoRemoteType DEF Views
<1> HIDE DEF v
<1>5. vs2 \in [1..(n + 1) -> Views] /\ \A i \in 1..(n + 1) : vs2[i] = IF i <= n THEN vs[i] ELSE v
  BY <1>1, <1>2, <1>4
<1> HIDE DEF vs2
<1>6. \A i \in 1..(n + 1) : Good(vs2[i].rem, tok) /\ vs2[i].seen <= Len(log)
  <2> SUFFICES ASSUME NEW i \in 1..(n + 1) PROVE Good(vs2[i].rem, tok) /\ vs2[i].seen <= Len(log)
    OBVIOUS
  <2>1. CASE i <= n
    BY <1>2, <1>5, <2>1
  <2>2. CASE ~(i <= n)
    BY <1>2, <1>3, <1>4, <1>5, <2>2
  <2> QED
    BY <2>1, <2>2
<1>7. ASSUME NEW i \in 1..n PROVE Link(messages[i], vs2[i], vs2[i + 1], tok)
  <2>1. i \in 1..(n + 1) /\ i + 1 \in 1..(n + 1) /\ vs2[i] = vs[i]
    BY <1>1, <1>5
  <2>2. CASE i < n
    <3>1. vs2[i + 1] = vs[i + 1]
      BY <1>1, <1>5, <2>1, <2>2
    <3> QED
      BY <1>2, <2>1, <3>1
  <2>3. CASE i = n
    <3>1. vs2[i + 1] = v /\ Link(messages[i], vs[i], vs[i + 1], tok) /\ v.seen = vs[i + 1].seen
      BY <1>1, <1>2, <1>4, <1>5, <2>1, <2>3
    <3> QED
      BY <1>4, <2>1, <3>1 DEF Link
  <2> QED
    BY <1>1, <2>2, <2>3
<1>8. Chain(messages, vs2, tok)
  BY <1>5, <1>6, <1>7 DEF Chain, n
<1>9. vs2[n + 1] = v /\ (vs2[1] = vs[1] \/ (n = 0 /\ vs2[1] = v))
  BY <1>1, <1>3, <1>5
<1> QED
  BY <1>4, <1>8, <1>9 DEF n

-----------------------------------------------------------------------------
(* Steps of the worker                                                     *)

\* Workers that differ in nothing a client could see.
Alike(w, x) ==
  /\ x.current_version = w.current_version /\ x.identity = w.identity /\ x.received = w.received
  /\ x.pending_query_updates = w.pending_query_updates /\ x.pending_identity = w.pending_identity
  /\ x.transition = w.transition
  /\ \A q \in QueryIds : /\ x.queries[q].phase = w.queries[q].phase /\ x.queries[q].token = w.queries[q].token
                         /\ x.queries[q].sub = w.queries[q].sub /\ x.queries[q].hash = w.queries[q].hash

LEMMA AlikeHolds ==
  ASSUME NEW w, NEW x, Alike(w, x)
  PROVE  /\ \A q \in QueryIds : Holds(x, q) <=> Holds(w, q)
         /\ \A m : Follows(w, m) => Follows(x, m)
<1>1. \A q \in QueryIds : Holds(x, q) <=> Holds(w, q)
  BY DEF Alike, Holds
<1> QED
  BY <1>1 DEF Alike, Follows

LEMMA AlikeServes ==
  ASSUME NEW w, NEW x, Alike(w, x), NEW v, NEW tok, Serves(w, v, tok)
  PROVE  Serves(x, v, tok)
<1>1. x.current_version = v.rem.version /\ x.transition = w.transition
  BY DEF Alike, Serves
<1>2. QueriesOK(x, tok)
  BY DEF Alike, Serves, QueriesOK
<1>3. ChangesOK(x, tok)
  <2>1. \A u \in x.pending_query_updates :
          GoodUpdate(u, tok) /\ (u.op = "Add" => x.queries[u.id].phase = "none")
    BY DEF Alike, Serves, ChangesOK, GoodUpdate
  <2> QED
    BY <2>1 DEF Alike, Serves, ChangesOK
<1>4. ~w.transition.busy => Idle(x, v, tok)
  BY DEF Alike, Serves, Idle
<1>5. w.transition.busy => Busy(x, v, tok)
  <2> SUFFICES ASSUME w.transition.busy, Busy(w, v, tok) PROVE Busy(x, v, tok)
    BY DEF Serves
  <2> QED
    BY DEF Alike, Busy
<1>6. ~restarted => Known(x)
  BY DEF Alike, Serves, Known, Identity
<1> QED
  BY <1>1, <1>2, <1>3, <1>4, <1>5, <1>6 DEF Serves

LEMMA TakenQueryCases ==
  ASSUME NEW w \in Workers, NEW q \in QueryIds, NEW tok,
         \A u \in w.pending_query_updates : GoodUpdate(u, tok)
  PROVE  LET t == TakenQuery(w, q) IN
         \/ q \in UpdatedIds(w, "Remove") /\ t = NoQuery
         \/ /\ q \notin UpdatedIds(w, "Remove") /\ q \in UpdatedIds(w, "Add")
            /\ t.phase = "in_progress" /\ t.token = tok[q] /\ t.hash = {} /\ t.sub = {}
         \/ /\ q \notin UpdatedIds(w, "Remove") /\ q \notin UpdatedIds(w, "Add")
            /\ t.phase = w.queries[q].phase /\ t.token = w.queries[q].token
            /\ t.hash = w.queries[q].hash /\ t.sub = {}
<1>1. CASE q \in UpdatedIds(w, "Remove")
  BY <1>1 DEF TakenQuery
<1>2. CASE q \notin UpdatedIds(w, "Remove") /\ q \in UpdatedIds(w, "Add")
  <2> DEFINE u == CHOOSE u \in Updates(w, "Add") : u.id = q
  <2>1. \E x \in Updates(w, "Add") : x.id = q
    BY <1>2 DEF UpdatedIds
  <2>2. u \in Updates(w, "Add") /\ u.id = q
    BY <2>1
  <2>3. TakenQuery(w, q) = [NoQuery EXCEPT !.phase = "in_progress", !.token = u.token]
    BY <1>2 DEF TakenQuery
  <2> HIDE DEF u
  <2>4. u.token = tok[q]
    BY <2>2 DEF Updates, GoodUpdate
  <2> QED
    BY <1>2, <2>3, <2>4 DEF NoQuery
<1>3. CASE q \notin UpdatedIds(w, "Remove") /\ q \notin UpdatedIds(w, "Add")
  <2>1. w.queries[q] \in QueryStates /\ TakenQuery(w, q) = [w.queries[q] EXCEPT !.sub = {}, !.future = FALSE]
    BY <1>3, WorkerType DEF TakenQuery
  <2> QED
    BY <1>3, <2>1 DEF QueryStates
<1> QED
  BY <1>1, <1>2, <1>3

LEMMA UpdatedGood ==
  ASSUME NEW w \in Workers, NEW q \in QueryIds, NEW tok, ChangesOK(w, tok)
  PROVE  /\ q \in UpdatedIds(w, "Remove") => q < next_query_id /\ q \notin SubscribedIds
         /\ q \in UpdatedIds(w, "Add") => /\ q < next_query_id /\ w.queries[q].phase = "none"
                                          /\ \E u \in w.pending_query_updates : u.op = "Add" /\ u.id = q
         /\ w.pending_query_updates = {} => q \notin UpdatedIds(w, "Add") /\ q \notin UpdatedIds(w, "Remove")
BY DEF ChangesOK, GoodUpdate, UpdatedIds, Updates

LEMMA BeginHolds ==
  ASSUME NEW w \in Workers, NEW tok, ChangesOK(w, tok)
  PROVE  /\ \A q \in QueryIds : Holds(BeginUpdate(w), q) => Holds(w, q)
         /\ \A q \in QueryIds : Holds(w, q) /\ q \in SubscribedIds => Holds(BeginUpdate(w), q)
         /\ \A m : Follows(w, m) => Follows(BeginUpdate(w), m)
<1> DEFINE b == BeginUpdate(w)
<1> HIDE DEF b
<1>0. b.pending_query_updates = {} /\ b.received = w.received /\ b.queries = [q \in QueryIds |-> TakenQuery(w, q)]
  BY BeginUpdateFields DEF b
<1>1. /\ b.pending_query_updates = {} /\ b.received = w.received
      /\ \A q \in QueryIds : b.queries[q] = TakenQuery(w, q)
  BY <1>0
<1>2. ASSUME NEW q \in QueryIds
      PROVE  (Holds(b, q) => Holds(w, q)) /\ (Holds(w, q) /\ q \in SubscribedIds => Holds(b, q))
  <2>1. Holds(b, q) <=> TakenQuery(w, q).phase # "none"
    BY <1>1 DEF Holds
  <2>2. q \in UpdatedIds(w, "Remove") => q \notin SubscribedIds
    BY UpdatedGood
  <2>3. q \in UpdatedIds(w, "Add") <=> \E u \in w.pending_query_updates : u.op = "Add" /\ u.id = q
    BY DEF UpdatedIds, Updates
  <2>4. NoQuery.phase = "none"
    BY DEF NoQuery
  <2>5. \A u \in w.pending_query_updates : GoodUpdate(u, tok)
    BY DEF ChangesOK
  <2> QED
    BY <2>1, <2>2, <2>3, <2>4, <2>5, TakenQueryCases DEF Holds
<1>3. \A m : Follows(w, m) => Follows(b, m)
  BY <1>1, <1>2 DEF Follows
<1> QED
  BY <1>2, <1>3 DEF b

\* begin_update_queries keeps the worker in step with the client: nothing is
\* sent yet.
LEMMA BeginServes ==
  ASSUME TypeOK, NEW w \in Workers, NEW v, NEW tok, Serves(w, v, tok), ~w.transition.busy,
         Good(v.rem, tok), v.seen <= Len(log)
  PROVE  Serves(BeginUpdate(w), v, tok)
<1> DEFINE b == BeginUpdate(w)
<1> HIDE DEF b
<1> DEFINE end == [ts |-> Len(log), query_set |-> w.received.query_set,
                   identity |-> IF w.pending_identity = {} THEN w.current_version.identity
                                ELSE w.received.identity]
           tr == [busy |-> TRUE, start |-> w.current_version, end |-> end,
                  removed |-> UpdatedIds(w, "Remove"),
                  remaining |-> [q \in QueryIds |-> Remaining(w, q)]]
<1>0. /\ b.current_version = w.current_version /\ b.received = w.received
      /\ b.pending_query_updates = {} /\ b.pending_identity = {} /\ b.identity = Identity(w)
      /\ b.queries = [q \in QueryIds |-> TakenQuery(w, q)]
      /\ b.transition = tr
  BY BeginUpdateFields DEF b, TargetTs, latest_timestamp
<1>1. /\ b.current_version = w.current_version /\ b.received = w.received
      /\ b.pending_query_updates = {} /\ b.pending_identity = {} /\ b.identity = Identity(w)
      /\ \A q \in QueryIds : b.queries[q] = TakenQuery(w, q)
  BY <1>0
<1>2. /\ b.transition.busy = TRUE /\ b.transition.start = w.current_version
      /\ b.transition.end.ts = Len(log) /\ b.transition.end.query_set = w.received.query_set
      /\ b.transition.end.identity = IF w.pending_identity = {} THEN w.current_version.identity
                                     ELSE w.received.identity
      /\ b.transition.removed = UpdatedIds(w, "Remove")
      /\ \A q \in QueryIds : b.transition.remaining[q] = Remaining(w, q)
  BY <1>0
<1> HIDE DEF end, tr
<1>3. /\ w.received.query_set \in Nat /\ w.received.identity \in Nat
      /\ w.current_version.ts \in Nat /\ w.current_version.identity \in Nat /\ Len(log) \in Nat
  BY WorkerType, VersionType, LogTimestamp DEF TypeOK
<1>4. /\ w.current_version = v.rem.version /\ QueriesOK(w, tok) /\ ChangesOK(w, tok) /\ Idle(w, v, tok)
      /\ (~restarted => Known(w))
  BY DEF Serves
<1>5. w.current_version.ts <= Len(log)
  BY <1>4 DEF Good
<1>6. \A u \in w.pending_query_updates : GoodUpdate(u, tok)
  BY <1>4 DEF ChangesOK
<1>7. w.received.query_set = 0 => \A q \in QueryIds : b.queries[q].phase = "none"
  <2> SUFFICES ASSUME w.received.query_set = 0, NEW q \in QueryIds PROVE b.queries[q].phase = "none"
    OBVIOUS
  <2>1. w.pending_query_updates = {} /\ w.queries[q].phase = "none"
    BY <1>4 DEF ChangesOK
  <2>2. q \notin UpdatedIds(w, "Add") /\ q \notin UpdatedIds(w, "Remove")
    BY <1>4, <2>1, UpdatedGood
  <2> QED
    BY <1>1, <1>6, <2>1, <2>2, TakenQueryCases
<1>8. ASSUME NEW q \in QueryIds
      PROVE  /\ b.queries[q].phase # "none" => b.queries[q].token = tok[q] /\ q < next_query_id
             /\ b.queries[q].phase # "live" => b.queries[q].hash = {} /\ b.queries[q].sub = {}
             /\ b.queries[q].phase = "live" => b.queries[q].hash # {}
             /\ q \in b.transition.removed =>
                  b.queries[q].phase = "none" /\ q < next_query_id /\ q \notin SubscribedIds
             /\ q \notin b.transition.removed => b.queries[q].hash = v.rem.set[q]
  <2>1. /\ NoQuery.phase = "none" /\ NoQuery.hash = {} /\ NoQuery.sub = {}
    BY DEF NoQuery
  <2>2. /\ q \in UpdatedIds(w, "Remove") => q < next_query_id /\ q \notin SubscribedIds
        /\ q \in UpdatedIds(w, "Add") => q < next_query_id /\ w.queries[q].phase = "none"
    BY <1>4, UpdatedGood
  <2>3. /\ w.queries[q].hash = v.rem.set[q]
        /\ w.queries[q].phase # "none" => w.queries[q].token = tok[q] /\ q < next_query_id
        /\ w.queries[q].phase # "live" => w.queries[q].hash = {}
        /\ w.queries[q].phase = "live" => w.queries[q].hash # {}
    BY <1>4 DEF Idle, QueriesOK
  <2>4. CASE q \in UpdatedIds(w, "Remove") /\ b.queries[q] = NoQuery
    BY <1>2, <2>1, <2>2, <2>4
  <2>5. CASE /\ q \notin UpdatedIds(w, "Remove") /\ q \in UpdatedIds(w, "Add")
             /\ b.queries[q].phase = "in_progress" /\ b.queries[q].token = tok[q]
             /\ b.queries[q].hash = {} /\ b.queries[q].sub = {}
    BY <1>2, <2>2, <2>3, <2>5
  <2>6. CASE /\ q \notin UpdatedIds(w, "Remove") /\ q \notin UpdatedIds(w, "Add")
             /\ b.queries[q].phase = w.queries[q].phase /\ b.queries[q].token = w.queries[q].token
             /\ b.queries[q].hash = w.queries[q].hash /\ b.queries[q].sub = {}
    BY <1>2, <2>3, <2>6
  <2> QED
    BY <1>1, <1>6, <2>4, <2>5, <2>6, TakenQueryCases
<1>9. ASSUME NEW q \in QueryIds
      PROVE  /\ b.transition.remaining[q] \subseteq {w.current_version.ts}
             /\ b.transition.remaining[q] # {} /\ b.queries[q].phase # "none" =>
                  /\ b.queries[q].phase = "live"
                  /\ b.queries[q].hash \subseteq {Value(tok[q], b.identity, w.current_version.ts)}
  <2>1. /\ w.queries[q].hash \subseteq {Value(tok[q], w.identity, w.current_version.ts)}
        /\ w.queries[q].sub \subseteq {w.current_version.ts}
        /\ w.queries[q].phase # "live" => w.queries[q].sub = {}
    BY <1>4 DEF Idle, QueriesOK
  <2>2. b.transition.remaining[q] = IF w.pending_identity = {} THEN w.queries[q].sub ELSE {}
    BY <1>2 DEF Remaining
  <2>3. ASSUME b.transition.remaining[q] # {}, b.queries[q].phase # "none"
        PROVE  /\ b.queries[q].phase = "live"
               /\ b.queries[q].hash \subseteq {Value(tok[q], b.identity, w.current_version.ts)}
    <3>1. w.pending_identity = {} /\ w.queries[q].phase = "live" /\ b.identity = w.identity
      BY <1>1, <2>1, <2>2, <2>3 DEF Identity
    <3>2. q \notin UpdatedIds(w, "Add")
      BY <1>4, <3>1, UpdatedGood
    <3>3. NoQuery.phase = "none"
      BY DEF NoQuery
    <3>4. b.queries[q].phase = w.queries[q].phase /\ b.queries[q].hash = w.queries[q].hash
      BY <1>1, <1>6, <2>3, <3>2, <3>3, TakenQueryCases
    <3> QED
      BY <2>1, <3>1, <3>4
  <2> QED
    BY <2>1, <2>2, <2>3
<1>10. QueriesOK(b, tok)
  BY <1>8 DEF QueriesOK
<1>11. ChangesOK(b, tok)
  BY <1>1, <1>4, <1>7 DEF ChangesOK
<1>12. ~restarted =>
         /\ b.transition.end.identity <= w.received.identity
         /\ b.transition.end.identity = identity_version => b.identity = auth_token
  <2> SUFFICES ASSUME ~restarted
               PROVE  /\ b.transition.end.identity <= w.received.identity
                      /\ b.transition.end.identity = identity_version => b.identity = auth_token
    OBVIOUS
  <2>1. /\ w.current_version.identity <= w.received.identity
        /\ w.received.identity = identity_version => Identity(w) = auth_token
        /\ w.current_version.identity = identity_version => w.identity = auth_token
    BY <1>4 DEF Known, Idle
  <2>2. CASE w.pending_identity = {}
    BY <1>1, <1>2, <2>1, <2>2 DEF Identity
  <2>3. CASE w.pending_identity # {}
    BY <1>1, <1>2, <1>3, <2>1, <2>3
  <2> QED
    BY <2>2, <2>3
<1>13. Busy(b, v, tok)
  BY <1>1, <1>2, <1>3, <1>5, <1>7, <1>8, <1>9, <1>12 DEF Busy
<1>14. ~restarted => Known(b)
  BY <1>1, <1>4 DEF Known, Identity
<1> QED
  BY <1>1, <1>2, <1>4, <1>10, <1>11, <1>13, <1>14 DEF Serves, b

LEMMA ModifiedQuerySetServes ==
  ASSUME NEW w \in Workers, NEW v, NEW tok, Serves(w, v, tok), NEW m \in ClientMessages,
         m.t = "ModifyQuerySet", m.base = w.received.query_set, GoodMessage(m, tok), Follows(w, m)
  PROVE  LET x == ModifiedQuerySet(w, m) IN
         /\ Serves(x, v, tok)
         /\ \A q \in QueryIds : Holds(x, q) <=> Holds(w, q) \/ Adds(m, q)
         /\ \A n \in ClientMessages : Follows(w, n) /\ Precedes(m, n) => Follows(x, n)
<1> DEFINE x == ModifiedQuerySet(w, m)
<1>1. /\ x.current_version = w.current_version /\ x.identity = w.identity
      /\ x.pending_query_updates = w.pending_query_updates \cup m.modifications
      /\ x.pending_identity = w.pending_identity /\ x.transition = w.transition /\ x.queries = w.queries
      /\ x.received.query_set = m.new /\ x.received.identity = w.received.identity
  BY DEF ModifiedQuerySet, Workers
<1> HIDE DEF x
<1>2. /\ m.base \in Nat /\ m.new = m.base + 1 /\ (~restarted => m.new <= query_set_version)
      /\ \A u \in m.modifications : GoodUpdate(u, tok)
  BY ClientMessageFields DEF GoodMessage
<1>3. /\ w.current_version.query_set \in Nat /\ w.transition.end.query_set \in Nat
  BY WorkerType, VersionType
<1>4. /\ w.current_version = v.rem.version /\ QueriesOK(w, tok) /\ ChangesOK(w, tok)
      /\ (~w.transition.busy => Idle(w, v, tok)) /\ (w.transition.busy => Busy(w, v, tok))
      /\ (~restarted => Known(w))
  BY DEF Serves
<1>5. ASSUME NEW u \in m.modifications, u.op = "Add" PROVE w.queries[u.id].phase = "none"
  <2>1. u.id \in QueryIds /\ Adds(m, u.id)
    BY <1>2, <1>5 DEF GoodUpdate, Adds
  <2>2. Holds(w, u.id) => w.received.query_set = 0
    BY <2>1 DEF Follows
  <2>3. w.received.query_set = 0 => w.queries[u.id].phase = "none"
    BY <1>4, <2>1 DEF ChangesOK
  <2> QED
    BY <2>2, <2>3 DEF Holds
<1>6. QueriesOK(x, tok)
  BY <1>1, <1>4 DEF QueriesOK
<1>7. ChangesOK(x, tok)
  <2>1. \A u \in x.pending_query_updates :
          GoodUpdate(u, tok) /\ (u.op = "Add" => x.queries[u.id].phase = "none")
    BY <1>1, <1>2, <1>4, <1>5 DEF ChangesOK
  <2> QED
    BY <1>1, <1>2, <1>3, <1>4, <2>1 DEF ChangesOK
<1>8. ~x.transition.busy => Idle(x, v, tok)
  BY <1>1, <1>4 DEF Idle
<1>9. x.transition.busy => Busy(x, v, tok)
  BY <1>1, <1>2, <1>3, <1>4 DEF Busy
<1>10. ~restarted => Known(x)
  <2> SUFFICES ASSUME ~restarted PROVE Known(x)
    OBVIOUS
  <2>1. Identity(x) = Identity(w)
    BY <1>1 DEF Identity
  <2>2. w.current_version.query_set <= w.received.query_set
    BY <1>4 DEF ChangesOK
  <2> QED
    BY <1>1, <1>2, <1>3, <1>4, <2>1, <2>2 DEF Known
<1>11. \A q \in QueryIds : Holds(x, q) <=> Holds(w, q) \/ Adds(m, q)
  BY <1>1 DEF Holds, Adds
<1>12. ASSUME NEW n \in ClientMessages, Follows(w, n), Precedes(m, n) PROVE Follows(x, n)
  <2>1. n.t = "ModifyQuerySet" => n.base \in Nat
    BY ClientMessageFields
  <2>2. ~restarted /\ n.t = "ModifyQuerySet" => x.received.query_set <= n.base
    BY <1>1, <1>2, <1>12, <2>1 DEF Precedes
  <2>3. \A q \in QueryIds : Adds(n, q) /\ Holds(x, q) => n.base = 0
    BY <1>11, <1>12 DEF Precedes, Follows
  <2> QED
    BY <2>2, <2>3 DEF Follows
<1>13. Serves(x, v, tok)
  BY <1>1, <1>4, <1>6, <1>7, <1>8, <1>9, <1>10 DEF Serves
<1> QED
  BY <1>11, <1>12, <1>13 DEF x

LEMMA ModifiedIdentityServes ==
  ASSUME TypeOK, NEW w \in Workers, NEW v, NEW tok, Serves(w, v, tok), NEW m \in ClientMessages,
         m.t = "Authenticate", m.base = w.received.identity, GoodMessage(m, tok)
  PROVE  LET x == ModifiedIdentity(w, m) IN
         /\ Serves(x, v, tok)
         /\ \A q \in QueryIds : Holds(x, q) <=> Holds(w, q)
         /\ \A n : Follows(w, n) => Follows(x, n)
<1> DEFINE x == ModifiedIdentity(w, m)
<1>1. /\ x.current_version = w.current_version /\ x.identity = w.identity
      /\ x.pending_query_updates = w.pending_query_updates
      /\ x.pending_identity = {m.token} /\ x.transition = w.transition /\ x.queries = w.queries
      /\ x.received.query_set = w.received.query_set /\ x.received.identity = w.received.identity + 1
  BY DEF ModifiedIdentity, Workers
<1> HIDE DEF x
<1>2. /\ m.base \in Nat /\ m.token \in Identities /\ identity_version \in Nat
      /\ ~restarted => m.base < identity_version /\ (m.base + 1 = identity_version => m.token = auth_token)
  BY ClientMessageFields DEF GoodMessage, TypeOK, LocalTypeOK
<1>3. /\ w.current_version.identity \in Nat /\ w.transition.end.identity \in Nat
  BY WorkerType, VersionType
<1>4. /\ w.current_version = v.rem.version /\ QueriesOK(w, tok) /\ ChangesOK(w, tok)
      /\ (~w.transition.busy => Idle(w, v, tok)) /\ (w.transition.busy => Busy(w, v, tok))
      /\ (~restarted => Known(w))
  BY DEF Serves
<1>5. QueriesOK(x, tok)
  BY <1>1, <1>4 DEF QueriesOK
<1>6. ChangesOK(x, tok)
  <2>1. \E i \in Identities : x.pending_identity = {i}
    BY <1>1, <1>2
  <2> QED
    BY <1>1, <1>4, <2>1 DEF ChangesOK
<1>7. ~x.transition.busy => Idle(x, v, tok)
  BY <1>1, <1>4 DEF Idle
<1>8. x.transition.busy => Busy(x, v, tok)
  BY <1>1, <1>2, <1>3, <1>4 DEF Busy
<1>9. ~restarted => Known(x)
  <2>1. Identity(x) = m.token
    <3>1. \A i \in {m.token} : i = m.token
      OBVIOUS
    <3>2. {m.token} # {}
      OBVIOUS
    <3>3. (CHOOSE i \in {m.token} : TRUE) = m.token
      OBVIOUS
    <3> QED
      BY <1>1, <3>2, <3>3 DEF Identity
  <2> QED
    BY <1>1, <1>2, <1>3, <1>4, <2>1 DEF Known
<1>10. \A q \in QueryIds : Holds(x, q) <=> Holds(w, q)
  BY <1>1 DEF Holds
<1>11. \A n : Follows(w, n) => Follows(x, n)
  BY <1>1, <1>10 DEF Follows
<1>12. Serves(x, v, tok)
  BY <1>1, <1>4, <1>5, <1>6, <1>7, <1>8, <1>9 DEF Serves
<1> QED
  BY <1>10, <1>11, <1>12 DEF x

LEMMA FinishedFields ==
  ASSUME worker \in Workers, NEW fetched
  PROVE  LET x == Finished(fetched) IN
         /\ x.current_version = worker.transition.end /\ x.identity = worker.identity
         /\ x.received = worker.received /\ x.pending_query_updates = worker.pending_query_updates
         /\ x.pending_identity = worker.pending_identity /\ x.transition = NoTransition
         /\ x.alive = worker.alive
         /\ x.queries = [q \in QueryIds |-> IF q \in DOMAIN fetched THEN FetchedQuery(q, fetched[q])
                                            ELSE worker.queries[q]]
BY DEF Finished, Workers

LEMMA SentFields ==
  ASSUME NEW fetched
  PROVE  LET m == Sent(fetched) IN
         /\ m.t = "Transition" /\ m.start = worker.transition.start /\ m.end = worker.transition.end
         /\ m.removed = worker.transition.removed
         /\ m.updated = [q \in Changes(fetched) |-> CHOOSE v \in NewHash(q) : TRUE]
BY DEF Sent, Transition

LEMMA FetchedFields ==
  ASSUME worker \in Workers, NEW q \in QueryIds, NEW result
  PROVE  LET f == FetchedQuery(q, result) IN
         /\ result = "unavailable" => f = worker.queries[q]
         /\ result # "unavailable" =>
              /\ f.phase = "live" /\ f.token = worker.queries[q].token /\ f.sub = {worker.transition.end.ts}
              /\ f.hash = IF result = "rerun" THEN NewHash(q) ELSE worker.queries[q].hash
<1>1. worker.queries[q] \in QueryStates
  BY WorkerType
<1> QED
  BY <1>1 DEF FetchedQuery, QueryStates

\* What a finished update keeps of a query is what the client then has of it.
LEMMA FinishedQuery ==
  ASSUME TypeOK, NEW tok, NEW v, Serves(worker, v, tok), worker.transition.busy,
         NEW fetched \in [Present(worker) -> {"rerun", "refresh", "unavailable"}],
         \A p \in Present(worker) : fetched[p] \in FetchResults(p), ~MissingSubscription(fetched),
         NEW q \in QueryIds
  PROVE  LET x == Finished(fetched).queries[q]
             set == Applied(v.rem, Sent(fetched)).set
         IN /\ set[q] = x.hash
            /\ x.hash \subseteq {Value(tok[q], worker.identity, worker.transition.end.ts)}
            /\ x.sub \subseteq {worker.transition.end.ts}
            /\ x.phase # "none" <=> worker.queries[q].phase # "none"
            /\ x.phase # "none" => x.token = worker.queries[q].token
            /\ x.phase # "live" => x.hash = {} /\ x.sub = {}
            /\ x.phase = "live" => x.hash # {}
            /\ worker.queries[q].phase # "none" /\ tok[q] \notin SearchTokens => x.hash # {}
<1> DEFINE x == Finished(fetched).queries[q]
           y == worker.queries[q]
           tr == worker.transition
           m == Sent(fetched)
           set == Applied(v.rem, m).set
           val == Value(y.token, worker.identity, tr.end.ts)
<1>1. worker \in Workers
  BY DEF TypeOK, ServerTypeOK
<1>2. DOMAIN fetched = Present(worker) /\ (q \in Present(worker) <=> y.phase # "none")
  BY <1>1, PresentType, WorkerType
<1>3. x = IF q \in Present(worker) THEN FetchedQuery(q, fetched[q]) ELSE y
  BY <1>1, <1>2, FinishedFields
<1>4. /\ m.updated = [p \in Changes(fetched) |-> CHOOSE u \in NewHash(p) : TRUE]
      /\ m.removed = tr.removed
  BY SentFields
<1>5. set[q] = IF q \in DOMAIN m.updated THEN {m.updated[q]} ELSE IF q \in m.removed THEN {} ELSE v.rem.set[q]
  BY DEF Applied
<1>6. NewHash(q) = {val} /\ (CHOOSE u \in NewHash(q) : TRUE) = val
  BY <1>1, NewHashType
<1>7. DOMAIN m.updated = Changes(fetched) /\ (q \in Changes(fetched) => m.updated[q] = val)
  BY <1>4, <1>6
<1>8. q \in Changes(fetched) <=> q \in Present(worker) /\ fetched[q] = "rerun" /\ y.hash # {val}
  BY <1>2, <1>6 DEF Changes
<1>9. /\ y.phase # "none" => y.token = tok[q]
      /\ y.phase # "live" => y.hash = {} /\ y.sub = {}
      /\ y.phase = "live" => y.hash # {}
  BY DEF Serves, QueriesOK
<1>10. /\ q \in tr.removed => y.phase = "none"
       /\ q \notin tr.removed => y.hash = v.rem.set[q]
       /\ tr.remaining[q] \subseteq {worker.current_version.ts}
       /\ tr.remaining[q] # {} /\ y.phase # "none" =>
            y.phase = "live" /\ y.hash \subseteq {Value(tok[q], worker.identity, worker.current_version.ts)}
       /\ worker.current_version.ts <= tr.end.ts
  BY DEF Serves, Busy
<1>11. worker.current_version.ts \in Nat /\ tr.end.ts \in Nat
  BY <1>1, WorkerType, VersionType
<1> HIDE DEF x, y, tr, m, set, val
<1>12. CASE q \notin Present(worker)
  BY <1>2, <1>3, <1>4, <1>5, <1>7, <1>8, <1>9, <1>10, <1>12 DEF x, y, tr, m, set
<1>13. CASE q \in Present(worker) /\ fetched[q] = "rerun"
  <2>1. /\ x.phase = "live" /\ x.token = y.token /\ x.sub = {tr.end.ts} /\ x.hash = {val}
    BY <1>1, <1>3, <1>6, <1>13, FetchedFields DEF y, tr
  <2>2. set[q] = {val}
    BY <1>2, <1>4, <1>5, <1>7, <1>8, <1>10, <1>13
  <2>3. val = Value(tok[q], worker.identity, tr.end.ts)
    BY <1>2, <1>9, <1>13 DEF val
  <2> QED
    BY <1>2, <1>13, <2>1, <2>2, <2>3 DEF x, y, tr, m, set
<1>14. CASE q \in Present(worker) /\ fetched[q] = "refresh"
  <2>1. /\ x.phase = "live" /\ x.token = y.token /\ x.sub = {tr.end.ts} /\ x.hash = y.hash
    BY <1>1, <1>3, <1>14, FetchedFields DEF y, tr
  <2>2. set[q] = y.hash
    BY <1>2, <1>4, <1>5, <1>7, <1>8, <1>10, <1>14
  <2>3. Refreshable(q)
    BY <1>14 DEF FetchResults
  <2>4. PICK ts \in tr.remaining[q] : ~Changed(y.token, ts, tr.end.ts)
    BY <2>3 DEF Refreshable, y, tr
  <2>5. ts = worker.current_version.ts /\ y.phase = "live" /\ y.token = tok[q]
        /\ y.hash \subseteq {Value(tok[q], worker.identity, worker.current_version.ts)}
    BY <1>2, <1>9, <1>10, <1>14, <2>4
  <2>6. Value(tok[q], worker.identity, worker.current_version.ts) = Value(tok[q], worker.identity, tr.end.ts)
    BY <1>10, <1>11, <2>4, <2>5, ValueUnchanged
  <2> QED
    BY <1>2, <1>9, <1>14, <2>1, <2>2, <2>5, <2>6 DEF x, y, tr, m, set
<1>15. CASE q \in Present(worker) /\ fetched[q] = "unavailable"
  <2>1. x = y
    BY <1>1, <1>3, <1>15, FetchedFields DEF y
  <2>2. y.phase # "live"
    BY <1>2, <1>15 DEF MissingSubscription, y
  <2>3. set[q] = y.hash
    BY <1>2, <1>4, <1>5, <1>7, <1>8, <1>10, <1>15
  <2>4. y.token \in SearchTokens
    BY <1>15 DEF FetchResults, y
  <2>5. y.hash = {} /\ y.sub = {} /\ y.token = tok[q]
    BY <1>2, <1>9, <1>15, <2>2
  <2> QED
    BY <1>2, <1>9, <1>15, <2>1, <2>2, <2>3, <2>4, <2>5 DEF x, y, tr, m, set
<1> QED
  BY <1>12, <1>13, <1>14, <1>15

\* Once the worker has all that the client sent, it has every query.
LEMMA NothingUnderway ==
  ASSUME TypeOK, NEW tok, PipelineOK(tok), ~restarted, worker.alive,
         worker.received.query_set = query_set_version, worker.pending_query_updates = {},
         NEW q \in SubscribedIds
  PROVE  worker.queries[q].phase # "none"
<1>1. Line(Pipeline, worker, tok) /\ (Holds(worker, q) \/ Added(Pipeline, q))
  BY DEF PipelineOK, Reachable
<1>2. ~Added(Pipeline, q)
  <2> SUFFICES ASSUME NEW i \in 1..Len(Pipeline), Adds(Pipeline[i], q) PROVE FALSE
    BY DEF Added
  <2>1. Pipeline[i] \in ClientMessages
    BY PipelineType, ElementOfSeq
  <2>2. Pipeline[i].t = "ModifyQuerySet" /\ GoodMessage(Pipeline[i], tok) /\ Follows(worker, Pipeline[i])
    BY <1>1 DEF Line, AllGood, AllFollow, Adds
  <2>3. Pipeline[i].base \in Nat /\ query_set_version \in Nat
    BY <2>1, <2>2, ClientMessageFields DEF TypeOK, LocalTypeOK
  <2> QED
    BY <2>2, <2>3 DEF GoodMessage, Follows
<1> QED
  BY <1>1, <1>2 DEF Holds

\* finish_update_queries leads the client to a view that is again of one
\* timestamp and one identity.
LEMMA FinishServes ==
  ASSUME TypeOK, NEW tok, NEW v \in Views, LocalOK(tok), PipelineOK(tok), worker.alive,
         Serves(worker, v, tok), Good(v.rem, tok), worker.transition.busy,
         NEW fetched \in [Present(worker) -> {"rerun", "refresh", "unavailable"}],
         \A p \in Present(worker) : fetched[p] \in FetchResults(p), ~MissingSubscription(fetched)
  PROVE  LET x == Finished(fetched)
             m == Sent(fetched)
             next == [rem |-> Applied(v.rem, m), seen |-> worker.transition.end.ts]
         IN /\ Serves(x, next, tok)
            /\ next \in Views /\ Good(next.rem, tok) /\ next.seen <= Len(log)
            /\ Link(m, v, next, tok)
            /\ \A q \in QueryIds : Holds(x, q) <=> Holds(worker, q)
            /\ \A n : Follows(worker, n) => Follows(x, n)
<1> DEFINE x == Finished(fetched)
           m == Sent(fetched)
           r == Applied(v.rem, m)
           tr == worker.transition
           next == [rem |-> r, seen |-> tr.end.ts]
<1>1. worker \in Workers /\ DOMAIN fetched \subseteq QueryIds
  BY PresentType DEF TypeOK, ServerTypeOK
<1>2. /\ m.t = "Transition" /\ m.start = tr.start /\ m.end = tr.end /\ m \in ServerMessages
  BY <1>1, SentFields, FinishedType
<1>3. /\ x.current_version = tr.end /\ x.identity = worker.identity /\ x.received = worker.received
      /\ x.pending_query_updates = worker.pending_query_updates
      /\ x.pending_identity = worker.pending_identity /\ x.transition.busy = FALSE
  <2> HIDE DEF x
  <2>1. /\ x.current_version = tr.end /\ x.identity = worker.identity /\ x.received = worker.received
        /\ x.pending_query_updates = worker.pending_query_updates
        /\ x.pending_identity = worker.pending_identity /\ x.transition = NoTransition
    BY <1>1, FinishedFields DEF x
  <2>2. NoTransition.busy = FALSE
    BY DEF NoTransition
  <2> QED
    BY <2>1, <2>2
<1>4. r.version = tr.end
  BY <1>2 DEF Applied
<1>5. r \in Remotes
  <2>1. m.updated \in PartialResults /\ m.end \in Versions /\ v.rem \in Remotes
    BY <1>2, ServerMessageFields DEF Views
  <2>2. \A q \in DOMAIN m.updated : m.updated[q] \in Values
    BY <2>1, PartialResult
  <2>3. v.rem.set \in [QueryIds -> SUBSET Values]
    BY <2>1, RemoteType
  <2> HIDE DEF m
  <2>4. r.set \in [QueryIds -> SUBSET Values]
    BY <2>2, <2>3 DEF Applied
  <2> QED
    BY <2>1, <2>4 DEF Applied, Remotes
<1>6. /\ tr.end.ts \in Nat /\ tr.end.query_set \in Nat /\ tr.end.identity \in Nat
      /\ worker.received.query_set \in Nat /\ worker.received.identity \in Nat
      /\ query_set_version \in Nat /\ identity_version \in Nat /\ v.seen \in Nat
      /\ worker.identity \in Identities /\ next_query_id \in Nat
  BY <1>1, WorkerType, VersionType DEF TypeOK, LocalTypeOK, Views
<1>7. /\ QueriesOK(worker, tok) /\ ChangesOK(worker, tok) /\ Busy(worker, v, tok)
      /\ (~restarted => Known(worker)) /\ worker.current_version = v.rem.version
  BY DEF Serves
<1>8. \A q \in QueryIds :
        /\ r.set[q] = x.queries[q].hash
        /\ x.queries[q].hash \subseteq {Value(tok[q], worker.identity, tr.end.ts)}
        /\ x.queries[q].sub \subseteq {tr.end.ts}
        /\ x.queries[q].phase # "none" <=> worker.queries[q].phase # "none"
        /\ x.queries[q].phase # "none" => x.queries[q].token = worker.queries[q].token
        /\ x.queries[q].phase # "live" => x.queries[q].hash = {} /\ x.queries[q].sub = {}
        /\ x.queries[q].phase = "live" => x.queries[q].hash # {}
        /\ worker.queries[q].phase # "none" /\ tok[q] \notin SearchTokens => x.queries[q].hash # {}
  BY FinishedQuery
<1> HIDE DEF x, m, r
<1>9. Good(r, tok)
  <2>1. r.version.ts <= Len(log)
    BY <1>4, <1>7 DEF Busy
  <2>2. ASSUME NEW q \in QueryIds, r.version.query_set = 0 \/ q >= next_query_id PROVE r.set[q] = {}
    <3>1. worker.queries[q].phase = "none"
      BY <1>4, <1>6, <1>7, <2>2, QueryIdsNat DEF Busy, QueriesOK
    <3> QED
      BY <1>8, <3>1
  <2>3. Snapshot(r, tok, worker.identity)
    BY <1>4, <1>8 DEF Snapshot
  <2>4. ~restarted /\ r.version.identity = identity_version => worker.identity = auth_token
    BY <1>4, <1>7 DEF Busy
  <2>5. ~restarted => r.version.identity <= identity_version /\ r.version.query_set <= query_set_version
    BY <1>4, <1>6, <1>7 DEF Busy, Known
  <2>6. ~restarted => Complete(r)
    <3> SUFFICES ASSUME ~restarted, r.version.query_set = query_set_version,
                        NEW t \in SubscribedTokens \ SearchTokens
                 PROVE  r.set[query_set[t]] # {}
      BY DEF Complete
    <3>1. worker.received.query_set = query_set_version /\ worker.pending_query_updates = {}
      BY <1>4, <1>6, <1>7 DEF Busy, Known
    <3>2. t \in Tokens /\ query_set[t] # None /\ query_set[t] \in SubscribedIds
      BY DEF SubscribedTokens, SubscribedIds
    <3>3. query_set[t] \in QueryIds /\ tok[query_set[t]] = t
      BY <3>2, QuerySetNat DEF TypeOK, LocalOK
    <3>4. worker.queries[query_set[t]].phase # "none"
      BY <3>1, <3>2, NothingUnderway
    <3> QED
      BY <1>8, <3>3, <3>4
  <2> QED
    BY <1>5, <1>6, <2>1, <2>2, <2>3, <2>4, <2>5, <2>6 DEF Good
<1>10. next \in Views /\ next.rem = r /\ next.seen = tr.end.ts /\ next.seen <= Len(log)
  BY <1>5, <1>6, <1>7 DEF Views, Busy
<1>11. Link(m, v, next, tok)
  <2>1. m.start = v.rem.version /\ v.seen <= m.end.ts /\ m.end.ts <= next.seen /\ v.seen <= next.seen
    BY <1>2, <1>6, <1>7, <1>10 DEF Busy
  <2>2. r = Applied(v.rem, m)
    BY DEF r
  <2> QED
    BY <1>2, <1>9, <1>10, <2>1, <2>2 DEF Link
<1>12. QueriesOK(x, tok)
  BY <1>7, <1>8 DEF QueriesOK
<1>13. ChangesOK(x, tok)
  <2>1. \A u \in x.pending_query_updates :
          GoodUpdate(u, tok) /\ (u.op = "Add" => x.queries[u.id].phase = "none")
    BY <1>3, <1>7, <1>8 DEF ChangesOK, GoodUpdate
  <2> QED
    BY <1>3, <1>7, <1>8, <2>1 DEF ChangesOK, Busy
<1>14. Idle(x, next, tok)
  BY <1>3, <1>7, <1>8, <1>10 DEF Idle, Busy
<1>15. ~restarted => Known(x)
  <2>1. Identity(x) = Identity(worker)
    BY <1>3 DEF Identity
  <2> QED
    BY <1>3, <1>7, <2>1 DEF Known, Busy
<1>16. Serves(x, next, tok)
  BY <1>3, <1>4, <1>10, <1>12, <1>13, <1>14, <1>15 DEF Serves
<1>17. \A q \in QueryIds : Holds(x, q) <=> Holds(worker, q)
  BY <1>3, <1>8 DEF Holds
<1>18. \A n : Follows(worker, n) => Follows(x, n)
  BY <1>3, <1>17 DEF Follows
<1> QED
  BY <1>9, <1>10, <1>11, <1>16, <1>17, <1>18 DEF x, m, r

-----------------------------------------------------------------------------
(* Steps of the server                                                     *)

LEMMA NoRemoteStable ==
  ASSUME TypeOK, TypeOK', NEW tok, NEW tok2, Advances(tok, tok2), Good(NoRemote, tok)
  PROVE  Good(NoRemote, tok2)'
<1>1. PICK r : r = NoRemote
  OBVIOUS
<1>2. Good(r, tok2)'
  BY <1>1, GoodStable
<1>3. NoRemote' = NoRemote
  BY DEF NoRemote, InitialVersion
<1> QED
  BY <1>1, <1>2, <1>3

LEMMA LocalStable ==
  ASSUME TypeOK, TypeOK', NEW tok, UNCHANGED <<localVars, restarted>>, LogStep, LocalOK(tok)
  PROVE  LocalOK(tok)'
<1>1. Good(NoRemote, tok)'
  BY Steady, NoRemoteStable DEF LocalOK
<1> QED
  BY <1>1 DEF LocalOK, localVars

LEMMA ResultsStable ==
  ASSUME TypeOK, TypeOK', NEW tok, NEW tok2, Advances(tok, tok2), NEW n \in Nat, n <= Len(log),
         ResultsOK(tok, n), results' = results
  PROVE  ResultsOK(tok2, n)'
<1>1. next_query_id \in Nat /\ next_query_id' \in Nat /\ next_query_id <= next_query_id' /\ LogStep
  BY DEF TypeOK, LocalTypeOK, Advances
<1>2. Len(log) \in Nat
  BY <1>1, LogGrows
<1> SUFFICES ASSUME NEW q \in QueryIds
             PROVE  /\ q >= next_query_id' => results[q] = {}
                    /\ \E who \in Identities, ts \in 0..n : results[q] \subseteq {Value(tok2[q], who, ts)'}
  BY DEF ResultsOK
<1>3. q >= next_query_id' => results[q] = {}
  BY <1>1, QueryIdsNat DEF ResultsOK
<1>4. PICK who \in Identities, ts \in 0..n : results[q] \subseteq {Value(tok[q], who, ts)}
  BY DEF ResultsOK
<1>5. ts \in Nat /\ ts <= Len(log)
  BY <1>2
<1>6. Value(tok[q], who, ts)' = Value(tok[q], who, ts)
  BY <1>1, <1>5, ValueStable
<1>7. results[q] \subseteq {Value(tok2[q], who, ts)'}
  <2>1. CASE q >= next_query_id
    BY <2>1 DEF ResultsOK
  <2>2. CASE q < next_query_id
    <3>1. tok2[q] = tok[q]
      BY <2>2 DEF Advances
    <3> QED
      BY <1>4, <1>6, <3>1
  <2> QED
    BY <1>1, <2>1, <2>2, QueryIdsNat
<1> QED
  BY <1>3, <1>7

LEMMA IncomingType ==
  ASSUME TypeOK
  PROVE  /\ Incoming \in Seq(ServerMessages) /\ Len(Incoming) \in Nat
         /\ resp \in Seq(ServerMessages) /\ down \in Seq(ServerMessages)
         /\ Len(resp) \in Nat /\ Len(down) \in Nat /\ Len(resp) <= Len(Incoming)
         /\ \A i \in 1..Len(resp) : Incoming[i] = resp[i]
<1>1. resp \in Seq(ServerMessages) /\ down \in Seq(ServerMessages)
  BY DEF TypeOK, ChannelTypeOK
<1>2. CASE ws = "connected"
  <2>1. Incoming = resp \o down
    BY <1>2 DEF Incoming
  <2> QED
    BY <1>1, <2>1, ConcatProperties, LenProperties
<1>3. CASE ws # "connected"
  <2>1. Incoming = resp
    BY <1>3 DEF Incoming
  <2> QED
    BY <1>1, <2>1, LenProperties
<1> QED
  BY <1>2, <1>3

LEMMA FirstView ==
  ASSUME NEW tok, NEW messages, Len(messages) \in Nat, NEW vs, Chain(messages, vs, tok)
  PROVE  /\ vs[1] \in Views /\ Good(vs[1].rem, tok) /\ vs[1].seen \in Nat /\ vs[1].seen <= Len(log)
         /\ LET v == vs[Len(messages) + 1] IN
            v \in Views /\ Good(v.rem, tok) /\ v.seen \in Nat /\ v.seen <= Len(log)
<1>1. 1 \in 1..(Len(messages) + 1) /\ Len(messages) + 1 \in 1..(Len(messages) + 1)
  OBVIOUS
<1> QED
  BY <1>1 DEF Chain, Views

\* A view at the initial version is empty.
LEMMA EmptyView ==
  ASSUME NEW r, NEW tok, Good(r, tok), r.version = NoRemote.version
  PROVE  r = NoRemote
<1>1. r \in Remotes /\ r.version = InitialVersion /\ r.version.query_set = 0
  BY DEF Good, NoRemote, InitialVersion
<1>2. \A q \in QueryIds : r.set[q] = {}
  BY <1>1 DEF Good
<1>3. r.set = [q \in QueryIds |-> {}]
  BY <1>1, <1>2 DEF Remotes
<1>4. r = [version |-> r.version, set |-> r.set]
  BY <1>1 DEF Remotes
<1> QED
  BY <1>1, <1>3, <1>4 DEF NoRemote

\* The client's view where only what it has still to handle changes.
LEMMA ViewKept ==
  ASSUME TypeOK, TypeOK', NEW tok, NEW tok2, Advances(tok, tok2), NEW vs, ViewOK(tok, vs),
         UNCHANGED <<results, remote, failed>>,
         NEW messages, messages = Incoming', NEW vs2, Chain(messages, vs2, tok),
         vs2[1].seen = vs[1].seen, vs2[1].rem \in {vs[1].rem, NoRemote}
  PROVE  ViewOK(tok2, vs2)'
<1>1. Chain(Incoming, vs2, tok2)'
  BY ChainStable
<1>2. Good(remote, tok2)'
  BY GoodStable DEF ViewOK
<1>3. Chain(Incoming, vs, tok) /\ ResultsOK(tok, vs[1].seen) /\ Len(Incoming) \in Nat
  BY IncomingType DEF ViewOK
<1>4. vs[1].seen \in Nat /\ vs[1].seen <= Len(log)
  BY <1>3, FirstView
<1>5. ResultsOK(tok2, vs2[1].seen)'
  BY <1>3, <1>4, ResultsStable
<1>6. ~failed /\ remote.version = vs2[1].rem.version => remote = vs2[1].rem
  <2>1. CASE vs2[1].rem = vs[1].rem
    BY <2>1 DEF ViewOK
  <2>2. CASE vs2[1].rem = NoRemote
    BY <2>2, EmptyView DEF ViewOK
  <2> QED
    BY <2>1, <2>2
<1> QED
  BY <1>1, <1>2, <1>5, <1>6 DEF ViewOK

\* A step that sends nothing and changes nothing of the worker the client
\* could see: a commit, a function that ran.
LEMMA QuietStep ==
  ASSUME TypeOK, TypeOK', NEW tok, NEW vs, Core(tok, vs), LogStep,
         UNCHANGED <<clientVars, up, down, restarted>>,
         worker' = worker \/ (worker.alive /\ worker'.alive /\ Alike(worker, worker'))
  PROVE  Core(tok, vs)'
<1>1. UNCHANGED <<localVars, results, remote, outgoing, failed, ws, wsq, resp>>
  BY DEF clientVars, viewVars, taskVars
<1>2. Advances(tok, tok)
  BY <1>1, Steady
<1>3. LocalOK(tok)'
  BY <1>1, LocalStable DEF Core
<1>4. Incoming' = Incoming /\ Pipeline' = Pipeline
  BY <1>1 DEF Incoming, Pipeline, Messages
<1>5. ViewOK(tok, vs)'
  BY <1>1, <1>2, <1>4, ViewKept DEF Core, ViewOK
<1>6. SubscribedIds' = SubscribedIds
  BY <1>1 DEF SubscribedIds, SubscribedTokens, localVars
<1>7. PICK x : x = worker'
  OBVIOUS
<1>8. \/ x = worker
      \/ worker.alive /\ x.alive /\ Alike(worker, x)
  BY <1>7 DEF Alike
<1>9. /\ \A q \in QueryIds : Holds(x, q) <=> Holds(worker, q)
      /\ \A m : Follows(worker, m) => Follows(x, m)
  BY <1>8, AlikeHolds
<1>10. PipelineOK(tok)'
  <2>1. Pipeline \in Seq(ClientMessages)
    BY PipelineType
  <2>2. Line(Pipeline, x, tok)
    BY <1>9, <2>1, LineFollows DEF Core, PipelineOK
  <2>3. Line(Pipeline, worker, tok)'
    BY <1>2, <1>4, <1>7, <2>1, <2>2, LineStable
  <2>4. \A q : Added(Pipeline, q)' <=> Added(Pipeline, q)
    BY <1>2, <1>4, <2>1, LineStable
  <2>5. Reachable' => Reachable
    BY <1>1, <1>7, <1>8 DEF Reachable
  <2>6. \A q \in SubscribedIds : q \in QueryIds
    BY QuerySetNat DEF SubscribedIds, SubscribedTokens, TypeOK
  <2>7. \A q \in QueryIds : Holds(worker, q)' <=> Holds(worker, q)
    BY <1>7, <1>9 DEF Holds
  <2> QED
    BY <1>1, <1>6, <2>3, <2>4, <2>5, <2>6, <2>7 DEF Core, PipelineOK
<1>11. WorkerOK(tok, vs)'
  <2>1. worker'.alive <=> worker.alive
    BY <1>7, <1>8
  <2>2. ASSUME worker.alive
        PROVE  ws = "connected" /\ (\A i \in 1..Len(down) : down[i] # CloseFrame)
               /\ Serves(worker, vs[Len(Incoming) + 1], tok)'
    <3>1. /\ ws = "connected" /\ \A i \in 1..Len(down) : down[i] # CloseFrame
          /\ Serves(worker, vs[Len(Incoming) + 1], tok)
      BY <2>2 DEF Core, WorkerOK
    <3> DEFINE v == vs[Len(Incoming) + 1]
    <3>2. Serves(x, v, tok) /\ x \in Workers
      BY <1>7, <1>8, <3>1, AlikeServes DEF TypeOK, ServerTypeOK
    <3>3. Good(v.rem, tok)
      BY IncomingType, FirstView DEF Core, ViewOK
    <3>4. PICK u : u = v
      OBVIOUS
    <3>5. Serves(x, u, tok)'
      BY <1>2, <3>2, <3>3, <3>4, ServesStable
    <3> QED
      BY <1>4, <1>7, <3>1, <3>4, <3>5
  <2>3. ~worker.alive => worker' = NoWorker
    BY <1>7, <1>8 DEF Core, WorkerOK
  <2> QED
    BY <1>1, <2>1, <2>2, <2>3 DEF WorkerOK, NoWorker, NewWorker, CloseFrame
<1> QED
  BY <1>3, <1>5, <1>10, <1>11 DEF Core

LEMMA ConcatParts ==
  ASSUME NEW S, NEW s \in Seq(S), NEW t \in Seq(S)
  PROVE  /\ s \o t \in Seq(S) /\ Len(s) \in Nat /\ Len(t) \in Nat /\ Len(s \o t) = Len(s) + Len(t)
         /\ \A i \in 1..Len(s) : (s \o t)[i] = s[i]
         /\ \A i \in 1..(Len(s) + Len(t)) : i > Len(s) =>
              i - Len(s) \in 1..Len(t) /\ (s \o t)[i] = t[i - Len(s)]
<1>1. Len(s) \in Nat /\ Len(t) \in Nat
  BY LenProperties
<1> QED
  BY <1>1, ConcatProperties

\* The next state, where what subscribers have been given stays.
LEMMA CoreNext ==
  ASSUME TypeOK, TypeOK', NEW tok, NEW vs, Core(tok, vs), NEW tok2, Advances(tok, tok2),
         LocalOK(tok2)', PipelineOK(tok2)', UNCHANGED <<results, remote, failed>>,
         NEW messages, messages = Incoming', NEW vs2, Chain(messages, vs2, tok),
         vs2[1].seen = vs[1].seen, vs2[1].rem \in {vs[1].rem, NoRemote},
         NEW x \in Workers, x = worker',
         x.alive => /\ ws' = "connected" /\ \A i \in 1..Len(down') : down'[i] # CloseFrame
                    /\ Serves(x, vs2[Len(messages) + 1], tok),
         ~x.alive => x = NoWorker
  PROVE  Core(tok2, vs2)'
<1>1. ViewOK(tok2, vs2)'
  BY ViewKept DEF Core
<1>2. WorkerOK(tok2, vs2)'
  <2>1. ASSUME x.alive PROVE Serves(worker, vs2[Len(Incoming) + 1], tok2)'
    <3>1. PICK u : u = vs2[Len(messages) + 1]
      OBVIOUS
    <3>2. Len(messages) \in Nat
      BY IncomingType, LenProperties DEF Incoming, TypeOK, ChannelTypeOK
    <3>3. Good(u.rem, tok) /\ Serves(x, u, tok)
      BY <2>1, <3>1, <3>2, FirstView
    <3>4. Serves(x, u, tok2)'
      BY <3>3, ServesStable
    <3> QED
      BY <3>1, <3>4
  <2>2. NoWorker' = NoWorker /\ CloseFrame' = CloseFrame
    BY DEF NoWorker, NewWorker, CloseFrame
  <2> QED
    BY <2>1, <2>2 DEF WorkerOK
<1> QED
  BY <1>1, <1>2 DEF Core

\* The same of what the client has sent, where its queries stay.
LEMMA PipelineNext ==
  ASSUME TypeOK, TypeOK', NEW tok, Advances(tok, tok), UNCHANGED <<query_set, restarted>>,
         NEW line \in Seq(ClientMessages), line = Pipeline', NEW x, x = worker', Line(line, x, tok),
         ~restarted =>
           /\ \A i \in 1..Len(wsq') : wsq'[i].kind = "Send"
           /\ ws' = "connecting" => up' = <<>>
           /\ x.alive \/ ws' = "connecting" => \A q \in SubscribedIds : Holds(x, q) \/ Added(line, q)
  PROVE  PipelineOK(tok)'
<1>1. Line(line, x, tok)'
  BY LineStable
<1>2. \A q : Added(line, q)' <=> Added(line, q)
  BY LineStable
<1>3. SubscribedIds' = SubscribedIds
  BY DEF SubscribedIds, SubscribedTokens
<1>4. \A q : Holds(x, q)' <=> Holds(x, q)
  BY DEF Holds
<1> QED
  BY <1>1, <1>2, <1>3, <1>4 DEF PipelineOK, Reachable

\* A loop iteration of the worker that makes it w before it may begin an update.
LEMMA IterateCore ==
  ASSUME TypeOK, TypeOK', NEW tok, NEW vs, Core(tok, vs), worker.alive, log' = log,
         UNCHANGED <<clientVars, restarted>>,
         NEW w \in Workers, w.alive, NEW response \in Seq(ServerMessages), Iterate(w, response),
         \A i \in 1..Len(response) : response[i] # CloseFrame,
         NEW vs2, Chain(Incoming \o response, vs2, tok), vs2[1] = vs[1],
         Serves(w, vs2[Len(Incoming \o response) + 1], tok),
         NEW line \in Seq(ClientMessages), line = Pipeline', Line(line, w, tok),
         ~restarted => \A q \in SubscribedIds : Holds(w, q) \/ Added(line, q)
  PROVE  Core(tok, vs2)'
<1>1. UNCHANGED <<localVars, results, remote, outgoing, failed, ws, wsq, resp>>
  BY DEF clientVars, viewVars, taskVars
<1>2. LogStep
  BY DEF LogStep
<1>3. Advances(tok, tok)
  BY <1>1, <1>2, Steady
<1>4. ws = "connected" /\ \A i \in 1..Len(down) : down[i] # CloseFrame
  BY DEF Core, WorkerOK
<1>5. /\ resp \in Seq(ServerMessages) /\ down \in Seq(ServerMessages)
      /\ down' = down \o response /\ Incoming = resp \o down
  BY <1>4, IncomingType DEF Iterate, Incoming
<1>6. Incoming' = Incoming \o response
  <2>1. Incoming' = resp \o (down \o response)
    BY <1>1, <1>4, <1>5 DEF Incoming
  <2>2. (resp \o down) \o response = resp \o (down \o response)
    BY <1>5, ConcatAssociative
  <2> QED
    BY <1>5, <2>1, <2>2, Zenon
<1>7. \A i \in 1..Len(down') : down'[i] # CloseFrame
  BY <1>4, <1>5, ConcatProperties, LenProperties
<1>8. Incoming \o response \in Seq(ServerMessages) /\ Len(Incoming \o response) \in Nat
  BY IncomingType, ConcatProperties, LenProperties
<1>9. PICK u : u = vs2[Len(Incoming \o response) + 1]
  OBVIOUS
<1>10. Serves(w, u, tok) /\ Good(u.rem, tok) /\ u.seen <= Len(log)
  BY <1>8, <1>9, FirstView
<1>11. PICK x : x = worker'
  OBVIOUS
<1>12. x = w \/ (x = BeginUpdate(w) /\ ~w.transition.busy)
  BY <1>11 DEF Iterate, CanBegin
<1>13. x \in Workers
  BY <1>11 DEF TypeOK, ServerTypeOK
<1>14. x.alive /\ Serves(x, u, tok)
  <2>1. ASSUME ~w.transition.busy PROVE Serves(BeginUpdate(w), u, tok) /\ BeginUpdate(w).alive = w.alive
    BY <1>10, <2>1, BeginServes, BeginUpdateFields
  <2> QED
    BY <1>10, <1>12, <2>1, Zenon
<1>15. \A q \in SubscribedIds : q \in QueryIds
  BY QuerySetNat DEF SubscribedIds, SubscribedTokens, TypeOK
<1>16. /\ \A q \in SubscribedIds : Holds(w, q) => Holds(x, q)
       /\ \A m : Follows(w, m) => Follows(x, m)
  BY <1>10, <1>12, <1>15, BeginHolds DEF Serves
<1>17. Line(line, x, tok)
  BY <1>16, LineFollows
<1>18. ~restarted => \A i \in 1..Len(wsq) : wsq[i].kind = "Send"
  BY DEF Core, PipelineOK
<1>19. PipelineOK(tok)'
  BY <1>1, <1>3, <1>4, <1>11, <1>16, <1>17, <1>18, PipelineNext DEF localVars
<1>20. LocalOK(tok)'
  BY <1>1, <1>2, LocalStable DEF Core
<1> QED
  BY <1>1, <1>3, <1>4, <1>6, <1>7, <1>9, <1>11, <1>13, <1>14, <1>19, <1>20, CoreNext

LEMMA ChainResponds ==
  ASSUME NEW tok, NEW messages \in Seq(ServerMessages), NEW vs, Chain(messages, vs, tok),
         NEW response \in Seq(ServerMessages), \A i \in 1..Len(response) : response[i].t # "Transition"
  PROVE  \E vs2 : /\ Chain(messages \o response, vs2, tok) /\ vs2[1] = vs[1]
                  /\ vs2[Len(messages \o response) + 1] = vs[Len(messages) + 1]
<1>1. PICK b : b = messages \o response
  OBVIOUS
<1>2. /\ b \in Seq(ServerMessages) /\ Len(messages) \in Nat /\ Len(response) \in Nat
      /\ Len(b) = Len(messages) + Len(response)
      /\ \A i \in 1..Len(messages) : b[i] = messages[i]
  BY <1>1, ConcatParts
<1>3. \A i \in 1..Len(b) : i > Len(messages) => b[i].t # "Transition"
  BY <1>1, <1>2, ConcatParts
<1>4. PICK n \in Nat : n = Len(messages)
  BY <1>2
<1>5. n <= Len(messages) /\ n <= Len(b)
  BY <1>2, <1>4
<1>6. \A i \in 1..n : b[i] = messages[i]
  BY <1>2, <1>4
<1>7. \A i \in 1..Len(b) : i > n => b[i].t # "Transition"
  BY <1>3, <1>4
<1>8. b \in Seq(ServerMessages)
  BY <1>2
<1>9. \E vs2 : Chain(b, vs2, tok) /\ vs2[1] = vs[1] /\ vs2[Len(b) + 1] = vs[n + 1]
  BY <1>5, <1>6, <1>7, <1>8, ChainEnds
<1> QED
  BY <1>1, <1>4, <1>9

\* The same, where the message it sends, if any, leaves the client's view alone.
LEMMA RespondCore ==
  ASSUME TypeOK, TypeOK', NEW tok, NEW vs, Core(tok, vs), worker.alive, log' = log,
         UNCHANGED <<clientVars, restarted>>,
         NEW w \in Workers, w.alive, NEW response \in Seq(ServerMessages), Iterate(w, response),
         \A i \in 1..Len(response) : response[i] # CloseFrame /\ response[i].t # "Transition",
         Serves(w, vs[Len(Incoming) + 1], tok),
         NEW line \in Seq(ClientMessages), line = Pipeline', Line(line, w, tok),
         ~restarted => \A q \in SubscribedIds : Holds(w, q) \/ Added(line, q)
  PROVE  \E vs2 : Core(tok, vs2)'
<1>1. Incoming \in Seq(ServerMessages) /\ Chain(Incoming, vs, tok)
  BY IncomingType DEF Core, ViewOK
<1>2. PICK vs2 : /\ Chain(Incoming \o response, vs2, tok) /\ vs2[1] = vs[1]
                 /\ vs2[Len(Incoming \o response) + 1] = vs[Len(Incoming) + 1]
  <2>1. PICK a \in Seq(ServerMessages) : a = Incoming
    BY <1>1
  <2>2. Chain(a, vs, tok) /\ \A i \in 1..Len(response) : response[i].t # "Transition"
    BY <1>1, <2>1
  <2>3. \E vs2 : /\ Chain(a \o response, vs2, tok) /\ vs2[1] = vs[1]
                 /\ vs2[Len(a \o response) + 1] = vs[Len(a) + 1]
    BY <2>2, ChainResponds
  <2> QED
    BY <2>1, <2>3
<1> QED
  BY <1>2, IterateCore

\* The connection ends: the client keeps a prefix of what was on its way.
LEMMA CloseCore ==
  ASSUME TypeOK, TypeOK', NEW tok, NEW vs, Core(tok, vs), worker.alive, log' = log,
         UNCHANGED <<clientVars, restarted>>,
         NEW final \in Seq(ServerMessages), \A i \in 1..Len(final) : final[i].t # "Transition",
         NEW n, Close(final, n), NEW line \in Seq(ClientMessages), line = Pipeline', Line(line, worker, tok)
  PROVE  \E vs2 : Core(tok, vs2)'
<1>1. UNCHANGED <<localVars, results, remote, outgoing, failed, ws, wsq, resp>>
  BY DEF clientVars, viewVars, taskVars
<1>2. LogStep
  BY DEF LogStep
<1>3. Advances(tok, tok)
  BY <1>1, <1>2, Steady
<1>4. ws = "connected"
  BY DEF Core, WorkerOK
<1>5. resp \in Seq(ServerMessages) /\ down \in Seq(ServerMessages) /\ Incoming = resp \o down
      /\ Len(resp) \in Nat /\ Len(down) \in Nat /\ Incoming \in Seq(ServerMessages)
  BY <1>4, IncomingType DEF Incoming
<1>6. PICK k \in 0..Len(down) : down' = SubSeq(down, 1, k) \o final \o <<CloseFrame>>
  BY DEF Close
<1> DEFINE sub == SubSeq(down, 1, k)
           last == final \o <<CloseFrame>>
           rest == sub \o last
<1>7. sub \in Seq(ServerMessages) /\ Len(sub) = k /\ \A i \in 1..k : sub[i] = down[i]
  BY <1>5, SubSeqProperties
<1>8. <<CloseFrame>> \in Seq(ServerMessages) /\ Len(<<CloseFrame>>) = 1 /\ <<CloseFrame>>[1] = CloseFrame
  BY ServerMessageTypes
<1> HIDE DEF sub
<1>9. /\ last \in Seq(ServerMessages) /\ Len(last) = Len(final) + 1 /\ Len(final) \in Nat
      /\ \A i \in 1..Len(last) : last[i].t # "Transition"
  <2>1. CloseFrame.t # "Transition"
    BY DEF CloseFrame
  <2>2. Len(final) \in Nat
    BY LenProperties
  <2>3. /\ last \in Seq(ServerMessages) /\ Len(last) = Len(final) + 1
        /\ \A i \in 1..Len(final) : last[i] = final[i]
        /\ \A i \in 1..(Len(final) + 1) : i > Len(final) => last[i] = <<CloseFrame>>[i - Len(final)]
    BY <1>8, <2>2, ConcatProperties
  <2> HIDE DEF last
  <2>4. last[Len(final) + 1] = CloseFrame
    BY <1>8, <2>2, <2>3
  <2> QED
    BY <2>1, <2>2, <2>3, <2>4
<1> HIDE DEF last
<1>10. down' = rest
  <2>1. (sub \o final) \o <<CloseFrame>> = sub \o (final \o <<CloseFrame>>)
    BY <1>7, <1>8, ConcatAssociative
  <2> QED
    BY <1>6, <2>1, Zenon DEF sub, last, rest
<1>11. /\ rest \in Seq(ServerMessages) /\ Len(rest) = k + Len(last)
       /\ \A i \in 1..k : rest[i] = down[i]
       /\ \A i \in 1..Len(rest) : i > k => rest[i].t # "Transition"
  <2>1. k \in Nat /\ Len(last) \in Nat
    BY <1>5, <1>9
  <2>2. /\ rest \in Seq(ServerMessages) /\ Len(rest) = k + Len(last)
        /\ \A i \in 1..k : rest[i] = sub[i]
        /\ \A i \in 1..(k + Len(last)) : i > k => rest[i] = last[i - k]
    <3>1. PICK s \in Seq(ServerMessages) : s = sub
      BY <1>7
    <3>2. PICK t \in Seq(ServerMessages) : t = last
      BY <1>9
    <3>3. Len(s) = k /\ rest = s \o t
      BY <1>7, <3>1, <3>2
    <3> HIDE DEF rest
    <3>4. /\ rest \in Seq(ServerMessages) /\ Len(rest) = k + Len(t)
          /\ \A i \in 1..k : rest[i] = s[i]
      BY <3>3, ConcatParts
    <3>5. \A i \in 1..(k + Len(t)) : i > k => rest[i] = t[i - k]
      BY <3>3, ConcatParts
    <3> QED
      BY <3>1, <3>2, <3>4, <3>5
  <2> HIDE DEF rest
  <2>3. \A i \in 1..Len(rest) : i > k => i - k \in 1..Len(last)
    BY <2>1, <2>2
  <2> QED
    BY <1>7, <1>9, <2>1, <2>2, <2>3
<1> HIDE DEF rest
<1> DEFINE messages == resp \o rest
<1>12. Incoming' = messages
  BY <1>1, <1>4, <1>10 DEF Incoming
<1>13. /\ messages \in Seq(ServerMessages) /\ Len(messages) = Len(resp) + Len(rest)
       /\ \A i \in 1..Len(resp) : messages[i] = resp[i]
       /\ \A i \in 1..Len(messages) : i > Len(resp) => messages[i] = rest[i - Len(resp)]
  <2>1. PICK t \in Seq(ServerMessages) : t = rest
    BY <1>11
  <2>2. messages = resp \o t
    BY <2>1
  <2> HIDE DEF messages
  <2> QED
    BY <1>5, <2>1, <2>2, ConcatParts
<1>14. /\ Len(Incoming) = Len(resp) + Len(down)
       /\ \A i \in 1..Len(resp) : Incoming[i] = resp[i]
       /\ \A i \in 1..Len(Incoming) : i > Len(resp) => Incoming[i] = down[i - Len(resp)]
  BY <1>5, ConcatProperties
<1> HIDE DEF messages
<1> DEFINE m == Len(resp) + k
<1>15. m \in Nat /\ m <= Len(Incoming) /\ m <= Len(messages)
  BY <1>5, <1>9, <1>11, <1>13, <1>14
<1>16. \A i \in 1..m : messages[i] = Incoming[i]
  <2> SUFFICES ASSUME NEW i \in 1..m PROVE messages[i] = Incoming[i]
    OBVIOUS
  <2>1. CASE i <= Len(resp)
    BY <1>5, <1>13, <1>14, <2>1
  <2>2. CASE i > Len(resp)
    <3>1. i - Len(resp) \in 1..k
      BY <1>5, <2>2
    <3>2. i \in 1..Len(messages) /\ i \in 1..Len(Incoming)
      BY <1>5, <1>15
    <3> QED
      BY <1>11, <1>13, <1>14, <2>2, <3>1, <3>2
  <2> QED
    BY <1>5, <2>1, <2>2
<1>17. \A i \in 1..Len(messages) : i > m => messages[i].t # "Transition"
  <2> SUFFICES ASSUME NEW i \in 1..Len(messages), i > m PROVE messages[i].t # "Transition"
    OBVIOUS
  <2>1. i > Len(resp) /\ i - Len(resp) \in 1..Len(rest) /\ i - Len(resp) > k
    BY <1>5, <1>9, <1>11, <1>13
  <2> QED
    BY <1>11, <1>13, <2>1
<1> HIDE DEF m
<1>18. PICK vs2 : Chain(messages, vs2, tok) /\ vs2[1] = vs[1]
  <2>1. Chain(Incoming, vs, tok)
    BY DEF Core, ViewOK
  <2> QED
    <3>1. PICK a \in Seq(ServerMessages) : a = Incoming
      BY <1>5
    <3>2. PICK b \in Seq(ServerMessages) : b = messages
      BY <1>13
    <3>3. /\ Chain(a, vs, tok) /\ m <= Len(a) /\ m <= Len(b)
          /\ \A i \in 1..m : b[i] = a[i]
          /\ \A i \in 1..Len(b) : i > m => b[i].t # "Transition"
      BY <1>15, <1>16, <1>17, <2>1, <3>1, <3>2
    <3>4. m \in Nat
      BY <1>15
    <3>5. \E vs2 : Chain(b, vs2, tok) /\ vs2[1] = vs[1] /\ vs2[Len(b) + 1] = vs[m + 1]
      BY <3>3, <3>4, ChainEnds
    <3> QED
      BY <3>2, <3>5
<1>19. worker' = NoWorker /\ ~NoWorker.alive /\ NoWorker \in Workers
  BY NewWorkerType DEF Close, NoWorker, NewWorker
<1>20. Line(line, NoWorker, tok)
  BY LineNew
<1>21. ~restarted => \A i \in 1..Len(wsq) : wsq[i].kind = "Send"
  BY DEF Core, PipelineOK
<1>22. PICK x : x = worker'
  OBVIOUS
<1>23. PipelineOK(tok)'
  BY <1>1, <1>3, <1>4, <1>19, <1>20, <1>21, <1>22, PipelineNext DEF localVars
<1>24. LocalOK(tok)'
  BY <1>1, <1>2, LocalStable DEF Core
<1>25. Core(tok, vs2)'
  BY <1>1, <1>3, <1>12, <1>18, <1>19, <1>22, <1>23, <1>24, CoreNext
<1> QED
  BY <1>25

\* What the worker reads next, and what is on its way behind it.
LEMMA HeadOfLine ==
  ASSUME TypeOK, NEW tok, Line(Pipeline, worker, tok), up # <<>>,
         NEW line, line = Tail(up) \o (Messages(wsq) \o outgoing)
  PROVE  /\ line \in Seq(ClientMessages) /\ Head(up) \in ClientMessages
         /\ GoodMessage(Head(up), tok) /\ Follows(worker, Head(up)) /\ Line(line, worker, tok)
         /\ \A i \in 1..Len(line) : Precedes(Head(up), line[i])
         /\ \A q : Added(Pipeline, q) <=> Adds(Head(up), q) \/ Added(line, q)
<1>1. /\ up = <<Head(up)>> \o Tail(up) /\ Head(up) \in ClientMessages /\ Tail(up) \in Seq(ClientMessages)
      /\ Messages(wsq) \in Seq(ClientMessages) /\ outgoing \in Seq(ClientMessages)
  BY PipelineType, FirstMessage
<1>2. PICK m \in ClientMessages : m = Head(up)
  BY <1>1
<1>3. PICK t \in Seq(ClientMessages) : t = Tail(up)
  BY <1>1
<1>4. PICK s \in Seq(ClientMessages) : s = Messages(wsq) \o outgoing
  BY <1>1, ConcatProperties
<1>5. <<m>> \in Seq(ClientMessages) /\ line = t \o s /\ line \in Seq(ClientMessages)
  BY <1>3, <1>4, SingleMessage, ConcatProperties
<1>6. Pipeline = <<m>> \o line
  <2>1. Pipeline = (<<m>> \o t) \o s
    BY <1>1, <1>2, <1>3, <1>4 DEF Pipeline
  <2>2. (<<m>> \o t) \o s = <<m>> \o (t \o s)
    BY <1>5, ConcatAssociative
  <2> QED
    BY <1>5, <2>1, <2>2
<1>7. Line(<<m>>, worker, tok) /\ Line(line, worker, tok) /\ AllPrecede(<<m>>, line)
  BY <1>5, <1>6, LineConcat
<1>8. GoodMessage(m, tok) /\ Follows(worker, m)
  BY <1>7, SingleMessage DEF Line
<1>9. \A i \in 1..Len(line) : Precedes(m, line[i])
  <2>1. 1 \in 1..Len(<<m>>) /\ <<m>>[1] = m
    OBVIOUS
  <2> QED
    BY <1>7, <2>1 DEF AllPrecede
<1>10. \A q : Added(Pipeline, q) <=> Adds(m, q) \/ Added(line, q)
  BY <1>5, <1>6, ConcatMessages, SingleMessage
<1> QED
  BY <1>2, <1>5, <1>7, <1>8, <1>9, <1>10

LEMMA NoResponse ==
  /\ <<>> \in Seq(ServerMessages)
  /\ \A i \in 1..Len(<<>>) : <<>>[i] # CloseFrame /\ <<>>[i].t # "Transition"
BY NoMessages

LEMMA OneResponse ==
  ASSUME NEW typ \in {"Mutation", "Action"}, NEW req \in Requests, NEW result \in Results, NEW ts \in Timestamps
  PROVE  LET s == <<Response(typ, req, result, ts)>> IN
         /\ s \in Seq(ServerMessages)
         /\ \A i \in 1..Len(s) : s[i] # CloseFrame /\ s[i].t # "Transition"
<1> DEFINE m == Response(typ, req, result, ts)
<1>1. m \in ServerMessages
  BY ServerMessageTypes
<1>2. m.t = "Response" /\ CloseFrame.t = "Close"
  BY DEF Response, CloseFrame
<1> HIDE DEF m
<1>3. <<m>> \in Seq(ServerMessages) /\ \A i \in 1..Len(<<m>>) : <<m>>[i] = m
  BY <1>1
<1>4. \A i \in 1..Len(<<m>>) : <<m>>[i] # CloseFrame /\ <<m>>[i].t # "Transition"
  BY <1>2, <1>3
<1> QED
  BY <1>3, <1>4 DEF m

\* What the client's queries are to the worker.
LEMMA ServingWorker ==
  ASSUME TypeOK, NEW tok, NEW vs, Core(tok, vs), worker.alive
  PROVE  /\ worker \in Workers /\ ws = "connected" /\ Serves(worker, vs[Len(Incoming) + 1], tok)
         /\ Line(Pipeline, worker, tok) /\ Pipeline \in Seq(ClientMessages)
         /\ ~restarted => \A q \in SubscribedIds : Holds(worker, q) \/ Added(Pipeline, q)
         /\ \A q \in SubscribedIds : q \in QueryIds
<1>1. \A q \in SubscribedIds : q \in QueryIds
  BY QuerySetNat DEF SubscribedIds, SubscribedTokens, TypeOK
<1> QED
  BY <1>1, PipelineType DEF Core, WorkerOK, PipelineOK, Reachable, TypeOK, ServerTypeOK

\* The worker reads a message that changes nothing of the session.
LEMMA ReadOther ==
  ASSUME TypeOK, TypeOK', NEW tok, NEW vs, Core(tok, vs), worker.alive, log' = log,
         UNCHANGED <<clientVars, restarted>>, up # <<>>, up' = Tail(up), Head(up).t # "ModifyQuerySet",
         NEW w \in Workers, w.alive, Alike(worker, w), Iterate(w, <<>>)
  PROVE  \E vs2 : Core(tok, vs2)'
<1>1. PICK line : line = Tail(up) \o (Messages(wsq) \o outgoing)
  OBVIOUS
<1>2. line = Pipeline'
  BY <1>1 DEF Pipeline, Messages, clientVars, taskVars
<1>3. /\ line \in Seq(ClientMessages) /\ Line(line, worker, tok)
      /\ \A q : Added(Pipeline, q) <=> Adds(Head(up), q) \/ Added(line, q)
  BY <1>1, ServingWorker, HeadOfLine
<1>4. \A q : ~Adds(Head(up), q)
  BY DEF Adds
<1>5. Serves(w, vs[Len(Incoming) + 1], tok)
  BY ServingWorker, AlikeServes
<1>6. Line(line, w, tok)
  BY <1>3, AlikeHolds, LineFollows
<1>7. ~restarted => \A q \in SubscribedIds : Holds(w, q) \/ Added(line, q)
  BY <1>3, <1>4, ServingWorker, AlikeHolds
<1> QED
  BY <1>2, <1>3, <1>5, <1>6, <1>7, NoResponse, RespondCore

\* An iteration that reads no message and changes nothing of the session.
LEMMA AnswerOther ==
  ASSUME TypeOK, TypeOK', NEW tok, NEW vs, Core(tok, vs), worker.alive, log' = log,
         UNCHANGED <<clientVars, restarted, up>>,
         NEW w \in Workers, w.alive, Alike(worker, w), NEW response \in Seq(ServerMessages),
         Iterate(w, response),
         \A i \in 1..Len(response) : response[i] # CloseFrame /\ response[i].t # "Transition"
  PROVE  \E vs2 : Core(tok, vs2)'
<1>1. PICK line : line = Pipeline
  OBVIOUS
<1>2. line = Pipeline'
  BY <1>1 DEF Pipeline, Messages, clientVars, taskVars
<1>3. line \in Seq(ClientMessages) /\ Line(line, worker, tok)
  BY <1>1, ServingWorker
<1>4. Serves(w, vs[Len(Incoming) + 1], tok)
  BY ServingWorker, AlikeServes
<1>5. Line(line, w, tok)
  BY <1>3, AlikeHolds, LineFollows
<1>6. ~restarted => \A q \in SubscribedIds : Holds(w, q) \/ Added(line, q)
  BY <1>1, ServingWorker, AlikeHolds
<1> QED
  BY <1>2, <1>3, <1>4, <1>5, <1>6, RespondCore

\* The worker fails on the message it reads.
LEMMA ReadFails ==
  ASSUME TypeOK, TypeOK', NEW tok, NEW vs, Core(tok, vs), worker.alive, log' = log,
         UNCHANGED <<clientVars, restarted>>, up # <<>>, up' = Tail(up),
         NEW final \in Seq(ServerMessages), \A i \in 1..Len(final) : final[i].t # "Transition",
         WorkerFails(final)
  PROVE  \E vs2 : Core(tok, vs2)'
<1>1. PICK line : line = Tail(up) \o (Messages(wsq) \o outgoing)
  OBVIOUS
<1>2. line = Pipeline'
  BY <1>1 DEF Pipeline, Messages, clientVars, taskVars
<1>3. line \in Seq(ClientMessages) /\ Line(line, worker, tok)
  BY <1>1, ServingWorker, HeadOfLine
<1> QED
  BY <1>2, <1>3, CloseCore DEF WorkerFails

\* The connection ends with what was on its way to the worker.
LEMMA DropsCore ==
  ASSUME TypeOK, TypeOK', NEW tok, NEW vs, Core(tok, vs), worker.alive, log' = log,
         UNCHANGED <<clientVars, restarted>>, up' = <<>>, NEW n, Close(<<>>, n)
  PROVE  \E vs2 : Core(tok, vs2)'
<1>1. up \in Seq(ClientMessages) /\ Messages(wsq) \in Seq(ClientMessages) /\ outgoing \in Seq(ClientMessages)
  BY PipelineType
<1>2. PICK line \in Seq(ClientMessages) : line = Messages(wsq) \o outgoing
  BY <1>1, ConcatProperties
<1>3. Pipeline' = <<>> \o line
  BY <1>2 DEF Pipeline, Messages, clientVars, taskVars
<1>4. line = Pipeline'
  BY <1>3
<1>5. Line(up \o line, worker, tok)
  BY <1>2, ServingWorker DEF Pipeline
<1>6. Line(line, worker, tok)
  BY <1>1, <1>5, LineConcat
<1> QED
  BY <1>4, <1>6, NoResponse, CloseCore

LEMMA AlikeEdits ==
  ASSUME NEW w \in Workers
  PROVE  /\ Alike(w, w)
         /\ \A s : Alike(w, [w EXCEPT !.session = s]) /\ [w EXCEPT !.session = s].alive = w.alive
         /\ \A s : Alike(w, [w EXCEPT !.mutations = s]) /\ [w EXCEPT !.mutations = s].alive = w.alive
         /\ \A s : Alike(w, [w EXCEPT !.actions = s]) /\ [w EXCEPT !.actions = s].alive = w.alive
         /\ \A s : Alike(w, [w EXCEPT !.ran = s]) /\ [w EXCEPT !.ran = s].alive = w.alive
         /\ \A s : /\ Alike(w, [w EXCEPT !.unavailable_retry = s])
                   /\ [w EXCEPT !.unavailable_retry = s].alive = w.alive
BY DEF Alike, Workers

LEMMA AlikeScheduled ==
  ASSUME NEW w \in Workers, NEW x \in Workers, Alike(w, x)
  PROVE  Alike(w, ScheduleUpdate(x)) /\ ScheduleUpdate(x).alive = x.alive /\ ScheduleUpdate(x) \in Workers
<1>1. Alike(w, ScheduleUpdate(x)) /\ ScheduleUpdate(x).alive = x.alive
  BY DEF Alike, ScheduleUpdate, Workers
<1> QED
  BY <1>1, WorkerEdits

LEMMA HandleMessageCore ==
  ASSUME TypeOK, TypeOK', NEW tok, NEW vs, Core(tok, vs), UNCHANGED <<clientVars, restarted>>, HandleMessage
  PROVE  \E vs2 : Core(tok, vs2)'
<1>1. worker.alive /\ up # <<>> /\ up' = Tail(up) /\ log' = log
  BY DEF HandleMessage
<1>2. worker \in Workers
  BY DEF TypeOK, ServerTypeOK
<1>3. PICK line : line = Tail(up) \o (Messages(wsq) \o outgoing)
  OBVIOUS
<1>4. line = Pipeline'
  BY <1>1, <1>3 DEF Pipeline, Messages, clientVars, taskVars
<1>5. PICK m : m = Head(up)
  OBVIOUS
<1>6. /\ line \in Seq(ClientMessages) /\ m \in ClientMessages
      /\ GoodMessage(m, tok) /\ Follows(worker, m) /\ Line(line, worker, tok)
      /\ \A i \in 1..Len(line) : Precedes(m, line[i])
      /\ \A q : Added(Pipeline, q) <=> Adds(m, q) \/ Added(line, q)
  BY <1>1, <1>3, <1>5, ServingWorker, HeadOfLine
<1>7. HandleConnect(m) \/ HandleModifyQuerySet(m) \/ HandleAuthenticate(m) \/ HandleMutation(m) \/ HandleAction(m)
  BY <1>5 DEF HandleMessage
<1>8. ASSUME NEW final \in {<<>>, <<ErrorMessage>>}, WorkerFails(final)
      PROVE  \E vs2 : Core(tok, vs2)'
  <2>1. ErrorMessage.t # "Transition"
    BY DEF ErrorMessage
  <2>2. \A i \in 1..Len(final) : final[i].t # "Transition"
    BY <2>1
  <2>3. final \in Seq(ServerMessages)
    BY NoMessages
  <2> QED
    BY <1>1, <1>8, <2>2, <2>3, ReadFails
<1>9. ASSUME m.t # "ModifyQuerySet", NEW w \in Workers, w.alive = worker.alive, Alike(worker, w), Iterate(w, <<>>)
      PROVE  \E vs2 : Core(tok, vs2)'
  BY <1>1, <1>5, <1>9, ReadOther
<1>10. CASE HandleConnect(m)
  <2> DEFINE w == [worker EXCEPT !.session = m.session]
  <2>1. m.t = "Connect" /\ m.session \in Nat /\ Iterate(w, <<>>)
    BY <1>6, <1>10, ClientMessageFields DEF HandleConnect
  <2>2. w \in Workers
    BY <1>2, <2>1, WorkerEdits
  <2>3. w.alive = worker.alive /\ Alike(worker, w)
    BY <1>2, AlikeEdits
  <2> HIDE DEF w
  <2> QED
    BY <1>9, <2>1, <2>2, <2>3
<1>11. CASE HandleModifyQuerySet(m)
  <2> DEFINE x == ModifiedQuerySet(worker, m)
             w == ScheduleUpdate(x)
  <2>1. \/ m.base = worker.received.query_set /\ Iterate(w, <<>>)
        \/ WorkerFails(<<ErrorMessage>>)
    BY <1>11 DEF HandleModifyQuerySet
  <2>2. SUFFICES ASSUME m.base = worker.received.query_set, Iterate(w, <<>>) PROVE \E vs2 : Core(tok, vs2)'
    BY <1>8, <2>1
  <2>3. m.t = "ModifyQuerySet"
    BY <1>11 DEF HandleModifyQuerySet
  <2>4. x \in Workers /\ x.alive = worker.alive
    <3>1. x \in Workers
      BY <1>2, <1>6, <2>3, ModifiedQuerySetType
    <3>2. x.alive = worker.alive
      BY <1>2 DEF ModifiedQuerySet, Workers
    <3> QED
      BY <3>1, <3>2
  <2>5. PICK v : v = vs[Len(Incoming) + 1]
    OBVIOUS
  <2>6. Serves(worker, v, tok)
    BY <1>1, <2>5, ServingWorker
  <2>7. /\ Serves(x, v, tok)
        /\ \A q \in QueryIds : Holds(x, q) <=> Holds(worker, q) \/ Adds(m, q)
        /\ \A n \in ClientMessages : Follows(worker, n) /\ Precedes(m, n) => Follows(x, n)
    BY <1>2, <1>6, <2>2, <2>3, <2>6, ModifiedQuerySetServes
  <2> HIDE DEF x
  <2>8. Alike(x, w) /\ w.alive /\ w \in Workers
    <3>1. Alike(x, x)
      BY <2>4, AlikeEdits
    <3> QED
      BY <1>1, <2>4, <3>1, AlikeScheduled
  <2>9. Serves(w, v, tok)
    BY <2>7, <2>8, AlikeServes
  <2>10. \A i \in 1..Len(line) : Follows(worker, line[i]) => Follows(w, line[i])
    BY <1>6, <2>7, <2>8, AlikeHolds, ElementOfSeq
  <2>11. Line(line, w, tok)
    BY <1>6, <2>10, LineFollows
  <2>12. ~restarted => \A q \in SubscribedIds : Holds(w, q) \/ Added(line, q)
    <3>1. \A q \in QueryIds : Holds(w, q) <=> Holds(x, q)
      BY <2>8, AlikeHolds
    <3> QED
      BY <1>1, <1>6, <2>7, <3>1, ServingWorker
  <2> HIDE DEF w
  <2> QED
    BY <1>1, <1>4, <1>6, <2>2, <2>5, <2>8, <2>9, <2>11, <2>12, NoResponse, RespondCore
<1>12. CASE HandleAuthenticate(m)
  <2> DEFINE x == ModifiedIdentity(worker, m)
             w == ScheduleUpdate(x)
  <2>1. \/ m.base = worker.received.identity /\ Iterate(w, <<>>)
        \/ WorkerFails(<<>>)
    BY <1>12 DEF HandleAuthenticate
  <2>2. SUFFICES ASSUME m.base = worker.received.identity, Iterate(w, <<>>) PROVE \E vs2 : Core(tok, vs2)'
    BY <1>8, <2>1
  <2>3. m.t = "Authenticate"
    BY <1>12 DEF HandleAuthenticate
  <2>4. x \in Workers /\ x.alive = worker.alive
    <3>1. x \in Workers
      BY <1>2, <1>6, <2>3, ModifiedIdentityType
    <3>2. x.alive = worker.alive
      BY <1>2 DEF ModifiedIdentity, Workers
    <3> QED
      BY <3>1, <3>2
  <2>5. PICK v : v = vs[Len(Incoming) + 1]
    OBVIOUS
  <2>6. Serves(worker, v, tok)
    BY <1>1, <2>5, ServingWorker
  <2>7. /\ Serves(x, v, tok)
        /\ \A q \in QueryIds : Holds(x, q) <=> Holds(worker, q)
        /\ \A n : Follows(worker, n) => Follows(x, n)
    BY <1>2, <1>6, <2>2, <2>3, <2>6, ModifiedIdentityServes
  <2> HIDE DEF x
  <2>8. Alike(x, w) /\ w.alive /\ w \in Workers
    <3>1. Alike(x, x)
      BY <2>4, AlikeEdits
    <3> QED
      BY <1>1, <2>4, <3>1, AlikeScheduled
  <2>9. Serves(w, v, tok)
    BY <2>7, <2>8, AlikeServes
  <2>10. \A i \in 1..Len(line) : Follows(worker, line[i]) => Follows(w, line[i])
    BY <2>7, <2>8, AlikeHolds
  <2>11. Line(line, w, tok)
    BY <1>6, <2>10, LineFollows
  <2>12. ~restarted => \A q \in SubscribedIds : Holds(w, q) \/ Added(line, q)
    <3>1. \A q \in QueryIds : Holds(w, q) <=> Holds(x, q)
      BY <2>8, AlikeHolds
    <3>2. \A q : ~Adds(m, q)
      BY <2>3 DEF Adds
    <3> QED
      BY <1>1, <1>6, <2>7, <3>1, <3>2, ServingWorker
  <2> HIDE DEF w
  <2> QED
    BY <1>1, <1>4, <1>6, <2>2, <2>5, <2>8, <2>9, <2>11, <2>12, NoResponse, RespondCore
<1>13. CASE HandleMutation(m)
  <2> DEFINE e == [req |-> m.req, by |-> Identity(worker), result |-> "none", ts |-> None]
  <2>1. m.t = "Mutation" /\ m.req \in Requests
    BY <1>6, <1>13, ClientMessageFields DEF HandleMutation
  <2>2. e \in Mutations
    BY <1>2, <2>1, IdentityType, TimestampsNat DEF Mutations
  <2> HIDE DEF e
  <2>3. worker.mutations \in Seq(Mutations)
    BY <1>2 DEF Workers
  <2> DEFINE w == [worker EXCEPT !.mutations = Append(worker.mutations, e)]
  <2>4. w \in Workers
    <3>1. Append(worker.mutations, e) \in Seq(Mutations)
      BY <2>2, <2>3
    <3> QED
      BY <1>2, <3>1, WorkerEdits
  <2>5. w.alive = worker.alive /\ Alike(worker, w)
    BY <1>2, AlikeEdits
  <2>6. w = [worker EXCEPT !.mutations = Append(@, e)]
    BY <1>2 DEF Workers
  <2>7. Iterate(w, <<>>) \/ WorkerFails(<<>>)
    BY <1>13, <2>6 DEF HandleMutation, e
  <2> HIDE DEF w
  <2> QED
    BY <1>8, <1>9, <2>1, <2>4, <2>5, <2>7
<1>14. CASE HandleAction(m)
  <2>1. m.t = "Action" /\ m.req \in Requests
    BY <1>6, <1>14, ClientMessageFields DEF HandleAction
  <2>2. worker.actions \in SUBSET Requests
    BY <1>2 DEF Workers
  <2> DEFINE w == [worker EXCEPT !.actions = worker.actions \cup {m.req}]
  <2>3. w \in Workers
    BY <1>2, <2>1, <2>2, WorkerEdits
  <2>4. w.alive = worker.alive /\ Alike(worker, w)
    BY <1>2, AlikeEdits
  <2>5. w = [worker EXCEPT !.actions = @ \cup {m.req}]
    BY <1>2 DEF Workers
  <2>6. Iterate(w, <<>>) \/ WorkerFails(<<>>)
    BY <1>14, <2>5 DEF HandleAction
  <2> HIDE DEF w
  <2> QED
    BY <1>8, <1>9, <2>1, <2>3, <2>4, <2>6
<1> QED
  BY <1>7, <1>10, <1>11, <1>12, <1>13, <1>14

LEMMA RespondsCore ==
  ASSUME TypeOK, TypeOK', NEW tok, NEW vs, Core(tok, vs), UNCHANGED <<clientVars, restarted>>,
         MutationResponds \/ ActionResponds
  PROVE  \E vs2 : Core(tok, vs2)'
<1>1. worker \in Workers /\ worker.alive /\ log' = log /\ up' = up
  BY DEF TypeOK, ServerTypeOK, MutationResponds, ActionResponds
<1>2. ASSUME NEW x \in Workers, x.alive = worker.alive, Alike(worker, x),
             NEW typ \in {"Mutation", "Action"}, NEW req \in Requests, NEW result \in Results, NEW ts \in Timestamps,
             Iterate(ScheduleUpdate(x), <<Response(typ, req, result, ts)>>)
      PROVE  \E vs2 : Core(tok, vs2)'
  <2>1. /\ ScheduleUpdate(x) \in Workers /\ ScheduleUpdate(x).alive /\ Alike(worker, ScheduleUpdate(x))
    BY <1>1, <1>2, AlikeScheduled
  <2>2. PICK s : s = <<Response(typ, req, result, ts)>>
    OBVIOUS
  <2>3. s \in Seq(ServerMessages) /\ \A i \in 1..Len(s) : s[i] # CloseFrame /\ s[i].t # "Transition"
    BY <2>2, OneResponse
  <2> QED
    BY <1>1, <1>2, <2>1, <2>2, <2>3, AnswerOther
<1>3. CASE MutationResponds
  <2> DEFINE m == worker.mutations[1]
             x == [worker EXCEPT !.mutations = Tail(worker.mutations)]
  <2>1. worker.mutations \in Seq(Mutations) /\ worker.mutations # <<>> /\ m.result # "none"
    BY <1>1, <1>3 DEF MutationResponds, Workers
  <2>2. m \in Mutations
    BY <2>1, EmptySeq, ElementOfSeq
  <2>3. m.req \in Requests /\ m.result \in Results /\ m.ts \in Timestamps
    BY <2>1, <2>2 DEF Mutations
  <2>4. x \in Workers
    BY <1>1, <2>1, HeadTailProperties, WorkerEdits
  <2>5. x.alive = worker.alive /\ Alike(worker, x)
    BY <1>1, AlikeEdits
  <2>6. x = [worker EXCEPT !.mutations = Tail(@)]
    BY <1>1 DEF Workers
  <2>7. Iterate(ScheduleUpdate(x), <<Response("Mutation", m.req, m.result, m.ts)>>)
    BY <1>3, <2>6 DEF MutationResponds
  <2> HIDE DEF x, m
  <2> QED
    BY <1>2, <2>3, <2>4, <2>5, <2>7
<1>4. CASE ActionResponds
  <2>1. PICK r \in worker.ran :
          Iterate(ScheduleUpdate([worker EXCEPT !.ran = @ \ {r}]), <<Response("Action", r, "Value", None)>>)
    BY <1>4 DEF ActionResponds
  <2> DEFINE x == [worker EXCEPT !.ran = worker.ran \ {r}]
  <2>2. worker.ran \in SUBSET Requests
    BY <1>1 DEF Workers
  <2>3. x \in Workers
    BY <1>1, <2>2, WorkerEdits
  <2>4. x.alive = worker.alive /\ Alike(worker, x)
    BY <1>1, AlikeEdits
  <2>5. x = [worker EXCEPT !.ran = @ \ {r}]
    BY <1>1 DEF Workers
  <2>6. r \in Requests /\ "Value" \in Results /\ None \in Timestamps
    BY <2>2, TimestampsNat DEF Results
  <2>7. Iterate(ScheduleUpdate(x), <<Response("Action", r, "Value", None)>>)
    BY <2>1, <2>5
  <2> HIDE DEF x
  <2> QED
    BY <1>2, <2>3, <2>4, <2>6, <2>7
<1> QED
  BY <1>3, <1>4

LEMMA WakesCore ==
  ASSUME TypeOK, TypeOK', NEW tok, NEW vs, Core(tok, vs), UNCHANGED <<clientVars, restarted>>,
         (\E q \in QueryIds : QueryInvalidated(q)) \/ UnavailableRetry \/ MessageConsumed
  PROVE  \E vs2 : Core(tok, vs2)'
<1>1. worker \in Workers /\ worker.alive /\ log' = log /\ up' = up
  BY DEF TypeOK, ServerTypeOK, QueryInvalidated, UnavailableRetry, MessageConsumed
<1>2. ASSUME NEW w \in Workers, w.alive = worker.alive, Alike(worker, w), Iterate(w, <<>>)
      PROVE  \E vs2 : Core(tok, vs2)'
  BY <1>1, <1>2, NoResponse, AnswerOther
<1>3. ASSUME NEW q \in QueryIds, QueryInvalidated(q) PROVE \E vs2 : Core(tok, vs2)'
  <2> DEFINE x == [worker EXCEPT !.queries[q].future = FALSE, !.refill_needed = TRUE]
  <2>1. worker.queries \in [QueryIds -> QueryStates]
    BY <1>1 DEF Workers
  <2>2. PICK qs : qs = [worker.queries EXCEPT ![q].future = FALSE]
    OBVIOUS
  <2>3. qs \in [QueryIds -> QueryStates]
    BY <2>1, <2>2 DEF QueryStates
  <2>4. \A p \in QueryIds : /\ qs[p].phase = worker.queries[p].phase /\ qs[p].token = worker.queries[p].token
                            /\ qs[p].sub = worker.queries[p].sub /\ qs[p].hash = worker.queries[p].hash
    BY <2>1, <2>2 DEF QueryStates
  <2>5. x = [worker EXCEPT !.queries = qs, !.refill_needed = TRUE]
    BY <1>1, <2>2 DEF Workers
  <2>6. x \in Workers
    BY <1>1, <2>3, <2>5 DEF Workers
  <2>7. x.alive = worker.alive /\ Alike(worker, x)
    BY <1>1, <2>4, <2>5 DEF Alike, Workers
  <2>8. Iterate(ScheduleUpdate(x), <<>>)
    BY <1>3 DEF QueryInvalidated
  <2> HIDE DEF x
  <2> QED
    BY <1>1, <1>2, <2>6, <2>7, <2>8, AlikeScheduled
<1>4. CASE UnavailableRetry
  <2> DEFINE x == [worker EXCEPT !.unavailable_retry = FALSE]
  <2>1. x \in Workers
    BY <1>1, WorkerEdits
  <2>2. x.alive = worker.alive /\ Alike(worker, x)
    BY <1>1, AlikeEdits
  <2>3. Iterate(ScheduleUpdate(x), <<>>)
    BY <1>4 DEF UnavailableRetry
  <2> HIDE DEF x
  <2> QED
    BY <1>1, <1>2, <2>1, <2>2, <2>3, AlikeScheduled
<1>5. CASE MessageConsumed
  BY <1>1, <1>2, <1>5, AlikeEdits DEF MessageConsumed
<1> QED
  BY <1>3, <1>4, <1>5

LEMMA UpdateFinishesCore ==
  ASSUME TypeOK, TypeOK', NEW tok, NEW vs, Core(tok, vs), UNCHANGED <<clientVars, restarted>>, UpdateFinishes
  PROVE  \E vs2 : Core(tok, vs2)'
<1>1. worker \in Workers /\ worker.alive /\ log' = log /\ worker.transition.busy
  BY DEF TypeOK, ServerTypeOK, UpdateFinishes
<1>2. PICK fetched \in [Present(worker) -> {"rerun", "refresh", "unavailable"}] :
        /\ \A q \in Present(worker) : fetched[q] \in FetchResults(q)
        /\ FinishUpdate(fetched)
  BY DEF UpdateFinishes
<1>3. CASE WorkerFails(<<>>)
  <2>1. ~worker'.alive
    BY <1>3 DEF WorkerFails, Close, NoWorker, NewWorker
  <2>2. up' = <<>>
    BY <2>1 DEF UpdateFinishes
  <2> QED
    BY <1>1, <1>3, <2>2, DropsCore DEF WorkerFails
<1>4. CASE ~MissingSubscription(fetched) /\ Iterate(Finished(fetched), <<Sent(fetched)>>)
  <2>1. DOMAIN fetched \subseteq QueryIds
    BY <1>1, PresentType
  <2>2. PICK x : x = Finished(fetched)
    OBVIOUS
  <2>3. PICK m : m = Sent(fetched)
    OBVIOUS
  <2>4. x \in Workers /\ m \in ServerMessages /\ x.alive /\ m.t = "Transition"
    BY <1>1, <2>1, <2>2, <2>3, FinishedType, FinishedFields, SentFields
  <2>5. Iterate(x, <<m>>)
    BY <1>4, <2>2, <2>3
  <2>6. worker'.alive /\ up' = up
    <3>1. worker'.alive
      BY <2>4, <2>5, BeginUpdateFields DEF Iterate
    <3> QED
      BY <3>1 DEF UpdateFinishes
  <2>7. PICK v : v = vs[Len(Incoming) + 1]
    OBVIOUS
  <2>8. /\ Incoming \in Seq(ServerMessages) /\ Len(Incoming) \in Nat /\ Chain(Incoming, vs, tok)
        /\ LocalOK(tok) /\ PipelineOK(tok)
    BY IncomingType DEF Core, ViewOK
  <2>9. v \in Views /\ Good(v.rem, tok) /\ Serves(worker, v, tok)
    BY <1>1, <2>7, <2>8, FirstView, ServingWorker
  <2>10. PICK next : next = [rem |-> Applied(v.rem, m), seen |-> worker.transition.end.ts]
    OBVIOUS
  <2>11. /\ Serves(x, next, tok)
         /\ next \in Views /\ Good(next.rem, tok) /\ next.seen <= Len(log)
         /\ Link(m, v, next, tok)
         /\ \A q \in QueryIds : Holds(x, q) <=> Holds(worker, q)
         /\ \A n : Follows(worker, n) => Follows(x, n)
    BY <1>1, <1>2, <1>4, <2>2, <2>3, <2>8, <2>9, <2>10, FinishServes
  <2>12. PICK a \in Seq(ServerMessages) : a = Incoming
    BY <2>8
  <2>13. Chain(a, vs, tok) /\ Link(m, vs[Len(a) + 1], next, tok)
    BY <2>7, <2>8, <2>11, <2>12
  <2>14. PICK vs2 : /\ Chain(a \o <<m>>, vs2, tok) /\ vs2[1] = vs[1]
                    /\ vs2[Len(a \o <<m>>) + 1] = next
    BY <2>4, <2>11, <2>13, ChainGrows
  <2>15. PICK line : line = Pipeline
    OBVIOUS
  <2>16. line = Pipeline'
    BY <2>6, <2>15 DEF Pipeline, Messages, clientVars, taskVars
  <2>17. line \in Seq(ClientMessages) /\ Line(line, worker, tok)
    BY <1>1, <2>15, ServingWorker
  <2>18. Line(line, x, tok)
    BY <2>11, <2>17, LineFollows
  <2>19. ~restarted => \A q \in SubscribedIds : Holds(x, q) \/ Added(line, q)
    BY <1>1, <2>11, <2>15, ServingWorker
  <2>20. <<m>> \in Seq(ServerMessages) /\ \A i \in 1..Len(<<m>>) : <<m>>[i] # CloseFrame
    <3>1. m # CloseFrame
      BY <2>4 DEF CloseFrame
    <3> QED
      BY <2>4, <3>1
  <2>21. PICK response : response = <<m>>
    OBVIOUS
  <2>22. /\ Chain(Incoming \o response, vs2, tok) /\ Serves(x, vs2[Len(Incoming \o response) + 1], tok)
         /\ response \in Seq(ServerMessages) /\ \A i \in 1..Len(response) : response[i] # CloseFrame
         /\ Iterate(x, response)
    BY <2>5, <2>11, <2>12, <2>14, <2>20, <2>21
  <2>23. Core(tok, vs2)'
    BY <1>1, <2>4, <2>14, <2>16, <2>17, <2>18, <2>19, <2>22, IterateCore
  <2> QED
    BY <2>23
<1> QED
  BY <1>1, <1>2, <1>3, <1>4, FinishUpdateCases

LEMMA ServerNextCore ==
  ASSUME TypeOK, TypeOK', NEW tok, NEW vs, Core(tok, vs), LogStep, UNCHANGED <<clientVars, restarted>>, ServerNext
  PROVE  \E vs2 : Core(tok, vs2)'
<1>1. CASE ConnectionBreaks
  BY <1>1, DropsCore DEF ConnectionBreaks
<1>2. CASE OthersWrite \/ ZombieRuns
  <2>1. UNCHANGED <<worker, up, down>>
    BY <1>2 DEF OthersWrite, ZombieRuns
  <2> QED
    BY <2>1, QuietStep
<1>3. CASE MutationRuns \/ ActionRuns
  <2>1. worker \in Workers /\ worker.alive /\ UNCHANGED <<up, down>>
    BY <1>3 DEF TypeOK, ServerTypeOK, MutationRuns, ActionRuns
  <2>2. worker'.alive /\ Alike(worker, worker')
    <3>1. CASE MutationRuns
      BY <2>1, <3>1 DEF MutationRuns, Alike, Workers
    <3>2. CASE ActionRuns
      BY <2>1, <3>2 DEF ActionRuns, Alike, Workers
    <3> QED
      BY <1>3, <3>1, <3>2
  <2> QED
    BY <2>1, <2>2, QuietStep
<1> QED
  BY <1>1, <1>2, <1>3, HandleMessageCore, RespondsCore, WakesCore, UpdateFinishesCore DEF ServerNext

-----------------------------------------------------------------------------
(* Steps of the client                                                     *)

\* What the client has sent is from its past.
LEMMA SentBefore ==
  ASSUME TypeOK, NEW tok, NEW vs, Core(tok, vs)
  PROVE  /\ Pipeline \in Seq(ClientMessages)
         /\ \A i \in 1..Len(Pipeline) : Pipeline[i].t = "ModifyQuerySet" =>
              /\ \A u \in Pipeline[i].modifications : u.id < next_query_id
              /\ ~restarted => Pipeline[i].base < query_set_version
         /\ \A q \in QueryIds : Holds(worker, q) => q < next_query_id
         /\ ~restarted => worker.received.query_set <= query_set_version
<1>1. Pipeline \in Seq(ClientMessages)
  BY PipelineType
<1>2. ASSUME NEW i \in 1..Len(Pipeline), Pipeline[i].t = "ModifyQuerySet"
      PROVE  /\ \A u \in Pipeline[i].modifications : u.id < next_query_id
             /\ ~restarted => Pipeline[i].base < query_set_version
  <2>1. Pipeline[i] \in ClientMessages
    BY <1>1, ElementOfSeq
  <2>2. GoodMessage(Pipeline[i], tok)
    BY DEF Core, PipelineOK, Line, AllGood
  <2>3. Pipeline[i].base \in Nat /\ query_set_version \in Nat
    BY <1>2, <2>1, ClientMessageFields DEF TypeOK, LocalTypeOK
  <2> QED
    BY <1>2, <2>2, <2>3 DEF GoodMessage, GoodUpdate
<1>3. CASE worker.alive
  <2>1. QueriesOK(worker, tok) /\ ChangesOK(worker, tok) /\ (~restarted => Known(worker))
    BY <1>3 DEF Core, WorkerOK, Serves
  <2>2. \A q \in QueryIds : Holds(worker, q) => q < next_query_id
    BY <2>1 DEF Holds, QueriesOK, ChangesOK, GoodUpdate
  <2> QED
    BY <1>1, <1>2, <2>1, <2>2 DEF Known
<1>4. CASE ~worker.alive
  <2>1. worker = NoWorker
    BY <1>4 DEF Core, WorkerOK
  <2>2. \A q \in QueryIds : ~Holds(worker, q)
    BY <2>1 DEF Holds, NoWorker, NewWorker, NoQuery
  <2>3. worker.received.query_set = 0 /\ query_set_version \in Nat
    BY <2>1 DEF NoWorker, NewWorker, TypeOK, LocalTypeOK
  <2> QED
    BY <1>1, <1>2, <2>2, <2>3
<1> QED
  BY <1>3, <1>4

\* The application asks for something: one message more is on its way.
LEMMA LocalStep ==
  ASSUME TypeOK, TypeOK', NEW tok, NEW vs, Core(tok, vs), NEW tok2, Advances(tok, tok2), LocalOK(tok2)',
         UNCHANGED <<serverVars, viewVars, failed, taskVars, up, down, restarted>>,
         outgoing = <<>>, NEW m \in ClientMessages, outgoing' = <<m>>,
         GoodMessage(m, tok2)', Follows(worker, m), \A i \in 1..Len(Pipeline) : Precedes(Pipeline[i], m),
         \A q \in SubscribedIds' : q \in SubscribedIds \/ Adds(m, q)
  PROVE  Core(tok2, vs)'
<1>1. UNCHANGED <<worker, results, remote, failed, ws, wsq, resp, up, down, restarted>>
  BY DEF serverVars, viewVars, taskVars
<1>2. up \in Seq(ClientMessages) /\ Messages(wsq) \in Seq(ClientMessages) /\ <<m>> \in Seq(ClientMessages)
  BY PipelineType, SingleMessage
<1>3. PICK line \in Seq(ClientMessages) : line = up \o Messages(wsq)
  BY <1>2, ConcatProperties
<1>4. Pipeline = line
  <2>1. Messages(wsq) \o <<>> = Messages(wsq)
    BY <1>2
  <2> QED
    BY <1>3, <2>1 DEF Pipeline
<1>5. Pipeline' = line \o <<m>>
  <2>1. Pipeline' = up \o (Messages(wsq) \o <<m>>)
    BY <1>1 DEF Pipeline, Messages
  <2>2. (up \o Messages(wsq)) \o <<m>> = up \o (Messages(wsq) \o <<m>>)
    BY <1>2, ConcatAssociative
  <2> QED
    BY <1>3, <2>1, <2>2
<1>6. PICK w \in Workers : w = worker
  BY DEF TypeOK, ServerTypeOK
<1>7. Line(line, w, tok2)'
  BY <1>3, <1>4, <1>6, LineStable DEF Core, PipelineOK
<1>8. Follows(w, m)' /\ \A i \in 1..Len(line) : Precedes(line[i], m)'
  BY <1>4, <1>6, OrderStable
<1>9. Line(line \o <<m>>, w, tok2)'
  <2>1. Line(<<m>>, w, tok2)'
    BY <1>8, MessageFactsHold DEF MessageFacts
  <2>2. AllPrecede(line, <<m>>)'
    <3>1. \A j \in 1..Len(<<m>>) : <<m>>[j] = m
      OBVIOUS
    <3> QED
      BY <1>8, <3>1 DEF AllPrecede
  <2>3. Line(line \o <<m>>, w, tok2)' <=> Line(line, w, tok2)' /\ Line(<<m>>, w, tok2)' /\ AllPrecede(line, <<m>>)'
    BY <1>2, MessageFactsHold DEF MessageFacts
  <2> QED
    BY <1>7, <2>1, <2>2, <2>3
<1>10. \A q : Added(line \o <<m>>, q)' <=> Added(line, q) \/ Adds(m, q)
  <2>1. \A q : Added(line \o <<m>>, q) <=> Added(line, q) \/ Added(<<m>>, q)
    BY <1>2, MessageFactsHold DEF MessageFacts
  <2>2. \A q : Added(<<m>>, q) <=> Adds(m, q)
    BY MessageFactsHold DEF MessageFacts
  <2>3. line \o <<m>> \in Seq(ClientMessages)
    BY <1>2, ConcatProperties
  <2>4. \A q : Added(line \o <<m>>, q)' <=> Added(line \o <<m>>, q)
    BY <2>3, LineStable
  <2> QED
    BY <2>1, <2>2, <2>4
<1>11. PipelineOK(tok2)'
  <2>1. Line(Pipeline, worker, tok2)'
    BY <1>1, <1>5, <1>6, <1>9
  <2>2. ASSUME ~restarted', Reachable', NEW q \in SubscribedIds' PROVE (Holds(worker, q) \/ Added(Pipeline, q))'
    <3>1. Reachable /\ ~restarted
      BY <1>1, <2>2 DEF Reachable
    <3>2. q \in SubscribedIds => Holds(worker, q) \/ Added(line, q)
      BY <1>4, <3>1 DEF Core, PipelineOK
    <3>3. Holds(w, q)' <=> Holds(w, q)
      BY DEF Holds
    <3> QED
      BY <1>1, <1>5, <1>6, <1>10, <3>2, <3>3
  <2> QED
    BY <1>1, <2>1, <2>2 DEF Core, PipelineOK
<1>12. PICK messages : messages = Incoming
  OBVIOUS
<1>13. messages = Incoming'
  BY <1>1, <1>12 DEF Incoming
<1>14. /\ Chain(messages, vs, tok)
       /\ w.alive => /\ ws = "connected" /\ \A i \in 1..Len(down) : down[i] # CloseFrame
                     /\ Serves(w, vs[Len(messages) + 1], tok)
       /\ ~w.alive => w = NoWorker
  BY <1>6, <1>12 DEF Core, ViewOK, WorkerOK
<1> QED
  BY <1>1, <1>6, <1>11, <1>13, <1>14, CoreNext

\* The client sends nothing and keeps its queries.
LEMMA ClientQuiet ==
  ASSUME TypeOK, TypeOK', NEW tok, NEW vs, Core(tok, vs), LocalOK(tok)',
         UNCHANGED <<serverVars, viewVars, failed, ws, resp, up, down, restarted>>,
         UNCHANGED <<query_set, next_query_id, query_set_version, auth_token, identity_version>>,
         Pipeline' = Pipeline, ~restarted => \A i \in 1..Len(wsq') : wsq'[i].kind = "Send"
  PROVE  Core(tok, vs)'
<1>1. UNCHANGED <<worker, log, results, remote>>
  BY DEF serverVars, viewVars
<1>2. Advances(tok, tok)
  <2>1. next_query_id \in Nat
    BY DEF TypeOK, LocalTypeOK
  <2>2. SubscribedIds' = SubscribedIds
    BY DEF SubscribedIds, SubscribedTokens
  <2> QED
    BY <1>1, <2>1, <2>2 DEF Advances, LogStep
<1>3. PICK w \in Workers : w = worker
  BY DEF TypeOK, ServerTypeOK
<1>4. PICK line \in Seq(ClientMessages) : line = Pipeline
  BY PipelineType
<1>5. /\ Line(line, w, tok)
      /\ ~restarted => /\ ws = "connecting" => up = <<>>
                       /\ w.alive \/ ws = "connecting" => \A q \in SubscribedIds : Holds(w, q) \/ Added(line, q)
  BY <1>3, <1>4 DEF Core, PipelineOK, Reachable
<1>6. PipelineOK(tok)'
  BY <1>1, <1>2, <1>3, <1>4, <1>5, PipelineNext
<1>7. PICK messages : messages = Incoming
  OBVIOUS
<1>8. messages = Incoming'
  BY <1>7 DEF Incoming
<1>9. /\ Chain(messages, vs, tok)
      /\ w.alive => /\ ws = "connected" /\ \A i \in 1..Len(down) : down[i] # CloseFrame
                    /\ Serves(w, vs[Len(messages) + 1], tok)
      /\ ~w.alive => w = NoWorker
  BY <1>3, <1>7 DEF Core, ViewOK, WorkerOK
<1> QED
  BY <1>1, <1>2, <1>3, <1>6, <1>8, <1>9, CoreNext

LEMMA SubscribeCore ==
  ASSUME TypeOK, TypeOK', NEW tok, NEW vs, Core(tok, vs), UNCHANGED <<serverVars, restarted>>,
         NEW t \in Tokens, Subscribe(t)
  PROVE  \E tok2, vs2 : Core(tok2, vs2)'
<1>1. /\ query_set \in [Tokens -> QueryIds \cup {None}] /\ num_subscribers \in [Tokens -> Nat]
      /\ next_query_id \in Nat /\ query_set_version \in Nat
  BY DEF TypeOK, LocalTypeOK
<1>2. /\ UNCHANGED <<auth_token, identity_version, viewVars, failed, taskVars, up, down>>
      /\ num_subscribers' = [num_subscribers EXCEPT ![t] = @ + 1] /\ outgoing = <<>>
  BY DEF Subscribe, AtSelect
<1>3. CASE /\ query_set[t] # None
           /\ UNCHANGED <<query_set, next_query_id, query_set_version, outgoing>>
  <2>1. LocalOK(tok) /\ UNCHANGED <<log, wsq, ws, resp>>
    BY <1>2 DEF Core, serverVars, taskVars
  <2>2. LogStep
    BY <2>1 DEF LogStep
  <2>3. Good(NoRemote, tok)'
    <3>1. SubscribedIds' = SubscribedIds
      BY <1>3 DEF SubscribedIds, SubscribedTokens
    <3>2. Advances(tok, tok)
      BY <1>1, <1>2, <1>3, <2>2, <3>1 DEF Advances
    <3> QED
      BY <2>1, <3>2, NoRemoteStable DEF LocalOK
  <2>4. \A s \in Tokens : num_subscribers'[s] > 0 => query_set[s] # None
    BY <1>1, <1>2, <1>3, <2>1 DEF LocalOK
  <2>5. LocalOK(tok)'
    BY <1>2, <1>3, <2>1, <2>3, <2>4 DEF LocalOK
  <2>6. Pipeline' = Pipeline
    BY <1>2, <1>3, <2>1 DEF Pipeline, Messages
  <2>7. ~restarted => \A i \in 1..Len(wsq') : wsq'[i].kind = "Send"
    BY <2>1 DEF Core, PipelineOK
  <2> QED
    BY <1>2, <1>3, <2>1, <2>5, <2>6, <2>7, ClientQuiet
<1>4. CASE /\ query_set[t] = None /\ next_query_id \in QueryIds
           /\ query_set' = [query_set EXCEPT ![t] = next_query_id]
           /\ next_query_id' = next_query_id + 1
           /\ query_set_version' = query_set_version + 1
           /\ outgoing' = <<ModifyQuerySet(query_set_version, query_set_version + 1,
                                           {AddQuery(next_query_id, t)})>>
  <2>1. PICK p \in QueryIds : p = next_query_id
    BY <1>4
  <2>2. PICK n \in Nat : n = query_set_version
    BY <1>1
  <2>3. PICK m : m = ModifyQuerySet(n, n + 1, {AddQuery(p, t)})
    OBVIOUS
  <2>4. outgoing' = <<m>> /\ query_set_version' = n + 1 /\ next_query_id' = p + 1 /\ p \in Nat
    BY <1>4, <2>1, <2>2, <2>3, QueryIdsNat
  <2>5. m \in ClientMessages /\ m.t = "ModifyQuerySet" /\ m.base = n /\ m.new = n + 1
        /\ m.modifications = {AddQuery(p, t)}
    <3>1. AddQuery(p, t) \in QueryUpdates
      BY <2>4, ClientMessageTypes
    <3>2. m \in ClientMessages
      BY <2>3, <3>1, ClientMessageTypes
    <3> QED
      BY <2>3, <3>2 DEF ModifyQuerySet
  <2>6. AddQuery(p, t).op = "Add" /\ AddQuery(p, t).id = p /\ AddQuery(p, t).token = t
    BY DEF AddQuery
  <2>7. \A q : Adds(m, q) <=> q = p
    BY <2>5, <2>6 DEF Adds
  <2>8. PICK tok2 : tok2 = [q \in QueryIds |-> IF q = p THEN t ELSE tok[q]]
    OBVIOUS
  <2>9. tok2[p] = t /\ \A q \in QueryIds : q < p => tok2[q] = tok[q]
    BY <2>4, <2>8, QueryIdsNat
  <2>10. \A s \in Tokens : query_set'[s] = IF s = t THEN p ELSE query_set[s]
    BY <1>1, <1>4, <2>1
  <2>11. \A q \in SubscribedIds' : q \in SubscribedIds \/ q = p
    BY <2>10 DEF SubscribedIds, SubscribedTokens
  <2>12. Advances(tok, tok2)
    <3>1. \A q \in QueryIds : q < next_query_id /\ q \notin SubscribedIds => q \notin SubscribedIds'
      BY <1>1, <2>1, <2>11, QueryIdsNat
    <3>2. LogStep
      BY DEF LogStep, serverVars
    <3>3. \A q \in QueryIds : q < next_query_id => tok2[q] = tok[q]
      BY <2>1, <2>9
    <3>4. next_query_id <= next_query_id' /\ query_set_version < query_set_version'
      BY <1>1, <1>4
    <3> QED
      BY <1>2, <3>1, <3>2, <3>3, <3>4 DEF Advances
  <2>13. LocalOK(tok2)'
    <3>1. LocalOK(tok)
      BY DEF Core
    <3>2. Good(NoRemote, tok2)'
      BY <2>12, <3>1, NoRemoteStable DEF LocalOK
    <3>3. ASSUME NEW s \in Tokens, query_set'[s] # None
          PROVE  query_set'[s] < next_query_id' /\ tok2[query_set'[s]] = s
      <4>1. CASE s = t
        BY <2>4, <2>9, <2>10, <4>1
      <4>2. CASE s # t
        <5>1. query_set'[s] = query_set[s] /\ query_set[s] \in QueryIds /\ query_set[s] < p /\ tok[query_set[s]] = s
          BY <1>1, <2>1, <2>10, <3>1, <3>3, <4>2 DEF LocalOK
        <5>2. query_set[s] \in Nat
          BY <5>1, QueryIdsNat
        <5> QED
          BY <2>4, <2>9, <5>1, <5>2
      <4> QED
        BY <4>1, <4>2
    <3>4. ASSUME NEW s \in Tokens, num_subscribers'[s] > 0 PROVE query_set'[s] # None
      <4>1. p # None
        BY QueryIdsNat
      <4>2. s # t => num_subscribers'[s] = num_subscribers[s]
        BY <1>1, <1>2
      <4> QED
        BY <2>10, <3>1, <3>4, <4>1, <4>2 DEF LocalOK
    <3> QED
      BY <1>2, <3>1, <3>2, <3>3, <3>4 DEF LocalOK
  <2>14. GoodMessage(m, tok2)'
    <3>1. GoodUpdate(AddQuery(p, t), tok2)'
      BY <2>4, <2>6, <2>9 DEF GoodUpdate
    <3> QED
      BY <2>4, <2>5, <3>1 DEF GoodMessage
  <2>15. Follows(worker, m)
    <3>1. ~Holds(worker, p)
      BY <2>1, <2>4, SentBefore
    <3> QED
      BY <2>2, <2>5, <2>7, <3>1, SentBefore DEF Follows
  <2>16. ASSUME NEW i \in 1..Len(Pipeline) PROVE Precedes(Pipeline[i], m)
    <3>1. ~Adds(Pipeline[i], p)
      <4> SUFFICES ASSUME Adds(Pipeline[i], p) PROVE FALSE
        OBVIOUS
      <4>1. PICK u \in Pipeline[i].modifications : u.id = p
        BY DEF Adds
      <4>2. u.id < next_query_id
        BY SentBefore DEF Adds
      <4> QED
        BY <2>1, <2>4, <4>1, <4>2
    <3> QED
      BY <2>2, <2>5, <2>7, <3>1, SentBefore DEF Precedes
  <2>17. Core(tok2, vs)'
    BY <1>2, <2>4, <2>5, <2>7, <2>11, <2>12, <2>13, <2>14, <2>15, <2>16, LocalStep
  <2> QED
    BY <2>17
<1> QED
  BY <1>3, <1>4 DEF Subscribe

LEMMA UnsubscribeCore ==
  ASSUME TypeOK, TypeOK', NEW tok, NEW vs, Core(tok, vs), UNCHANGED <<serverVars, restarted>>,
         NEW t \in Tokens, Unsubscribe(t)
  PROVE  \E tok2, vs2 : Core(tok2, vs2)'
<1>1. /\ query_set \in [Tokens -> QueryIds \cup {None}] /\ num_subscribers \in [Tokens -> Nat]
      /\ next_query_id \in Nat /\ query_set_version \in Nat
  BY DEF TypeOK, LocalTypeOK
<1>2. /\ UNCHANGED <<next_query_id, auth_token, identity_version, viewVars, failed, taskVars, up, down>>
      /\ num_subscribers' = [num_subscribers EXCEPT ![t] = @ - 1] /\ num_subscribers[t] > 0 /\ outgoing = <<>>
  BY DEF Unsubscribe, AtSelect
<1>3. LocalOK(tok) /\ UNCHANGED <<log, wsq, ws, resp>> /\ LogStep
  BY <1>2 DEF Core, serverVars, taskVars, LogStep
<1>4. CASE num_subscribers[t] > 1 /\ UNCHANGED <<query_set, query_set_version, outgoing>>
  <2>1. Good(NoRemote, tok)'
    <3>1. SubscribedIds' = SubscribedIds
      BY <1>4 DEF SubscribedIds, SubscribedTokens
    <3>2. Advances(tok, tok)
      BY <1>1, <1>2, <1>3, <1>4, <3>1 DEF Advances
    <3> QED
      BY <1>3, <3>2, NoRemoteStable DEF LocalOK
  <2>2. \A s \in Tokens : num_subscribers'[s] > 0 => num_subscribers[s] > 0
    BY <1>1, <1>2
  <2>3. LocalOK(tok)'
    BY <1>2, <1>3, <1>4, <2>1, <2>2 DEF LocalOK
  <2>4. Pipeline' = Pipeline
    BY <1>2, <1>3, <1>4 DEF Pipeline, Messages
  <2>5. ~restarted => \A i \in 1..Len(wsq') : wsq'[i].kind = "Send"
    BY <1>3 DEF Core, PipelineOK
  <2> QED
    BY <1>2, <1>3, <1>4, <2>3, <2>4, <2>5, ClientQuiet
<1>5. CASE /\ ~(num_subscribers[t] > 1) /\ query_set' = [query_set EXCEPT ![t] = None]
           /\ query_set_version' = query_set_version + 1
           /\ outgoing' = <<ModifyQuerySet(query_set_version, query_set_version + 1,
                                           {RemoveQuery(query_set[t], t)})>>
  <2>1. PICK p \in QueryIds : p = query_set[t]
    BY <1>1, <1>2, <1>3 DEF LocalOK
  <2>2. PICK n \in Nat : n = query_set_version
    BY <1>1
  <2>3. PICK m : m = ModifyQuerySet(n, n + 1, {RemoveQuery(p, t)})
    OBVIOUS
  <2>4. outgoing' = <<m>> /\ query_set_version' = n + 1 /\ p \in Nat /\ p # None
    BY <1>5, <2>1, <2>2, <2>3, QueryIdsNat
  <2>5. m \in ClientMessages /\ m.t = "ModifyQuerySet" /\ m.base = n /\ m.new = n + 1
        /\ m.modifications = {RemoveQuery(p, t)}
    <3>1. RemoveQuery(p, t) \in QueryUpdates
      BY <2>4, ClientMessageTypes
    <3>2. m \in ClientMessages
      BY <2>3, <3>1, ClientMessageTypes
    <3> QED
      BY <2>3, <3>2 DEF ModifyQuerySet
  <2>6. RemoveQuery(p, t).op = "Remove" /\ RemoveQuery(p, t).id = p
    BY DEF RemoveQuery
  <2>7. \A q : ~Adds(m, q)
    BY <2>5, <2>6 DEF Adds
  <2>8. \A s \in Tokens : query_set'[s] = IF s = t THEN None ELSE query_set[s]
    BY <1>1, <1>5
  <2>9. (\A q \in SubscribedIds' : q \in SubscribedIds) /\ p \notin SubscribedIds'
    <3>1. \A q \in SubscribedIds' : q \in SubscribedIds
      BY <2>8 DEF SubscribedIds, SubscribedTokens
    <3>2. \A s \in Tokens : s # t => query_set[s] # p
      BY <1>3, <2>1, <2>4 DEF LocalOK
    <3>3. p \notin SubscribedIds'
      BY <2>4, <2>8, <3>2 DEF SubscribedIds, SubscribedTokens
    <3> QED
      BY <3>1, <3>3
  <2>10. Advances(tok, tok)
    <3>1. next_query_id <= next_query_id' /\ query_set_version < query_set_version'
      BY <1>1, <1>2, <1>5
    <3> QED
      BY <1>2, <1>3, <2>9, <3>1 DEF Advances
  <2>11. LocalOK(tok)'
    <3>1. Good(NoRemote, tok)'
      BY <1>3, <2>10, NoRemoteStable DEF LocalOK
    <3>2. ASSUME NEW s \in Tokens, num_subscribers'[s] > 0 PROVE query_set'[s] # None
      BY <1>1, <1>2, <1>3, <1>5, <2>8, <3>2 DEF LocalOK
    <3>3. ASSUME NEW s \in Tokens, query_set'[s] # None
          PROVE  query_set'[s] < next_query_id' /\ tok[query_set'[s]] = s
      BY <1>2, <1>3, <2>8, <3>3 DEF LocalOK
    <3> QED
      BY <1>2, <1>3, <3>1, <3>2, <3>3 DEF LocalOK
  <2>12. GoodMessage(m, tok)'
    <3>1. p < next_query_id
      BY <1>3, <2>1, <2>4 DEF LocalOK
    <3>2. GoodUpdate(RemoveQuery(p, t), tok)'
      BY <1>2, <2>6, <2>9, <3>1 DEF GoodUpdate
    <3> QED
      BY <2>4, <2>5, <3>2 DEF GoodMessage
  <2>13. Follows(worker, m)
    BY <2>2, <2>5, <2>7, SentBefore DEF Follows
  <2>14. \A i \in 1..Len(Pipeline) : Precedes(Pipeline[i], m)
    BY <2>2, <2>5, <2>7, SentBefore DEF Precedes
  <2>15. Core(tok, vs)'
    BY <1>2, <2>4, <2>5, <2>9, <2>10, <2>11, <2>12, <2>13, <2>14, LocalStep
  <2> QED
    BY <2>15
<1> QED
  BY <1>4, <1>5 DEF Unsubscribe

LEMMA SetAuthCore ==
  ASSUME TypeOK, TypeOK', NEW tok, NEW vs, Core(tok, vs), UNCHANGED <<serverVars, restarted>>,
         NEW token \in AuthTokens, SetAuth(token)
  PROVE  \E tok2, vs2 : Core(tok2, vs2)'
<1>1. next_query_id \in Nat /\ identity_version \in Nat /\ token \in Identities
  BY IdentitiesNat DEF TypeOK, LocalTypeOK
<1>2. /\ UNCHANGED <<query_set, num_subscribers, next_query_id, query_set_version, viewVars, failed, taskVars, up, down>>
      /\ auth_token' = token /\ identity_version' = identity_version + 1 /\ outgoing = <<>>
      /\ outgoing' = <<Authenticate(identity_version, token)>>
  BY DEF SetAuth, AtSelect
<1>3. PICK n \in Nat : n = identity_version
  BY <1>1
<1>4. PICK m : m = Authenticate(n, token)
  OBVIOUS
<1>5. m \in ClientMessages /\ m.t = "Authenticate" /\ m.base = n /\ m.token = token
  <2>1. m \in ClientMessages
    BY <1>1, <1>4, ClientMessageTypes
  <2> QED
    BY <1>4, <2>1 DEF Authenticate
<1>6. SubscribedIds' = SubscribedIds
  BY <1>2 DEF SubscribedIds, SubscribedTokens
<1>7. Advances(tok, tok)
  <2>1. LogStep
    BY DEF LogStep, serverVars
  <2> QED
    BY <1>1, <1>2, <1>6, <2>1 DEF Advances
<1>8. LocalOK(tok)'
  <2>1. Good(NoRemote, tok)'
    BY <1>7, NoRemoteStable DEF Core, LocalOK
  <2>2. identity_version' # 0
    BY <1>1, <1>2
  <2> QED
    BY <1>2, <2>1, <2>2 DEF Core, LocalOK
<1>9. GoodMessage(m, tok)'
  BY <1>2, <1>3, <1>5 DEF GoodMessage
<1>10. \A q : ~Adds(m, q)
  BY <1>5 DEF Adds
<1>11. Follows(worker, m) /\ \A i \in 1..Len(Pipeline) : Precedes(Pipeline[i], m)
  BY <1>5, <1>10 DEF Follows, Precedes
<1>12. Core(tok, vs)'
  BY <1>2, <1>3, <1>4, <1>5, <1>6, <1>7, <1>8, <1>9, <1>11, LocalStep
<1> QED
  BY <1>12

LEMMA CallCore ==
  ASSUME TypeOK, TypeOK', NEW tok, NEW vs, Core(tok, vs), UNCHANGED <<serverVars, restarted>>,
         NEW r \in Requests, NEW typ \in RequestTypes, Call(r, typ)
  PROVE  \E tok2, vs2 : Core(tok2, vs2)'
<1>1. UNCHANGED <<localVars, viewVars, failed, taskVars, up, down>> /\ outgoing = <<>> /\ outgoing' = <<Request(typ, r)>>
  BY DEF Call, AtSelect
<1>2. PICK m : m = Request(typ, r)
  OBVIOUS
<1>3. m \in ClientMessages /\ m.t \in {"Mutation", "Action"}
  <2>1. typ \in {"Mutation", "Action"}
    BY ConvexClientAssumption
  <2>2. m \in ClientMessages
    BY <1>2, <2>1, ClientMessageTypes
  <2> QED
    BY <1>2, <2>1, <2>2 DEF Request
<1>4. SubscribedIds' = SubscribedIds
  BY <1>1 DEF SubscribedIds, SubscribedTokens, localVars
<1>5. LogStep
  BY DEF LogStep, serverVars
<1>6. Advances(tok, tok) /\ LocalOK(tok)'
  BY <1>1, <1>5, Steady, LocalStable DEF Core
<1>7. GoodMessage(m, tok)' /\ \A q : ~Adds(m, q)
  BY <1>3 DEF GoodMessage, Adds
<1>8. Follows(worker, m) /\ \A i \in 1..Len(Pipeline) : Precedes(Pipeline[i], m)
  BY <1>3, <1>7 DEF Follows, Precedes
<1>9. Core(tok, vs)'
  BY <1>1, <1>2, <1>3, <1>4, <1>6, <1>7, <1>8, LocalStep
<1> QED
  BY <1>9

LEMMA FlushCore ==
  ASSUME TypeOK, TypeOK', NEW tok, NEW vs, Core(tok, vs), UNCHANGED <<serverVars, restarted>>, Flush
  PROVE  \E tok2, vs2 : Core(tok2, vs2)'
<1>1. /\ UNCHANGED <<localVars, viewVars, failed, ws, resp, up, down>> /\ outgoing # <<>>
      /\ wsq' = Append(wsq, SendMessage(Head(outgoing))) /\ outgoing' = Tail(outgoing)
  BY DEF Flush
<1>2. /\ up \in Seq(ClientMessages) /\ Messages(wsq) \in Seq(ClientMessages) /\ wsq \in Seq(SocketRequests)
      /\ outgoing = <<Head(outgoing)>> \o Tail(outgoing) /\ Head(outgoing) \in ClientMessages
      /\ Tail(outgoing) \in Seq(ClientMessages)
  BY <1>1, PipelineType, FirstMessage DEF TypeOK, ChannelTypeOK
<1>3. PICK h \in ClientMessages : h = Head(outgoing)
  BY <1>2
<1>4. SendMessage(h) \in SocketRequests /\ SendMessage(h).m = h /\ SendMessage(h).kind = "Send"
  BY SocketRequestTypes DEF SendMessage
<1>5. Messages(Append(wsq, SendMessage(h))) = Messages(wsq) \o <<h>>
  BY <1>2, <1>4, MessagesAppend
<1>6. Messages(wsq)' = Messages(Append(wsq, SendMessage(h)))
  BY <1>1, <1>3 DEF Messages
<1>7. (Messages(wsq) \o <<h>>) \o Tail(outgoing) = Messages(wsq) \o (<<h>> \o Tail(outgoing))
  BY <1>2, ConcatAssociative, SingleMessage
<1>8. Pipeline' = Pipeline
  <2>1. Pipeline' = up \o ((Messages(wsq) \o <<h>>) \o Tail(outgoing))
    BY <1>1, <1>5, <1>6 DEF Pipeline
  <2> QED
    BY <1>2, <1>3, <1>7, <2>1 DEF Pipeline
<1>9. ~restarted => \A i \in 1..Len(wsq') : wsq'[i].kind = "Send"
  BY <1>1, <1>2, <1>3, <1>4 DEF Core, PipelineOK
<1>10. LogStep
  BY DEF LogStep, serverVars
<1>11. LocalOK(tok)'
  BY <1>1, <1>10, LocalStable DEF Core
<1>12. Core(tok, vs)'
  BY <1>1, <1>8, <1>9, <1>11, ClientQuiet DEF localVars
<1> QED
  BY <1>12

LEMMA IncomingTail ==
  ASSUME TypeOK, resp # <<>>, resp' = Tail(resp), UNCHANGED <<ws, down>>
  PROVE  Incoming # <<>> /\ Incoming[1] = Head(resp) /\ Incoming' = Tail(Incoming)
<1>1. /\ resp \in Seq(ServerMessages) /\ down \in Seq(ServerMessages)
      /\ resp = <<Head(resp)>> \o Tail(resp) /\ Head(resp) \in ServerMessages /\ Tail(resp) \in Seq(ServerMessages)
  BY IncomingType, FirstMessage
<1>2. CASE ws # "connected"
  <2>1. Incoming = resp /\ Incoming' = Tail(resp)
    BY <1>2 DEF Incoming
  <2> QED
    BY <1>1, <2>1
<1>3. CASE ws = "connected"
  <2>1. Incoming = resp \o down /\ Incoming' = Tail(resp) \o down
    BY <1>3 DEF Incoming
  <2>2. PICK h \in ServerMessages : h = Head(resp)
    BY <1>1
  <2>3. PICK t \in Seq(ServerMessages) : t = Tail(resp) \o down
    BY <1>1, ConcatProperties
  <2>4. (<<h>> \o Tail(resp)) \o down = <<h>> \o (Tail(resp) \o down)
    <3>1. <<h>> \in Seq(ServerMessages)
      OBVIOUS
    <3> QED
      BY <1>1, <3>1, ConcatAssociative
  <2>5. Incoming = <<h>> \o t
    BY <1>1, <2>1, <2>2, <2>3, <2>4
  <2>6. <<h>> \o t # <<>> /\ (<<h>> \o t)[1] = h /\ Tail(<<h>> \o t) = t
    OBVIOUS
  <2> QED
    BY <2>1, <2>2, <2>3, <2>5, <2>6
<1> QED
  BY <1>2, <1>3

\* The results stay good as the bound on their timestamps grows.
LEMMA ResultsWiden ==
  ASSUME NEW tok, NEW n \in Nat, NEW k \in Nat, n <= k, ResultsOK(tok, n)
  PROVE  ResultsOK(tok, k)
<1>1. \A ts \in 0..n : ts \in 0..k
  OBVIOUS
<1> QED
  BY <1>1 DEF ResultsOK

LEMMA HandleResponseCore ==
  ASSUME TypeOK, TypeOK', NEW tok, NEW vs, Core(tok, vs), UNCHANGED <<serverVars, restarted>>, HandleResponse
  PROVE  \E tok2, vs2 : Core(tok2, vs2)'
<1>1. /\ ~failed /\ resp # <<>> /\ resp' = Tail(resp)
      /\ UNCHANGED <<localVars, outgoing, ws, connection, up, down>>
  BY DEF HandleResponse
<1>2. PICK m : m = Head(resp)
  OBVIOUS
<1>3. ReceiveTransition(m) \/ ReceiveResponse(m) \/ ReceiveFailure(m)
  BY <1>2 DEF HandleResponse
<1>4. LogStep /\ UNCHANGED <<log, worker>>
  BY DEF LogStep, serverVars
<1>5. Advances(tok, tok)
  BY <1>1, <1>4, Steady
<1>6. LocalOK(tok)'
  BY <1>1, <1>4, LocalStable DEF Core
<1>7. wsq \in Seq(SocketRequests)
  BY DEF TypeOK, ChannelTypeOK
<1>8. wsq' = wsq \/ Fails
  BY <1>3 DEF ReceiveTransition, ReceiveResponse, ReceiveFailure
<1>9. Len(wsq') = Len(wsq) /\ \A i \in 1..Len(wsq) : wsq'[i].m = wsq[i].m /\ wsq'[i].kind = wsq[i].kind
  BY <1>7, <1>8, FailsType
<1>10. Pipeline' = Pipeline
  <2>1. Messages(wsq)' = Messages(wsq)
    BY <1>9 DEF Messages
  <2> QED
    BY <1>1, <2>1 DEF Pipeline
<1>11. PICK w \in Workers : w = worker
  BY DEF TypeOK, ServerTypeOK
<1>12. PICK line \in Seq(ClientMessages) : line = Pipeline
  BY PipelineType
<1>13. /\ Line(line, w, tok)
       /\ ~restarted => /\ \A i \in 1..Len(wsq') : wsq'[i].kind = "Send"
                        /\ ws = "connecting" => up = <<>>
                        /\ w.alive \/ ws = "connecting" => \A q \in SubscribedIds : Holds(w, q) \/ Added(line, q)
  BY <1>9, <1>11, <1>12 DEF Core, PipelineOK, Reachable
<1>14. PipelineOK(tok)'
  BY <1>1, <1>4, <1>5, <1>10, <1>11, <1>12, <1>13, PipelineNext DEF localVars
<1>15. PICK a \in Seq(ServerMessages) : a = Incoming
  BY IncomingType
<1>16. a # <<>> /\ a[1] = m /\ Incoming' = Tail(a) /\ Chain(a, vs, tok) /\ Len(a) \in Nat /\ Len(a) >= 1
  <2>1. a # <<>> /\ a[1] = m /\ Incoming' = Tail(a)
    BY <1>1, <1>2, <1>15, IncomingTail
  <2>2. Len(a) \in Nat /\ Len(a) >= 1
    BY <2>1, EmptySeq, LenProperties
  <2> QED
    BY <1>15, <2>1, <2>2 DEF Core, ViewOK
<1>17. PICK vs2 : /\ Chain(Tail(a), vs2, tok) /\ vs2[1] = vs[2]
                  /\ vs2[Len(Tail(a)) + 1] = vs[Len(a) + 1]
  BY <1>16, ChainTail
<1>18. PICK v : v = vs[1]
  OBVIOUS
<1>19. PICK next : next = vs[2]
  OBVIOUS
<1>20. Link(m, v, next, tok) /\ next \in Views /\ v \in Views /\ next.seen <= Len(log) /\ v.seen <= Len(log)
  <2>1. 1 \in 1..Len(a) /\ 1 \in 1..(Len(a) + 1) /\ 2 \in 1..(Len(a) + 1) /\ 1 + 1 = 2
    BY <1>16
  <2> QED
    BY <1>16, <1>18, <1>19, <2>1 DEF Chain
<1>21. v.seen \in Nat /\ next.seen \in Nat /\ v.seen <= next.seen
  BY <1>20 DEF Views, Link
<1>22. /\ Good(remote, tok) /\ ResultsOK(tok, v.seen)
       /\ remote.version = v.rem.version => remote = v.rem
  BY <1>1, <1>18 DEF Core, ViewOK
<1>23. /\ Good(remote', tok)
       /\ ~failed' /\ remote'.version = next.rem.version => remote' = next.rem
       /\ \A q \in QueryIds :
            /\ q >= next_query_id => results'[q] = {}
            /\ \E who \in Identities, ts \in 0..next.seen : results'[q] \subseteq {Value(tok[q], who, ts)}
  <2>1. ResultsOK(tok, next.seen)
    BY <1>21, <1>22, ResultsWiden
  <2>2. CASE UNCHANGED viewVars /\ failed' = TRUE
    BY <1>22, <2>1, <2>2 DEF viewVars, ResultsOK
  <2>3. CASE ReceiveTransition(m) /\ m.start = remote.version
    <3>1. /\ m.t = "Transition" /\ m.start = v.rem.version /\ m.end.ts <= next.seen
          /\ Good(Applied(v.rem, m), tok) /\ next.rem \in {Applied(v.rem, m), NoRemote}
      BY <1>20, <2>3 DEF ReceiveTransition, Link
    <3>2. remote = v.rem
      BY <1>22, <2>3, <3>1
    <3>3. PICK r : r = Applied(v.rem, m)
      OBVIOUS
    <3>4. remote' = r /\ r.version = m.end
      BY <2>3, <3>2, <3>3 DEF ReceiveTransition, ApplyModifications, Applied
    <3>5. results' = [q \in QueryIds |-> IF q \in SubscribedIds /\ r.set[q] # {} THEN r.set[q] ELSE results[q]]
      BY <2>3, <3>4 DEF ReceiveTransition
    <3>6. Good(r, tok) /\ r.version.ts <= next.seen
      BY <3>1, <3>3, <3>4
    <3>7. r.version.ts \in 0..next.seen
      <4>1. r.version.ts \in Nat
        BY <3>6, RemoteType DEF Good
      <4> QED
        BY <1>21, <3>6, <4>1
    <3>8. ASSUME NEW q \in QueryIds
          PROVE  /\ q >= next_query_id => results'[q] = {}
                 /\ \E who \in Identities, ts \in 0..next.seen : results'[q] \subseteq {Value(tok[q], who, ts)}
      <4>1. CASE q \in SubscribedIds /\ r.set[q] # {}
        <5>1. results'[q] = r.set[q] /\ ~(q >= next_query_id)
          BY <3>5, <3>6, <4>1 DEF Good
        <5>2. PICK who \in Identities : Snapshot(r, tok, who)
          BY <3>6 DEF Good
        <5>3. r.set[q] \subseteq {Value(tok[q], who, r.version.ts)}
          BY <5>2 DEF Snapshot
        <5> QED
          BY <3>7, <5>1, <5>3
      <4>2. CASE ~(q \in SubscribedIds /\ r.set[q] # {})
        <5>1. results'[q] = results[q]
          BY <3>5, <4>2
        <5> QED
          BY <2>1, <5>1 DEF ResultsOK
      <4> QED
        BY <4>1, <4>2
    <3>9. r.version = next.rem.version => r = next.rem
      BY <3>1, <3>3, <3>6, EmptyView
    <3> QED
      BY <3>4, <3>6, <3>8, <3>9
  <2>4. CASE ReceiveResponse(m) /\ UNCHANGED failed
    <3>1. UNCHANGED <<results, remote>> /\ next.rem \in {v.rem, NoRemote}
      BY <1>20, <2>4 DEF ReceiveResponse, viewVars, Link
    <3>2. remote.version = next.rem.version => remote = next.rem
      BY <1>22, <3>1, EmptyView
    <3> QED
      BY <1>22, <2>1, <3>1, <3>2 DEF ResultsOK
  <2> QED
    BY <1>3, <2>2, <2>3, <2>4 DEF ReceiveTransition, ReceiveResponse, ReceiveFailure, Fails
<1>24. PICK s : s = results'
  OBVIOUS
<1>25. PICK r : r = remote'
  OBVIOUS
<1>26. Good(r, tok)'
  BY <1>5, <1>23, <1>25, GoodStable
<1>27. ResultsOK(tok, next.seen)'
  <2> SUFFICES ASSUME NEW q \in QueryIds
               PROVE  /\ q >= next_query_id => s[q] = {}
                      /\ \E who \in Identities, ts \in 0..next.seen : s[q] \subseteq {Value(tok[q], who, ts)'}
    BY <1>1, <1>24 DEF ResultsOK, localVars
  <2>1. \A who, ts : Value(tok[q], who, ts)' = Value(tok[q], who, ts)
    BY <1>4 DEF Value
  <2> QED
    BY <1>23, <1>24, <2>1
<1>28. ViewOK(tok, vs2)'
  <2>1. PICK b : b = Tail(a)
    OBVIOUS
  <2>2. Chain(b, vs2, tok)'
    BY <1>5, <1>17, <2>1, ChainStable
  <2> QED
    BY <1>16, <1>17, <1>19, <1>23, <1>25, <1>26, <1>27, <2>1, <2>2 DEF ViewOK
<1>29. WorkerOK(tok, vs2)'
  <2>1. ASSUME w.alive
        PROVE  /\ ws = "connected" /\ \A i \in 1..Len(down) : down[i] # CloseFrame
               /\ Serves(worker, vs2[Len(Incoming) + 1], tok)'
    <3>1. /\ ws = "connected" /\ \A i \in 1..Len(down) : down[i] # CloseFrame
          /\ Serves(w, vs[Len(a) + 1], tok)
      BY <1>11, <1>15, <2>1 DEF Core, WorkerOK
    <3>2. PICK u : u = vs[Len(a) + 1]
      OBVIOUS
    <3>3. Good(u.rem, tok)
      BY <1>16, <3>2, FirstView
    <3>4. Serves(w, u, tok)'
      BY <1>5, <3>1, <3>2, <3>3, ServesStable
    <3> QED
      BY <1>4, <1>11, <1>16, <1>17, <3>1, <3>2, <3>4
  <2>2. NoWorker' = NoWorker /\ CloseFrame' = CloseFrame
    BY DEF NoWorker, NewWorker, CloseFrame
  <2>3. ~w.alive => w = NoWorker
    BY <1>11 DEF Core, WorkerOK
  <2> QED
    BY <1>1, <1>4, <1>11, <2>1, <2>2, <2>3 DEF WorkerOK
<1>30. Core(tok, vs2)'
  BY <1>6, <1>14, <1>28, <1>29 DEF Core
<1> QED
  BY <1>30

\* A message that Follows and Precedes ask nothing of once the client has
\* restarted.
Replayed(m) == m.t = "ModifyQuerySet" => m.base = 0

LEMMA ReplayedInOrder ==
  ASSUME restarted', NEW s \in Seq(ClientMessages), NEW n \in Seq(ClientMessages),
         \A j \in 1..Len(n) : Replayed(n[j])
  PROVE  AllPrecede(s, n)' /\ \A w : AllFollow(w, n)'
BY DEF Replayed, AllPrecede, AllFollow, Precedes, Follows, Adds

LEMMA ReplayedLine ==
  ASSUME restarted', NEW n \in Seq(ClientMessages), \A j \in 1..Len(n) : Replayed(n[j]),
         NEW tok, \A j \in 1..Len(n) : GoodMessage(n[j], tok)', NEW w
  PROVE  Line(n, w, tok)'
<1>1. AllPrecede(n, n)' /\ AllFollow(w, n)'
  BY ReplayedInOrder
<1>2. InOrder(n)'
  BY <1>1 DEF AllPrecede, InOrder
<1> QED
  BY <1>1, <1>2 DEF Line, AllGood

\* restart: what brings a new session to the client's state.
LEMMA RestartLine ==
  ASSUME TypeOK, TypeOK', NEW tok, LocalOK(tok), restarted', UNCHANGED <<query_set, next_query_id>>,
         NEW d, d = RestartState, NEW e, e = RestartRequests
  PROVE  /\ d \in Seq(ClientMessages) /\ e \in Seq(ClientMessages)
         /\ \A j \in 1..Len(d) : Replayed(d[j]) /\ GoodMessage(d[j], tok)'
         /\ \A j \in 1..Len(e) : Replayed(e[j]) /\ GoodMessage(e[j], tok)'
<1>1. d \in Seq(ClientMessages) /\ e \in Seq(ClientMessages)
  BY RestartStateType, RestartRequestsType DEF TypeOK
<1>2. ASSUME NEW j \in 1..Len(e)
      PROVE  Replayed(e[j]) /\ GoodMessage(e[j], tok)'
  <2>1. PICK m : m = e[j]
    OBVIOUS
  <2>2. m.t \in {"Mutation", "Action", "none"}
    BY <2>1, RestartRequestsType DEF TypeOK
  <2>3. Replayed(m) /\ GoodMessage(m, tok)'
    BY <2>2 DEF Replayed, GoodMessage
  <2> QED
    BY <2>1, <2>3
<1>3. PICK adds : adds = {AddQuery(query_set[t], t) : t \in SubscribedTokens}
  OBVIOUS
<1>4. PICK qm : qm = ModifyQuerySet(0, 1, adds)
  OBVIOUS
<1>5. PICK am : am = Authenticate(0, auth_token)
  OBVIOUS
<1>6. d = <<qm>> \/ d = <<am, qm>>
  BY <1>3, <1>4, <1>5 DEF RestartState
<1>7. Replayed(am) /\ GoodMessage(am, tok)'
  BY <1>5 DEF Authenticate, Replayed, GoodMessage
<1>8. Replayed(qm) /\ GoodMessage(qm, tok)'
  <2>1. qm.t = "ModifyQuerySet" /\ qm.base = 0 /\ qm.new = 1 /\ qm.modifications = adds
    BY <1>4 DEF ModifyQuerySet
  <2>2. ASSUME NEW u \in adds PROVE GoodUpdate(u, tok)'
    <3>1. PICK t \in SubscribedTokens : u = AddQuery(query_set[t], t)
      BY <1>3
    <3>2. t \in Tokens /\ query_set[t] # None
      BY DEF SubscribedTokens
    <3>3. query_set[t] \in QueryIds /\ query_set[t] < next_query_id /\ tok[query_set[t]] = t
      BY <3>2, QuerySetNat DEF LocalOK, TypeOK
    <3>4. u.op = "Add" /\ u.id = query_set[t] /\ u.token = t
      BY <3>1 DEF AddQuery
    <3> QED
      BY <3>3, <3>4 DEF GoodUpdate
  <2> QED
    BY <2>1, <2>2 DEF Replayed, GoodMessage
<1>9. \A j \in 1..Len(d) : Replayed(d[j]) /\ GoodMessage(d[j], tok)'
  <2>1. \A j \in 1..Len(d) : d[j] = qm \/ d[j] = am
    BY <1>6
  <2> QED
    BY <1>7, <1>8, <2>1
<1> QED
  BY <1>1, <1>2, <1>9

LEMMA ReconnectCore ==
  ASSUME TypeOK, TypeOK', NEW tok, NEW vs, Core(tok, vs), UNCHANGED serverVars, restarted', Reconnect
  PROVE  \E tok2, vs2 : Core(tok2, vs2)'
<1>1. /\ failed' = FALSE /\ wsq' = Append(wsq, ReconnectRequest)
      /\ outgoing' = (outgoing \o RestartState) \o RestartRequests /\ remote' = NoRemote
      /\ UNCHANGED <<query_set, num_subscribers, next_query_id, auth_token, results, ws, resp, up, down>>
  BY DEF Reconnect
<1>2. LogStep /\ UNCHANGED <<log, worker>>
  BY DEF LogStep, serverVars
<1>3. Advances(tok, tok)
  <2>1. SubscribedIds' = SubscribedIds
    BY <1>1 DEF SubscribedIds, SubscribedTokens
  <2>2. next_query_id \in Nat
    BY DEF TypeOK, LocalTypeOK
  <2> QED
    BY <1>1, <1>2, <2>1, <2>2 DEF Advances
<1>4. Good(NoRemote, tok) /\ Good(NoRemote, tok)'
  BY <1>3, NoRemoteStable DEF Core, LocalOK
<1>5. LocalOK(tok)'
  BY <1>1, <1>4 DEF Core, LocalOK
<1>6. PICK w \in Workers : w = worker
  BY DEF TypeOK, ServerTypeOK
<1>7. PipelineOK(tok)'
  <2>1. /\ up \in Seq(ClientMessages) /\ Messages(wsq) \in Seq(ClientMessages)
        /\ outgoing \in Seq(ClientMessages) /\ wsq \in Seq(SocketRequests)
    BY PipelineType DEF TypeOK, ChannelTypeOK
  <2>2. PICK a \in Seq(ClientMessages) : a = up
    BY <2>1
  <2>3. PICK b \in Seq(ClientMessages) : b = Messages(wsq)
    BY <2>1
  <2>4. PICK c \in Seq(ClientMessages) : c = outgoing
    BY <2>1
  <2>5. PICK d : d = RestartState
    OBVIOUS
  <2>6. PICK e : e = RestartRequests
    OBVIOUS
  <2>7. PICK m \in ClientMessages : m = Connect(None)
    BY ClientMessageTypes DEF None
  <2>8. Messages(wsq)' = b \o <<m>>
    <3>1. Messages(Append(wsq, ReconnectRequest)) = Messages(wsq) \o <<ReconnectRequest.m>>
      BY <2>1, SocketRequestTypes, MessagesAppend
    <3>2. Messages(wsq)' = Messages(Append(wsq, ReconnectRequest))
      BY <1>1 DEF Messages
    <3>3. ReconnectRequest.m = m
      BY <2>7 DEF ReconnectRequest
    <3> QED
      BY <2>3, <3>1, <3>2, <3>3
  <2>9. /\ d \in Seq(ClientMessages) /\ e \in Seq(ClientMessages)
        /\ \A j \in 1..Len(d) : Replayed(d[j]) /\ GoodMessage(d[j], tok)'
        /\ \A j \in 1..Len(e) : Replayed(e[j]) /\ GoodMessage(e[j], tok)'
    BY <1>1, <2>5, <2>6, RestartLine DEF Core
  <2>10. <<m>> \in Seq(ClientMessages)
    BY SingleMessage
  <2>11. PICK f \in Seq(ClientMessages) : f = b \o <<m>>
    BY <2>10, ConcatProperties
  <2>12. PICK g \in Seq(ClientMessages) : g = c \o d
    BY <2>9, ConcatProperties
  <2>13. PICK h \in Seq(ClientMessages) : h = g \o e
    BY <2>9, ConcatProperties
  <2>14. Pipeline' = a \o (f \o h)
    BY <1>1, <2>2, <2>4, <2>5, <2>6, <2>8, <2>11, <2>12, <2>13 DEF Pipeline
  <2>15. /\ Line(a, w, tok)' /\ Line(b, w, tok)' /\ Line(c, w, tok)'
         /\ AllPrecede(a, b)' /\ AllPrecede(a, c)' /\ AllPrecede(b, c)'
    <3>1. Line(a \o (b \o c), w, tok)
      BY <1>6, <2>2, <2>3, <2>4 DEF Core, PipelineOK, Pipeline
    <3>2. /\ Line(a, w, tok) /\ Line(b, w, tok) /\ Line(c, w, tok)
          /\ AllPrecede(a, b) /\ AllPrecede(a, c) /\ AllPrecede(b, c)
      BY <3>1, LineOfThree
    <3> QED
      BY <1>3, <3>2, LineStable
  <2>16. Line(<<m>>, w, tok)' /\ AllPrecede(a, <<m>>)' /\ AllPrecede(b, <<m>>)'
         /\ \A s \in Seq(ClientMessages) : AllPrecede(<<m>>, s)'
    <3>1. \A j \in 1..Len(<<m>>) : <<m>>[j] = m
      OBVIOUS
    <3>2. m.t = "Connect"
      BY <2>7 DEF Connect
    <3>3. Follows(w, m)' /\ GoodMessage(m, tok)' /\ \A x : Precedes(x, m)' /\ Precedes(m, x)'
      BY <3>2 DEF Follows, GoodMessage, Precedes, Adds
    <3>4. Line(<<m>>, w, tok)'
      BY <3>3, MessageFactsHold DEF MessageFacts
    <3> QED
      BY <3>1, <3>3, <3>4 DEF AllPrecede
  <2>17. Line(d, w, tok)' /\ Line(e, w, tok)'
         /\ \A s \in Seq(ClientMessages) : AllPrecede(s, d)' /\ AllPrecede(s, e)'
    BY <2>9, ReplayedLine, ReplayedInOrder
  <2>18. Line(f, w, tok)' /\ AllPrecede(a, f)' /\ \A s \in Seq(ClientMessages) : AllPrecede(b, s)' => AllPrecede(f, s)'
    <3>1. Line(f, w, tok)' <=> Line(b, w, tok)' /\ Line(<<m>>, w, tok)' /\ AllPrecede(b, <<m>>)'
      <4>1. PICK s \in Seq(ClientMessages) : s = <<m>>
        BY <2>10
      <4>2. Line(b \o s, w, tok)' <=> Line(b, w, tok)' /\ Line(s, w, tok)' /\ AllPrecede(b, s)'
        BY MessageFactsHold DEF MessageFacts
      <4> QED
        BY <2>11, <4>1, <4>2
    <3>2. AllPrecede(a, f)' <=> AllPrecede(a, b)' /\ AllPrecede(a, <<m>>)'
      BY <2>10, <2>11, MessageFactsHold DEF MessageFacts
    <3>3. \A s \in Seq(ClientMessages) : AllPrecede(f, s)' <=> AllPrecede(b, s)' /\ AllPrecede(<<m>>, s)'
      BY <2>10, <2>11, MessageFactsHold DEF MessageFacts
    <3> QED
      BY <2>15, <2>16, <3>1, <3>2, <3>3
  <2>19. Line(g, w, tok)' /\ \A s \in Seq(ClientMessages) : AllPrecede(s, c)' => AllPrecede(s, g)'
    <3>1. Line(g, w, tok)' <=> Line(c, w, tok)' /\ Line(d, w, tok)' /\ AllPrecede(c, d)'
      BY <2>9, <2>12, MessageFactsHold DEF MessageFacts
    <3>2. \A s \in Seq(ClientMessages) : AllPrecede(s, g)' <=> AllPrecede(s, c)' /\ AllPrecede(s, d)'
      BY <2>9, <2>12, MessageFactsHold DEF MessageFacts
    <3> QED
      BY <2>15, <2>17, <3>1, <3>2
  <2>20. Line(h, w, tok)' /\ \A s \in Seq(ClientMessages) : AllPrecede(s, g)' => AllPrecede(s, h)'
    <3>1. Line(h, w, tok)' <=> Line(g, w, tok)' /\ Line(e, w, tok)' /\ AllPrecede(g, e)'
      BY <2>9, <2>13, MessageFactsHold DEF MessageFacts
    <3>2. \A s \in Seq(ClientMessages) : AllPrecede(s, h)' <=> AllPrecede(s, g)' /\ AllPrecede(s, e)'
      BY <2>9, <2>13, MessageFactsHold DEF MessageFacts
    <3> QED
      BY <2>17, <2>19, <3>1, <3>2
  <2>21. Line(a \o (f \o h), w, tok)'
    <3>1. Line(a \o (f \o h), w, tok)' <=>
            /\ Line(a, w, tok)' /\ Line(f, w, tok)' /\ Line(h, w, tok)'
            /\ AllPrecede(a, f)' /\ AllPrecede(a, h)' /\ AllPrecede(f, h)'
      BY MessageFactsHold DEF MessageFacts
    <3> QED
      BY <2>15, <2>18, <2>19, <2>20, <3>1
  <2> QED
    BY <1>2, <1>6, <2>14, <2>21 DEF PipelineOK
<1>8. ViewOK(tok, vs)'
  <2>1. PICK a : a = Incoming
    OBVIOUS
  <2>2. a = Incoming'
    BY <1>1, <2>1 DEF Incoming
  <2>3. Chain(a, vs, tok) /\ ResultsOK(tok, vs[1].seen)
    BY <2>1 DEF Core, ViewOK
  <2>4. Chain(a, vs, tok)'
    BY <1>3, <2>3, ChainStable
  <2>5. Len(a) \in Nat
    BY <2>1, IncomingType
  <2>6. vs[1].seen \in Nat /\ vs[1].seen <= Len(log) /\ Good(vs[1].rem, tok)
    BY <2>3, <2>5, FirstView
  <2>7. ResultsOK(tok, vs[1].seen)'
    BY <1>1, <1>3, <2>3, <2>6, ResultsStable
  <2>8. NoRemote.version = vs[1].rem.version => NoRemote = vs[1].rem
    BY <2>6, EmptyView
  <2>9. remote' = NoRemote'
    BY <1>1 DEF NoRemote, InitialVersion
  <2> QED
    BY <1>1, <1>4, <2>2, <2>4, <2>7, <2>8, <2>9 DEF ViewOK
<1>9. WorkerOK(tok, vs)'
  <2>1. PICK a : a = Incoming
    OBVIOUS
  <2>2. a = Incoming' /\ Len(a) \in Nat /\ Chain(a, vs, tok)
    BY <1>1, <2>1, IncomingType DEF Incoming, Core, ViewOK
  <2>3. ASSUME w.alive
        PROVE  /\ ws = "connected" /\ \A i \in 1..Len(down) : down[i] # CloseFrame
               /\ Serves(worker, vs[Len(Incoming) + 1], tok)'
    <3>1. /\ ws = "connected" /\ \A i \in 1..Len(down) : down[i] # CloseFrame
          /\ Serves(w, vs[Len(a) + 1], tok)
      BY <1>6, <2>1, <2>3 DEF Core, WorkerOK
    <3>2. PICK u : u = vs[Len(a) + 1]
      OBVIOUS
    <3>3. Good(u.rem, tok)
      BY <2>2, <3>2, FirstView
    <3>4. Serves(w, u, tok)'
      BY <1>3, <3>1, <3>2, <3>3, ServesStable
    <3> QED
      BY <1>2, <1>6, <2>2, <3>1, <3>2, <3>4
  <2>4. NoWorker' = NoWorker /\ CloseFrame' = CloseFrame
    BY DEF NoWorker, NewWorker, CloseFrame
  <2>5. ~w.alive => w = NoWorker
    BY <1>6 DEF Core, WorkerOK
  <2> QED
    BY <1>1, <1>2, <1>6, <2>3, <2>4, <2>5 DEF WorkerOK
<1>10. Core(tok, vs)'
  BY <1>5, <1>7, <1>8, <1>9 DEF Core
<1> QED
  BY <1>10

-----------------------------------------------------------------------------
(* Steps of the WebSocket task                                             *)

LEMMA SocketCore ==
  ASSUME TypeOK, TypeOK', NEW tok, NEW vs, Core(tok, vs),
         UNCHANGED <<log, localVars, results, remote, failed, restarted>>,
         NEW messages, messages = Incoming', NEW vs2, Chain(messages, vs2, tok),
         vs2[1].seen = vs[1].seen, vs2[1].rem \in {vs[1].rem, NoRemote},
         NEW x \in Workers, x = worker',
         x.alive => /\ ws' = "connected" /\ \A i \in 1..Len(down') : down'[i] # CloseFrame
                    /\ Serves(x, vs2[Len(messages) + 1], tok),
         ~x.alive => x = NoWorker,
         NEW line \in Seq(ClientMessages), line = Pipeline', Line(line, x, tok),
         ~restarted =>
           /\ \A i \in 1..Len(wsq') : wsq'[i].kind = "Send"
           /\ ws' = "connecting" => up' = <<>>
           /\ x.alive \/ ws' = "connecting" => \A q \in SubscribedIds : Holds(x, q) \/ Added(line, q)
  PROVE  \E tok2, vs3 : Core(tok2, vs3)'
<1>1. LogStep
  BY DEF LogStep
<1>2. Advances(tok, tok) /\ LocalOK(tok)'
  BY <1>1, Steady, LocalStable DEF Core
<1>3. PipelineOK(tok)'
  BY <1>2, PipelineNext DEF localVars
<1>4. Core(tok, vs2)'
  BY <1>2, <1>3, CoreNext
<1> QED
  BY <1>4

\* The client has the messages it has received, and perhaps the end of the
\* connection.
LEMMA ChainCut ==
  ASSUME TypeOK, NEW tok, NEW vs, Chain(Incoming, vs, tok), NEW final \in {<<>>, <<CloseFrame>>}
  PROVE  \E vs2 : Chain(resp \o final, vs2, tok) /\ vs2[1] = vs[1]
<1>1. PICK a \in Seq(ServerMessages) : a = Incoming
  BY IncomingType
<1>2. /\ resp \in Seq(ServerMessages) /\ Len(resp) \in Nat /\ Len(resp) <= Len(a)
      /\ \A i \in 1..Len(resp) : a[i] = resp[i]
  BY <1>1, IncomingType
<1>3. final \in Seq(ServerMessages) /\ \A i \in 1..Len(final) : final[i].t # "Transition"
  <2>1. CloseFrame.t # "Transition" /\ CloseFrame \in ServerMessages
    BY ServerMessageTypes DEF CloseFrame
  <2>2. PICK c \in ServerMessages : c = CloseFrame /\ c.t # "Transition"
    BY <2>1
  <2>3. CASE final = <<>>
    BY <2>3
  <2>4. CASE final = <<c>>
    BY <2>2, <2>4
  <2> QED
    BY <2>2, <2>3, <2>4
<1>4. PICK b \in Seq(ServerMessages) : b = resp \o final
  BY <1>2, <1>3, ConcatProperties
<1>5. PICK n \in Nat : n = Len(resp)
  BY <1>2
<1>6. n <= Len(a) /\ n <= Len(b)
  BY <1>2, <1>3, <1>4, <1>5, ConcatParts
<1>9. \A i \in 1..n : b[i] = a[i]
  BY <1>2, <1>3, <1>4, <1>5, ConcatParts
<1>10. \A i \in 1..Len(b) : i > n => b[i].t # "Transition"
  BY <1>2, <1>3, <1>4, <1>5, ConcatParts
<1>7. Chain(a, vs, tok)
  BY <1>1
<1>8. \E vs2 : Chain(b, vs2, tok) /\ vs2[1] = vs[1] /\ vs2[Len(b) + 1] = vs[n + 1]
  BY <1>6, <1>9, <1>10, <1>7, ChainEnds
<1> QED
  BY <1>4, <1>8

\* What is on its way without the next request to the WebSocket task.
LEMMA NextRequest ==
  ASSUME TypeOK, wsq # <<>>, NEW tok, NEW w, Line(Pipeline, w, tok)
  PROVE  LET rest == Messages(Tail(wsq)) \o outgoing IN
         /\ rest \in Seq(ClientMessages) /\ up \o rest \in Seq(ClientMessages)
         /\ Line(rest, w, tok) /\ Line(up \o rest, w, tok)
         /\ Pipeline = Append(up, Head(wsq).m) \o rest
<1>1. /\ up \in Seq(ClientMessages) /\ outgoing \in Seq(ClientMessages) /\ wsq \in Seq(SocketRequests)
  BY PipelineType DEF TypeOK, ChannelTypeOK
<1>2. /\ Messages(wsq) = <<Head(wsq).m>> \o Messages(Tail(wsq))
      /\ Head(wsq).m \in ClientMessages /\ Tail(wsq) \in Seq(SocketRequests)
  BY <1>1, MessagesTail
<1>3. PICK h \in ClientMessages : h = Head(wsq).m
  BY <1>2
<1>4. PICK t \in Seq(ClientMessages) : t = Messages(Tail(wsq))
  BY <1>2, MessagesOf
<1>5. PICK rest \in Seq(ClientMessages) : rest = t \o outgoing
  BY <1>1, <1>4, ConcatProperties
<1>6. <<h>> \in Seq(ClientMessages) /\ up \o rest \in Seq(ClientMessages)
  BY <1>1, SingleMessage, ConcatProperties
<1>7. Pipeline = up \o (<<h>> \o rest)
  <2>1. (<<h>> \o t) \o outgoing = <<h>> \o (t \o outgoing)
    BY <1>1, <1>6, ConcatAssociative
  <2> QED
    BY <1>2, <1>3, <1>4, <1>5, <2>1 DEF Pipeline
<1>8. /\ Line(up, w, tok) /\ Line(rest, w, tok) /\ AllPrecede(up, rest)
  BY <1>1, <1>6, <1>7, LineOfThree
<1>9. Line(up \o rest, w, tok)
  BY <1>1, <1>8, LineConcat
<1>10. Append(up, h) \o rest = Pipeline
  <2>1. Append(up, h) = up \o <<h>>
    BY <1>1
  <2>2. (up \o <<h>>) \o rest = up \o (<<h>> \o rest)
    BY <1>1, <1>6, ConcatAssociative
  <2> QED
    BY <1>7, <2>1, <2>2
<1> QED
  BY <1>3, <1>4, <1>5, <1>6, <1>8, <1>9, <1>10

LEMMA TailSends ==
  ASSUME TypeOK, wsq # <<>>, wsq' = Tail(wsq)
  PROVE  /\ Messages(wsq)' = Messages(Tail(wsq))
         /\ (\A i \in 1..Len(wsq) : wsq[i].kind = "Send") =>
              Head(wsq).kind = "Send" /\ \A i \in 1..Len(wsq') : wsq'[i].kind = "Send"
<1>1. wsq \in Seq(SocketRequests)
  BY DEF TypeOK, ChannelTypeOK
<1>2. \A i \in 1..Len(Tail(wsq)) : i + 1 \in 1..Len(wsq) /\ Tail(wsq)[i] = wsq[i + 1]
  BY <1>1, MessagesTail
<1>3. Head(wsq) = wsq[1] /\ 1 \in 1..Len(wsq)
  BY <1>1
<1>4. Messages(wsq)' = Messages(Tail(wsq))
  BY DEF Messages
<1> QED
  BY <1>2, <1>3, <1>4

\* The state of a client and worker, by name.
LEMMA SocketState ==
  ASSUME TypeOK, NEW tok, NEW vs, Core(tok, vs)
  PROVE  /\ worker \in Workers /\ Chain(Incoming, vs, tok) /\ Line(Pipeline, worker, tok)
         /\ Pipeline \in Seq(ClientMessages) /\ Good(NoRemote, tok)
         /\ worker.alive => /\ ws = "connected" /\ \A i \in 1..Len(down) : down[i] # CloseFrame
                            /\ Serves(worker, vs[Len(Incoming) + 1], tok)
         /\ ~worker.alive => worker = NoWorker
         /\ ~restarted => /\ \A i \in 1..Len(wsq) : wsq[i].kind = "Send"
                          /\ ws = "connecting" => up = <<>>
                          /\ worker.alive \/ ws = "connecting" =>
                               \A q \in SubscribedIds : Holds(worker, q) \/ Added(Pipeline, q)
BY PipelineType DEF Core, LocalOK, PipelineOK, ViewOK, WorkerOK, Reachable, TypeOK, ServerTypeOK

LEMMA WsReceiveCore ==
  ASSUME TypeOK, TypeOK', NEW tok, NEW vs, Core(tok, vs), UNCHANGED <<serverVars, restarted>>, WsReceive
  PROVE  \E tok2, vs2 : Core(tok2, vs2)'
<1>1. /\ ws = "connected" /\ down # <<>> /\ down' = Tail(down)
      /\ UNCHANGED <<log, worker, localVars, results, remote, failed, outgoing, wsq, up>>
  BY DEF WsReceive, serverVars, viewVars
<1>2. PICK line \in Seq(ClientMessages) : line = Pipeline
  BY SocketState
<1>3. line = Pipeline'
  BY <1>1, <1>2 DEF Pipeline, Messages
<1>4. PICK x \in Workers : x = worker
  BY SocketState
<1>5. /\ resp \in Seq(ServerMessages) /\ down \in Seq(ServerMessages)
      /\ down = <<Head(down)>> \o Tail(down) /\ Head(down) \in ServerMessages /\ Tail(down) \in Seq(ServerMessages)
  BY <1>1, IncomingType, FirstMessage
<1>6. CASE Head(down) = CloseFrame /\ WsFails
  <2>1. resp' = resp \o <<CloseFrame>> /\ ws' = "draining"
    BY <1>5, <1>6 DEF WsFails
  <2>2. ~x.alive
    <3>1. down[1] = CloseFrame /\ 1 \in 1..Len(down)
      BY <1>1, <1>5, <1>6
    <3> QED
      BY <1>4, <3>1, SocketState
  <2>3. PICK messages : messages = resp \o <<CloseFrame>>
    OBVIOUS
  <2>4. messages = Incoming'
    BY <2>1, <2>3 DEF Incoming
  <2>5. PICK vs2 : Chain(messages, vs2, tok) /\ vs2[1] = vs[1]
    BY <2>3, SocketState, ChainCut
  <2>6. Line(line, x, tok) /\ x = NoWorker
    BY <1>2, <1>4, <2>2, SocketState
  <2>7. ~restarted => \A i \in 1..Len(wsq) : wsq[i].kind = "Send"
    BY SocketState
  <2> QED
    BY <1>1, <1>3, <1>4, <2>1, <2>2, <2>4, <2>5, <2>6, <2>7, SocketCore
<1>7. CASE Head(down) # CloseFrame /\ resp' = Append(resp, Head(down)) /\ ws' = ws
  <2>1. PICK h \in ServerMessages : h = Head(down)
    BY <1>5
  <2>2. PICK t \in Seq(ServerMessages) : t = Tail(down)
    BY <1>5
  <2>3. (resp \o <<h>>) \o t = resp \o (<<h>> \o t)
    <3>1. <<h>> \in Seq(ServerMessages)
      OBVIOUS
    <3> QED
      BY <1>5, <3>1, ConcatAssociative
  <2>4. Append(resp, h) = resp \o <<h>>
    BY <1>5
  <2>5. Incoming' = Incoming
    BY <1>1, <1>5, <1>7, <2>1, <2>2, <2>3, <2>4 DEF Incoming
  <2>6. PICK messages : messages = Incoming
    OBVIOUS
  <2>7. \A i \in 1..Len(down') : i + 1 \in 1..Len(down) /\ down'[i] = down[i + 1]
    BY <1>1, <1>5
  <2>8. x.alive => /\ ws' = "connected" /\ \A i \in 1..Len(down') : down'[i] # CloseFrame
                   /\ Serves(x, vs[Len(messages) + 1], tok)
    BY <1>1, <1>4, <1>7, <2>6, <2>7, SocketState
  <2>9. /\ Chain(messages, vs, tok) /\ Line(line, x, tok) /\ (~x.alive => x = NoWorker)
        /\ ~restarted => /\ \A i \in 1..Len(wsq) : wsq[i].kind = "Send"
                         /\ x.alive => \A q \in SubscribedIds : Holds(x, q) \/ Added(line, q)
    BY <1>2, <1>4, <2>6, SocketState
  <2> QED
    BY <1>1, <1>3, <1>4, <1>7, <2>5, <2>6, <2>8, <2>9, SocketCore
<1> QED
  BY <1>6, <1>7 DEF WsReceive

LEMMA WsDrainCore ==
  ASSUME TypeOK, TypeOK', NEW tok, NEW vs, Core(tok, vs), UNCHANGED <<serverVars, restarted>>, WsDrain
  PROVE  \E tok2, vs2 : Core(tok2, vs2)'
<1>1. /\ ws = "draining" /\ wsq # <<>> /\ wsq' = Tail(wsq)
      /\ ws' = (IF Head(wsq).kind = "Reconnect" THEN "connecting" ELSE "draining")
      /\ UNCHANGED <<log, worker, localVars, results, remote, failed, outgoing, resp, up>>
  BY DEF WsDrain, serverVars, viewVars
<1>2. PICK x \in Workers : x = worker
  BY SocketState
<1>3. PICK line : line = up \o (Messages(Tail(wsq)) \o outgoing)
  OBVIOUS
<1>4. line \in Seq(ClientMessages) /\ Line(line, x, tok)
  BY <1>1, <1>2, <1>3, SocketState, NextRequest
<1>5. line = Pipeline'
  BY <1>1, <1>3, TailSends DEF Pipeline
<1>6. ~x.alive /\ x = NoWorker
  BY <1>1, <1>2, SocketState
<1>7. PICK messages : messages = Incoming
  OBVIOUS
<1>8. messages = Incoming' /\ Chain(messages, vs, tok)
  BY <1>1, <1>7, SocketState DEF Incoming
<1>9. ~restarted => ws' # "connecting" /\ \A i \in 1..Len(wsq') : wsq'[i].kind = "Send"
  BY <1>1, SocketState, TailSends
<1> QED
  BY <1>1, <1>2, <1>4, <1>5, <1>6, <1>8, <1>9, SocketCore

LEMMA WsConnectFailsCore ==
  ASSUME TypeOK, TypeOK', NEW tok, NEW vs, Core(tok, vs), restarted' = restarted, WsConnectFails
  PROVE  \E tok2, vs2 : Core(tok2, vs2)'
<1>1. /\ ws = "connecting" /\ ws' = "draining" /\ resp' = Append(resp, CloseFrame)
      /\ UNCHANGED <<log, worker, localVars, results, remote, failed, outgoing, wsq, up>>
  BY DEF WsConnectFails, WsFails, viewVars
<1>2. PICK x \in Workers : x = worker
  BY SocketState
<1>3. PICK line \in Seq(ClientMessages) : line = Pipeline
  BY SocketState
<1>4. line = Pipeline' /\ Line(line, x, tok)
  BY <1>1, <1>2, <1>3, SocketState DEF Pipeline, Messages
<1>5. ~x.alive /\ x = NoWorker
  BY <1>1, <1>2, SocketState
<1>6. PICK messages : messages = resp \o <<CloseFrame>>
  OBVIOUS
<1>7. messages = Incoming'
  BY <1>1, <1>6, IncomingType DEF Incoming
<1>8. PICK vs2 : Chain(messages, vs2, tok) /\ vs2[1] = vs[1]
  BY <1>6, SocketState, ChainCut
<1>9. ~restarted => \A i \in 1..Len(wsq) : wsq[i].kind = "Send"
  BY SocketState
<1> QED
  BY <1>1, <1>2, <1>4, <1>5, <1>7, <1>8, <1>9, SocketCore

LEMMA WsSendCore ==
  ASSUME TypeOK, TypeOK', NEW tok, NEW vs, Core(tok, vs), restarted' = restarted, WsSend
  PROVE  \E tok2, vs2 : Core(tok2, vs2)'
<1>1. /\ ws = "connected" /\ wsq # <<>> /\ wsq' = Tail(wsq)
      /\ UNCHANGED <<log, worker, localVars, results, remote, failed, outgoing, down>>
  BY DEF WsSend, serverVars, viewVars
<1>2. PICK x \in Workers : x = worker
  BY SocketState
<1>3. PICK rest : rest = Messages(Tail(wsq)) \o outgoing
  OBVIOUS
<1>4. /\ up \o rest \in Seq(ClientMessages) /\ Line(up \o rest, x, tok)
      /\ Pipeline = Append(up, Head(wsq).m) \o rest
  BY <1>1, <1>2, <1>3, SocketState, NextRequest
<1>5. Pipeline' = up' \o rest
  BY <1>1, <1>3, TailSends DEF Pipeline
<1>6. ~restarted => \A i \in 1..Len(wsq') : wsq'[i].kind = "Send"
  BY <1>1, SocketState, TailSends
<1>7. ASSUME up' = (IF worker.alive THEN Append(up, Head(wsq).m) ELSE up), UNCHANGED <<ws, resp>>
      PROVE  \E tok2, vs2 : Core(tok2, vs2)'
  <2>1. PICK messages : messages = Incoming
    OBVIOUS
  <2>2. messages = Incoming'
    BY <1>1, <1>7, <2>1 DEF Incoming
  <2>3. /\ Chain(messages, vs, tok) /\ (~x.alive => x = NoWorker)
        /\ x.alive => /\ ws' = "connected" /\ \A i \in 1..Len(down') : down'[i] # CloseFrame
                      /\ Serves(x, vs[Len(messages) + 1], tok)
    BY <1>1, <1>2, <1>7, <2>1, SocketState
  <2>4. PICK line : line = Pipeline'
    OBVIOUS
  <2>5. CASE x.alive
    <3>1. line = Pipeline
      BY <1>2, <1>4, <1>5, <1>7, <2>4, <2>5
    <3>2. /\ line \in Seq(ClientMessages) /\ Line(line, x, tok)
          /\ ~restarted => \A q \in SubscribedIds : Holds(x, q) \/ Added(line, q)
      BY <1>2, <2>5, <3>1, SocketState
    <3> QED
      BY <1>1, <1>2, <1>6, <1>7, <2>2, <2>3, <2>4, <2>5, <3>2, SocketCore
  <2>6. CASE ~x.alive
    <3>1. line \in Seq(ClientMessages) /\ Line(line, x, tok)
      BY <1>2, <1>4, <1>5, <1>7, <2>4, <2>6
    <3> QED
      BY <1>1, <1>2, <1>6, <1>7, <2>2, <2>3, <2>4, <2>6, <3>1, SocketCore
  <2> QED
    BY <2>5, <2>6
<1>8. ASSUME ~worker.alive, WsFails, up' = up
      PROVE  \E tok2, vs2 : Core(tok2, vs2)'
  <2>1. ws' = "draining" /\ resp' = Append(resp, CloseFrame)
    BY <1>8 DEF WsFails
  <2>2. PICK messages : messages = resp \o <<CloseFrame>>
    OBVIOUS
  <2>3. messages = Incoming'
    BY <2>1, <2>2, IncomingType DEF Incoming
  <2>4. PICK vs2 : Chain(messages, vs2, tok) /\ vs2[1] = vs[1]
    BY <2>2, SocketState, ChainCut
  <2>5. PICK line : line = up \o rest
    OBVIOUS
  <2>6. line \in Seq(ClientMessages) /\ line = Pipeline' /\ Line(line, x, tok)
    BY <1>4, <1>5, <1>8, <2>5
  <2>7. ~x.alive /\ x = NoWorker
    BY <1>2, <1>8, SocketState
  <2> QED
    BY <1>1, <1>2, <1>6, <2>1, <2>3, <2>4, <2>6, <2>7, SocketCore
<1> QED
  BY <1>7, <1>8 DEF WsSend

LEMMA WsReconnectCore ==
  ASSUME TypeOK, TypeOK', NEW tok, NEW vs, Core(tok, vs), restarted' = restarted, WsReconnect
  PROVE  \E tok2, vs2 : Core(tok2, vs2)'
<1>1. /\ wsq # <<>> /\ Head(wsq).kind = "Reconnect" /\ wsq' = Tail(wsq) /\ ws' = "connecting"
      /\ worker' = NoWorker /\ up' = <<>>
      /\ UNCHANGED <<log, localVars, results, remote, failed, outgoing, resp>>
  BY DEF WsReconnect, viewVars
<1>2. restarted
  <2>1. "Reconnect" # "Send"
    OBVIOUS
  <2> QED
    BY <1>1, <2>1, SocketState, TailSends DEF TypeOK
<1>3. PICK line : line = Messages(Tail(wsq)) \o outgoing
  OBVIOUS
<1>4. line \in Seq(ClientMessages) /\ Line(line, worker, tok)
  BY <1>1, <1>3, SocketState, NextRequest
<1>5. line = Pipeline'
  <2>1. Pipeline' = <<>> \o line
    BY <1>1, <1>3, TailSends DEF Pipeline
  <2> QED
    BY <1>4, <2>1
<1>6. PICK x : x = NoWorker
  OBVIOUS
<1>7. x \in Workers /\ ~x.alive /\ Line(line, x, tok)
  <2>1. NoWorker \in Workers /\ ~NoWorker.alive
    BY NewWorkerType DEF NoWorker, NewWorker
  <2> QED
    BY <1>4, <1>6, <2>1, LineNew
<1>8. PICK messages : messages = resp \o <<>>
  OBVIOUS
<1>9. messages = Incoming'
  BY <1>1, <1>8, IncomingType DEF Incoming
<1>10. PICK vs2 : Chain(messages, vs2, tok) /\ vs2[1] = vs[1]
  BY <1>8, SocketState, ChainCut
<1> QED
  BY <1>1, <1>2, <1>4, <1>5, <1>6, <1>7, <1>9, <1>10, SocketCore

LEMMA NewWorkerServes ==
  ASSUME TypeOK, NEW tok, LocalOK(tok), NEW v, v.rem = NoRemote
  PROVE  Serves(NewWorker, v, tok)
<1>1. PICK w : w = NewWorker
  OBVIOUS
<1>2. /\ w.current_version = InitialVersion /\ w.identity = None /\ w.pending_query_updates = {}
      /\ w.pending_identity = {} /\ w.received.query_set = 0 /\ w.received.identity = 0
      /\ w.transition = NoTransition
      /\ \A q \in QueryIds : w.queries[q] = NoQuery
  BY <1>1 DEF NewWorker
<1>3. ~w.transition.busy /\ InitialVersion.ts = 0 /\ InitialVersion.query_set = 0 /\ InitialVersion.identity = 0
  BY <1>2 DEF NoTransition, InitialVersion
<1>4. v.rem.version = InitialVersion /\ \A q \in QueryIds : v.rem.set[q] = {}
  BY DEF NoRemote
<1>5. \A q \in QueryIds : w.queries[q].phase = "none" /\ w.queries[q].hash = {} /\ w.queries[q].sub = {}
  BY <1>2 DEF NoQuery
<1>6. QueriesOK(w, tok) /\ ChangesOK(w, tok)
  BY <1>2, <1>3, <1>5 DEF QueriesOK, ChangesOK
<1>7. identity_version \in Nat /\ query_set_version \in Nat
  BY DEF TypeOK, LocalTypeOK
<1>8. Idle(w, v, tok)
  BY <1>2, <1>3, <1>4, <1>5 DEF Idle, LocalOK
<1>9. ~restarted => Known(w)
  BY <1>2, <1>3, <1>7 DEF Known, LocalOK, Identity
<1> QED
  BY <1>1, <1>2, <1>3, <1>4, <1>6, <1>8, <1>9 DEF Serves

LEMMA WsConnectCore ==
  ASSUME TypeOK, TypeOK', NEW tok, NEW vs, Core(tok, vs), restarted' = restarted, WsConnect
  PROVE  \E tok2, vs2 : Core(tok2, vs2)'
<1>1. /\ ws = "connecting" /\ ws' = "connected" /\ worker' = NewWorker
      /\ up' = <<Connect(connection + 1)>> /\ down' = <<>>
      /\ UNCHANGED <<log, localVars, results, remote, failed, outgoing, wsq, resp>>
  BY DEF WsConnect, viewVars
<1>2. PICK m \in ClientMessages : m = Connect(connection + 1)
  BY ClientMessageTypes DEF TypeOK
<1>3. PICK x : x = NewWorker
  OBVIOUS
<1>4. x \in Workers /\ x.alive
  BY <1>3, NewWorkerType DEF NewWorker
<1>5. up \in Seq(ClientMessages) /\ Messages(wsq) \in Seq(ClientMessages) /\ outgoing \in Seq(ClientMessages)
  BY PipelineType
<1>6. PICK rest \in Seq(ClientMessages) : rest = Messages(wsq) \o outgoing
  BY <1>5, ConcatProperties
<1>7. PICK line \in Seq(ClientMessages) : line = <<m>> \o rest
  BY SingleMessage, ConcatProperties
<1>8. line = Pipeline'
  BY <1>1, <1>2, <1>6, <1>7 DEF Pipeline, Messages
<1>9. Pipeline = up \o rest
  BY <1>6 DEF Pipeline
<1>10. Line(rest, x, tok)
  <2>1. Line(rest, worker, tok)
    BY <1>5, <1>9, SocketState, LineConcat
  <2> QED
    BY <1>3, <2>1, LineNew
<1>11. m.t = "Connect"
  BY <1>2 DEF Connect
<1>12. Line(line, x, tok)
  <2>1. GoodMessage(m, tok) /\ Follows(x, m) /\ \A n : Precedes(m, n)
    BY <1>11 DEF GoodMessage, Follows, Precedes, Adds
  <2>2. <<m>> \in Seq(ClientMessages) /\ Line(<<m>>, x, tok)
    BY <2>1, SingleMessage DEF Line
  <2>3. AllPrecede(<<m>>, rest)
    BY <2>1 DEF AllPrecede
  <2> QED
    BY <1>7, <1>10, <2>2, <2>3, LineConcat
<1>13. ASSUME ~restarted, NEW q \in SubscribedIds PROVE Added(line, q)
  <2>1. up = <<>> /\ (Holds(worker, q) \/ Added(Pipeline, q)) /\ worker = NoWorker
    BY <1>1, <1>13, SocketState
  <2>2. q \in QueryIds
    BY QuerySetNat DEF SubscribedIds, SubscribedTokens, TypeOK
  <2>3. ~Holds(worker, q)
    BY <2>1, <2>2 DEF Holds, NoWorker, NewWorker, NoQuery
  <2>4. Added(rest, q)
    BY <1>9, <2>1, <2>3
  <2> QED
    BY <1>7, <2>4, SingleMessage, ConcatMessages
<1>14. ~restarted => \A i \in 1..Len(wsq) : wsq[i].kind = "Send"
  BY SocketState
<1>15. PICK messages \in Seq(ServerMessages) : messages = Incoming
  BY IncomingType
<1>16. messages = Incoming'
  <2>1. Incoming' = resp \o <<>> /\ Incoming = resp
    BY <1>1 DEF Incoming
  <2> QED
    BY <1>15, <2>1, IncomingType
<1>17. Chain(messages, vs, tok) /\ Good(NoRemote, tok) /\ LocalOK(tok)
  BY <1>15, SocketState DEF Core
<1>18. PICK vs2 : /\ Chain(messages, vs2, tok) /\ vs2[Len(messages) + 1].rem = NoRemote
                  /\ vs2[1].rem \in {vs[1].rem, NoRemote} /\ vs2[1].seen = vs[1].seen
  BY <1>17, ChainReset
<1>19. Serves(x, vs2[Len(messages) + 1], tok)
  BY <1>3, <1>17, <1>18, NewWorkerServes
<1>20. \A i \in 1..Len(down') : down'[i] # CloseFrame
  BY <1>1
<1> QED
  BY <1>1, <1>3, <1>4, <1>8, <1>12, <1>13, <1>14, <1>16, <1>18, <1>19, <1>20, SocketCore

-----------------------------------------------------------------------------
(* The invariant                                                           *)

LEMMA InitCore ==
  ASSUME Init
  PROVE  \E tok, vs : Core(tok, vs)
<1>1. /\ log = <<>> /\ worker = NoWorker /\ up = <<>> /\ down = <<>> /\ restarted = FALSE
      /\ query_set = [t \in Tokens |-> None] /\ num_subscribers = [t \in Tokens |-> 0]
      /\ next_query_id = 1 /\ query_set_version = 0 /\ auth_token = None /\ identity_version = 0
      /\ results = [q \in QueryIds |-> {}] /\ remote = NoRemote
      /\ outgoing = <<>> /\ failed = FALSE /\ ws = "connecting" /\ wsq = <<>> /\ resp = <<>>
  BY DEF Init, ServerInit, ClientInit
<1>2. TypeOK
  BY InitType
<1>3. PICK tok : tok = [q \in QueryIds |-> None]
  OBVIOUS
<1>4. PICK r \in Remotes : r = NoRemote
  BY NoRemoteType
<1>5. PICK vs : vs = [i \in 1..1 |-> [rem |-> r, seen |-> 0]]
  OBVIOUS
<1>6. Len(log) = 0 /\ Len(resp) = 0 /\ Len(wsq) = 0
  BY <1>1, EmptySeq
<1>7. SubscribedTokens = {} /\ SubscribedIds = {}
  BY <1>1 DEF SubscribedTokens, SubscribedIds
<1>8. Good(r, tok)
  <2>1. r.version = InitialVersion /\ \A q \in QueryIds : r.set[q] = {}
    BY <1>4 DEF NoRemote
  <2>2. r.version.ts = 0 /\ r.version.query_set = 0 /\ r.version.identity = 0
    BY <2>1 DEF InitialVersion
  <2>3. None \in Identities /\ Snapshot(r, tok, None)
    BY <2>1 DEF Identities, Snapshot
  <2>4. Complete(r)
    BY <1>7 DEF Complete
  <2> QED
    BY <1>1, <1>6, <2>1, <2>2, <2>3, <2>4 DEF Good
<1>9. LocalOK(tok)
  BY <1>1, <1>4, <1>8 DEF LocalOK, None
<1>10. PipelineOK(tok)
  <2>1. PICK s \in Seq(ClientMessages) : s = Pipeline
    BY <1>2, PipelineType
  <2>2. Len(s) = 0
    <3>1. Messages(wsq) = <<>>
      BY <1>1, <1>6 DEF Messages
    <3>2. <<>> \o (<<>> \o <<>>) = <<>>
      OBVIOUS
    <3> QED
      BY <1>1, <2>1, <3>1, <3>2, EmptySeq DEF Pipeline
  <2>3. Line(s, worker, tok)
    BY <2>2 DEF Line, AllGood, InOrder, AllFollow
  <2> QED
    BY <1>1, <1>6, <1>7, <2>1, <2>3 DEF PipelineOK
<1>11. ViewOK(tok, vs)
  <2>1. Incoming = resp
    BY <1>1 DEF Incoming
  <2>2. vs[1] = [rem |-> r, seen |-> 0] /\ vs \in [1..1 -> Views]
    BY <1>5 DEF Views
  <2>3. vs[1].rem = r /\ vs[1].seen = 0
    BY <2>2
  <2>4. Chain(resp, vs, tok)
    BY <1>6, <1>8, <2>2, <2>3 DEF Chain
  <2>5. ResultsOK(tok, 0)
    <3>1. None \in Identities /\ 0 \in 0..0
      BY DEF Identities
    <3> QED
      BY <1>1, <3>1 DEF ResultsOK
  <2> QED
    BY <1>1, <1>4, <1>8, <2>1, <2>3, <2>4, <2>5 DEF ViewOK
<1>12. WorkerOK(tok, vs)
  <2>1. ~NoWorker.alive
    BY DEF NoWorker, NewWorker
  <2> QED
    BY <1>1, <2>1 DEF WorkerOK
<1>13. Core(tok, vs)
  BY <1>9, <1>10, <1>11, <1>12 DEF Core
<1> QED
  BY <1>13

\* Only Reconnect ends a failure.
LEMMA FailureStays ==
  ASSUME TypeOK, SystemNext, failed, ~failed'
  PROVE  Reconnect /\ UNCHANGED serverVars
<1>1. CASE ServerNext /\ UNCHANGED clientVars
  BY <1>1 DEF clientVars
<1>2. CASE Application /\ UNCHANGED serverVars
  BY <1>2 DEF Application, Subscribe, Unsubscribe, Call, SetAuth, AtSelect
<1>3. CASE ClientTask /\ UNCHANGED serverVars
  BY <1>3 DEF ClientTask, Flush, HandleResponse
<1>4. CASE WsTask \/ WsConnectFails
  BY <1>4 DEF WsTask, WsConnectFails, WsReceive, WsDrain, WsConnect, WsSend, WsReconnect
<1> QED
  BY <1>1, <1>2, <1>3, <1>4 DEF SystemNext

LEMMA NextCore ==
  ASSUME TypeOK, TypeOK', NEW tok, NEW vs, Core(tok, vs), Next
  PROVE  \E tok2, vs2 : Core(tok2, vs2)'
<1>1. SystemNext /\ restarted' = (restarted \/ (failed /\ ~failed')) /\ restarted \in BOOLEAN
  BY DEF Next, TypeOK
<1>2. CASE failed /\ ~failed'
  <2>1. Reconnect /\ UNCHANGED serverVars
    BY <1>1, <1>2, FailureStays
  <2>2. restarted'
    BY <1>1, <1>2
  <2> QED
    BY <2>1, <2>2, ReconnectCore
<1>3. CASE ~(failed /\ ~failed')
  <2>1. restarted' = restarted
    BY <1>1, <1>3
  <2>2. CASE ServerNext /\ UNCHANGED clientVars
    <3>1. LogStep
      BY LogSteps
    <3> QED
      BY <2>1, <2>2, <3>1, ServerNextCore
  <2>3. CASE Application /\ UNCHANGED serverVars
    <3>1. CASE \E t \in Tokens : Subscribe(t)
      BY <2>1, <2>3, <3>1, SubscribeCore
    <3>2. CASE \E t \in Tokens : Unsubscribe(t)
      BY <2>1, <2>3, <3>2, UnsubscribeCore
    <3>3. CASE \E r \in Requests, typ \in RequestTypes : Call(r, typ)
      BY <2>1, <2>3, <3>3, CallCore
    <3>4. CASE \E token \in AuthTokens : SetAuth(token)
      BY <2>1, <2>3, <3>4, SetAuthCore
    <3> QED
      BY <2>3, <3>1, <3>2, <3>3, <3>4 DEF Application
  <2>4. CASE ClientTask /\ UNCHANGED serverVars
    <3>1. CASE Flush
      BY <2>1, <2>4, <3>1, FlushCore
    <3>2. CASE HandleResponse
      BY <2>1, <2>4, <3>2, HandleResponseCore
    <3>3. ~Reconnect
      BY <1>3 DEF Reconnect
    <3> QED
      BY <2>4, <3>1, <3>2, <3>3 DEF ClientTask
  <2>5. CASE WsTask
    BY <2>1, <2>5, WsReceiveCore, WsDrainCore, WsConnectCore, WsSendCore, WsReconnectCore DEF WsTask
  <2>6. CASE WsConnectFails
    BY <2>1, <2>6, WsConnectFailsCore
  <2> QED
    BY <1>1, <2>2, <2>3, <2>4, <2>5, <2>6 DEF SystemNext
<1> QED
  BY <1>2, <1>3

LEMMA SessionInvInductive == SessionInv /\ [Next]_vars => SessionInv'
<1> SUFFICES ASSUME SessionInv, [Next]_vars PROVE SessionInv'
  OBVIOUS
<1>1. TypeOK /\ TypeOK'
  BY NextType DEF SessionInv
<1>2. PICK tok, vs : Core(tok, vs)
  BY DEF SessionInv
<1>3. CASE Next
  BY <1>1, <1>2, <1>3, NextCore DEF SessionInv
<1>4. CASE UNCHANGED vars
  <2>1. UNCHANGED <<clientVars, up, down, restarted>> /\ worker' = worker /\ LogStep
    BY <1>4 DEF vars, systemVars, serverVars, LogStep
  <2>2. Core(tok, vs)'
    BY <1>1, <1>2, <2>1, QuietStep
  <2> QED
    BY <1>1, <2>2 DEF SessionInv
<1> QED
  BY <1>3, <1>4

\* In every reachable state the messages on their way, the server's worker and
\* the client's view fit together: the worker's hashes are those of the view
\* the client will have once it has handled what was sent to it.
THEOREM SessionInvariant == Spec => []SessionInv
<1>1. Init => SessionInv
  BY InitType, InitCore DEF SessionInv
<1> QED
  BY <1>1, SessionInvInductive, PTL DEF Spec

LEMMA ConsistentHere == SessionInv => ConsistentView
<1> SUFFICES ASSUME SessionInv PROVE ConsistentView
  OBVIOUS
<1>1. PICK tok, vs : Core(tok, vs)
  BY DEF SessionInv
<1>2. /\ Good(remote, tok)
      /\ \A t \in Tokens : query_set[t] # None => tok[query_set[t]] = t
  BY <1>1 DEF Core, ViewOK, LocalOK
<1>3. PICK who \in Identities :
        /\ Snapshot(remote, tok, who)
        /\ ~restarted /\ remote.version.identity = identity_version => who = auth_token
  BY <1>2 DEF Good
<1>4. \A t \in SubscribedTokens : query_set[t] \in QueryIds /\ tok[query_set[t]] = t
  BY <1>2 DEF SessionInv, TypeOK, LocalTypeOK, SubscribedTokens, None
<1>5. \A t \in SubscribedTokens : remote.set[query_set[t]] \subseteq {Value(t, who, remote.version.ts)}
  BY <1>3, <1>4 DEF Snapshot
<1>6. ~restarted => Complete(remote)
  BY <1>2 DEF Good
<1> QED
  BY <1>3, <1>5, <1>6 DEF ConsistentView, Complete

\* The results the client holds from its connection are those of all its
\* queries at one timestamp and for one identity, for any number of queries,
\* requests, connections and faults.
THEOREM ViewsConsistent == Spec => []ConsistentView
BY SessionInvariant, ConsistentHere, PTL

-----------------------------------------------------------------------------
(* What a subscriber gets                                                  *)

Monotone == \A q \in QueryIds : \A v \in results[q], w \in results'[q] : v.by = w.by => v.at <= w.at

LEMMA KeptMonotone ==
  ASSUME SessionInv, UNCHANGED results
  PROVE  Monotone
<1>1. PICK tok, vs : Core(tok, vs)
  BY DEF SessionInv
<1>2. PICK n : ResultsOK(tok, n)
  BY <1>1 DEF Core, ViewOK
<1> SUFFICES ASSUME NEW q \in QueryIds, NEW v \in results[q], NEW w \in results[q]
             PROVE  v.at <= w.at
  BY DEF Monotone
<1>3. v = w
  BY <1>2 DEF ResultsOK
<1>4. v.at \in Nat
  BY DEF SessionInv, TypeOK, ViewTypeOK, Values, Timestamps
<1> QED
  BY <1>3, <1>4

LEMMA ReceivedMonotone ==
  ASSUME SessionInv, HandleResponse, UNCHANGED log
  PROVE  Monotone
<1>1. PICK m : m = Head(resp)
  OBVIOUS
<1>2. CASE UNCHANGED results
  BY <1>2, KeptMonotone
<1>3. CASE ReceiveTransition(m) /\ m.start = remote.version
  <2>1. PICK tok, vs : Core(tok, vs)
    BY DEF SessionInv
  <2>2. TypeOK /\ ~failed /\ resp # <<>> /\ resp' = Tail(resp) /\ UNCHANGED <<ws, down>>
    BY DEF SessionInv, HandleResponse
  <2>3. PICK a \in Seq(ServerMessages) : a = Incoming
    BY <2>2, IncomingType
  <2>4. a # <<>> /\ a[1] = m /\ Chain(a, vs, tok) /\ Len(a) \in Nat /\ Len(a) >= 1
    <3>1. a # <<>> /\ a[1] = m
      BY <1>1, <2>2, <2>3, IncomingTail
    <3>2. Len(a) \in Nat /\ Len(a) >= 1
      BY <3>1, EmptySeq, LenProperties
    <3> QED
      BY <2>1, <2>3, <3>1, <3>2 DEF Core, ViewOK
  <2>5. PICK v : v = vs[1]
    OBVIOUS
  <2>6. Link(m, v, vs[2], tok) /\ v \in Views
    <3>1. 1 \in 1..Len(a) /\ 1 \in 1..(Len(a) + 1) /\ 1 + 1 = 2
      BY <2>4
    <3> QED
      BY <2>4, <2>5, <3>1 DEF Chain
  <2>7. /\ m.start = v.rem.version /\ v.seen <= m.end.ts /\ Good(Applied(v.rem, m), tok)
    BY <1>3, <2>6 DEF Link, ReceiveTransition
  <2>8. remote = v.rem /\ ResultsOK(tok, v.seen)
    BY <1>3, <2>1, <2>2, <2>5, <2>7 DEF Core, ViewOK
  <2>9. PICK r : r = Applied(v.rem, m)
    OBVIOUS
  <2>10. remote' = r /\ r.version = m.end
    BY <1>3, <2>8, <2>9 DEF ReceiveTransition, ApplyModifications, Applied
  <2>11. results' = [q \in QueryIds |-> IF q \in SubscribedIds /\ r.set[q] # {} THEN r.set[q] ELSE results[q]]
    BY <1>3, <2>10 DEF ReceiveTransition
  <2>12. Good(r, tok) /\ v.seen <= r.version.ts /\ v.seen \in Nat /\ r.version.ts \in Nat
    BY <2>6, <2>7, <2>9, <2>10, RemoteType DEF Good, Views
  <2>13. PICK who \in Identities : Snapshot(r, tok, who)
    BY <2>12 DEF Good
  <2> SUFFICES ASSUME NEW q \in QueryIds, NEW x \in results[q], NEW y \in results'[q]
               PROVE  x.at <= y.at
    BY DEF Monotone
  <2>14. PICK by \in Identities, ts \in 0..v.seen : x = Value(tok[q], by, ts) /\ \A z \in results[q] : z = x
    BY <2>8 DEF ResultsOK
  <2>15. ts \in Nat /\ ts <= r.version.ts
    BY <2>12
  <2>16. CASE q \in SubscribedIds /\ r.set[q] # {}
    <3>1. y \in r.set[q]
      BY <2>11, <2>16
    <3>2. y = Value(tok[q], who, r.version.ts)
      BY <2>13, <3>1 DEF Snapshot
    <3> QED
      BY <2>12, <2>14, <2>15, <3>2, ValueMonotone
  <2>17. CASE ~(q \in SubscribedIds /\ r.set[q] # {})
    <3>1. y = x
      BY <2>11, <2>14, <2>17
    <3> QED
      BY <2>14, <2>15, <3>1, ValueMonotone
  <2> QED
    BY <2>16, <2>17
<1> QED
  BY <1>1, <1>2, <1>3 DEF HandleResponse, ReceiveTransition, ReceiveResponse, ReceiveFailure, viewVars

LEMMA NextMonotone ==
  ASSUME SessionInv, [Next]_vars
  PROVE  Monotone
<1>1. CASE UNCHANGED results
  BY <1>1, KeptMonotone
<1>2. CASE HandleResponse /\ UNCHANGED serverVars
  BY <1>2, ReceivedMonotone DEF serverVars
<1>3. UNCHANGED results \/ (HandleResponse /\ UNCHANGED serverVars)
  <2>1. CASE UNCHANGED vars
    BY <2>1 DEF vars, systemVars, clientVars, viewVars
  <2>2. CASE ServerNext /\ UNCHANGED clientVars
    BY <2>2 DEF clientVars, viewVars
  <2>3. CASE Application
    BY <2>3 DEF Application, Subscribe, Unsubscribe, Call, SetAuth, viewVars
  <2>4. CASE ClientTask /\ UNCHANGED serverVars
    BY <2>4 DEF ClientTask, Flush, Reconnect, viewVars
  <2>5. CASE WsTask \/ WsConnectFails
    BY <2>5 DEF WsTask, WsConnectFails, WsReceive, WsDrain, WsConnect, WsSend, WsReconnect, viewVars
  <2> QED
    BY <2>1, <2>2, <2>3, <2>4, <2>5 DEF Next, SystemNext
<1> QED
  BY <1>1, <1>2, <1>3

\* A subscriber never gets an older result than it had, over however many
\* connections: HandleResponse applies a Transition only from a worker whose
\* timestamps start at or after those of every result handed out before.
THEOREM ResultsNeverOlder == Spec => ResultsMonotone
<1>1. SessionInv /\ [Next]_vars => [Monotone]_vars
  BY NextMonotone
<1>2. SessionInv /\ [Next]_vars => [\A q \in QueryIds : \A v \in results[q], w \in results'[q] : v.by = w.by => v.at <= w.at]_vars
  BY <1>1 DEF Monotone
<1> QED
  BY <1>2, SessionInvariant, PTL DEF Spec, ResultsMonotone
=============================================================================
