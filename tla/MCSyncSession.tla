---------------------------- MODULE MCSyncSession ----------------------------
(* The instances of SyncSession that TLC checks.                            *)
EXTENDS SyncSession

CONSTANTS a, b

MCTokens == {a, b}
MCOneToken == {a}
MCOne == 1..1
MCTwo == 1..2
MCThree == 1..3
MCBoth == {"Mutation", "Action"}

called == {r \in Requests : requests[r] # NoRequest}
OthersWrites == Cardinality({i \in DOMAIN log : log[i].req = None})
OneSubscriber == \A t \in Tokens : num_subscribers[t] <= 1
Untouched == identity_version = 0 /\ auth_token = None

\* Regions of the instance with two queries, three requests and an identity,
\* each closed under the steps that lead to it.
\* One connection: queries come and go, shared by subscribers, or the
\* identity changes.
OneConnection ==
  /\ connection <= 1 /\ faults = 0 /\ called = {} /\ OthersWrites <= 1 /\ ~worker.unavailable_retry
  /\ OneSubscriber \/ Untouched

\* Two queries over connections that break, search indexes being available.
Reconnecting ==
  /\ called = {} /\ OneSubscriber /\ Untouched /\ OthersWrites <= 1 /\ connection <= 2
  /\ ~worker.unavailable_retry

\* One query, whose search indexes may be unavailable.
Unavailable ==
  /\ called = {} /\ OneSubscriber /\ Untouched /\ next_query_id <= 2 /\ faults = 0
  /\ connection <= 1

\* Mutations that succeed and actions, over several connections.
Calling ==
  /\ next_query_id = 1 /\ Untouched /\ OthersWrites = 0 /\ faults = 0
  /\ \A i \in DOMAIN worker.mutations : worker.mutations[i].result \in {"none", "Value"}

\* Mutations beside a query, on one connection.
CallingBesideQuery ==
  /\ connection <= 1 /\ faults = 0 /\ OneSubscriber /\ Untouched /\ next_query_id <= 2
  /\ Cardinality(called) <= 2 /\ OthersWrites = 0 /\ ~worker.unavailable_retry
  /\ \A r \in called : requests[r].typ = "Mutation"

Explored == OneConnection \/ Reconnecting \/ Unavailable \/ Calling \/ CallingBesideQuery
==============================================================================
