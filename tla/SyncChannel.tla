----------------------------- MODULE SyncChannel -----------------------------
(***************************************************************************)
(* The WebSocket between a client and its sync worker: the messages of     *)
(* convex/sync_types and the two directions of the one open connection.    *)
(* Messages arrive in order; when the connection closes, a suffix of what  *)
(* was on its way is lost.  Pings, events, log lines and journals are left *)
(* out.                                                                    *)
(***************************************************************************)
EXTENDS Naturals, Sequences, FiniteSets, FiniteSetsExt

CONSTANTS
  Tokens,      \* the queries an application subscribes to: path and arguments
  QueryIds,    \* ids the client gives its subscribed queries, in order
  Requests,    \* sequence numbers of mutations and actions, in order
  AuthTokens,  \* identities the application may set; 0 is none
  MaxTs        \* bound: commits

ASSUME SyncChannelAssumption ==
  /\ IsFiniteSet(Tokens) /\ IsFiniteSet(QueryIds) /\ IsFiniteSet(Requests) /\ MaxTs \in Nat
  /\ QueryIds = 1..Cardinality(QueryIds) /\ Requests = 1..Cardinality(Requests)
  /\ AuthTokens \subseteq Nat \ {0}

VARIABLES
  up,    \* messages on their way to the server
  down   \* messages on their way to the client

None == 0
Timestamps == 0..MaxTs
Identities == AuthTokens \cup {None}

\* A query result: who asked, and the last commit that changed it.
Values == [by : Identities, at : Timestamps]

\* StateVersion: what a client's view reflects.
Versions == [ts : Timestamps, query_set : Nat, identity : Nat]
InitialVersion == [ts |-> 0, query_set |-> 0, identity |-> 0]

(* ClientMessage *)
Connect(session) == [t |-> "Connect", session |-> session]
ModifyQuerySet(base, new, modifications) ==
  [t |-> "ModifyQuerySet", base |-> base, new |-> new, modifications |-> modifications]
Authenticate(base, token) == [t |-> "Authenticate", base |-> base, token |-> token]
Request(typ, req) == [t |-> typ, req |-> req]

AddQuery(id, token) == [op |-> "Add", id |-> id, token |-> token]
RemoveQuery(id, token) == [op |-> "Remove", id |-> id, token |-> token]

(* ServerMessage, and how the stream ends *)
Transition(start, end, updated, removed) ==
  [t |-> "Transition", start |-> start, end |-> end, updated |-> updated, removed |-> removed]
Response(typ, req, result, ts) ==
  [t |-> "Response", typ |-> typ, req |-> req, result |-> result, ts |-> ts]
ErrorMessage == [t |-> "Error"]
CloseFrame == [t |-> "Close"]

\* Function results a mutation may have: a value, an error message, or an
\* application error with data.
Results == {"Value", "ErrorMessage", "ConvexError"}
==============================================================================
