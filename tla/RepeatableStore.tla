--------------------------- MODULE RepeatableStore ---------------------------
(***************************************************************************)
(* What the commit path promises to readers of persistence: a store of     *)
(* committed transactions whose timestamp order is a serial order, and a   *)
(* repeatable timestamp below which nothing will ever change again.  How   *)
(* many processes write, in what order their writes land and which of      *)
(* them crash is invisible here.                                           *)
(***************************************************************************)
EXTENDS Naturals

VARIABLES documents,      \* the committed transactions
          max_repeatable  \* everything at or below it is final

\* v is the version of key k at timestamp ts in the history docs.
VersionIn(docs, k, ts, v) ==
  /\ v <= ts
  /\ v = 0 \/ \E d \in docs : d.ts = v /\ k \in d.writes
  /\ \A d \in docs : v < d.ts /\ d.ts <= ts => k \notin d.writes

\* Every transaction read what a serial execution in timestamp order reads.
SerialIn(docs) ==
  \A d \in docs : \A k \in d.reads : VersionIn(docs, k, d.ts - 1, d.view[k])

Init == documents = {} /\ max_repeatable = 0

\* A transaction commits above the repeatable timestamp; the history with
\* it, in which later timestamps may already be present, is serial.
Commit ==
  /\ \E d \in documents' :
       /\ documents' = documents \cup {d}
       /\ max_repeatable < d.ts
       /\ \A e \in documents : e.ts # d.ts
  /\ SerialIn(documents')
  /\ UNCHANGED max_repeatable

\* The repeatable timestamp rises.
Advance ==
  /\ max_repeatable' \in Nat
  /\ max_repeatable < max_repeatable'
  /\ UNCHANGED documents

Next == Commit \/ Advance

Spec == Init /\ [][Next]_<<documents, max_repeatable>>

==============================================================================
