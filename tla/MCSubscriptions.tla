--------------------------- MODULE MCSubscriptions ---------------------------
(* The instance of Subscriptions that TLC checks.                          *)
EXTENDS Subscriptions, TLC

CONSTANTS s1, s2, m1, m2

\* Two regions of the instance with two subscriptions and two managers, each
\* closed under the steps that lead to it: one subscription with everything
\* that can happen to it, and two that share the slab of the one manager that
\* has moved so far.
Explored ==
  \/ sub[s2].phase = "idle"
  \/ /\ ~stopped
     /\ \A s \in Subs : extend[s] = NoExtend
     /\ pc[m2] = "select" /\ queue[m2] = << >>
     /\ processed_ts[m2] = 0 /\ waiter[m2] = "none" /\ next_ts[m2] = 0

==============================================================================
