----------------------------- MODULE MCRetention -----------------------------
(* The instances of Retention that TLC checks.                             *)
EXTENDS Retention, TLC

\* Both delays: everything repeatable may expire at once.
NoDelay == [type \in RetentionTypes |-> 0]

Symmetry == Permutations(Ids) \cup Permutations(Values)

==============================================================================
