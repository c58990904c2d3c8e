----------------------------- MODULE MCCommitter -----------------------------
(* The instances of Committer that TLC checks.                             *)
EXTENDS CommitterInvariant, TLC

\* Keys, transactions and backends are interchangeable.
Symmetry ==
  Permutations(Keys) \cup Permutations(Txns) \cup Permutations(Backends)

==============================================================================
