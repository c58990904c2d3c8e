---------------------------- MODULE MCQueryCache -----------------------------
EXTENDS QueryCache, TLC

CONSTANTS r1, r2

==============================================================================
