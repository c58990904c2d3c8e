---------------------------- MODULE MCIndexWorker -----------------------------
(***************************************************************************)
(* The instance of IndexWorker in which TLC looks for a task that copies   *)
(* into an index of retention: indexes 1 and 2 are of one table, 3 is of   *)
(* another.  Shared only keeps TLC near the behaviours in which the backfills *)
(* of 1 and 2 begin at one timestamp.                                      *)
(***************************************************************************)
EXTENDS IndexWorker

MCTablets == <<1, 1, 3>>

Started == {i \in Indexes : index[i].state # "none"}
Initialized == {i \in Indexes : progress[i] # NoCursor}

Shared ==
  /\ 2 \in Started => 1 \in Started
  /\ 3 \in Started => {1, 2} \subseteq Initialized
  /\ {1, 2} \subseteq Initialized => progress[1].snapshot = progress[2].snapshot
  /\ failures > 0 =>
       /\ Started = Indexes
       /\ in_progress_index_ids # {} \/ pending # <<>>
  /\ \A i \in 1..2 : index[i].retention_started => failures = MaxFailures
  /\ Initialized # {} \/ DOMAIN in_progress # {} \/ pc = "poll" \/ Started = {}
===============================================================================
