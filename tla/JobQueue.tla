------------------------------- MODULE JobQueue -------------------------------
(***************************************************************************)
(* What the scheduler promises about each scheduled job, without an        *)
(* executor, retries, crashes or garbage collection: a mutation takes      *)
(* effect in the very step that marks its job successful, an action starts *)
(* in the step that marks its job in progress, a job runs at most once and *)
(* a job that has ended stays as it ended until it is forgotten.           *)
(***************************************************************************)
EXTENDS Naturals

CONSTANT Jobs

VARIABLES
  status,  \* the state of each job
  runs     \* how often each job's function has taken effect or been started

Terminal == {"Success", "Failed", "Canceled"}

Init ==
  /\ status = [j \in Jobs |-> "none"]
  /\ runs = [j \in Jobs |-> 0]

Become(j, s) == status'[j] = s

\* A job is created waiting, or canceled because its parent was canceled.
Schedule(j) ==
  status[j] = "none" /\ \E s \in {"Pending", "Canceled"} : Become(j, s) /\ runs'[j] = runs[j]

\* A mutation commits its writes and its own completion together; it may have
\* canceled its own job on the way.
RunMutation(j) ==
  status[j] = "Pending" /\ \E s \in {"Success", "Canceled"} : Become(j, s) /\ runs'[j] = runs[j] + 1

StartAction(j) ==
  status[j] = "Pending" /\ Become(j, "InProgress") /\ runs'[j] = runs[j] + 1

EndAction(j) ==
  status[j] = "InProgress" /\ \E s \in Terminal : Become(j, s) /\ runs'[j] = runs[j]

\* A job that never ran: canceled, or failed without any effect.
GiveUp(j) ==
  status[j] = "Pending" /\ \E s \in {"Failed", "Canceled"} : Become(j, s) /\ runs'[j] = runs[j]

Forget(j) ==
  status[j] \in Terminal /\ Become(j, "Deleted") /\ runs'[j] = runs[j]

Move(j) ==
  \/ Schedule(j) \/ RunMutation(j) \/ StartAction(j)
  \/ EndAction(j) \/ GiveUp(j) \/ Forget(j)

\* One transaction may move several jobs: a mutation schedules and cancels
\* others, a cancellation or a collection covers a batch.
Next ==
  /\ status' \in [Jobs -> Terminal \cup {"none", "Pending", "InProgress", "Deleted"}]
  /\ runs' \in [Jobs -> Nat]
  /\ \A j \in Jobs : Move(j) \/ (Become(j, status[j]) /\ runs'[j] = runs[j])

Spec == Init /\ [][Next]_<<status, runs>>
===============================================================================
