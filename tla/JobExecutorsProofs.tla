-------------------------- MODULE JobExecutorsProofs ---------------------------
(***************************************************************************)
(* What ScheduledJobs and CronJobs promise for any number of jobs and cron *)
(* jobs, any parallelism, retention and batch size, and any number of      *)
(* crashes, failed transactions, deployments and stops of the backend.     *)
(*                                                                         *)
(* The argument for jobs: a transaction moves the document of each job     *)
(* along one of the edges of JobStep, whoever runs it and whatever it read *)
(* before.  Everything said about effects follows from that graph.         *)
(*                                                                         *)
(* The argument for cron jobs: the ticks that have run are those up to the *)
(* previous run, and the one in progress; every step that ends a run moves *)
(* the previous run on and accounts for what it jumps over.                *)
(***************************************************************************)
EXTENDS JobExecutors, FiniteSetTheorems, WellFoundedInduction, TLAPS

USE ScheduledJobsAssumption

\* A document that the two indexes of the table can find (types.rs).
GoodDoc(doc) ==
  /\ doc \in MetadataType
  /\ doc.next_ts # None <=> doc.state \in Live
  /\ doc.completed_ts # None <=> doc.state \in Terminal

Tables == {table \in [Jobs -> MetadataType] : \A j \in Jobs : GoodDoc(table[j])}

-------------------------------------------------------------------------------
(* What the operations of SchedulerModel do to documents.                  *)

LEMMA TypeOKTables ==
  ASSUME TypeOK
  PROVE  /\ jobs \in Tables /\ now \in Timestamps
         /\ \A j \in Jobs : GoodDoc(jobs[j])
BY DEF TypeOK, Tables, GoodDoc

LEMMA CompleteDoc ==
  ASSUME NEW doc, GoodDoc(doc), NEW state \in Terminal, NEW ts \in Timestamps
  PROVE  /\ GoodDoc(Complete(doc, state, ts))
         /\ Complete(doc, state, ts).state = IF doc.state \in Live THEN state ELSE doc.state
<1>1. CASE doc.state \in Live
  <2> DEFINE new == [doc EXCEPT !.state = state, !.next_ts = None, !.completed_ts = ts]
  <2>1. Complete(doc, state, ts) = new
    BY <1>1 DEF Complete
  <2>2. new \in MetadataType /\ new.state = state /\ new.next_ts = None /\ new.completed_ts = ts
    BY DEF GoodDoc, MetadataType, Terminal, None
  <2>3. state \notin Live /\ ts # None
    BY DEF Terminal, Live, None, Timestamps
  <2> QED
    BY <1>1, <2>1, <2>2, <2>3 DEF GoodDoc
<1>2. CASE doc.state \notin Live
  BY <1>2 DEF Complete
<1> QED
  BY <1>1, <1>2

LEMMA CancelTable ==
  ASSUME NEW table \in Tables, NEW ids, NEW ts \in Timestamps
  PROVE  /\ CancelJobs(table, ids, ts) \in Tables
         /\ \A j \in Jobs :
              CancelJobs(table, ids, ts)[j].state
                = IF j \in ids /\ table[j].state \in Live THEN "Canceled" ELSE table[j].state
<1>1. ASSUME NEW j \in Jobs
      PROVE  /\ GoodDoc(CancelJobs(table, ids, ts)[j])
             /\ CancelJobs(table, ids, ts)[j].state
                  = IF j \in ids /\ table[j].state \in Live THEN "Canceled" ELSE table[j].state
  <2>1. GoodDoc(table[j])
    BY DEF Tables
  <2>2. "Canceled" \in Terminal
    BY DEF Terminal
  <2>3. CASE j \in ids /\ table[j].state \in Live
    BY <2>1, <2>2, <2>3, CompleteDoc DEF CancelJobs
  <2>4. CASE ~(j \in ids /\ table[j].state \in Live)
    BY <2>1, <2>4 DEF CancelJobs
  <2> QED
    BY <2>3, <2>4
<1>2. CancelJobs(table, ids, ts) = [j \in Jobs |-> CancelJobs(table, ids, ts)[j]]
  BY DEF CancelJobs
<1>3. CancelJobs(table, ids, ts) \in [Jobs -> MetadataType]
  BY <1>1, <1>2 DEF GoodDoc
<1> QED
  BY <1>1, <1>3 DEF Tables

LEMMA NewJobDoc ==
  ASSUME NEW table \in Tables, NEW parent \in Jobs \cup {None}, NEW ts \in Timestamps,
         NEW begin \in Timestamps
  PROVE  /\ GoodDoc(NewJob(table, parent, ts, begin))
         /\ NewJob(table, parent, ts, begin).state \in {"Pending", "Canceled"}
BY DEF NewJob, Metadata, GoodDoc, MetadataType, Terminal, Live, None, Timestamps

LEMMA ReplaceDoc ==
  ASSUME NEW table \in Tables, NEW j \in Jobs, NEW doc, GoodDoc(doc)
  PROVE  /\ [table EXCEPT ![j] = doc] \in Tables
         /\ \A k \in Jobs : [table EXCEPT ![j] = doc][k] = IF k = j THEN doc ELSE table[k]
BY DEF Tables, GoodDoc
-------------------------------------------------------------------------------
(* The inductive invariant.                                                *)

\* A task runs with a document that was waiting or in progress when it was
\* read; while the action itself runs, it is the one marked in progress.
TasksHoldLive ==
  \A j \in Jobs :
    /\ task[j].phase # "idle" => task[j].job.state \in Live
    /\ task[j].phase \in {"action", "complete"} => task[j].job.state = "InProgress"
    /\ task[j].phase = "mutation" => task[j].begin \in Timestamps

\* The state of a job tells how often its function has been run.
StateTellsRuns ==
  \A j \in Jobs :
    /\ jobs[j].state \in {"none", "Pending"} => started[j] = 0 /\ committed[j] = 0
    /\ jobs[j].state = "InProgress" => started[j] = 1 /\ committed[j] = 0
    /\ started[j] <= 1 /\ committed[j] <= 1
    /\ jobs[j].state = "Success" => started[j] + committed[j] >= 1

\* A canceled job stays canceled until it is collected.
CanceledStays == \A j \in canceled : jobs[j].state \in {"Canceled", "Deleted"}

JobsInv == TypeOK /\ TasksHoldLive /\ StateTellsRuns /\ CanceledStays /\ FailedForCause

\* A mutation is run for a job that has no effect yet.
MutationsArePending ==
  \A j \in Jobs : task[j].phase \in {"mutation", "fail"} => task[j].job.state = "Pending"

-------------------------------------------------------------------------------
(* The edges along which a step may move a job.                            *)

SameRuns(j) == started'[j] = started[j] /\ committed'[j] = committed[j]

\* The one edge that JobQueue does not have: an action in progress whose
\* function has been redeployed is run once more, as a mutation.
LateMutation(j) ==
  /\ jobs[j].state = "InProgress" /\ jobs'[j].state \in {"Success", "Canceled"}
  /\ started'[j] = started[j] /\ committed'[j] = committed[j] + 1
  /\ InPhase(j, "mutation") /\ task[j].job.state = "InProgress"

JobStep(j) ==
  \/ jobs'[j].state = jobs[j].state /\ SameRuns(j)
  \/ jobs[j].state = "none" /\ jobs'[j].state \in {"Pending", "Canceled"} /\ SameRuns(j)
  \/ /\ jobs[j].state = "Pending" /\ jobs'[j].state \in {"Success", "Canceled"}
     /\ started'[j] = started[j] /\ committed'[j] = committed[j] + 1
  \/ /\ jobs[j].state = "Pending" /\ jobs'[j].state = "InProgress"
     /\ started'[j] = started[j] + 1 /\ committed'[j] = committed[j]
  \/ jobs[j].state = "InProgress" /\ jobs'[j].state \in Terminal /\ SameRuns(j)
  \/ jobs[j].state = "Pending" /\ jobs'[j].state = "Canceled" /\ SameRuns(j)
  \/ /\ jobs[j].state = "Pending" /\ jobs'[j].state = "Failed" /\ SameRuns(j)
     /\ j \in blamed'
  \/ jobs[j].state \in Terminal /\ jobs'[j].state = "Deleted" /\ SameRuns(j)
  \/ LateMutation(j)

\* What a step does to the table, its jobs and the history.
TableStep ==
  /\ jobs' \in Tables
  /\ \A j \in Jobs : JobStep(j)
  /\ started' \in [Jobs -> Nat] /\ committed' \in [Jobs -> Nat]
  /\ canceled' \subseteq canceled \cup {j \in Jobs : jobs'[j].state = "Canceled"}
  /\ blamed \subseteq blamed' /\ blamed' \subseteq Jobs

\* A step that leaves documents and history alone.
LEMMA UnchangedTableStep ==
  ASSUME TypeOK, UNCHANGED <<jobs, historyVars>>
  PROVE  TableStep
BY TypeOKTables DEF TypeOK, TableStep, JobStep, SameRuns, historyVars

\* A transaction that moves documents without running a function.
LEMMA QuietCommit ==
  ASSUME TypeOK, NEW table \in Tables, Commit(table), UNCHANGED <<started, committed>>,
         blamed \subseteq blamed', blamed' \subseteq Jobs,
         \A j \in Jobs :
           \/ table[j].state = jobs[j].state
           \/ jobs[j].state = "none" /\ table[j].state \in {"Pending", "Canceled"}
           \/ jobs[j].state = "InProgress" /\ table[j].state \in Terminal
           \/ jobs[j].state = "Pending" /\ table[j].state = "Canceled"
           \/ jobs[j].state = "Pending" /\ table[j].state = "Failed" /\ j \in blamed'
           \/ jobs[j].state \in Terminal /\ table[j].state = "Deleted"
  PROVE  TableStep
BY DEF TypeOK, TableStep, JobStep, SameRuns, Commit

LEMMA CancelJobsStep ==
  ASSUME TypeOK, NEW ids, Commit(CancelJobs(jobs, ids, now)), UNCHANGED <<started, committed, blamed>>
  PROVE  TableStep
<1>1. jobs \in Tables /\ now \in Timestamps
  BY TypeOKTables
<1>2. CancelJobs(jobs, ids, now) \in Tables
  BY <1>1, CancelTable
<1>3. \A j \in Jobs : \/ CancelJobs(jobs, ids, now)[j].state = jobs[j].state
                      \/ jobs[j].state \in Live /\ CancelJobs(jobs, ids, now)[j].state = "Canceled"
  BY <1>1, CancelTable
<1> QED
  BY <1>2, <1>3, QuietCommit DEF TypeOK, Live, Terminal

LEMMA ScheduleStep ==
  ASSUME TypeOK, NEW j \in Jobs, NEW parent \in Jobs \cup {None}, NEW ts \in Timestamps,
         Schedule(j, parent, ts)
  PROVE  TableStep
<1>1. jobs \in Tables /\ now \in Timestamps
  BY TypeOKTables
<1> DEFINE doc == NewJob(jobs, parent, ts, now)
<1>2. GoodDoc(doc) /\ doc.state \in {"Pending", "Canceled"}
  BY <1>1, NewJobDoc
<1> HIDE DEF doc
<1>3. /\ [jobs EXCEPT ![j] = doc] \in Tables
      /\ \A k \in Jobs : [jobs EXCEPT ![j] = doc][k] = IF k = j THEN doc ELSE jobs[k]
  BY <1>1, <1>2, ReplaceDoc
<1>4. jobs[j].state = "none"
  BY DEF Schedule, Absent, Metadata
<1>5. Commit([jobs EXCEPT ![j] = doc]) /\ UNCHANGED <<started, committed, blamed>>
  BY DEF Schedule, doc
<1> QED
  BY <1>2, <1>3, <1>4, <1>5, QuietCommit DEF TypeOK

\* Why a job may be ended: it is in progress, or its function is to blame.
MayEnd(j, state) == jobs[j].state = "InProgress" \/ (state = "Failed" /\ j \in blamed')

LEMMA CompleteAsStep ==
  ASSUME TypeOK, NEW j \in Jobs, NEW state \in {"Success", "Failed"}, CompleteAs(j, state),
         started' = started, committed' = committed,
         blamed \subseteq blamed', blamed' \subseteq Jobs,
         MayEnd(j, state)
  PROVE  TableStep
<1>1. jobs \in Tables /\ now \in Timestamps /\ GoodDoc(jobs[j])
  BY TypeOKTables
<1> DEFINE doc == Complete(jobs[j], state, now)
<1>2. /\ GoodDoc(doc) /\ state \in Terminal
      /\ doc.state = IF jobs[j].state \in Live THEN state ELSE jobs[j].state
  BY <1>1, CompleteDoc DEF Terminal
<1> HIDE DEF doc
<1>3. /\ [jobs EXCEPT ![j] = doc] \in Tables
      /\ \A k \in Jobs : [jobs EXCEPT ![j] = doc][k] = IF k = j THEN doc ELSE jobs[k]
  BY <1>1, <1>2, ReplaceDoc
<1>4. Commit([jobs EXCEPT ![j] = doc])
  BY DEF CompleteAs, doc
<1> QED
  BY <1>2, <1>3, <1>4, QuietCommit DEF Live, MayEnd

LEMMA RetryStep ==
  ASSUME TypeOK, NEW j \in Jobs, NEW ts \in Timestamps, jobs[j].state \in Live,
         Commit([jobs EXCEPT ![j] = Retried(j, ts)]), UNCHANGED <<started, committed, blamed>>
  PROVE  TableStep
<1>1. jobs \in Tables /\ GoodDoc(jobs[j])
  BY TypeOKTables
<1>2. Retried(j, ts) \in MetadataType /\ Retried(j, ts).next_ts = ts
      /\ Retried(j, ts).state = jobs[j].state /\ Retried(j, ts).completed_ts = jobs[j].completed_ts
  <2> DEFINE doc == jobs[j]
             n == doc.attempts + 1
             new == [doc EXCEPT !.attempts = n, !.next_ts = ts]
  <2>1. doc \in MetadataType
    BY <1>1 DEF GoodDoc
  <2>2. n \in Nat
    BY <2>1 DEF MetadataType
  <2>3. Retried(j, ts) = new
    BY <2>1 DEF Retried, MetadataType
  <2> HIDE DEF n
  <2> HIDE DEF doc
  <2>4. /\ new \in MetadataType /\ new.next_ts = ts
        /\ new.state = doc.state /\ new.completed_ts = doc.completed_ts
    BY <2>1, <2>2 DEF MetadataType
  <2> QED
    BY <2>3, <2>4 DEF doc
<1>3. ts # None
  BY DEF Timestamps, None
<1>4. GoodDoc(Retried(j, ts))
  BY <1>1, <1>2, <1>3 DEF GoodDoc
<1>5. /\ [jobs EXCEPT ![j] = Retried(j, ts)] \in Tables
      /\ \A k \in Jobs : [jobs EXCEPT ![j] = Retried(j, ts)][k] = IF k = j THEN Retried(j, ts) ELSE jobs[k]
  BY <1>1, <1>4, ReplaceDoc
<1> QED
  BY <1>2, <1>5, QuietCommit DEF TypeOK

\* What a mutation's transaction may write: its own job ends, as a success or
\* canceled by itself; a job that did not exist is created, others are canceled.
LEMMA MutationWritesTable ==
  ASSUME TypeOK, NEW j \in Jobs, jobs[j].state \in Live, task[j].begin \in Timestamps,
         NEW table \in MutationWrites(j)
  PROVE  /\ table \in Tables /\ table[j].state \in {"Success", "Canceled"}
         /\ \A k \in Jobs \ {j} :
              \/ table[k].state = jobs[k].state
              \/ jobs[k].state = "none" /\ table[k].state \in {"Pending", "Canceled"}
              \/ jobs[k].state \in Live /\ table[k].state = "Canceled"
<1> DEFINE Others(t) == \A k \in Jobs \ {j} :
              \/ t[k].state = jobs[k].state
              \/ jobs[k].state = "none" /\ t[k].state \in {"Pending", "Canceled"}
              \/ jobs[k].state \in Live /\ t[k].state = "Canceled"
           Begun(t) == t \in Tables /\ t[j].state \in Live \cup {"Canceled"} /\ Others(t)
<1>1. jobs \in Tables /\ now \in Timestamps
  BY TypeOKTables
<1>2. ASSUME NEW t, Begun(t)
      PROVE  Done(j, t) \in Tables /\ Done(j, t)[j].state \in {"Success", "Canceled"} /\ Others(Done(j, t))
  <2> DEFINE doc == Complete(t[j], "Success", task[j].begin)
  <2>1. GoodDoc(t[j]) /\ "Success" \in Terminal
    BY <1>2 DEF Tables, Terminal
  <2>2. GoodDoc(doc) /\ doc.state = IF t[j].state \in Live THEN "Success" ELSE t[j].state
    BY <2>1, CompleteDoc
  <2> HIDE DEF doc
  <2>3. /\ [t EXCEPT ![j] = doc] \in Tables
        /\ \A k \in Jobs : [t EXCEPT ![j] = doc][k] = IF k = j THEN doc ELSE t[k]
    BY <1>2, <2>2, ReplaceDoc
  <2>4. Done(j, t) = [t EXCEPT ![j] = doc]
    BY DEF doc, Done
  <2> QED
    BY <1>2, <2>2, <2>3, <2>4
<1>3. ASSUME NEW ids PROVE Begun(Canceling(j, jobs, ids))
  <2>1. /\ Canceling(j, jobs, ids) \in Tables
        /\ \A k \in Jobs : Canceling(j, jobs, ids)[k].state
                             = IF k \in ids /\ jobs[k].state \in Live THEN "Canceled" ELSE jobs[k].state
    BY <1>1, CancelTable DEF Canceling
  <2> QED
    BY <2>1
<1>4. ASSUME NEW t, Begun(t), NEW c \in Jobs, c # j, jobs[c].state = "none"
      PROVE  Begun(FollowUp(j, t, c))
  <2> DEFINE doc == NewJob(t, j, now, task[j].begin)
  <2>1. GoodDoc(doc) /\ doc.state \in {"Pending", "Canceled"}
    BY <1>1, <1>4, NewJobDoc
  <2> HIDE DEF doc
  <2>2. /\ [t EXCEPT ![c] = doc] \in Tables
        /\ \A k \in Jobs : [t EXCEPT ![c] = doc][k] = IF k = c THEN doc ELSE t[k]
    <3>1. t \in Tables /\ GoodDoc(doc)
      BY <1>4, <2>1
    <3> QED
      BY <3>1, ReplaceDoc
  <2>3. FollowUp(j, t, c) = [t EXCEPT ![c] = doc]
    BY DEF doc, FollowUp
  <2> QED
    BY <1>4, <2>1, <2>2, <2>3
<1>5. ASSUME NEW t, Begun(t), NEW ids PROVE Begun(Canceling(j, t, ids))
  <2>1. t \in Tables
    BY <1>5
  <2>2. /\ Canceling(j, t, ids) \in Tables
        /\ \A k \in Jobs : Canceling(j, t, ids)[k].state
                             = IF k \in ids /\ t[k].state \in Live THEN "Canceled" ELSE t[k].state
    BY <1>1, <2>1, CancelTable DEF Canceling
  <2>3. ASSUME NEW k \in Jobs
        PROVE  \/ Canceling(j, t, ids)[k].state = t[k].state
               \/ t[k].state \in Live /\ Canceling(j, t, ids)[k].state = "Canceled"
    BY <2>2
  <2>4. Canceling(j, t, ids)[j].state \in Live \cup {"Canceled"}
    BY <1>5, <2>3
  <2>5. Others(Canceling(j, t, ids))
    <3> SUFFICES ASSUME NEW k \in Jobs \ {j}
                 PROVE  \/ Canceling(j, t, ids)[k].state = jobs[k].state
                        \/ jobs[k].state = "none" /\ Canceling(j, t, ids)[k].state \in {"Pending", "Canceled"}
                        \/ jobs[k].state \in Live /\ Canceling(j, t, ids)[k].state = "Canceled"
      OBVIOUS
    <3>1. \/ t[k].state = jobs[k].state
          \/ jobs[k].state = "none" /\ t[k].state \in {"Pending", "Canceled"}
          \/ jobs[k].state \in Live /\ t[k].state = "Canceled"
      BY <1>5
    <3> QED
      BY <2>3, <3>1
  <2> QED
    BY <2>2, <2>4, <2>5
<1>6. Begun(jobs)
  BY <1>1
<1>7. \A c \in Unused : c \in Jobs /\ c # j /\ jobs[c].state = "none"
  BY DEF Absent, Metadata, Live, Unused
<1>8. \/ \E ids \in SUBSET Jobs : table = Done(j, Canceling(j, jobs, ids))
      \/ \E ids \in SUBSET Jobs, c \in Unused : table = Done(j, FollowUp(j, Canceling(j, jobs, ids), c))
      \/ \E ids \in SUBSET Jobs, c \in Unused : table = Done(j, Canceling(j, FollowUp(j, jobs, c), ids))
  <2>1. CASE table \in {Done(j, Canceling(j, jobs, ids)) : ids \in {{}} \cup {{k} : k \in Cancelable(j)}}
    BY <2>1 DEF Cancelable
  <2>2. CASE table \in {Done(j, FollowUp(j, Canceling(j, jobs, ids), c)) : ids \in {{}, {j}}, c \in Unused}
    BY <2>2
  <2>3. CASE table \in {Done(j, Canceling(j, FollowUp(j, jobs, c), ids)) : ids \in {{}, {j}}, c \in Unused}
    BY <2>3
  <2> QED
    BY <2>1, <2>2, <2>3 DEF MutationWrites
<1> HIDE DEF Begun, Others
<1>9. \E t : Begun(t) /\ table = Done(j, t)
  <2>1. CASE \E ids \in SUBSET Jobs : table = Done(j, Canceling(j, jobs, ids))
    BY <1>3, <2>1
  <2>2. CASE \E ids \in SUBSET Jobs, c \in Unused : table = Done(j, FollowUp(j, Canceling(j, jobs, ids), c))
    BY <1>3, <1>4, <1>7, <2>2
  <2>3. CASE \E ids \in SUBSET Jobs, c \in Unused : table = Done(j, Canceling(j, FollowUp(j, jobs, c), ids))
    BY <1>4, <1>5, <1>6, <1>7, <2>3
  <2> QED
    BY <1>8, <2>1, <2>2, <2>3
<1>10. table \in Tables /\ table[j].state \in {"Success", "Canceled"} /\ Others(table)
  BY <1>2, <1>9
<1> QED
  BY <1>10 DEF Others

LEMMA CommitMutationStep ==
  ASSUME TypeOK, TasksHoldLive, NEW j \in Jobs, CommitMutation(j)
  PROVE  TableStep
<1>1. CASE To(j, "retry") /\ UnchangedTable
  BY <1>1, UnchangedTableStep DEF UnchangedTable
<1>2. CASE /\ Validated(j) /\ \E table \in MutationWrites(j) : Commit(table)
           /\ committed' = [committed EXCEPT ![j] = @ + 1] /\ UNCHANGED <<started, blamed>>
  <2>1. PICK table \in MutationWrites(j) : Commit(table)
    BY <1>2
  <2>2. /\ InPhase(j, "mutation") /\ jobs[j].state = task[j].job.state
        /\ jobs[j].state \in Live /\ task[j].begin \in Timestamps
    BY <1>2 DEF CommitMutation, InPhase, Validated, Matches, TasksHoldLive
  <2>3. /\ table \in Tables /\ table[j].state \in {"Success", "Canceled"}
        /\ \A k \in Jobs \ {j} :
              \/ table[k].state = jobs[k].state
              \/ jobs[k].state = "none" /\ table[k].state \in {"Pending", "Canceled"}
              \/ jobs[k].state \in Live /\ table[k].state = "Canceled"
    BY <2>2, MutationWritesTable
  <2>4. /\ committed' \in [Jobs -> Nat] /\ committed'[j] = committed[j] + 1
        /\ \A k \in Jobs \ {j} : committed'[k] = committed[k]
    BY <1>2 DEF TypeOK
  <2>5. JobStep(j)
    BY <1>2, <2>1, <2>2, <2>3, <2>4 DEF JobStep, LateMutation, Commit, Live
  <2>6. ASSUME NEW k \in Jobs \ {j} PROVE JobStep(k)
    BY <1>2, <2>1, <2>3, <2>4, <2>6 DEF JobStep, SameRuns, Commit, Live, Terminal
  <2> QED
    BY <1>2, <2>1, <2>3, <2>4, <2>5, <2>6 DEF TableStep, Commit, TypeOK
<1> QED
  BY <1>1, <1>2 DEF CommitMutation

LEMMA HandleActionStep ==
  ASSUME TypeOK, NEW j \in Jobs, HandleAction(j)
  PROVE  TableStep
<1>1. CASE StateChanged(j)
  BY <1>1, UnchangedTableStep DEF StateChanged, UnchangedTable
<1>2. CASE /\ jobs[j].state = "Pending"
           /\ Commit([jobs EXCEPT ![j] = [jobs[j] EXCEPT !.state = "InProgress"]])
           /\ started' = [started EXCEPT ![j] = @ + 1]
           /\ UNCHANGED <<job_finished, committed, blamed>>
  <2> DEFINE doc == [jobs[j] EXCEPT !.state = "InProgress"]
  <2>1. jobs \in Tables /\ GoodDoc(jobs[j])
    BY TypeOKTables
  <2>2. GoodDoc(doc) /\ doc.state = "InProgress"
    BY <1>2, <2>1 DEF GoodDoc, MetadataType, Live, Terminal
  <2> HIDE DEF doc
  <2>3. /\ [jobs EXCEPT ![j] = doc] \in Tables
        /\ \A k \in Jobs : [jobs EXCEPT ![j] = doc][k] = IF k = j THEN doc ELSE jobs[k]
    <3>1. jobs \in Tables /\ GoodDoc(doc)
      BY <2>1, <2>2
    <3> QED
      BY <3>1, ReplaceDoc
  <2>4. jobs' = [jobs EXCEPT ![j] = doc]
        /\ canceled' = canceled \cup {k \in Jobs : [jobs EXCEPT ![j] = doc][k].state = "Canceled"}
    BY <1>2 DEF Commit, doc
  <2>5. /\ started' \in [Jobs -> Nat] /\ started'[j] = started[j] + 1
        /\ \A k \in Jobs \ {j} : started'[k] = started[k]
    BY <1>2 DEF TypeOK
  <2>6. ASSUME NEW k \in Jobs PROVE JobStep(k)
    BY <1>2, <2>2, <2>3, <2>4, <2>5 DEF JobStep, SameRuns
  <2> QED
    BY <1>2, <2>3, <2>4, <2>5, <2>6 DEF TableStep, TypeOK
<1>3. CASE jobs[j].state = "InProgress" /\ CompleteAs(j, "Failed") /\ UNCHANGED <<started, committed, blamed>>
  <2>1. /\ blamed \subseteq blamed' /\ blamed' \subseteq Jobs
        /\ started' = started /\ committed' = committed
    BY <1>3 DEF TypeOK
  <2>2. MayEnd(j, "Failed") /\ CompleteAs(j, "Failed")
    BY <1>3 DEF MayEnd
  <2> QED
    BY <2>1, <2>2, CompleteAsStep
<1> QED
  BY <1>1, <1>2, <1>3, Zenon DEF HandleAction

LEMMA CollectGarbageStep ==
  ASSUME TypeOK, CollectGarbage
  PROVE  TableStep
<1>1. PICK ids \in SUBSET Jobs :
        /\ IsFirst(ids, Collectable, BatchSize, CompletedTs)
        /\ Commit([j \in Jobs |-> IF j \in ids THEN Deleted ELSE jobs[j]])
        /\ UNCHANGED <<started, committed, blamed>>
  BY DEF CollectGarbage
<1> DEFINE table == [j \in Jobs |-> IF j \in ids THEN Deleted ELSE jobs[j]]
<1>2. jobs \in Tables
  BY TypeOKTables
<1>3. \A j \in ids : jobs[j].state \in Terminal
  BY <1>1, TypeOKTables DEF IsFirst, Collectable, CompletedTs, GoodDoc
<1>4. GoodDoc(Deleted) /\ Deleted.state = "Deleted"
  BY DEF Deleted, Metadata, GoodDoc, MetadataType, Live, Terminal, None
<1>5. table \in Tables
  BY <1>2, <1>4 DEF Tables, GoodDoc
<1>6. \A j \in Jobs : \/ table[j].state = jobs[j].state
                      \/ jobs[j].state \in Terminal /\ table[j].state = "Deleted"
  BY <1>3, <1>4
<1> HIDE DEF table
<1>7. Commit(table)
  BY <1>1 DEF table
<1> QED
  BY <1>1, <1>5, <1>6, <1>7, QuietCommit DEF TypeOK

\* Every step of the system is a step of the table.
LEMMA NextTableStep ==
  ASSUME TypeOK, TasksHoldLive, [Next]_vars
  PROVE  TableStep
<1>1. CASE UNCHANGED <<jobs, historyVars>>
  BY <1>1, UnchangedTableStep
<1>2. CASE RunOnce \/ Wake \/ Crash \/ StopBackend \/ StartBackend \/ Tick \/ UNCHANGED vars
  BY <1>1, <1>2 DEF RunOnce, Wake, Crash, StopBackend, StartBackend, Tick, vars, tableVars
<1>3. CASE CancelAll
  BY <1>3, CancelJobsStep DEF CancelAll
<1>4. CASE CollectGarbage
  BY <1>4, CollectGarbageStep
<1>5. ASSUME NEW j \in Jobs, ClientSchedules(j) PROVE TableStep
  <2>1. now \in Timestamps
    BY DEF TypeOK
  <2>2. PICK ts \in ScheduleTimes : Schedule(j, None, ts)
    BY <1>5 DEF ClientSchedules
  <2>3. ts \in Timestamps
    BY <2>1 DEF ScheduleTimes, Timestamps
  <2> QED
    BY <2>2, <2>3, ScheduleStep
<1>6. ASSUME NEW j \in Jobs, ActionSchedules(j) PROVE TableStep
  <2>1. now \in Timestamps
    BY DEF TypeOK
  <2>2. PICK parent \in Jobs : Schedule(j, parent, now)
    BY <1>6 DEF ActionSchedules
  <2> QED
    BY <2>1, <2>2, ScheduleStep
<1>7. ASSUME NEW j \in Jobs, Cancel(j) PROVE TableStep
  BY <1>7, CancelJobsStep DEF Cancel
<1>8. ASSUME NEW j \in Jobs, StateChanged(j) PROVE TableStep
  BY <1>1, <1>8 DEF StateChanged, UnchangedTable
<1>9. ASSUME NEW j \in Jobs, CompleteAs(j, "Failed"), blamed' = blamed \cup {j},
             UNCHANGED <<started, committed>>
      PROVE  TableStep
  <2>1. blamed \subseteq blamed' /\ blamed' \subseteq Jobs /\ MayEnd(j, "Failed")
    BY <1>9 DEF TypeOK, MayEnd
  <2> QED
    BY <1>9, <2>1, CompleteAsStep
<1>10. ASSUME NEW j \in Jobs, RunFunction(j) PROVE TableStep
  BY <1>1, <1>8, <1>9, <1>10 DEF RunFunction, UnchangedTable
<1>11. ASSUME NEW j \in Jobs, FailMutation(j) PROVE TableStep
  BY <1>8, <1>9, <1>11 DEF FailMutation
<1>12. ASSUME NEW j \in Jobs, MutationThrows(j) \/ ActionReturns(j) \/ TaskFails(j)
       PROVE  TableStep
  BY <1>1, <1>12 DEF MutationThrows, ActionReturns, TaskFails, UnchangedTable
<1>13. ASSUME NEW j \in Jobs, CompleteAction(j) PROVE TableStep
  <2>1. CASE UnchangedTable
    BY <1>1, <2>1 DEF UnchangedTable
  <2>2. CASE /\ Matches(j) /\ CompleteAs(j, IF task[j].ok THEN "Success" ELSE "Failed")
             /\ blamed' = (IF task[j].ok THEN blamed ELSE blamed \cup {j})
             /\ UNCHANGED <<started, committed>>
    <3>1. jobs[j].state = "InProgress"
      BY <1>13, <2>2 DEF CompleteAction, InPhase, Matches, TasksHoldLive
    <3>2. blamed \subseteq blamed' /\ blamed' \subseteq Jobs
      BY <2>2 DEF TypeOK
    <3> DEFINE state == IF task[j].ok THEN "Success" ELSE "Failed"
    <3>3. /\ state \in {"Success", "Failed"} /\ CompleteAs(j, state)
           /\ started' = started /\ committed' = committed
      BY <2>2
    <3>4. MayEnd(j, state)
      BY <3>1 DEF MayEnd
    <3> HIDE DEF state
    <3> QED
      BY <3>2, <3>3, <3>4, CompleteAsStep
  <2> QED
    BY <1>13, <2>1, <2>2 DEF CompleteAction
<1>14. ASSUME NEW j \in Jobs, ScheduleRetry(j) PROVE TableStep
  <2>1. CASE UnchangedTable
    BY <1>1, <2>1 DEF UnchangedTable
  <2>2. CASE /\ Matches(j) /\ UNCHANGED <<started, committed, blamed>>
             /\ \E ts \in now..(IF now < MaxTs THEN now + 1 ELSE now) :
                  Commit([jobs EXCEPT ![j] = Retried(j, ts)])
    <3>1. PICK ts \in now..(IF now < MaxTs THEN now + 1 ELSE now) :
                  Commit([jobs EXCEPT ![j] = Retried(j, ts)])
      BY <2>2
    <3>2. ts \in Timestamps
      BY DEF TypeOK, Timestamps
    <3>3. jobs[j].state \in Live
      BY <1>14, <2>2 DEF ScheduleRetry, InPhase, Matches, TasksHoldLive
    <3> QED
      BY <2>2, <3>1, <3>2, <3>3, RetryStep
  <2> QED
    BY <1>14, <2>1, <2>2 DEF ScheduleRetry
<1>15. ASSUME NEW j \in Jobs, NEW type \in FunctionTypes, Push(j, type) PROVE TableStep
  BY <1>1, <1>15 DEF Push
<1>16. ASSUME NEW j \in Jobs, TaskStep(j) PROVE TableStep
  BY <1>10, <1>11, <1>12, <1>13, <1>14, <1>16, CommitMutationStep, HandleActionStep DEF TaskStep
<1> QED
  BY <1>2, <1>3, <1>4, <1>5, <1>6, <1>7, <1>12, <1>15, <1>16 DEF Next

-------------------------------------------------------------------------------
(* Effects: what follows from the edges.                                   *)

LEMMA StepRuns ==
  ASSUME TypeOK, StateTellsRuns, TableStep
  PROVE  StateTellsRuns'
<1> SUFFICES ASSUME NEW j \in Jobs
             PROVE  /\ jobs'[j].state \in {"none", "Pending"} => started'[j] = 0 /\ committed'[j] = 0
                    /\ jobs'[j].state = "InProgress" => started'[j] = 1 /\ committed'[j] = 0
                    /\ started'[j] <= 1 /\ committed'[j] <= 1
                    /\ jobs'[j].state = "Success" => started'[j] + committed'[j] >= 1
  BY DEF StateTellsRuns
<1>1. started[j] \in Nat /\ committed[j] \in Nat
  BY DEF TypeOK
<1>2. JobStep(j)
  BY DEF TableStep
<1>3. /\ jobs[j].state \in {"none", "Pending"} => started[j] = 0 /\ committed[j] = 0
      /\ jobs[j].state = "InProgress" => started[j] = 1 /\ committed[j] = 0
      /\ started[j] <= 1 /\ committed[j] <= 1
      /\ jobs[j].state = "Success" => started[j] + committed[j] >= 1
  BY DEF StateTellsRuns
<1>4. CASE SameRuns(j)
  BY <1>1, <1>2, <1>3, <1>4 DEF JobStep, LateMutation, SameRuns, Terminal
<1>5. CASE ~SameRuns(j)
  <2>1. \/ /\ jobs[j].state = "Pending" /\ jobs'[j].state \in {"Success", "Canceled"}
           /\ started'[j] = started[j] /\ committed'[j] = committed[j] + 1
        \/ /\ jobs[j].state = "Pending" /\ jobs'[j].state = "InProgress"
           /\ started'[j] = started[j] + 1 /\ committed'[j] = committed[j]
        \/ /\ jobs[j].state = "InProgress" /\ jobs'[j].state \in {"Success", "Canceled"}
           /\ started'[j] = started[j] /\ committed'[j] = committed[j] + 1
    BY <1>2, <1>5 DEF JobStep, LateMutation
  <2> QED
    BY <1>3, <2>1
<1> QED
  BY <1>4, <1>5

LEMMA StepCanceled ==
  ASSUME TypeOK, CanceledStays, TableStep
  PROVE  CanceledStays' /\ \A j \in canceled : SameRuns(j)
<1>1. ASSUME NEW j \in canceled
      PROVE  jobs'[j].state \in {"Canceled", "Deleted"} /\ SameRuns(j)
  <2>1. j \in Jobs /\ jobs[j].state \in {"Canceled", "Deleted"}
    BY DEF TypeOK, CanceledStays
  <2>2. JobStep(j)
    BY <2>1 DEF TableStep
  <2> QED
    BY <2>1, <2>2 DEF JobStep, LateMutation, Terminal
<1> QED
  BY <1>1 DEF TableStep, CanceledStays

LEMMA StepFailed ==
  ASSUME TypeOK, StateTellsRuns, FailedForCause, TableStep
  PROVE  FailedForCause'
<1> SUFFICES ASSUME NEW j \in Jobs, jobs'[j].state = "Failed", j \notin blamed'
             PROVE  started'[j] = 1
  BY DEF FailedForCause
<1>1. JobStep(j) /\ j \notin blamed
  BY DEF TableStep
<1> QED
  BY <1>1 DEF JobStep, LateMutation, SameRuns, StateTellsRuns, FailedForCause, Terminal

-------------------------------------------------------------------------------
(* The executor, its tasks and the environment.                            *)

\* A set of natural numbers has a least one.
LEMMA LeastNat ==
  ASSUME NEW S \in SUBSET Nat, S # {}
  PROVE  \E x \in S : \A y \in S : x <= y
<1>1. PICK x \in S : \A y \in S : ~(<<y, x>> \in OpToRel(<, Nat))
  BY NatLessThanWellFounded, WFMin
<1>2. ASSUME NEW y \in S, y < x PROVE <<y, x>> \in OpToRel(<, Nat)
  <2>1. <<y, x>> \in Nat \X Nat /\ <<y, x>>[1] < <<y, x>>[2]
    BY <1>2
  <2> QED
    BY <2>1, Zenon DEF OpToRel
<1>3. \A y \in S : ~(y < x)
  BY <1>1, <1>2
<1> QED
  BY <1>3

LEMMA MinNat ==
  ASSUME NEW S \in SUBSET Nat, S # {}
  PROVE  Min(S) \in S
BY LeastNat DEF Min

TaskType ==
  [phase : Phases, job : MetadataType, begin : Timestamps \cup {None}, ok : BOOLEAN]

GoodTask(t) ==
  /\ t \in TaskType
  /\ t.phase # "idle" => t.job.state \in Live
  /\ t.phase \in {"action", "complete"} => t.job.state = "InProgress"
  /\ t.phase = "mutation" => t.begin \in Timestamps

GoodTasks == task \in [Jobs -> TaskType] /\ \A j \in Jobs : GoodTask(task[j])

\* The types of everything but the table and its history.
ExecutorType ==
  /\ udf_type \in [Jobs -> FunctionTypes] /\ now \in Timestamps /\ stopped \in BOOLEAN
  /\ running_job_ids \subseteq Jobs /\ job_finished \subseteq Jobs
  /\ next_job_ready_time \in Timestamps \cup {None}
  /\ faults \in 0..MaxFaults /\ pushes \in 0..MaxPushes /\ stops \in 0..MaxStops

LEMMA SplitType ==
  /\ TypeOK /\ TasksHoldLive => ExecutorType /\ GoodTasks
  /\ TableStep /\ ExecutorType' /\ GoodTasks' /\ TypeOK => TypeOK' /\ TasksHoldLive'
<1>1. TypeOK /\ TasksHoldLive => ExecutorType /\ GoodTasks
  BY DEF TypeOK, TasksHoldLive, ExecutorType, GoodTasks, GoodTask, TaskType
<1>2. ASSUME TableStep, ExecutorType', GoodTasks', TypeOK PROVE TypeOK' /\ TasksHoldLive'
  <2>1. /\ jobs' \in [Jobs -> MetadataType]
        /\ \A j \in Jobs : /\ (jobs'[j].next_ts # None) = (jobs'[j].state \in Live)
                           /\ (jobs'[j].completed_ts # None) = (jobs'[j].state \in Terminal)
    <3>1. jobs' \in [Jobs -> MetadataType] /\ \A j \in Jobs : GoodDoc(jobs'[j])
      BY <1>2 DEF TableStep, Tables
    <3>2. ASSUME NEW j \in Jobs
          PROVE  /\ (jobs'[j].next_ts # None) = (jobs'[j].state \in Live)
                 /\ (jobs'[j].completed_ts # None) = (jobs'[j].state \in Terminal)
      <4>1. /\ jobs'[j].next_ts # None <=> jobs'[j].state \in Live
            /\ jobs'[j].completed_ts # None <=> jobs'[j].state \in Terminal
        BY <3>1 DEF GoodDoc
      <4> QED
        BY <4>1
    <3> QED
      BY <3>1, <3>2
  <2>2. /\ started' \in [Jobs -> Nat] /\ committed' \in [Jobs -> Nat]
        /\ canceled' \subseteq Jobs /\ blamed' \subseteq Jobs
    BY <1>2 DEF TableStep, TypeOK
  <2>3. TypeOK'
    BY <1>2, <2>1, <2>2 DEF TypeOK, ExecutorType, GoodTasks, TaskType
  <2>4. TasksHoldLive'
    BY <1>2 DEF TasksHoldLive, GoodTasks, GoodTask
  <2> QED
    BY <2>3, <2>4
<1> QED
  BY <1>1, <1>2

LEMMA IdleGood == GoodTask(Idle)
BY DEF GoodTask, TaskType, Idle, Absent, Metadata, MetadataType, Phases, None, Terminal, Live

LEMMA ReplaceTask ==
  ASSUME GoodTasks, NEW j \in Jobs, NEW t, GoodTask(t), task' = [task EXCEPT ![j] = t]
  PROVE  GoodTasks'
BY DEF GoodTasks, GoodTask

LEMMA FinishTask ==
  ASSUME GoodTasks, NEW j \in Jobs, Finish(j)
  PROVE  GoodTasks'
BY IdleGood, ReplaceTask DEF Finish

\* The task goes on to a phase that says nothing more about the document.
LEMMA ToTask ==
  ASSUME GoodTasks, NEW j \in Jobs, NEW phase \in {"fail", "handle_action", "retry"},
         task[j].phase # "idle", To(j, phase)
  PROVE  GoodTasks'
<1> DEFINE t == [task[j] EXCEPT !.phase = phase]
<1>1. GoodTask(task[j])
  BY DEF GoodTasks
<1>2. GoodTask(t)
  BY <1>1 DEF GoodTask, TaskType, Phases
<1>3. task' = [task EXCEPT ![j] = t]
  BY DEF To, GoodTasks
<1> HIDE DEF t
<1> QED
  BY <1>2, <1>3, ReplaceTask

\* What a task does leaves the rest of the executor alone.
\* After a system error in its action the task holds the job it was given.
Original(t) == [t EXCEPT !.phase = "retry", !.job = [t.job EXCEPT !.state = "Pending"]]

LEMMA OriginalTask ==
  ASSUME task \in [Jobs -> TaskType], NEW j \in Jobs,
         task' = [task EXCEPT ![j].phase = "retry", ![j].job.state = "Pending"]
  PROVE  /\ task' = [task EXCEPT ![j] = Original(task[j])]
         /\ Original(task[j]) \in TaskType
         /\ Original(task[j]).phase = "retry" /\ Original(task[j]).job.state = "Pending"
<1> DEFINE t == task[j]
           doc == t.job
           new == [doc EXCEPT !.state = "Pending"]
<1>1. t \in TaskType /\ doc \in MetadataType
  BY DEF TaskType
<1>2. task' = [task EXCEPT ![j] = Original(task[j])]
  BY <1>1 DEF Original, TaskType
<1> HIDE DEF doc
<1>3. new \in MetadataType /\ new.state = "Pending"
  BY <1>1 DEF MetadataType, Live
<1>4. Original(t) = [t EXCEPT !.phase = "retry", !.job = new]
  BY DEF Original, doc
<1> HIDE DEF new, t
<1>5. /\ [t EXCEPT !.phase = "retry", !.job = new] \in TaskType
      /\ [t EXCEPT !.phase = "retry", !.job = new].phase = "retry"
      /\ [t EXCEPT !.phase = "retry", !.job = new].job = new
  BY <1>1, <1>3 DEF TaskType, Phases
<1> QED
  BY <1>2, <1>3, <1>4, <1>5 DEF t

LEMMA TaskExecutor ==
  ASSUME ExecutorType, UnchangedByTask, job_finished' \subseteq Jobs
  PROVE  ExecutorType'
BY DEF ExecutorType, UnchangedByTask, boundVars

LEMMA TaskFinished ==
  ASSUME ExecutorType, NEW j \in Jobs, Finish(j) \/ UNCHANGED job_finished
  PROVE  job_finished' \subseteq Jobs
BY DEF ExecutorType, Finish

LEMMA StateChangedTask ==
  ASSUME GoodTasks, NEW j \in Jobs, task[j].phase # "idle", StateChanged(j)
  PROVE  GoodTasks' /\ (Finish(j) \/ UNCHANGED job_finished)
BY FinishTask, ToTask DEF StateChanged, To

LEMMA TaskStepGood ==
  ASSUME TypeOK, GoodTasks, ExecutorType, NEW j \in Jobs, TaskStep(j)
  PROVE  GoodTasks' /\ ExecutorType'
<1>1. now \in Timestamps /\ GoodTask(task[j])
  BY DEF ExecutorType, GoodTasks
<1>2. CASE RunFunction(j)
  <2>1. InPhase(j, "start") /\ task[j].phase # "idle" /\ UnchangedByTask
    BY <1>2 DEF RunFunction, InPhase
  <2>2. CASE StateChanged(j)
    BY <2>1, <2>2, StateChangedTask, TaskFinished, TaskExecutor
  <2>3. CASE task' = [task EXCEPT ![j].phase = "mutation", ![j].begin = now] /\ UNCHANGED job_finished
    <3> DEFINE t == [task[j] EXCEPT !.phase = "mutation", !.begin = now]
    <3>1. GoodTask(t)
      BY <1>1, <2>1 DEF GoodTask, TaskType, Phases
    <3>2. task' = [task EXCEPT ![j] = t]
      BY <2>3 DEF GoodTasks, TaskType
    <3> HIDE DEF t
    <3> QED
      BY <2>1, <2>3, <3>1, <3>2, ReplaceTask, TaskFinished, TaskExecutor
  <2>4. CASE To(j, "handle_action")
    BY <2>1, <2>4, ToTask, TaskFinished, TaskExecutor DEF To
  <2>5. CASE Finish(j)
    BY <2>1, <2>5, FinishTask, TaskFinished, TaskExecutor
  <2> QED
    BY <1>2, <2>2, <2>3, <2>4, <2>5 DEF RunFunction
<1>3. CASE CommitMutation(j)
  <2>1. task[j].phase # "idle" /\ UnchangedByTask /\ (Finish(j) \/ To(j, "retry"))
    BY <1>3 DEF CommitMutation, InPhase
  <2> QED
    BY <2>1, FinishTask, ToTask, TaskFinished, TaskExecutor DEF To
<1>4. CASE MutationThrows(j)
  <2>1. task[j].phase # "idle" /\ UnchangedByTask /\ To(j, "fail")
    BY <1>4 DEF MutationThrows, InPhase
  <2> QED
    BY <2>1, ToTask, TaskFinished, TaskExecutor DEF To
<1>5. CASE FailMutation(j)
  <2>1. task[j].phase # "idle" /\ UnchangedByTask /\ (Finish(j) \/ StateChanged(j))
    BY <1>5 DEF FailMutation, InPhase
  <2> QED
    BY <2>1, FinishTask, StateChangedTask, TaskFinished, TaskExecutor
<1>6. CASE HandleAction(j)
  <2>1. task[j].phase # "idle" /\ UnchangedByTask
    BY <1>6 DEF HandleAction, InPhase
  <2>2. CASE StateChanged(j) \/ Finish(j)
    BY <2>1, <2>2, FinishTask, StateChangedTask, TaskFinished, TaskExecutor
  <2>3. CASE LET doc == [jobs[j] EXCEPT !.state = "InProgress"] IN
               task' = [task EXCEPT ![j].phase = "action", ![j].job = doc, ![j].begin = now]
               /\ UNCHANGED job_finished
    <3> DEFINE doc == [jobs[j] EXCEPT !.state = "InProgress"]
               t == [task[j] EXCEPT !.phase = "action", !.job = doc, !.begin = now]
    <3>1. doc \in MetadataType /\ doc.state = "InProgress"
      <4>1. jobs[j] \in MetadataType
        BY DEF TypeOK
      <4> QED
        BY <4>1 DEF MetadataType, Live
    <3>2. task' = [task EXCEPT ![j] = t]
      BY <2>3 DEF GoodTasks, TaskType
    <3> HIDE DEF doc
    <3>3. GoodTask(t)
      BY <1>1, <3>1 DEF GoodTask, TaskType, Phases, Live
    <3> HIDE DEF t
    <3> QED
      BY <2>1, <2>3, <3>2, <3>3, ReplaceTask, TaskFinished, TaskExecutor
  <2> QED
    BY <1>6, <2>2, <2>3 DEF HandleAction
<1>7. CASE ActionReturns(j)
  <2>1. PICK ok \in BOOLEAN : task' = [task EXCEPT ![j].phase = "complete", ![j].ok = ok]
    BY <1>7 DEF ActionReturns
  <2> DEFINE t == [task[j] EXCEPT !.phase = "complete", !.ok = ok]
  <2>2. GoodTask(t)
    BY <1>1, <1>7 DEF GoodTask, TaskType, Phases, ActionReturns, InPhase
  <2>3. task' = [task EXCEPT ![j] = t]
    BY <2>1 DEF GoodTasks, TaskType
  <2> HIDE DEF t
  <2> QED
    BY <1>7, <2>2, <2>3, ReplaceTask, TaskFinished, TaskExecutor DEF ActionReturns
<1>8. CASE CompleteAction(j) \/ ScheduleRetry(j)
  <2>1. UnchangedByTask /\ Finish(j)
    BY <1>8 DEF CompleteAction, ScheduleRetry
  <2> QED
    BY <2>1, FinishTask, TaskFinished, TaskExecutor
<1> QED
  BY <1>2, <1>3, <1>4, <1>5, <1>6, <1>7, <1>8 DEF TaskStep

LEMMA QueryAndStartGood ==
  ASSUME TypeOK, GoodTasks, QueryAndStartJobs
  PROVE  /\ GoodTasks' /\ running_job_ids' \subseteq Jobs
         /\ next_job_ready_time' \in Timestamps \cup {None}
<1> DEFINE due == {j \in Unstarted : NextTs(j) <= now}
<1>1. PICK ids \in SUBSET due :
        /\ running_job_ids' = running_job_ids \cup ids
        /\ task' = [j \in Jobs |-> IF j \in ids
                                   THEN [Idle EXCEPT !.phase = "start", !.job = jobs[j]]
                                   ELSE task[j]]
        /\ next_job_ready_time'
             = IF Unstarted \ ids = {} THEN None ELSE Min({NextTs(j) : j \in Unstarted \ ids})
  BY Zenon DEF QueryAndStartJobs
<1>2. \A j \in Unstarted : j \in Jobs /\ NextTs(j) \in Timestamps /\ jobs[j] \in MetadataType
                           /\ jobs[j].state \in Live
  BY TypeOKTables DEF Unstarted, NextTs, GoodDoc, MetadataType
<1>3. running_job_ids' \subseteq Jobs
  BY <1>1, <1>2 DEF TypeOK
<1>4. ASSUME NEW j \in Jobs PROVE GoodTask(task'[j])
  <2>1. CASE j \in ids
    <3> DEFINE doc == jobs[j]
    <3>1. doc \in MetadataType /\ doc.state \in Live
      BY <1>2, <2>1
    <3>2. task'[j] = [Idle EXCEPT !.phase = "start", !.job = doc]
      BY <1>1, <2>1
    <3> HIDE DEF doc
    <3>3. task'[j] = [phase |-> "start", job |-> doc, begin |-> None, ok |-> FALSE]
      BY <3>2 DEF Idle
    <3> QED
      BY <3>1, <3>3 DEF GoodTask, TaskType, Phases
  <2>2. CASE j \notin ids
    BY <1>1, <2>2 DEF GoodTasks
  <2> QED
    BY <2>1, <2>2
<1>5. GoodTasks'
  BY <1>1, <1>4 DEF GoodTasks, GoodTask
<1>6. next_job_ready_time' \in Timestamps \cup {None}
  <2> DEFINE S == {NextTs(j) : j \in Unstarted \ ids}
  <2>1. CASE Unstarted \ ids = {}
    BY <1>1, <2>1
  <2>2. CASE Unstarted \ ids # {}
    <3>1. S # {} /\ S \subseteq Timestamps
      BY <1>2, <2>2
    <3>2. S \in SUBSET Nat
      BY <3>1 DEF Timestamps
    <3>3. Min(S) \in S
      BY <3>1, <3>2, MinNat
    <3> QED
      BY <1>1, <2>2, <3>1, <3>3
  <2> QED
    BY <2>1, <2>2
<1> QED
  BY <1>3, <1>5, <1>6

LEMMA NextExecutorGood ==
  ASSUME TypeOK, GoodTasks, ExecutorType, [Next]_vars
  PROVE  GoodTasks' /\ ExecutorType'
<1>1. CASE RunOnce
  <2>1. CASE QueryAndStartJobs
    <3>1. UNCHANGED <<tableVars, job_finished, boundVars>>
      BY <1>1 DEF RunOnce
    <3> QED
      BY <2>1, <3>1, QueryAndStartGood DEF ExecutorType, tableVars, boundVars
  <2>2. CASE /\ UNCHANGED <<running_job_ids, task>>
             /\ next_job_ready_time' \in {None, next_job_ready_time}
    BY <1>1, <2>2 DEF RunOnce, ExecutorType, GoodTasks, tableVars, boundVars
  <2> QED
    BY <1>1, <2>1, <2>2 DEF RunOnce
<1>2. CASE Wake
  BY <1>2 DEF Wake, ReceiveFinished, ExecutorType, GoodTasks, tableVars, boundVars
<1>3. CASE Crash
  <2>1. GoodTasks'
    BY <1>3, IdleGood DEF Crash, GoodTasks, GoodTask
  <2>2. ExecutorType'
    BY <1>3 DEF Crash, CountFault, ExecutorType, tableVars, None
  <2> QED
    BY <2>1, <2>2
<1>4. CASE CancelAll \/ CollectGarbage
  BY <1>4 DEF CancelAll, CollectGarbage, ExecutorType, GoodTasks, executorVars, boundVars
<1>5. CASE StopBackend \/ StartBackend \/ Tick
  <2>1. UNCHANGED <<udf_type, executorVars, task, faults, pushes>>
    BY <1>5 DEF StopBackend, StartBackend, Tick, boundVars
  <2>2. now' \in Timestamps /\ stopped' \in BOOLEAN /\ stops' \in 0..MaxStops
    <3>1. CASE StopBackend
      BY <3>1 DEF StopBackend, ExecutorType
    <3>2. CASE StartBackend
      BY <3>2 DEF StartBackend, ExecutorType, boundVars
    <3>3. CASE Tick
      BY <3>3 DEF Tick, ExecutorType, Timestamps, boundVars
    <3> QED
      BY <1>5, <3>1, <3>2, <3>3
  <2> QED
    BY <2>1, <2>2 DEF ExecutorType, GoodTasks, executorVars
<1>6. ASSUME NEW j \in Jobs, ClientSchedules(j) \/ ActionSchedules(j) \/ Cancel(j)
      PROVE  GoodTasks' /\ ExecutorType'
  BY <1>6 DEF ClientSchedules, ActionSchedules, Cancel, Schedule, ExecutorType, GoodTasks,
              executorVars, boundVars
<1>7. ASSUME NEW j \in Jobs, TaskFails(j) PROVE GoodTasks' /\ ExecutorType'
  <2>1. /\ CountFault
        /\ \/ Finish(j) \/ (To(j, "retry") /\ task[j].phase # "idle")
           \/ /\ task' = [task EXCEPT ![j].phase = "retry", ![j].job.state = "Pending"]
              /\ UNCHANGED job_finished
        /\ UNCHANGED <<udf_type, now, stopped, running_job_ids, next_job_ready_time, subscription>>
    BY <1>7 DEF TaskFails, InPhase
  <2>2. CASE Finish(j) \/ (To(j, "retry") /\ task[j].phase # "idle")
    <3>1. GoodTasks' /\ job_finished' \subseteq Jobs
      BY <2>2, FinishTask, ToTask, TaskFinished DEF To
    <3> QED
      BY <2>1, <3>1 DEF ExecutorType, CountFault
  <2>3. CASE /\ task' = [task EXCEPT ![j].phase = "retry", ![j].job.state = "Pending"]
             /\ UNCHANGED job_finished
    <3>1. GoodTask(Original(task[j])) /\ task' = [task EXCEPT ![j] = Original(task[j])]
      BY <2>3, OriginalTask DEF GoodTasks, GoodTask, Live
    <3>2. GoodTasks'
      BY <3>1, ReplaceTask
    <3> QED
      BY <2>1, <2>3, <3>2 DEF ExecutorType, CountFault
  <2> QED
    BY <2>1, <2>2, <2>3
<1>8. ASSUME NEW j \in Jobs, NEW type \in FunctionTypes, Push(j, type)
      PROVE  GoodTasks' /\ ExecutorType'
  <2>1. GoodTasks'
    BY <1>8 DEF Push, GoodTasks
  <2>2. udf_type' \in [Jobs -> FunctionTypes] /\ pushes' \in 0..MaxPushes
    BY <1>8 DEF Push, ExecutorType
  <2>3. UNCHANGED <<now, stopped, running_job_ids, next_job_ready_time, job_finished, faults, stops>>
    BY <1>8 DEF Push, executorVars
  <2> QED
    BY <2>1, <2>2, <2>3 DEF ExecutorType
<1>9. CASE UNCHANGED vars
  BY <1>9 DEF vars, tableVars, executorVars, boundVars, ExecutorType, GoodTasks
<1> QED
  BY <1>1, <1>2, <1>3, <1>4, <1>5, <1>6, <1>7, <1>8, <1>9, TaskStepGood DEF Next

LEMMA InitJobs == Init => JobsInv /\ MutationsArePending
<1> SUFFICES ASSUME Init PROVE JobsInv /\ MutationsArePending
  OBVIOUS
<1>1. GoodDoc(Absent) /\ Absent.state = "none"
  BY DEF Absent, Metadata, GoodDoc, MetadataType, Live, Terminal, None
<1>2. jobs \in [Jobs -> MetadataType] /\ \A j \in Jobs : GoodDoc(jobs[j]) /\ jobs[j].state = "none"
  BY <1>1 DEF Init, GoodDoc
<1>3. task \in [Jobs -> TaskType] /\ \A j \in Jobs : task[j].phase = "idle"
  BY IdleGood DEF Init, GoodTask, Idle
<1>4. TypeOK
  <2>1. \A j \in Jobs : /\ (jobs[j].next_ts # None) = (jobs[j].state \in Live)
                         /\ (jobs[j].completed_ts # None) = (jobs[j].state \in Terminal)
    BY <1>2 DEF GoodDoc
  <2>2. /\ started \in [Jobs -> Nat] /\ committed \in [Jobs -> Nat]
        /\ now \in Timestamps /\ next_job_ready_time \in Timestamps \cup {None}
        /\ faults \in 0..MaxFaults /\ pushes \in 0..MaxPushes /\ stops \in 0..MaxStops
    BY DEF Init, Timestamps
  <2>3. /\ udf_type \in [Jobs -> FunctionTypes] /\ stopped \in BOOLEAN
        /\ running_job_ids \subseteq Jobs /\ job_finished \subseteq Jobs
        /\ canceled \subseteq Jobs /\ blamed \subseteq Jobs
    BY DEF Init
  <2> QED
    BY <1>2, <1>3, <2>1, <2>2, <2>3, Zenon DEF TypeOK, TaskType
<1>5. TasksHoldLive /\ MutationsArePending
  BY <1>3 DEF TasksHoldLive, MutationsArePending
<1>6. StateTellsRuns /\ CanceledStays /\ FailedForCause
  BY <1>2 DEF Init, StateTellsRuns, CanceledStays, FailedForCause
<1> QED
  BY <1>4, <1>5, <1>6 DEF JobsInv

\* Every step preserves the invariant and is a step of the table.
LEMMA NextJobs ==
  ASSUME JobsInv, [Next]_vars
  PROVE  JobsInv' /\ TableStep /\ \A j \in canceled : SameRuns(j)
<1>1. TableStep
  BY NextTableStep DEF JobsInv
<1>2. TypeOK' /\ TasksHoldLive'
  BY <1>1, SplitType, NextExecutorGood DEF JobsInv
<1>3. StateTellsRuns' /\ CanceledStays' /\ FailedForCause' /\ \A j \in canceled : SameRuns(j)
  BY <1>1, StepRuns, StepCanceled, StepFailed DEF JobsInv
<1> QED
  BY <1>1, <1>2, <1>3 DEF JobsInv

\* The invariant holds in every reachable state.
THEOREM JobsInvariant == Spec => []JobsInv
<1>1. JobsInv /\ [Next]_vars => JobsInv'
  BY NextJobs
<1> QED
  BY <1>1, InitJobs, PTL DEF Spec

\* Type correctness: a document has a next_ts exactly while the job waits or is
\* in progress and a completed_ts exactly once it has ended.
THEOREM TypeCorrect == Spec => []TypeOK
<1>1. JobsInv => TypeOK
  BY DEF JobsInv
<1> QED
  BY <1>1, JobsInvariant, PTL

\* An action is started at most once and a mutation committed at most once,
\* and neither before the job's document says so, through every crash,
\* retry, redeployment and cancellation.
THEOREM StateAlwaysTellsRuns == Spec => []StateTellsRuns
<1>1. JobsInv => StateTellsRuns
  BY DEF JobsInv
<1> QED
  BY <1>1, JobsInvariant, PTL

\* Only a started action can be lost to a crash or a system error.
THEOREM FailuresHaveCause == Spec => []FailedForCause
<1>1. JobsInv => FailedForCause
  BY DEF JobsInv
<1> QED
  BY <1>1, JobsInvariant, PTL

\* A canceled job never runs afterwards, although a task that read its old
\* document may be on its way.
THEOREM CanceledJobsNeverRun == Spec => CanceledNeverRuns
<1>1. JobsInv /\ [Next]_vars
        => [\A j \in canceled : started'[j] = started[j] /\ committed'[j] = committed[j]]_vars
  BY NextJobs DEF SameRuns
<1> QED
  BY <1>1, JobsInvariant, PTL DEF Spec, CanceledNeverRuns

-------------------------------------------------------------------------------
(* The refinement of JobQueue, where no action in progress becomes a       *)
(* mutation.                                                               *)

LEMMA NextMutations ==
  ASSUME JobsInv, MutationsArePending, ActionsStayActions, [Next]_vars
  PROVE  MutationsArePending'
<1> SUFFICES ASSUME NEW j \in Jobs, task'[j].phase \in {"mutation", "fail"}
             PROVE  task'[j].job.state = "Pending"
  BY DEF MutationsArePending
<1>1. task \in [Jobs -> TaskType] /\ task[j] \in TaskType
  BY SplitType DEF JobsInv, GoodTasks
<1>2. CASE task'[j] = task[j]
  BY <1>2 DEF MutationsArePending
<1>3. CASE task'[j].phase \notin {"mutation", "fail"}
  BY <1>3
<1>4. ASSUME NEW k \in Jobs, Finish(k) PROVE task'[j].job.state = "Pending"
  <2>1. CASE k = j
    BY <1>1, <1>3, <1>4, <2>1 DEF Finish, Idle
  <2>2. CASE k # j
    BY <1>1, <1>2, <1>4, <2>2 DEF Finish
  <2> QED
    BY <2>1, <2>2
<1>5. ASSUME NEW k \in Jobs, NEW phase \in {"handle_action", "retry"}, To(k, phase)
      PROVE  task'[j].job.state = "Pending"
  <2>1. CASE k = j
    BY <1>1, <1>3, <1>5, <2>1 DEF To, TaskType
  <2>2. CASE k # j
    BY <1>1, <1>2, <1>5, <2>2 DEF To
  <2> QED
    BY <2>1, <2>2
<1>6. ASSUME NEW k \in Jobs, StateChanged(k) PROVE task'[j].job.state = "Pending"
  BY <1>4, <1>5, <1>6 DEF StateChanged
<1>7. ASSUME NEW k \in Jobs, RunFunction(k) PROVE task'[j].job.state = "Pending"
  <2>1. CASE StateChanged(k) \/ Finish(k) \/ To(k, "handle_action")
    BY <1>4, <1>5, <1>6, <2>1
  <2>2. CASE /\ Matches(k) /\ udf_type[k] = "mutation"
             /\ task' = [task EXCEPT ![k].phase = "mutation", ![k].begin = now]
    <3>1. CASE k # j
      BY <1>1, <1>2, <2>2, <3>1
    <3>2. CASE k = j
      <4>1. task[k].job.state \in Live /\ jobs[k] = task[k].job
        BY <1>7, <2>2 DEF RunFunction, InPhase, Matches, JobsInv, TasksHoldLive
      <4>2. jobs[k].state # "InProgress"
        BY <2>2 DEF ActionsStayActions
      <4>3. task'[k].job = task[k].job
        BY <1>1, <2>2, <3>2 DEF TaskType
      <4> QED
        BY <3>2, <4>1, <4>2, <4>3 DEF Live
    <3> QED
      BY <3>1, <3>2
  <2> QED
    BY <1>7, <2>1, <2>2 DEF RunFunction
<1>8. ASSUME NEW k \in Jobs, MutationThrows(k) PROVE task'[j].job.state = "Pending"
  <2>1. task' = [task EXCEPT ![k].phase = "fail"] /\ task[k].phase = "mutation"
    BY <1>8 DEF MutationThrows, InPhase, To
  <2>2. task'[j].job = task[j].job
    BY <1>1, <2>1 DEF TaskType
  <2>3. task[j].phase \in {"mutation", "fail"}
    BY <1>1, <2>1
  <2> QED
    BY <2>2, <2>3 DEF MutationsArePending
<1>9. ASSUME NEW k \in Jobs, HandleAction(k) \/ ActionReturns(k)
      PROVE  task'[j].job.state = "Pending"
  <2>1. CASE StateChanged(k) \/ Finish(k)
    BY <1>4, <1>6, <2>1
  <2>2. CASE LET doc == [jobs[k] EXCEPT !.state = "InProgress"] IN
               task' = [task EXCEPT ![k].phase = "action", ![k].job = doc, ![k].begin = now]
    <3> DEFINE doc == [jobs[k] EXCEPT !.state = "InProgress"]
    <3>1. task' = [task EXCEPT ![k].phase = "action", ![k].job = doc, ![k].begin = now]
      BY <2>2
    <3> HIDE DEF doc
    <3>2. CASE k # j
      BY <1>1, <1>2, <3>1, <3>2
    <3>3. CASE k = j
      BY <1>1, <1>3, <3>1, <3>3 DEF TaskType
    <3> QED
      BY <3>2, <3>3
  <2>3. CASE \E ok \in BOOLEAN : task' = [task EXCEPT ![k].phase = "complete", ![k].ok = ok]
    <3>1. CASE k # j
      BY <1>1, <1>2, <2>3, <3>1
    <3>2. CASE k = j
      BY <1>1, <1>3, <2>3, <3>2 DEF TaskType
    <3> QED
      BY <3>1, <3>2
  <2> QED
    BY <1>9, <2>1, <2>2, <2>3 DEF HandleAction, ActionReturns
<1>10. ASSUME NEW k \in Jobs,
              CommitMutation(k) \/ FailMutation(k) \/ CompleteAction(k) \/ ScheduleRetry(k) \/ TaskFails(k)
       PROVE  task'[j].job.state = "Pending"
  <2>1. CASE task' = [task EXCEPT ![k].phase = "retry", ![k].job.state = "Pending"]
    <3>1. /\ task' = [task EXCEPT ![k] = Original(task[k])]
          /\ Original(task[k]).phase = "retry"
      BY <1>1, <2>1, OriginalTask
    <3>2. CASE k = j
      BY <1>1, <1>3, <3>1, <3>2
    <3>3. CASE k # j
      BY <1>1, <1>2, <3>1, <3>3
    <3> QED
      BY <3>2, <3>3
  <2> QED
    BY <1>4, <1>5, <1>6, <1>10, <2>1
     DEF CommitMutation, FailMutation, CompleteAction, ScheduleRetry, TaskFails
<1>11. CASE RunOnce
  <2>1. CASE UNCHANGED task
    BY <1>2, <2>1
  <2>2. CASE QueryAndStartJobs
    <3>1. PICK ids \in SUBSET Jobs :
            task' = [k \in Jobs |-> IF k \in ids
                                    THEN [Idle EXCEPT !.phase = "start", !.job = jobs[k]]
                                    ELSE task[k]]
      BY <2>2 DEF QueryAndStartJobs, Unstarted
    <3> QED
      BY <1>2, <1>3, <3>1 DEF Idle
  <2> QED
    BY <1>11, <2>1, <2>2 DEF RunOnce
<1>12. CASE Crash
  BY <1>3, <1>12 DEF Crash, Idle
<1>13. CASE Wake \/ CancelAll \/ CollectGarbage \/ StopBackend \/ StartBackend \/ Tick \/ UNCHANGED vars
  BY <1>2, <1>13 DEF Wake, CancelAll, CollectGarbage, StopBackend, StartBackend, Tick, vars
<1>14. ASSUME NEW k \in Jobs, ClientSchedules(k) \/ ActionSchedules(k) \/ Cancel(k)
       PROVE  task'[j].job.state = "Pending"
  BY <1>2, <1>14 DEF ClientSchedules, ActionSchedules, Cancel, Schedule
<1>15. ASSUME NEW k \in Jobs, NEW type \in FunctionTypes, Push(k, type)
       PROVE  task'[j].job.state = "Pending"
  BY <1>2, <1>15 DEF Push
<1>16. ASSUME NEW k \in Jobs, TaskStep(k) PROVE task'[j].job.state = "Pending"
  BY <1>7, <1>8, <1>9, <1>10, <1>16 DEF TaskStep
<1> QED
  BY <1>10, <1>11, <1>12, <1>13, <1>14, <1>15, <1>16 DEF Next

\* Along the edges of JobQueue only, no job runs twice.
RunsOnce == \A j \in Jobs : started[j] + committed[j] <= 1

LEMMA NextRunsOnce ==
  ASSUME TypeOK, StateTellsRuns, MutationsArePending, RunsOnce, TableStep
  PROVE  RunsOnce'
<1> SUFFICES ASSUME NEW j \in Jobs PROVE started'[j] + committed'[j] <= 1
  BY DEF RunsOnce
<1>1. JobStep(j) /\ ~LateMutation(j) /\ started[j] \in Nat /\ committed[j] \in Nat
  BY DEF TableStep, LateMutation, InPhase, MutationsArePending, TypeOK
<1>2. started[j] + committed[j] <= 1
  BY DEF RunsOnce
<1>3. CASE SameRuns(j)
  BY <1>2, <1>3 DEF SameRuns
<1>4. CASE ~SameRuns(j)
  <2>1. jobs[j].state = "Pending"
    BY <1>1, <1>4 DEF JobStep
  <2>2. started[j] = 0 /\ committed[j] = 0
    BY <2>1 DEF StateTellsRuns
  <2>3. \/ started'[j] = started[j] /\ committed'[j] = committed[j] + 1
        \/ started'[j] = started[j] + 1 /\ committed'[j] = committed[j]
    BY <1>1, <1>4 DEF JobStep
  <2> QED
    BY <2>2, <2>3
<1> QED
  BY <1>3, <1>4

\* One step of the table is one step of the queue, for every job at once.
LEMMA TableStepIsQueueStep ==
  ASSUME TypeOK, MutationsArePending, TableStep
  PROVE  Queue!Next
<1>1. Status' \in [Jobs -> Terminal \cup {"none", "Pending", "InProgress", "Deleted"}]
  <2>1. \A j \in Jobs : jobs'[j].state \in Terminal \cup {"none", "Pending", "InProgress", "Deleted"}
    BY DEF TableStep, Tables, MetadataType, Live
  <2> QED
    BY <2>1 DEF Status
<1>2. Runs' \in [Jobs -> Nat]
  BY DEF TableStep, Runs
<1>3. ASSUME NEW j \in Jobs
      PROVE  Queue!Move(j) \/ (Queue!Become(j, Status[j]) /\ Runs'[j] = Runs[j])
  <2>1. JobStep(j) /\ ~LateMutation(j)
    BY DEF TableStep, LateMutation, InPhase, MutationsArePending
  <2>2. /\ Status[j] = jobs[j].state /\ Status'[j] = jobs'[j].state
        /\ Runs[j] = started[j] + committed[j] /\ Runs'[j] = started'[j] + committed'[j]
        /\ started[j] \in Nat /\ committed[j] \in Nat
    BY DEF Status, Runs, TypeOK
  <2> QED
    BY <2>1, <2>2 DEF JobStep, SameRuns, Terminal, Queue!Move, Queue!Become, Queue!Schedule,
       Queue!RunMutation, Queue!StartAction, Queue!EndAction, Queue!GiveUp, Queue!Forget,
       Queue!Terminal
<1> QED
  BY <1>1, <1>2, <1>3 DEF Queue!Next, Queue!Terminal, Terminal

\* While no action in progress is redeployed as a mutation, no job runs twice
\* and one that succeeded has run.
THEOREM JobsRunAtMostOnce == Spec /\ []ActionsStayActions => []RunsAtMostOnce
<1> DEFINE I == JobsInv /\ MutationsArePending /\ RunsOnce
<1>1. Init => I
  BY InitJobs DEF Init, RunsOnce
<1>2. I /\ ActionsStayActions /\ [Next]_vars => I'
  BY NextJobs, NextMutations, NextRunsOnce DEF JobsInv
<1>3. I => RunsAtMostOnce
  <2> SUFFICES ASSUME I, NEW j \in Jobs
               PROVE  Runs[j] <= 1 /\ (jobs[j].state = "Success" => Runs[j] = 1)
    BY DEF RunsAtMostOnce
  <2>1. Runs[j] = started[j] + committed[j] /\ started[j] \in Nat /\ committed[j] \in Nat
    BY DEF Runs, JobsInv, TypeOK
  <2>2. /\ started[j] + committed[j] <= 1
        /\ jobs[j].state = "Success" => started[j] + committed[j] >= 1
    BY DEF JobsInv, StateTellsRuns, RunsOnce
  <2> QED
    BY <2>1, <2>2
<1> HIDE DEF I
<1> QED
  BY <1>1, <1>2, <1>3, PTL DEF Spec

\* Under the same condition the executor, with its scans, tasks, retries and
\* crashes, implements JobQueue.
THEOREM JobsImplementQueue == Spec /\ []ActionsStayActions => RefinesJobQueue
<1> DEFINE I == JobsInv /\ MutationsArePending
<1>1. Init => I
  BY InitJobs
<1>2. I /\ ActionsStayActions /\ [Next]_vars => I'
  BY NextJobs, NextMutations
<1>3. Init => Queue!Init
  BY DEF Init, Queue!Init, Status, Runs, Absent, Metadata
<1>4. I /\ [Next]_vars => [Queue!Next]_<<Status, Runs>>
  BY NextJobs, TableStepIsQueueStep DEF JobsInv
<1> HIDE DEF I
<1> QED
  BY <1>1, <1>2, <1>3, <1>4, PTL DEF Spec, RefinesJobQueue, Queue!Spec

-------------------------------------------------------------------------------
(* Cancellation reaches the follow-ups.                                    *)

\* An action runs no longer than its time limit, and its document is not ended
\* before it started.
ActionsInTime ==
  \A p \in Jobs : task[p].phase = "action" =>
    /\ task[p].begin \in Timestamps /\ task[p].begin <= now
    /\ now <= task[p].begin + ActionTimeout
    /\ jobs[p].state \in Terminal \cup {"InProgress"}
    /\ jobs[p].state \in Terminal => task[p].begin <= jobs[p].completed_ts

\* Ended by a cancellation that began now, or after the action that runs.
CanceledSince(j, old, new) ==
  /\ old.state \in Live /\ new.state = "Canceled"
  /\ new.completed_ts = now \/ (task[j].phase = "action" => task[j].begin <= new.completed_ts)

\* Who scheduled a new job: nobody, a job that has not ended, or a running
\* action, whose own cancellation it then inherits.
Inherits(j) ==
  \/ jobs'[j].parent = None
  \/ \E p \in Jobs :
       /\ jobs'[j].parent = p
       /\ \/ jobs[p].state \in Live
          \/ /\ task[p].phase = "action"
             /\ jobs[p].state = "Canceled" => jobs'[j].state = "Canceled"

\* What a step does to one document, in more detail than JobStep: the last way
\* is that of the job's own task, when no action of it is running.
DocStep(j) ==
  \/ jobs'[j] = jobs[j]
  \/ CanceledSince(j, jobs[j], jobs'[j])
  \/ j \in Collectable /\ jobs'[j] = Deleted
  \/ jobs[j] = Absent /\ Inherits(j)
  \/ jobs[j].state \in Live /\ task[j].phase # "action"

LEMMA CancelDoc ==
  ASSUME TypeOK, NEW ids, NEW ts, NEW j \in Jobs,
         j \in ids => ts = now \/ (task[j].phase = "action" => task[j].begin <= ts)
  PROVE  \/ CancelJobs(jobs, ids, ts)[j] = jobs[j]
         \/ CanceledSince(j, jobs[j], CancelJobs(jobs, ids, ts)[j])
<1>1. jobs[j] \in MetadataType
  BY DEF TypeOK
<1>2. CASE j \in ids /\ jobs[j].state \in Live
  <2> DEFINE doc == jobs[j]
             new == [doc EXCEPT !.state = "Canceled", !.next_ts = None, !.completed_ts = ts]
  <2>1. CancelJobs(jobs, ids, ts)[j] = new
    BY <1>2 DEF CancelJobs, Complete
  <2> HIDE DEF doc
  <2>2. new.state = "Canceled" /\ new.completed_ts = ts
    BY <1>1 DEF MetadataType, doc
  <2> HIDE DEF new
  <2> QED
    BY <1>2, <2>1, <2>2 DEF CanceledSince
<1>3. CASE ~(j \in ids /\ jobs[j].state \in Live)
  BY <1>3 DEF CancelJobs
<1> QED
  BY <1>2, <1>3

LEMMA NewJobParent ==
  ASSUME NEW table, NEW parent, NEW ts, NEW begin
  PROVE  /\ NewJob(table, parent, ts, begin).parent = parent
         /\ parent # None /\ table[parent].state = "Canceled"
              => NewJob(table, parent, ts, begin).state = "Canceled"
BY DEF NewJob, Metadata

\* What the transaction of a mutation does to another job's document.
LEMMA MutationDoc ==
  ASSUME TypeOK, NEW j \in Jobs, jobs[j].state \in Live, NEW table \in MutationWrites(j),
         NEW k \in Jobs, k # j
  PROVE  \/ table[k] = jobs[k] \/ CanceledSince(k, jobs[k], table[k])
         \/ jobs[k] = Absent /\ table[k].parent = j
<1>1. jobs \in [Jobs -> MetadataType]
  BY DEF TypeOK
<1>2. ASSUME NEW t, t = [x \in Jobs |-> t[x]] PROVE Done(j, t)[k] = t[k]
  BY <1>2 DEF Done
<1>3. ASSUME NEW t, t = [x \in Jobs |-> t[x]], NEW c \in Unused
      PROVE  /\ FollowUp(j, t, c) = [x \in Jobs |-> FollowUp(j, t, c)[x]]
             /\ FollowUp(j, t, c)[k] = t[k] \/ (k = c /\ FollowUp(j, t, c)[k].parent = j)
  BY <1>3, NewJobParent DEF FollowUp, Unused
<1>4. \A t, ids : Canceling(j, t, ids) = [x \in Jobs |-> Canceling(j, t, ids)[x]]
  BY DEF CancelJobs, Canceling
<1>5. \A c \in Unused : c \in Jobs /\ jobs[c] = Absent
  BY DEF Unused
<1>6. CASE \E ids \in SUBSET Cancelable(j) : table = Done(j, Canceling(j, jobs, ids))
  BY <1>2, <1>4, <1>6, CancelDoc DEF Canceling, Cancelable
<1>7. CASE \E ids \in {{}, {j}}, c \in Unused : table = Done(j, FollowUp(j, Canceling(j, jobs, ids), c))
  <2>1. PICK ids \in {{}, {j}}, c \in Unused : table = Done(j, FollowUp(j, Canceling(j, jobs, ids), c))
    BY <1>7
  <2>2. table[k] = FollowUp(j, Canceling(j, jobs, ids), c)[k]
    BY <1>2, <1>3, <1>4, <2>1
  <2>3. \/ FollowUp(j, Canceling(j, jobs, ids), c)[k] = Canceling(j, jobs, ids)[k]
        \/ k = c /\ FollowUp(j, Canceling(j, jobs, ids), c)[k].parent = j
    BY <1>3, <1>4
  <2> QED
    BY <1>5, <2>2, <2>3, CancelDoc DEF Canceling
<1>8. CASE \E ids \in {{}, {j}}, c \in Unused : table = Done(j, Canceling(j, FollowUp(j, jobs, c), ids))
  <2>1. PICK ids \in {{}, {j}}, c \in Unused : table = Done(j, Canceling(j, FollowUp(j, jobs, c), ids))
    BY <1>8
  <2>2. table[k] = Canceling(j, FollowUp(j, jobs, c), ids)[k]
    BY <1>2, <1>4, <2>1
  <2>3. Canceling(j, FollowUp(j, jobs, c), ids)[k] = FollowUp(j, jobs, c)[k]
    BY DEF CancelJobs, Canceling
  <2> QED
    BY <1>1, <1>3, <1>5, <2>2, <2>3
<1> QED
  <2>1. CASE table \in {Done(j, Canceling(j, jobs, ids)) : ids \in {{}} \cup {{x} : x \in Cancelable(j)}}
    BY <1>6, <2>1
  <2>2. CASE table \in {Done(j, FollowUp(j, Canceling(j, jobs, ids), c)) : ids \in {{}, {j}}, c \in Unused}
    BY <1>7, <2>2
  <2>3. CASE table \in {Done(j, Canceling(j, FollowUp(j, jobs, c), ids)) : ids \in {{}, {j}}, c \in Unused}
    BY <1>8, <2>3
  <2> QED
    BY <2>1, <2>2, <2>3 DEF MutationWrites

\* The task of a job replaces its document.
LEMMA OwnDoc ==
  ASSUME TypeOK, NEW k \in Jobs, jobs[k].state \in Live, task[k].phase # "action",
         NEW doc, Commit([jobs EXCEPT ![k] = doc]), NEW j \in Jobs
  PROVE  DocStep(j)
<1>1. jobs' = [jobs EXCEPT ![k] = doc]
  BY DEF Commit
<1>2. CASE j = k
  BY <1>2 DEF DocStep
<1>3. CASE j # k
  BY <1>1, <1>3 DEF DocStep, TypeOK
<1> QED
  BY <1>2, <1>3

LEMMA ScheduleDoc ==
  ASSUME TypeOK, NEW k \in Jobs, NEW parent \in Jobs \cup {None}, NEW ts,
         Schedule(k, parent, ts), parent = None \/ task[parent].phase = "action", NEW j \in Jobs
  PROVE  DocStep(j)
<1> DEFINE doc == NewJob(jobs, parent, ts, now)
<1>1. jobs[k] = Absent /\ jobs' = [jobs EXCEPT ![k] = doc]
  BY DEF Schedule, Commit
<1>2. /\ doc.parent = parent
      /\ parent # None /\ jobs[parent].state = "Canceled" => doc.state = "Canceled"
  BY NewJobParent
<1> HIDE DEF doc
<1>3. 0 \notin Jobs
  OBVIOUS
<1>4. CASE j = k
  <2>1. jobs'[j] = doc
    BY <1>1, <1>4 DEF TypeOK
  <2> QED
    BY <1>1, <1>2, <1>3, <1>4, <2>1 DEF DocStep, Inherits, None
<1>5. CASE j # k
  BY <1>1, <1>5 DEF DocStep, TypeOK
<1> QED
  BY <1>4, <1>5

LEMMA TaskStepDoc ==
  ASSUME TypeOK, TasksHoldLive, NEW k \in Jobs, TaskStep(k), NEW j \in Jobs
  PROVE  DocStep(j)
<1>1. CASE jobs' = jobs
  BY <1>1 DEF DocStep
<1>2. CASE StateChanged(k) \/ UnchangedTable
  BY <1>1, <1>2 DEF StateChanged, UnchangedTable
<1>3. ASSUME Matches(k), task[k].phase # "idle" PROVE jobs[k].state \in Live
  BY <1>3 DEF Matches, TasksHoldLive
<1>4. ASSUME Matches(k), task[k].phase \notin {"idle", "action"}, NEW state, CompleteAs(k, state)
      PROVE  DocStep(j)
  BY <1>3, <1>4, OwnDoc DEF CompleteAs
<1>5. CASE RunFunction(k)
  BY <1>2, <1>4, <1>5 DEF RunFunction, InPhase
<1>6. CASE CommitMutation(k)
  <2>1. CASE /\ Validated(k) /\ \E table \in MutationWrites(k) : Commit(table)
    <3>1. PICK table \in MutationWrites(k) : Commit(table)
      BY <2>1
    <3>2. jobs[k].state \in Live /\ task[k].phase = "mutation" /\ jobs' = table
      BY <1>3, <1>6, <2>1, <3>1 DEF CommitMutation, InPhase, Validated, Commit
    <3>3. CASE j = k
      BY <3>2, <3>3 DEF DocStep
    <3>4. CASE j # k
      <4>1. \/ table[j] = jobs[j] \/ CanceledSince(j, jobs[j], table[j])
            \/ jobs[j] = Absent /\ table[j].parent = k
        BY <3>2, <3>4, MutationDoc
      <4> QED
        BY <3>2, <4>1 DEF DocStep, Inherits
    <3> QED
      BY <3>3, <3>4
  <2> QED
    BY <1>2, <1>6, <2>1 DEF CommitMutation
<1>7. CASE MutationThrows(k) \/ ActionReturns(k)
  BY <1>2, <1>7 DEF MutationThrows, ActionReturns
<1>8. CASE FailMutation(k)
  BY <1>2, <1>4, <1>8 DEF FailMutation, InPhase
<1>9. CASE HandleAction(k)
  <2>1. task[k].phase \notin {"idle", "action"}
    BY <1>9 DEF HandleAction, InPhase
  <2>2. CASE Matches(k) /\ Commit([jobs EXCEPT ![k] = [jobs[k] EXCEPT !.state = "InProgress"]])
    BY <1>3, <2>1, <2>2, OwnDoc
  <2> QED
    BY <1>2, <1>4, <1>9, <2>1, <2>2 DEF HandleAction
<1>10. CASE CompleteAction(k)
  BY <1>2, <1>4, <1>10 DEF CompleteAction, InPhase
<1>11. CASE ScheduleRetry(k)
  <2>1. task[k].phase \notin {"idle", "action"}
    BY <1>11 DEF ScheduleRetry, InPhase
  <2>2. ASSUME Matches(k), NEW ts, Commit([jobs EXCEPT ![k] = Retried(k, ts)]) PROVE DocStep(j)
    BY <1>3, <2>1, <2>2, OwnDoc
  <2> QED
    BY <1>2, <1>11, <2>2 DEF ScheduleRetry
<1> QED
  BY <1>5, <1>6, <1>7, <1>8, <1>9, <1>10, <1>11 DEF TaskStep

LEMMA NextDoc ==
  ASSUME JobsInv, [Next]_vars, NEW j \in Jobs
  PROVE  DocStep(j)
<1>1. TypeOK /\ TasksHoldLive
  BY DEF JobsInv
<1>2. CASE jobs' = jobs
  BY <1>2 DEF DocStep
<1>3. CASE RunOnce \/ Wake \/ Crash \/ StopBackend \/ StartBackend \/ Tick \/ UNCHANGED vars
  BY <1>2, <1>3 DEF RunOnce, Wake, Crash, StopBackend, StartBackend, Tick, vars, tableVars
<1>4. ASSUME NEW k \in Jobs, TaskFails(k) \/ \E type \in FunctionTypes : Push(k, type)
      PROVE  DocStep(j)
  BY <1>2, <1>4 DEF TaskFails, UnchangedTable, Push
<1>5. ASSUME NEW ids, Commit(CancelJobs(jobs, ids, now)) PROVE DocStep(j)
  BY <1>1, <1>5, CancelDoc DEF Commit, DocStep
<1>6. CASE CancelAll
  BY <1>5, <1>6 DEF CancelAll
<1>7. CASE CollectGarbage
  <2>1. PICK ids \in SUBSET Jobs :
          /\ ids \subseteq Collectable
          /\ jobs' = [k \in Jobs |-> IF k \in ids THEN Deleted ELSE jobs[k]]
    BY <1>7 DEF CollectGarbage, IsFirst, Commit
  <2> QED
    BY <2>1 DEF DocStep
<1>8. ASSUME NEW k \in Jobs, ClientSchedules(k) \/ ActionSchedules(k) \/ Cancel(k)
      PROVE  DocStep(j)
  <2>1. CASE ClientSchedules(k)
    BY <1>1, <2>1, ScheduleDoc DEF ClientSchedules
  <2>2. CASE ActionSchedules(k)
    BY <1>1, <2>2, ScheduleDoc DEF ActionSchedules
  <2>3. CASE Cancel(k)
    BY <1>5, <2>3 DEF Cancel
  <2> QED
    BY <1>8, <2>1, <2>2, <2>3
<1>9. ASSUME NEW k \in Jobs, TaskStep(k) PROVE DocStep(j)
  BY <1>1, <1>9, TaskStepDoc
<1> QED
  BY <1>3, <1>4, <1>6, <1>7, <1>8, <1>9 DEF Next

\* A running action is left alone, or it is the one that is starting.
Starts(p) == task'[p].begin = now /\ jobs'[p].state = "InProgress" /\ now' = now

LEMMA NextAction ==
  ASSUME JobsInv, [Next]_vars, NEW p \in Jobs, task'[p].phase = "action"
  PROVE  task'[p] = task[p] \/ Starts(p)
<1>1. task \in [Jobs -> TaskType] /\ task[p] \in TaskType
  BY SplitType DEF JobsInv, GoodTasks
<1>2. ASSUME NEW k \in Jobs, NEW t, task' = [task EXCEPT ![k] = t], t.phase # "action"
      PROVE  task'[p] = task[p]
  BY <1>1, <1>2
<1>3. ASSUME NEW k \in Jobs, Finish(k) PROVE task'[p] = task[p]
  BY <1>2, <1>3 DEF Finish, Idle
<1>4. ASSUME NEW k \in Jobs, NEW phase, phase # "action", To(k, phase)
      PROVE  task'[p] = task[p]
  BY <1>1, <1>4 DEF To, TaskType
<1>5. ASSUME NEW k \in Jobs, StateChanged(k) PROVE task'[p] = task[p]
  BY <1>3, <1>4, <1>5 DEF StateChanged
<1>6. ASSUME NEW k \in Jobs, HandleAction(k) PROVE task'[p] = task[p] \/ Starts(p)
  <2> DEFINE doc == [jobs[k] EXCEPT !.state = "InProgress"]
  <2>1. CASE StateChanged(k) \/ Finish(k)
    BY <1>3, <1>5, <2>1
  <2>2. CASE /\ Commit([jobs EXCEPT ![k] = doc])
             /\ task' = [task EXCEPT ![k].phase = "action", ![k].job = doc, ![k].begin = now]
    <3>1. jobs \in [Jobs -> MetadataType] /\ doc.state = "InProgress"
      <4>1. jobs \in [Jobs -> MetadataType]
        BY DEF JobsInv, TypeOK
      <4> QED
        BY <4>1 DEF MetadataType
    <3> HIDE DEF doc
    <3>2. CASE k = p
      <4>1. jobs'[p].state = "InProgress"
        BY <2>2, <3>1, <3>2 DEF Commit
      <4>2. task'[p].begin = now
        BY <1>1, <2>2, <3>2 DEF TaskType
      <4>3. now' = now
        BY <1>6 DEF HandleAction, UnchangedByTask
      <4> QED
        BY <4>1, <4>2, <4>3 DEF Starts
    <3>3. CASE k # p
      BY <1>1, <2>2, <3>3
    <3> QED
      BY <3>2, <3>3
  <2> QED
    BY <1>6, <2>1, <2>2 DEF HandleAction
<1>7. ASSUME NEW k \in Jobs, RunFunction(k) PROVE task'[p] = task[p]
  <2>1. CASE StateChanged(k) \/ Finish(k) \/ To(k, "handle_action")
    BY <1>3, <1>4, <1>5, <2>1
  <2>2. CASE task' = [task EXCEPT ![k].phase = "mutation", ![k].begin = now]
    <3>1. CASE k = p
      BY <1>1, <2>2, <3>1 DEF TaskType
    <3>2. CASE k # p
      BY <1>1, <2>2, <3>2
    <3> QED
      BY <3>1, <3>2
  <2> QED
    BY <1>7, <2>1, <2>2 DEF RunFunction
<1>8. ASSUME NEW k \in Jobs, ActionReturns(k) PROVE task'[p] = task[p]
  <2>1. PICK ok \in BOOLEAN : task' = [task EXCEPT ![k].phase = "complete", ![k].ok = ok]
    BY <1>8 DEF ActionReturns
  <2>2. CASE k = p
    BY <1>1, <2>1, <2>2 DEF TaskType
  <2>3. CASE k # p
    BY <1>1, <2>1, <2>3
  <2> QED
    BY <2>2, <2>3
<1>9. ASSUME NEW k \in Jobs,
             \/ CommitMutation(k) \/ MutationThrows(k) \/ FailMutation(k)
             \/ CompleteAction(k) \/ ScheduleRetry(k) \/ TaskFails(k)
      PROVE  task'[p] = task[p]
  <2>1. CASE task' = [task EXCEPT ![k].phase = "retry", ![k].job.state = "Pending"]
    BY <1>1, <1>2, <2>1, OriginalTask
  <2> QED
    BY <1>3, <1>4, <1>5, <1>9, <2>1
     DEF CommitMutation, MutationThrows, FailMutation, CompleteAction, ScheduleRetry, TaskFails
<1>10. CASE RunOnce
  <2>1. CASE QueryAndStartJobs
    <3>1. PICK ids \in SUBSET Jobs :
            task' = [k \in Jobs |-> IF k \in ids
                                    THEN [Idle EXCEPT !.phase = "start", !.job = jobs[k]]
                                    ELSE task[k]]
      BY <2>1 DEF QueryAndStartJobs, Unstarted
    <3> QED
      BY <3>1 DEF Idle
  <2> QED
    BY <1>10, <2>1 DEF RunOnce
<1>11. CASE Crash
  BY <1>11 DEF Crash, Idle
<1>12. CASE Wake \/ CancelAll \/ CollectGarbage \/ StopBackend \/ StartBackend \/ Tick \/ UNCHANGED vars
  BY <1>12 DEF Wake, CancelAll, CollectGarbage, StopBackend, StartBackend, Tick, vars
<1>13. ASSUME NEW k \in Jobs, ClientSchedules(k) \/ ActionSchedules(k) \/ Cancel(k)
       PROVE  task'[p] = task[p]
  BY <1>13 DEF ClientSchedules, ActionSchedules, Cancel, Schedule
<1>14. ASSUME NEW k \in Jobs, NEW type \in FunctionTypes, Push(k, type)
       PROVE  task'[p] = task[p]
  BY <1>14 DEF Push
<1>15. ASSUME NEW k \in Jobs, TaskStep(k) PROVE task'[p] = task[p] \/ Starts(p)
  BY <1>6, <1>7, <1>8, <1>9, <1>15 DEF TaskStep
<1> QED
  BY <1>9, <1>10, <1>11, <1>12, <1>13, <1>14, <1>15 DEF Next

\* The clock moves by one, and not past the time limit of an action.
LEMMA NextClock ==
  ASSUME [Next]_vars
  PROVE  \/ now' = now
         \/ /\ now' = now + 1
            /\ \A p \in Jobs : task[p].phase = "action" => now < task[p].begin + ActionTimeout
<1>1. CASE Tick
  BY <1>1 DEF Tick, InPhase
<1>2. CASE RunOnce \/ Wake \/ CancelAll \/ CollectGarbage \/ Crash \/ StopBackend \/ StartBackend \/ UNCHANGED vars
  BY <1>2 DEF RunOnce, Wake, CancelAll, CollectGarbage, Crash, StopBackend, StartBackend, vars, tableVars
<1>3. ASSUME NEW k \in Jobs, ClientSchedules(k) \/ ActionSchedules(k) \/ Cancel(k) \/ TaskFails(k)
      PROVE  now' = now
  BY <1>3 DEF ClientSchedules, ActionSchedules, Cancel, Schedule, TaskFails
<1>4. ASSUME NEW k \in Jobs, TaskStep(k) PROVE now' = now
  <2>1. UnchangedByTask
    BY <1>4 DEF TaskStep, RunFunction, CommitMutation, MutationThrows, FailMutation, HandleAction,
                ActionReturns, CompleteAction, ScheduleRetry
  <2> QED
    BY <2>1 DEF UnchangedByTask
<1>5. ASSUME NEW k \in Jobs, NEW type \in FunctionTypes, Push(k, type) PROVE now' = now
  BY <1>5 DEF Push
<1> QED
  BY <1>1, <1>2, <1>3, <1>4, <1>5 DEF Next

LEMMA NextInTime ==
  ASSUME JobsInv, ActionsInTime, [Next]_vars, ActionTimeout < Retention
  PROVE  ActionsInTime'
<1> SUFFICES ASSUME NEW p \in Jobs, task'[p].phase = "action"
             PROVE  /\ task'[p].begin \in Timestamps /\ task'[p].begin <= now'
                    /\ now' <= task'[p].begin + ActionTimeout
                    /\ jobs'[p].state \in Terminal \cup {"InProgress"}
                    /\ jobs'[p].state \in Terminal => task'[p].begin <= jobs'[p].completed_ts
  BY DEF ActionsInTime
<1>1. now \in Timestamps /\ now \in Nat
  BY DEF JobsInv, TypeOK, Timestamps
<1>2. CASE Starts(p)
  BY <1>1, <1>2 DEF Starts, Terminal
<1>3. CASE task'[p] = task[p]
  <2>1. /\ task[p].begin \in Timestamps /\ task[p].begin \in Nat /\ task[p].begin <= now
        /\ now <= task[p].begin + ActionTimeout
        /\ jobs[p].state \in Terminal \cup {"InProgress"}
        /\ jobs[p].state \in Terminal => task[p].begin <= jobs[p].completed_ts
    BY <1>3 DEF ActionsInTime, Timestamps
  <2>2. task[p].begin <= now' /\ now' <= task[p].begin + ActionTimeout
    <3>1. CASE now' = now
      BY <2>1, <3>1
    <3>2. CASE now' = now + 1 /\ now < task[p].begin + ActionTimeout
      BY <1>1, <2>1, <3>2
    <3> QED
      BY <1>3, <3>1, <3>2, NextClock
  <2>3. p \notin Collectable
    <3> SUFFICES ASSUME p \in Collectable PROVE FALSE
      OBVIOUS
    <3>1. jobs[p].completed_ts # None /\ jobs[p].completed_ts + Retention <= now
      BY DEF Collectable, CompletedTs
    <3>2. GoodDoc(jobs[p])
      BY TypeOKTables DEF JobsInv
    <3>3. jobs[p].state \in Terminal
      BY <3>1, <3>2 DEF GoodDoc
    <3>4. jobs[p].completed_ts \in Nat
      BY <3>2 DEF GoodDoc, MetadataType, Timestamps, None
    <3> QED
      BY <1>1, <2>1, <3>1, <3>3, <3>4
  <2>4. jobs[p] # Absent
    BY <2>1 DEF Absent, Metadata, Terminal
  <2>5. jobs'[p] = jobs[p] \/ CanceledSince(p, jobs[p], jobs'[p])
    BY <1>3, <2>3, <2>4, NextDoc DEF DocStep
  <2>6. CASE jobs'[p] = jobs[p]
    BY <1>3, <2>1, <2>2, <2>6
  <2>7. CASE CanceledSince(p, jobs[p], jobs'[p])
    BY <1>3, <2>1, <2>2, <2>7 DEF CanceledSince, Terminal
  <2> QED
    BY <2>5, <2>6, <2>7
<1> QED
  BY <1>2, <1>3, NextAction

\* A canceled action that is still running has not been collected.
LEMMA InheritsCanceled ==
  ASSUME JobsInv, ActionsInTime, [Next]_vars, NEW j \in Jobs, jobs[j] = Absent,
         jobs'[j].parent \in canceled
  PROVE  jobs'[j].state = "Canceled"
<1>1. canceled \subseteq Jobs /\ None \notin canceled
  BY DEF JobsInv, TypeOK, None
<1>2. jobs[j].parent = None /\ Deleted.parent = None /\ jobs[j].state = "none"
  BY DEF Absent, Deleted, Metadata
<1>3. "none" \notin Live
  BY DEF Live
<1>4. Inherits(j)
  BY <1>1, <1>2, <1>3, NextDoc DEF DocStep, CanceledSince
<1>5. PICK p \in Jobs : /\ jobs'[j].parent = p
                        /\ \/ jobs[p].state \in Live
                           \/ /\ task[p].phase = "action"
                              /\ jobs[p].state = "Canceled" => jobs'[j].state = "Canceled"
  BY <1>1, <1>4 DEF Inherits
<1>6. jobs[p].state \in {"Canceled", "Deleted"}
  BY <1>5 DEF JobsInv, CanceledStays
<1>7. task[p].phase = "action" => jobs[p].state # "Deleted"
  BY DEF ActionsInTime, Terminal
<1> QED
  BY <1>5, <1>6, <1>7 DEF Live

\* While the retention of ended jobs outlasts the time limit of actions, a job
\* scheduled by a canceled one is born canceled: the running action of it still
\* finds its own document, however late it schedules.
THEOREM CancellationIsInherited == ActionTimeout < Retention /\ Spec => CancelIsRecursive
<1> SUFFICES ASSUME ActionTimeout < Retention PROVE Spec => CancelIsRecursive
  OBVIOUS
<1>1. Init => ActionsInTime
  BY DEF Init, ActionsInTime, Idle
<1>2. JobsInv /\ ActionsInTime /\ [Next]_vars => ActionsInTime'
  BY NextInTime
<1>3. JobsInv /\ ActionsInTime /\ [Next]_vars
        => [\A j \in Jobs : jobs[j] = Absent /\ jobs'[j].parent \in canceled
                             => jobs'[j].state = "Canceled"]_vars
  BY InheritsCanceled
<1> QED
  BY <1>1, <1>2, <1>3, JobsInvariant, PTL DEF Spec, CancelIsRecursive

-------------------------------------------------------------------------------
(* Cron jobs: the invariant that says which ticks have run.                *)

\* A run in the history, which has the tick, the specification and a number:
\* it is of cron job c while the cron job had the given id.
RunOf(r, c, id) == r[1][1][1] = c /\ r[1][1][2] = id
RunTs(r) == r[1][1][3]
RunSpec(r) == r[1][2]

CronPhases == {"idle", "start", "mutation", "fail", "action", "complete"}

CronTable ==
  /\ crons \in [Crons -> Cron!CronType \cup {Cron!NoCron}]
  /\ now \in Nat \ {0} /\ pushes \in 0..MaxCronPushes
  /\ \A c \in Crons : Cron!Exists(c) =>
       crons[c].prev_ts < crons[c].next_ts /\ crons[c].prev_ts <= now /\ crons[c].id <= pushes

CronTaskType == [phase : CronPhases, job : Cron!CronType \cup {Cron!NoCron}]

\* A task runs a job that was due by the time; only mutations, and actions in
\* progress, get to the phases that end them.
TaskOK(t, time) ==
  t.phase # "idle" =>
    /\ t.job \in Cron!CronType /\ t.job.next_ts <= time
    /\ t.phase \in {"mutation", "fail"} => t.job.spec.type = "mutation"
    /\ t.phase \in {"action", "complete"} => t.job.state = "InProgress"

CronTasks ==
  cron_task \in [Crons -> CronTaskType] /\ \A c \in Crons : TaskOK(cron_task[c], now)

CronRuns == \A r \in ran : r[1] \in Cron!Ticks \X CronSpecs /\ r[1][1][2] <= pushes

\* The runs of a cron job are of ticks that have passed, or they are the action
\* in progress; unless a deployment moved such a run.
CronPassed ==
  \A c \in Crons : Cron!Exists(c) /\ <<c, crons[c].id>> \notin moved =>
    \A r \in ran : RunOf(r, c, crons[c].id) =>
      \/ RunTs(r) <= crons[c].prev_ts
      \/ /\ crons[c].state = "InProgress" /\ RunTs(r) = crons[c].next_ts
         /\ RunSpec(r).type = "action"

CronOnce == \A r \in ran : r[2] = 1 \/ <<r[1][1][1], r[1][1][2]>> \in moved

\* A run in progress has started, as long as there was no deployment.
CronStarted ==
  \A c \in Crons : Cron!Exists(c) /\ crons[c].id = pushes /\ crons[c].state = "InProgress" =>
    \E r \in ran : r[1][1] = <<c, crons[c].id, crons[c].next_ts>>

Accounted(tick) == tick \in skipped \cup given_up \/ \E r \in ran : r[1][1] = tick

\* Every tick before the next one, from the first run on, is accounted for.
CronAccounted ==
  \A c \in Crons : Cron!Exists(c) /\ crons[c].spec.schedule = "interval" /\ crons[c].id = pushes =>
    \A ts \in 1..(crons[c].next_ts - 1) :
      /\ (crons[c].next_ts - ts) % crons[c].spec.period = 0
      /\ \E r \in ran : RunOf(r, c, crons[c].id) /\ RunTs(r) <= ts
      => Accounted(<<c, crons[c].id, ts>>)

CronInv ==
  CronTable /\ CronTasks /\ CronRuns /\ CronPassed /\ CronOnce /\ CronStarted /\ CronAccounted

-------------------------------------------------------------------------------
(* Cron jobs: multiples of a period, and the times of runs.                *)

LEMMA Multiple ==
  ASSUME NEW p \in Nat \ {0}, NEW a \in Int
  PROVE  /\ a % p = 0 => \E k \in Int : a = k * p
         /\ \A k \in Int : (k * p) % p = 0
OBVIOUS

LEMMA MultiplesAdd ==
  ASSUME NEW p \in Nat \ {0}, NEW a \in Int, NEW b \in Int, a % p = 0, b % p = 0
  PROVE  (a + b) % p = 0 /\ (a - b) % p = 0
<1>1. PICK i \in Int : a = i * p
  BY Multiple
<1>2. PICK j \in Int : b = j * p
  BY Multiple
<1>3. a + b = (i + j) * p /\ a - b = (i - j) * p /\ i + j \in Int /\ i - j \in Int
  BY <1>1, <1>2
<1>4. ((i + j) * p) % p = 0 /\ ((i - j) * p) % p = 0
  BY <1>3, Multiple
<1> QED
  BY <1>3, <1>4

\* The first multiple after ts.
LEMMA NextMultiple ==
  ASSUME NEW p \in Nat \ {0}, NEW ts \in Nat
  PROVE  ((ts \div p) + 1) * p \in Nat /\ ((ts \div p) + 1) * p > ts
<1>1. PICK q \in Int : q = ts \div p
  OBVIOUS
<1>2. ts % p \in 0..(p - 1) /\ ts = p * q + (ts % p)
  BY <1>1
<1>3. PICK m \in 0..(p - 1) : m = ts % p
  BY <1>2
<1>4. ts = p * q + m /\ (q + 1) * p = p * q + p
  BY <1>2, <1>3
<1>5. PICK x \in Int : x = p * q
  OBVIOUS
<1>6. ts = x + m /\ (q + 1) * p = x + p
  BY <1>4, <1>5
<1>7. x + p \in Nat /\ x + p > ts
  BY <1>6
<1> QED
  BY <1>1, <1>6, <1>7

LEMMA CronMax ==
  ASSUME NEW S \in SUBSET Nat, S # {}, NEW bound \in Nat, \A x \in S : x <= bound
  PROVE  Cron!Max(S) \in S /\ \A x \in S : x <= Cron!Max(S)
<1> DEFINE Bounds == {b \in Nat : \A x \in S : x <= b}
<1>1. bound \in Bounds
  OBVIOUS
<1>2. PICK b \in Bounds : \A c \in Bounds : b <= c
  BY <1>1, LeastNat
<1>3. b \in S
  <2>1. CASE b = 0
    <3>1. PICK x \in S : TRUE
      OBVIOUS
    <3>2. x \in Nat /\ x <= b
      BY <1>2
    <3> QED
      BY <2>1, <3>2
  <2>2. CASE b # 0
    <3>1. b - 1 \in Nat /\ b - 1 \notin Bounds
      BY <2>2, <1>2
    <3>2. PICK x \in S : ~(x <= b - 1)
      BY <3>1
    <3> QED
      BY <3>2, <1>2
  <2> QED
    BY <2>1, <2>2
<1>4. \E x \in S : \A y \in S : y <= x
  BY <1>2, <1>3
<1> QED
  BY <1>4 DEF Cron!Max

LEMMA CronConstants ==
  /\ MaxCronTs \in Nat /\ MaxCronPushes \in Nat
  /\ \A spec \in CronSpecs : /\ spec.schedule \in {"interval", "calendar"}
                             /\ spec.period \in Nat \ {0} /\ spec.type \in {"mutation", "action"}
BY CronAssumption DEF Cron!CronJobsAssumption, Cron!Schedules

LEMMA CronFields ==
  ASSUME NEW cron \in Cron!CronType
  PROVE  /\ cron.id \in Nat /\ cron.id \in 0..MaxCronPushes /\ cron.spec \in CronSpecs
         /\ cron.state \in {"Pending", "InProgress"} /\ cron.prev_ts \in Nat /\ cron.next_ts \in Nat
         /\ cron # Cron!NoCron
<1>1. /\ cron.id \in 0..MaxCronPushes /\ cron.spec \in CronSpecs
      /\ cron.state \in {"Pending", "InProgress"} /\ cron.prev_ts \in Nat /\ cron.next_ts \in Nat
  BY DEF Cron!CronType
<1>2. cron # Cron!NoCron
  <2>1. DOMAIN cron = {"id", "spec", "state", "prev_ts", "next_ts"}
    BY DEF Cron!CronType
  <2>2. DOMAIN Cron!NoCron = 1..0
    BY DEF Cron!NoCron
  <2>3. "id" \notin 1..0
    OBVIOUS
  <2> QED
    BY <2>1, <2>2, <2>3
<1> QED
  BY <1>1, <1>2, CronConstants

\* A cron job that is there has the type, and is not NoCron.
LEMMA CronPresent ==
  ASSUME CronTable, NEW c \in Crons
  PROVE  /\ Cron!Exists(c) <=> crons[c] \in Cron!CronType
         /\ now \in Nat /\ now >= 1 /\ pushes \in Nat
  BY CronFields, CronConstants DEF CronTable, Cron!Exists

LEMMA NextRun ==
  ASSUME NEW spec \in CronSpecs, NEW prev \in Nat, NEW ts \in Nat \ {0},
         prev <= ts \/ spec.schedule = "interval"
  PROVE  /\ Cron!compute_next_ts(spec, prev, ts) \in Nat
         /\ Cron!compute_next_ts(spec, prev, ts) > prev
         /\ spec.schedule = "interval" /\ prev # 0
              => Cron!compute_next_ts(spec, prev, ts) = prev + spec.period
<1>1. PICK p \in Nat \ {0} : p = spec.period
  BY CronConstants
<1>2. CASE spec.schedule = "interval"
  BY <1>1, <1>2 DEF Cron!compute_next_ts, Cron!NoTs
<1>3. CASE spec.schedule # "interval"
  <2>1. Cron!compute_next_ts(spec, prev, ts) = ((ts \div p) + 1) * p
    BY <1>1, <1>3 DEF Cron!compute_next_ts
  <2> QED
    BY <1>3, <2>1, NextMultiple
<1> QED
  BY <1>2, <1>3

\* complete_job_run finds the last run that is in the past.
LEMMA LastSkipped ==
  ASSUME NEW job \in Cron!CronType, now \in Nat, now >= 1, job.next_ts <= now, job.next_ts >= 1
  PROVE  LET past == Cron!SkippedRuns(job)
             last == Cron!Max(past \cup {job.next_ts}) IN
         /\ last \in Nat /\ job.next_ts <= last /\ last <= now
         /\ past \subseteq Nat
         /\ job.spec.schedule = "interval" =>
              /\ (last - job.next_ts) % job.spec.period = 0
              /\ \A ts \in Nat : job.next_ts < ts /\ ts <= last /\ (ts - job.next_ts) % job.spec.period = 0
                                   => ts \in past
<1> DEFINE past == Cron!SkippedRuns(job)
           S == past \cup {job.next_ts}
           last == Cron!Max(S)
<1>1. PICK n \in Nat : n = job.next_ts /\ n <= now /\ n >= 1
  BY CronFields
<1>2. PICK p \in Nat \ {0} : p = job.spec.period
  BY CronFields, CronConstants
<1>3. \A ts \in past : ts \in Nat /\ ts <= now /\ ts > n /\ job.spec.schedule = "interval" /\ (ts - n) % p = 0
  BY <1>1, <1>2 DEF Cron!SkippedRuns
<1>4. last \in S /\ \A x \in S : x <= last
  <2>1. S \in SUBSET Nat /\ S # {} /\ \A x \in S : x <= now
    BY <1>1, <1>3
  <2> QED
    BY <2>1, CronMax
<1>5. last \in Nat /\ n <= last /\ last <= now
  BY <1>1, <1>3, <1>4
<1>6. ASSUME job.spec.schedule = "interval"
      PROVE  /\ (last - n) % p = 0
             /\ \A ts \in Nat : n < ts /\ ts <= last /\ (ts - n) % p = 0 => ts \in past
  <2>1. (n - n) % p = 0
    <3>1. n - n = 0 * p
      OBVIOUS
    <3> QED
      BY <3>1, Multiple
  <2>2. (last - n) % p = 0
    BY <1>1, <1>3, <1>4, <2>1
  <2>3. ASSUME NEW ts \in Nat, n < ts, ts <= last, (ts - n) % p = 0
        PROVE  ts \in past
    <3>1. last \in past
      BY <1>1, <1>4, <1>5, <2>3
    <3>2. last \in 1..(now - 1)
      BY <1>6, <3>1 DEF Cron!SkippedRuns
    <3>3. ts \in 1..(now - 1)
      BY <2>3, <3>2, <1>5
    <3> QED
      BY <1>1, <1>2, <1>6, <2>3, <3>3 DEF Cron!SkippedRuns
  <2> QED
    BY <2>2, <2>3
<1> QED
  BY <1>1, <1>2, <1>3, <1>5, <1>6

\* A positive multiple of a period is at least the period.
LEMMA PositiveMultiple ==
  ASSUME NEW p \in Nat \ {0}, NEW a \in Nat \ {0}, a % p = 0
  PROVE  a >= p
<1>1. PICK k \in Int : a = k * p
  BY Multiple
<1> QED
  BY <1>1

-------------------------------------------------------------------------------
(* Cron jobs: what completing a run and counting one do.                   *)

\* complete_job_run: the run becomes the previous one and a later run pending;
\* the runs in between are logged.
LEMMA CompletedCron ==
  ASSUME CronTable, NEW c \in Crons, Cron!Exists(c), crons[c].next_ts <= now,
         Cron!CompleteJobRun(c, crons[c])
  PROVE  /\ crons' = [crons EXCEPT ![c] = crons'[c]]
         /\ crons'[c] \in Cron!CronType
         /\ crons'[c].id = crons[c].id /\ crons'[c].spec = crons[c].spec
         /\ crons'[c].state = "Pending" /\ crons'[c].prev_ts = crons[c].next_ts
         /\ crons'[c].next_ts > crons[c].next_ts
         /\ skipped \subseteq skipped'
         /\ crons[c].spec.schedule = "interval" => \E last \in Nat :
              /\ crons'[c].next_ts = last + crons[c].spec.period
              /\ crons[c].next_ts <= last /\ (last - crons[c].next_ts) % crons[c].spec.period = 0
              /\ \A ts \in Nat : /\ crons[c].next_ts < ts /\ ts <= last
                                 /\ (ts - crons[c].next_ts) % crons[c].spec.period = 0
                                 => <<c, crons[c].id, ts>> \in skipped'
<1> DEFINE job == crons[c]
           past == Cron!SkippedRuns(job)
           last == Cron!Max(past \cup {job.next_ts})
           next == Cron!compute_next_ts(job.spec, last, now)
           new == Cron!Cron(job.id, job.spec, "Pending", job.next_ts, next)
<1>1. /\ job \in Cron!CronType /\ now \in Nat /\ now >= 1
      /\ crons \in [Crons -> Cron!CronType \cup {Cron!NoCron}]
      /\ job.prev_ts < job.next_ts
  BY CronPresent DEF CronTable
<1>2. /\ job.id \in 0..MaxCronPushes /\ job.spec \in CronSpecs
      /\ job.next_ts \in Nat /\ job.next_ts >= 1 /\ job.next_ts <= now
  BY <1>1, CronFields
<1>3. /\ last \in Nat /\ job.next_ts <= last /\ last <= now
      /\ past \subseteq Nat
      /\ job.spec.schedule = "interval" =>
           /\ (last - job.next_ts) % job.spec.period = 0
           /\ \A ts \in Nat : job.next_ts < ts /\ ts <= last /\ (ts - job.next_ts) % job.spec.period = 0
                                => ts \in past
  BY <1>1, <1>2, LastSkipped
<1>4. /\ next \in Nat /\ next > last
      /\ job.spec.schedule = "interval" => next = last + job.spec.period
  <2>1. now \in Nat \ {0} /\ last # 0 /\ last \in Nat
    BY <1>1, <1>2, <1>3
  <2> HIDE DEF last
  <2> QED
    BY <1>2, <1>3, <2>1, NextRun
<1>5. crons' = [crons EXCEPT ![c] = new] /\ skipped' = skipped \cup {<<c, job.id, ts>> : ts \in past}
  BY DEF Cron!CompleteJobRun
<1>6. crons'[c] = new /\ crons' = [crons EXCEPT ![c] = crons'[c]]
  BY <1>1, <1>5
<1> HIDE DEF next, last, past
<1>7. /\ new \in Cron!CronType /\ new.id = job.id /\ new.spec = job.spec /\ new.state = "Pending"
      /\ new.prev_ts = job.next_ts /\ new.next_ts = next
  BY <1>2, <1>4 DEF Cron!Cron, Cron!CronType
<1>8. next > job.next_ts
  BY <1>2, <1>3, <1>4
<1>9. ASSUME NEW ts \in past PROVE <<c, job.id, ts>> \in skipped'
  BY <1>5
<1>10. ASSUME job.spec.schedule = "interval"
       PROVE  /\ next = last + job.spec.period
              /\ job.next_ts <= last /\ (last - job.next_ts) % job.spec.period = 0
              /\ \A ts \in Nat : /\ job.next_ts < ts /\ ts <= last
                                 /\ (ts - job.next_ts) % job.spec.period = 0
                                 => <<c, job.id, ts>> \in skipped'
  BY <1>3, <1>4, <1>9, <1>10
<1> HIDE DEF new
<1>11. skipped \subseteq skipped'
  BY <1>5
<1> QED
  BY <1>3, <1>6, <1>7, <1>8, <1>10, <1>11

\* Count records a run of the tick, the first one unless a deployment moved it.
LEMMA CountedRun ==
  ASSUME CronInv, NEW c \in Crons, Cron!Exists(c), cron_task[c].job = crons[c], Cron!Count(c),
         crons[c].state = "Pending" \/ crons[c].spec.type = "mutation"
  PROVE  \E r0 : /\ ran' = ran \cup {r0}
                 /\ r0[1] = <<<<c, crons[c].id, crons[c].next_ts>>, crons[c].spec>>
                 /\ r0[2] = 1 \/ <<c, crons[c].id>> \in moved
<1> DEFINE tick == <<c, crons[c].id, crons[c].next_ts>>
           run == <<tick, crons[c].spec>>
           S == {r \in ran : r[1] = run}
           r0 == <<run, 1 + Cron!Cardinality(S)>>
<1>1. ran' = ran \cup {r0}
  BY DEF Cron!Count, Cron!Tick
<1>2. r0[1] = run /\ r0[2] = 1 + Cron!Cardinality(S)
  OBVIOUS
<1>3. ASSUME <<c, crons[c].id>> \notin moved
      PROVE  S = {}
  <2> SUFFICES ASSUME NEW r \in ran, r[1] = run PROVE FALSE
    OBVIOUS
  <2>1. RunOf(r, c, crons[c].id) /\ RunTs(r) = crons[c].next_ts /\ RunSpec(r) = crons[c].spec
    BY DEF RunOf, RunTs, RunSpec
  <2>2. \/ RunTs(r) <= crons[c].prev_ts
        \/ crons[c].state = "InProgress" /\ RunSpec(r).type = "action"
    BY <1>3, <2>1 DEF CronInv, CronPassed
  <2>3. crons[c].prev_ts < crons[c].next_ts /\ crons[c].prev_ts \in Nat /\ crons[c].next_ts \in Nat
    BY CronPresent, CronFields DEF CronInv, CronTable
  <2>4. ~(RunTs(r) <= crons[c].prev_ts)
    BY <2>1, <2>3
  <2>5. crons[c].state = "InProgress" /\ crons[c].spec.type = "action"
    BY <2>1, <2>2, <2>4
  <2> QED
    BY <2>5
<1>4. Cron!Cardinality({}) = 0
  <2>1. Cron!Cardinality({}) = Cardinality({})
    BY Zenon DEF Cron!Cardinality, Cardinality
  <2> QED
    BY <2>1, FS_EmptySet
<1> HIDE DEF S
<1>5. ASSUME S = {} PROVE r0[2] = 1
  BY <1>2, <1>4, <1>5
<1> HIDE DEF r0
<1> QED
  BY <1>1, <1>2, <1>3, <1>5

-------------------------------------------------------------------------------
(* Cron jobs: the steps, for the tables and the history.                   *)

\* What the history says of the tables, and nothing of the tasks.
CronHistory == CronTable /\ CronRuns /\ CronPassed /\ CronOnce /\ CronStarted /\ CronAccounted

\* Steps of the executor's loop and of the environment.
LEMMA QuietStep ==
  ASSUME CronHistory, UNCHANGED <<crons, ran, skipped, given_up, moved, pushes>>,
         now' \in Nat \ {0}, now <= now'
  PROVE  CronHistory'
<1>1. CronTable'
  <2>1. \A c \in Crons : Cron!Exists(c)' <=> Cron!Exists(c)
    BY DEF CronHistory, Cron!Exists
  <2>2. ASSUME NEW c \in Crons, Cron!Exists(c)' 
        PROVE  crons'[c].prev_ts < crons'[c].next_ts /\ crons'[c].prev_ts <= now' /\ crons'[c].id <= pushes'
    <3>1. crons[c].prev_ts < crons[c].next_ts /\ crons[c].prev_ts <= now /\ crons[c].id <= pushes
      BY <2>1, <2>2 DEF CronHistory, CronTable
    <3>2. crons[c].prev_ts \in Nat /\ now \in Nat /\ now' \in Nat
      BY <2>1, <2>2, CronPresent, CronFields, CronConstants DEF CronHistory
    <3> QED
      BY <3>1, <3>2
  <2> QED
    BY <2>2 DEF CronHistory, CronTable, Cron!CronType, Cron!NoCron
<1>2. CronRuns' /\ CronPassed' /\ CronOnce' /\ CronStarted' /\ CronAccounted'
  BY DEF CronHistory, CronRuns, CronPassed, CronOnce, CronStarted, CronAccounted, Accounted,
         RunOf, RunTs, RunSpec, Cron!Exists, Cron!NoCron, Cron!Ticks
<1> QED
  BY <1>1, <1>2 DEF CronHistory

\* A run completes: it ran before, runs in this step, or is given up.
LEMMA CompleteStep ==
  ASSUME CronHistory, NEW c \in Crons, Cron!Exists(c), crons[c].next_ts <= now,
         Cron!CompleteJobRun(c, crons[c]),
         UNCHANGED <<now, moved, pushes>>, ran \subseteq ran', given_up \subseteq given_up',
         \A r \in ran' \ ran : /\ r[1] = <<<<c, crons[c].id, crons[c].next_ts>>, crons[c].spec>>
                               /\ r[2] = 1 \/ <<c, crons[c].id>> \in moved,
         crons[c].id = pushes =>
           \/ <<c, crons[c].id, crons[c].next_ts>> \in given_up'
           \/ \E r \in ran' : r[1][1] = <<c, crons[c].id, crons[c].next_ts>>
  PROVE  CronHistory'
<1> DEFINE job == crons[c]
           new == crons'[c]
           tick == <<c, job.id, job.next_ts>>
<1>1. /\ crons' = [crons EXCEPT ![c] = new]
      /\ new \in Cron!CronType
      /\ new.id = job.id /\ new.spec = job.spec
      /\ new.state = "Pending" /\ new.prev_ts = job.next_ts
      /\ new.next_ts > job.next_ts
      /\ skipped \subseteq skipped'
  BY CompletedCron DEF CronHistory
<1>2. job.spec.schedule = "interval" => \E last \in Nat :
        /\ new.next_ts = last + job.spec.period
        /\ job.next_ts <= last /\ (last - job.next_ts) % job.spec.period = 0
        /\ \A ts \in Nat : /\ job.next_ts < ts /\ ts <= last
                           /\ (ts - job.next_ts) % job.spec.period = 0
                           => <<c, job.id, ts>> \in skipped'
  BY CompletedCron DEF CronHistory
<1>3. /\ crons \in [Crons -> Cron!CronType \cup {Cron!NoCron}]
      /\ job \in Cron!CronType /\ now \in Nat /\ now >= 1 /\ pushes \in Nat
      /\ job.prev_ts < job.next_ts /\ job.prev_ts <= now /\ job.id <= pushes
  BY CronPresent DEF CronHistory, CronTable
<1>4. /\ job.id \in 0..MaxCronPushes /\ job.id \in Nat /\ job.spec \in CronSpecs
      /\ job.next_ts \in Nat /\ job.prev_ts \in Nat
      /\ new.next_ts \in Nat /\ new # Cron!NoCron
  BY <1>1, <1>3, CronFields
<1>5. \A d \in Crons \ {c} : crons'[d] = crons[d]
  BY <1>1, <1>3
<1>6. Cron!Exists(c)' /\ \A d \in Crons \ {c} : Cron!Exists(d)' <=> Cron!Exists(d)
  BY <1>4, <1>5 DEF Cron!Exists, Cron!NoCron
<1>7. \A r \in ran' \ ran : r[1][1] = tick /\ r[1][2] = job.spec
  OBVIOUS
<1> HIDE DEF new
<1>8. CronTable'
  <2>1. crons' \in [Crons -> Cron!CronType \cup {Cron!NoCron}]
    BY <1>1, <1>3
  <2>2. ASSUME NEW d \in Crons, Cron!Exists(d)'
        PROVE  crons'[d].prev_ts < crons'[d].next_ts /\ crons'[d].prev_ts <= now' /\ crons'[d].id <= pushes'
    <3>1. CASE d = c
      BY <3>1, <1>1, <1>3, <1>4 DEF new
    <3>2. CASE d # c
      BY <3>2, <2>2, <1>5, <1>6 DEF CronHistory, CronTable
    <3> QED
      BY <3>1, <3>2
  <2> QED
    BY <2>1, <2>2 DEF CronHistory, CronTable, Cron!CronType, Cron!NoCron
<1>9. CronRuns'
  <2>1. ASSUME NEW r \in ran' PROVE r[1] \in Cron!Ticks \X CronSpecs /\ r[1][1][2] <= pushes
    <3>1. CASE r \in ran
      BY <3>1 DEF CronHistory, CronRuns
    <3>2. CASE r \notin ran
      <4>1. r[1] = <<tick, job.spec>> /\ tick \in Cron!Ticks /\ tick[2] = job.id
        BY <3>2, <1>4 DEF Cron!Ticks
      <4> QED
        BY <4>1, <1>3, <1>4
    <3> QED
      BY <3>1, <3>2
  <2> QED
    BY <2>1 DEF CronRuns, Cron!Ticks
<1>10. CronPassed'
  <2> SUFFICES ASSUME NEW d \in Crons, Cron!Exists(d)', <<d, crons'[d].id>> \notin moved',
                      NEW r \in ran', RunOf(r, d, crons'[d].id)
               PROVE  \/ RunTs(r) <= crons'[d].prev_ts
                      \/ /\ crons'[d].state = "InProgress" /\ RunTs(r) = crons'[d].next_ts
                         /\ RunSpec(r).type = "action"
    BY DEF CronPassed, RunOf, RunTs, RunSpec
  <2>1. CASE d = c
    <3>1. CASE r \in ran
      <4>1. RunTs(r) <= job.prev_ts \/ RunTs(r) = job.next_ts
        BY <2>1, <3>1, <1>1 DEF CronHistory, CronPassed, new
      <4>2. RunTs(r) \in Nat
        BY <3>1 DEF CronHistory, CronRuns, Cron!Ticks, RunTs
      <4> QED
        BY <4>1, <4>2, <2>1, <1>1, <1>3, <1>4 DEF new
    <3>2. CASE r \notin ran
      BY <3>2, <2>1, <1>1, <1>4, <1>7 DEF RunTs, new
    <3> QED
      BY <3>1, <3>2
  <2>2. CASE d # c
    <3>1. r \in ran
      BY <2>2, <1>7 DEF RunOf
    <3> QED
      BY <3>1, <2>2, <1>5, <1>6 DEF CronHistory, CronPassed
  <2> QED
    BY <2>1, <2>2
<1>11. CronOnce'
  <2>1. ASSUME NEW r \in ran' PROVE r[2] = 1 \/ <<r[1][1][1], r[1][1][2]>> \in moved
    <3>1. CASE r \in ran
      BY <3>1 DEF CronHistory, CronOnce
    <3>2. CASE r \notin ran
      <4>1. r[1][1][1] = c /\ r[1][1][2] = job.id
        BY <3>2, <1>7
      <4> QED
        BY <3>2, <4>1
    <3> QED
      BY <3>1, <3>2
  <2> QED
    BY <2>1 DEF CronOnce
<1>12. CronStarted'
  <2> SUFFICES ASSUME NEW d \in Crons, Cron!Exists(d)', crons'[d].id = pushes', crons'[d].state = "InProgress"
               PROVE  \E r \in ran' : r[1][1] = <<d, crons'[d].id, crons'[d].next_ts>>
    BY DEF CronStarted
  <2>1. d # c
    BY <1>1 DEF new
  <2> QED
    BY <2>1, <1>5, <1>6 DEF CronHistory, CronStarted
<1>13. CronAccounted'
  <2> DEFINE SetDown(t) == t \in skipped' \cup given_up' \/ \E q \in ran' : q[1][1] = t
  <2> SUFFICES ASSUME NEW d \in Crons, Cron!Exists(d)', crons'[d].spec.schedule = "interval",
                      crons'[d].id = pushes', NEW ts \in 1..(crons'[d].next_ts - 1),
                      (crons'[d].next_ts - ts) % crons'[d].spec.period = 0,
                      NEW r \in ran', RunOf(r, d, crons'[d].id), RunTs(r) <= ts
               PROVE  SetDown(<<d, crons'[d].id, ts>>)
    BY DEF CronAccounted, Accounted, RunOf, RunTs
  <2>0. \A t : Accounted(t) => SetDown(t)
    BY <1>1 DEF Accounted
  <2>1. CASE d # c
    <3>1. r \in ran
      BY <2>1, <1>7 DEF RunOf
    <3>2. Accounted(<<d, crons[d].id, ts>>)
      BY <3>1, <2>1, <1>5, <1>6 DEF CronHistory, CronAccounted
    <3> QED
      BY <3>2, <2>0, <2>1, <1>5
  <2>2. CASE d = c
    <3>1. PICK last \in Nat :
            /\ new.next_ts = last + job.spec.period
            /\ job.next_ts <= last /\ (last - job.next_ts) % job.spec.period = 0
            /\ \A t \in Nat : /\ job.next_ts < t /\ t <= last
                              /\ (t - job.next_ts) % job.spec.period = 0
                              => <<c, job.id, t>> \in skipped'
      BY <2>2, <1>1, <1>2 DEF new
    <3>2. PICK p \in Nat \ {0} : p = job.spec.period
      BY <1>4, CronConstants
    <3>3. PICK n \in Nat : n = job.next_ts
      BY <1>4
    <3>4. ts \in Nat /\ ts >= 1 /\ last + p - ts \in Nat \ {0} /\ (last + p - ts) % p = 0
      BY <2>2, <3>1, <3>2, <1>1, <1>4 DEF new
    <3>5. ts <= last
      BY <3>4, PositiveMultiple
    <3>6. p % p = 0 /\ (last - n) % p = 0
      <4>1. p = 1 * p
        OBVIOUS
      <4> QED
        BY <4>1, Multiple, <3>1, <3>2, <3>3
    <3>7. (n - ts) % p = 0 /\ (ts - n) % p = 0
      <4>0. last + p - ts \in Int /\ p \in Int /\ last - n \in Int
        BY <3>4
      <4>1. ((last + p - ts) - p) % p = 0
        BY <4>0, <3>4, <3>6, MultiplesAdd
      <4>2. (last + p - ts) - p = last - ts /\ last - ts \in Int
        BY <3>4
      <4>3. (last - ts) % p = 0
        BY <4>1, <4>2
      <4>4. ((last - ts) - (last - n)) % p = 0 /\ ((last - n) - (last - ts)) % p = 0
        BY <4>0, <4>2, <4>3, <3>6, MultiplesAdd
      <4>5. (last - ts) - (last - n) = n - ts /\ (last - n) - (last - ts) = ts - n
        BY <3>4
      <4> QED
        BY <4>4, <4>5
    <3>8. crons'[d].id = job.id /\ job.id = pushes
      BY <2>2, <1>1 DEF new
    <3>9. SetDown(<<c, job.id, ts>>)
      <4>1. CASE ts < n
        <5>1. r \in ran
          <6>1. ASSUME r \notin ran PROVE FALSE
            <7>1. RunTs(r) = n
              BY <6>1, <1>7, <3>3 DEF RunTs
            <7> QED
              BY <7>1, <4>1, <3>4
          <6> QED
            BY <6>1
        <5>2. ts \in 1..(job.next_ts - 1) /\ (job.next_ts - ts) % job.spec.period = 0
          BY <4>1, <3>2, <3>3, <3>4, <3>7
        <5>3. RunOf(r, c, job.id) /\ job.spec.schedule = "interval"
          BY <2>2, <1>1 DEF new
        <5>4. Accounted(<<c, job.id, ts>>)
          BY <5>1, <5>2, <5>3, <3>8 DEF CronHistory, CronAccounted
        <5> QED
          BY <5>4, <2>0
      <4>2. CASE ts = n
        <5>1. tick \in given_up' \/ \E q \in ran' : q[1][1] = tick
          BY <3>8
        <5> QED
          BY <5>1, <4>2, <3>3
      <4>3. CASE ts > n
        <5>1. <<c, job.id, ts>> \in skipped'
          BY <4>3, <3>1, <3>2, <3>3, <3>4, <3>5, <3>7
        <5> QED
          BY <5>1
      <4> QED
        BY <4>1, <4>2, <4>3, <3>4
    <3> QED
      BY <3>8, <3>9, <2>2
  <2> QED
    BY <2>1, <2>2
<1> QED
  BY <1>8, <1>9, <1>10, <1>11, <1>12, <1>13 DEF CronHistory

\* An action starts: its run is in progress from then on.
LEMMA StartStep ==
  ASSUME CronInv, NEW c \in Crons, Cron!Exists(c), cron_task[c].job = crons[c],
         crons[c].spec.type = "action", Cron!StartAction(c), UNCHANGED <<now, pushes>>
  PROVE  CronHistory'
<1> DEFINE job == crons[c]
           new == crons'[c]
           tick == <<c, job.id, job.next_ts>>
<1>1. job.state = "Pending" /\ crons' = [crons EXCEPT ![c].state = "InProgress"] /\ Cron!Count(c)
      /\ UNCHANGED <<skipped, given_up, moved>>
  BY DEF Cron!StartAction
<1>2. PICK r0 : /\ ran' = ran \cup {r0} /\ r0[1] = <<tick, job.spec>>
                /\ r0[2] = 1 \/ <<c, job.id>> \in moved
  BY <1>1, CountedRun
<1>3. /\ crons \in [Crons -> Cron!CronType \cup {Cron!NoCron}]
      /\ job \in Cron!CronType /\ now \in Nat /\ pushes \in Nat
      /\ job.prev_ts < job.next_ts /\ job.prev_ts <= now /\ job.id <= pushes
  BY CronPresent DEF CronInv, CronTable
<1>4. /\ job.id \in 0..MaxCronPushes /\ job.id \in Nat /\ job.spec \in CronSpecs
      /\ job.next_ts \in Nat /\ job.prev_ts \in Nat
  BY <1>3, CronFields
<1>5. /\ new \in Cron!CronType /\ new.id = job.id /\ new.spec = job.spec /\ new.state = "InProgress"
      /\ new.prev_ts = job.prev_ts /\ new.next_ts = job.next_ts
  <2>1. new = [job EXCEPT !.state = "InProgress"]
    BY <1>1, <1>3
  <2> QED
    BY <2>1, <1>3 DEF Cron!CronType
<1>6. new # Cron!NoCron
  BY <1>5, CronFields
<1>7. crons' \in [Crons -> Cron!CronType \cup {Cron!NoCron}]
  <2>1. crons' = [crons EXCEPT ![c] = new]
    BY <1>1, <1>3
  <2> HIDE DEF new
  <2> QED
    BY <2>1, <1>3, <1>5
<1>8. \A d \in Crons \ {c} : crons'[d] = crons[d]
  BY <1>1, <1>3
<1>9. Cron!Exists(c)' /\ \A d \in Crons \ {c} : Cron!Exists(d)' <=> Cron!Exists(d)
  BY <1>6, <1>8 DEF Cron!Exists, Cron!NoCron
<1>10. /\ r0[1][1] = tick /\ r0[1][2] = job.spec
       /\ RunOf(r0, c, job.id) /\ r0[1][1][1] = c /\ r0[1][1][2] = job.id
       /\ RunTs(r0) = job.next_ts /\ RunSpec(r0) = job.spec
  BY <1>2 DEF RunOf, RunTs, RunSpec
<1> HIDE DEF new
<1>11. CronTable'
  <2>1. ASSUME NEW d \in Crons, Cron!Exists(d)'
        PROVE  crons'[d].prev_ts < crons'[d].next_ts /\ crons'[d].prev_ts <= now' /\ crons'[d].id <= pushes'
    <3>1. CASE d = c
      BY <3>1, <1>3, <1>5 DEF new
    <3>2. CASE d # c
      BY <3>2, <2>1, <1>8, <1>9 DEF CronInv, CronTable
    <3> QED
      BY <3>1, <3>2
  <2> QED
    BY <2>1, <1>7 DEF CronInv, CronTable, Cron!CronType, Cron!NoCron
<1>12. CronRuns'
  <2>1. tick \in Cron!Ticks /\ tick[2] = job.id
    BY <1>4 DEF Cron!Ticks
  <2>2. r0[1] \in Cron!Ticks \X CronSpecs /\ r0[1][1][2] <= pushes
    BY <2>1, <1>2, <1>3, <1>4
  <2>3. \A r \in ran' : r[1] \in Cron!Ticks \X CronSpecs /\ r[1][1][2] <= pushes
    BY <2>2, <1>2 DEF CronInv, CronRuns
  <2> QED
    BY <2>3 DEF CronRuns, Cron!Ticks
<1>13. CronPassed'
  <2> SUFFICES ASSUME NEW d \in Crons, Cron!Exists(d)', <<d, crons'[d].id>> \notin moved',
                      NEW r \in ran', RunOf(r, d, crons'[d].id)
               PROVE  \/ RunTs(r) <= crons'[d].prev_ts
                      \/ /\ crons'[d].state = "InProgress" /\ RunTs(r) = crons'[d].next_ts
                         /\ RunSpec(r).type = "action"
    BY DEF CronPassed, RunOf, RunTs, RunSpec
  <2>1. CASE d = c /\ r \in ran
    <3>1. RunTs(r) <= job.prev_ts
      BY <2>1, <1>1, <1>5 DEF CronInv, CronPassed, new
    <3> QED
      BY <3>1, <2>1, <1>5 DEF new
  <2>2. CASE d = c /\ r \notin ran
    <3>1. r = r0
      BY <2>2, <1>2
    <3> QED
      BY <3>1, <2>2, <1>5, <1>10 DEF new
  <2>3. CASE d # c
    <3>1. r \in ran
      BY <2>3, <1>2, <1>10 DEF RunOf
    <3> QED
      BY <3>1, <2>3, <1>1, <1>8, <1>9 DEF CronInv, CronPassed
  <2> QED
    BY <2>1, <2>2, <2>3
<1>14. CronOnce'
  <2>1. \A r \in ran' : r[2] = 1 \/ <<r[1][1][1], r[1][1][2]>> \in moved
    BY <1>2, <1>10 DEF CronInv, CronOnce
  <2> QED
    BY <2>1, <1>1 DEF CronOnce
<1>15. CronStarted'
  <2> SUFFICES ASSUME NEW d \in Crons, Cron!Exists(d)', crons'[d].id = pushes', crons'[d].state = "InProgress"
               PROVE  \E r \in ran' : r[1][1] = <<d, crons'[d].id, crons'[d].next_ts>>
    BY DEF CronStarted
  <2>1. CASE d = c
    <3>1. r0 \in ran' /\ r0[1][1] = <<d, crons'[d].id, crons'[d].next_ts>>
      BY <2>1, <1>2, <1>5, <1>10 DEF new
    <3> QED
      BY <3>1
  <2>2. CASE d # c
    BY <2>2, <1>2, <1>8, <1>9 DEF CronInv, CronStarted
  <2> QED
    BY <2>1, <2>2
<1>16. CronAccounted'
  <2> DEFINE SetDown(t) == t \in skipped' \cup given_up' \/ \E q \in ran' : q[1][1] = t
  <2> SUFFICES ASSUME NEW d \in Crons, Cron!Exists(d)', crons'[d].spec.schedule = "interval",
                      crons'[d].id = pushes', NEW ts \in 1..(crons'[d].next_ts - 1),
                      (crons'[d].next_ts - ts) % crons'[d].spec.period = 0,
                      NEW r \in ran', RunOf(r, d, crons'[d].id), RunTs(r) <= ts
               PROVE  SetDown(<<d, crons'[d].id, ts>>)
    BY DEF CronAccounted, Accounted, RunOf, RunTs
  <2>1. \A t : Accounted(t) => SetDown(t)
    BY <1>1, <1>2 DEF Accounted
  <2>2. /\ crons'[d].id = crons[d].id /\ crons'[d].spec = crons[d].spec
        /\ crons'[d].next_ts = crons[d].next_ts /\ Cron!Exists(d)
    BY <1>5, <1>8, <1>9 DEF new
  <2>3. r \in ran
    <3>1. ASSUME r = r0 PROVE FALSE
      <4>1. d = c
        BY <3>1, <1>10 DEF RunOf
      <4>2. RunTs(r) = job.next_ts /\ ts \in 1..(job.next_ts - 1)
        BY <3>1, <4>1, <2>2, <1>10
      <4> QED
        BY <4>2, <1>4
    <3> QED
      BY <3>1, <1>2
  <2>4. Accounted(<<d, crons[d].id, ts>>)
    BY <2>2, <2>3 DEF CronInv, CronAccounted
  <2> QED
    BY <2>1, <2>2, <2>4
<1> QED
  BY <1>11, <1>12, <1>13, <1>14, <1>15, <1>16 DEF CronHistory

\* A deployment creates cron jobs that are pending and new, and leaves the rest
\* of them all but their specification and next run.
LEMMA AppliedCron ==
  ASSUME CronTable, NEW c \in Crons, NEW spec \in CronSpecs \cup {Cron!NoSpec},
         pushes' = pushes + 1, pushes' \in 0..MaxCronPushes,
         Cron!Applied(c, spec) # Cron!NoCron
  PROVE  LET new == Cron!Applied(c, spec) IN
         /\ new \in Cron!CronType /\ new.prev_ts < new.next_ts /\ new.prev_ts <= now
         /\ \/ Cron!Exists(c) /\ new.id = crons[c].id /\ new.prev_ts = crons[c].prev_ts
               /\ new.state = crons[c].state
            \/ ~Cron!Exists(c) /\ new.id = pushes' /\ new.state = "Pending"
<1> DEFINE new == Cron!Applied(c, spec)
<1>1. spec \in CronSpecs
  BY DEF Cron!Applied
<1>2. now \in Nat \ {0} /\ pushes \in Nat
  BY CronPresent
<1>3. CASE spec = Cron!NoSpec
  BY <1>3 DEF Cron!Applied
<1>4. CASE spec # Cron!NoSpec /\ ~Cron!Exists(c)
  <2> DEFINE next == Cron!compute_next_ts(spec, 0, now)
  <2>1. next \in Nat /\ next > 0
    BY <1>1, <1>2, NextRun
  <2>2. new = Cron!Cron(pushes', spec, "Pending", 0, next)
    BY <1>4 DEF Cron!Applied, Cron!Created, Cron!NoTs
  <2> HIDE DEF next, new
  <2>3. new \in Cron!CronType /\ new.id = pushes' /\ new.state = "Pending"
        /\ new.prev_ts = 0 /\ new.next_ts = next
    BY <1>1, <2>1, <2>2 DEF Cron!Cron, Cron!CronType
  <2>4. new.prev_ts < new.next_ts /\ new.prev_ts <= now
    BY <2>1, <2>3, <1>2
  <2> QED
    BY <2>3, <2>4, <1>4 DEF new
<1>5. CASE spec # Cron!NoSpec /\ Cron!Exists(c)
  <2> DEFINE cron == crons[c]
             next == Cron!compute_next_ts(spec, cron.prev_ts, now)
  <2>1. /\ cron \in Cron!CronType /\ cron.prev_ts < cron.next_ts /\ cron.prev_ts <= now
        /\ cron.prev_ts \in Nat
    BY <1>5, CronPresent, CronFields DEF CronTable
  <2>2. next \in Nat /\ next > cron.prev_ts
    BY <2>1, <1>1, <1>2, NextRun
  <2>3. \/ new = cron
        \/ new = [cron EXCEPT !.spec = spec]
        \/ new = [cron EXCEPT !.spec = spec, !.next_ts = next]
    BY <1>5 DEF Cron!Applied, Cron!Updated
  <2> HIDE DEF next, new
  <2>4. CASE new = cron
    BY <2>4, <2>1, <1>5 DEF new
  <2>5. CASE new = [cron EXCEPT !.spec = spec]
    <3>1. /\ new \in Cron!CronType /\ new.id = cron.id /\ new.prev_ts = cron.prev_ts
          /\ new.next_ts = cron.next_ts /\ new.state = cron.state
      BY <2>5, <2>1, <1>1 DEF Cron!CronType
    <3> QED
      BY <3>1, <2>1, <1>5 DEF new
  <2>6. CASE new = [cron EXCEPT !.spec = spec, !.next_ts = next]
    <3>1. /\ new \in Cron!CronType /\ new.id = cron.id /\ new.prev_ts = cron.prev_ts
          /\ new.next_ts = next /\ new.state = cron.state
      BY <2>6, <2>1, <2>2, <1>1 DEF Cron!CronType
    <3> QED
      BY <3>1, <2>1, <2>2, <1>5 DEF new
  <2> QED
    BY <2>3, <2>4, <2>5, <2>6
<1> QED
  BY <1>3, <1>4, <1>5

\* A deployment: what it creates has no history, and the runs in progress whose
\* time it changes are the moved ones.
LEMMA ApplyStep ==
  ASSUME CronHistory, Cron!Apply
  PROVE  CronHistory'
<1>1. /\ pushes' = pushes + 1 /\ pushes < MaxCronPushes
      /\ UNCHANGED <<now, ran, skipped, given_up>>
      /\ moved' = moved \cup {<<c, crons[c].id>> : c \in {d \in Crons :
           /\ Cron!Exists(d) /\ crons[d].state = "InProgress"
           /\ crons'[d] # Cron!NoCron /\ crons'[d].next_ts # crons[d].next_ts}}
  BY DEF Cron!Apply
<1>2. PICK spec \in [Crons -> CronSpecs \cup {Cron!NoSpec}] :
        crons' = [c \in Crons |-> Cron!Applied(c, spec[c])]
  BY DEF Cron!Apply
<1>3. /\ crons \in [Crons -> Cron!CronType \cup {Cron!NoCron}]
      /\ now \in Nat \ {0} /\ pushes \in 0..MaxCronPushes
      /\ MaxCronPushes \in Nat
  BY CronConstants DEF CronHistory, CronTable
<1>4. pushes' \in 0..MaxCronPushes /\ pushes \in Nat
  BY <1>1, <1>3
<1>5. ASSUME NEW c \in Crons, Cron!Exists(c)'
      PROVE  /\ crons'[c] \in Cron!CronType /\ crons'[c].prev_ts < crons'[c].next_ts
             /\ crons'[c].prev_ts <= now
             /\ \/ Cron!Exists(c) /\ crons'[c].id = crons[c].id /\ crons'[c].prev_ts = crons[c].prev_ts
                   /\ crons'[c].state = crons[c].state
                \/ ~Cron!Exists(c) /\ crons'[c].id = pushes' /\ crons'[c].state = "Pending"
  <2>1. crons'[c] = Cron!Applied(c, spec[c]) /\ spec[c] \in CronSpecs \cup {Cron!NoSpec}
    BY <1>2
  <2>2. crons'[c] # Cron!NoCron
    BY <1>5 DEF Cron!Exists, Cron!NoCron
  <2>3. Cron!Applied(c, spec[c]) # Cron!NoCron
    BY <2>1, <2>2
  <2>4. LET new == Cron!Applied(c, spec[c]) IN
        /\ new \in Cron!CronType /\ new.prev_ts < new.next_ts /\ new.prev_ts <= now
        /\ \/ Cron!Exists(c) /\ new.id = crons[c].id /\ new.prev_ts = crons[c].prev_ts
              /\ new.state = crons[c].state
           \/ ~Cron!Exists(c) /\ new.id = pushes' /\ new.state = "Pending"
    BY <2>1, <2>3, <1>1, <1>4, AppliedCron DEF CronHistory
  <2> QED
    BY <2>1, <2>4
<1>6. ASSUME NEW c \in Crons, Cron!Exists(c)
      PROVE  crons[c].id \in Nat /\ crons[c].id <= pushes
  <2>1. crons[c] \in Cron!CronType
    BY <1>6, CronPresent DEF CronHistory
  <2> QED
    BY <1>6, <2>1, CronFields DEF CronHistory, CronTable
<1>7. ASSUME NEW c \in Crons, Cron!Exists(c)', crons'[c].id = pushes'
      PROVE  ~Cron!Exists(c) /\ crons'[c].state = "Pending"
  BY <1>1, <1>4, <1>5, <1>6, <1>7
<1>8. \A r \in ran : r[1][1][2] \in Nat /\ r[1][1][2] <= pushes
  BY <1>3 DEF CronHistory, CronRuns, Cron!Ticks
<1>9. ASSUME NEW c \in Crons, NEW r \in ran PROVE ~RunOf(r, c, pushes')
  BY <1>1, <1>4, <1>8 DEF RunOf
<1>10. CronTable'
  <2>1. crons' \in [Crons -> Cron!CronType \cup {Cron!NoCron}]
    <3>1. \A c \in Crons : crons'[c] \in Cron!CronType \cup {Cron!NoCron}
      BY <1>5 DEF Cron!Exists, Cron!NoCron
    <3> QED
      BY <1>2, <3>1
  <2>2. ASSUME NEW c \in Crons, Cron!Exists(c)'
        PROVE  crons'[c].id <= pushes'
    BY <2>2, <1>1, <1>4, <1>5, <1>6
  <2> QED
    BY <2>1, <2>2, <1>1, <1>3, <1>4, <1>5 DEF CronTable, Cron!CronType, Cron!NoCron
<1>11. CronRuns'
  <2>1. \A r \in ran : r[1] \in Cron!Ticks \X CronSpecs /\ r[1][1][2] <= pushes'
    BY <1>1, <1>4, <1>8 DEF CronHistory, CronRuns
  <2> QED
    BY <2>1, <1>1 DEF CronRuns, Cron!Ticks
<1>12. CronPassed'
  <2> SUFFICES ASSUME NEW c \in Crons, Cron!Exists(c)', <<c, crons'[c].id>> \notin moved',
                      NEW r \in ran, RunOf(r, c, crons'[c].id)
               PROVE  \/ RunTs(r) <= crons'[c].prev_ts
                      \/ /\ crons'[c].state = "InProgress" /\ RunTs(r) = crons'[c].next_ts
                         /\ RunSpec(r).type = "action"
    BY <1>1 DEF CronPassed, RunOf, RunTs, RunSpec
  <2>1. Cron!Exists(c) /\ crons'[c].id = crons[c].id /\ crons'[c].prev_ts = crons[c].prev_ts
        /\ crons'[c].state = crons[c].state
    BY <1>5, <1>9
  <2>2. crons[c].state = "InProgress" => crons'[c].next_ts = crons[c].next_ts
    <3>1. crons'[c] # Cron!NoCron
      BY DEF Cron!Exists, Cron!NoCron
    <3> QED
      BY <3>1, <2>1, <1>1
  <2>3. <<c, crons[c].id>> \notin moved
    BY <2>1, <1>1
  <2>4. \/ RunTs(r) <= crons[c].prev_ts
        \/ /\ crons[c].state = "InProgress" /\ RunTs(r) = crons[c].next_ts
           /\ RunSpec(r).type = "action"
    BY <2>1, <2>3 DEF CronHistory, CronPassed
  <2> QED
    BY <2>1, <2>2, <2>4
<1>13. CronOnce'
  BY <1>1 DEF CronHistory, CronOnce
<1>14. CronStarted'
  BY <1>7 DEF CronStarted
<1>15. CronAccounted'
  <2> SUFFICES ASSUME NEW c \in Crons, Cron!Exists(c)', crons'[c].id = pushes',
                      NEW r \in ran, RunOf(r, c, crons'[c].id)
               PROVE  FALSE
    BY <1>1 DEF CronAccounted, RunOf
  <2> QED
    BY <1>9
<1> QED
  BY <1>10, <1>11, <1>12, <1>13, <1>14, <1>15 DEF CronHistory

-------------------------------------------------------------------------------
(* Cron jobs: the steps, for the tasks.                                    *)

LEMMA TasksOKAfter ==
  CronTasks' <=> cron_task' \in [Crons -> CronTaskType] /\ \A c \in Crons : TaskOK(cron_task'[c], now')
BY DEF CronTasks, CronTaskType, TaskOK, CronPhases, Cron!CronType, Cron!NoCron

\* What is due remains due.
LEMMA StillOK ==
  ASSUME CronTasks, now \in Nat, now' \in Nat, now <= now', NEW c \in Crons
  PROVE  TaskOK(cron_task[c], now')
<1>1. TaskOK(cron_task[c], now)
  BY DEF CronTasks
<1>2. cron_task[c].job \in Cron!CronType => cron_task[c].job.next_ts \in Nat
  BY CronFields
<1> QED
  BY <1>1, <1>2 DEF TaskOK

LEMMA TasksSame ==
  ASSUME CronTasks, now \in Nat, now' \in Nat, now <= now', UNCHANGED cron_task
  PROVE  CronTasks'
BY StillOK, TasksOKAfter DEF CronTasks

\* One task changes.
LEMMA OneTask ==
  ASSUME CronTasks, now \in Nat, UNCHANGED now, NEW c \in Crons, NEW t \in CronTaskType,
         TaskOK(t, now), cron_task' = [cron_task EXCEPT ![c] = t]
  PROVE  CronTasks'
<1>1. cron_task' \in [Crons -> CronTaskType] /\ cron_task'[c] = t
      /\ \A d \in Crons \ {c} : cron_task'[d] = cron_task[d]
  BY DEF CronTasks
<1> QED
  BY <1>1, TasksOKAfter DEF CronTasks

LEMMA TaskFinishes ==
  ASSUME CronTasks, now \in Nat, UNCHANGED now, NEW c \in Crons, Cron!Finish(c)
  PROVE  CronTasks'
<1>1. Cron!Idle \in CronTaskType /\ TaskOK(Cron!Idle, now)
  BY DEF Cron!Idle, CronTaskType, CronPhases, TaskOK
<1> QED
  BY <1>1, OneTask DEF Cron!Finish

LEMMA TaskGoesTo ==
  ASSUME CronTasks, now \in Nat, UNCHANGED now, NEW c \in Crons, NEW phase \in CronPhases \ {"idle"},
         cron_task[c].phase # "idle", Cron!To(c, phase),
         phase \in {"mutation", "fail"} => cron_task[c].job.spec.type = "mutation",
         phase \in {"action", "complete"} => cron_task[c].job.state = "InProgress"
  PROVE  CronTasks'
<1> DEFINE t == [cron_task[c] EXCEPT !.phase = phase]
<1>1. cron_task \in [Crons -> CronTaskType] /\ TaskOK(cron_task[c], now)
  BY DEF CronTasks
<1>2. cron_task[c] \in CronTaskType
  BY <1>1
<1>3. t \in CronTaskType /\ t.phase = phase /\ t.job = cron_task[c].job
  BY <1>2 DEF CronTaskType
<1>4. TaskOK(t, now)
  BY <1>1, <1>3 DEF TaskOK
<1>5. cron_task' = [cron_task EXCEPT ![c] = t]
  BY <1>1 DEF Cron!To
<1> HIDE DEF t
<1> QED
  BY <1>3, <1>4, <1>5, OneTask

\* After a system error in its action the task holds the job it was given.
LEMMA TaskRestarts ==
  ASSUME CronTasks, now \in Nat, UNCHANGED now, NEW c \in Crons, cron_task[c].phase = "action",
         cron_task' = [cron_task EXCEPT ![c].phase = "start", ![c].job.state = "Pending"]
  PROVE  CronTasks'
<1> DEFINE old == cron_task[c]
           doc == old.job
           new == [doc EXCEPT !.state = "Pending"]
           t == [old EXCEPT !.phase = "start", !.job = new]
<1>1. cron_task \in [Crons -> CronTaskType] /\ TaskOK(old, now) /\ old \in CronTaskType
  BY DEF CronTasks
<1>2. doc \in Cron!CronType /\ doc.next_ts <= now
  BY <1>1 DEF TaskOK
<1>3. cron_task' = [cron_task EXCEPT ![c] = t]
  BY <1>1, <1>2 DEF CronTaskType
<1> HIDE DEF doc
<1>4. new \in Cron!CronType /\ new.next_ts = doc.next_ts /\ new.state = "Pending"
  BY <1>2 DEF Cron!CronType
<1> HIDE DEF new, old
<1>5. t \in CronTaskType /\ t.phase = "start" /\ t.job = new
  BY <1>1, <1>4 DEF CronTaskType, CronPhases
<1>6. TaskOK(t, now)
  BY <1>2, <1>4, <1>5 DEF TaskOK
<1> HIDE DEF t
<1> QED
  BY <1>3, <1>5, <1>6, OneTask

-------------------------------------------------------------------------------
(* Cron jobs: every step preserves the invariant.                          *)

LEMMA CronInvParts == CronInv <=> CronHistory /\ CronTasks
BY DEF CronInv, CronHistory

LEMMA CronInvPartsAfter == CronInv' <=> CronHistory' /\ CronTasks'
BY DEF CronInv, CronHistory

LEMMA CronInit ==
  ASSUME Cron!Init
  PROVE  CronInv
<1>1. /\ crons = [c \in Crons |-> Cron!NoCron] /\ now = 1 /\ pushes = 0 /\ ran = {}
      /\ cron_task = [c \in Crons |-> Cron!Idle]
  BY DEF Cron!Init
<1>2. \A c \in Crons : ~Cron!Exists(c)
  BY <1>1 DEF Cron!Exists
<1>3. CronTable
  BY <1>1, <1>2, CronConstants DEF CronTable
<1>4. CronTasks
  BY <1>1 DEF CronTasks, CronTaskType, TaskOK, CronPhases, Cron!Idle
<1>5. CronRuns /\ CronPassed /\ CronOnce /\ CronStarted /\ CronAccounted
  BY <1>1, <1>2 DEF CronRuns, CronPassed, CronOnce, CronStarted, CronAccounted
<1> QED
  BY <1>3, <1>4, <1>5 DEF CronInv

\* A task whose job is still as it was read: the job is there and due.
LEMMA MatchingTask ==
  ASSUME CronInv, NEW c \in Crons, Cron!Matches(c), cron_task[c].phase # "idle"
  PROVE  /\ crons[c] = cron_task[c].job /\ Cron!Exists(c) /\ crons[c].next_ts <= now
         /\ cron_task[c].phase \in {"mutation", "fail"} => crons[c].spec.type = "mutation"
         /\ cron_task[c].phase \in {"action", "complete"} => crons[c].state = "InProgress"
<1>1. crons[c] = cron_task[c].job
  BY DEF Cron!Matches
<1>2. TaskOK(cron_task[c], now)
  BY DEF CronInv, CronTasks
<1> QED
  BY <1>1, <1>2, CronFields DEF TaskOK, Cron!Exists

\* A mutation committed or failed for good.
LEMMA MutationEnds ==
  ASSUME CronInv, NEW c \in Crons, Cron!Matches(c), cron_task[c].phase \in {"mutation", "fail"},
         Cron!CompleteJobRun(c, cron_task[c].job), Cron!Count(c), UNCHANGED <<now, given_up, moved, pushes>>
  PROVE  CronHistory'
<1>1. /\ crons[c] = cron_task[c].job /\ Cron!Exists(c) /\ crons[c].next_ts <= now
      /\ crons[c].spec.type = "mutation"
  BY MatchingTask
<1>2. PICK r0 : /\ ran' = ran \cup {r0}
                /\ r0[1] = <<<<c, crons[c].id, crons[c].next_ts>>, crons[c].spec>>
                /\ r0[2] = 1 \/ <<c, crons[c].id>> \in moved
  BY <1>1, CountedRun
<1>3. /\ ran \subseteq ran' /\ given_up \subseteq given_up'
      /\ \A r \in ran' \ ran : /\ r[1] = <<<<c, crons[c].id, crons[c].next_ts>>, crons[c].spec>>
                               /\ r[2] = 1 \/ <<c, crons[c].id>> \in moved
  BY <1>2
<1>4. r0 \in ran' /\ r0[1][1] = <<c, crons[c].id, crons[c].next_ts>>
  BY <1>2
<1>5. \E r \in ran' : r[1][1] = <<c, crons[c].id, crons[c].next_ts>>
  BY <1>4
<1>6. Cron!CompleteJobRun(c, crons[c])
  BY <1>1
<1> QED
  BY <1>1, <1>3, <1>5, <1>6, CompleteStep, CronInvParts

LEMMA RunOnceStep ==
  ASSUME CronInv, Cron!RunOnce
  PROVE  CronInv'
<1>1. UNCHANGED <<crons, now, ran, skipped, given_up, moved, pushes>>
  BY DEF Cron!RunOnce, Cron!historyVars
<1>2. now \in Nat \ {0} /\ now <= now'
  BY <1>1, CronConstants DEF CronInv, CronTable
<1>3. CronHistory'
  BY <1>1, <1>2, QuietStep, CronInvParts
<1>4. CronTasks'
  <2>1. CASE UNCHANGED cron_task
    BY <2>1, <1>1, <1>2, TasksSame DEF CronInv
  <2>2. CASE Cron!QueryAndStartJobs
    <3>1. PICK ids \in SUBSET {c \in Crons : Cron!Exists(c) /\ crons[c].next_ts <= now} :
            cron_task' = [c \in Crons |-> IF c \in ids THEN [phase |-> "start", job |-> crons[c]]
                                          ELSE cron_task[c]]
      BY <2>2 DEF Cron!QueryAndStartJobs
    <3>2. ASSUME NEW c \in ids
          PROVE  /\ [phase |-> "start", job |-> crons[c]] \in CronTaskType
                 /\ TaskOK([phase |-> "start", job |-> crons[c]], now)
      <4>1. c \in Crons /\ Cron!Exists(c) /\ crons[c].next_ts <= now
        OBVIOUS
      <4>2. crons[c] \in Cron!CronType
        BY <4>1, CronPresent DEF CronInv
      <4> QED
        BY <4>1, <4>2 DEF CronTaskType, CronPhases, TaskOK
    <3>3. cron_task \in [Crons -> CronTaskType] /\ \A c \in Crons : TaskOK(cron_task[c], now)
      BY DEF CronInv, CronTasks
    <3>4. ASSUME NEW c \in Crons PROVE cron_task'[c] \in CronTaskType /\ TaskOK(cron_task'[c], now)
      <4>1. CASE c \in ids
        <5>1. cron_task'[c] = [phase |-> "start", job |-> crons[c]]
          BY <3>1, <4>1
        <5> QED
          BY <5>1, <4>1, <3>2
      <4>2. CASE c \notin ids
        <5>1. cron_task'[c] = cron_task[c]
          BY <3>1, <4>2
        <5> QED
          BY <5>1, <3>3
      <4> QED
        BY <4>1, <4>2
    <3>5. cron_task' \in [Crons -> CronTaskType]
      BY <3>1, <3>4
    <3> QED
      BY <3>4, <3>5, <1>1, TasksOKAfter
  <2> QED
    BY <2>1, <2>2 DEF Cron!RunOnce
<1> QED
  BY <1>3, <1>4, CronInvPartsAfter

LEMMA CronTaskStep ==
  ASSUME CronInv, NEW c \in Crons, Cron!TaskStep(c) \/ Cron!TaskFails(c)
  PROVE  CronInv'
<1>1. UNCHANGED <<now, pushes>> /\ now \in Nat \ {0} /\ now <= now'
  <2>1. UNCHANGED <<now, pushes>>
    BY DEF Cron!TaskStep, Cron!TaskFails, Cron!RunFunction, Cron!CommitMutation, Cron!MutationThrows,
           Cron!FailMutation, Cron!ActionReturns, Cron!CompleteAction, Cron!UnchangedByTask
  <2> QED
    BY <2>1, CronConstants DEF CronInv, CronTable
<1>2. ASSUME UNCHANGED <<crons, ran, skipped, given_up, moved>> PROVE CronHistory'
  BY <1>1, <1>2, QuietStep, CronInvParts
<1>3. ASSUME Cron!Finish(c) PROVE CronTasks'
  BY <1>1, <1>3, TaskFinishes DEF CronInv
<1>4. ASSUME NEW phase \in CronPhases \ {"idle"}, cron_task[c].phase # "idle", Cron!To(c, phase),
             phase \in {"mutation", "fail"} => cron_task[c].job.spec.type = "mutation",
             phase \in {"action", "complete"} => cron_task[c].job.state = "InProgress"
      PROVE  CronTasks'
  BY <1>1, <1>4, TaskGoesTo DEF CronInv
<1>5. TaskOK(cron_task[c], now)
  BY DEF CronInv, CronTasks
<1>6. CASE Cron!RunFunction(c)
  <2>1. cron_task[c].phase = "start"
    BY <1>6 DEF Cron!RunFunction, Cron!InPhase
  <2>2. CASE ~Cron!Matches(c) /\ Cron!Finish(c) /\ UNCHANGED <<crons, Cron!historyVars>>
    BY <2>2, <1>2, <1>3, CronInvPartsAfter DEF Cron!historyVars
  <2>3. CASE /\ Cron!Matches(c) /\ cron_task[c].job.spec.type = "mutation"
             /\ Cron!To(c, "mutation") /\ UNCHANGED <<crons, Cron!historyVars>>
    <3>1. CronHistory'
      BY <2>3, <1>2 DEF Cron!historyVars
    <3>2. CronTasks'
      BY <2>1, <2>3, <1>4 DEF CronPhases
    <3> QED
      BY <3>1, <3>2, CronInvPartsAfter
  <2>4. CASE Cron!Matches(c) /\ cron_task[c].job.spec.type = "action" /\ Cron!StartAction(c)
    <3>1. crons[c] = cron_task[c].job /\ Cron!Exists(c) /\ crons[c].next_ts <= now
      BY <2>1, <2>4, MatchingTask
    <3>2. CronHistory'
      BY <2>4, <3>1, <1>1, StartStep
    <3>3. CronTasks'
      <4> DEFINE t == [phase |-> "action", job |-> crons'[c]]
      <4>1. cron_task' = [cron_task EXCEPT ![c] = t] /\ crons' = [crons EXCEPT ![c].state = "InProgress"]
        BY <2>4 DEF Cron!StartAction
      <4>2. crons[c] \in Cron!CronType /\ crons \in [Crons -> Cron!CronType \cup {Cron!NoCron}]
        BY <3>1, CronPresent DEF CronInv, CronTable
      <4>3. crons'[c] = [crons[c] EXCEPT !.state = "InProgress"]
        BY <4>1, <4>2
      <4>4. crons'[c] \in Cron!CronType /\ crons'[c].state = "InProgress" /\ crons'[c].next_ts <= now
        BY <3>1, <4>2, <4>3 DEF Cron!CronType
      <4>5. t \in CronTaskType /\ TaskOK(t, now)
        BY <4>4 DEF CronTaskType, CronPhases, TaskOK
      <4> QED
        BY <4>1, <4>5, <1>1, OneTask DEF CronInv
    <3> QED
      BY <3>2, <3>3, CronInvPartsAfter
  <2>5. CASE Cron!Matches(c) /\ Cron!GiveUp(c)
    <3>1. crons[c] = cron_task[c].job /\ Cron!Exists(c) /\ crons[c].next_ts <= now
      BY <2>1, <2>5, MatchingTask
    <3>2. /\ Cron!CompleteJobRun(c, crons[c]) /\ Cron!Finish(c) /\ UNCHANGED <<ran, moved>>
          /\ given_up' = given_up \cup {<<c, crons[c].id, crons[c].next_ts>>}
      BY <2>5, <3>1 DEF Cron!GiveUp, Cron!Tick
    <3>3. CronHistory'
      BY <3>1, <3>2, <1>1, CompleteStep, CronInvParts
    <3> QED
      BY <3>2, <3>3, <1>3, CronInvPartsAfter
  <2> QED
    BY <1>6, <2>2, <2>3, <2>4, <2>5 DEF Cron!RunFunction
<1>7. CASE Cron!CommitMutation(c)
  <2>1. cron_task[c].phase = "mutation"
    BY <1>7 DEF Cron!CommitMutation, Cron!InPhase
  <2>2. CASE /\ Cron!Matches(c) /\ Cron!CompleteJobRun(c, cron_task[c].job)
             /\ Cron!Count(c) /\ Cron!Finish(c) /\ UNCHANGED <<given_up, moved>>
    <3>1. CronHistory'
      BY <2>1, <2>2, <1>1, MutationEnds
    <3> QED
      BY <2>2, <3>1, <1>3, CronInvPartsAfter
  <2>3. CASE Cron!To(c, "start") /\ UNCHANGED <<crons, Cron!historyVars>>
    <3>1. CronHistory'
      BY <2>3, <1>2 DEF Cron!historyVars
    <3>2. CronTasks'
      BY <2>1, <2>3, <1>4 DEF CronPhases
    <3> QED
      BY <3>1, <3>2, CronInvPartsAfter
  <2> QED
    BY <1>7, <2>2, <2>3 DEF Cron!CommitMutation
<1>8. CASE Cron!MutationThrows(c)
  <2>1. /\ cron_task[c].phase = "mutation" /\ Cron!To(c, "fail")
        /\ UNCHANGED <<crons, ran, skipped, given_up, moved>>
    BY <1>8 DEF Cron!MutationThrows, Cron!InPhase, Cron!historyVars
  <2>2. cron_task[c].job.spec.type = "mutation"
    BY <2>1, <1>5 DEF TaskOK
  <2>3. CronTasks'
    BY <2>1, <2>2, <1>4 DEF CronPhases
  <2> QED
    BY <2>1, <2>3, <1>2, CronInvPartsAfter
<1>9. CASE Cron!FailMutation(c)
  <2>1. cron_task[c].phase = "fail" /\ Cron!Finish(c)
    BY <1>9 DEF Cron!FailMutation, Cron!InPhase
  <2>2. CASE /\ Cron!Matches(c) /\ Cron!CompleteJobRun(c, cron_task[c].job)
             /\ Cron!Count(c) /\ UNCHANGED <<given_up, moved>>
    <3>1. CronHistory'
      BY <2>1, <2>2, <1>1, MutationEnds
    <3> QED
      BY <2>1, <3>1, <1>3, CronInvPartsAfter
  <2>3. CASE UNCHANGED <<crons, Cron!historyVars>>
    BY <2>1, <2>3, <1>2, <1>3, CronInvPartsAfter DEF Cron!historyVars
  <2> QED
    BY <1>9, <2>2, <2>3 DEF Cron!FailMutation
<1>10. CASE Cron!ActionReturns(c)
  <2>1. /\ cron_task[c].phase = "action" /\ Cron!To(c, "complete")
        /\ UNCHANGED <<crons, ran, skipped, given_up, moved>>
    BY <1>10 DEF Cron!ActionReturns, Cron!InPhase, Cron!historyVars
  <2>2. cron_task[c].job.state = "InProgress"
    BY <2>1, <1>5 DEF TaskOK
  <2>3. CronTasks'
    BY <2>1, <2>2, <1>4 DEF CronPhases
  <2> QED
    BY <2>1, <2>3, <1>2, CronInvPartsAfter
<1>11. CASE Cron!CompleteAction(c)
  <2>1. cron_task[c].phase = "complete" /\ Cron!Finish(c)
    BY <1>11 DEF Cron!CompleteAction, Cron!InPhase
  <2>2. CASE /\ Cron!Matches(c) /\ Cron!CompleteJobRun(c, cron_task[c].job)
             /\ UNCHANGED <<ran, given_up, moved>>
    <3>1. /\ crons[c] = cron_task[c].job /\ Cron!Exists(c) /\ crons[c].next_ts <= now
          /\ crons[c].state = "InProgress"
      BY <2>1, <2>2, MatchingTask
    <3>2. crons[c].id = pushes => \E r \in ran' : r[1][1] = <<c, crons[c].id, crons[c].next_ts>>
      BY <2>2, <3>1 DEF CronInv, CronStarted
    <3>3. Cron!CompleteJobRun(c, crons[c])
      BY <2>2, <3>1
    <3>4. CronHistory'
      BY <2>2, <3>1, <3>2, <3>3, <1>1, CompleteStep, CronInvParts
    <3> QED
      BY <2>1, <3>4, <1>3, CronInvPartsAfter
  <2>3. CASE UNCHANGED <<crons, Cron!historyVars>>
    BY <2>1, <2>3, <1>2, <1>3, CronInvPartsAfter DEF Cron!historyVars
  <2> QED
    BY <1>11, <2>2, <2>3 DEF Cron!CompleteAction
<1>12. CASE Cron!TaskFails(c)
  <2>1. /\ \/ cron_task[c].phase \in {"mutation", "fail"} /\ Cron!To(c, "start")
           \/ /\ cron_task[c].phase = "action"
              /\ cron_task' = [cron_task EXCEPT ![c].phase = "start", ![c].job.state = "Pending"]
        /\ UNCHANGED <<crons, ran, skipped, given_up, moved>>
    BY <1>12 DEF Cron!TaskFails, Cron!historyVars, Cron!InPhase
  <2>2. CronTasks'
    <3>1. CASE cron_task[c].phase \in {"mutation", "fail"} /\ Cron!To(c, "start")
      BY <3>1, <1>4 DEF CronPhases
    <3>2. CASE /\ cron_task[c].phase = "action"
               /\ cron_task' = [cron_task EXCEPT ![c].phase = "start", ![c].job.state = "Pending"]
      BY <3>2, <1>1, TaskRestarts DEF CronInv
    <3> QED
      BY <2>1, <3>1, <3>2
  <2> QED
    BY <2>1, <2>2, <1>2, CronInvPartsAfter
<1> QED
  BY <1>6, <1>7, <1>8, <1>9, <1>10, <1>11, <1>12 DEF Cron!TaskStep

LEMMA CronNext ==
  ASSUME CronInv, [Cron!Next]_(Cron!vars)
  PROVE  CronInv'
<1>1. now \in Nat \ {0} /\ MaxCronTs \in Nat
  BY CronConstants DEF CronInv, CronTable
<1>2. ASSUME UNCHANGED <<crons, ran, skipped, given_up, moved, pushes, cron_task>>,
             now' \in Nat \ {0}, now <= now'
      PROVE  CronInv'
  <2>1. CronHistory'
    BY <1>2, QuietStep, CronInvParts
  <2>2. CronTasks'
    BY <1>1, <1>2, TasksSame DEF CronInv
  <2> QED
    BY <2>1, <2>2, CronInvPartsAfter
<1>3. CASE Cron!Apply
  <2>1. CronHistory'
    BY <1>3, ApplyStep, CronInvParts
  <2>2. UNCHANGED <<now, cron_task>>
    BY <1>3 DEF Cron!Apply
  <2>3. CronTasks'
    BY <2>2, <1>1, TasksSame DEF CronInv
  <2> QED
    BY <2>1, <2>3, CronInvPartsAfter
<1>4. CASE Cron!RunOnce
  BY <1>4, RunOnceStep
<1>5. CASE Cron!Wake
  BY <1>1, <1>2, <1>5 DEF Cron!Wake, Cron!historyVars
<1>6. CASE Cron!Crash
  <2>1. UNCHANGED <<crons, now, ran, skipped, given_up, moved, pushes>>
        /\ cron_task' = [c \in Crons |-> Cron!Idle]
    BY <1>6 DEF Cron!Crash, Cron!historyVars
  <2>2. CronHistory'
    BY <2>1, <1>1, QuietStep, CronInvParts
  <2>3. CronTasks'
    <3>1. Cron!Idle \in CronTaskType /\ TaskOK(Cron!Idle, now')
      BY DEF Cron!Idle, CronTaskType, CronPhases, TaskOK
    <3> QED
      BY <2>1, <3>1, TasksOKAfter
  <2> QED
    BY <2>2, <2>3, CronInvPartsAfter
<1>7. CASE Cron!Advance
  BY <1>1, <1>2, <1>7 DEF Cron!Advance, Cron!historyVars
<1>8. CASE Cron!SwitchBackend
  BY <1>1, <1>2, <1>8 DEF Cron!SwitchBackend, Cron!historyVars
<1>9. CASE \E c \in Crons : Cron!TaskStep(c) \/ Cron!TaskFails(c)
  BY <1>9, CronTaskStep
<1>10. CASE UNCHANGED Cron!vars
  BY <1>1, <1>2, <1>10 DEF Cron!vars, Cron!historyVars
<1> QED
  BY <1>3, <1>4, <1>5, <1>6, <1>7, <1>8, <1>9, <1>10 DEF Cron!Next

\* No tick of any cron job runs twice or is lost silently, whatever the crashes,
\* system errors and deployments between its steps (CronJobExecutor's
\* handle_mutation, handle_action and complete_job_run; CronModel::apply).
THEOREM TicksRunOnce == Cron!Spec => []TickRunsOnce
<1>1. Cron!Init => CronInv
  BY CronInit
<1>2. CronInv /\ [Cron!Next]_(Cron!vars) => CronInv'
  BY CronNext
<1>3. CronInv => TickRunsOnce
  <2> SUFFICES ASSUME CronInv PROVE Cron!TickRunsOnce
    BY DEF TickRunsOnce
  <2>1. \A r \in ran : r[2] = 1 \/ <<r[1][1][1], r[1][1][2]>> \in moved
    BY DEF CronInv, CronOnce
  <2>2. ASSUME NEW c \in Crons, Cron!Exists(c), crons[c].spec.schedule = "interval", crons[c].id = pushes,
               NEW ts \in 1..crons[c].prev_ts,
               (crons[c].next_ts - ts) % crons[c].spec.period = 0,
               NEW r \in ran, r[1][1][1] = c, r[1][1][2] = crons[c].id, r[1][1][3] <= ts
        PROVE  \/ <<c, crons[c].id, ts>> \in skipped \cup given_up
               \/ \E q \in ran : q[1][1] = <<c, crons[c].id, ts>>
    <3>1. crons[c].prev_ts \in Nat /\ crons[c].next_ts \in Nat /\ crons[c].prev_ts < crons[c].next_ts
      BY <2>2, CronPresent, CronFields DEF CronInv, CronTable
    <3>2. ts \in 1..(crons[c].next_ts - 1)
      BY <3>1
    <3>3. RunOf(r, c, crons[c].id) /\ RunTs(r) <= ts
      BY <2>2 DEF RunOf, RunTs
    <3>4. Accounted(<<c, crons[c].id, ts>>)
      BY <2>2, <3>2, <3>3 DEF CronInv, CronAccounted
    <3> QED
      BY <3>4 DEF Accounted
  <2>3. Cron!TicksAccounted
    BY <2>2 DEF Cron!TicksAccounted
  <2> QED
    BY <2>1, <2>3 DEF Cron!TickRunsOnce
<1> QED
  BY <1>1, <1>2, <1>3, PTL DEF Cron!Spec

===============================================================================
