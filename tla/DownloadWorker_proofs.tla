----------------------- MODULE DownloadWorker_proofs -----------------------
(***************************************************************************)
(* Theorems about DownloadWorker for every set of jobs, passes and         *)
(* requests.                                                               *)
(***************************************************************************)
EXTENDS DownloadWorker, TLAPS

\* A pass that works on a job, or has its result to note, has one.
HasJob == \A r \in Runs : pc[r] \in Working \cup {"settled"} => cur[r] \in Jobs

TInv == TypeOK /\ HasJob

\* What the commit of a request can do to a row.
LEMMA ApplyEditsStatus ==
    ASSUME QueueTypeOK, NEW c \in Calls, ApplyEdits(c)
    PROVE  /\ status' \in [Jobs -> RowStatus]
           /\ \A j \in Jobs : status'[j] # status[j] => status'[j] \in {"candidate", "queued", "cancelled"}
<1>1. PICK new \in SUBSET Absent :
          /\ \A v \in Videos : insert[c][v] = "keep" => new \cap JobsOf(v) = {}
          /\ status' = [j \in Jobs |-> IF j \in new THEN insert[c][VideoOf[j]]
                                       ELSE IF edit[c][j] # "keep" THEN edit[c][j]
                                       ELSE status[j]]
  BY DEF ApplyEdits
<1>2. ASSUME NEW j \in Jobs, j \in new
      PROVE  insert[c][VideoOf[j]] \in {"candidate", "queued"}
  <2>1. VideoOf[j] \in Videos
    BY QueueAssumption
  <2>2. j \in new \cap JobsOf(VideoOf[j])
    BY <1>2 DEF JobsOf
  <2>3. insert[c][VideoOf[j]] # "keep"
    BY <1>1, <2>1, <2>2
  <2>. QED
    BY <2>1, <2>3 DEF QueueTypeOK
<1>3. ASSUME NEW j \in Jobs
      PROVE  /\ status'[j] \in RowStatus
             /\ status'[j] # status[j] => status'[j] \in {"candidate", "queued", "cancelled"}
  <2>1. edit[c][j] \in {"queued", "cancelled", "keep"} /\ status[j] \in RowStatus
    BY DEF QueueTypeOK
  <2>. QED
    BY <1>1, <1>2, <2>1 DEF RowStatus, JobStatus
<1>. QED
  BY <1>1, <1>3

\* A commit of a pass writes a status to the row of its job, or leaves it.
LEMMA WriteType ==
    ASSUME TInv, NEW r \in Runs, cur[r] \in Jobs, NEW new \in RowStatus, WriteStatus(r, new) \/ UNCHANGED status
    PROVE  status' \in [Jobs -> RowStatus]
  BY DEF TInv, TypeOK, QueueTypeOK, WriteStatus

\* Every step of a pass keeps the types.
LEMMA PassType ==
    ASSUME TInv, NEW r \in Runs, Pass(r)
    PROVE  TInv'
<1>. USE DEF TInv, TypeOK, QueueTypeOK, HasJob, Working, Steps, RowStatus, JobStatus, queueVars, Goto
<1>1. CASE SkipPass(r)
  BY <1>1, QueueAssumption DEF SkipPass
<1>2. CASE Accept(r)
  BY <1>2, QueueAssumption DEF Accept
<1>3. CASE Plan(r)
  BY <1>3, QueueAssumption DEF Plan
<1>4. ASSUME NEW j \in Jobs, Claim(r, j)
      PROVE  TInv'
  <2>. DEFINE left == todo[r] \ {j}
              listed == started[r] \cup {j}
  <2>1. left \in SUBSET Jobs /\ listed \in SUBSET Jobs
    OBVIOUS
  <2>2. todo' = [todo EXCEPT ![r] = left]
    BY <1>4 DEF Claim
  <2>3. CASE Claimable(j)
    <3>1. started' = [started EXCEPT ![r] = listed]
      BY <1>4, <2>3 DEF Claim
    <3>. HIDE DEF left, listed
    <3>2. todo' \in [Runs -> SUBSET Jobs] /\ started' \in [Runs -> SUBSET Jobs]
      BY <2>1, <2>2, <3>1
    <3>3. cur' = [cur EXCEPT ![r] = j] /\ pc' = [pc EXCEPT ![r] = "claimed"]
      BY <1>4, <2>3 DEF Claim
    <3>4. cur' \in [Runs -> Jobs \cup {None}] /\ pc' \in [Runs -> Steps]
      BY <3>3
    <3>5. HasJob'
      BY <3>3
    <3>6. status' \in [Jobs -> RowStatus]
      BY <1>4, <2>3 DEF Claim
    <3>. QED
      BY <1>4, <2>3, <3>2, <3>4, <3>5, <3>6 DEF Claim
  <2>4. CASE ~Claimable(j)
    <3>. HIDE DEF left, listed
    <3>. QED
      BY <1>4, <2>1, <2>2, <2>4 DEF Claim
  <2>. QED
    BY <2>3, <2>4
<1>5. CASE Prepare(r)
  BY <1>5, QueueAssumption DEF Prepare, Refresh
<1>6. CASE Spawn(r)
  BY <1>6, QueueAssumption DEF Spawn
<1>7. CASE Break(r)
  BY <1>7, QueueAssumption DEF Break, Refresh
<1>8. CASE FailBroken(r)
  <2>1. cur[r] \in Jobs
    BY <1>8 DEF FailBroken
  <2>2. status' \in [Jobs -> RowStatus]
    BY <1>8, <2>1, WriteType DEF FailBroken
  <2>. QED
    BY <1>8, <2>2 DEF FailBroken
<1>9. CASE Close(r)
  BY <1>9, QueueAssumption DEF Close, Unregister
<1>10. CASE ProcessExit(r)
  BY <1>10, QueueAssumption DEF ProcessExit
<1>11. CASE Reap(r)
  <2>1. cur[r] \in Jobs /\ registry' \in [Jobs -> Runs \cup {None}]
    BY <1>11 DEF Reap, Unregister
  <2>2. pc' \in [Runs -> Steps] /\ seen' \in [Runs -> RowStatus]
    <3>1. CASE proc[r] = "ok"
      BY <1>11, <2>1, <3>1 DEF Reap
    <3>2. CASE proc[r] = "error"
      <4>1. status[cur[r]] \in RowStatus
        BY <2>1
      <4>2. seen' = [seen EXCEPT ![r] = status[cur[r]]] /\ pc' = [pc EXCEPT ![r] = "judging"]
        BY <1>11, <3>2 DEF Reap, Refresh
      <4>. QED
        BY <4>1, <4>2
    <3>. QED
      BY <1>11, <3>1, <3>2 DEF Reap
  <2>3. \A s \in Runs : pc'[s] \in Working => pc[s] \in Working
    BY <1>11 DEF Reap
  <2>. QED
    BY <1>11, <2>1, <2>2, <2>3 DEF Reap
<1>12. CASE Complete(r)
  BY <1>12, QueueAssumption DEF Complete, WriteStatus
<1>13. CASE Judge(r)
  <2>1. cur[r] \in Jobs
    BY <1>13 DEF Judge
  <2>2. status' \in [Jobs -> RowStatus]
    BY <1>13, <2>1, WriteType DEF Judge
  <2>. QED
    BY <1>13, <2>2 DEF Judge
<1>14. CASE Settle(r)
  <2>. DEFINE good == completed[r] \cup {cur[r]}
              bad == failed[r] \cup {cur[r]}
  <2>1. good \in SUBSET Jobs /\ bad \in SUBSET Jobs
    BY <1>14 DEF Settle
  <2>2. CASE proc[r] = "ok"
    <3>1. completed' = [completed EXCEPT ![r] = good]
      BY <1>14, <2>2 DEF Settle
    <3>. HIDE DEF good, bad
    <3>. QED
      BY <1>14, <2>1, <2>2, <3>1 DEF Settle
  <2>3. CASE proc[r] # "ok"
    <3>1. failed' = [failed EXCEPT ![r] = bad]
      BY <1>14, <2>3 DEF Settle
    <3>. HIDE DEF good, bad
    <3>. QED
      BY <1>14, <2>1, <2>3, <3>1 DEF Settle
  <2>. QED
    BY <2>2, <2>3
<1>15. CASE EndPass(r)
  BY <1>15, QueueAssumption DEF EndPass
<1>16. CASE LosePlan(r)
  BY <1>16, QueueAssumption DEF LosePlan
<1>17. CASE CancelRunning(r)
  BY <1>17, QueueAssumption DEF CancelRunning, Refresh
<1>18. CASE FailCancelled(r)
  <2>1. cur[r] \in Jobs
    BY <1>18 DEF FailCancelled
  <2>2. status' \in [Jobs -> RowStatus]
    BY <1>18, <2>1, WriteType DEF FailCancelled
  <2>3. registry' \in [Jobs -> Runs \cup {None}]
    BY <1>18, <2>1 DEF FailCancelled, Unregister
  <2>. QED
    BY <1>18, <2>2, <2>3 DEF FailCancelled
<1>19. CASE Unwind(r)
  <2>1. registry' \in [Jobs -> Runs \cup {None}]
    BY <1>19 DEF Unwind, Unregister
  <2>2. pc' = [pc EXCEPT ![r] = "failing"] /\ proc' = [proc EXCEPT ![r] = "none"]
    BY <1>19 DEF Unwind
  <2>. QED
    BY <1>19, <2>1, <2>2 DEF Unwind
<1>20. CASE LoseSettle(r)
  BY <1>20, QueueAssumption DEF LoseSettle
<1>21. ASSUME NEW j \in Jobs, LoseClaim(r, j)
      PROVE  TInv'
  BY <1>21 DEF LoseClaim
<1>22. CASE Abort(r)
  BY <1>22, QueueAssumption DEF Abort, Drop
<1>23. CASE LosePass(r)
  <2>1. audit' \in [Runs -> {"none", "running", "dry_run", "locked", "completed", "failed"}]
    BY <1>23 DEF LosePass
  <2>2. pc' = [pc EXCEPT ![r] = "dead"] /\ Drop(r)
    BY <1>23 DEF LosePass
  <2>3. todo' \in [Runs -> SUBSET Jobs] /\ cur' \in [Runs -> Jobs \cup {None}] /\ HasJob'
    BY <2>2 DEF Drop
  <2>. QED
    BY <1>23, <2>1, <2>2, <2>3 DEF LosePass, Drop
<1>. QED
  BY <1>1, <1>2, <1>3, <1>4, <1>5, <1>6, <1>7, <1>8, <1>9, <1>10, <1>11, <1>12, <1>13, <1>14, <1>15, <1>16, <1>17, <1>18, <1>19, <1>20, <1>21, <1>22, <1>23 DEF Pass, Advance, Disturb

\* What a request decides to write is a status that a request may write.
LEMMA OpenType ==
    ASSUME QueueTypeOK, NEW c \in Calls, NEW kind,
           NEW edits \in [Jobs -> {"queued", "cancelled", "keep"}],
           NEW inserts \in [Videos -> {"candidate", "queued", "keep"}],
           Open(c, kind, edits, inserts)
    PROVE  QueueTypeOK'
BY DEF Open, QueueTypeOK

LEMMA AssignType ==
    ASSUME NEW S, NEW from, NEW to \in {"queued", "cancelled"}
    PROVE  Assign(S, from, to) \in [Jobs -> {"queued", "cancelled", "keep"}]
BY DEF Assign

LEMMA NothingType ==
    /\ NoEdit \in [Jobs -> {"queued", "cancelled", "keep"}]
    /\ NoInsert \in [Videos -> {"candidate", "queued", "keep"}]
BY DEF NoEdit, NoInsert

LEMMA StageType ==
    ASSUME QueueTypeOK, NEW c \in Calls, NEW ch, NEW kind, NEW blocking,
           NEW initial \in {"candidate", "queued"}, Stage(c, ch, kind, blocking, initial)
    PROVE  QueueTypeOK'
<1>1. PICK S : Open(c, kind, NoEdit, [v \in Videos |-> IF v \in S THEN initial ELSE "keep"])
  BY DEF Stage
<1>2. [v \in Videos |-> IF v \in S THEN initial ELSE "keep"] \in [Videos -> {"candidate", "queued", "keep"}]
  OBVIOUS
<1>. QED
  BY <1>1, <1>2, OpenType, NothingType

LEMMA DecideType ==
    ASSUME QueueTypeOK, NEW c \in Calls, Decide(c)
    PROVE  QueueTypeOK'
<1>1. ASSUME NEW S, Retry(c, S) \/ Cancel(c, S)
      PROVE  QueueTypeOK'
  BY <1>1, AssignType, NothingType, OpenType DEF Retry, Cancel
<1>2. ASSUME NEW v \in Videos, Enqueue(c, v)
      PROVE  QueueTypeOK'
  <2>1. [NoInsert EXCEPT ![v] = "queued"] \in [Videos -> {"candidate", "queued", "keep"}]
    BY NothingType
  <2>2. ASSUME NEW j, Open(c, "enqueue", Assign({j}, Active, "queued"), NoInsert)
        PROVE  QueueTypeOK'
    BY <2>2, AssignType, NothingType, OpenType
  <2>3. CASE Open(c, "enqueue", NoEdit, [NoInsert EXCEPT ![v] = "queued"])
    BY <2>1, <2>3, NothingType, OpenType
  <2>. QED
    BY <1>2, <2>2, <2>3 DEF Enqueue
<1>3. ASSUME NEW ch, StageCandidates(c, ch) \/ AutoQueue(c, ch)
      PROVE  QueueTypeOK'
  BY <1>3, StageType DEF StageCandidates, AutoQueue
<1>4. ASSUME NEW ch, StageArchive(c, ch)
      PROVE  QueueTypeOK'
  <2>1. PICK S : Open(c, "archive", NoEdit, [v \in Videos |-> IF v \in S THEN "candidate" ELSE "keep"])
    BY <1>4 DEF StageArchive
  <2>2. [v \in Videos |-> IF v \in S THEN "candidate" ELSE "keep"] \in [Videos -> {"candidate", "queued", "keep"}]
    OBVIOUS
  <2>. QED
    BY <2>1, <2>2, OpenType, NothingType
<1>. QED
  BY <1>1, <1>2, <1>3, <1>4 DEF Decide

\* What a written request leaves in the history.
LEMMA OvertakeType ==
    ASSUME QueueTypeOK, NEW c \in Calls, Overtake(c)
    PROVE  overtaken' \in [Calls -> SUBSET Videos]
BY DEF QueueTypeOK, Overtake

\* Every step of a request keeps the types.
LEMMA RequestType ==
    ASSUME TInv, NEW c \in Calls, Request(c)
    PROVE  TInv'
<1>. USE DEF TInv
<1>1. CASE Decide(c) /\ UNCHANGED workerVars
  BY <1>1, DecideType DEF TypeOK, HasJob, workerVars
<1>2. CASE Commit(c) /\ UNCHANGED workerVars
  <2>1. status' \in [Jobs -> RowStatus]
    BY <1>2, ApplyEditsStatus DEF Commit, TypeOK
  <2>2. overtaken' \in [Calls -> SUBSET Videos]
    BY <1>2, OvertakeType DEF Commit, TypeOK
  <2>. QED
    BY <1>2, <2>1, <2>2, NothingType DEF Commit, Discard, TypeOK, QueueTypeOK, HasJob, workerVars
<1>3. ASSUME NEW j \in Jobs, Stop(c, j)
      PROVE  TInv'
  <2>1. QueueTypeOK'
    BY <1>3, AssignType, NothingType, OpenType DEF Stop, TypeOK
  <2>. QED
    BY <1>3, <2>1 DEF Stop, TypeOK, HasJob, passVars
<1>4. CASE CommitStop(c)
  <2>1. status' \in [Jobs -> RowStatus]
    BY <1>4, ApplyEditsStatus DEF CommitStop, TypeOK
  <2>2. overtaken' \in [Calls -> SUBSET Videos]
    BY <1>4, OvertakeType DEF CommitStop, TypeOK
  <2>. QED
    BY <1>4, <2>1, <2>2 DEF CommitStop, TypeOK, QueueTypeOK, HasJob, workerVars
<1>5. CASE Signal(c)
  <2>1. overtaken' \in [Calls -> SUBSET Videos]
    BY <1>5, OvertakeType DEF Signal, TypeOK
  <2>. QED
    BY <1>5, <2>1, NothingType DEF Signal, Discard, TypeOK, QueueTypeOK, HasJob
<1>6. CASE LoseCall(c)
  <2>1. overtaken' \in [Calls -> SUBSET Videos]
    BY <1>6, OvertakeType DEF LoseCall, TypeOK
  <2>. QED
    BY <1>6, <2>1, NothingType DEF LoseCall, Discard, TypeOK, QueueTypeOK, HasJob, passVars
<1>. QED
  BY <1>1, <1>2, <1>3, <1>4, <1>5, <1>6 DEF Request

\* And so does everything else.
LEMMA SurroundingsType ==
    ASSUME TInv, Surroundings
    PROVE  TInv'
<1>. USE DEF TInv, TypeOK, QueueTypeOK, HasJob
<1>1. ASSUME NEW ch \in Channels, SetWorkerPaused(ch), UNCHANGED workerVars
      PROVE  TInv'
  BY <1>1 DEF SetWorkerPaused, workerVars
<1>2. ASSUME NEW v \in Videos, MediaLost(v), UNCHANGED workerVars
      PROVE  TInv'
  BY <1>2 DEF MediaLost, workerVars
<1>3. CASE Shutdown
  BY <1>3 DEF Shutdown, workerVars
<1>4. CASE ShutdownDone
  BY <1>4 DEF ShutdownDone, workerVars
<1>5. CASE Crash
  BY <1>5, NothingType DEF Crash, Steps, Working, RowStatus
<1>6. CASE Restart
  BY <1>6 DEF Restart, RowStatus, JobStatus
<1>. QED
  BY <1>1, <1>2, <1>3, <1>4, <1>5, <1>6 DEF Surroundings

LEMMA InitType == Init => TInv
BY NothingType DEF Init, QueueInit, WorkerInit, TInv, TypeOK, QueueTypeOK, HasJob, Steps, Working, RowStatus, JobStatus

LEMMA NextType == TInv /\ [Next]_vars => TInv'
<1>1. CASE UNCHANGED vars
  BY <1>1 DEF vars, queueVars, workerVars, TInv, TypeOK, QueueTypeOK, HasJob
<1>. QED
  BY <1>1, PassType, RequestType, SurroundingsType DEF Next

(***************************************************************************)
(* The variables keep their types in every execution: in particular a      *)
(* request writes only the statuses a request may write, and every pass    *)
(* that works on a job has one.                                            *)
(***************************************************************************)
THEOREM TypeCorrect == Spec => []TypeOK
<1>1. TInv => TypeOK
  BY DEF TInv
<1>. QED
  BY <1>1, InitType, NextType, PTL DEF Spec

-----------------------------------------------------------------------------
(* Ownership.                                                              *)

\* A step of pass r leaves the jobs of other passes alone, and gives r a job it
\* did not own only by a claim of that job.
OnlyClaimsAddOwners(r) ==
    /\ \A s \in Runs \ {r} : pc'[s] = pc[s] /\ cur'[s] = cur[s]
    /\ \A j \in Jobs : Owns(r, j)' => Owns(r, j) \/ (Claimable(j) /\ status'[j] = "running")

LEMMA PassOwns ==
    ASSUME TInv, NEW r \in Runs, Pass(r)
    PROVE  OnlyClaimsAddOwners(r)
<1>. USE DEF TInv, TypeOK, QueueTypeOK, OnlyClaimsAddOwners, Owns, Working, Steps, Goto, queueVars
<1>1. CASE SkipPass(r)
  BY <1>1 DEF SkipPass
<1>2. CASE Accept(r)
  BY <1>2 DEF Accept
<1>3. CASE Plan(r)
  BY <1>3 DEF Plan
<1>4. CASE Prepare(r)
  BY <1>4 DEF Prepare, Refresh
<1>5. CASE Spawn(r)
  BY <1>5 DEF Spawn
<1>6. CASE Break(r)
  BY <1>6 DEF Break, Refresh
<1>7. CASE FailBroken(r)
  BY <1>7 DEF FailBroken, WriteStatus
<1>8. CASE Close(r)
  BY <1>8 DEF Close, Unregister
<1>9. CASE ProcessExit(r)
  BY <1>9 DEF ProcessExit
<1>10. CASE Reap(r)
  BY <1>10 DEF Reap, Refresh, Unregister
<1>11. CASE Complete(r)
  BY <1>11 DEF Complete, WriteStatus
<1>12. CASE Judge(r)
  BY <1>12 DEF Judge, WriteStatus
<1>13. CASE Settle(r)
  BY <1>13 DEF Settle
<1>14. CASE EndPass(r)
  BY <1>14 DEF EndPass
<1>15. CASE LosePlan(r)
  BY <1>15 DEF LosePlan
<1>16. CASE CancelRunning(r)
  BY <1>16 DEF CancelRunning, Refresh
<1>17. CASE FailCancelled(r)
  BY <1>17 DEF FailCancelled, WriteStatus, Unregister
<1>18. CASE Unwind(r)
  BY <1>18 DEF Unwind, Unregister
<1>19. CASE LoseSettle(r)
  BY <1>19 DEF LoseSettle
<1>20. CASE Abort(r)
  BY <1>20 DEF Abort, Drop
<1>21. CASE LosePass(r)
  BY <1>21 DEF LosePass, Drop
<1>22. ASSUME NEW j \in Jobs, Claim(r, j)
      PROVE  OnlyClaimsAddOwners(r)
  BY <1>22 DEF Claim
<1>23. ASSUME NEW j \in Jobs, LoseClaim(r, j)
      PROVE  OnlyClaimsAddOwners(r)
  BY <1>23 DEF LoseClaim
<1>. QED
  BY <1>1, <1>2, <1>3, <1>4, <1>5, <1>6, <1>7, <1>8, <1>9, <1>10, <1>11, <1>12, <1>13,
     <1>14, <1>15, <1>16, <1>17, <1>18, <1>19, <1>20, <1>21, <1>22, <1>23 DEF Pass, Advance, Disturb

\* No other step gives a pass a job.
LEMMA RequestOwns ==
    ASSUME NEW c \in Calls, Request(c)
    PROVE  pc' = pc /\ cur' = cur
BY DEF Request, Stop, CommitStop, Signal, LoseCall, workerVars, passVars

LEMMA SurroundingsOwn ==
    ASSUME TInv, Surroundings, NEW r \in Runs, NEW j \in Jobs, Owns(r, j)'
    PROVE  Owns(r, j)
<1>1. CASE Crash
  BY <1>1 DEF Crash, Owns, Working
<1>2. CASE ~Crash
  BY <1>2 DEF Surroundings, Shutdown, ShutdownDone, Restart, workerVars, Owns
<1>. QED
  BY <1>1, <1>2

\* An owned job is not in the queue: the claim took it out, and guarded
\* requests do not put it back.  This is what makes SingleOwner inductive.
OwnedNotQueued == \A r \in Runs, j \in Jobs : Owns(r, j) => status[j] # "queued"

OInv == TInv /\ SingleOwner /\ OwnedNotQueued

LEMMA NextOwns ==
    ASSUME OInv, [Next /\ RequestsSpareOwnedJobs]_vars
    PROVE  OInv'
<1>. USE DEF OInv
<1>1. CASE UNCHANGED vars
  BY <1>1, NextType DEF vars, queueVars, workerVars, SingleOwner, OwnedNotQueued, Owns
<1>2. ASSUME Next, RequestsSpareOwnedJobs
      PROVE  OInv'
  <2>1. TInv'
    BY <1>2, NextType
  <2>2. ASSUME NEW r \in Runs, NEW j \in Jobs, Owns(r, j)', ~Owns(r, j)
        PROVE  /\ status[j] = "queued"
               /\ status'[j] = "running"
               /\ \A s \in Runs \ {r} : Owns(s, j)' => Owns(s, j)
    <3>1. PICK q \in Runs : Pass(q)
      BY <1>2, <2>2, RequestOwns, SurroundingsOwn DEF Next, Owns
    <3>2. OnlyClaimsAddOwners(q)
      BY <3>1, PassOwns
    <3>3. q = r
      BY <2>2, <3>2 DEF OnlyClaimsAddOwners, Owns
    <3>. QED
      BY <2>2, <3>2, <3>3 DEF OnlyClaimsAddOwners, Owns, Claimable
  <2>3. SingleOwner'
    BY <2>2 DEF SingleOwner, OwnedNotQueued
  <2>4. OwnedNotQueued'
    BY <1>2, <2>2 DEF OwnedNotQueued, RequestsSpareOwnedJobs
  <2>. QED
    BY <2>1, <2>3, <2>4
<1>. QED
  BY <1>1, <1>2

LEMMA InitOwns == Init => OInv
BY InitType DEF OInv, Init, WorkerInit, SingleOwner, OwnedNotQueued, Owns, Working

(***************************************************************************)
(* As long as no request puts a job that a pass owns back into the queue,  *)
(* the conditional UPDATE of the claim keeps any number of overlapping     *)
(* passes from owning a job together, whatever fails, is cancelled,        *)
(* crashes or restarts.                                                    *)
(***************************************************************************)
THEOREM OwnershipExclusive == GuardedSpec => []SingleOwner
<1>1. OInv => SingleOwner
  BY DEF OInv
<1>. QED
  BY <1>1, InitOwns, NextOwns, PTL DEF GuardedSpec

-----------------------------------------------------------------------------
(* The process registry.                                                   *)

\* Only a pass that waits for its process has a live one, and it is the entry
\* of the registry for its job.
Registered ==
    \A r \in Runs : /\ proc[r] = "live" => pc[r] = "running"
                    /\ pc[r] = "running" => registry[cur[r]] = r

LEMMA PassRegistered ==
    ASSUME OInv, Registered, NEW r \in Runs, Pass(r)
    PROVE  Registered'
<1>. USE DEF OInv, TInv, TypeOK, HasJob, SingleOwner, Registered, Owns, Working, Steps, Goto
<1>1. CASE SkipPass(r)
  BY <1>1 DEF SkipPass, CanBegin
<1>2. CASE Accept(r)
  BY <1>2 DEF Accept
<1>3. CASE Plan(r)
  BY <1>3 DEF Plan, CanBegin
<1>4. CASE Prepare(r)
  BY <1>4 DEF Prepare, Refresh
<1>5. CASE Spawn(r)
  BY <1>5 DEF Spawn
<1>6. CASE Break(r)
  BY <1>6 DEF Break
<1>7. CASE FailBroken(r)
  BY <1>7 DEF FailBroken
<1>8. CASE Close(r)
  BY <1>8 DEF Close, Unregister
<1>9. CASE ProcessExit(r)
  BY <1>9 DEF ProcessExit
<1>10. CASE Reap(r)
  BY <1>10 DEF Reap, Unregister
<1>11. CASE Complete(r)
  BY <1>11 DEF Complete
<1>12. CASE Judge(r)
  BY <1>12 DEF Judge
<1>13. CASE Settle(r)
  BY <1>13 DEF Settle
<1>14. CASE EndPass(r)
  BY <1>14 DEF EndPass
<1>15. CASE LosePlan(r)
  BY <1>15 DEF LosePlan
<1>16. CASE CancelRunning(r)
  BY <1>16 DEF CancelRunning
<1>17. CASE FailCancelled(r)
  BY <1>17 DEF FailCancelled, Unregister
<1>18. CASE Unwind(r)
  BY <1>18 DEF Unwind, Unregister
<1>19. CASE LoseSettle(r)
  BY <1>19 DEF LoseSettle
<1>20. CASE Abort(r)
  BY <1>20 DEF Abort, Drop
<1>21. CASE LosePass(r)
  BY <1>21 DEF LosePass, Drop
<1>22. ASSUME NEW j \in Jobs, Claim(r, j)
      PROVE  Registered'
  BY <1>22 DEF Claim
<1>23. ASSUME NEW j \in Jobs, LoseClaim(r, j)
      PROVE  Registered'
  BY <1>23 DEF LoseClaim
<1>. QED
  BY <1>1, <1>2, <1>3, <1>4, <1>5, <1>6, <1>7, <1>8, <1>9, <1>10, <1>11, <1>12, <1>13,
     <1>14, <1>15, <1>16, <1>17, <1>18, <1>19, <1>20, <1>21, <1>22, <1>23 DEF Pass, Advance, Disturb

LEMMA NextRegistered ==
    ASSUME OInv, Registered, [Next]_vars
    PROVE  Registered'
<1>1. CASE UNCHANGED vars
  BY <1>1 DEF vars, workerVars, Registered
<1>2. ASSUME NEW c \in Calls, Request(c)
      PROVE  Registered'
  <2>1. CASE Signal(c)
    BY <1>2, <2>1 DEF Signal, Registered, OInv, TInv, TypeOK
  <2>2. CASE ~Signal(c)
    BY <1>2, <2>2 DEF Request, Stop, CommitStop, LoseCall, workerVars, passVars, Registered
  <2>. QED
    BY <2>1, <2>2
<1>3. CASE Surroundings
  <2>1. CASE Crash
    BY <2>1 DEF Crash, Registered
  <2>2. CASE ~Crash
    BY <1>3, <2>2 DEF Surroundings, Shutdown, ShutdownDone, Restart, workerVars, Registered
  <2>. QED
    BY <2>1, <2>2
<1>. QED
  BY <1>1, <1>2, <1>3, PassRegistered DEF Next

LEMMA InitRegistered == Init => Registered
BY DEF Init, WorkerInit, Registered

(***************************************************************************)
(* Under the same condition no pass removes or replaces the registry entry *)
(* of another, so a stop request finds the process that runs its job.      *)
(***************************************************************************)
THEOREM ProcessesReachable == GuardedSpec => []ProcessReachable
<1>1. Registered => ProcessReachable
  BY DEF Registered, ProcessReachable
<1>2. OInv /\ Registered /\ [Next /\ RequestsSpareOwnedJobs]_vars => OInv' /\ Registered'
  BY NextOwns, NextRegistered
<1>. QED
  BY <1>1, <1>2, InitOwns, InitRegistered, PTL DEF GuardedSpec

-----------------------------------------------------------------------------
(* Running jobs.                                                           *)

\* What it takes to be sure that pass r will take j out of "running": it is in
\* its handler and lists j as started; or it owns j, lists it, has not yet
\* written its outcome, and, once it has refreshed the row, knows it as running
\* (or its write would be skipped).
Responsible(r, j) ==
    /\ j \in started[r]
    /\ \/ pc[r] = "failing"
       \/ /\ Owns(r, j)
          /\ pc[r] # "closing"
          /\ pc[r] # "claimed" => seen[r] = "running"

\* Nothing but a claim makes a job running, and a pass stays responsible for its
\* running jobs until it ends them.
KeepsDuty(r) ==
    \A j \in Jobs : status'[j] = "running" =>
        /\ status[j] = "running" \/ Responsible(r, j)'
        /\ \A s \in Runs : Responsible(s, j) => Responsible(s, j)'

LEMMA PassDuty ==
    ASSUME TInv, NEW r \in Runs, Pass(r), Faults \cap {"db", "cut"} = {}
    PROVE  KeepsDuty(r) /\ api' = api
<1>. USE DEF TInv, TypeOK, QueueTypeOK, HasJob, KeepsDuty, Responsible, Owns, Working, Steps, Goto, queueVars
<1>1. CASE SkipPass(r)
  BY <1>1 DEF SkipPass, CanBegin
<1>2. CASE Accept(r)
  BY <1>2 DEF Accept
<1>3. CASE Plan(r)
  BY <1>3 DEF Plan, CanBegin
<1>4. CASE Prepare(r)
  BY <1>4 DEF Prepare, Refresh
<1>5. CASE Spawn(r)
  BY <1>5 DEF Spawn
<1>6. CASE Break(r)
  BY <1>6 DEF Break, Refresh
<1>7. CASE FailBroken(r)
  BY <1>7 DEF FailBroken, WriteStatus
<1>8. CASE Close(r)
  BY <1>8 DEF Close, Unregister
<1>9. CASE ProcessExit(r)
  BY <1>9 DEF ProcessExit
<1>10. CASE Reap(r)
  BY <1>10 DEF Reap, Refresh, Unregister
<1>11. CASE Complete(r)
  BY <1>11 DEF Complete, WriteStatus
<1>12. CASE Judge(r)
  BY <1>12 DEF Judge, WriteStatus
<1>13. CASE Settle(r)
  BY <1>13 DEF Settle
<1>14. CASE EndPass(r)
  BY <1>14 DEF EndPass
<1>15. CASE LosePlan(r)
  BY <1>15 DEF LosePlan
<1>16. CASE CancelRunning(r)
  BY <1>16 DEF CancelRunning, Refresh
<1>17. CASE FailCancelled(r)
  BY <1>17 DEF FailCancelled, WriteStatus, Unregister
<1>18. CASE Unwind(r)
  BY <1>18 DEF Unwind, Unregister
<1>19. CASE LoseSettle(r)
  BY <1>19 DEF LoseSettle
<1>20. CASE Abort(r)
  BY <1>20 DEF Abort, Drop
<1>21. CASE LosePass(r)
  BY <1>21 DEF LosePass, Drop, CommitFails
<1>22. ASSUME NEW j \in Jobs, Claim(r, j)
      PROVE  KeepsDuty(r) /\ api' = api
  BY <1>22 DEF Claim
<1>23. ASSUME NEW j \in Jobs, LoseClaim(r, j)
      PROVE  KeepsDuty(r) /\ api' = api
  BY <1>23 DEF LoseClaim
<1>. QED
  BY <1>1, <1>2, <1>3, <1>4, <1>5, <1>6, <1>7, <1>8, <1>9, <1>10, <1>11, <1>12, <1>13,
     <1>14, <1>15, <1>16, <1>17, <1>18, <1>19, <1>20, <1>21, <1>22, <1>23 DEF Pass, Advance, Disturb

RunInv ==
    api # "crashed" =>
        \A j \in Jobs : status[j] = "running" => \E r \in Runs : Responsible(r, j)

LEMMA NextRunning ==
    ASSUME TInv, RunInv, [Next]_vars, Faults \cap {"db", "cut"} = {}
    PROVE  RunInv'
<1>1. CASE UNCHANGED vars
  BY <1>1 DEF vars, queueVars, workerVars, RunInv, Responsible, Owns
<1>2. ASSUME NEW r \in Runs, Pass(r)
      PROVE  RunInv'
  BY <1>2, PassDuty DEF RunInv, KeepsDuty
<1>3. ASSUME NEW c \in Calls, Request(c)
      PROVE  RunInv'
  <2>1. UNCHANGED <<pc, cur, seen, started, api>>
    BY <1>3 DEF Request, Decide, Retry, Cancel, Enqueue, StageCandidates, StageArchive, AutoQueue, Stage,
                Open, Commit, Stop, CommitStop, Signal, LoseCall, workerVars, passVars
  <2>2. \A j \in Jobs : status'[j] = "running" => status[j] = "running"
    <3>1. CASE Commit(c) \/ CommitStop(c)
      BY <3>1, ApplyEditsStatus DEF Commit, CommitStop, TInv, TypeOK
    <3>2. CASE ~(Commit(c) \/ CommitStop(c))
      BY <1>3, <3>2 DEF Request, Decide, Retry, Cancel, Enqueue, StageCandidates, StageArchive, AutoQueue, Stage,
                        Open, Stop, Signal, LoseCall
    <3>. QED
      BY <3>1, <3>2
  <2>. QED
    BY <2>1, <2>2 DEF RunInv, Responsible, Owns
<1>4. CASE Surroundings
  <2>1. CASE Crash \/ Restart
    BY <2>1 DEF Crash, Restart, RunInv, TInv, TypeOK, QueueTypeOK
  <2>2. CASE ~(Crash \/ Restart)
    BY <1>4, <2>2 DEF Surroundings, SetWorkerPaused, MediaLost, Shutdown, ShutdownDone, workerVars,
                      RunInv, Responsible, Owns
  <2>. QED
    BY <2>1, <2>2
<1>. QED
  BY <1>1, <1>2, <1>3, <1>4 DEF Next

LEMMA InitRunning == Init => RunInv
BY DEF Init, QueueInit, RunInv

(***************************************************************************)
(* Without lost commits, no job is left running by anything that passes,   *)
(* requests, cancellations, shutdowns, crashes and restarts do together:   *)
(* outside a crash some pass works on it or is about to fail it.  A claim  *)
(* that is cut off in its commit (LoseClaim) would break this.             *)
(***************************************************************************)
THEOREM RunningOwned ==
    ASSUME Faults \cap {"db", "cut"} = {}
    PROVE  Spec => []RunningHasOwner
<1>1. RunInv => RunningHasOwner
  BY DEF RunInv, RunningHasOwner, Responsible
<1>2. TInv /\ RunInv /\ [Next]_vars => TInv' /\ RunInv'
  BY NextType, NextRunning
<1>. QED
  BY <1>1, <1>2, InitType, InitRunning, PTL DEF Spec

-----------------------------------------------------------------------------
(* Failures.                                                               *)

\* A pass has started the jobs it works on, and none is at work while the API
\* process is down.
StartedOwn ==
    /\ \A r \in Runs, j \in Jobs : Owns(r, j) => j \in started[r]
    /\ api \in {"stopped", "crashed"} => \A r \in Runs : pc[r] \in {"idle", "done", "dead"}

\* A step of pass r fails only what r has started, and a job that is its own only
\* on the way to its finally clause.
FailsStarted(r) ==
    /\ \A s \in Runs : started[s] \subseteq started'[s]
    /\ \A j \in Jobs : Owns(r, j)' => j \in started'[r]
    /\ \A j \in Jobs : status'[j] = "failed" => status[j] = "failed" \/ j \in started[r]
    /\ \A j \in Jobs : Owns(r, j)' /\ status'[j] = "failed" /\ pc'[r] # "closing"
                         => Owns(r, j) /\ status[j] = "failed" /\ pc[r] # "closing"
    /\ api' = api
    /\ api \in {"stopped", "crashed"} /\ pc[r] \in {"idle", "done", "dead"} => pc'[r] \in {"idle", "done", "dead"}

LEMMA PassFailures ==
    ASSUME TInv, StartedOwn, NEW r \in Runs, Pass(r)
    PROVE  FailsStarted(r)
<1>. USE DEF TInv, TypeOK, QueueTypeOK, HasJob, StartedOwn, FailsStarted, Owns, Working, Goto, queueVars
<1>1. CASE SkipPass(r)
  BY <1>1 DEF SkipPass, CanBegin
<1>2. CASE Accept(r)
  BY <1>2 DEF Accept
<1>3. CASE Plan(r)
  BY <1>3 DEF Plan, CanBegin
<1>4. CASE Prepare(r)
  BY <1>4 DEF Prepare, Refresh
<1>5. CASE Spawn(r)
  BY <1>5 DEF Spawn
<1>6. CASE Break(r)
  BY <1>6 DEF Break, Refresh
<1>7. CASE FailBroken(r)
  BY <1>7 DEF FailBroken, WriteStatus
<1>8. CASE Close(r)
  BY <1>8 DEF Close
<1>9. CASE ProcessExit(r)
  BY <1>9 DEF ProcessExit
<1>10. CASE Reap(r)
  BY <1>10 DEF Reap, Refresh
<1>11. CASE Complete(r)
  BY <1>11 DEF Complete, WriteStatus
<1>12. CASE Judge(r)
  BY <1>12 DEF Judge, WriteStatus
<1>13. CASE Settle(r)
  BY <1>13 DEF Settle
<1>14. CASE EndPass(r)
  BY <1>14 DEF EndPass
<1>15. CASE LosePlan(r)
  BY <1>15 DEF LosePlan
<1>16. CASE CancelRunning(r)
  BY <1>16 DEF CancelRunning
<1>17. CASE FailCancelled(r)
  BY <1>17 DEF FailCancelled, WriteStatus
<1>18. CASE Unwind(r)
  BY <1>18 DEF Unwind
<1>19. CASE LoseSettle(r)
  BY <1>19 DEF LoseSettle
<1>20. CASE Abort(r)
  BY <1>20 DEF Abort, Drop
<1>21. CASE LosePass(r)
  BY <1>21 DEF LosePass, Drop
<1>22. ASSUME NEW j \in Jobs, Claim(r, j)
      PROVE  FailsStarted(r)
  <2>1. CASE Claimable(j)
    <3>1. /\ status' = [status EXCEPT ![j] = "running"]
          /\ cur' = [cur EXCEPT ![r] = j]
          /\ started' = [started EXCEPT ![r] = @ \cup {j}]
          /\ pc' = [pc EXCEPT ![r] = "claimed"] /\ pc[r] = "loop" /\ api' = api
      BY <1>22, <2>1 DEF Claim
    <3>. QED
      BY <3>1
  <2>2. CASE ~Claimable(j)
    BY <1>22, <2>2 DEF Claim
  <2>. QED
    BY <2>1, <2>2
<1>23. ASSUME NEW j \in Jobs, LoseClaim(r, j)
      PROVE  FailsStarted(r)
  BY <1>23 DEF LoseClaim
<1>. QED
  BY <1>1, <1>2, <1>3, <1>4, <1>5, <1>6, <1>7, <1>8, <1>9, <1>10, <1>11, <1>12, <1>13,
     <1>14, <1>15, <1>16, <1>17, <1>18, <1>19, <1>20, <1>21, <1>22, <1>23 DEF Pass, Advance, Disturb

\* A request fails no job and moves no pass.
LEMMA RequestFailsNone ==
    ASSUME TInv, NEW c \in Calls, Request(c)
    PROVE  /\ UNCHANGED <<api, pc, cur, started>>
           /\ \A j \in Jobs : status'[j] = "failed" => status[j] = "failed"
<1>1. UNCHANGED <<api, pc, cur, started>>
  BY DEF Request, Decide, Retry, Cancel, Enqueue, StageCandidates, StageArchive, AutoQueue, Stage,
         Open, Commit, Stop, CommitStop, Signal, LoseCall, workerVars, passVars
<1>2. CASE Commit(c) \/ CommitStop(c)
  BY <1>1, <1>2, ApplyEditsStatus DEF Commit, CommitStop, TInv, TypeOK
<1>3. CASE ~(Commit(c) \/ CommitStop(c))
  BY <1>1, <1>3 DEF Request, Decide, Retry, Cancel, Enqueue, StageCandidates, StageArchive, AutoQueue, Stage,
              Open, Stop, Signal, LoseCall
<1>. QED
  BY <1>2, <1>3

CulpritInv == StartedOwn /\ FailureHasCulprit

LEMMA NextCulprit ==
    ASSUME TInv, CulpritInv, [Next]_vars
    PROVE  CulpritInv'
<1>. USE DEF CulpritInv
<1>1. CASE UNCHANGED vars
  BY <1>1 DEF vars, queueVars, workerVars, passVars, StartedOwn, FailureHasCulprit, Owns
<1>2. ASSUME NEW q \in Runs, Pass(q)
      PROVE  CulpritInv'
  <2>1. FailsStarted(q) /\ \A s \in Runs \ {q} : pc'[s] = pc[s] /\ cur'[s] = cur[s]
    BY <1>2, PassFailures, PassOwns DEF OnlyClaimsAddOwners
  <2>2. StartedOwn'
    BY <2>1 DEF FailsStarted, StartedOwn, Owns
  <2>3. ASSUME NEW r \in Runs, NEW j \in Jobs, Owns(r, j)', status'[j] = "failed", pc'[r] # "closing"
        PROVE  \E s \in Runs \ {r} : j \in started'[s]
    <3>1. CASE r = q
      BY <2>1, <2>3, <3>1 DEF FailsStarted, FailureHasCulprit
    <3>2. CASE r # q
      BY <2>1, <2>3, <3>2 DEF FailsStarted, FailureHasCulprit, Owns
    <3>. QED
      BY <3>1, <3>2
  <2>. QED
    BY <2>2, <2>3 DEF FailureHasCulprit
<1>3. ASSUME NEW c \in Calls, Request(c)
      PROVE  CulpritInv'
  BY <1>3, RequestFailsNone DEF StartedOwn, FailureHasCulprit, Owns
<1>4. CASE Surroundings
  <2>1. CASE Crash
    BY <2>1 DEF Crash, StartedOwn, FailureHasCulprit, Owns, Working
  <2>2. CASE Restart
    BY <2>2 DEF Restart, StartedOwn, FailureHasCulprit, Owns, Working
  <2>3. CASE ~Crash /\ ~Restart
    BY <1>4, <2>3 DEF Surroundings, SetWorkerPaused, MediaLost, Shutdown, ShutdownDone, workerVars, passVars,
                      StartedOwn, FailureHasCulprit, Owns
  <2>. QED
    BY <2>1, <2>2, <2>3
<1>. QED
  BY <1>1, <1>2, <1>3, <1>4 DEF Next

(***************************************************************************)
(* Whatever overlaps, fails, crashes and restarts: the row of a job that a *)
(* pass works on can say failed only through that pass or another one that *)
(* has started the job.                                                    *)
(***************************************************************************)
THEOREM FailuresHaveCulprits == Spec => []FailureHasCulprit
<1>1. Init => CulpritInv
  BY DEF Init, QueueInit, WorkerInit, CulpritInv, StartedOwn, FailureHasCulprit, Owns, Working
<1>2. TInv /\ CulpritInv /\ [Next]_vars => TInv' /\ CulpritInv'
  BY NextType, NextCulprit
<1>3. CulpritInv => FailureHasCulprit
  BY DEF CulpritInv
<1>. QED
  BY <1>1, <1>2, <1>3, InitType, PTL DEF Spec

-----------------------------------------------------------------------------
(* The audit row of a pass.                                                *)

\* What the lists of a pass hold at each of its steps: it lists as started what
\* it has listed as completed or failed and the job it works on.  They are what
\* they were at the end of the pass once its row says "completed".
AuditInv(r) ==
    /\ pc[r] \in {"idle", "accepted"} =>
         started[r] = {} /\ completed[r] = {} /\ failed[r] = {}
    /\ pc[r] = "loop" => started[r] = completed[r] \cup failed[r]
    /\ pc[r] \in Working \cup {"settled"} => started[r] = completed[r] \cup failed[r] \cup {cur[r]}
    /\ audit[r] = "completed" => /\ pc[r] = "done"
                                 /\ completed[r] = started[r]
                                 /\ failed[r] = {}

AllAudits == \A r \in Runs : AuditInv(r)

LEMMA PassAudits ==
    ASSUME TInv, AllAudits, NEW r \in Runs, Pass(r)
    PROVE  AllAudits'
<1>. USE DEF TInv, TypeOK, AllAudits, AuditInv, Working, Steps, Goto
<1>1. CASE SkipPass(r)
  BY <1>1 DEF SkipPass, CanBegin
<1>2. CASE Accept(r)
  BY <1>2 DEF Accept
<1>3. CASE Plan(r)
  BY <1>3 DEF Plan, CanBegin
<1>4. CASE Prepare(r)
  BY <1>4 DEF Prepare
<1>5. CASE Spawn(r)
  BY <1>5 DEF Spawn
<1>6. CASE Break(r)
  BY <1>6 DEF Break
<1>7. CASE FailBroken(r)
  BY <1>7 DEF FailBroken
<1>8. CASE Close(r)
  BY <1>8 DEF Close
<1>9. CASE ProcessExit(r)
  BY <1>9 DEF ProcessExit
<1>10. CASE Reap(r)
  BY <1>10 DEF Reap
<1>11. CASE Complete(r)
  BY <1>11 DEF Complete
<1>12. CASE Judge(r)
  BY <1>12 DEF Judge
<1>13. CASE Settle(r)
  BY <1>13 DEF Settle
<1>14. CASE EndPass(r)
  <2>1. /\ pc' = [pc EXCEPT ![r] = "done"]
        /\ audit' = [audit EXCEPT ![r] = IF failed[r] = {} THEN "completed" ELSE "failed"]
        /\ UNCHANGED <<cur, started, completed, failed>>
    BY <1>14 DEF EndPass
  <2>2. AuditInv(r)'
    <3>1. started[r] = completed[r] \cup failed[r]
      BY <1>14 DEF EndPass
    <3>. QED
      BY <2>1, <3>1
  <2>3. ASSUME NEW s \in Runs, s # r
        PROVE  AuditInv(s)'
    BY <2>1, <2>3
  <2>. QED
    BY <2>2, <2>3
<1>15. CASE LosePlan(r)
  BY <1>15 DEF LosePlan
<1>16. CASE CancelRunning(r)
  BY <1>16 DEF CancelRunning
<1>17. CASE FailCancelled(r)
  BY <1>17 DEF FailCancelled
<1>18. CASE Unwind(r)
  BY <1>18 DEF Unwind
<1>19. CASE LoseSettle(r)
  BY <1>19 DEF LoseSettle
<1>20. CASE Abort(r)
  BY <1>20 DEF Abort, Drop
<1>21. CASE LosePass(r)
  BY <1>21 DEF LosePass, Drop
<1>22. ASSUME NEW j \in Jobs, Claim(r, j)
      PROVE  AllAudits'
  BY <1>22 DEF Claim
<1>23. ASSUME NEW j \in Jobs, LoseClaim(r, j)
      PROVE  AllAudits'
  BY <1>23 DEF LoseClaim
<1>. QED
  BY <1>1, <1>2, <1>3, <1>4, <1>5, <1>6, <1>7, <1>8, <1>9, <1>10, <1>11, <1>12, <1>13,
     <1>14, <1>15, <1>16, <1>17, <1>18, <1>19, <1>20, <1>21, <1>22, <1>23 DEF Pass, Advance, Disturb

LEMMA NextAudits ==
    ASSUME TInv, AllAudits, [Next]_vars
    PROVE  AllAudits'
<1>. USE DEF AllAudits, AuditInv
<1>1. CASE UNCHANGED vars
  BY <1>1 DEF vars, workerVars
<1>2. ASSUME NEW c \in Calls, Request(c)
      PROVE  AllAudits'
  BY <1>2 DEF Request, Stop, CommitStop, Signal, LoseCall, workerVars, passVars
<1>3. CASE Surroundings
  <2>1. CASE Crash
    BY <2>1 DEF Crash, Working, TInv, TypeOK
  <2>2. CASE Restart
    BY <2>2 DEF Restart, TInv, TypeOK
  <2>3. CASE ~(Crash \/ Restart)
    BY <1>3, <2>3 DEF Surroundings, Shutdown, ShutdownDone, workerVars
  <2>. QED
    BY <2>1, <2>2, <2>3
<1>. QED
  BY <1>1, <1>2, <1>3, PassAudits DEF Next

LEMMA InitAudits == Init => AllAudits
BY DEF Init, WorkerInit, AllAudits, AuditInv, Working

(***************************************************************************)
(* With every failure the model knows, an audit row that says "completed"  *)
(* has listed each job the pass started as completed.                      *)
(***************************************************************************)
THEOREM AuditsHonest == Spec => []AuditNeverOverstates
<1>1. AllAudits => AuditNeverOverstates
  BY DEF AllAudits, AuditInv, AuditNeverOverstates
<1>2. TInv /\ AllAudits /\ [Next]_vars => TInv' /\ AllAudits'
  BY NextType, NextAudits
<1>. QED
  BY <1>1, <1>2, InitType, InitAudits, PTL DEF Spec

-----------------------------------------------------------------------------
(* What the audit row of an ended pass accounts for.                       *)

\* No job is planned once it is started, and none is listed twice; a pass in its
\* handler has no process any more whose success it might have noted.
AccountInv(r) ==
    /\ todo[r] \cap started[r] = {}
    /\ completed[r] \subseteq started[r]
    /\ completed[r] \cap failed[r] = {}
    /\ pc[r] \in Working \cup {"settled"} => cur[r] \notin completed[r] \cup failed[r]
    /\ pc[r] \in {"loop", "stopping", "failing"} => proc[r] = "none"
    /\ pc[r] \in {"idle", "accepted"} => proc[r] = "none"
    /\ pc[r] = "done" => completed[r] \cup failed[r] = started[r]

AllAccounts == \A r \in Runs : AccountInv(r)

LEMMA PassAccounts ==
    ASSUME TInv, AllAudits, AllAccounts, NEW r \in Runs, Pass(r), Faults \cap {"db", "cut"} = {}
    PROVE  AllAccounts'
<1>. USE DEF TInv, TypeOK, AllAudits, AuditInv, AllAccounts, AccountInv, Working, Steps, Goto
<1>1. CASE SkipPass(r)
  BY <1>1 DEF SkipPass, CanBegin
<1>2. CASE Accept(r)
  BY <1>2 DEF Accept
<1>3. CASE Plan(r)
  BY <1>3 DEF Plan, CanBegin
<1>4. CASE Prepare(r)
  BY <1>4 DEF Prepare
<1>5. CASE Spawn(r)
  BY <1>5 DEF Spawn
<1>6. CASE Break(r)
  BY <1>6 DEF Break
<1>7. CASE FailBroken(r)
  BY <1>7 DEF FailBroken
<1>8. CASE Close(r)
  BY <1>8 DEF Close
<1>9. CASE ProcessExit(r)
  BY <1>9 DEF ProcessExit
<1>10. CASE Reap(r)
  BY <1>10 DEF Reap
<1>11. CASE Complete(r)
  BY <1>11 DEF Complete
<1>12. CASE Judge(r)
  BY <1>12 DEF Judge
<1>13. CASE Settle(r)
  BY <1>13 DEF Settle
<1>14. CASE EndPass(r)
  BY <1>14 DEF EndPass
<1>15. CASE LosePlan(r)
  BY <1>15 DEF LosePlan
<1>16. CASE CancelRunning(r)
  BY <1>16 DEF CancelRunning
<1>17. CASE FailCancelled(r)
  BY <1>17 DEF FailCancelled
<1>18. CASE Unwind(r)
  BY <1>18 DEF Unwind
<1>19. CASE LoseSettle(r)
  BY <1>19 DEF LoseSettle, CommitFails
<1>20. CASE Abort(r)
  BY <1>20 DEF Abort, Drop
<1>21. CASE LosePass(r)
  BY <1>21 DEF LosePass, Drop, CommitFails
<1>22. ASSUME NEW j \in Jobs, Claim(r, j)
      PROVE  AllAccounts'
  BY <1>22 DEF Claim
<1>23. ASSUME NEW j \in Jobs, LoseClaim(r, j)
      PROVE  AllAccounts'
  BY <1>23 DEF LoseClaim
<1>. QED
  BY <1>1, <1>2, <1>3, <1>4, <1>5, <1>6, <1>7, <1>8, <1>9, <1>10, <1>11, <1>12, <1>13,
     <1>14, <1>15, <1>16, <1>17, <1>18, <1>19, <1>20, <1>21, <1>22, <1>23 DEF Pass, Advance, Disturb

LEMMA NextAccounts ==
    ASSUME TInv, AllAudits, AllAccounts, [Next]_vars, Faults \cap {"db", "cut"} = {}
    PROVE  AllAccounts'
<1>. USE DEF AllAccounts, AccountInv
<1>1. CASE UNCHANGED vars
  BY <1>1 DEF vars, workerVars
<1>2. ASSUME NEW c \in Calls, Request(c)
      PROVE  AllAccounts'
  <2>1. CASE Signal(c)
    BY <2>1 DEF Signal, TInv, TypeOK
  <2>2. CASE ~Signal(c)
    BY <1>2, <2>2 DEF Request, Stop, CommitStop, LoseCall, workerVars, passVars
  <2>. QED
    BY <2>1, <2>2
<1>3. CASE Surroundings
  <2>1. CASE Crash
    BY <2>1 DEF Crash, Working, TInv, TypeOK
  <2>2. CASE ~Crash
    BY <1>3, <2>2 DEF Surroundings, Shutdown, ShutdownDone, Restart, workerVars
  <2>. QED
    BY <2>1, <2>2
<1>. QED
  BY <1>1, <1>2, <1>3, PassAccounts DEF Next

LEMMA InitAccounts == Init => AllAccounts
BY DEF Init, WorkerInit, AllAccounts, AccountInv, Working

(***************************************************************************)
(* Without lost commits, a pass that ended has listed every job it started *)
(* exactly once, as completed or as failed, through cancellations,         *)
(* shutdowns, crashes and restarts.  A commit that loses the result of a   *)
(* completed job (LoseSettle) would leave that job out of both lists.      *)
(***************************************************************************)
THEOREM AuditsAccount ==
    ASSUME Faults \cap {"db", "cut"} = {}
    PROVE  Spec => []AuditAccounts
<1>1. AllAccounts => AuditAccounts
  BY DEF AllAccounts, AccountInv, AuditAccounts
<1>2. TInv /\ AllAudits /\ AllAccounts /\ [Next]_vars => TInv' /\ AllAudits' /\ AllAccounts'
  BY NextType, NextAudits, NextAccounts
<1>. QED
  BY <1>1, <1>2, InitType, InitAudits, InitAccounts, PTL DEF Spec

-----------------------------------------------------------------------------
(* The lease of a job: what a step of the worker is to JobLease.           *)

\* What a step of pass r may be, as far as a lease is concerned: nothing; a mark
\* on jobs; the end of r's lease, with the outcome of its job; a lease taken.
OthersKeep(r) == \A s \in Runs \ {r}, j \in Jobs : Owns(s, j)' <=> Owns(s, j)
SameOwners == \A s \in Runs, j \in Jobs : Owns(s, j)' <=> Owns(s, j)

Quiet(r) == OthersKeep(r) /\ (\A j \in Jobs : Owns(r, j)' <=> Owns(r, j)) /\ status' = status

Marks(r) ==
    /\ OthersKeep(r)
    /\ \A j \in Jobs : Owns(r, j)' <=> Owns(r, j)
    /\ \A j \in Jobs : status'[j] = status[j] \/ status'[j] = "failed"

Ends(r, j) ==
    /\ OthersKeep(r)
    /\ Owns(r, j)
    /\ \A i \in Jobs : ~Owns(r, i)'
    /\ \E outcome \in {status[j], "completed", "failed"} : status' = [status EXCEPT ![j] = outcome]

Begins(r, j) ==
    /\ OthersKeep(r)
    /\ \A i \in Jobs : ~Owns(r, i)
    /\ \A i \in Jobs : Owns(r, i)' <=> i = j
    /\ status[j] = "queued"
    /\ status' = [status EXCEPT ![j] = "running"]

LEMMA PassMoves ==
    ASSUME TInv, NEW r \in Runs, Pass(r), "cut" \notin Faults
    PROVE  Quiet(r) \/ Marks(r) \/ \E j \in Jobs : Ends(r, j) \/ Begins(r, j)
<1>. USE DEF TInv, TypeOK, QueueTypeOK, HasJob, Quiet, Marks, Ends, Begins, OthersKeep, Owns,
             Working, Steps, Goto, Claimable, queueVars
<1>1. CASE SkipPass(r)
  <2>1. Quiet(r)
    BY <1>1 DEF SkipPass, CanBegin
  <2>. QED
    BY <2>1
<1>2. CASE Accept(r)
  <2>1. Quiet(r)
    BY <1>2 DEF Accept
  <2>. QED
    BY <2>1
<1>3. CASE Plan(r)
  <2>1. Quiet(r)
    BY <1>3 DEF Plan, CanBegin
  <2>. QED
    BY <2>1
<1>4. CASE Prepare(r)
  <2>1. Quiet(r)
    BY <1>4 DEF Prepare
  <2>. QED
    BY <2>1
<1>5. CASE Spawn(r)
  <2>1. Quiet(r)
    BY <1>5 DEF Spawn
  <2>. QED
    BY <2>1
<1>6. CASE Break(r)
  <2>1. Quiet(r)
    BY <1>6 DEF Break
  <2>. QED
    BY <2>1
<1>7. CASE ProcessExit(r)
  <2>1. Quiet(r)
    BY <1>7 DEF ProcessExit
  <2>. QED
    BY <2>1
<1>8. CASE Reap(r)
  <2>1. Quiet(r)
    BY <1>8 DEF Reap, Unregister
  <2>. QED
    BY <2>1
<1>9. CASE Settle(r)
  <2>1. Quiet(r)
    BY <1>9 DEF Settle
  <2>. QED
    BY <2>1
<1>10. CASE EndPass(r)
  <2>1. Quiet(r)
    BY <1>10 DEF EndPass
  <2>. QED
    BY <2>1
<1>11. CASE LosePlan(r)
  <2>1. Quiet(r)
    BY <1>11 DEF LosePlan
  <2>. QED
    BY <2>1
<1>12. CASE CancelRunning(r)
  <2>1. Quiet(r)
    BY <1>12 DEF CancelRunning
  <2>. QED
    BY <2>1
<1>13. CASE LoseSettle(r)
  <2>1. Quiet(r)
    BY <1>13 DEF LoseSettle
  <2>. QED
    BY <2>1
<1>14. CASE LosePass(r)
  <2>1. Quiet(r)
    BY <1>14 DEF LosePass, Drop
  <2>. QED
    BY <2>1
<1>15. CASE FailBroken(r)
  <2>1. Marks(r)
    BY <1>15 DEF FailBroken, WriteStatus
  <2>. QED
    BY <2>1
<1>16. CASE Abort(r)
  <2>1. Marks(r)
    BY <1>16 DEF Abort, Drop
  <2>. QED
    BY <2>1
<1>17. CASE Close(r)
  <2>1. PICK j \in Jobs : j = cur[r]
    BY <1>17 DEF Close
  <2>2. Ends(r, j)
    BY <1>17, <2>1 DEF Close, Unregister
  <2>. QED
    BY <2>1, <2>2
<1>18. CASE Complete(r)
  <2>1. PICK j \in Jobs : j = cur[r]
    BY <1>18 DEF Complete
  <2>2. Ends(r, j)
    BY <1>18, <2>1 DEF Complete, WriteStatus
  <2>. QED
    BY <2>1, <2>2
<1>19. CASE Judge(r)
  <2>1. PICK j \in Jobs : j = cur[r]
    BY <1>19 DEF Judge
  <2>2. Ends(r, j)
    BY <1>19, <2>1 DEF Judge, WriteStatus
  <2>. QED
    BY <2>1, <2>2
<1>20. CASE FailCancelled(r)
  <2>1. PICK j \in Jobs : j = cur[r]
    BY <1>20 DEF FailCancelled
  <2>2. Ends(r, j)
    BY <1>20, <2>1 DEF FailCancelled, WriteStatus, Unregister
  <2>. QED
    BY <2>1, <2>2
<1>21. CASE Unwind(r)
  <2>1. CASE pc[r] \in Working
    <3>1. PICK j \in Jobs : j = cur[r]
      BY <2>1
    <3>2. Ends(r, j)
      BY <1>21, <2>1, <3>1 DEF Unwind
    <3>. QED
      BY <3>1, <3>2
  <2>2. CASE pc[r] \notin Working
    <3>1. Quiet(r)
      BY <1>21, <2>2 DEF Unwind
    <3>. QED
      BY <3>1
  <2>. QED
    BY <2>1, <2>2
<1>22. ASSUME NEW j \in Jobs, Claim(r, j)
      PROVE  Quiet(r) \/ Begins(r, j)
  <2>1. CASE Claimable(j)
    BY <1>22, <2>1 DEF Claim
  <2>2. CASE ~Claimable(j)
    BY <1>22, <2>2 DEF Claim
  <2>. QED
    BY <2>1, <2>2
<1>23. ASSUME NEW j \in Jobs
      PROVE  ~LoseClaim(r, j)
  BY DEF LoseClaim
<1>. QED
  BY <1>1, <1>2, <1>3, <1>4, <1>5, <1>6, <1>7, <1>8, <1>9, <1>10, <1>11, <1>12, <1>13, <1>14, <1>15, <1>16, <1>17, <1>18, <1>19, <1>20, <1>21, <1>22, <1>23 DEF Pass, Advance, Disturb

\* Owner(j) is the pass that owns j, and None if none does.
LEMMA OwnerIsSo ==
    ASSUME SingleOwner, NEW j \in Jobs
    PROVE  /\ \A r \in Runs : Owns(r, j) => Owner(j) = r
           /\ (\A r \in Runs : ~Owns(r, j)) => Owner(j) = None
<1>1. ASSUME NEW r \in Runs, Owns(r, j)
      PROVE  Owner(j) = r
  <2>1. \A s \in Runs : Owns(s, j) => s = r
    BY <1>1 DEF SingleOwner
  <2>. QED
    BY <1>1, <2>1 DEF Owner
<1>. QED
  BY <1>1 DEF Owner

LEMMA OwnerIsSoNext ==
    ASSUME SingleOwner', NEW j \in Jobs
    PROVE  /\ \A r \in Runs : Owns(r, j)' => Owner(j)' = r
           /\ (\A r \in Runs : ~Owns(r, j)') => Owner(j)' = None
<1>1. ASSUME NEW r \in Runs, Owns(r, j)'
      PROVE  Owner(j)' = r
  <2>1. \A s \in Runs : Owns(s, j)' => s = r
    BY <1>1 DEF SingleOwner
  <2>. QED
    BY <1>1, <2>1 DEF Owner
<1>. QED
  BY <1>1 DEF Owner

\* A step maps to its counterpart in JobLease once Owns is known before and after.
LEMMA SameOwner ==
    ASSUME SingleOwner, SingleOwner', NEW j \in Jobs, \A s \in Runs : Owns(s, j)' <=> Owns(s, j)
    PROVE  Owner(j)' = Owner(j)
BY OwnerIsSo, OwnerIsSoNext

LEMMA PassLease ==
    ASSUME OInv, OInv', NEW r \in Runs, Pass(r), "cut" \notin Faults
    PROVE  [Lease!Next]_(Lease!leaseVars)
<1>. USE DEF OInv
<1>0. SingleOwner /\ SingleOwner' /\ status \in [Jobs -> RowStatus] /\ status' \in [Jobs -> RowStatus]
  BY DEF TInv, TypeOK, QueueTypeOK
<1>1. CASE Quiet(r)
  <2>1. \A j \in Jobs : Owner(j)' = Owner(j)
    BY <1>0, <1>1, SameOwner DEF Quiet, OthersKeep
  <2>. QED
    BY <1>1, <2>1 DEF Quiet, Lease!leaseVars
<1>2. CASE Marks(r)
  <2>1. \A j \in Jobs : Owner(j)' = Owner(j)
    BY <1>0, <1>2, SameOwner DEF Marks, OthersKeep
  <2>2. Lease!Mark
    BY <1>0, <1>2, <2>1 DEF Marks, Lease!Mark
  <2>. QED
    BY <2>2 DEF Lease!Next
<1>3. ASSUME NEW j \in Jobs, Ends(r, j)
      PROVE  Lease!Release(j)
  <2>1. \A s \in Runs \ {r} : ~Owns(s, j)'
    BY <1>0, <1>3 DEF Ends, OthersKeep, SingleOwner
  <2>2. Owner(j)' = None
    BY <1>0, <1>3, <2>1, OwnerIsSoNext DEF Ends
  <2>3. Owner(j) = r
    BY <1>0, <1>3, OwnerIsSo DEF Ends
  <2>4. \A i \in Jobs \ {j} : ~Owns(r, i)
    BY <1>3 DEF Ends, Owns
  <2>5. \A i \in Jobs \ {j} : Owner(i)' = Owner(i)
    BY <1>0, <1>3, <2>4, SameOwner DEF Ends, OthersKeep
  <2>6. [i \in Jobs |-> Owner(i)]' = [[i \in Jobs |-> Owner(i)] EXCEPT ![j] = None]
    BY <2>2, <2>5
  <2>7. [i \in Jobs |-> Owner(i)][j] # None
    BY <2>3, WorkerAssumption
  <2>8. \E outcome \in {status[j], "completed", "failed"} : status' = [status EXCEPT ![j] = outcome]
    BY <1>3 DEF Ends
  <2>. QED
    BY <2>6, <2>7, <2>8 DEF Lease!Release
<1>4. ASSUME NEW j \in Jobs, Begins(r, j)
      PROVE  Lease!Take(j, r)
  <2>1. \A s \in Runs : ~Owns(s, j)
    BY <1>4 DEF Begins, OwnedNotQueued
  <2>2. Owner(j) = None
    BY <1>0, <2>1, OwnerIsSo
  <2>3. Owner(j)' = r
    BY <1>0, <1>4, OwnerIsSoNext DEF Begins
  <2>4. \A i \in Jobs \ {j} : Owner(i)' = Owner(i)
    BY <1>0, <1>4, SameOwner DEF Begins, OthersKeep
  <2>. QED
    BY <1>4, <2>2, <2>3, <2>4 DEF Begins, Lease!Take
<1>. QED
  BY <1>1, <1>2, <1>3, <1>4, PassMoves DEF Lease!Next

LEMMA RequestLease ==
    ASSUME OInv, OInv', NEW c \in Calls, Request(c), RequestsSpareOwnedJobs
    PROVE  [Lease!Next]_(Lease!leaseVars)
<1>. USE DEF OInv
<1>0. SingleOwner /\ SingleOwner' /\ status \in [Jobs -> RowStatus] /\ status' \in [Jobs -> RowStatus]
  BY DEF TInv, TypeOK, QueueTypeOK
<1>1. \A j \in Jobs : Owner(j)' = Owner(j)
  BY <1>0, RequestOwns, SameOwner DEF Owns
<1>2. \A j \in Jobs : status'[j] # status[j] => status'[j] \in {"candidate", "queued", "cancelled"}
  <2>1. CASE Commit(c) \/ CommitStop(c)
    BY <2>1, ApplyEditsStatus DEF Commit, CommitStop, TInv, TypeOK
  <2>2. CASE ~(Commit(c) \/ CommitStop(c))
    BY <2>2 DEF Request, Decide, Retry, Cancel, Enqueue, StageCandidates, StageArchive, AutoQueue, Stage,
                Open, Stop, Signal, LoseCall
  <2>. QED
    BY <2>1, <2>2
<1>3. \A j \in Jobs : status'[j] # status[j] /\ status'[j] = "queued" => Owner(j) = None
  BY <1>0, OwnerIsSo DEF RequestsSpareOwnedJobs
<1>4. Lease!Mark
  BY <1>0, <1>1, <1>2, <1>3 DEF Lease!Mark
<1>. QED
  BY <1>4 DEF Lease!Next

LEMMA SurroundingsLease ==
    ASSUME OInv, OInv', Surroundings
    PROVE  [Lease!Next]_(Lease!leaseVars)
<1>. USE DEF OInv
<1>0. SingleOwner /\ SingleOwner' /\ status \in [Jobs -> RowStatus] /\ status' \in [Jobs -> RowStatus]
  BY DEF TInv, TypeOK, QueueTypeOK
<1>1. CASE Crash
  <2>1. \A s \in Runs, j \in Jobs : ~Owns(s, j)'
    BY <1>1 DEF Crash, Owns, Working, TInv, TypeOK
  <2>2. \A j \in Jobs : Owner(j)' = None
    BY <1>0, <2>1, OwnerIsSoNext
  <2>3. Lease!Revoke
    BY <1>1, <2>2 DEF Crash, Lease!Revoke
  <2>. QED
    BY <2>3 DEF Lease!Next
<1>2. CASE ~Crash
  <2>1. pc' = pc /\ cur' = cur
    BY <1>2 DEF Surroundings, Shutdown, ShutdownDone, Restart, workerVars
  <2>2. \A j \in Jobs : Owner(j)' = Owner(j)
    BY <1>0, <2>1, SameOwner DEF Owns
  <2>3. \A j \in Jobs : status'[j] # status[j] => status'[j] = "failed"
    BY <1>2, <1>0 DEF Surroundings, SetWorkerPaused, MediaLost, Shutdown, ShutdownDone, Restart
  <2>4. Lease!Mark
    BY <1>0, <2>2, <2>3 DEF Lease!Mark
  <2>. QED
    BY <2>4 DEF Lease!Next
<1>. QED
  BY <1>1, <1>2

LEMMA InitLease == Init => Lease!Init
<1>. SUFFICES ASSUME Init
              PROVE  Lease!Init
  OBVIOUS
<1>1. SingleOwner
  BY InitOwns DEF OInv
<1>2. \A j \in Jobs : Owner(j) = None
  BY <1>1, OwnerIsSo DEF Init, WorkerInit, Owns, Working
<1>. QED
  BY <1>2 DEF Init, QueueInit, Lease!Init

(***************************************************************************)
(* Passes, their cancellations and failures, the requests that edit the    *)
(* same rows, shutdowns, crashes and restarts implement JobLease: a job is *)
(* leased to one pass at a time, only when it is queued, is not put back   *)
(* while it is leased, and is completed by the end of a lease only.  It    *)
(* takes requests that spare owned jobs (GuardedSpec), and claims whose    *)
(* commit is not cut off unseen (LoseClaim).                               *)
(***************************************************************************)
THEOREM LeasesImplemented ==
    ASSUME "cut" \notin Faults
    PROVE  GuardedSpec => ImplementsLease
<1>1. OInv /\ OInv' /\ [Next /\ RequestsSpareOwnedJobs]_vars => [Lease!Next]_(Lease!leaseVars)
  <2>1. ASSUME OInv, OInv', UNCHANGED vars
        PROVE  UNCHANGED Lease!leaseVars
    <3>1. \A j \in Jobs : Owner(j)' = Owner(j)
      BY <2>1, SameOwner DEF OInv, vars, workerVars, Owns
    <3>. QED
      BY <2>1, <3>1 DEF Lease!leaseVars, vars, queueVars
  <2>. QED
    BY <2>1, PassLease, RequestLease, SurroundingsLease DEF Next
<1>2. OInv /\ [Next /\ RequestsSpareOwnedJobs]_vars => OInv'
  BY NextOwns
<1>. QED
  BY <1>1, <1>2, InitOwns, InitLease, PTL DEF GuardedSpec, ImplementsLease, Lease!Spec

-----------------------------------------------------------------------------
(* The rows of a video.                                                    *)

\* What a step of pass r may write: it claims a queued job, it ends its own job
\* (and is through with it once that is completed), or it fails a running one.
PassWrites(r) ==
    \A j \in Jobs :
        \/ status'[j] = status[j]
        \/ status[j] = "queued" /\ status'[j] = "running"
        \/ status'[j] = "failed" /\ (status[j] = "running" \/ Owns(r, j))
        \/ status'[j] = "completed" /\ Owns(r, j) /\ pc'[r] \notin Working

LEMMA PassStatus ==
    ASSUME TInv, NEW r \in Runs, Pass(r)
    PROVE  PassWrites(r)
<1>. USE DEF TInv, TypeOK, QueueTypeOK, HasJob, PassWrites, Claimable, Owns, Working, Goto, queueVars
<1>1. CASE SkipPass(r)
  BY <1>1 DEF SkipPass
<1>2. CASE Accept(r)
  BY <1>2 DEF Accept
<1>3. CASE Plan(r)
  BY <1>3 DEF Plan
<1>4. CASE Prepare(r)
  BY <1>4 DEF Prepare
<1>5. CASE Spawn(r)
  BY <1>5 DEF Spawn
<1>6. CASE Break(r)
  BY <1>6 DEF Break
<1>7. CASE FailBroken(r)
  BY <1>7 DEF FailBroken, WriteStatus
<1>8. CASE Close(r)
  BY <1>8 DEF Close
<1>9. CASE ProcessExit(r)
  BY <1>9 DEF ProcessExit
<1>10. CASE Reap(r)
  BY <1>10 DEF Reap
<1>11. CASE Complete(r)
  BY <1>11 DEF Complete, WriteStatus
<1>12. CASE Judge(r)
  BY <1>12 DEF Judge, WriteStatus
<1>13. CASE Settle(r)
  BY <1>13 DEF Settle
<1>14. CASE EndPass(r)
  BY <1>14 DEF EndPass
<1>15. CASE LosePlan(r)
  BY <1>15 DEF LosePlan
<1>16. CASE CancelRunning(r)
  BY <1>16 DEF CancelRunning
<1>17. CASE FailCancelled(r)
  BY <1>17 DEF FailCancelled, WriteStatus
<1>18. CASE Unwind(r)
  BY <1>18 DEF Unwind
<1>19. CASE LoseSettle(r)
  BY <1>19 DEF LoseSettle
<1>20. CASE Abort(r)
  BY <1>20 DEF Abort
<1>21. CASE LosePass(r)
  BY <1>21 DEF LosePass
<1>22. ASSUME NEW j \in Jobs, Claim(r, j)
      PROVE  PassWrites(r)
  BY <1>22 DEF Claim
<1>23. ASSUME NEW j \in Jobs, LoseClaim(r, j)
      PROVE  PassWrites(r)
  BY <1>23 DEF LoseClaim
<1>. QED
  BY <1>1, <1>2, <1>3, <1>4, <1>5, <1>6, <1>7, <1>8, <1>9, <1>10, <1>11, <1>12, <1>13,
     <1>14, <1>15, <1>16, <1>17, <1>18, <1>19, <1>20, <1>21, <1>22, <1>23 DEF Pass, Advance, Disturb

\* Neither a pass nor the life of the API process makes an inactive job active.
LEMMA OthersStatus ==
    ASSUME TInv, (\E r \in Runs : Pass(r)) \/ Surroundings
    PROVE  \A j \in Jobs : status'[j] \in Active => status[j] \in Active
<1>1. CASE Surroundings
  BY <1>1 DEF Surroundings, SetWorkerPaused, MediaLost, Shutdown, ShutdownDone, Crash, Restart,
              TInv, TypeOK, QueueTypeOK, Active
<1>2. ASSUME NEW r \in Runs, Pass(r)
      PROVE  \A j \in Jobs : status'[j] \in Active => status[j] \in Active
  <2>. USE DEF PassWrites, TInv, TypeOK, QueueTypeOK, HasJob, Owns, Active
  <2>. QED
    BY <1>2, PassStatus
<1>. QED
  BY <1>1, <1>2

\* Passes, and the life of the API process short of a crash, leave open requests
\* alone.
LEMMA KeepsRequests ==
    ASSUME (\E r \in Runs : Pass(r)) \/ (Surroundings /\ ~Crash)
    PROVE  UNCHANGED <<callStep, edit, insert, overtaken>>
<1>1. ASSUME Surroundings, ~Crash
      PROVE  UNCHANGED <<callStep, edit, insert, overtaken>>
  BY <1>1 DEF Surroundings, SetWorkerPaused, MediaLost, Shutdown, ShutdownDone, Restart
<1>2. ASSUME NEW r \in Runs, Pass(r)
      PROVE  UNCHANGED <<callStep, edit, insert, overtaken>>
  BY <1>2 DEF Pass, Advance, Disturb, queueVars,
     SkipPass, Accept, Plan, Prepare, Spawn, Break, FailBroken, Close, ProcessExit,
     Reap, Complete, Judge, Settle, EndPass, LosePlan, CancelRunning, FailCancelled, Unwind, LoseSettle, Abort, LosePass, Claim, LoseClaim
<1>. QED
  BY <1>1, <1>2

\* The videos of which a request other than c changes a row in this step.
Overtakes(c) ==
    {v \in Videos : /\ \E d \in Calls \ {c} : callStep'[d] # callStep[d]
                    /\ \E j \in JobsOf(v) : status'[j] # status[j]}

\* While a request is open, overtaken collects them.
LEMMA Overtaking ==
    ASSUME TInv, Next, NEW d \in Calls, callStep[d] = "open", callStep'[d] = "open"
    PROVE  overtaken[d] \cup Overtakes(d) \subseteq overtaken'[d]
<1>0. callStep \in [Calls -> {"idle", "open", "stopping", "signal"}] /\ overtaken \in [Calls -> SUBSET Videos]
  BY DEF TInv, TypeOK, QueueTypeOK
<1>1. CASE (\E r \in Runs : Pass(r)) \/ (Surroundings /\ ~Crash)
  BY <1>1, KeepsRequests DEF Overtakes
<1>2. CASE Crash
  BY <1>2 DEF Crash
<1>3. ASSUME NEW c \in Calls, Request(c)
      PROVE  overtaken[d] \cup Overtakes(d) \subseteq overtaken'[d]
  <2>1. CASE Decide(c) \/ \E j \in Jobs : Stop(c, j)
    <3>1. status' = status /\ overtaken' = overtaken
      BY <2>1 DEF Decide, Retry, Cancel, Enqueue, StageCandidates, StageArchive, AutoQueue, Stage, Open, Stop
    <3>. QED
      BY <3>1 DEF Overtakes
  <2>2. CASE Commit(c) \/ CommitStop(c) \/ Signal(c) \/ LoseCall(c)
    <3>1. Overtake(c) /\ callStep'[c] # "open"
      BY <1>0, <2>2 DEF Commit, CommitStop, Signal, LoseCall
    <3>2. d # c
      BY <3>1
    <3>. QED
      BY <1>0, <3>1, <3>2 DEF Overtake, Overtakes
  <2>. QED
    BY <1>3, <2>1, <2>2 DEF Request
<1>. QED
  BY <1>1, <1>2, <1>3 DEF Next

\* An open request adds a row to a video only while the video has no active job,
\* unless it has been overtaken; a stop puts nothing into the queue.
PlanHolds(c) ==
    /\ callStep[c] = "stopping" => insert[c] = NoInsert /\ \A j \in Jobs : edit[c][j] # "queued"
    /\ \A j \in Jobs : callStep[c] = "open" /\ insert[c][VideoOf[j]] # "keep"
                         /\ VideoOf[j] \notin overtaken[c]
                       => status[j] \notin Active

PlanInv == \A c \in Calls : PlanHolds(c)

\* The action of SecondJobExplained.
Explained ==
    \A v \in Videos : ~HasTwoActiveJobs(v) /\ HasTwoActiveJobs(v)'
                        => \E c \in Calls : WritesLate(c, v) \/ Revives(c, v)

\* A commit that neither is late nor revives a row of v gives it no second job.
LEMMA ApplyPlan ==
    ASSUME TInv, NEW c \in Calls, ApplyEdits(c), NEW v \in Videos,
           ~HasTwoActiveJobs(v), HasTwoActiveJobs(v)',
           insert[c][v] # "keep" => \A j \in JobsOf(v) : status[j] \notin Active
    PROVE  \E j \in JobsOf(v) : edit[c][j] = "queued" /\ status[j] \notin Active
<1>1. PICK new \in SUBSET Absent :
          /\ \A w \in Videos : IF insert[c][w] = "keep" THEN new \cap JobsOf(w) = {}
                              ELSE \E j \in JobsOf(w) : new \cap JobsOf(w) = {j}
          /\ status' = [j \in Jobs |-> IF j \in new THEN insert[c][VideoOf[j]]
                                       ELSE IF edit[c][j] # "keep" THEN edit[c][j]
                                       ELSE status[j]]
  BY DEF ApplyEdits
<1>2. PICK i \in JobsOf(v), j \in JobsOf(v) : i # j /\ status'[i] \in Active /\ status'[j] \in Active
  BY DEF HasTwoActiveJobs, JobsOf
<1>3. i \in Jobs /\ j \in Jobs
  BY DEF JobsOf
<1>4. SUFFICES ASSUME \A k \in JobsOf(v) : edit[c][k] = "queued" => status[k] \in Active
               PROVE  FALSE
  OBVIOUS
<1>5. \A k \in {i, j} : k \in new \/ status[k] \in Active
  BY <1>1, <1>2, <1>3, <1>4 DEF TInv, TypeOK, QueueTypeOK, Active
<1>6. CASE insert[c][v] # "keep"
  BY <1>1, <1>2, <1>5, <1>6
<1>7. CASE insert[c][v] = "keep"
  BY <1>1, <1>2, <1>5, <1>7 DEF HasTwoActiveJobs
<1>. QED
  BY <1>6, <1>7

\* What a request plans when it reads the table.
LEMMA DecidePlan ==
    ASSUME TInv, PlanInv, NEW c \in Calls, Decide(c) \/ \E j \in Jobs : Stop(c, j)
    PROVE  PlanHolds(c)'
<1>0. edit \in [Calls -> [Jobs -> {"queued", "cancelled", "keep"}]] /\ insert \in [Calls -> [Videos -> {"candidate", "queued", "keep"}]]
      /\ callStep \in [Calls -> {"idle", "open", "stopping", "signal"}]
  BY DEF TInv, TypeOK, QueueTypeOK
<1>v. VideoOf \in [Jobs -> Videos]
  BY QueueAssumption
<1>1. ASSUME NEW S, Retry(c, S) \/ Cancel(c, S)
      PROVE  PlanHolds(c)'
  BY <1>0, <1>v, <1>1 DEF Retry, Cancel, Open, PlanHolds, NoInsert
<1>3. ASSUME NEW j \in Jobs, Stop(c, j)
      PROVE  PlanHolds(c)'
  BY <1>0, <1>v, <1>3 DEF Stop, Open, Assign, PlanHolds, NoInsert
<1>4. ASSUME NEW v \in Videos, Enqueue(c, v)
      PROVE  PlanHolds(c)'
  <2>1. ASSUME NEW j \in JobsOf(v), Open(c, "enqueue", Assign({j}, Active, "queued"), NoInsert)
        PROVE  PlanHolds(c)'
    BY <1>0, <1>v, <2>1 DEF Open, PlanHolds, NoInsert
  <2>2. ASSUME \A j \in JobsOf(v) : status[j] \notin Active,
               Open(c, "enqueue", NoEdit, [NoInsert EXCEPT ![v] = "queued"])
        PROVE  PlanHolds(c)'
    BY <1>0, <1>v, <2>2 DEF Open, PlanHolds, NoEdit, NoInsert, JobsOf
  <2>. QED
    BY <1>4, <2>1, <2>2 DEF Enqueue
<1>5. ASSUME NEW kind, NEW initial, kind # "stop",
             NEW S, \A v \in S : \A j \in JobsOf(v) : status[j] \notin Active,
             Open(c, kind, NoEdit, [v \in Videos |-> IF v \in S THEN initial ELSE "keep"])
      PROVE  PlanHolds(c)'
  <2>1. callStep'[c] = "open" /\ status' = status
    BY <1>0, <1>5 DEF Open
  <2>2. \A j \in Jobs : insert'[c][VideoOf[j]] # "keep" => VideoOf[j] \in S
    BY <1>0, <1>v, <1>5 DEF Open
  <2>. QED
    BY <1>5, <2>1, <2>2 DEF PlanHolds, JobsOf
<1>6. ASSUME NEW ch, StageCandidates(c, ch) \/ StageArchive(c, ch) \/ AutoQueue(c, ch)
      PROVE  PlanHolds(c)'
  <2>1. CASE StageCandidates(c, ch)
    <3>1. PICK S \in SUBSET Stageable(ch, Active) :
            Open(c, "candidates", NoEdit, [v \in Videos |-> IF v \in S THEN "candidate" ELSE "keep"])
      BY <2>1 DEF StageCandidates, Stage
    <3>2. \A v \in S : \A j \in JobsOf(v) : status[j] \notin Active
      BY <3>1 DEF Stageable
    <3>. QED
      BY <1>5, <3>1, <3>2
  <2>2. CASE StageArchive(c, ch)
    BY <1>5, <2>2 DEF StageArchive, Stageable
  <2>3. CASE AutoQueue(c, ch)
    <3>1. PICK S \in SUBSET Stageable(ch, AutoQueueBlocking) :
            Open(c, "auto", NoEdit, [v \in Videos |-> IF v \in S THEN "queued" ELSE "keep"])
      BY <2>3 DEF AutoQueue, Stage
    <3>2. \A v \in S : \A j \in JobsOf(v) : status[j] \notin Active
      BY <3>1 DEF Stageable, AutoQueueBlocking
    <3>. QED
      BY <1>5, <3>1, <3>2
  <2>. QED
    BY <1>6, <2>1, <2>2, <2>3
<1>. QED
  BY <1>1, <1>3, <1>4, <1>6 DEF Decide

LEMMA NextPlans ==
    ASSUME TInv, PlanInv, Next
    PROVE  PlanInv' /\ Explained
<1>0. /\ edit \in [Calls -> [Jobs -> {"queued", "cancelled", "keep"}]]
      /\ insert \in [Calls -> [Videos -> {"candidate", "queued", "keep"}]]
      /\ callStep \in [Calls -> {"idle", "open", "stopping", "signal"}]
  BY DEF TInv, TypeOK, QueueTypeOK
<1>v. VideoOf \in [Jobs -> Videos]
  BY QueueAssumption
<1>1. ASSUME \A j \in Jobs : status'[j] \in Active => status[j] \in Active
      PROVE  Explained
  BY <1>1 DEF Explained, HasTwoActiveJobs, JobsOf
\* A request that the step leaves alone is overtaken, or its plan still holds.
<1>2. ASSUME NEW d \in Calls, callStep'[d] = callStep[d], edit'[d] = edit[d], insert'[d] = insert[d],
             \/ \A j \in Jobs : status'[j] \in Active => status[j] \in Active
             \/ \E c \in Calls \ {d} : callStep'[c] # callStep[c]
      PROVE  PlanHolds(d)'
  <2>1. ASSUME NEW j \in Jobs, callStep'[d] = "open", insert'[d][VideoOf[j]] # "keep",
               VideoOf[j] \notin overtaken'[d]
        PROVE  status'[j] \notin Active
    <3>1. VideoOf[j] \notin overtaken[d] /\ VideoOf[j] \notin Overtakes(d)
      BY <1>2, <2>1, Overtaking
    <3>2. status[j] \notin Active
      BY <1>2, <2>1, <3>1 DEF PlanInv, PlanHolds
    <3>3. CASE \A k \in Jobs : status'[k] \in Active => status[k] \in Active
      BY <3>2, <3>3
    <3>4. CASE \E c \in Calls \ {d} : callStep'[c] # callStep[c]
      BY <1>v, <3>1, <3>2, <3>4 DEF Overtakes, JobsOf
    <3>. QED
      BY <1>2, <3>3, <3>4
  <2>. QED
    BY <1>2, <2>1 DEF PlanInv, PlanHolds
<1>3. ASSUME (\E r \in Runs : Pass(r)) \/ (Surroundings /\ ~Crash)
      PROVE  PlanInv' /\ Explained
  <2>1. \A j \in Jobs : status'[j] \in Active => status[j] \in Active
    BY <1>3, OthersStatus
  <2>2. UNCHANGED <<callStep, edit, insert>>
    BY <1>3, KeepsRequests
  <2>. QED
    BY <1>1, <1>2, <2>1, <2>2 DEF PlanInv
<1>4. CASE Crash
  <2>1. \A j \in Jobs : status'[j] \in Active => status[j] \in Active
    BY <1>4 DEF Crash
  <2>2. \A c \in Calls : callStep'[c] = "idle"
    BY <1>4 DEF Crash
  <2>. QED
    BY <1>1, <2>1, <2>2 DEF PlanInv, PlanHolds
<1>5. ASSUME NEW c \in Calls, Request(c)
      PROVE  PlanInv' /\ Explained
  <2>1. /\ \A d \in Calls \ {c} : callStep'[d] = callStep[d] /\ edit'[d] = edit[d] /\ insert'[d] = insert[d]
        /\ callStep'[c] # callStep[c]
    BY <1>0, <1>5 DEF Request, Decide, Retry, Cancel, Enqueue, StageCandidates, StageArchive, AutoQueue,
                      Stage, Open, Commit, Stop, CommitStop, Signal, LoseCall, Discard
  <2>2. \A d \in Calls \ {c} : PlanHolds(d)'
    BY <1>2, <2>1
  <2>3. CASE Decide(c) \/ \E j \in Jobs : Stop(c, j)
    <3>1. status' = status
      BY <2>3 DEF Decide, Retry, Cancel, Enqueue, StageCandidates, StageArchive, AutoQueue, Stage, Open, Stop
    <3>. QED
      BY <1>1, <2>2, <2>3, <3>1, DecidePlan DEF PlanInv
  <2>4. CASE Commit(c)
    <3>1. callStep[c] = "open" /\ callStep'[c] = "idle" /\ ApplyEdits(c)
      BY <1>0, <2>4 DEF Commit
    <3>2. ASSUME NEW v \in Videos, ~HasTwoActiveJobs(v), HasTwoActiveJobs(v)', v \notin overtaken[c]
          PROVE  Revives(c, v)
      <4>1. insert[c][v] # "keep" => \A j \in JobsOf(v) : status[j] \notin Active
        BY <3>1, <3>2 DEF PlanInv, PlanHolds, JobsOf
      <4>. QED
        BY <3>1, <3>2, <4>1, ApplyPlan DEF Revives
    <3>3. Explained
      BY <3>1, <3>2 DEF Explained, WritesLate
    <3>4. PlanHolds(c)'
      BY <3>1 DEF PlanHolds
    <3>. QED
      BY <2>2, <3>3, <3>4 DEF PlanInv
  <2>5. CASE CommitStop(c)
    <3>1. callStep[c] = "stopping" /\ callStep'[c] = "signal" /\ ApplyEdits(c)
      BY <1>0, <2>5 DEF CommitStop
    <3>2. insert[c] = NoInsert /\ \A j \in Jobs : edit[c][j] # "queued"
      BY <3>1 DEF PlanInv, PlanHolds
    <3>3. Explained
      <4>1. \A v \in Videos : ~(~HasTwoActiveJobs(v) /\ HasTwoActiveJobs(v)')
        BY <3>1, <3>2, ApplyPlan DEF NoInsert, JobsOf
      <4>. QED
        BY <4>1 DEF Explained
    <3>4. PlanHolds(c)'
      BY <3>1 DEF PlanHolds
    <3>. QED
      BY <2>2, <3>3, <3>4 DEF PlanInv
  <2>6. CASE Signal(c) \/ LoseCall(c)
    <3>1. callStep'[c] = "idle" /\ status' = status
      BY <1>0, <2>6 DEF Signal, LoseCall
    <3>2. PlanHolds(c)'
      BY <3>1 DEF PlanHolds
    <3>. QED
      BY <1>1, <2>2, <3>1, <3>2 DEF PlanInv
  <2>. QED
    BY <1>5, <2>3, <2>4, <2>5, <2>6 DEF Request
<1>. QED
  BY <1>3, <1>4, <1>5 DEF Next, Next

LEMMA InitPlans == Init => PlanInv
BY DEF Init, Init, QueueInit, PlanInv, PlanHolds

(***************************************************************************)
(* With any number of requests, passes, failures, crashes and restarts, a  *)
(* video gets a second active job only by the commit of a request that was *)
(* overtaken by another one, or that takes an ended job back into the      *)
(* queue.                                                                  *)
(***************************************************************************)
THEOREM SecondJobs == Spec => SecondJobExplained
<1>1. TInv /\ PlanInv /\ [Next]_vars => TInv' /\ PlanInv' /\ [Explained]_vars
  <2>1. CASE UNCHANGED vars
    BY <2>1, NextType DEF vars, vars, queueVars, PlanInv, PlanHolds
  <2>2. CASE Next
    BY <2>2, NextType, NextPlans DEF Next
  <2>. QED
    BY <2>1, <2>2
<1>2. [][Explained]_vars => SecondJobExplained
  BY PTL DEF SecondJobExplained, Explained
<1>3. Init => TInv /\ PlanInv
  BY InitType, InitPlans DEF Init
<1>. QED
  BY <1>1, <1>2, <1>3, PTL DEF Spec

-----------------------------------------------------------------------------
(* The automatic queue.                                                    *)

\* An owned job is running or ended; a row that waits to be added as "queued" is
\* for a video all of whose jobs, if any, are completed, unless the request has
\* been overtaken; and only rows that exist are edited.
AutoInv ==
    /\ \A c \in Calls, j \in Jobs : edit[c][j] # "keep" => status[j] # "absent"
    /\ \A r \in Runs, j \in Jobs : Owns(r, j) => status[j] \in {"running", "failed", "cancelled"}
    /\ \A c \in Calls, j \in Jobs :
         callStep[c] = "open" /\ insert[c][VideoOf[j]] = "queued" /\ VideoOf[j] \notin overtaken[c]
         => status[j] \in {"absent", "completed"}
    /\ \A c \in Calls : callStep[c] = "stopping" => insert[c] = NoInsert

\* The action of AutoQueueNeverRetries.
QueuesAnew ==
    \A j \in Jobs : status[j] = "absent" /\ status'[j] = "queued"
         => \/ \A i \in JobsOf(VideoOf[j]) : status[i] \notin {"failed", "cancelled"}
            \/ \E c \in Calls : WritesLate(c, VideoOf[j])

\* What the commit of a request does to a row under AutoInv.
LEMMA AutoApply ==
    ASSUME TInv, AutoInv, NEW c \in Calls, ApplyEdits(c), NEW j \in Jobs
    PROVE  \/ status'[j] = status[j]
           \/ status[j] # "absent" /\ status'[j] \in {"queued", "cancelled"}
           \/ status[j] = "absent" /\ status'[j] = insert[c][VideoOf[j]] /\ status'[j] \in {"candidate", "queued"}
<1>1. PICK new \in SUBSET Absent :
          /\ \A v \in Videos : insert[c][v] = "keep" => new \cap JobsOf(v) = {}
          /\ status' = [i \in Jobs |-> IF i \in new THEN insert[c][VideoOf[i]]
                                       ELSE IF edit[c][i] # "keep" THEN edit[c][i]
                                       ELSE status[i]]
  BY DEF ApplyEdits
<1>2. edit[c][j] \in {"queued", "cancelled", "keep"}
  BY DEF TInv, TypeOK, QueueTypeOK
<1>3. CASE j \in new
  <2>1. VideoOf[j] \in Videos /\ j \in JobsOf(VideoOf[j])
    BY QueueAssumption DEF JobsOf
  <2>2. insert[c][VideoOf[j]] \in {"candidate", "queued"}
    BY <1>1, <1>3, <2>1 DEF TInv, TypeOK, QueueTypeOK
  <2>. QED
    BY <1>1, <1>3, <2>2 DEF Absent
<1>4. CASE j \notin new
  BY <1>1, <1>2, <1>4 DEF AutoInv
<1>. QED
  BY <1>3, <1>4

\* What a request plans to add and to change.
LEMMA AutoDecide ==
    ASSUME TInv, AutoInv, NEW c \in Calls, "enqueue" \notin Requests,
           Decide(c) \/ (\E j \in Jobs : Stop(c, j))
    PROVE  /\ \A j \in Jobs : edit'[c][j] # "keep" => status[j] # "absent"
           /\ \A j \in Jobs : insert'[c][VideoOf[j]] = "queued" => status[j] \in {"absent", "completed"}
           /\ callStep'[c] = "stopping" => insert'[c] = NoInsert
<1>0. /\ edit \in [Calls -> [Jobs -> {"queued", "cancelled", "keep"}]]
      /\ insert \in [Calls -> [Videos -> {"candidate", "queued", "keep"}]]
      /\ status \in [Jobs -> RowStatus]
      /\ callStep \in [Calls -> {"idle", "open", "stopping", "signal"}]
  BY DEF TInv, TypeOK, QueueTypeOK
<1>v. VideoOf \in [Jobs -> Videos]
  BY QueueAssumption
<1>1. ASSUME NEW v, Enqueue(c, v)
      PROVE  FALSE
  BY <1>1 DEF Enqueue, Open
<1>2. ASSUME NEW kind, NEW S, NEW from, NEW to, "absent" \notin from,
             Open(c, kind, Assign(S, from, to), NoInsert)
      PROVE  /\ \A j \in Jobs : edit'[c][j] # "keep" => status[j] # "absent"
             /\ insert'[c] = NoInsert
  BY <1>0, <1>2 DEF Open, Assign
<1>3. ASSUME NEW S, Retry(c, S) \/ Cancel(c, S) \/ \E j \in Jobs : Stop(c, j)
      PROVE  /\ \A j \in Jobs : edit'[c][j] # "keep" => status[j] # "absent"
             /\ insert'[c] = NoInsert
  BY <1>2, <1>3 DEF Retry, Cancel, Stop, Retryable, Active
<1>4. CASE \E S \in SUBSET Jobs \ {{}} : Retry(c, S) \/ Cancel(c, S)
  BY <1>v, <1>3, <1>4 DEF NoInsert
<1>5. CASE \E j \in Jobs : Stop(c, j)
  BY <1>v, <1>3, <1>5 DEF NoInsert
<1>6. ASSUME NEW ch, StageCandidates(c, ch) \/ StageArchive(c, ch)
      PROVE  edit'[c] = NoEdit /\ callStep'[c] = "open" /\ \A j \in Jobs : insert'[c][VideoOf[j]] # "queued"
  BY <1>0, <1>v, <1>6 DEF StageCandidates, StageArchive, Stage, Open
<1>7. ASSUME NEW ch, AutoQueue(c, ch)
      PROVE  /\ edit'[c] = NoEdit /\ callStep'[c] = "open"
             /\ \A j \in Jobs : insert'[c][VideoOf[j]] = "queued" => status[j] \in {"absent", "completed"}
  <2>1. PICK S \in SUBSET Stageable(ch, AutoQueueBlocking) :
          Open(c, "auto", NoEdit, [v \in Videos |-> IF v \in S THEN "queued" ELSE "keep"])
    BY <1>7 DEF AutoQueue, Stage
  <2>2. edit'[c] = NoEdit /\ callStep'[c] = "open"
    BY <1>0, <2>1 DEF Open
  <2>3. ASSUME NEW j \in Jobs, insert'[c][VideoOf[j]] = "queued"
        PROVE  status[j] \in {"absent", "completed"}
    <3>1. VideoOf[j] \in S
      BY <1>0, <1>v, <2>1, <2>3 DEF Open
    <3>2. status[j] \notin AutoQueueBlocking
      BY <3>1 DEF Stageable, JobsOf
    <3>. QED
      BY <1>0, <3>2 DEF AutoQueueBlocking, Active, RowStatus, JobStatus
  <2>. QED
    BY <2>2, <2>3
<1>. QED
  BY <1>1, <1>4, <1>5, <1>6, <1>7 DEF Decide, NoEdit

\* What keeps AutoInv for a request that the step leaves alone.
LEMMA AutoKeeps ==
    ASSUME TInv, AutoInv, Next, NEW d \in Calls,
           callStep'[d] = callStep[d], edit'[d] = edit[d], insert'[d] = insert[d],
           \A j \in Jobs : status[j] # "absent" => status'[j] # "absent",
           \/ \A j \in Jobs : status[j] \in {"absent", "completed"} => status'[j] = status[j]
           \/ \E c \in Calls \ {d} : callStep'[c] # callStep[c]
    PROVE  /\ \A j \in Jobs : edit'[d][j] # "keep" => status'[j] # "absent"
           /\ \A j \in Jobs : callStep'[d] = "open" /\ insert'[d][VideoOf[j]] = "queued"
                                /\ VideoOf[j] \notin overtaken'[d]
                              => status'[j] \in {"absent", "completed"}
           /\ callStep'[d] = "stopping" => insert'[d] = NoInsert
<1>v. VideoOf \in [Jobs -> Videos]
  BY QueueAssumption
<1>1. ASSUME NEW j \in Jobs, callStep'[d] = "open", insert'[d][VideoOf[j]] = "queued",
             VideoOf[j] \notin overtaken'[d]
      PROVE  status'[j] \in {"absent", "completed"}
  <2>1. VideoOf[j] \notin overtaken[d] /\ VideoOf[j] \notin Overtakes(d)
    BY <1>1, Overtaking
  <2>2. status[j] \in {"absent", "completed"}
    BY <1>1, <2>1 DEF AutoInv
  <2>3. status'[j] = status[j]
    BY <1>v, <2>1, <2>2 DEF Overtakes, JobsOf
  <2>. QED
    BY <2>2, <2>3
<1>. QED
  BY <1>1 DEF AutoInv

LEMMA PassAuto ==
    ASSUME OInv, AutoInv, Next, NEW r \in Runs, Pass(r)
    PROVE  AutoInv' /\ QueuesAnew
<1>1. TInv /\ PassWrites(r) /\ OnlyClaimsAddOwners(r)
  BY PassStatus, PassOwns DEF OInv
<1>2. UNCHANGED <<callStep, edit, insert>>
  BY KeepsRequests
<1>3. ASSUME NEW s \in Runs, NEW j \in Jobs, Owns(s, j)'
      PROVE  status'[j] \in {"running", "failed", "cancelled"}
  <2>1. CASE Owns(s, j)
    BY <1>1, <1>3, <2>1 DEF PassWrites, AutoInv, OInv, SingleOwner, Owns
  <2>2. CASE ~Owns(s, j)
    BY <1>1, <1>3, <2>2 DEF OnlyClaimsAddOwners, Owns
  <2>. QED
    BY <2>1, <2>2
<1>4. \A j \in Jobs : status[j] \in {"absent", "completed"} => status'[j] = status[j]
  BY <1>1 DEF PassWrites, AutoInv
<1>5. \A j \in Jobs : status[j] # "absent" => status'[j] # "absent"
  BY <1>1 DEF PassWrites
<1>6. AutoInv'
  BY <1>1, <1>2, <1>3, <1>4, <1>5, AutoKeeps DEF AutoInv
<1>7. QueuesAnew
  BY <1>4 DEF QueuesAnew
<1>. QED
  BY <1>6, <1>7

LEMMA RequestAuto ==
    ASSUME OInv, AutoInv, Next, RequestsSpareOwnedJobs,
           NEW c \in Calls, Request(c), "enqueue" \notin Requests
    PROVE  AutoInv' /\ QueuesAnew
<1>0. /\ edit \in [Calls -> [Jobs -> {"queued", "cancelled", "keep"}]]
      /\ insert \in [Calls -> [Videos -> {"candidate", "queued", "keep"}]]
      /\ callStep \in [Calls -> {"idle", "open", "stopping", "signal"}]
      /\ TInv
  BY DEF OInv, TInv, TypeOK, QueueTypeOK
<1>v. VideoOf \in [Jobs -> Videos]
  BY QueueAssumption
<1>1. /\ \A d \in Calls \ {c} : callStep'[d] = callStep[d] /\ edit'[d] = edit[d] /\ insert'[d] = insert[d]
      /\ callStep'[c] # callStep[c]
  BY <1>0 DEF Request, Decide, Retry, Cancel, Enqueue, StageCandidates, StageArchive, AutoQueue,
              Stage, Open, Commit, Stop, CommitStop, Signal, LoseCall, Discard
<1>2. pc' = pc /\ cur' = cur
  BY RequestOwns
\* The step as far as c's own rows and edits go.
<1>3. ASSUME \A j \in Jobs : \/ status'[j] = status[j]
                             \/ status[j] # "absent" /\ status'[j] \in {"queued", "cancelled"}
                             \/ status[j] = "absent" /\ status'[j] \in {"candidate", "queued"},
             \A j \in Jobs : edit'[c][j] # "keep" => status'[j] # "absent",
             \A j \in Jobs : callStep'[c] = "open" /\ insert'[c][VideoOf[j]] = "queued"
                                 => status'[j] \in {"absent", "completed"},
             callStep'[c] = "stopping" => insert'[c] = NoInsert
      PROVE  AutoInv'
  <2>1. \A j \in Jobs : status[j] # "absent" => status'[j] # "absent"
    BY <1>3
  <2>2. \A d \in Calls \ {c} :
          /\ \A j \in Jobs : edit'[d][j] # "keep" => status'[j] # "absent"
          /\ \A j \in Jobs : callStep'[d] = "open" /\ insert'[d][VideoOf[j]] = "queued"
                               /\ VideoOf[j] \notin overtaken'[d]
                             => status'[j] \in {"absent", "completed"}
          /\ callStep'[d] = "stopping" => insert'[d] = NoInsert
    BY <1>0, <1>1, <2>1, AutoKeeps
  <2>3. \A r \in Runs, j \in Jobs : Owns(r, j)' => status'[j] \in {"running", "failed", "cancelled"}
    BY <1>2, <1>3 DEF AutoInv, Owns, RequestsSpareOwnedJobs
  <2>4. \A d \in Calls, j \in Jobs : edit'[d][j] # "keep" => status'[j] # "absent"
    BY <1>3, <2>2
  <2>5. ASSUME NEW d \in Calls, NEW j \in Jobs, callStep'[d] = "open", insert'[d][VideoOf[j]] = "queued",
               VideoOf[j] \notin overtaken'[d]
        PROVE  status'[j] \in {"absent", "completed"}
    <3>1. CASE d = c
      BY <1>3, <2>5, <3>1
    <3>2. CASE d # c
      BY <2>2, <2>5, <3>2
    <3>. QED
      BY <3>1, <3>2
  <2>6. ASSUME NEW d \in Calls, callStep'[d] = "stopping"
        PROVE  insert'[d] = NoInsert
    <3>1. CASE d = c
      BY <1>3, <2>6, <3>1
    <3>2. CASE d # c
      BY <2>2, <2>6, <3>2
    <3>. QED
      BY <3>1, <3>2
  <2>. QED
    BY <2>3, <2>4, <2>5, <2>6 DEF AutoInv
<1>4. CASE Decide(c) \/ \E j \in Jobs : Stop(c, j)
  <2>1. status' = status
    BY <1>4 DEF Decide, Retry, Cancel, Enqueue, StageCandidates, StageArchive, AutoQueue, Stage, Open, Stop
  <2>2. AutoInv'
    BY <1>0, <1>3, <1>4, <2>1, AutoDecide
  <2>. QED
    BY <2>1, <2>2 DEF QueuesAnew
<1>5. CASE Commit(c) \/ CommitStop(c)
  <2>1. \A j \in Jobs : \/ status'[j] = status[j]
                        \/ status[j] # "absent" /\ status'[j] \in {"queued", "cancelled"}
                        \/ status[j] = "absent" /\ status'[j] = insert[c][VideoOf[j]] /\ status'[j] \in {"candidate", "queued"}
    BY <1>0, <1>5, AutoApply DEF Commit, CommitStop
  <2>2. CASE Commit(c)
    <3>1. callStep[c] = "open" /\ edit'[c] = NoEdit /\ insert'[c] = NoInsert /\ callStep'[c] = "idle"
      BY <1>0, <2>2 DEF Commit, Discard
    <3>2. AutoInv'
      BY <1>v, <1>3, <2>1, <3>1 DEF NoEdit, NoInsert
    <3>3. ASSUME NEW j \in Jobs, status[j] = "absent", status'[j] = "queued",
                 NEW i \in JobsOf(VideoOf[j]), VideoOf[j] \notin overtaken[c]
          PROVE  status[i] \notin {"failed", "cancelled"}
      <4>1. i \in Jobs /\ VideoOf[i] = VideoOf[j] /\ insert[c][VideoOf[j]] = "queued"
        BY <2>1, <3>3 DEF JobsOf
      <4>. QED
        BY <3>1, <3>3, <4>1 DEF AutoInv
    <3>. QED
      BY <3>1, <3>2, <3>3 DEF QueuesAnew, WritesLate
  <2>3. CASE CommitStop(c)
    <3>1. edit' = edit /\ insert' = insert /\ callStep'[c] = "signal" /\ insert[c] = NoInsert
      BY <1>0, <2>3 DEF CommitStop, AutoInv
    <3>2. AutoInv'
      BY <1>v, <1>3, <2>1, <3>1 DEF AutoInv, NoInsert
    <3>3. \A j \in Jobs : ~(status[j] = "absent" /\ status'[j] = "queued")
      BY <1>v, <2>1, <3>1 DEF NoInsert
    <3>. QED
      BY <3>2, <3>3 DEF QueuesAnew
  <2>. QED
    BY <1>5, <2>2, <2>3
<1>6. CASE Signal(c) \/ LoseCall(c)
  <2>1. edit'[c] = NoEdit /\ insert'[c] = NoInsert /\ callStep'[c] = "idle" /\ status' = status
    BY <1>0, <1>6 DEF Signal, LoseCall, Discard
  <2>2. AutoInv'
    BY <1>v, <1>3, <2>1 DEF NoEdit, NoInsert
  <2>. QED
    BY <2>1, <2>2 DEF QueuesAnew
<1>. QED
  BY <1>4, <1>5, <1>6 DEF Request

LEMMA SurroundingsAuto ==
    ASSUME OInv, AutoInv, Next, Surroundings
    PROVE  AutoInv' /\ QueuesAnew
<1>0. status \in [Jobs -> RowStatus] /\ TInv
  BY DEF OInv, TInv, TypeOK, QueueTypeOK
<1>v. VideoOf \in [Jobs -> Videos]
  BY QueueAssumption
<1>1. \A j \in Jobs : status'[j] = status[j] \/ (status[j] = "running" /\ status'[j] = "failed")
  BY <1>0 DEF Surroundings, SetWorkerPaused, MediaLost, Shutdown, ShutdownDone, Crash, Restart
<1>2. \A r \in Runs, j \in Jobs : Owns(r, j)' => Owns(r, j)
  BY <1>0, SurroundingsOwn
<1>3. AutoInv'
  <2>1. CASE Crash
    <3>1. \A c \in Calls : edit'[c] = NoEdit /\ insert'[c] = NoInsert /\ callStep'[c] = "idle"
      BY <2>1 DEF Crash
    <3>. QED
      BY <1>v, <1>1, <1>2, <3>1 DEF AutoInv, NoEdit, NoInsert
  <2>2. CASE ~Crash
    <3>1. edit' = edit /\ insert' = insert /\ callStep' = callStep
      BY <2>2, KeepsRequests
    <3>2. \A j \in Jobs : status[j] \in {"absent", "completed"} => status'[j] = status[j]
      BY <1>1
    <3>3. \A j \in Jobs : status[j] # "absent" => status'[j] # "absent"
      BY <1>1
    <3>. QED
      BY <1>0, <1>1, <1>2, <3>1, <3>2, <3>3, AutoKeeps DEF AutoInv
  <2>. QED
    BY <2>1, <2>2
<1>. QED
  BY <1>1, <1>3 DEF QueuesAnew

AutoAll == OInv /\ AutoInv

LEMMA NextAuto ==
    ASSUME AutoAll, [Next /\ RequestsSpareOwnedJobs]_vars, "enqueue" \notin Requests
    PROVE  AutoAll' /\ [QueuesAnew]_vars
<1>. USE DEF AutoAll
<1>1. CASE UNCHANGED vars
  <2>1. OInv'
    BY <1>1, NextOwns DEF vars
  <2>. QED
    BY <1>1, <2>1 DEF vars, vars, queueVars, workerVars, passVars, AutoInv, Owns
<1>2. CASE Next /\ RequestsSpareOwnedJobs
  <2>1. AutoInv' /\ QueuesAnew
    BY <1>2, PassAuto, RequestAuto, SurroundingsAuto DEF Next
  <2>. QED
    BY <1>2, <2>1, NextOwns
<1>. QED
  BY <1>1, <1>2

LEMMA InitAuto == Init => AutoAll
<1>1. Init => OInv
  BY InitOwns DEF Init
<1>. QED
  BY <1>1, QueueAssumption DEF Init, Init, QueueInit, WorkerInit, AutoAll, AutoInv,
                               NoEdit, NoInsert, Owns, Working

(***************************************************************************)
(* As long as requests spare the jobs that passes own, and no video is     *)
(* queued by hand: with any number of requests, retries among them, the    *)
(* automatic queue adds no row for a video with a failed or cancelled job, *)
(* unless another request wrote to the video's jobs after it had looked;   *)
(* for in between, no pass can fail a job of a video it looked at.         *)
(***************************************************************************)
THEOREM AutoQueueWaits ==
    ASSUME "enqueue" \notin Requests
    PROVE  GuardedSpec => AutoQueueNeverRetries
<1>1. AutoAll /\ [Next /\ RequestsSpareOwnedJobs]_vars => AutoAll' /\ [QueuesAnew]_vars
  BY NextAuto
<1>2. [][QueuesAnew]_vars => AutoQueueNeverRetries
  BY PTL DEF AutoQueueNeverRetries, QueuesAnew
<1>. QED
  BY <1>1, <1>2, InitAuto, PTL DEF GuardedSpec

=============================================================================
