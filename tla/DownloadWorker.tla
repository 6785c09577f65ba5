--------------------------- MODULE DownloadWorker ---------------------------
(***************************************************************************)
(* Worker passes over the job table                                        *)
(* (backend/app/services/download_worker.py), together with the requests   *)
(* of DownloadQueue that edit the same rows while passes run, the stop     *)
(* request, and the start, shutdown and crash of the API process.          *)
(*                                                                         *)
(* A pass plans a batch of queued jobs, claims them one after another with *)
(* a conditional UPDATE, runs one yt-dlp process per job and writes the    *)
(* job's outcome with unconditional UPDATEs.  Passes are asyncio tasks, so *)
(* every step below ends at an await: a commit, a refresh, the wait for    *)
(* the process.  seen is the status the pass's session last loaded for its *)
(* job: what the code tests, and what decides whether an assignment is     *)
(* written.                                                                *)
(***************************************************************************)
EXTENDS DownloadQueue

CONSTANTS
    ManualRuns,     \* passes accepted by POST worker/start: background tasks
    RequestRuns,    \* passes that run inside their request, POST worker/run-once
    ScheduledRuns,  \* passes of the download scheduler, one at a time
    PlanLimit,      \* bound on the jobs of one plan
    None,           \* no job, no pass
    Faults          \* the failures the instance has besides cancelled tasks

Runs == ManualRuns \cup RequestRuns \cup ScheduledRuns

\* "db": a commit fails ("database is locked"); "cut": a task is cancelled at
\* the very await of a commit, which may have taken effect all the same.
\* "crash": the API process is killed; "media": archived files disappear.
FaultKinds == {"db", "cut", "crash", "media"}

ASSUME WorkerAssumption ==
    /\ ManualRuns \cap ScheduledRuns = {}
    /\ RequestRuns \cap (ManualRuns \cup ScheduledRuns) = {}
    /\ None \notin Jobs \cup Runs
    /\ PlanLimit \in Nat \ {0}
    /\ Faults \subseteq FaultKinds

VARIABLES
    audit,      \* download_worker_runs.status, "none" before the row exists
    pc,         \* where the pass is
    todo,       \* planned jobs it has not tried to claim
    cur,        \* the job it works on (while Working)
    seen,       \* status of cur as its session last loaded it
    proc,       \* its yt-dlp process: "none", "live", "ok", "error"
    registry,   \* _RUNNING_PROCESSES: the pass whose process is registered for a job
    started,    \* started_job_ids, completed_job_ids and failed_job_ids
    completed,
    failed,
    victim      \* the pass whose process a stop request will terminate

passVars == <<audit, pc, todo, cur, seen, proc, started, completed, failed>>
workerVars == <<audit, pc, todo, cur, seen, proc, registry, started, completed, failed, victim>>
vars == <<queueVars, workerVars>>

\* The steps of a pass between the claim of a job and its last use of it.
Working == {"claimed", "prepared", "running", "exited", "judging", "broken", "closing", "stopping"}
Steps == Working \cup {"idle", "accepted", "loop", "settled", "failing", "done", "dead"}

\* Pass r owns job j: it has claimed it and is not through with it.
Owns(r, j) == pc[r] \in Working /\ cur[r] = j

WorkerInit ==
    /\ audit = [r \in Runs |-> "none"]
    /\ pc = [r \in Runs |-> "idle"]
    /\ todo = [r \in Runs |-> {}]
    /\ cur = [r \in Runs |-> None]
    /\ seen = [r \in Runs |-> "absent"]
    /\ proc = [r \in Runs |-> "none"]
    /\ registry = [j \in Jobs |-> None]
    /\ started = [r \in Runs |-> {}]
    /\ completed = [r \in Runs |-> {}]
    /\ failed = [r \in Runs |-> {}]
    /\ victim = [c \in Calls |-> None]

Init == QueueInit /\ WorkerInit

-----------------------------------------------------------------------------
(* Helpers: the pieces that several steps share.                           *)

Goto(r, step) == pc' = [pc EXCEPT ![r] = step]

\* The session assigns a status to the pass's job and commits: no column is
\* written when the value is the one it loaded.
WriteStatus(r, new) ==
    status' = IF seen[r] = new THEN status ELSE [status EXCEPT ![cur[r]] = new]

\* db.refresh(job)
Refresh(r) == seen' = [seen EXCEPT ![r] = status[cur[r]]]

\* _RUNNING_PROCESSES.pop(job.id, None): whoever's entry it is.
Unregister(r) == registry' = [registry EXCEPT ![cur[r]] = None]

\* Mutants of Claimable: the claim takes a job that is running already, or one
\* that failed.
ClaimableRunning(j) == status[j] \in {"queued", "running"} /\ ChannelOfJob(j) \notin paused
ClaimableFailed(j) == status[j] \in {"queued", "failed"} /\ ChannelOfJob(j) \notin paused

Claimable(j) == status[j] = "queued" /\ ChannelOfJob(j) \notin paused

\* A manual pass begins when its task first runs, one of a request at once, a
\* scheduled one when the scheduler's loop comes round; there is one loop, and
\* it awaits its pass.
CanBegin(r) ==
    /\ api = "up"
    /\ pc[r] = IF r \in ManualRuns THEN "accepted" ELSE "idle"
    /\ r \in ScheduledRuns => \A s \in ScheduledRuns : pc[s] \in {"idle", "done", "dead"}

-----------------------------------------------------------------------------
(* The steps of a pass.                                                    *)

\* start_download_worker_run: the audit row is committed, the task created.
Accept(r) ==
    /\ api = "up"
    /\ r \in ManualRuns
    /\ pc[r] = "idle"
    /\ audit' = [audit EXCEPT ![r] = "running"]
    /\ Goto(r, "accepted")
    /\ UNCHANGED <<queueVars, todo, cur, seen, proc, registry, started, completed, failed, victim>>

\* A dry run, or real transfers switched off: the plan is only recorded.
SkipPass(r) ==
    /\ CanBegin(r)
    /\ \E outcome \in {"dry_run", "locked"} : audit' = [audit EXCEPT ![r] = outcome]
    /\ Goto(r, "done")
    /\ UNCHANGED <<queueVars, todo, cur, seen, proc, registry, started, completed, failed, victim>>

\* The plan: the first PlanLimit claimable jobs of one channel or of all
\* (the order, by priority and age, is left open), and the pass's audit row.
Plan(r) ==
    /\ CanBegin(r)
    /\ \E scope \in {Channels} \cup {{ch} : ch \in Channels} :
         LET eligible == {j \in Jobs : Claimable(j) /\ ChannelOfJob(j) \in scope}
         IN  \E batch \in SUBSET eligible :
               /\ \/ Cardinality(batch) = PlanLimit
                  \/ batch = eligible /\ Cardinality(batch) < PlanLimit
               /\ todo' = [todo EXCEPT ![r] = batch]
    /\ audit' = [audit EXCEPT ![r] = "running"]
    /\ Goto(r, "loop")
    /\ UNCHANGED <<queueVars, cur, seen, proc, registry, started, completed, failed, victim>>

\* _claim_download_job: UPDATE ... WHERE status = 'queued' AND the channel is
\* not paused; the row count tells whether the claim won.
Claim(r, j) ==
    /\ pc[r] = "loop"
    /\ j \in todo[r]
    /\ todo' = [todo EXCEPT ![r] = @ \ {j}]
    /\ IF Claimable(j)
       THEN /\ status' = [status EXCEPT ![j] = "running"]
            /\ cur' = [cur EXCEPT ![r] = j]
            /\ started' = [started EXCEPT ![r] = @ \cup {j}]
            /\ Goto(r, "claimed")
       ELSE UNCHANGED <<status, cur, started, pc>>
    /\ UNCHANGED <<api, onDisk, paused, callStep, edit, insert, overtaken>>
    /\ UNCHANGED <<audit, seen, proc, registry, completed, failed, victim>>

\* The audit row lists the job as started; the job is loaded and refreshed.
Prepare(r) ==
    /\ pc[r] = "claimed"
    /\ Refresh(r)
    /\ Goto(r, "prepared")
    /\ UNCHANGED <<queueVars, audit, todo, cur, proc, registry, started, completed, failed, victim>>

\* Mutant: the handle is not registered.
SpawnUnregistered(r) ==
    /\ pc[r] = "prepared"
    /\ proc' = [proc EXCEPT ![r] = "live"]
    /\ Goto(r, "running")
    /\ UNCHANGED <<queueVars, audit, todo, cur, seen, registry, started, completed, failed, victim>>

\* yt-dlp is spawned and its handle registered, whatever the status is now.
Spawn(r) ==
    /\ pc[r] = "prepared"
    /\ proc' = [proc EXCEPT ![r] = "live"]
    /\ registry' = [registry EXCEPT ![cur[r]] = r]
    /\ Goto(r, "running")
    /\ UNCHANGED <<queueVars, audit, todo, cur, seen, started, completed, failed, victim>>

\* An exception while the process starts or runs: it cannot be spawned, it is
\* silent for the timeout, or a progress commit fails.  The handler terminates
\* it and refreshes the job.
Break(r) ==
    /\ pc[r] = "prepared" \/ (pc[r] = "running" /\ proc[r] = "live")
    /\ proc' = [proc EXCEPT ![r] = "none"]
    /\ Refresh(r)
    /\ Goto(r, "broken")
    /\ UNCHANGED <<queueVars, audit, todo, cur, registry, started, completed, failed, victim>>

\* The handler's commit: a job found cancelled stays so, any other is failed.
FailBroken(r) ==
    /\ pc[r] = "broken"
    /\ IF seen[r] = "cancelled" THEN UNCHANGED status ELSE WriteStatus(r, "failed")
    /\ Goto(r, "closing")
    /\ UNCHANGED <<api, onDisk, paused, callStep, edit, insert, overtaken>>
    /\ UNCHANGED <<audit, todo, cur, seen, proc, registry, started, completed, failed, victim>>

\* The finally clause, which runs after the handler has committed and
\* published its event.
Close(r) ==
    /\ pc[r] = "closing"
    /\ Unregister(r)
    /\ Goto(r, "settled")
    /\ UNCHANGED <<queueVars, audit, todo, cur, seen, proc, started, completed, failed, victim>>

\* yt-dlp ends by itself.
ProcessExit(r) ==
    /\ proc[r] = "live"
    /\ \E code \in {"ok", "error"} : proc' = [proc EXCEPT ![r] = code]
    /\ UNCHANGED <<queueVars, audit, pc, todo, cur, seen, registry, started, completed, failed, victim>>

\* The exit is noticed: the finally clause, and on failure a refresh.
Reap(r) ==
    /\ pc[r] = "running"
    /\ Unregister(r)
    /\ \/ /\ proc[r] = "ok"
          /\ Goto(r, "exited")
          /\ UNCHANGED seen
       \/ /\ proc[r] = "error"
          /\ Goto(r, "judging")
          /\ Refresh(r)
    /\ UNCHANGED <<queueVars, audit, todo, cur, proc, started, completed, failed, victim>>

\* Exit code 0: completed, without a look at the row; the job's folder is
\* indexed in the same transaction (or holds no sidecar to index).
Complete(r) ==
    /\ pc[r] = "exited"
    /\ WriteStatus(r, "completed")
    /\ onDisk' \in {onDisk, onDisk \cup {VideoOf[cur[r]]}}
    /\ Goto(r, "settled")
    /\ UNCHANGED <<api, paused, callStep, edit, insert, overtaken>>
    /\ UNCHANGED <<audit, todo, cur, seen, proc, registry, started, completed, failed, victim>>

\* Any other exit code: a job found cancelled stays so, any other is failed.
Judge(r) ==
    /\ pc[r] = "judging"
    /\ IF seen[r] = "cancelled" THEN UNCHANGED status ELSE WriteStatus(r, "failed")
    /\ Goto(r, "settled")
    /\ UNCHANGED <<api, onDisk, paused, callStep, edit, insert, overtaken>>
    /\ UNCHANGED <<audit, todo, cur, seen, proc, registry, started, completed, failed, victim>>

\* The job's result is committed to the audit row.
Settle(r) ==
    /\ pc[r] = "settled"
    /\ IF proc[r] = "ok"
       THEN completed' = [completed EXCEPT ![r] = @ \cup {cur[r]}] /\ UNCHANGED failed
       ELSE failed' = [failed EXCEPT ![r] = @ \cup {cur[r]}] /\ UNCHANGED completed
    /\ proc' = [proc EXCEPT ![r] = "none"]
    /\ cur' = [cur EXCEPT ![r] = None]
    /\ seen' = [seen EXCEPT ![r] = "absent"]
    /\ Goto(r, "loop")
    /\ UNCHANGED <<queueVars, audit, todo, registry, started, victim>>

\* Mutant: a pass that reached its end counts as a success.
EndPassCompleted(r) ==
    /\ pc[r] = "loop"
    /\ todo[r] = {}
    /\ audit' = [audit EXCEPT ![r] = "completed"]
    /\ Goto(r, "done")
    /\ UNCHANGED <<queueVars, todo, cur, seen, proc, registry, started, completed, failed, victim>>

\* The plan is exhausted.
EndPass(r) ==
    /\ pc[r] = "loop"
    /\ todo[r] = {}
    /\ audit' = [audit EXCEPT ![r] = IF failed[r] = {} THEN "completed" ELSE "failed"]
    /\ Goto(r, "done")
    /\ UNCHANGED <<queueVars, todo, cur, seen, proc, registry, started, completed, failed, victim>>

-----------------------------------------------------------------------------
(* Interrupted passes.                                                     *)

\* The task is cancelled: any pass at shutdown, and the scheduled one also when
\* the operator switches the scheduler off.
MayCancel(r) == api = "stopping" \/ (api = "up" /\ r \in ScheduledRuns)

\* An accepted pass ends before it has a plan: cancelled before its first step
\* its task runs none of its code, later _run_background_worker fails its row.
LosePlan(r) ==
    /\ pc[r] = "accepted"
    /\ MayCancel(r) \/ "db" \in Faults
    /\ audit' \in {audit, [audit EXCEPT ![r] = "failed"]}
    /\ Goto(r, "dead")
    /\ UNCHANGED <<queueVars, todo, cur, seen, proc, registry, started, completed, failed, victim>>

\* Cancelled while the process is started or runs: it is terminated, the job
\* refreshed.
CancelRunning(r) ==
    /\ MayCancel(r)
    /\ pc[r] \in {"prepared", "running"}
    /\ proc' = [proc EXCEPT ![r] = "none"]
    /\ Refresh(r)
    /\ Goto(r, "stopping")
    /\ UNCHANGED <<queueVars, audit, todo, cur, registry, started, completed, failed, victim>>

\* ... and failed if it was still running; then the finally clause.
FailCancelled(r) ==
    /\ pc[r] = "stopping"
    /\ IF seen[r] = "running" THEN WriteStatus(r, "failed") ELSE UNCHANGED status
    /\ Unregister(r)
    /\ Goto(r, "failing")
    /\ UNCHANGED <<api, onDisk, paused, callStep, edit, insert, overtaken>>
    /\ UNCHANGED <<audit, todo, cur, seen, proc, started, completed, failed, victim>>

\* Cancelled, or hit by an exception (a commit fails, the finished folder cannot
\* be indexed), at another step of the loop: on to the pass's handler, by way of
\* the finally clause if the step is still covered by it.
Unwind(r) ==
    /\ \/ MayCancel(r) /\ pc[r] \in (Working \cup {"settled"}) \ {"running", "stopping"}
       \/ MayCancel(r) /\ pc[r] = "loop" /\ todo[r] # {}
       \/ "db" \in Faults /\ pc[r] \in {"claimed", "exited", "judging", "broken", "stopping"}
       \/ "db" \in Faults /\ pc[r] = "loop" /\ todo[r] # {}
       \/ "db" \in Faults /\ pc[r] = "settled" /\ proc[r] # "ok"
       \/ pc[r] = "exited"
    /\ IF pc[r] \in {"broken", "closing", "stopping"} THEN Unregister(r) ELSE UNCHANGED registry
    /\ proc' = [proc EXCEPT ![r] = "none"]
    /\ Goto(r, "failing")
    /\ UNCHANGED <<queueVars, audit, todo, cur, seen, started, completed, failed, victim>>

\* The commit under way does not take effect.
CommitFails(r) == "db" \in Faults \/ ("cut" \in Faults /\ MayCancel(r))

\* The audit row misses a completed job that the pass has already noted as
\* completed (proc stays "ok"): the handler will not list it as failed either.
LoseSettle(r) ==
    /\ CommitFails(r)
    /\ pc[r] = "settled"
    /\ proc[r] = "ok"
    /\ Goto(r, "failing")
    /\ UNCHANGED <<queueVars, audit, todo, cur, seen, proc, registry, started, completed, failed, victim>>

\* The cancellation reaches the task while a claim is being committed: the row
\* is running, but the pass never learns that it claimed it.
LoseClaim(r, j) ==
    /\ "cut" \in Faults
    /\ MayCancel(r)
    /\ pc[r] = "loop"
    /\ j \in todo[r]
    /\ Claimable(j)
    /\ status' = [status EXCEPT ![j] = "running"]
    /\ Goto(r, "failing")
    /\ UNCHANGED <<api, onDisk, paused, callStep, edit, insert, overtaken>>
    /\ UNCHANGED <<audit, todo, cur, seen, proc, registry, started, completed, failed, victim>>

\* The pass lets go of everything but its audit lists.
Drop(r) ==
    /\ proc' = [proc EXCEPT ![r] = "none"]
    /\ cur' = [cur EXCEPT ![r] = None]
    /\ seen' = [seen EXCEPT ![r] = "absent"]
    /\ todo' = [todo EXCEPT ![r] = {}]

\* Mutants of Abort: it forgets the jobs; it lists every started job as failed;
\* it fails every running job.
AbortForgets(r) ==
    /\ pc[r] = "failing"
    /\ audit' = [audit EXCEPT ![r] = "failed"]
    /\ failed' = [failed EXCEPT ![r] = started[r] \ completed[r]]
    /\ Drop(r)
    /\ Goto(r, "done")
    /\ UNCHANGED <<queueVars, registry, started, completed, victim>>

AbortListsAll(r) ==
    /\ pc[r] = "failing"
    /\ status' = [j \in Jobs |-> IF j \in started[r] /\ status[j] = "running" THEN "failed" ELSE status[j]]
    /\ audit' = [audit EXCEPT ![r] = "failed"]
    /\ failed' = [failed EXCEPT ![r] = started[r]]
    /\ Drop(r)
    /\ Goto(r, "done")
    /\ UNCHANGED <<api, onDisk, paused, callStep, edit, insert, overtaken>>
    /\ UNCHANGED <<registry, started, completed, victim>>

AbortFailsAll(r) ==
    /\ pc[r] = "failing"
    /\ status' = [j \in Jobs |-> IF status[j] = "running" THEN "failed" ELSE status[j]]
    /\ audit' = [audit EXCEPT ![r] = "failed"]
    /\ failed' = [failed EXCEPT ![r] = started[r] \ (completed[r] \cup (IF proc[r] = "ok" THEN {cur[r]} ELSE {}))]
    /\ Drop(r)
    /\ Goto(r, "done")
    /\ UNCHANGED <<api, onDisk, paused, callStep, edit, insert, overtaken>>
    /\ UNCHANGED <<registry, started, completed, victim>>

\* The pass's handler: what it started and still finds running is failed.
Abort(r) ==
    /\ pc[r] = "failing"
    /\ status' = [j \in Jobs |-> IF j \in started[r] /\ status[j] = "running" THEN "failed" ELSE status[j]]
    /\ audit' = [audit EXCEPT ![r] = "failed"]
    /\ failed' = [failed EXCEPT ![r] = started[r] \ (completed[r] \cup (IF proc[r] = "ok" THEN {cur[r]} ELSE {}))]
    /\ Drop(r)
    /\ Goto(r, "done")
    /\ UNCHANGED <<api, onDisk, paused, callStep, edit, insert, overtaken>>
    /\ UNCHANGED <<registry, started, completed, victim>>

\* The pass dies with its last commit undone: that of its handler, or the one
\* that ends a pass, which no handler of the pass covers.  The jobs are left as
\* they are; _run_background_worker tries to fail the audit row of a manual pass.
LosePass(r) ==
    /\ \/ "db" \in Faults /\ pc[r] = "failing"
       \/ CommitFails(r) /\ pc[r] = "loop" /\ todo[r] = {}
    /\ \/ audit' = [audit EXCEPT ![r] = IF r \in ManualRuns THEN "failed" ELSE @]
       \/ "db" \in Faults /\ UNCHANGED audit
    /\ Drop(r)
    /\ Goto(r, "dead")
    /\ UNCHANGED <<queueVars, registry, started, completed, failed, victim>>

-----------------------------------------------------------------------------
(* Requests.                                                               *)

\* stop_running_download_job reads the row and, at once, the process registered
\* for it; a request for a job in any other status changes nothing here.
Stop(c, j) ==
    /\ status[j] \in Active
    /\ Open(c, "stop", Assign({j}, Active, "cancelled"), NoInsert)
    /\ victim' = [victim EXCEPT ![c] = registry[j]]
    /\ UNCHANGED <<passVars, registry>>

CommitStop(c) ==
    /\ callStep[c] = "stopping"
    /\ ApplyEdits(c)
    /\ Overtake(c)
    /\ callStep' = [callStep EXCEPT ![c] = "signal"]
    /\ UNCHANGED <<api, onDisk, paused, edit, insert, workerVars>>

\* _terminate_process: nothing if the process has ended, or there was none.
Signal(c) ==
    /\ callStep[c] = "signal"
    /\ proc' = [r \in Runs |-> IF /\ r = victim[c]
                                  /\ proc[r] = "live"
                                  /\ edit[c][cur[r]] # "keep"
                               THEN "error" ELSE proc[r]]
    /\ callStep' = [callStep EXCEPT ![c] = "idle"]
    /\ Discard(c)
    /\ victim' = [victim EXCEPT ![c] = None]
    /\ UNCHANGED <<api, status, onDisk, paused>>
    /\ Overtake(c)
    /\ UNCHANGED <<audit, pc, todo, cur, seen, registry, started, completed, failed>>

\* A request's commit fails: the client gets an error, nothing is written.
LoseCall(c) ==
    /\ "db" \in Faults
    /\ callStep[c] \in {"open", "stopping"}
    /\ callStep' = [callStep EXCEPT ![c] = "idle"]
    /\ Discard(c)
    /\ victim' = [victim EXCEPT ![c] = None]
    /\ UNCHANGED <<api, status, onDisk, paused, passVars, registry>>
    /\ Overtake(c)

-----------------------------------------------------------------------------
(* The life of the API process.                                            *)

\* The server drains its requests, passes inside them included; then the
\* application's shutdown cancels the scheduler's and the background passes and
\* waits for them.
Shutdown ==
    /\ api = "up"
    /\ \A c \in Calls : callStep[c] = "idle"
    /\ \A r \in RequestRuns : pc[r] \in {"idle", "done", "dead"}
    /\ api' = "stopping"
    /\ UNCHANGED <<status, onDisk, paused, callStep, edit, insert, overtaken, workerVars>>

ShutdownDone ==
    /\ api = "stopping"
    /\ \A r \in Runs : pc[r] \in {"idle", "done", "dead"}
    /\ api' = "stopped"
    /\ UNCHANGED <<status, onDisk, paused, callStep, edit, insert, overtaken, workerVars>>

\* The process is killed: tasks, requests and the registry are gone, and so are
\* its yt-dlp processes, as in a container or under systemd.  Under a supervisor
\* that kills one process only, a detached yt-dlp may outlive it for a while.
Crash ==
    /\ "crash" \in Faults
    /\ api \in {"up", "stopping"}
    /\ api' = "crashed"
    /\ pc' = [r \in Runs |-> IF pc[r] \in {"idle", "done"} THEN pc[r] ELSE "dead"]
    /\ todo' = [r \in Runs |-> {}]
    /\ cur' = [r \in Runs |-> None]
    /\ seen' = [r \in Runs |-> "absent"]
    /\ proc' = [r \in Runs |-> "none"]
    /\ registry' = [j \in Jobs |-> None]
    /\ callStep' = [c \in Calls |-> "idle"]
    /\ edit' = [c \in Calls |-> NoEdit]
    /\ insert' = [c \in Calls |-> NoInsert]
    /\ overtaken' = [c \in Calls |-> {}]
    /\ victim' = [c \in Calls |-> None]
    /\ UNCHANGED <<status, onDisk, paused, audit, started, completed, failed>>

\* Mutants of Restart: startup repairs the jobs only, or the audit rows only.
RestartJobsOnly ==
    /\ api \in {"stopped", "crashed"}
    /\ api' = "up"
    /\ status' = [j \in Jobs |-> IF status[j] = "running" THEN "failed" ELSE status[j]]
    /\ UNCHANGED <<onDisk, paused, callStep, edit, insert, overtaken, workerVars>>

RestartAuditsOnly ==
    /\ api \in {"stopped", "crashed"}
    /\ api' = "up"
    /\ audit' = [r \in Runs |-> IF audit[r] = "running" THEN "failed" ELSE audit[r]]
    /\ UNCHANGED <<status, onDisk, paused, callStep, edit, insert, overtaken>>
    /\ UNCHANGED <<pc, todo, cur, seen, proc, registry, started, completed, failed, victim>>

\* Startup runs recover_interrupted_downloads before anything else.
Restart ==
    /\ api \in {"stopped", "crashed"}
    /\ api' = "up"
    /\ status' = [j \in Jobs |-> IF status[j] = "running" THEN "failed" ELSE status[j]]
    /\ audit' = [r \in Runs |-> IF audit[r] = "running" THEN "failed" ELSE audit[r]]
    /\ UNCHANGED <<onDisk, paused, callStep, edit, insert, overtaken>>
    /\ UNCHANGED <<pc, todo, cur, seen, proc, registry, started, completed, failed, victim>>

-----------------------------------------------------------------------------
(* The specification.                                                      *)

\* The steps a live pass keeps taking.
Advance(r) ==
    \/ SkipPass(r) \/ Plan(r)
    \/ \E j \in Jobs : Claim(r, j)
    \/ Prepare(r) \/ Spawn(r) \/ Break(r) \/ FailBroken(r) \/ Close(r)
    \/ Reap(r) \/ Complete(r) \/ Judge(r) \/ Settle(r) \/ EndPass(r)
    \/ FailCancelled(r) \/ Abort(r)

\* What cancellations and failures do to it.
Disturb(r) ==
    \/ LosePlan(r) \/ CancelRunning(r) \/ Unwind(r)
    \/ LoseSettle(r) \/ LosePass(r)
    \/ \E j \in Jobs : LoseClaim(r, j)

Pass(r) == Accept(r) \/ Advance(r) \/ ProcessExit(r) \/ Disturb(r)

Request(c) ==
    \/ (Decide(c) \/ Commit(c)) /\ UNCHANGED workerVars
    \/ \E j \in Jobs : Stop(c, j)
    \/ CommitStop(c) \/ Signal(c) \/ LoseCall(c)

Surroundings ==
    \/ \E ch \in Channels : SetWorkerPaused(ch) /\ UNCHANGED workerVars
    \/ \E v \in Videos : "media" \in Faults /\ MediaLost(v) /\ UNCHANGED workerVars
    \/ Shutdown \/ ShutdownDone \/ Crash \/ Restart

Next ==
    \/ \E r \in Runs : Pass(r)
    \/ \E c \in Calls : Request(c)
    \/ Surroundings

Spec == Init /\ [][Next]_vars

\* Requests that never put back into the queue a job that a pass still owns.
RequestsSpareOwnedJobs ==
    \A j \in Jobs : (\E r \in Runs : Owns(r, j)) /\ status[j] # "queued" => status'[j] # "queued"

\* The same system with that discipline, which the handlers do not have.
GuardedSpec == Init /\ [][Next /\ RequestsSpareOwnedJobs]_vars

(***************************************************************************)
(* What the code's own scheduling guarantees: the event loop runs a ready  *)
(* task; yt-dlp exits or is silent for the timeout; shutdown cancels every *)
(* pass; the process is restarted by its supervisor.  Nothing is assumed   *)
(* of clients, nor that the scheduler begins another pass.                 *)
(***************************************************************************)
Fairness ==
    /\ \A r \in Runs : /\ WF_vars(pc[r] # "idle" /\ Advance(r))
                       /\ WF_vars(ProcessExit(r))
                       /\ WF_vars(api = "stopping" /\ Disturb(r))
    /\ WF_vars(ShutdownDone)
    /\ WF_vars(Restart)

FairSpec == Spec /\ Fairness

-----------------------------------------------------------------------------
(* Properties.                                                             *)

\* The lease that the passes implement (SingleOwner makes the choice unique).
Owner(j) == IF \E r \in Runs : Owns(r, j) THEN CHOOSE r \in Runs : Owns(r, j) ELSE None

Lease == INSTANCE JobLease WITH owner <- [j \in Jobs |-> Owner(j)]

(***************************************************************************)
(* Passes, requests, failures and restarts together keep the promises of   *)
(* JobLease, provided requests spare owned jobs.                           *)
(***************************************************************************)
ImplementsLease == Lease!Spec

TypeOK ==
    /\ QueueTypeOK
    /\ audit \in [Runs -> {"none", "running", "dry_run", "locked", "completed", "failed"}]
    /\ pc \in [Runs -> Steps]
    /\ todo \in [Runs -> SUBSET Jobs]
    /\ cur \in [Runs -> Jobs \cup {None}]
    /\ seen \in [Runs -> RowStatus]
    /\ proc \in [Runs -> {"none", "live", "ok", "error"}]
    /\ registry \in [Jobs -> Runs \cup {None}]
    /\ started \in [Runs -> SUBSET Jobs]
    /\ completed \in [Runs -> SUBSET Jobs]
    /\ failed \in [Runs -> SUBSET Jobs]
    /\ victim \in [Calls -> Runs \cup {None}]

(***************************************************************************)
(* Two passes never own a job at once (docs/architecture.md:439-441).      *)
(***************************************************************************)
SingleOwner ==
    \A r, s \in Runs, j \in Jobs : Owns(r, j) /\ Owns(s, j) => r = s

(***************************************************************************)
(* Every live yt-dlp process is the one registered for its job, so that a  *)
(* stop request can reach it.                                              *)
(***************************************************************************)
ProcessReachable ==
    \A r \in Runs : proc[r] = "live" => registry[cur[r]] = r

(***************************************************************************)
(* A job is marked running only while some pass works on it or is about to *)
(* fail it, unless the API process was killed: no job is left running for  *)
(* good with nobody to finish it, and none survives a graceful shutdown.   *)
(***************************************************************************)
RunningHasOwner ==
    api # "crashed" =>
        \A j \in Jobs : status[j] = "running" =>
            \E r \in Runs : Owns(r, j) \/ (pc[r] = "failing" /\ j \in started[r])

(***************************************************************************)
(* The audit row of a pass that ended accounts for every job it started,   *)
(* once.                                                                   *)
(***************************************************************************)
AuditAccounts ==
    \A r \in Runs : pc[r] = "done" =>
        /\ completed[r] \cap failed[r] = {}
        /\ completed[r] \cup failed[r] = started[r]

(***************************************************************************)
(* An audit row that says "completed" lists every started job as           *)
(* completed, whatever failed on the way and whatever restarts followed.   *)
(***************************************************************************)
AuditNeverOverstates ==
    \A r \in Runs : audit[r] = "completed" => completed[r] = started[r] /\ failed[r] = {}

(***************************************************************************)
(* While a pass works on a job, the row can turn failed only by the pass   *)
(* itself (then it is closing) or by another pass that has started the     *)
(* same job: the failure handler of a pass and the recovery at startup     *)
(* (download_worker.py:255, 115) fail no job they have nothing to do with, *)
(* though a job may have been retried and claimed anew before the handler  *)
(* of its earlier pass runs.                                               *)
(***************************************************************************)
FailureHasCulprit ==
    \A r \in Runs, j \in Jobs :
        Owns(r, j) /\ status[j] = "failed" /\ pc[r] # "closing"
        => \E s \in Runs \ {r} : j \in started[s]

\* Request c is committed, though another has changed a job of v since it was decided.
WritesLate(c, v) == callStep[c] = "open" /\ callStep'[c] = "idle" /\ v \in overtaken[c]

\* Request c is committed and puts an inactive row of v back into the queue.
Revives(c, v) ==
    /\ callStep[c] = "open" /\ callStep'[c] = "idle"
    /\ \E j \in JobsOf(v) : edit[c][j] = "queued" /\ status[j] \notin Active

HasTwoActiveJobs(v) == \E i, j \in JobsOf(v) : i # j /\ {status[i], status[j]} \subseteq Active

(***************************************************************************)
(* Staging, the automatic queue and queueing by hand look for an active    *)
(* job of the video before they add a row (download_queue.py:114, 188 and  *)
(* archive_txt.py:318), so that one video is not downloaded twice into the *)
(* same folder.  With any number of requests open beside passes, failures, *)
(* crashes and restarts, a video gets a second active job in two ways      *)
(* only: a request is committed that was decided before another one wrote  *)
(* to the video's jobs, or one that takes an ended job back into the       *)
(* queue, which no retry checks against the video's other jobs.            *)
(***************************************************************************)
SecondJobExplained ==
    [][\A v \in Videos : ~HasTwoActiveJobs(v) /\ HasTwoActiveJobs(v)'
                           => \E c \in Calls : WritesLate(c, v) \/ Revives(c, v)]_vars

(***************************************************************************)
(* A video whose job failed or was cancelled is not queued anew without an *)
(* operator (download_queue.py:81-86), however passes, stops, cancels and  *)
(* retries bring it there; except by an automatic queueing that was        *)
(* decided before another request wrote to the video's jobs.  For          *)
(* instances without "enqueue", whose new rows are queued by an operator.  *)
(***************************************************************************)
AutoQueueNeverRetries ==
    [][\A j \in Jobs : status[j] = "absent" /\ status'[j] = "queued"
         => \/ \A i \in JobsOf(VideoOf[j]) : status[i] \notin {"failed", "cancelled"}
            \/ \E c \in Calls : WritesLate(c, VideoOf[j])]_vars

(***************************************************************************)
(* A job whose stop has been answered is not being downloaded.             *)
(***************************************************************************)
StoppedStaysStopped ==
    \A r \in Runs, j \in Jobs :
        /\ status[j] = "cancelled"
        /\ \A c \in Calls : callStep[c] = "idle"
        => ~(proc[r] = "live" /\ cur[r] = j)

(***************************************************************************)
(* The audit row that a client polls after its pass was accepted reaches a *)
(* terminal status (docs/architecture.md:432-436).                         *)
(***************************************************************************)
AcceptedPassEnds ==
    \A r \in ManualRuns : audit[r] = "running" ~> audit[r] # "running"

(***************************************************************************)
(* No job stays running for ever: the pass, its handler or the recovery at *)
(* startup takes it out of that status.                                    *)
(***************************************************************************)
RunningJobEnds ==
    \A j \in Jobs : status[j] = "running" ~> status[j] # "running"
=============================================================================
