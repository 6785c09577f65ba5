--------------------------- MODULE DownloadQueue ---------------------------
(***************************************************************************)
(* The table of download jobs and the HTTP requests that edit it           *)
(* (backend/app/services/download_queue.py, archive_txt.py,                *)
(* channel_policy.py).                                                     *)
(*                                                                         *)
(* A handler loads rows, decides, assigns columns, and the request's       *)
(* session commits when the handler returns (database.py, get_db).  SQLite *)
(* gives a SELECT no lock, so the table may change between the load and    *)
(* the commit; and SQLAlchemy's UPDATE is by primary key, for the columns  *)
(* whose value differs from the one loaded.  Each request is therefore two *)
(* steps: one that reads the table and fixes the columns to be written     *)
(* (edit, insert), and Commit, which writes them whatever the table holds. *)
(* overtaken is a history variable, which no step reads: what happened to  *)
(* the table in between.                                                   *)
(***************************************************************************)
EXTENDS Naturals, FiniteSets

CONSTANTS
    Channels,    \* registered channels
    Videos,      \* videos they list
    Jobs,        \* primary keys of download_jobs: the bound on the rows ever made
    Calls,       \* requests (or scheduler tasks) that can be open at one time
    ChannelOf,   \* the channel of a video
    VideoOf,     \* the video of a job row
    Requests,    \* the kinds of request clients make
    StageLimit   \* bound on the rows one staging call creates (its "limit")

RequestKinds == {"candidates", "archive", "auto", "enqueue", "retry", "cancel", "stop", "pause"}

ASSUME QueueAssumption ==
    /\ ChannelOf \in [Videos -> Channels]
    /\ VideoOf \in [Jobs -> Videos]
    /\ Requests \subseteq RequestKinds
    /\ StageLimit \in Nat \ {0}

VARIABLES
    api,       \* the API process: "up", "stopping", "stopped", "crashed"
    status,    \* download_jobs.status, "absent" before the row exists
    onDisk,    \* videos with indexed media that is present on disk
    paused,    \* channels whose policy has worker_paused
    callStep,  \* how far an open request is: "idle", "open", "stopping", "signal"
    edit,      \* the status it will write to each row, or "keep"
    insert,    \* the status of the row it will add for each video, or "keep"
    overtaken  \* the videos whose rows another request has changed since it was opened

queueVars == <<api, status, onDisk, paused, callStep, edit, insert, overtaken>>

JobStatus == {"candidate", "queued", "running", "failed", "cancelled", "completed"}
RowStatus == JobStatus \cup {"absent"}
Active == {"candidate", "queued", "running"}
Retryable == {"candidate", "queued", "failed", "cancelled"}
AutoQueueBlocking == Active \cup {"failed", "cancelled"}

NoEdit == [j \in Jobs |-> "keep"]
NoInsert == [v \in Videos |-> "keep"]

JobsOf(v) == {j \in Jobs : VideoOf[j] = v}
Absent == {j \in Jobs : status[j] = "absent"}
ChannelOfJob(j) == ChannelOf[VideoOf[j]]

(***************************************************************************)
(* The bound of the model: a request that adds a row for v is only begun   *)
(* while a primary key is left for it.                                     *)
(***************************************************************************)
RowLeftFor(v) ==
    Cardinality({c \in Calls : insert[c][v] # "keep"}) < Cardinality(JobsOf(v) \cap Absent)

\* At first no video has two active jobs.
OneActiveJobPerVideo ==
    \A i, j \in Jobs : /\ VideoOf[i] = VideoOf[j]
                       /\ status[i] \in Active
                       /\ status[j] \in Active
                       => i = j

QueueInit ==
    /\ api = "up"
    /\ status \in [Jobs -> {"absent", "queued"}]
    /\ OneActiveJobPerVideo
    /\ onDisk = {}
    /\ paused = {}
    /\ callStep = [c \in Calls |-> "idle"]
    /\ edit = [c \in Calls |-> NoEdit]
    /\ insert = [c \in Calls |-> NoInsert]
    /\ overtaken = [c \in Calls |-> {}]

-----------------------------------------------------------------------------
(* Reading: what a request decides to write.                               *)

Open(c, kind, edits, inserts) ==
    /\ api = "up"
    /\ kind \in Requests
    /\ callStep[c] = "idle"
    /\ callStep' = [callStep EXCEPT ![c] = IF kind = "stop" THEN "stopping" ELSE "open"]
    /\ edit' = [edit EXCEPT ![c] = edits]
    /\ insert' = [insert EXCEPT ![c] = inserts]
    /\ UNCHANGED <<api, status, onDisk, paused, overtaken>>

\* The rows of S that have a status in `from` are assigned `to`; a row that
\* already has it is not dirty and is left out of the UPDATE.
Assign(S, from, to) ==
    [j \in Jobs |-> IF j \in S /\ status[j] \in from \ {to} THEN to ELSE "keep"]

\* Retry of one job, or the bulk actions "retry" and "queue" of several.
Retry(c, S) == Open(c, "retry", Assign(S, Retryable, "queued"), NoInsert)

\* Cancel of one job, or the bulk action "cancel" of several.
Cancel(c, S) == Open(c, "cancel", Assign(S, {"candidate", "queued"}, "cancelled"), NoInsert)

\* One video queued by hand: its active job if it has one (the newest in the
\* code, any here), running included, or else a new row.
Enqueue(c, v) ==
    LET active == {j \in JobsOf(v) : status[j] \in Active}
    IN  \/ \E j \in active : Open(c, "enqueue", Assign({j}, Active, "queued"), NoInsert)
        \/ /\ active = {}
           /\ RowLeftFor(v)
           /\ Open(c, "enqueue", NoEdit, [NoInsert EXCEPT ![v] = "queued"])

Stageable(ch, blocking) ==
    {v \in Videos : /\ ChannelOf[v] = ch
                    /\ v \notin onDisk
                    /\ \A j \in JobsOf(v) : status[j] \notin blocking}

\* New rows for at most StageLimit of the channel's stageable videos.
Stage(c, ch, kind, blocking, initial) ==
    \E S \in SUBSET Stageable(ch, blocking) :
        /\ S # {}
        /\ Cardinality(S) = StageLimit \/ (S = Stageable(ch, blocking) /\ Cardinality(S) < StageLimit)
        /\ \A v \in S : RowLeftFor(v)
        /\ Open(c, kind, NoEdit, [v \in Videos |-> IF v \in S THEN initial ELSE "keep"])

\* Mutant: a queued or running job does not keep its video from being staged.
StageCandidatesLoose(c, ch) == Stage(c, ch, "candidates", {"candidate"}, "candidate")

StageCandidates(c, ch) == Stage(c, ch, "candidates", Active, "candidate")

\* archive.txt (archive_txt.py) stages some of them, those that its text names.
StageArchive(c, ch) ==
    \E S \in SUBSET Stageable(ch, Active) :
        /\ S # {} /\ Cardinality(S) <= StageLimit
        /\ \A v \in S : RowLeftFor(v)
        /\ Open(c, "archive", NoEdit, [v \in Videos |-> IF v \in S THEN "candidate" ELSE "keep"])

\* Mutant: the automatic queue looks only for active jobs.
AutoQueueLoose(c, ch) == Stage(c, ch, "auto", Active, "queued")

\* The metadata scheduler's automatic queue; failed and cancelled jobs wait for
\* an explicit retry.
AutoQueue(c, ch) == Stage(c, ch, "auto", AutoQueueBlocking, "queued")

-----------------------------------------------------------------------------
(* Writing.                                                                *)

\* Mutant: columns that were not assigned are written as well.
ApplyEditsAll(c) == status' = [j \in Jobs |-> edit[c][j]]

\* The call's UPDATEs and INSERTs, as one transaction.
ApplyEdits(c) ==
    \E new \in SUBSET Absent :
        /\ \A v \in Videos : IF insert[c][v] = "keep" THEN new \cap JobsOf(v) = {}
                            ELSE \E j \in JobsOf(v) : new \cap JobsOf(v) = {j}
        /\ status' = [j \in Jobs |-> IF j \in new THEN insert[c][VideoOf[j]]
                                     ELSE IF edit[c][j] # "keep" THEN edit[c][j]
                                     ELSE status[j]]

\* Request c has written: every other open one is overtaken where it wrote.
Overtake(c) ==
    LET written == {v \in Videos : \E j \in JobsOf(v) : status'[j] # status[j]}
    IN  overtaken' = [d \in Calls |-> IF d = c \/ callStep[d] = "idle" THEN {} ELSE overtaken[d] \cup written]

Discard(c) ==
    /\ edit' = [edit EXCEPT ![c] = NoEdit]
    /\ insert' = [insert EXCEPT ![c] = NoInsert]

Commit(c) ==
    /\ callStep[c] = "open"
    /\ ApplyEdits(c)
    /\ Overtake(c)
    /\ callStep' = [callStep EXCEPT ![c] = "idle"]
    /\ Discard(c)
    /\ UNCHANGED <<api, onDisk, paused>>

\* The policy switch that holds a channel's jobs back from the worker.
SetWorkerPaused(ch) ==
    /\ api = "up"
    /\ "pause" \in Requests
    /\ paused' = IF ch \in paused THEN paused \ {ch} ELSE paused \cup {ch}
    /\ UNCHANGED <<api, status, onDisk, callStep, edit, insert, overtaken>>

\* Indexed media disappears from the archive (a lost NAS volume, a deletion).
MediaLost(v) ==
    /\ v \in onDisk
    /\ onDisk' = onDisk \ {v}
    /\ UNCHANGED <<api, status, paused, callStep, edit, insert, overtaken>>

Decide(c) ==
    \/ \E S \in SUBSET Jobs \ {{}} : Retry(c, S) \/ Cancel(c, S)
    \/ \E v \in Videos : Enqueue(c, v)
    \/ \E ch \in Channels : StageCandidates(c, ch) \/ StageArchive(c, ch) \/ AutoQueue(c, ch)

QueueTypeOK ==
    /\ api \in {"up", "stopping", "stopped", "crashed"}
    /\ status \in [Jobs -> RowStatus]
    /\ onDisk \subseteq Videos
    /\ paused \subseteq Channels
    /\ callStep \in [Calls -> {"idle", "open", "stopping", "signal"}]
    /\ edit \in [Calls -> [Jobs -> {"queued", "cancelled", "keep"}]]
    /\ insert \in [Calls -> [Videos -> {"candidate", "queued", "keep"}]]
    /\ overtaken \in [Calls -> SUBSET Videos]

=============================================================================
