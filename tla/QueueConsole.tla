---------------------------- MODULE QueueConsole ----------------------------
(***************************************************************************)
(* The queue page: the download jobs of every channel, the filters and the *)
(* selection, the bulk bar, the row buttons, the confirmed worker pass and *)
(* the library rescan.  (frontend/src/App.tsx)                             *)
(*                                                                        *)
(* One status hook, queueConsoleStatus, disables the buttons, but each     *)
(* handler disables only some of them: handlers overlap, and the first to  *)
(* end resets the status of the others.  A handler sends its request, then *)
(* reads jobs and worker plan in parallel, then reloads the selected       *)
(* channel; any of these may fail.                                         *)
(*                                                                        *)
(* The server is external here (modelled in DownloadQueue and              *)
(* DownloadWorker): a request is served as a whole.  Quality and priority  *)
(* are left out; search, preflight and channel filters are one set of jobs *)
(* they let through.                                                       *)
(***************************************************************************)
EXTENDS Integers, Sequences, FiniteSets

CONSTANTS
    Jobs,           \* the jobs there are or may be, one per video
    None,
    PassLimit,      \* jobs of a pass, and those the dialog lists (5)
    MaxCalls,       \* handlers under way at once
    Plans           \* what the server holds and whether the page is shown at first, and the
                    \* bounds of a behaviour: the handlers begun, which, the operator's edits
                    \* and the server's own steps

\* Of the constants; ConsolePages assumes them of its instance.
JobsAssumption == IsFiniteSet(Jobs)
PassLimitAssumption == PassLimit \in Nat \ {0}

VARIABLES
    server,         \* job rows, videos archived on disk, whether the worker may run
    page,           \* the state hooks of App
    calls,          \* handlers and loads under way
    lone,           \* history: the last handler ran alone, nothing failed or changed under it
    left            \* what is left of the bounds

vars == <<server, page, calls, lone, left>>

Rows == {"none", "candidate", "queued", "running", "completed", "failed", "cancelled"}
Selectable == {"candidate", "queued", "failed", "cancelled"}
StatusFilters == {"all", "launchable", "candidate", "queued", "running", "completed", "failed", "cancelled"}
BulkActions == {"queue", "cancel", "prioritize", "retry"}
Servers == [job : [Jobs -> Rows], archived : SUBSET Jobs, ready : BOOLEAN]
PlansAssumption == \A p \in Plans : p.server \in Servers /\ p.here \in BOOLEAN

QueueOps == {"load", "event", "refresh", "open", "bulk", "row", "run", "files", "rescan"}

PageOK ==
    /\ server \in Servers
    /\ page.job \in [Jobs -> Rows] /\ page.archived \subseteq Jobs
    /\ page.plan \in [ready : BOOLEAN, claimable : SUBSET Jobs]
    /\ page.selected \subseteq Jobs /\ page.narrow \subseteq Jobs
    /\ page.filter \in StatusFilters
    /\ page.status \in {"idle", "loading", "bulk", "worker", "error"}
    /\ page.flow \in {"idle", "bulk", "downloading", "syncing", "error"}
    /\ page.expanded \in Jobs \cup {None}
    /\ page.file \in [Jobs -> {"idle", "loading", "error"}] /\ page.files \subseteq Jobs
    /\ {page.here, page.confirm, page.ready, lone} \subseteq BOOLEAN

-----------------------------------------------------------------------------
(* The server *)

Plan == [ready |-> server.ready, claimable |-> {j \in Jobs : server.job[j] = "queued"}]

\* The first n of a list whose order is left out, or all of it.
Firsts(S, n) == {T \in SUBSET S : Cardinality(T) = IF Cardinality(S) < n THEN Cardinality(S) ELSE n}

Rewrite(S, from, to) ==
    [server EXCEPT !.job = [j \in Jobs |-> IF j \in S /\ @[j] \in from THEN to ELSE @[j]]]

\* What a bulk request, a cancel, a stop or a rescan writes.  A stop is noticed by
\* the pass; a rescan indexes what the disk holds.
Effect(act, S) ==
    CASE act \in {"queue", "retry"} -> Rewrite(S, Selectable, "queued")
      [] act = "cancel" -> Rewrite(S, {"candidate", "queued"}, "cancelled")
      [] act = "stop" -> Rewrite(S, {"candidate", "queued", "running"}, "cancelled")
      [] OTHER -> server

-----------------------------------------------------------------------------
(* Values the page derives *)

IsSelectableQueueJob(j) == page.job[j] \in Selectable

\* A failed or cancelled job of a video the library has is left out of the page.
IsArchivedRetryDuplicateJob(j) == page.job[j] \in {"failed", "cancelled"} /\ j \in page.archived

CurrentGlobalDownloadJobs ==
    {j \in Jobs : page.job[j] # "none" /\ ~IsArchivedRetryDuplicateJob(j)}

QueueConsoleActionableJobs == {j \in CurrentGlobalDownloadJobs : IsSelectableQueueJob(j)}

FilteredQueueConsoleJobs ==
    page.narrow \cap
    (CASE page.filter = "launchable" -> QueueConsoleActionableJobs
       [] page.filter = "all" -> CurrentGlobalDownloadJobs
       [] OTHER -> {j \in CurrentGlobalDownloadJobs : page.job[j] = page.filter})

VisibleQueueConsoleActionableJobs == {j \in FilteredQueueConsoleJobs : IsSelectableQueueJob(j)}

\* What the bulk bar counts; the requests carry every selected id.
QueueConsoleSelectedJobs == QueueConsoleActionableJobs \cap page.selected

QueueConsoleClaimBlocked ==
    /\ \E j \in CurrentGlobalDownloadJobs : page.job[j] = "queued"
    /\ page.plan.claimable = {} \/ ~page.plan.ready

\* The page may be left while the confirmation is open: it is rendered anywhere.
QueueHeroOffers ==
    IF ~page.here THEN {}
    ELSE (IF page.status # "loading" THEN {"refresh"} ELSE {}) \cup
         (IF page.status \in {"worker", "loading"} \/ ~page.plan.ready \/ page.plan.claimable = {}
          THEN {} ELSE {"run"})

QueueFilterOffers == IF page.here THEN StatusFilters ELSE {}

QueueBlockedOffers ==
    IF ~page.here \/ ~QueueConsoleClaimBlocked THEN {}
    ELSE {"settings"} \cup (IF page.status # "loading" THEN {"refresh"} ELSE {})

QueueBulkOffers ==
    IF ~page.here THEN {}
    ELSE (IF VisibleQueueConsoleActionableJobs # {} THEN {"select visible"} ELSE {}) \cup
         (IF page.status = "bulk" \/ QueueConsoleSelectedJobs = {} THEN {} ELSE BulkActions)

\* A row's buttons look at the job, not at what the page is doing.
QueueRowOffers(j) ==
    IF ~page.here \/ j \notin FilteredQueueConsoleJobs THEN {}
    ELSE {"details"} \cup
         (IF IsSelectableQueueJob(j) THEN {"select"} ELSE {}) \cup
         (IF page.job[j] \notin {"running", "completed"} THEN {"retry"} ELSE {}) \cup
         (IF page.job[j] = "running" THEN {"stop"}
          ELSE IF page.job[j] \in {"candidate", "queued"} THEN {"cancel"} ELSE {})

\* An expanded row shows its files, that they load, or that they could not be read.
QueueDetailShows(j) ==
    IF page.file[j] # "idle" THEN page.file[j]
    ELSE IF j \in page.files THEN "files" ELSE "no files"

QueueEmptyOffers ==
    IF ~page.here \/ FilteredQueueConsoleJobs # {} THEN {}
    ELSE IF CurrentGlobalDownloadJobs = {} THEN {"register", "import"}
    ELSE (IF page.filter # "all" \/ page.narrow # Jobs THEN {"clear"} ELSE {}) \cup
         (IF page.status # "loading" THEN {"refresh"} ELSE {})

QueueConfirmOffers ==
    IF ~page.confirm THEN {}
    ELSE {"close"} \cup
         (IF page.status = "worker" \/ ~page.plan.ready \/ page.plan.claimable = {} THEN {}
          ELSE {"start"})

-----------------------------------------------------------------------------
(* Operations *)

FreeSlots == {i \in 1..MaxCalls : \A c \in calls : c.slot # i}
FreeSlot == CHOOSE i \in FreeSlots : TRUE

\* What a handler awaits, in order.
Awaits(op) ==
    CASE op \in {"load", "event", "refresh", "open"} -> <<"refresh">>
      [] op \in {"bulk", "row"} -> <<"act", "refresh", "channel">>
      [] op = "run" -> <<"start", "pass", "refresh", "channel">>
      [] op = "files" -> <<"files">>
      [] OTHER -> <<"act", "follow", "channel">>

Call(slot, op, todo, act, jobs) ==
    [slot |-> slot, op |-> op, todo |-> todo, act |-> act, jobs |-> jobs,
     seen |-> None, plan |-> None, planned |-> {}, took |-> {},
     ready |-> FALSE, failed |-> FALSE]

Load == Call(0, "load", Awaits("load"), None, {})

\* A handler begins; arriving at the page loads it as well.
BeginWith(op, todo, act, jobs, p) ==
    /\ left.calls > 0 /\ op \in left.ops /\ FreeSlots # {}
    /\ left' = [left EXCEPT !.calls = @ - 1]
    /\ page' = p
    /\ calls' = calls \cup {Call(FreeSlot, op, todo, act, jobs)}
                      \cup (IF p.here /\ ~page.here THEN {Load} ELSE {})
    /\ lone' = (calls = {} /\ p.here = page.here /\ \E i \in DOMAIN todo : todo[i] = "refresh")
    /\ UNCHANGED server

Begin(op, act, jobs, p) == BeginWith(op, Awaits(op), act, jobs, p)

Edit(p) ==
    /\ left.edits > 0 /\ left' = [left EXCEPT !.edits = @ - 1]
    /\ page' = p
    /\ UNCHANGED <<server, calls, lone>>

HandleToggleQueueConsoleJobSelection(j) ==
    /\ "select" \in QueueRowOffers(j) /\ j \in QueueConsoleActionableJobs
    /\ Edit([page EXCEPT !.selected = IF j \in @ THEN @ \ {j} ELSE @ \cup {j}])

HandleSelectVisibleQueueConsoleJobs ==
    /\ "select visible" \in QueueBulkOffers
    /\ LET visible == VisibleQueueConsoleActionableJobs
       IN  Edit([page EXCEPT !.selected = IF visible \subseteq @ THEN @ \ visible ELSE @ \cup visible])

EditFilter(f, narrow) ==
    /\ f \in QueueFilterOffers /\ <<f, narrow>> # <<page.filter, page.narrow>>
    /\ Edit([page EXCEPT !.filter = f, !.narrow = narrow])

HandleResetQueueConsoleFilters ==
    /\ "clear" \in QueueEmptyOffers
    /\ Edit([page EXCEPT !.filter = "all", !.narrow = Jobs])

\* Files that were read, or are being read, are not asked for again.
HandleToggleQueueConsoleDetails(j) ==
    /\ "details" \in QueueRowOffers(j)
    /\ IF page.expanded = j THEN Edit([page EXCEPT !.expanded = None])
       ELSE IF j \in page.files \/ page.file[j] = "loading" THEN Edit([page EXCEPT !.expanded = j])
       ELSE Begin("files", None, {j}, [page EXCEPT !.expanded = j, !.file[j] = "loading"])

\* Every selected id is sent, counted in the bar or not.
HandleQueueConsoleBulkAction(act) ==
    /\ act \in QueueBulkOffers
    /\ Begin("bulk", act, page.selected, [page EXCEPT !.status = "bulk"])

HandleQueueConsoleJobAction(j, act) ==
    /\ act \in QueueRowOffers(j) \cap {"retry", "cancel", "stop"}
    /\ Begin("row", act, {j}, [page EXCEPT !.status = "bulk"])

HandleOpenQueueConsoleRunConfirm ==
    /\ "run" \in QueueHeroOffers
    /\ Begin("open", None, {}, [page EXCEPT !.status = "loading"])

HandleQueueConsoleRunWorker ==
    /\ "start" \in QueueConfirmOffers
    /\ Begin("run", None, {}, [page EXCEPT !.confirm = FALSE, !.status = "worker",
                                             !.flow = "downloading"])

CloseConfirm ==
    /\ "close" \in QueueConfirmOffers
    /\ page' = [page EXCEPT !.confirm = FALSE]
    /\ UNCHANGED <<server, calls, lone, left>>

HandleRefreshQueueConsole ==
    /\ "refresh" \in QueueHeroOffers \cup QueueBlockedOffers \cup QueueEmptyOffers
    /\ Begin("refresh", None, {}, [page EXCEPT !.status = "loading"])

\* The rescan button of the import panel, on the channel's page.
HandleApplyRescan ==
    /\ ~page.here /\ page.flow # "bulk"
    /\ Begin("rescan", "rescan", {}, [page EXCEPT !.flow = "bulk"])

\* The page refreshes itself: a moment after a download event that arrived while it
\* was shown, and when the event stream is back, wherever the operator is by then.
QueueEventArrives == Begin("event", None, {}, page)

\* The operator comes to the page or leaves it: a load that has not answered is
\* dropped.
GoToQueue ==
    /\ ~page.here
    /\ left.edits > 0 /\ left' = [left EXCEPT !.edits = @ - 1]
    /\ page' = [page EXCEPT !.here = TRUE]
    /\ calls' = calls \cup {Load}
    /\ lone' = FALSE
    /\ UNCHANGED server

LeaveQueue ==
    /\ page.here
    /\ left.edits > 0 /\ left' = [left EXCEPT !.edits = @ - 1]
    /\ page' = [page EXCEPT !.here = FALSE]
    /\ calls' = {c \in calls : c.op # "load"}
    /\ UNCHANGED <<server, lone>>

-----------------------------------------------------------------------------
(* What a handler awaits *)

Stage(c) == Head(c.todo)
Last(c) == Len(c.todo) = 1
Becomes(c, d) == calls' = (calls \ {c}) \cup {d}
GoesOn(c) == calls' = (calls \ {c}) \cup IF Last(c) THEN {} ELSE {[c EXCEPT !.todo = Tail(@)]}

\* The page when the handler has ended well.
Ended(c, p) ==
    CASE c.op = "open" -> [p EXCEPT !.status = "idle", !.confirm = TRUE]
      [] c.op \in {"refresh", "bulk", "row"} -> [p EXCEPT !.status = "idle"]
      [] c.op = "run" -> [p EXCEPT !.status = IF c.failed THEN "error" ELSE "idle",
                                   !.flow = IF c.failed THEN "error" ELSE "idle"]
      [] c.op = "files" -> [p EXCEPT !.file = [j \in Jobs |-> IF j \in c.jobs THEN "idle" ELSE @[j]],
                                     !.files = @ \cup c.jobs]
      [] c.op = "rescan" -> [p EXCEPT !.flow = "idle"]
      [] OTHER -> p

\* The page when one of its requests has failed; what it starts itself fails in silence.
Failed(c) ==
    CASE c.op \in {"load", "event"} -> page
      [] c.op = "files" -> [page EXCEPT !.file = [j \in Jobs |-> IF j \in c.jobs THEN "error" ELSE @[j]]]
      [] c.op = "rescan" -> [page EXCEPT !.flow = "error"]
      [] OTHER -> [page EXCEPT !.status = "error", !.flow = "error"]

Shown(c, p) == IF Last(c) THEN Ended(c, p) ELSE p

Acted(c) ==
    /\ Stage(c) = "act"
    /\ server' = Effect(c.act, c.jobs)
    /\ GoesOn(c)
    /\ UNCHANGED <<page, lone, left>>

\* Three snapshots are asked for in parallel.
ReadJobs(c) ==
    /\ Stage(c) = "refresh" /\ c.seen = None
    /\ Becomes(c, [c EXCEPT !.seen = server.job])
    /\ UNCHANGED <<server, page, lone, left>>

ReadPlan(c) ==
    /\ Stage(c) = "refresh" /\ c.plan = None
    /\ Becomes(c, [c EXCEPT !.plan = Plan])
    /\ UNCHANGED <<server, page, lone, left>>

\* A handler's jobs prune the selection, the jobs of the page's own load do not.
ApplyGlobalDownloadJobs(c) ==
    [page EXCEPT !.job = c.seen, !.plan = c.plan,
       !.selected = IF c.op = "load" THEN @ ELSE {j \in @ : c.seen[j] \in Selectable}]

RefreshQueueConsoleState(c) ==
    /\ Stage(c) = "refresh" /\ c.seen # None /\ c.plan # None
    /\ page' = Shown(c, ApplyGlobalDownloadJobs(c))
    /\ GoesOn(c)
    /\ UNCHANGED <<server, lone, left>>

\* The selected channel, with its library and its worker plan.
LoadChannelState(c) ==
    /\ Stage(c) = "channel"
    /\ page' = Shown(c, [page EXCEPT !.ready = server.ready, !.archived = server.archived])
    /\ GoesOn(c)
    /\ UNCHANGED <<server, lone, left>>

\* The files of a video; dashboard and events.
ReadRest(c) ==
    /\ Stage(c) \in {"files", "follow"}
    /\ page' = Shown(c, page)
    /\ GoesOn(c)
    /\ UNCHANGED <<server, lone, left>>

\* A pass of the kit asks for as many jobs as it hands over, that of the queue page
\* for PassLimit.  Neither names its jobs: the pass plans whatever is queued then, and
\* nothing while the worker may not run.
PassStarts(c) ==
    /\ Stage(c) = "start"
    /\ \E S \in IF server.ready THEN Firsts(Plan.claimable, IF c.jobs = {} THEN PassLimit
                                                           ELSE Cardinality(c.jobs))
                ELSE {{}} :
          Becomes(c, [c EXCEPT !.todo = Tail(@), !.planned = S])
    /\ UNCHANGED <<server, page, lone, left>>

\* One job at a time; a job that is no longer queued is passed over.
PassTakes(c, j) ==
    /\ Stage(c) = "pass"
    /\ server.job[j] = "queued" /\ j \notin c.took
    /\ \A k \in c.took : server.job[k] # "running"
    /\ server' = [server EXCEPT !.job[j] = "running"]
    /\ Becomes(c, [c EXCEPT !.took = @ \cup {j}])
    /\ UNCHANGED <<page, lone, left>>

\* A job that was stopped counts as failed.
PassOver(c) ==
    /\ Stage(c) = "pass"
    /\ \A j \in c.took : server.job[j] # "running"
    /\ \A j \in c.planned \ c.took : server.job[j] # "queued"
    /\ Becomes(c, [c EXCEPT !.todo = Tail(@), !.ready = server.ready,
                            !.failed = \E j \in c.took : server.job[j] # "completed"])
    /\ UNCHANGED <<server, page, lone, left>>

Fails(c) ==
    /\ page' = Failed(c)
    /\ calls' = calls \ {c}
    /\ lone' = FALSE
    /\ UNCHANGED <<server, left>>

-----------------------------------------------------------------------------
(* The server's own steps *)

RunEnds(j, status) ==
    /\ server.job[j] = "running"
    /\ server' = [server EXCEPT !.job[j] = status,
                                !.archived = IF status = "completed" THEN @ \cup {j} ELSE @]
    /\ lone' = (lone /\ \E c \in calls : Stage(c) = "pass")
    /\ UNCHANGED <<page, calls, left>>

\* A background pass, or another session, starts a job; the worker is switched.
Outside(s) ==
    /\ left.outside > 0 /\ left' = [left EXCEPT !.outside = @ - 1]
    /\ server' = s /\ lone' = FALSE
    /\ UNCHANGED <<page, calls>>

BackgroundTakes(j) == server.job[j] = "queued" /\ Outside([server EXCEPT !.job[j] = "running"])
WorkerSwitched == Outside([server EXCEPT !.ready = ~@])

-----------------------------------------------------------------------------
PageAt(s, here) ==
    [job |-> [j \in Jobs |-> "none"], archived |-> s.archived,
     plan |-> [ready |-> FALSE, claimable |-> {}], selected |-> {}, filter |-> "all",
     narrow |-> Jobs, status |-> "idle", flow |-> "idle", expanded |-> None,
     file |-> [j \in Jobs |-> "idle"], files |-> {}, here |-> here, confirm |-> FALSE,
     ready |-> s.ready]

Init ==
    /\ \E p \in Plans : /\ server = p.server /\ left = p.bounds
                       /\ page = PageAt(p.server, p.here)
                       /\ calls = IF p.here THEN {Load} ELSE {}
    /\ lone = FALSE

Operator ==
    \/ \E j \in Jobs : \/ HandleToggleQueueConsoleJobSelection(j)
                       \/ HandleToggleQueueConsoleDetails(j)
                       \/ \E act \in {"retry", "cancel", "stop"} : HandleQueueConsoleJobAction(j, act)
    \/ HandleSelectVisibleQueueConsoleJobs \/ HandleResetQueueConsoleFilters
    \/ \E f \in StatusFilters : EditFilter(f, page.narrow)
    \/ \E narrow \in SUBSET Jobs : EditFilter(page.filter, narrow)
    \/ \E act \in BulkActions : HandleQueueConsoleBulkAction(act)
    \/ HandleOpenQueueConsoleRunConfirm \/ HandleQueueConsoleRunWorker \/ CloseConfirm
    \/ HandleRefreshQueueConsole \/ HandleApplyRescan \/ GoToQueue \/ LeaveQueue
    \/ QueueEventArrives

Reads(c) ==
    \/ ReadJobs(c) \/ ReadPlan(c) \/ PassStarts(c) \/ PassOver(c)
    \/ \E j \in c.planned : PassTakes(c, j)

Answers(c) ==
    \/ Acted(c) \/ RefreshQueueConsoleState(c) \/ LoadChannelState(c) \/ ReadRest(c) \/ Fails(c)

Server ==
    \/ \E j \in Jobs : BackgroundTakes(j) \/ \E s \in {"completed", "failed"} : RunEnds(j, s)
    \/ WorkerSwitched

-----------------------------------------------------------------------------
(* Properties *)

Busy(ops) == \E c \in calls : c.op \in ops

\* After a handler that ran alone, the page shows what the server holds, and its
\* selection is of jobs that can be acted on.
Settled ==
    (calls = {} /\ lone) =>
        /\ page.job = server.job
        /\ page.plan = Plan
        /\ \A j \in page.selected : IsSelectableQueueJob(j)

=============================================================================
