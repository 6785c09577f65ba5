--------------------------- MODULE ChannelConsole ---------------------------
(***************************************************************************)
(* The console's view of one channel: which channel is selected, the      *)
(* panels that show it, the job list with the operator's selection, and   *)
(* the requests that fill them.  (frontend/src/App.tsx)                   *)
(*                                                                        *)
(* A panel is the channel its content came from, or None.  There are two  *)
(* kinds of request.  A LOAD is started by an effect of the page when the *)
(* selected channel or the workspace changes, and is cancelled by the     *)
(* next change.  A HANDLER is an operation of the operator, or a refresh  *)
(* after an event: a chain of awaits that keeps the channel it started    *)
(* with and writes what it gets, whatever is selected by then.            *)
(*                                                                        *)
(* candidate and queued are one status, launchable.  Every job is of a    *)
(* video of its own, so none is hidden as the duplicate of an archived    *)
(* one.  A status that no guard tells from idle (ready, done, error) is   *)
(* idle.  Effects run with the render that triggers them, before the next *)
(* event, so they are part of the action (Render).                        *)
(***************************************************************************)
EXTENDS Integers, FiniteSets

CONSTANTS
    Channels,       \* channels the archive has
    Jobs,           \* download job rows
    ChannelOf,      \* the channel of each job
    FirstTables,    \* job tables the backend may start with
    None,
    Unregistered,   \* a probed source that is not a channel of the archive
    MaxHandlers,    \* handlers in flight at once
    Budgets         \* bounds of a behaviour: the changes of channel or workspace, the
                    \* handlers started and their operations, the requests that fail

ASSUME ChannelsAssumption ==
    None \notin Channels /\ Unregistered \notin Channels \cup {None}
ASSUME JobsAssumption == ChannelOf \in [Jobs -> Channels]

VARIABLES
    ui,             \* the state hooks of App
    loads,          \* requests of effects: [kind, channel, cancelled]
    handlers,       \* handlers in flight: [slot, op, at, ids, channel]
    jobStatus,      \* the backend's job table
    failedLoads,    \* history: kinds of load that failed for this selection
    crossed,        \* history: a handler of another channel was under way when this
                    \* channel was selected, or has been begun since
    kept,           \* history: this channel was selected with the seed of an earlier
                    \* visit to it still in place
    left            \* what is left of the budget

vars == <<ui, loads, handlers, jobStatus, failedLoads, crossed, kept, left>>

JobStatuses == {"launchable", "failed", "cancelled", "running", "completed"}
SingleCalls == {"retry", "cancel", "stop"}
BulkCalls == {"bulkQueue", "bulkRetry", "bulkCancel"}
EventTypes == {"started", "finished", "other"}
Ops == SingleCalls \cup BulkCalls \cup EventTypes \cup
       {"sync", "interval", "policy", "pause", "retryFailed", "preflight", "dryRun", "live",
        "probe", "commit", "reconnect", "target", "seed", "clear"}
JobsOf(c) == {j \in Jobs : ChannelOf[j] = c}
Workspaces == {"channels", "library", "queue"}
LoadKinds == {"summary", "channels", "library"}
PanelNames == {"channelDetail", "channelPolicy", "channelVideos", "library",
               "coverage", "workerPlan", "workerRuns"}

ASSUME BoundsAssumption ==
    /\ MaxHandlers \in Nat
    /\ FirstTables \subseteq [Jobs -> JobStatuses \cup {None}]
    /\ Budgets \subseteq [switches : Nat, calls : Nat, failures : Nat, ops : SUBSET Ops]

Stages == {"timer", "call", "jobs", "rest", "all", "state", "summary", "librarySummary",
           "plan", "runs", "candidates", "run", "demo", "workspace", "queue"}

\* The awaits in which a handler of the demo workspace has no channel yet.
DemoStages == {"demo", "workspace", "queue"}

\* The state hooks of App that concern one channel.
Pages ==
    [selectedChannelId : Channels \cup {None},
     registration : Channels \cup {None},
     probe : Channels \cup {None, Unregistered},
     registrationStatus : {"idle", "probing", "committing"},
     activeNavId : Workspaces,
     panels : [PanelNames -> Channels \cup {None}],
     downloadJobs : UNION {[S -> JobStatuses] : S \in SUBSET Jobs},
     selectedJobIds : SUBSET Jobs,
     selectionSeedKey : {None} \cup (Channels \X SUBSET Jobs),
     preflightPlan : {None} \cup SUBSET Jobs,
     workflowStatus : {"idle", "syncing", "downloading", "bulk", "preflight"},
     liveDownloadStatus : {"idle", "running"},
     liveDownloadConfirmOpen : BOOLEAN,
     dashboard : BOOLEAN]

TypeOK ==
    /\ ui \in Pages
    /\ loads \subseteq [kind : LoadKinds, channel : Channels, cancelled : BOOLEAN]
    /\ handlers \subseteq [slot : 1..MaxHandlers, op : Ops, at : Stages, ids : SUBSET Jobs,
                           channel : Channels \cup {None}]
    /\ jobStatus \in [Jobs -> JobStatuses \cup {None}]
    /\ failedLoads \subseteq LoadKinds /\ crossed \in BOOLEAN /\ kept \in BOOLEAN
    /\ \E b \in Budgets : left \in [switches : 0..b.switches, calls : 0..b.calls,
                                    failures : 0..b.failures, ops : {b.ops}]

-----------------------------------------------------------------------------
(* Derived values *)

\* Mutant: a probed source that is no channel yet counts as one.
ProbedFirst(u) ==
    IF u.registration # None THEN u.registration
    ELSE IF u.probe # None THEN u.probe
    ELSE u.selectedChannelId

\* The channel every handler uses: a registration result or a probe of a known
\* channel comes before the channel picked in the switcher.
RegisteredChannel(u) ==
    IF u.registration # None THEN u.registration
    ELSE IF u.probe \in Channels THEN u.probe
    ELSE u.selectedChannelId

IsLaunchableJob(j, list) == list[j] = "launchable"
IsSelectableQueueJob(j, list) == list[j] \in {"launchable", "failed", "cancelled"}
SelectableIn(list) == {j \in DOMAIN list : IsSelectableQueueJob(j, list)}

LaunchableJobs(u) == {j \in DOMAIN u.downloadJobs : IsLaunchableJob(j, u.downloadJobs)}
ActionableQueueJobs(u) == SelectableIn(u.downloadJobs)
SelectedRetryable(u) ==
    {j \in u.selectedJobIds \cap ActionableQueueJobs(u) : ~IsLaunchableJob(j, u.downloadJobs)}
FailedDownloadJobIds(u) == {j \in DOMAIN u.downloadJobs : u.downloadJobs[j] = "failed"}

\* Without a worker plan on the page a live pass is blocked; that the worker may run
\* and has something to do is left out.
LiveDownloadBlocked(u) ==
    u.panels.workerPlan = None \/ u.liveDownloadStatus = "running"

NoJobs == [j \in {} |-> None]

\* What GET /jobs/downloads?channel_id=c answers now.
JobsSeen(c) == [j \in {k \in JobsOf(c) : jobStatus[k] # None} |-> jobStatus[j]]

Fill(u, names, c) ==
    [u EXCEPT !.panels = [p \in PanelNames |-> IF p \in names THEN c ELSE u.panels[p]]]

-----------------------------------------------------------------------------
(* Effects of a render *)

\* Leaving a channel empties these panels at once; coverage, worker plan and
\* worker runs keep the old channel's content until its load answers.
ClearedOnSwitch == {"channelDetail", "channelPolicy", "channelVideos", "library"}

\* Seeding: whenever the launchable jobs of the list are not those of the last
\* seed, all of them become selected.
SeedSelection(u) ==
    LET c == RegisteredChannel(u)
        key == <<c, LaunchableJobs(u)>>
    IN  IF c = None \/ LaunchableJobs(u) = {} \/ u.selectionSeedKey = key THEN u
        ELSE [u EXCEPT !.selectedJobIds = LaunchableJobs(u), !.selectionSeedKey = key]

\* With no channel known the first of the dashboard is selected.
SelectFirst(u) ==
    IF RegisteredChannel(u) # None \/ ~u.dashboard THEN {u}
    ELSE {[u EXCEPT !.selectedChannelId = c] : c \in Channels}

ClearPanels(u) ==
    LET c == RegisteredChannel(u)
    IN  IF c = None
        THEN [Fill(u, PanelNames, None) EXCEPT
                 !.downloadJobs = NoJobs, !.preflightPlan = None,
                 !.selectedJobIds = {}, !.selectionSeedKey = None]
        ELSE [Fill(u, ClearedOnSwitch, None) EXCEPT !.downloadJobs = NoJobs]

\* Mutant: the clean-up of the effect forgets its flag.
CancelNone(pending, kinds) == pending

Cancel(pending, kinds) ==
    {IF l.kind \in kinds THEN [l EXCEPT !.cancelled = TRUE] ELSE l : l \in pending}

NewLoad(kind, c) == [kind |-> kind, channel |-> c, cancelled |-> FALSE]

Moved(old, new) == RegisteredChannel(old) # RegisteredChannel(new)
Turned(old, new) == Moved(old, new) \/ old.activeNavId # new.activeNavId

Restarted(old, new) ==
    IF Moved(old, new) THEN LoadKinds
    ELSE IF Turned(old, new) THEN {"channels", "library"} ELSE {}

\* A change of channel restarts the summary.
SummaryLoads(pending, old, new) ==
    IF "summary" \notin Restarted(old, new) THEN pending
    ELSE Cancel(pending, {"summary"}) \cup
         (IF RegisteredChannel(new) = None THEN {}
          ELSE {NewLoad("summary", RegisteredChannel(new))})

\* Mutant: a change of channel cancels the workspace's detail and loads none.
DetailLoadsOnTurn(pending, old, new) ==
    IF ~Turned(old, new) THEN pending
    ELSE Cancel(pending, {"channels", "library"}) \cup
         (IF RegisteredChannel(new) = None \/ new.activeNavId \notin {"channels", "library"}
             \/ (RegisteredChannel(old) # None /\ Moved(old, new))
          THEN {} ELSE {NewLoad(new.activeNavId, RegisteredChannel(new))})

\* A change of channel or of workspace restarts the workspace's detail.
DetailLoads(pending, old, new) ==
    IF ~Turned(old, new) THEN pending
    ELSE Cancel(pending, {"channels", "library"}) \cup
         (IF RegisteredChannel(new) = None \/ new.activeNavId \notin {"channels", "library"} THEN {}
          ELSE {NewLoad(new.activeNavId, RegisteredChannel(new))})

\* A handler that will write what it gets for its channel.
Carries(h) == h.op # "probe" /\ ~(h.op = "commit" /\ h.at = "call") /\ h.at \notin DemoStages

Foreign(hs, u) == \E h \in hs : Carries(h) /\ h.channel # RegisteredChannel(u)

\* A state update and the effects of its render, in their order: the seed effect
\* still sees the old channel's list.  waiting are the handlers in flight then.
RenderFrom(old, new, waiting, pending) ==
    \E u \in SelectFirst(new) :
        LET seeded == SeedSelection(u)
        IN  /\ ui' = IF Moved(old, u) THEN ClearPanels(seeded) ELSE seeded
            /\ loads' = DetailLoads(SummaryLoads(pending, old, u), old, u)
            /\ failedLoads' = failedLoads \ Restarted(old, u)
            /\ crossed' = IF Moved(old, u) THEN Foreign(waiting, u)
                          ELSE crossed \/ Foreign(waiting \ handlers, u)
            /\ kept' = IF Moved(old, u)
                       THEN seeded = u /\ u.selectionSeedKey \in {RegisteredChannel(u)} \X SUBSET Jobs
                       ELSE kept

Render(new, waiting, pending) == RenderFrom(ui, new, waiting, pending)

\* A render without a channel comes between: whatever follows is a change of channel.
Nowhere(u) == [u EXCEPT !.registration = Unregistered]

-----------------------------------------------------------------------------
(* Answers to loads *)

Idle(u) == [u EXCEPT !.workflowStatus = "idle"]

LoadSummary(u, c) ==
    [Fill(u, {"channelDetail", "channelPolicy"}, c) EXCEPT !.downloadJobs = JobsSeen(c)]

LoadDetailWorkspace(u, kind, c) ==
    Fill(u, {"channelVideos", "library"}
            \cup (IF kind = "channels" THEN {"coverage", "workerPlan", "workerRuns"} ELSE {}), c)

LoadAnswered(l) ==
    /\ Render(IF l.cancelled THEN ui
              ELSE IF l.kind = "summary" THEN LoadSummary(ui, l.channel)
              ELSE LoadDetailWorkspace(ui, l.kind, l.channel),
              handlers, loads \ {l})
    /\ UNCHANGED <<handlers, jobStatus, left>>

\* A request fails.
Fails == left.failures > 0 /\ left' = [left EXCEPT !.failures = @ - 1]

LoadFailed(l) ==
    /\ IF l.cancelled THEN UNCHANGED left ELSE Fails
    /\ ui' = IF l.cancelled THEN ui ELSE Idle(ui)
    /\ loads' = loads \ {l}
    /\ failedLoads' = failedLoads \cup (IF l.cancelled THEN {} ELSE {l.kind})
    /\ UNCHANGED <<handlers, jobStatus, crossed, kept>>

-----------------------------------------------------------------------------
(* Moving about *)

Moves(u) ==
    /\ left.switches > 0
    /\ left' = [left EXCEPT !.switches = @ - 1]
    /\ Render(u, handlers, loads)
    /\ UNCHANGED <<handlers, jobStatus>>

\* The channel switcher lists the channels of the dashboard.
HandleSelectChannelContext(c) ==
    /\ ui.dashboard /\ c # RegisteredChannel(ui)
    /\ Moves([ui EXCEPT !.registration = None, !.probe = None,
                        !.selectedChannelId = c, !.workflowStatus = "idle"])

HandleSelectNav(nav) ==
    /\ nav # ui.activeNavId
    /\ Moves([ui EXCEPT !.activeNavId = nav])

\* A link or the browser's history names a workspace, and may name a channel.  What
\* was probed or registered before stays.
ApplyRouteFromHash(nav, c) ==
    Moves([ui EXCEPT !.activeNavId = nav,
                     !.selectedChannelId = IF c = None THEN @ ELSE c])

\* The list of channels that are due offers the selected one, too.
HandleFocusMetadataDueChannel(c) ==
    Moves([ui EXCEPT !.registration = None, !.probe = None,
                     !.selectedChannelId = c, !.workflowStatus = "idle"])

\* Opening or closing the registration form forgets probe and registration;
\* opening it shows the channels workspace.
OpenChannelRegistration ==
    Moves([ui EXCEPT !.registration = None, !.probe = None,
                     !.registrationStatus = "idle", !.activeNavId = "channels"])

CloseChannelRegistration ==
    /\ RegisteredChannel(ui) # None /\ ui.activeNavId = "channels"
    /\ Moves([ui EXCEPT !.registration = None, !.probe = None, !.registrationStatus = "idle"])

\* A dashboard request ends; without an answer the page has no dashboard.
DashboardAnswered ==
    /\ Render([ui EXCEPT !.dashboard = ~@], handlers, loads)
    /\ IF ui.dashboard THEN Fails ELSE UNCHANGED left
    /\ UNCHANGED <<handlers, jobStatus>>

-----------------------------------------------------------------------------
(* Handlers: what they share *)

\* A new list drops from the selection what it does not offer.
ApplyDownloadJobs(u, c) ==
    [u EXCEPT !.downloadJobs = JobsSeen(c),
              !.selectedJobIds = @ \cap SelectableIn(JobsSeen(c))]

\* Every panel of a channel at once; all its launchable jobs become selected.
LoadChannelState(u, c) ==
    LET v == ApplyDownloadJobs(Fill(u, PanelNames, c), c)
    IN  [v EXCEPT !.selectedJobIds = LaunchableJobs(v),
                  !.preflightPlan = None, !.dashboard = TRUE]

RefreshChannelSummary(u, c) ==
    ApplyDownloadJobs(Fill(u, {"channelDetail", "channelPolicy"}, c), c)

\* The tail of the queue handlers: dashboard, library and worker plan.
ShowQueueEffects(u, c) ==
    [Fill(u, {"library", "workerPlan"}, c) EXCEPT !.dashboard = TRUE]

FreeSlots(hs) == {i \in 1..MaxHandlers : \A h \in hs : h.slot # i}
FreeSlot(hs) == CHOOSE i \in FreeSlots(hs) : TRUE

\* A handler keeps the channel of the render it was created in.
BeginIn(hs, op, at, ids, u) ==
    /\ left.calls > 0 /\ op \in left.ops /\ FreeSlots(hs) # {}
    /\ left' = [left EXCEPT !.calls = @ - 1]
    /\ handlers' = hs \cup {[slot |-> FreeSlot(hs), op |-> op, at |-> at, ids |-> ids,
                             channel |-> RegisteredChannel(ui)]}
    /\ Render(u, hs, loads)
    /\ UNCHANGED jobStatus

Begin(op, at, ids, u) == BeginIn(handlers, op, at, ids, u)

GoesOn(h, at) == handlers' = (handlers \ {h}) \cup {[h EXCEPT !.at = at, !.ids = {}]}
Ends(h) == handlers' = handlers \ {h}

\* The answer of a call that changes nothing on the page.
PassesOn(h, at) ==
    /\ GoesOn(h, at)
    /\ UNCHANGED <<ui, loads, failedLoads, crossed, kept, left>>

\* An answer that writes u.
Writes(h, u) ==
    /\ Render(u, handlers \ {h}, loads)
    /\ UNCHANGED <<jobStatus, left>>

-----------------------------------------------------------------------------
(* What the sections of the page offer *)

Offered(op, condition) == IF condition THEN {op} ELSE {}

\* A row of the job list: retry, and cancel or stop on one button.
JobRowOffers(u, j) ==
    Offered("retry", u.downloadJobs[j] \notin {"running", "completed"})
        \cup Offered("cancel", IsLaunchableJob(j, u.downloadJobs))
        \cup Offered("stop", u.downloadJobs[j] = "running")

\* Every bulk button but "retry" is enabled by the raw selection, not by what
\* the list shows of it.
BulkOffers(u) ==
    IF u.workflowStatus = "bulk" THEN {}
    ELSE Offered("bulkRetry", SelectedRetryable(u) # {})
             \cup (IF u.selectedJobIds # {} THEN {"bulkQueue", "bulkCancel"} ELSE {})

BoardOffers(u) ==
    Offered("preflight", u.workflowStatus # "preflight" /\ LaunchableJobs(u) # {})
        \cup Offered("selectVisible", ActionableQueueJobs(u) # {})
        \cup BulkOffers(u)

\* The dock opens the dialog of a live pass only while none runs.
WorkerDockOffers(u) == {"dryRun"} \cup Offered("live", u.liveDownloadStatus # "running")

\* The dialog starts a pass and can be closed at any time.
LiveDialogOffers(u) ==
    IF ~u.liveDownloadConfirmOpen THEN {}
    ELSE {"close"} \cup Offered("run", ~LiveDownloadBlocked(u))

\* The commit button is shown with a probe.
RegistrationOffers(u) ==
    Offered("probe", u.registrationStatus # "probing")
        \cup Offered("commit", (u.probe # None \/ u.registration # None)
                                  /\ u.registrationStatus # "committing")

-----------------------------------------------------------------------------
(* The operations of the operator *)

\* Also started from the release checklist, where nothing disables it.
HandleManualSync ==
    /\ RegisteredChannel(ui) # None
    /\ Begin("sync", "call", {}, [ui EXCEPT !.workflowStatus = "syncing"])

HandleUpdateSyncInterval ==
    /\ RegisteredChannel(ui) # None
    /\ ~ \E h \in handlers : h.op = "interval"
    /\ Begin("interval", "call", {}, ui)

HandlePolicyQuality ==
    /\ RegisteredChannel(ui) # None
    /\ Begin("policy", "call", {}, ui)

HandleToggleAutoDownload ==
    /\ RegisteredChannel(ui) # None /\ ui.panels.channelPolicy # None
    /\ Begin("policy", "call", {}, ui)

HandleToggleWorkerPause ==
    /\ RegisteredChannel(ui) # None /\ ui.panels.channelPolicy # None
    /\ Begin("pause", "call", {}, ui)

\* Retry, cancel and stop of one listed job.
HandleRetryJob(j) ==
    /\ RegisteredChannel(ui) # None
    /\ j \in DOMAIN ui.downloadJobs /\ "retry" \in JobRowOffers(ui, j)
    /\ Begin("retry", "call", {j}, ui)

HandleCancelJob(j) ==
    /\ RegisteredChannel(ui) # None
    /\ j \in DOMAIN ui.downloadJobs /\ "cancel" \in JobRowOffers(ui, j)
    /\ Begin("cancel", "call", {j}, ui)

HandleStopJob(j) ==
    /\ RegisteredChannel(ui) # None
    /\ j \in DOMAIN ui.downloadJobs /\ "stop" \in JobRowOffers(ui, j)
    /\ Begin("stop", "call", {j}, ui)

\* The button of the overview is disabled while a sync or a bulk call runs.
HandleRetryFailedDownloads ==
    /\ RegisteredChannel(ui) # None /\ FailedDownloadJobIds(ui) # {}
    /\ ui.workflowStatus \notin {"syncing", "bulk"}
    /\ Begin("retryFailed", "call", FailedDownloadJobIds(ui),
             [ui EXCEPT !.workflowStatus = "bulk"])

HandleRunPreflight ==
    /\ RegisteredChannel(ui) # None /\ "preflight" \in BoardOffers(ui)
    /\ Begin("preflight", "call", {}, [ui EXCEPT !.workflowStatus = "preflight"])

\* The selection, or without one the preflight's ready jobs.
HandleBulkQueueAction(op) ==
    /\ RegisteredChannel(ui) # None /\ op \in BoardOffers(ui)
    /\ LET ids == IF ui.selectedJobIds # {} THEN ui.selectedJobIds
                  ELSE IF ui.preflightPlan # None THEN ui.preflightPlan ELSE {}
       IN  /\ ids # {}
           /\ Begin(op, "call", ids, [ui EXCEPT !.workflowStatus = "bulk"])

Selects(ids) ==
    /\ ui' = [ui EXCEPT !.selectedJobIds = ids]
    /\ UNCHANGED <<loads, handlers, jobStatus, failedLoads, crossed, kept, left>>

HandleToggleJobSelection(j) ==
    /\ j \in ActionableQueueJobs(ui)
    /\ Selects(IF j \in ui.selectedJobIds THEN ui.selectedJobIds \ {j}
               ELSE ui.selectedJobIds \cup {j})

HandleSelectVisibleJobs ==
    LET visible == ActionableQueueJobs(ui)
    IN  /\ "selectVisible" \in BoardOffers(ui)
        /\ Selects(IF visible \subseteq ui.selectedJobIds THEN ui.selectedJobIds \ visible
                   ELSE ui.selectedJobIds \cup visible)

HandleWorkerDryRun ==
    /\ RegisteredChannel(ui) # None /\ "dryRun" \in WorkerDockOffers(ui)
    /\ Begin("dryRun", "call", {}, ui)

\* Mutant: the dialog can be opened again while a pass runs.
OpenConfirmAnyTime ==
    /\ RegisteredChannel(ui) # None
    /\ ui' = [ui EXCEPT !.liveDownloadStatus = "idle", !.liveDownloadConfirmOpen = TRUE]
    /\ UNCHANGED <<loads, handlers, jobStatus, failedLoads, crossed, kept, left>>

HandleOpenLiveDownloadConfirm ==
    /\ RegisteredChannel(ui) # None /\ "live" \in WorkerDockOffers(ui)
    /\ ui' = [ui EXCEPT !.liveDownloadStatus = "idle", !.liveDownloadConfirmOpen = TRUE]
    /\ UNCHANGED <<loads, handlers, jobStatus, failedLoads, crossed, kept, left>>

CloseLiveDownloadConfirm ==
    /\ "close" \in LiveDialogOffers(ui)
    /\ ui' = [ui EXCEPT !.liveDownloadConfirmOpen = FALSE]
    /\ UNCHANGED <<loads, handlers, jobStatus, failedLoads, crossed, kept, left>>

HandleRunLiveDownloadPass ==
    /\ RegisteredChannel(ui) # None /\ "run" \in LiveDialogOffers(ui)
    /\ Begin("live", "candidates", {},
             [ui EXCEPT !.liveDownloadStatus = "running", !.workflowStatus = "downloading"])

RunChannelProbe ==
    /\ "probe" \in RegistrationOffers(ui)
    /\ Begin("probe", "call", {}, [ui EXCEPT !.registration = None, !.probe = None,
                                            !.registrationStatus = "probing"])

HandleCommit ==
    /\ "commit" \in RegistrationOffers(ui)
    /\ Begin("commit", "call", {}, [ui EXCEPT !.registrationStatus = "committing"])

\* The detail of an event opens the event's channel and loads all of it, but leaves a
\* probe or a registration in place: the page may go on naming the channel of that.
HandleOpenEventDetailChannelTarget(c) ==
    /\ left.calls > 0 /\ "target" \in left.ops /\ FreeSlots(handlers) # {}
    /\ left' = [left EXCEPT !.calls = @ - 1]
    /\ handlers' = handlers \cup {[slot |-> FreeSlot(handlers), op |-> "target", at |-> "state",
                                   ids |-> {}, channel |-> c]}
    /\ Render([ui EXCEPT !.activeNavId = "channels", !.selectedChannelId = c,
                         !.workflowStatus = "idle"], handlers', loads)
    /\ UNCHANGED jobStatus

HandleSeedDemoWorkspace ==
    /\ ~ \E h \in handlers : h.op = "seed"
    /\ Begin("seed", "demo", {}, [ui EXCEPT !.workflowStatus = "bulk"])

\* Disabled while it runs, but a seeding takes the mark for that back.
HandleClearDemoWorkspace ==
    Begin("clear", "demo", {}, [ui EXCEPT !.workflowStatus = "bulk"])

-----------------------------------------------------------------------------
(* Refreshes the page starts itself *)

\* An event of the channel, or of no channel, arms one timer with the channel
\* of that moment; a later event takes its place, whatever it is about.
EventArrives(type) ==
    /\ RegisteredChannel(ui) # None
    /\ BeginIn({h \in handlers : h.at # "timer"}, type, "timer", {}, ui)

\* What the timer loads depends on the event and on the workspace of this moment.
RefreshChannelAfterEvent(h) ==
    /\ h.at = "timer"
    /\ CASE h.op = "started" -> GoesOn(h, "jobs")
         [] h.op = "finished" ->
              GoesOn(h, CASE ui.activeNavId = "channels" -> "state"
                          [] ui.activeNavId = "library" -> "librarySummary"
                          [] OTHER -> "summary")
         [] OTHER -> Ends(h)
    /\ UNCHANGED <<ui, loads, jobStatus, failedLoads, crossed, kept, left>>

\* The event stream is back: the selected channel is loaded again.
OnReconnect ==
    /\ RegisteredChannel(ui) # None
    /\ Begin("reconnect", "state", {}, ui)

-----------------------------------------------------------------------------
(* Answers to handlers, one action per await *)

\* What the backend does with a call on job rows.
AfterCall(h) ==
    LET becomes(from, to) ==
            [j \in Jobs |-> IF j \in h.ids /\ jobStatus[j] \in from THEN to ELSE jobStatus[j]]
    IN  CASE h.op \in {"retry", "retryFailed", "bulkQueue", "bulkRetry"} ->
                becomes({"failed", "cancelled"}, "launchable")
          [] h.op \in {"cancel", "bulkCancel"} -> becomes({"launchable"}, "cancelled")
          [] h.op = "stop" -> becomes({"launchable", "running"}, "cancelled")
          [] OTHER -> jobStatus

\* Job calls are followed by the list, a sync by the whole channel.
CallAnswered(h) ==
    /\ h.at = "call"
    /\ \/ h.op \in SingleCalls \cup BulkCalls /\ PassesOn(h, "jobs")
       \/ h.op = "retryFailed" /\ PassesOn(h, "all")
       \/ h.op = "sync" /\ PassesOn(h, "state")
       \/ h.op = "pause" /\ PassesOn(h, "plan")
       \/ h.op = "dryRun" /\ PassesOn(h, "runs")
    /\ jobStatus' = AfterCall(h)

\* The list after an event; the channels workspace asks for the plan as well.
StartedJobsAnswered(h) ==
    /\ h.at = "jobs" /\ h.op = "started"
    /\ Writes(h, ApplyDownloadJobs(ui, h.channel))
    /\ IF ui.activeNavId = "channels" THEN GoesOn(h, "plan") ELSE Ends(h)

\* The list after a call: the selection is cut to it, the preflight forgotten.
JobsAnswered(h) ==
    /\ h.at = "jobs" /\ h.op # "started"
    /\ Writes(h, [ApplyDownloadJobs(ui, h.channel) EXCEPT !.preflightPlan = None])
    /\ GoesOn(h, "rest")

RestAnswered(h) ==
    /\ h.at = "rest"
    /\ LET u == ShowQueueEffects(ui, h.channel)
       IN  Writes(h, IF h.op \in SingleCalls THEN u ELSE Idle(u))
    /\ Ends(h)

\* Retrying all failures reads list, dashboard, library and plan together.
RetryFailedAnswered(h) ==
    /\ h.at = "all"
    /\ Writes(h, [Idle(ShowQueueEffects(ApplyDownloadJobs(ui, h.channel), h.channel))
                     EXCEPT !.preflightPlan = None])
    /\ Ends(h)

SettingAnswered(h) ==
    /\ h.at = "call" /\ h.op \in {"interval", "policy"}
    /\ Writes(h, Fill(ui, IF h.op = "interval" THEN {"channelDetail"} ELSE {"channelPolicy"},
                      h.channel))
    /\ Ends(h)

PlanAnswered(h) ==
    /\ h.at = "plan"
    /\ Writes(h, Fill(ui, IF h.op = "pause" THEN {"channelPolicy", "workerPlan"}
                          ELSE {"workerPlan"}, h.channel))
    /\ Ends(h)

RunsAnswered(h) ==
    /\ h.at = "runs"
    /\ Writes(h, Fill(ui, {"workerPlan", "workerRuns"}, h.channel))
    /\ Ends(h)

\* The preflight: the plan's ready jobs become the selection.
PreflightAnswered(h) ==
    /\ h.at = "call" /\ h.op = "preflight"
    /\ \E ready \in SUBSET {j \in DOMAIN JobsSeen(h.channel) : jobStatus[j] = "launchable"} :
          Writes(h, [ApplyDownloadJobs(ui, h.channel) EXCEPT
                        !.preflightPlan = ready, !.selectedJobIds = ready])
    /\ GoesOn(h, "rest")

\* A live pass: new candidates, all queued, one bounded pass, then the channel.
LiveCandidatesAnswered(h) ==
    /\ h.at = "candidates"
    /\ \E found \in SUBSET {j \in JobsOf(h.channel) : jobStatus[j] = None} :
          jobStatus' = [j \in Jobs |-> IF j \in found THEN "launchable" ELSE jobStatus[j]]
    /\ PassesOn(h, "run")

LiveRunAnswered(h) ==
    /\ h.at = "run"
    /\ \E done, failed \in SUBSET {j \in JobsOf(h.channel) : jobStatus[j] = "launchable"} :
          /\ done \cap failed = {}
          /\ jobStatus' = [j \in Jobs |-> IF j \in done THEN "completed"
                                          ELSE IF j \in failed THEN "failed"
                                          ELSE jobStatus[j]]
    /\ PassesOn(h, "state")

\* The end of a live pass, with or without an error, closes the dialog.
LiveEnds(u) == [u EXCEPT !.liveDownloadStatus = "idle", !.liveDownloadConfirmOpen = FALSE]

StateAnswered(h) ==
    /\ h.at = "state"
    /\ LET u == LoadChannelState(ui, h.channel)
       IN  Writes(h, CASE h.op = "live" -> LiveEnds(Idle(u))
                       [] h.op = "sync" -> Idle(u)
                       [] h.op = "commit" -> [u EXCEPT !.registration = None, !.probe = None,
                                                       !.registrationStatus = "idle"]
                       [] h.op = "seed" -> [Idle(u) EXCEPT !.activeNavId = "channels"]
                       [] OTHER -> u)
    /\ Ends(h)

SummaryAnswered(h) ==
    /\ \/ /\ h.at = "summary"
          /\ Writes(h, RefreshChannelSummary(ui, h.channel))
       \/ /\ h.at = "librarySummary"
          /\ Writes(h, Fill(RefreshChannelSummary(ui, h.channel),
                            {"channelVideos", "library"}, h.channel))
    /\ Ends(h)

\* A probe answers with the channel's id when it is registered already.
ProbeAnswered(h) ==
    /\ h.op = "probe"
    /\ \E c \in Channels \cup {Unregistered} :
          Writes(h, [ui EXCEPT !.probe = c, !.registrationStatus = "idle"])
    /\ Ends(h)

\* A registration selects its channel, then loads it.
CommitAnswered(h) ==
    /\ h.op = "commit" /\ h.at = "call"
    /\ \E c \in Channels :
          /\ Writes(h, [ui EXCEPT !.registration = c, !.probe = c, !.selectedChannelId = c])
          /\ handlers' = (handlers \ {h}) \cup {[h EXCEPT !.at = "state", !.channel = c]}

\* The backend has seeded a demo channel, or found one, or will not; or it has cleared
\* it away, or found none.  That the channel itself comes and goes is left out.
DemoAnswered(h) ==
    /\ h.at = "demo"
    /\ \/ /\ \E c \in Channels, s \in JobStatuses \cup {None} :
             /\ handlers' = (handlers \ {h}) \cup {[h EXCEPT !.at = "workspace", !.channel = c]}
             /\ jobStatus' = [j \in Jobs |->
                    IF j \notin JobsOf(c) THEN jobStatus[j]
                    ELSE IF h.op = "seed" /\ jobStatus[j] = None THEN s
                    ELSE IF h.op = "clear" /\ s = None THEN None
                    ELSE jobStatus[j]]
          /\ UNCHANGED <<ui, loads, failedLoads, crossed, kept, left>>
       \/ /\ h.op = "seed"
          /\ Writes(h, Idle(ui))
          /\ Ends(h)

WorkspaceAnswered(h) ==
    /\ h.at = "workspace"
    /\ Writes(h, [ui EXCEPT !.dashboard = TRUE])
    /\ GoesOn(h, "queue")

\* A seeded channel is selected, then loaded.
SeededAnswered(h) ==
    /\ h.at = "queue" /\ h.op = "seed"
    /\ Writes(h, [ui EXCEPT !.selectedChannelId = h.channel, !.registration = None, !.probe = None])
    /\ GoesOn(h, "state")

\* After a clearing no channel is selected and nothing of one is shown, until the first
\* of the new dashboard is selected; of the demo, or of another channel.
EmptyWorkspace(u) ==
    [Fill(u, PanelNames, None) EXCEPT
        !.selectedChannelId = None, !.registration = None, !.probe = None,
        !.downloadJobs = NoJobs, !.preflightPlan = None, !.selectedJobIds = {},
        !.selectionSeedKey = None, !.activeNavId = "queue", !.workflowStatus = "idle"]

ClearedAnswered(h) ==
    /\ h.at = "queue" /\ h.op = "clear"
    /\ \/ Writes(h, Idle(ui))
       \/ /\ RenderFrom(Nowhere(EmptyWorkspace(ui)), EmptyWorkspace(ui), handlers \ {h}, loads)
          /\ UNCHANGED <<jobStatus, left>>
    /\ Ends(h)

\* An error ends a handler; refreshes swallow it, operations show it.
HandlerFailed(h) ==
    /\ h.at # "timer" /\ Fails
    /\ ui' = CASE h.op \in {"started", "finished", "reconnect", "target"} -> ui
               [] h.op \in {"probe", "commit"} -> [ui EXCEPT !.registrationStatus = "idle"]
               [] h.op = "live" -> LiveEnds(Idle(ui))
               [] OTHER -> Idle(ui)
    /\ Ends(h)
    /\ UNCHANGED <<loads, jobStatus, failedLoads, crossed, kept>>

\* The worker of the backend takes up a job.
WorkerStarts(j) ==
    /\ jobStatus[j] = "launchable"
    /\ jobStatus' = [jobStatus EXCEPT ![j] = "running"]
    /\ UNCHANGED <<ui, loads, handlers, failedLoads, crossed, kept, left>>

-----------------------------------------------------------------------------
Init ==
    /\ ui = [selectedChannelId |-> None, registration |-> None, probe |-> None,
             registrationStatus |-> "idle", activeNavId |-> "channels",
             panels |-> [p \in PanelNames |-> None],
             downloadJobs |-> NoJobs, selectedJobIds |-> {}, selectionSeedKey |-> None,
             preflightPlan |-> None, workflowStatus |-> "idle",
             liveDownloadStatus |-> "idle", liveDownloadConfirmOpen |-> FALSE,
             dashboard |-> FALSE]
    /\ loads = {} /\ handlers = {}
    /\ jobStatus \in FirstTables
    /\ failedLoads = {} /\ crossed = FALSE /\ kept = FALSE
    /\ left \in Budgets

Operator ==
    \/ \E c \in Channels : HandleSelectChannelContext(c)
    \/ \E nav \in Workspaces : HandleSelectNav(nav)
    \/ \E nav \in Workspaces, c \in Channels \cup {None} : ApplyRouteFromHash(nav, c)
    \/ OpenChannelRegistration \/ CloseChannelRegistration
    \/ \E c \in Channels : HandleFocusMetadataDueChannel(c) \/ HandleOpenEventDetailChannelTarget(c)
    \/ HandleSeedDemoWorkspace \/ HandleClearDemoWorkspace
    \/ HandleManualSync \/ HandleUpdateSyncInterval \/ HandlePolicyQuality
    \/ HandleToggleAutoDownload \/ HandleToggleWorkerPause
    \/ \E j \in Jobs : HandleRetryJob(j) \/ HandleCancelJob(j) \/ HandleStopJob(j)
                       \/ HandleToggleJobSelection(j)
    \/ HandleRetryFailedDownloads \/ HandleRunPreflight
    \/ \E op \in BulkCalls : HandleBulkQueueAction(op)
    \/ HandleSelectVisibleJobs \/ HandleWorkerDryRun
    \/ HandleOpenLiveDownloadConfirm \/ CloseLiveDownloadConfirm \/ HandleRunLiveDownloadPass
    \/ RunChannelProbe \/ HandleCommit

Answered(h) ==
    \/ CallAnswered(h) \/ StartedJobsAnswered(h) \/ JobsAnswered(h) \/ RestAnswered(h)
    \/ RetryFailedAnswered(h) \/ SettingAnswered(h) \/ PlanAnswered(h) \/ RunsAnswered(h)
    \/ PreflightAnswered(h) \/ LiveCandidatesAnswered(h) \/ LiveRunAnswered(h)
    \/ StateAnswered(h) \/ SummaryAnswered(h) \/ ProbeAnswered(h) \/ CommitAnswered(h)
    \/ DemoAnswered(h) \/ WorkspaceAnswered(h) \/ SeededAnswered(h) \/ ClearedAnswered(h)

Next ==
    \/ Operator
    \/ DashboardAnswered
    \/ \E l \in loads : LoadAnswered(l) \/ LoadFailed(l)
    \/ \E type \in EventTypes : EventArrives(type)
    \/ OnReconnect
    \/ \E h \in handlers : RefreshChannelAfterEvent(h) \/ Answered(h) \/ HandlerFailed(h)
    \/ \E j \in Jobs : WorkerStarts(j)

Spec == Init /\ [][Next]_vars

-----------------------------------------------------------------------------
(* Properties *)

\* Unless a handler of another channel was under way when the channel was selected, or
\* the detail of an event opened another one over a standing probe, the panels that a
\* switch empties, and the job list, never show a channel other than the selected one:
\* loads of the old channel that answer late are dropped, and what was shown is gone at
\* once.  The selection, which a switch seeds with the old channel's jobs, is the new
\* channel's as soon as its list has a launchable job; unless the channel was selected
\* with the seed of an earlier visit: a list with the same launchable jobs then seeds
\* nothing, and jobs of another channel stay selected.
NeverShowsAnotherChannel ==
    ~crossed =>
        /\ \A p \in {"channelDetail", "channelPolicy", "channelVideos", "library"} :
              ui.panels[p] \in {None, RegisteredChannel(ui)}
        /\ \A j \in DOMAIN ui.downloadJobs : ChannelOf[j] = RegisteredChannel(ui)
        /\ LaunchableJobs(ui) # {} /\ ~kept => ui.selectedJobIds \subseteq JobsOf(RegisteredChannel(ui))

\* Once the loads of the channels workspace are in, every panel shows the
\* selected channel, the three that a switch does not empty included.
SettledWorkspace ==
    (/\ ~crossed /\ failedLoads = {}
     /\ ui.activeNavId = "channels" /\ RegisteredChannel(ui) # None
     /\ \A l \in loads : l.cancelled)
    => \A p \in PanelNames : ui.panels[p] = RegisteredChannel(ui)

\* However often the dialog is opened and closed, the channel switched and an
\* earlier pass failed, the page never has two live passes under way.
OneLivePass ==
    \A g, h \in handlers : g.op = "live" /\ h.op = "live" => g = h

=============================================================================
