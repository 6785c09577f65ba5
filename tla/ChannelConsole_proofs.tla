----------------------- MODULE ChannelConsole_proofs -----------------------
(***************************************************************************)
(* The channel page, for every number of channels, jobs and handlers.      *)
(*                                                                        *)
(* One live pass: while a handler of a live pass is in flight the status   *)
(* hook says so, and nothing else than the end of that handler takes the   *)
(* status back.                                                            *)
(*                                                                        *)
(* The selected channel's content: ConsoleInv says what a panel may show,  *)
(* whose jobs a load, a handler or a selection may carry, and which load   *)
(* is on its way for a panel that is not filled, in every state a render   *)
(* leaves.                                                                 *)
(***************************************************************************)
EXTENDS ChannelConsole, TLAPS

HasStatus(u) == "liveDownloadStatus" \in DOMAIN u

\* v is u but for hooks that have nothing to do with the live pass.
SameStatus(u, v) == HasStatus(v) /\ v.liveDownloadStatus = u.liveDownloadStatus

Named(hs) == \A h \in hs : "op" \in DOMAIN h

LiveInv ==
    /\ HasStatus(ui) /\ Named(handlers)
    /\ \A h \in handlers : h.op = "live" => ui.liveDownloadStatus = "running"
    /\ OneLivePass

-----------------------------------------------------------------------------
(* The helpers leave the status alone.                                     *)

LEMMA FillSame ==
    ASSUME NEW u, HasStatus(u), NEW names, NEW c
    PROVE  SameStatus(u, Fill(u, names, c))
  BY DEF HasStatus, SameStatus, Fill

LEMMA IdleSame ==
    ASSUME NEW u, HasStatus(u)
    PROVE  SameStatus(u, Idle(u))
  BY DEF HasStatus, SameStatus, Idle

LEMMA JobsSame ==
    ASSUME NEW u, HasStatus(u), NEW c
    PROVE  SameStatus(u, ApplyDownloadJobs(u, c))
  BY DEF HasStatus, SameStatus, ApplyDownloadJobs

LEMMA StateSame ==
    ASSUME NEW u, HasStatus(u), NEW c
    PROVE  SameStatus(u, LoadChannelState(u, c))
  <1> DEFINE v == ApplyDownloadJobs(Fill(u, PanelNames, c), c)
  <1>1. SameStatus(u, v)
    BY FillSame, JobsSame DEF SameStatus
  <1> HIDE DEF v
  <1>2. SameStatus(u, [v EXCEPT !.selectedJobIds = LaunchableJobs(v),
                                !.preflightPlan = None, !.dashboard = TRUE])
    BY <1>1 DEF SameStatus, HasStatus
  <1> QED BY <1>2 DEF LoadChannelState, v

LEMMA SummarySame ==
    ASSUME NEW u, HasStatus(u), NEW c
    PROVE  SameStatus(u, RefreshChannelSummary(u, c)) /\ SameStatus(u, LoadSummary(u, c))
  <1> DEFINE v == Fill(u, {"channelDetail", "channelPolicy"}, c)
  <1>1. SameStatus(u, v)
    BY FillSame
  <1> HIDE DEF v
  <1>2. SameStatus(u, ApplyDownloadJobs(v, c)) /\ SameStatus(u, [v EXCEPT !.downloadJobs = JobsSeen(c)])
    BY <1>1, JobsSame DEF SameStatus, HasStatus
  <1> QED BY <1>2 DEF RefreshChannelSummary, LoadSummary, v

LEMMA EffectsSame ==
    ASSUME NEW u, HasStatus(u), NEW c
    PROVE  SameStatus(u, ShowQueueEffects(u, c))
  <1> DEFINE v == Fill(u, {"library", "workerPlan"}, c)
  <1>1. SameStatus(u, v)
    BY FillSame
  <1> HIDE DEF v
  <1>2. SameStatus(u, [v EXCEPT !.dashboard = TRUE])
    BY <1>1 DEF SameStatus, HasStatus
  <1> QED BY <1>2 DEF ShowQueueEffects, v

\* The effects of a render: seeding, the first channel, emptied panels.
LEMMA RenderFromSame ==
    ASSUME NEW o, NEW u, HasStatus(u), NEW waiting, NEW pending, RenderFrom(o, u, waiting, pending)
    PROVE  SameStatus(u, ui')
  <1>1. PICK v \in SelectFirst(u) :
            ui' = IF Moved(o, v) THEN ClearPanels(SeedSelection(v)) ELSE SeedSelection(v)
    BY DEF RenderFrom
  <1>2. SameStatus(u, v)
    BY <1>1 DEF SelectFirst, SameStatus, HasStatus
  <1> DEFINE s == SeedSelection(v)
  <1>3. SameStatus(u, s)
    BY <1>2 DEF SeedSelection, SameStatus, HasStatus
  <1> HIDE DEF s
  <1>4. SameStatus(u, ClearPanels(s))
    <2>1. SameStatus(u, Fill(s, PanelNames, None)) /\ SameStatus(u, Fill(s, ClearedOnSwitch, None))
      BY <1>3, FillSame DEF SameStatus
    <2> DEFINE all == Fill(s, PanelNames, None)
               some == Fill(s, ClearedOnSwitch, None)
    <2> HIDE DEF all, some
    <2>2. /\ SameStatus(u, [all EXCEPT !.downloadJobs = NoJobs, !.preflightPlan = None,
                                       !.selectedJobIds = {}, !.selectionSeedKey = None])
          /\ SameStatus(u, [some EXCEPT !.downloadJobs = NoJobs])
      BY <2>1 DEF SameStatus, HasStatus, all, some
    <2> QED BY <2>2 DEF ClearPanels, all, some
  <1> QED BY <1>1, <1>3, <1>4 DEF s

LEMMA RenderSame ==
    ASSUME NEW u, HasStatus(u), NEW waiting, NEW pending, Render(u, waiting, pending)
    PROVE  SameStatus(u, ui')
  BY RenderFromSame DEF Render

-----------------------------------------------------------------------------
(* The handlers in flight.                                                 *)

LEMMA SameTwice ==
    ASSUME NEW u, NEW v, NEW w, SameStatus(u, v), SameStatus(v, w)
    PROVE  SameStatus(u, w)
  BY DEF SameStatus

LEMMA StatusHere == LiveInv => HasStatus(ui) /\ SameStatus(ui, ui)
  BY DEF LiveInv, SameStatus

\* Some end, one may go on under its name, and no live pass is begun.
Continue(hs) ==
    \/ hs \subseteq handlers
    \/ \E h \in handlers : \E k : /\ hs = (handlers \ {h}) \cup {k}
                                  /\ "op" \in DOMAIN k /\ k.op = h.op
    \/ \E rest \in SUBSET handlers : \E k : /\ hs = rest \cup {k}
                                            /\ "op" \in DOMAIN k /\ k.op # "live"

LEMMA Steady ==
    ASSUME LiveInv, SameStatus(ui, ui'), Continue(handlers')
    PROVE  LiveInv'
  <1>1. CASE handlers' \subseteq handlers
    BY <1>1 DEF LiveInv, SameStatus, Named, OneLivePass
  <1>2. CASE \E h \in handlers : \E k : /\ handlers' = (handlers \ {h}) \cup {k}
                                        /\ "op" \in DOMAIN k /\ k.op = h.op
    BY <1>2 DEF LiveInv, SameStatus, Named, OneLivePass
  <1>3. CASE \E rest \in SUBSET handlers : \E k : /\ handlers' = rest \cup {k}
                                                  /\ "op" \in DOMAIN k /\ k.op # "live"
    BY <1>3 DEF LiveInv, SameStatus, Named, OneLivePass
  <1> QED BY <1>1, <1>2, <1>3 DEF Continue

LEMMA GoesOnContinues ==
    ASSUME LiveInv, NEW h \in handlers, NEW at, GoesOn(h, at)
    PROVE  Continue(handlers')
  <1> DEFINE k == [h EXCEPT !.at = at, !.ids = {}]
  <1>1. "op" \in DOMAIN k /\ k.op = h.op
    BY DEF LiveInv, Named
  <1>2. handlers' = (handlers \ {h}) \cup {k}
    BY DEF GoesOn
  <1> HIDE DEF k
  <1> QED BY <1>1, <1>2 DEF Continue

LEMMA EndsContinues ==
    ASSUME NEW h, Ends(h)
    PROVE  Continue(handlers')
  BY DEF Ends, Continue

\* A handler that starts, or a timer in the place of another.
LEMMA BeginSteady ==
    ASSUME LiveInv, NEW hs \in SUBSET handlers, NEW op, op # "live", NEW at, NEW ids, NEW u,
           SameStatus(ui, u), BeginIn(hs, op, at, ids, u)
    PROVE  LiveInv'
  <1>1. SameStatus(ui, ui')
    <2>1. HasStatus(u) /\ Render(u, hs, loads)
      BY DEF BeginIn, SameStatus
    <2> QED BY <2>1, RenderSame, SameTwice
  <1>2. Continue(handlers')
    <2> DEFINE k == [slot |-> FreeSlot(hs), op |-> op, at |-> at, ids |-> ids,
                     channel |-> RegisteredChannel(ui)]
    <2>1. "op" \in DOMAIN k /\ k.op # "live"
      OBVIOUS
    <2>2. handlers' = hs \cup {k}
      BY DEF BeginIn
    <2> HIDE DEF k
    <2> QED BY <2>1, <2>2 DEF Continue
  <1> QED BY <1>1, <1>2, Steady

LEMMA WritesSame ==
    ASSUME LiveInv, NEW h, NEW u, SameStatus(ui, u), Writes(h, u)
    PROVE  SameStatus(ui, ui')
  <1>1. HasStatus(u) /\ Render(u, handlers \ {h}, loads)
    BY DEF Writes, SameStatus
  <1> QED BY <1>1, RenderSame, SameTwice

-----------------------------------------------------------------------------
(* The live pass itself.                                                   *)

LEMMA LiveBegins ==
    ASSUME LiveInv, HandleRunLiveDownloadPass
    PROVE  LiveInv'
  <1> DEFINE u == [ui EXCEPT !.liveDownloadStatus = "running", !.workflowStatus = "downloading"]
             k == [slot |-> FreeSlot(handlers), op |-> "live", at |-> "candidates", ids |-> {},
                   channel |-> RegisteredChannel(ui)]
  <1>1. ui.liveDownloadStatus # "running"
    BY DEF HandleRunLiveDownloadPass, LiveDialogOffers, Offered, LiveDownloadBlocked
  <1>2. \A h \in handlers : h.op # "live"
    BY <1>1 DEF LiveInv
  <1>3. Render(u, handlers, loads) /\ handlers' = handlers \cup {k}
    BY DEF HandleRunLiveDownloadPass, Begin, BeginIn
  <1>4. HasStatus(u) /\ u.liveDownloadStatus = "running"
    BY DEF LiveInv, HasStatus
  <1>5. HasStatus(ui') /\ ui'.liveDownloadStatus = "running"
    <2> HIDE DEF u
    <2> QED BY <1>3, <1>4, RenderSame DEF SameStatus
  <1>6. "op" \in DOMAIN k
    OBVIOUS
  <1> HIDE DEF k
  <1> QED BY <1>2, <1>3, <1>5, <1>6 DEF LiveInv, Named, OneLivePass

\* However a live pass ends, none is under way afterwards.
LEMMA LiveEnded ==
    ASSUME LiveInv, NEW h \in handlers, h.op = "live", HasStatus(ui'), Ends(h)
    PROVE  LiveInv'
  <1>1. \A g \in handlers' : g \in handlers /\ g.op # "live"
    BY DEF LiveInv, OneLivePass, Ends
  <1> QED BY <1>1 DEF LiveInv, Named, OneLivePass

-----------------------------------------------------------------------------
(* The steps.                                                              *)

\* A step of the page alone.
LEMMA PageSteady ==
    ASSUME LiveInv, UNCHANGED handlers, SameStatus(ui, ui')
    PROVE  LiveInv'
  BY Steady DEF Continue

LEMMA MovesSteady ==
    ASSUME LiveInv, NEW u, SameStatus(ui, u), Moves(u)
    PROVE  LiveInv'
  <1>1. HasStatus(u) /\ Render(u, handlers, loads) /\ UNCHANGED handlers
    BY DEF Moves, SameStatus
  <1> QED BY <1>1, RenderSame, SameTwice, PageSteady

LEMMA MovingSteady ==
    ASSUME LiveInv,
           \/ \E c \in Channels : HandleSelectChannelContext(c)
           \/ \E nav \in Workspaces : HandleSelectNav(nav)
           \/ \E nav \in Workspaces, c \in Channels \cup {None} : ApplyRouteFromHash(nav, c)
           \/ \E c \in Channels : HandleFocusMetadataDueChannel(c)
           \/ OpenChannelRegistration \/ CloseChannelRegistration
    PROVE  LiveInv'
  <1>1. \A c, nav :
          /\ SameStatus(ui, [ui EXCEPT !.registration = None, !.probe = None,
                                       !.selectedChannelId = c, !.workflowStatus = "idle"])
          /\ SameStatus(ui, [ui EXCEPT !.activeNavId = nav])
          /\ SameStatus(ui, [ui EXCEPT !.activeNavId = nav,
                                       !.selectedChannelId = IF c = None THEN @ ELSE c])
          /\ SameStatus(ui, [ui EXCEPT !.registration = None, !.probe = None,
                                       !.registrationStatus = "idle", !.activeNavId = nav])
          /\ SameStatus(ui, [ui EXCEPT !.registration = None, !.probe = None,
                                       !.registrationStatus = "idle"])
    BY DEF LiveInv, HasStatus, SameStatus
  <1> QED
    BY <1>1, MovesSteady DEF HandleSelectChannelContext, HandleSelectNav, ApplyRouteFromHash,
       HandleFocusMetadataDueChannel, OpenChannelRegistration, CloseChannelRegistration

\* The channel of an event is opened.
LEMMA TargetSteady ==
    ASSUME LiveInv, NEW c, HandleOpenEventDetailChannelTarget(c)
    PROVE  LiveInv'
  <1> DEFINE u == [ui EXCEPT !.activeNavId = "channels", !.selectedChannelId = c,
                             !.workflowStatus = "idle"]
             k == [slot |-> FreeSlot(handlers), op |-> "target", at |-> "state", ids |-> {},
                   channel |-> c]
  <1>1. SameStatus(ui, u)
    BY DEF LiveInv, HasStatus, SameStatus
  <1>2. Render(u, handlers', loads) /\ handlers' = handlers \cup {k}
    BY DEF HandleOpenEventDetailChannelTarget
  <1>3. "op" \in DOMAIN k /\ k.op # "live"
    OBVIOUS
  <1> HIDE DEF u, k
  <1>4. SameStatus(ui, ui')
    BY <1>1, <1>2, RenderSame, SameTwice DEF SameStatus
  <1>5. Continue(handlers')
    BY <1>2, <1>3 DEF Continue
  <1> QED BY <1>4, <1>5, Steady

\* The handlers that write no more than a status of their own when they begin.
LEMMA BegunSteady ==
    ASSUME LiveInv,
           \/ HandleManualSync \/ HandleUpdateSyncInterval \/ HandlePolicyQuality
           \/ HandleToggleAutoDownload \/ HandleToggleWorkerPause
           \/ \E j \in Jobs : HandleRetryJob(j) \/ HandleCancelJob(j) \/ HandleStopJob(j)
           \/ HandleRetryFailedDownloads \/ HandleRunPreflight
           \/ \E op \in BulkCalls : HandleBulkQueueAction(op)
           \/ HandleWorkerDryRun \/ RunChannelProbe \/ HandleCommit
           \/ HandleSeedDemoWorkspace \/ HandleClearDemoWorkspace
           \/ \E type \in EventTypes : EventArrives(type)
           \/ OnReconnect
    PROVE  LiveInv'
  <1>1. /\ SameStatus(ui, ui)
        /\ \A s : SameStatus(ui, [ui EXCEPT !.workflowStatus = s])
        /\ SameStatus(ui, [ui EXCEPT !.registration = None, !.probe = None,
                                     !.registrationStatus = "probing"])
        /\ SameStatus(ui, [ui EXCEPT !.registrationStatus = "committing"])
    BY DEF LiveInv, HasStatus, SameStatus
  <1>2. handlers \in SUBSET handlers /\ {h \in handlers : h.at # "timer"} \in SUBSET handlers
    OBVIOUS
  <1>3. CASE HandleManualSync \/ HandleUpdateSyncInterval \/ HandlePolicyQuality
             \/ HandleToggleAutoDownload \/ HandleToggleWorkerPause
    BY <1>1, <1>2, <1>3, BeginSteady DEF HandleManualSync, HandleUpdateSyncInterval,
       HandlePolicyQuality, HandleToggleAutoDownload, HandleToggleWorkerPause, Begin
  <1>4. CASE \E j \in Jobs : HandleRetryJob(j) \/ HandleCancelJob(j) \/ HandleStopJob(j)
    BY <1>1, <1>2, <1>4, BeginSteady DEF HandleRetryJob, HandleCancelJob, HandleStopJob, Begin
  <1>5. CASE HandleRetryFailedDownloads \/ HandleRunPreflight \/ HandleWorkerDryRun
    BY <1>1, <1>2, <1>5, BeginSteady DEF HandleRetryFailedDownloads, HandleRunPreflight,
       HandleWorkerDryRun, Begin
  <1>6. CASE \E op \in BulkCalls : HandleBulkQueueAction(op)
    <2>1. \A op \in BulkCalls : op # "live"
      BY DEF BulkCalls
    <2> QED BY <1>1, <1>2, <1>6, <2>1, BeginSteady DEF HandleBulkQueueAction, Begin
  <1>7. CASE RunChannelProbe \/ HandleCommit \/ OnReconnect
    BY <1>1, <1>2, <1>7, BeginSteady DEF RunChannelProbe, HandleCommit, OnReconnect, Begin
  <1>8. CASE \E type \in EventTypes : EventArrives(type)
    <2>1. \A type \in EventTypes : type # "live"
      BY DEF EventTypes
    <2> QED BY <1>1, <1>2, <1>8, <2>1, BeginSteady DEF EventArrives
  <1>9. CASE HandleSeedDemoWorkspace \/ HandleClearDemoWorkspace
    BY <1>1, <1>2, <1>9, BeginSteady DEF HandleSeedDemoWorkspace, HandleClearDemoWorkspace, Begin
  <1> QED BY <1>3, <1>4, <1>5, <1>6, <1>7, <1>8, <1>9

\* The dialog opens only while no pass runs.
LEMMA DialogSteady ==
    ASSUME LiveInv,
           HandleOpenLiveDownloadConfirm \/ CloseLiveDownloadConfirm \/ HandleSelectVisibleJobs
               \/ \E j \in Jobs : HandleToggleJobSelection(j)
    PROVE  LiveInv'
  <1>1. CASE HandleOpenLiveDownloadConfirm
    <2>1. ui.liveDownloadStatus # "running" /\ UNCHANGED handlers
      BY <1>1 DEF HandleOpenLiveDownloadConfirm, WorkerDockOffers, Offered
    <2>2. HasStatus(ui')
      BY <1>1 DEF HandleOpenLiveDownloadConfirm, LiveInv, HasStatus
    <2> QED BY <2>1, <2>2 DEF LiveInv, Named, OneLivePass
  <1>2. CASE CloseLiveDownloadConfirm \/ HandleSelectVisibleJobs
             \/ \E j \in Jobs : HandleToggleJobSelection(j)
    <2>1. /\ SameStatus(ui, [ui EXCEPT !.liveDownloadConfirmOpen = FALSE])
          /\ \A ids : SameStatus(ui, [ui EXCEPT !.selectedJobIds = ids])
      BY DEF LiveInv, HasStatus, SameStatus
    <2> QED
      BY <1>2, <2>1, PageSteady DEF CloseLiveDownloadConfirm, HandleSelectVisibleJobs,
         HandleToggleJobSelection, Selects
  <1> QED BY <1>1, <1>2

LEMMA LoadsSteady ==
    ASSUME LiveInv, DashboardAnswered \/ \E l \in loads : LoadAnswered(l) \/ LoadFailed(l)
    PROVE  LiveInv'
  <1>1. HasStatus(ui) /\ SameStatus(ui, ui)
    BY StatusHere
  <1>2. CASE DashboardAnswered
    <2> DEFINE u == [ui EXCEPT !.dashboard = ~@]
    <2>1. SameStatus(ui, u)
      BY <1>1 DEF HasStatus, SameStatus
    <2>2. Render(u, handlers, loads) /\ UNCHANGED handlers
      BY <1>2 DEF DashboardAnswered
    <2> HIDE DEF u
    <2> QED BY <2>1, <2>2, RenderSame, SameTwice, PageSteady DEF SameStatus
  <1>3. CASE \E l \in loads : LoadAnswered(l)
    <2>1. PICK l \in loads : LoadAnswered(l)
      BY <1>3
    <2> DEFINE u == IF l.cancelled THEN ui
                    ELSE IF l.kind = "summary" THEN LoadSummary(ui, l.channel)
                    ELSE LoadDetailWorkspace(ui, l.kind, l.channel)
    <2>2. Render(u, handlers, loads \ {l}) /\ UNCHANGED handlers
      BY <2>1 DEF LoadAnswered
    <2>3. SameStatus(ui, LoadSummary(ui, l.channel))
          /\ SameStatus(ui, LoadDetailWorkspace(ui, l.kind, l.channel))
      BY <1>1, SummarySame, FillSame DEF LoadDetailWorkspace
    <2>4. u = ui \/ u = LoadSummary(ui, l.channel)
            \/ u = LoadDetailWorkspace(ui, l.kind, l.channel)
      BY DEF LoadAnswered
    <2> HIDE DEF u
    <2>5. SameStatus(ui, u)
      BY <1>1, <2>3, <2>4
    <2> QED BY <2>2, <2>5, RenderSame, SameTwice, PageSteady DEF SameStatus
  <1>4. CASE \E l \in loads : LoadFailed(l)
    BY <1>1, <1>4, IdleSame, PageSteady DEF LoadFailed
  <1> QED BY <1>2, <1>3, <1>4

\* An answer that writes u and lets its handler go on or end.
LEMMA AnswerSteady ==
    ASSUME LiveInv, NEW h \in handlers, NEW u, SameStatus(ui, u), Writes(h, u),
           (\E at : GoesOn(h, at)) \/ Ends(h)
    PROVE  LiveInv'
  BY WritesSame, GoesOnContinues, EndsContinues, Steady

LEMMA PassesSteady ==
    ASSUME LiveInv, NEW h \in handlers, (\E at : PassesOn(h, at)) \/ RefreshChannelAfterEvent(h)
    PROVE  LiveInv'
  <1>1. SameStatus(ui, ui')
    BY StatusHere DEF PassesOn, RefreshChannelAfterEvent, SameStatus, HasStatus
  <1>2. Continue(handlers')
    <2>1. CASE \E at : PassesOn(h, at)
      BY <2>1, GoesOnContinues DEF PassesOn
    <2>2. CASE RefreshChannelAfterEvent(h)
      <3>1. (\E at : GoesOn(h, at)) \/ Ends(h)
        BY <2>2 DEF RefreshChannelAfterEvent
      <3> QED BY <3>1, GoesOnContinues, EndsContinues
    <2> QED BY <2>1, <2>2
  <1> QED BY <1>1, <1>2, Steady

LEMMA QueueAnswersSteady ==
    ASSUME LiveInv, NEW h \in handlers,
           \/ CallAnswered(h) \/ StartedJobsAnswered(h) \/ JobsAnswered(h) \/ RestAnswered(h)
           \/ RetryFailedAnswered(h) \/ PreflightAnswered(h)
    PROVE  LiveInv'
  <1>0. HasStatus(ui) /\ SameStatus(ui, ui)
    BY StatusHere
  <1>1. CASE CallAnswered(h)
    BY <1>1, PassesSteady DEF CallAnswered
  <1> DEFINE v == ApplyDownloadJobs(ui, h.channel)
             e == ShowQueueEffects(ui, h.channel)
             r == ShowQueueEffects(v, h.channel)
  <1>2. SameStatus(ui, v) /\ SameStatus(ui, e) /\ SameStatus(ui, r)
    BY <1>0, JobsSame, EffectsSame, SameTwice DEF SameStatus
  <1>3. CASE StartedJobsAnswered(h)
    BY <1>2, <1>3, AnswerSteady DEF StartedJobsAnswered
  <1>4. CASE JobsAnswered(h)
    <2>1. Writes(h, [v EXCEPT !.preflightPlan = None]) /\ GoesOn(h, "rest")
      BY <1>4 DEF JobsAnswered
    <2> HIDE DEF v
    <2>2. SameStatus(ui, [v EXCEPT !.preflightPlan = None])
      BY <1>2 DEF SameStatus, HasStatus
    <2> QED BY <2>1, <2>2, AnswerSteady
  <1>5. CASE RestAnswered(h)
    <2>1. (Writes(h, e) \/ Writes(h, Idle(e))) /\ Ends(h)
      BY <1>5 DEF RestAnswered
    <2> HIDE DEF e
    <2>2. SameStatus(ui, Idle(e))
      BY <1>2, IdleSame, SameTwice DEF SameStatus
    <2> QED BY <1>2, <2>1, <2>2, AnswerSteady
  <1>6. CASE RetryFailedAnswered(h)
    <2>1. Writes(h, [Idle(r) EXCEPT !.preflightPlan = None]) /\ Ends(h)
      BY <1>6 DEF RetryFailedAnswered
    <2> HIDE DEF r
    <2> DEFINE w == Idle(r)
    <2>2. SameStatus(ui, w)
      BY <1>2, IdleSame, SameTwice DEF SameStatus
    <2> HIDE DEF w
    <2>3. SameStatus(ui, [w EXCEPT !.preflightPlan = None])
      BY <2>2 DEF SameStatus, HasStatus
    <2> QED BY <2>1, <2>3, AnswerSteady DEF w
  <1>7. CASE PreflightAnswered(h)
    <2>1. PICK ready : /\ Writes(h, [v EXCEPT !.preflightPlan = ready, !.selectedJobIds = ready])
                       /\ GoesOn(h, "rest")
      BY <1>7 DEF PreflightAnswered
    <2> HIDE DEF v
    <2>2. SameStatus(ui, [v EXCEPT !.preflightPlan = ready, !.selectedJobIds = ready])
      BY <1>2 DEF SameStatus, HasStatus
    <2> QED BY <2>1, <2>2, AnswerSteady
  <1> QED BY <1>1, <1>3, <1>4, <1>5, <1>6, <1>7

LEMMA ChannelAnswersSteady ==
    ASSUME LiveInv, NEW h \in handlers,
           \/ SettingAnswered(h) \/ PlanAnswered(h) \/ RunsAnswered(h) \/ SummaryAnswered(h)
           \/ LiveCandidatesAnswered(h) \/ LiveRunAnswered(h)
           \/ ProbeAnswered(h) \/ CommitAnswered(h)
    PROVE  LiveInv'
  <1>0. HasStatus(ui) /\ \A names : SameStatus(ui, Fill(ui, names, h.channel))
    BY StatusHere, FillSame
  <1>1. CASE SettingAnswered(h) \/ PlanAnswered(h) \/ RunsAnswered(h)
    BY <1>0, <1>1, AnswerSteady DEF SettingAnswered, PlanAnswered, RunsAnswered
  <1>2. CASE SummaryAnswered(h)
    <2> DEFINE w == RefreshChannelSummary(ui, h.channel)
    <2>1. /\ Ends(h)
          /\ \/ Writes(h, w)
             \/ Writes(h, Fill(w, {"channelVideos", "library"}, h.channel))
      BY <1>2 DEF SummaryAnswered
    <2>2. SameStatus(ui, w)
      BY <1>0, SummarySame
    <2> HIDE DEF w
    <2>3. SameStatus(ui, Fill(w, {"channelVideos", "library"}, h.channel))
      BY <2>2, FillSame DEF SameStatus
    <2> QED BY <2>1, <2>2, <2>3, AnswerSteady
  <1>3. CASE LiveCandidatesAnswered(h) \/ LiveRunAnswered(h)
    BY <1>3, PassesSteady DEF LiveCandidatesAnswered, LiveRunAnswered
  <1>4. CASE ProbeAnswered(h)
    <2>1. PICK c : Writes(h, [ui EXCEPT !.probe = c, !.registrationStatus = "idle"])
      BY <1>4 DEF ProbeAnswered
    <2>2. SameStatus(ui, [ui EXCEPT !.probe = c, !.registrationStatus = "idle"])
      BY <1>0 DEF SameStatus, HasStatus
    <2> QED BY <1>4, <2>1, <2>2, AnswerSteady DEF ProbeAnswered
  <1>5. CASE CommitAnswered(h)
    <2>1. PICK c : /\ Writes(h, [ui EXCEPT !.registration = c, !.probe = c,
                                           !.selectedChannelId = c])
                   /\ handlers' = (handlers \ {h})
                                  \cup {[h EXCEPT !.at = "state", !.channel = c]}
      BY <1>5 DEF CommitAnswered
    <2>2. SameStatus(ui, [ui EXCEPT !.registration = c, !.probe = c, !.selectedChannelId = c])
      BY <1>0 DEF SameStatus, HasStatus
    <2> DEFINE k == [h EXCEPT !.at = "state", !.channel = c]
    <2>3. "op" \in DOMAIN k /\ k.op = h.op /\ handlers' = (handlers \ {h}) \cup {k}
      BY <2>1 DEF LiveInv, Named
    <2> HIDE DEF k
    <2>4. Continue(handlers')
      BY <2>3 DEF Continue
    <2> QED BY <2>1, <2>2, <2>4, WritesSame, Steady
  <1> QED BY <1>1, <1>2, <1>3, <1>4, <1>5

\* The channel's state: a live pass ends with it, a registration is forgotten.
LEMMA StateAnswerSteady ==
    ASSUME LiveInv, NEW h \in handlers, StateAnswered(h)
    PROVE  LiveInv'
  <1> DEFINE u == LoadChannelState(ui, h.channel)
  <1>1. SameStatus(ui, u) /\ Ends(h)
    BY StatusHere, StateSame DEF StateAnswered
  <1>2. CASE h.op = "live"
    <2>1. Writes(h, LiveEnds(Idle(u)))
      BY <1>2 DEF StateAnswered
    <2> HIDE DEF u
    <2> DEFINE w == LiveEnds(Idle(u))
    <2>2. HasStatus(w)
      BY <1>1 DEF SameStatus, HasStatus, LiveEnds, Idle
    <2> HIDE DEF w
    <2>3. HasStatus(ui')
      BY <2>1, <2>2, RenderSame DEF w, Writes, SameStatus
    <2> QED BY <1>1, <1>2, <2>3, LiveEnded
  <1>3. CASE h.op # "live"
    <2> DEFINE c == [u EXCEPT !.registration = None, !.probe = None,
                              !.registrationStatus = "idle"]
                i == Idle(u)
                d == [i EXCEPT !.activeNavId = "channels"]
    <2>1. Writes(h, u) \/ Writes(h, i) \/ Writes(h, c) \/ Writes(h, d)
      BY <1>3 DEF StateAnswered
    <2> HIDE DEF u
    <2>2. SameStatus(ui, i) /\ SameStatus(ui, c) /\ SameStatus(ui, d)
      <3>1. SameStatus(ui, i)
        BY <1>1, IdleSame, SameTwice DEF SameStatus
      <3>2. SameStatus(ui, c)
        BY <1>1 DEF SameStatus, HasStatus
      <3> HIDE DEF i
      <3>3. SameStatus(ui, d)
        BY <3>1 DEF SameStatus, HasStatus
      <3> QED BY <3>1, <3>2, <3>3
    <2> HIDE DEF i, c, d
    <2> QED BY <1>1, <2>1, <2>2, AnswerSteady
  <1> QED BY <1>2, <1>3

LEMMA DemoAnswersSteady ==
    ASSUME LiveInv, NEW h \in handlers,
           DemoAnswered(h) \/ WorkspaceAnswered(h) \/ SeededAnswered(h) \/ ClearedAnswered(h)
    PROVE  LiveInv'
  <1>0. HasStatus(ui) /\ SameStatus(ui, ui) /\ SameStatus(ui, Idle(ui))
    BY StatusHere, IdleSame
  <1>1. CASE DemoAnswered(h)
    <2>1. CASE Writes(h, Idle(ui)) /\ Ends(h)
      BY <1>0, <2>1, AnswerSteady
    <2>2. ASSUME NEW c, handlers' = (handlers \ {h}) \cup {[h EXCEPT !.at = "workspace", !.channel = c]},
                 UNCHANGED ui
          PROVE  LiveInv'
      <3> DEFINE k == [h EXCEPT !.at = "workspace", !.channel = c]
      <3>1. "op" \in DOMAIN k /\ k.op = h.op /\ handlers' = (handlers \ {h}) \cup {k}
        BY <2>2 DEF LiveInv, Named
      <3> HIDE DEF k
      <3>2. Continue(handlers')
        BY <3>1 DEF Continue
      <3>3. SameStatus(ui, ui')
        BY <1>0, <2>2 DEF SameStatus, HasStatus
      <3> QED BY <3>2, <3>3, Steady
    <2> QED BY <1>1, <2>1, <2>2 DEF DemoAnswered
  <1>2. CASE WorkspaceAnswered(h)
    <2>1. SameStatus(ui, [ui EXCEPT !.dashboard = TRUE])
      BY <1>0 DEF SameStatus, HasStatus
    <2> QED BY <1>2, <2>1, AnswerSteady DEF WorkspaceAnswered
  <1>3. CASE SeededAnswered(h)
    <2>1. SameStatus(ui, [ui EXCEPT !.selectedChannelId = h.channel, !.registration = None,
                                    !.probe = None])
      BY <1>0 DEF SameStatus, HasStatus
    <2> QED BY <1>3, <2>1, AnswerSteady DEF SeededAnswered
  <1>4. CASE ClearedAnswered(h)
    <2> DEFINE e == EmptyWorkspace(ui)
               f == Fill(ui, PanelNames, None)
    <2>1. Ends(h) /\ (Writes(h, Idle(ui)) \/ RenderFrom(Nowhere(e), e, handlers \ {h}, loads))
      BY <1>4 DEF ClearedAnswered
    <2>2. SameStatus(ui, f)
      BY <1>0, FillSame
    <2>3. SameStatus(ui, e)
      <3> HIDE DEF f
      <3>1. e = [f EXCEPT !.selectedChannelId = None, !.registration = None, !.probe = None,
                          !.downloadJobs = NoJobs, !.preflightPlan = None, !.selectedJobIds = {},
                          !.selectionSeedKey = None, !.activeNavId = "queue", !.workflowStatus = "idle"]
        BY DEF EmptyWorkspace, f
      <3> HIDE DEF e
      <3> QED BY <2>2, <3>1 DEF SameStatus, HasStatus
    <2> HIDE DEF e
    <2>4. CASE Writes(h, Idle(ui))
      BY <1>0, <2>1, <2>4, AnswerSteady
    <2>5. CASE RenderFrom(Nowhere(e), e, handlers \ {h}, loads)
      <3>1. SameStatus(ui, ui')
        BY <2>3, <2>5, RenderFromSame, SameTwice DEF SameStatus
      <3> QED BY <2>1, <3>1, EndsContinues, Steady
    <2> QED BY <2>1, <2>4, <2>5
  <1> QED BY <1>1, <1>2, <1>3, <1>4

LEMMA FailedSteady ==
    ASSUME LiveInv, NEW h \in handlers, HandlerFailed(h)
    PROVE  LiveInv'
  <1>0. HasStatus(ui) /\ SameStatus(ui, ui) /\ Ends(h)
    BY StatusHere DEF HandlerFailed
  <1>1. CASE h.op = "live"
    <2>1. HasStatus(ui')
      BY <1>0, <1>1 DEF HandlerFailed, LiveEnds, Idle, HasStatus
    <2> QED BY <1>0, <1>1, <2>1, LiveEnded
  <1>2. CASE h.op # "live"
    <2>1. \/ ui' = ui \/ ui' = Idle(ui)
          \/ ui' = [ui EXCEPT !.registrationStatus = "idle"]
      BY <1>2 DEF HandlerFailed
    <2>2. SameStatus(ui, Idle(ui)) /\ SameStatus(ui, [ui EXCEPT !.registrationStatus = "idle"])
      BY <1>0, IdleSame DEF SameStatus, HasStatus
    <2>3. SameStatus(ui, ui')
      BY <1>0, <2>1, <2>2
    <2> QED BY <1>0, <2>3, EndsContinues, Steady
  <1> QED BY <1>1, <1>2

-----------------------------------------------------------------------------
LEMMA LiveInit == Init => LiveInv
  BY DEF Init, LiveInv, HasStatus, Named, OneLivePass

LEMMA LiveStep == LiveInv /\ [Next]_vars => LiveInv'
  <1> SUFFICES ASSUME LiveInv, [Next]_vars
               PROVE  LiveInv'
    OBVIOUS
  <1>1. CASE Operator
    BY <1>1, MovingSteady, TargetSteady, BegunSteady, DialogSteady, LiveBegins DEF Operator
  <1>2. CASE DashboardAnswered \/ \E l \in loads : LoadAnswered(l) \/ LoadFailed(l)
    BY <1>2, LoadsSteady
  <1>3. CASE OnReconnect \/ \E type \in EventTypes : EventArrives(type)
    BY <1>3, BegunSteady
  <1>4. CASE \E h \in handlers : RefreshChannelAfterEvent(h) \/ Answered(h) \/ HandlerFailed(h)
    BY <1>4, PassesSteady, QueueAnswersSteady, ChannelAnswersSteady, StateAnswerSteady,
       DemoAnswersSteady, FailedSteady DEF Answered
  <1>5. CASE UNCHANGED vars \/ \E j \in Jobs : WorkerStarts(j)
    <2>1. UNCHANGED <<ui, handlers>>
      BY <1>5 DEF vars, WorkerStarts
    <2>2. SameStatus(ui, ui')
      BY <2>1, StatusHere DEF SameStatus, HasStatus
    <2> QED BY <2>1, <2>2, PageSteady
  <1> QED BY <1>1, <1>2, <1>3, <1>4, <1>5 DEF Next

\* However often the dialog is opened and closed, channels are switched, events
\* arrive and requests fail: two live passes are never under way from one page.
THEOREM LivePassIsAlone == Spec => []OneLivePass
  <1>1. LiveInv => OneLivePass
    BY DEF LiveInv
  <1> QED BY <1>1, LiveInit, LiveStep, PTL DEF Spec

-----------------------------------------------------------------------------
(* The records of the page.                                                *)

Loads == [kind : LoadKinds, channel : Channels, cancelled : BOOLEAN]
Handlers == [slot : 1..MaxHandlers, op : Ops, at : Stages, ids : SUBSET Jobs,
             channel : Channels \cup {None}]
Shown == Channels \cup {None}

\* What a switch of channel, or an answer, may write.
SameContent(u, v) ==
    /\ v.panels = u.panels /\ v.downloadJobs = u.downloadJobs
    /\ v.selectedJobIds = u.selectedJobIds /\ v.selectionSeedKey = u.selectionSeedKey

LEMMA ChannelShown ==
    ASSUME NEW u \in Pages
    PROVE  RegisteredChannel(u) \in Shown
  BY DEF Pages, RegisteredChannel, Shown

LEMMA FillPage ==
    ASSUME NEW u \in Pages, NEW names, NEW c \in Shown
    PROVE  /\ Fill(u, names, c) \in Pages
           /\ \A p \in PanelNames :
                 Fill(u, names, c).panels[p] = IF p \in names THEN c ELSE u.panels[p]
           /\ Fill(u, names, c).downloadJobs = u.downloadJobs
           /\ Fill(u, names, c).selectedJobIds = u.selectedJobIds
           /\ Fill(u, names, c).selectionSeedKey = u.selectionSeedKey
           /\ Fill(u, names, c).activeNavId = u.activeNavId
           /\ Fill(u, names, c).dashboard = u.dashboard
           /\ RegisteredChannel(Fill(u, names, c)) = RegisteredChannel(u)
  <1> DEFINE q == [p \in PanelNames |-> IF p \in names THEN c ELSE u.panels[p]]
             v == [u EXCEPT !.panels = q]
  <1>1. q \in [PanelNames -> Shown]
    BY DEF Pages, Shown
  <1>2. v = Fill(u, names, c)
    BY DEF Fill
  <1>3. \A p \in PanelNames : q[p] = IF p \in names THEN c ELSE u.panels[p]
    OBVIOUS
  <1> HIDE DEF q
  <1>4. v \in Pages
    BY <1>1 DEF Pages, Shown
  <1>5. /\ v.panels = q /\ v.downloadJobs = u.downloadJobs
        /\ v.selectedJobIds = u.selectedJobIds /\ v.selectionSeedKey = u.selectionSeedKey
        /\ v.activeNavId = u.activeNavId /\ v.dashboard = u.dashboard
        /\ v.registration = u.registration /\ v.probe = u.probe
        /\ v.selectedChannelId = u.selectedChannelId
    BY DEF Pages
  <1> HIDE DEF v
  <1> QED
    BY <1>2, <1>3, <1>4, <1>5 DEF RegisteredChannel

LEMMA JobsSeenOf ==
    ASSUME jobStatus \in [Jobs -> JobStatuses \cup {None}], NEW c
    PROVE  /\ JobsSeen(c) \in UNION {[S -> JobStatuses] : S \in SUBSET Jobs}
           /\ DOMAIN JobsSeen(c) \subseteq JobsOf(c)
  <1> DEFINE S == {k \in JobsOf(c) : jobStatus[k] # None}
             f == [j \in S |-> jobStatus[j]]
  <1>1. S \in SUBSET Jobs /\ S \subseteq JobsOf(c)
    BY DEF JobsOf
  <1>2. f = JobsSeen(c)
    BY DEF JobsSeen
  <1>3. \A j \in S : jobStatus[j] \in JobStatuses
    BY <1>1
  <1> HIDE DEF S
  <1>4. f \in [S -> JobStatuses]
    BY <1>3
  <1>5. DOMAIN f = S
    OBVIOUS
  <1> QED
    BY <1>1, <1>2, <1>4, <1>5

LEMMA ApplyPage ==
    ASSUME jobStatus \in [Jobs -> JobStatuses \cup {None}], NEW u \in Pages, NEW c
    PROVE  LET v == ApplyDownloadJobs(u, c)
           IN  /\ v \in Pages
               /\ v.panels = u.panels /\ v.downloadJobs = JobsSeen(c)
               /\ v.selectedJobIds = u.selectedJobIds \cap SelectableIn(JobsSeen(c))
               /\ v.selectionSeedKey = u.selectionSeedKey
               /\ v.activeNavId = u.activeNavId /\ v.dashboard = u.dashboard
               /\ RegisteredChannel(v) = RegisteredChannel(u)
  <1> DEFINE list == JobsSeen(c)
             ids == u.selectedJobIds \cap SelectableIn(list)
             v == [u EXCEPT !.downloadJobs = list, !.selectedJobIds = ids]
  <1>1. list \in UNION {[S -> JobStatuses] : S \in SUBSET Jobs}
    BY JobsSeenOf
  <1>2. ids \in SUBSET Jobs
    BY DEF Pages
  <1>3. v = ApplyDownloadJobs(u, c)
    BY DEF ApplyDownloadJobs
  <1> HIDE DEF list, ids
  <1>4. v \in Pages
    BY <1>1, <1>2 DEF Pages
  <1>5. /\ v.panels = u.panels /\ v.downloadJobs = list /\ v.selectedJobIds = ids
        /\ v.selectionSeedKey = u.selectionSeedKey
        /\ v.activeNavId = u.activeNavId /\ v.dashboard = u.dashboard
        /\ v.registration = u.registration /\ v.probe = u.probe
        /\ v.selectedChannelId = u.selectedChannelId
    BY DEF Pages
  <1> HIDE DEF v
  <1> QED
    BY <1>3, <1>4, <1>5 DEF RegisteredChannel, list, ids

-----------------------------------------------------------------------------
(* The effects of a render.                                                *)

LEMMA SeedPage ==
    ASSUME NEW u \in Pages
    PROVE  LET v == SeedSelection(u)
               c == RegisteredChannel(u)
           IN  /\ v \in Pages
               /\ v.panels = u.panels /\ v.downloadJobs = u.downloadJobs
               /\ v.activeNavId = u.activeNavId /\ v.dashboard = u.dashboard
               /\ RegisteredChannel(v) = c
               /\ c # None /\ LaunchableJobs(u) # {} => v.selectionSeedKey = <<c, LaunchableJobs(u)>>
               /\ v = u \/ (/\ v.selectedJobIds = LaunchableJobs(u)
                            /\ v.selectionSeedKey = <<c, LaunchableJobs(u)>>)
  <1> DEFINE c == RegisteredChannel(u)
             L == LaunchableJobs(u)
             k == <<c, L>>
             v == [u EXCEPT !.selectedJobIds = L, !.selectionSeedKey = k]
  <1>1. c \in Shown /\ L \in SUBSET Jobs
    BY ChannelShown DEF LaunchableJobs, Pages
  <1>2. SeedSelection(u) = IF c = None \/ L = {} \/ u.selectionSeedKey = k THEN u ELSE v
    BY DEF SeedSelection
  <1>3. ASSUME c # None
        PROVE  v \in Pages
    <2>1. k \in Channels \X SUBSET Jobs
      BY <1>1, <1>3 DEF Shown
    <2> HIDE DEF k, L
    <2> QED BY <1>1, <2>1 DEF Pages
  <1> HIDE DEF k
  <1>4. /\ v.panels = u.panels /\ v.downloadJobs = u.downloadJobs
        /\ v.selectedJobIds = L /\ v.selectionSeedKey = k
        /\ v.activeNavId = u.activeNavId /\ v.dashboard = u.dashboard
        /\ v.registration = u.registration /\ v.probe = u.probe
        /\ v.selectedChannelId = u.selectedChannelId
    BY DEF Pages
  <1>5. RegisteredChannel(v) = c
    <2> HIDE DEF v
    <2> QED BY <1>4 DEF RegisteredChannel
  <1> HIDE DEF v, L
  <1>6. CASE c = None \/ L = {} \/ u.selectionSeedKey = k
    <2>1. SeedSelection(u) = u
      BY <1>2, <1>6
    <2> QED BY <1>6, <2>1 DEF L, k
  <1>7. CASE ~(c = None \/ L = {} \/ u.selectionSeedKey = k)
    <2>1. SeedSelection(u) = v
      BY <1>2, <1>7
    <2> QED BY <1>3, <1>4, <1>5, <1>7, <2>1 DEF L, k
  <1> QED
    BY <1>6, <1>7

LEMMA FirstPage ==
    ASSUME NEW u \in Pages, NEW v \in SelectFirst(u)
    PROVE  /\ v \in Pages /\ SameContent(u, v)
           /\ v.activeNavId = u.activeNavId /\ v.dashboard = u.dashboard
           /\ RegisteredChannel(v) = None => ~v.dashboard
           /\ RegisteredChannel(u) # None \/ ~u.dashboard => v = u
  <1>1. CASE RegisteredChannel(u) # None \/ ~u.dashboard
    BY <1>1 DEF SelectFirst, SameContent
  <1>2. CASE ~(RegisteredChannel(u) # None \/ ~u.dashboard)
    <2>1. PICK c \in Channels : v = [u EXCEPT !.selectedChannelId = c]
      BY <1>2 DEF SelectFirst
    <2>2. v \in Pages
      BY <2>1 DEF Pages
    <2>3. /\ v.panels = u.panels /\ v.downloadJobs = u.downloadJobs
          /\ v.selectedJobIds = u.selectedJobIds /\ v.selectionSeedKey = u.selectionSeedKey
          /\ v.activeNavId = u.activeNavId /\ v.dashboard = u.dashboard
          /\ v.registration = u.registration /\ v.probe = u.probe
          /\ v.selectedChannelId = c
      BY <2>1 DEF Pages
    <2>4. RegisteredChannel(v) # None
      BY <2>3, ChannelsAssumption DEF RegisteredChannel
    <2> QED BY <1>2, <2>2, <2>3, <2>4 DEF SameContent
  <1> QED
    BY <1>1, <1>2

LEMMA ClearPage ==
    ASSUME NEW u \in Pages
    PROVE  LET v == ClearPanels(u)
           IN  /\ v \in Pages
               /\ v.downloadJobs = NoJobs /\ \A p \in ClearedOnSwitch : v.panels[p] = None
               /\ v.activeNavId = u.activeNavId /\ v.dashboard = u.dashboard
               /\ RegisteredChannel(v) = RegisteredChannel(u)
               /\ RegisteredChannel(u) = None => v.selectedJobIds = {}
               /\ RegisteredChannel(u) # None => /\ v.selectedJobIds = u.selectedJobIds
                                                 /\ v.selectionSeedKey = u.selectionSeedKey
  <1>0. None \in Shown /\ ClearedOnSwitch \subseteq PanelNames
    BY DEF Shown, ClearedOnSwitch, PanelNames
  <1>1. NoJobs \in UNION {[S -> JobStatuses] : S \in SUBSET Jobs}
    <2>1. NoJobs \in [{} -> JobStatuses]
      BY DEF NoJobs
    <2> QED BY <2>1
  <1>2. CASE RegisteredChannel(u) = None
    <2> DEFINE w == Fill(u, PanelNames, None)
               v == [w EXCEPT !.downloadJobs = NoJobs, !.preflightPlan = None,
                              !.selectedJobIds = {}, !.selectionSeedKey = None]
    <2>1. /\ w \in Pages /\ w.activeNavId = u.activeNavId /\ w.dashboard = u.dashboard
          /\ \A p \in ClearedOnSwitch : w.panels[p] = None
          /\ RegisteredChannel(w) = None
      BY <1>0, <1>2, FillPage
    <2>2. v = ClearPanels(u)
      BY <1>2 DEF ClearPanels
    <2> HIDE DEF w
    <2>3. v \in Pages
      <3> DEFINE x == [w EXCEPT !.downloadJobs = NoJobs]
                 y == [x EXCEPT !.preflightPlan = None]
                 z == [y EXCEPT !.selectedJobIds = {}]
      <3>1. v = [z EXCEPT !.selectionSeedKey = None]
        BY <2>1 DEF Pages
      <3>2. x \in Pages
        BY <1>1, <2>1 DEF Pages
      <3> HIDE DEF x
      <3>3. y \in Pages
        BY <3>2 DEF Pages
      <3> HIDE DEF y
      <3>4. z \in Pages
        BY <3>3 DEF Pages
      <3> HIDE DEF z
      <3> QED BY <3>1, <3>4 DEF Pages
    <2>4. /\ v.panels = w.panels /\ v.downloadJobs = NoJobs /\ v.selectedJobIds = {}
          /\ v.activeNavId = w.activeNavId /\ v.dashboard = w.dashboard
          /\ v.registration = w.registration /\ v.probe = w.probe
          /\ v.selectedChannelId = w.selectedChannelId
      BY <2>1 DEF Pages
    <2> HIDE DEF v
    <2>5. RegisteredChannel(v) = RegisteredChannel(w)
      BY <2>4 DEF RegisteredChannel
    <2> QED BY <1>2, <2>1, <2>2, <2>3, <2>4, <2>5
  <1>3. CASE RegisteredChannel(u) # None
    <2> DEFINE w == Fill(u, ClearedOnSwitch, None)
               v == [w EXCEPT !.downloadJobs = NoJobs]
    <2>1. /\ w \in Pages /\ w.activeNavId = u.activeNavId /\ w.dashboard = u.dashboard
          /\ \A p \in ClearedOnSwitch : w.panels[p] = None
          /\ w.selectedJobIds = u.selectedJobIds /\ w.selectionSeedKey = u.selectionSeedKey
          /\ RegisteredChannel(w) = RegisteredChannel(u)
      BY <1>0, FillPage
    <2>2. v = ClearPanels(u)
      BY <1>3 DEF ClearPanels
    <2> HIDE DEF w
    <2>3. v \in Pages
      BY <1>1, <2>1 DEF Pages
    <2>4. /\ v.panels = w.panels /\ v.downloadJobs = NoJobs
          /\ v.selectedJobIds = w.selectedJobIds /\ v.selectionSeedKey = w.selectionSeedKey
          /\ v.activeNavId = w.activeNavId /\ v.dashboard = w.dashboard
          /\ v.registration = w.registration /\ v.probe = w.probe
          /\ v.selectedChannelId = w.selectedChannelId
      BY <2>1 DEF Pages
    <2> HIDE DEF v
    <2>5. RegisteredChannel(v) = RegisteredChannel(w)
      BY <2>4 DEF RegisteredChannel
    <2> QED BY <1>3, <2>1, <2>2, <2>3, <2>4, <2>5
  <1> QED
    BY <1>2, <1>3

-----------------------------------------------------------------------------
(* What the page shows.                                                    *)

Here == RegisteredChannel(ui)
Detailed == {"channelDetail", "channelPolicy"}

\* u shows channel c, unless a handler crossed the switch to it (x); its selection is of
\* c unless an earlier seed was kept (k), or it is still to be seeded.
ShownFor(u, c, x, k) ==
    ~x => /\ \A p \in ClearedOnSwitch : u.panels[p] \in {None, c}
          /\ \A j \in DOMAIN u.downloadJobs : ChannelOf[j] = c
          /\ ~k /\ u.selectionSeedKey \in {c} \X SUBSET JobsOf(c)
             => u.selectedJobIds \subseteq JobsOf(c)

SeededFor(u, c) ==
    c # None /\ LaunchableJobs(u) # {} => u.selectionSeedKey = <<c, LaunchableJobs(u)>>

\* A panel shows c, its load has failed, or is still to answer.
SummarySettles(u, c, x, F, L) ==
    ~x /\ c # None => \A p \in Detailed :
        u.panels[p] = c \/ "summary" \in F \/ NewLoad("summary", c) \in L

DetailSettles(u, c, x, F, L) ==
    ~x /\ c # None /\ u.activeNavId = "channels" => \A p \in PanelNames \ Detailed :
        u.panels[p] = c \/ "channels" \in F \/ NewLoad("channels", c) \in L

LoadsFor(L, c) == \A l \in L : ~l.cancelled => l.channel = c

HandlersFor(hs, c, x) ==
    \A h \in hs : Carries(h) => h.channel \in Channels /\ (~x => h.channel = c)

\* A render from o: the page itself, or one whose channel nothing can have.
From(o) == o = ui \/ \A v \in Pages : Moved(o, v)

LEMMA RenderShowsFrom ==
    ASSUME ui \in Pages, crossed \in BOOLEAN, kept \in BOOLEAN, NEW o, From(o),
           NEW u \in Pages, ShownFor(u, Here, crossed, kept), NEW W, NEW P, RenderFrom(o, u, W, P)
    PROVE  /\ ui' \in Pages /\ ui'.activeNavId = u.activeNavId
           /\ ShownFor(ui', Here', crossed', kept') /\ SeededFor(ui', Here')
           /\ Here' = None => ~ui'.dashboard
           /\ crossed' \in BOOLEAN /\ kept' \in BOOLEAN
           /\ o = ui /\ RegisteredChannel(u) = Here /\ (Here # None \/ ~u.dashboard)
              => Here' = Here /\ (W \subseteq handlers => crossed' = crossed) /\ kept' = kept
  <1>1. PICK v \in SelectFirst(u) :
            /\ ui' = IF Moved(o, v) THEN ClearPanels(SeedSelection(v)) ELSE SeedSelection(v)
            /\ crossed' = IF Moved(o, v) THEN Foreign(W, v)
                          ELSE crossed \/ Foreign(W \ handlers, v)
            /\ kept' = IF Moved(o, v)
                       THEN /\ SeedSelection(v) = v
                            /\ v.selectionSeedKey \in {RegisteredChannel(v)} \X SUBSET Jobs
                       ELSE kept
    BY DEF RenderFrom
  <1>a. crossed' \in BOOLEAN
    BY <1>1, Zenon DEF Foreign
  <1>b. kept' \in BOOLEAN
    BY <1>1, Zenon
  <1> DEFINE c == RegisteredChannel(v)
             L == LaunchableJobs(v)
             s == SeedSelection(v)
  <1>2. /\ v \in Pages /\ SameContent(u, v)
        /\ v.activeNavId = u.activeNavId /\ v.dashboard = u.dashboard
        /\ c = None => ~v.dashboard
        /\ RegisteredChannel(u) # None \/ ~u.dashboard => v = u
    BY FirstPage
  <1>3. /\ s \in Pages
        /\ s.panels = v.panels /\ s.downloadJobs = v.downloadJobs
        /\ s.activeNavId = v.activeNavId /\ s.dashboard = v.dashboard
        /\ RegisteredChannel(s) = c
        /\ c # None /\ L # {} => s.selectionSeedKey = <<c, L>>
        /\ s = v \/ (s.selectedJobIds = L /\ s.selectionSeedKey = <<c, L>>)
    BY <1>2, SeedPage
  <1>4. c \in Shown /\ L \subseteq DOMAIN v.downloadJobs /\ LaunchableJobs(s) = L
    BY <1>2, <1>3, ChannelShown DEF LaunchableJobs
  <1>5. \A S : JobsOf(S) \subseteq Jobs
    BY DEF JobsOf
  <1>6. CASE Moved(o, v)
    <2> DEFINE e == ClearPanels(s)
    <2>1. ui' = e /\ (kept' <=> s = v /\ v.selectionSeedKey \in {c} \X SUBSET Jobs)
      BY <1>1, <1>6
    <2>2. /\ e \in Pages
          /\ e.downloadJobs = NoJobs /\ \A p \in ClearedOnSwitch : e.panels[p] = None
          /\ e.activeNavId = s.activeNavId /\ e.dashboard = s.dashboard
          /\ RegisteredChannel(e) = c
          /\ c = None => e.selectedJobIds = {}
          /\ c # None => /\ e.selectedJobIds = s.selectedJobIds
                         /\ e.selectionSeedKey = s.selectionSeedKey
      BY <1>3, ClearPage
    <2> HIDE DEF e, s, c, L
    <2>3. DOMAIN NoJobs = {}
      BY DEF NoJobs
    <2>4. Here' = c
      BY <2>1, <2>2 DEF Here
    <2>5. LaunchableJobs(e) = {}
      BY <2>2, <2>3 DEF LaunchableJobs
    <2>6. ASSUME ~kept', e.selectionSeedKey \in {c} \X SUBSET JobsOf(c)
          PROVE  e.selectedJobIds \subseteq JobsOf(c)
      <3>1. CASE c = None
        BY <2>2, <3>1
      <3>2. CASE c # None
        <4>1. s.selectionSeedKey \in {c} \X SUBSET Jobs
          BY <1>5, <2>2, <2>6, <3>2
        <4>2. s # v
          BY <2>1, <2>6, <4>1
        <4>3. s.selectedJobIds = L /\ <<c, L>> \in {c} \X SUBSET JobsOf(c)
          BY <1>3, <2>2, <2>6, <3>2, <4>2
        <4> QED BY <2>2, <3>2, <4>3
      <3> QED BY <3>1, <3>2
    <2>7. ShownFor(e, c, crossed', kept') /\ SeededFor(e, c)
      BY <2>2, <2>3, <2>5, <2>6 DEF ShownFor, SeededFor
    <2>8. o = ui => c # Here
      BY <1>6 DEF Moved, Here, c
    <2>9. ~(o = ui /\ RegisteredChannel(u) = Here /\ (Here # None \/ ~u.dashboard))
      BY <1>2, <2>8 DEF c
    <2> QED
      BY <1>a, <1>b, <1>2, <1>3, <2>1, <2>2, <2>4, <2>7, <2>9 DEF c
  <1>7. CASE ~Moved(o, v)
    <2>0. o = ui
      BY <1>2, <1>7 DEF From
    <2>1. /\ ui' = s /\ kept' = kept
          /\ crossed' = (crossed \/ Foreign(W \ handlers, v))
      BY <1>1, <1>7
    <2>2. c = Here
      BY <1>7, <2>0 DEF Moved, Here
    <2>a. ~crossed' => ~crossed
      BY <2>1, Zenon
    <2>b. W \subseteq handlers => crossed' = crossed
      <3>1. W \subseteq handlers => ~Foreign(W \ handlers, v)
        BY DEF Foreign
      <3> QED BY <2>1, <3>1, Zenon
    <2> HIDE DEF s, c, L
    <2>3. Here' = c
      BY <1>3, <2>1 DEF Here
    <2>4. ShownFor(s, c, crossed, kept)
      <3> SUFFICES ASSUME ~crossed PROVE ShownFor(s, c, crossed, kept)
        BY DEF ShownFor
      <3>1. /\ \A p \in ClearedOnSwitch : u.panels[p] \in {None, c}
            /\ \A j \in DOMAIN u.downloadJobs : ChannelOf[j] = c
            /\ ~kept /\ u.selectionSeedKey \in {c} \X SUBSET JobsOf(c)
               => u.selectedJobIds \subseteq JobsOf(c)
        BY <2>2 DEF ShownFor
      <3>2. L \subseteq JobsOf(c)
        <4>1. DOMAIN v.downloadJobs \subseteq Jobs
          BY <1>2 DEF Pages
        <4> QED BY <1>2, <1>4, <3>1, <4>1 DEF SameContent, JobsOf
      <3>3. ~kept /\ s.selectionSeedKey \in {c} \X SUBSET JobsOf(c)
            => s.selectedJobIds \subseteq JobsOf(c)
        BY <1>2, <1>3, <3>1, <3>2 DEF SameContent
      <3> QED BY <1>2, <1>3, <3>1, <3>3 DEF ShownFor, SameContent
    <2>5. SeededFor(s, c)
      BY <1>3, <1>4 DEF SeededFor
    <2>6. ShownFor(s, c, crossed', kept)
      BY <2>4, <2>a DEF ShownFor
    <2>7. /\ ui' \in Pages /\ ui'.activeNavId = u.activeNavId
          /\ Here' = None => ~ui'.dashboard
      BY <1>2, <1>3, <2>1, <2>2, <2>3 DEF c
    <2> QED
      BY <1>a, <1>b, <2>1, <2>2, <2>3, <2>5, <2>6, <2>7, <2>b
  <1> QED
    BY <1>6, <1>7

LEMMA RenderShows ==
    ASSUME ui \in Pages, crossed \in BOOLEAN, kept \in BOOLEAN,
           NEW u \in Pages, ShownFor(u, Here, crossed, kept), NEW W, NEW P, Render(u, W, P)
    PROVE  /\ ui' \in Pages /\ ui'.activeNavId = u.activeNavId
           /\ ShownFor(ui', Here', crossed', kept') /\ SeededFor(ui', Here')
           /\ Here' = None => ~ui'.dashboard
           /\ crossed' \in BOOLEAN /\ kept' \in BOOLEAN
           /\ RegisteredChannel(u) = Here /\ (Here # None \/ ~u.dashboard)
              => Here' = Here /\ (W \subseteq handlers => crossed' = crossed) /\ kept' = kept
  <1>1. From(ui) /\ RenderFrom(ui, u, W, P)
    BY DEF From, Render
  <1> QED BY <1>1, RenderShowsFrom

LEMMA RenderSettlesFrom ==
    ASSUME ui \in Pages, NEW o, From(o), NEW u \in Pages, NEW P \in SUBSET Loads, NEW W,
           RenderFrom(o, u, W, P), failedLoads \subseteq LoadKinds, LoadsFor(P, Here),
           o = ui => SummarySettles(u, Here, crossed, failedLoads, P),
           o = ui /\ u.activeNavId = ui.activeNavId => DetailSettles(u, Here, crossed, failedLoads, P)
    PROVE  /\ loads' \subseteq Loads /\ failedLoads' \subseteq LoadKinds
           /\ LoadsFor(loads', Here')
           /\ SummarySettles(ui', Here', crossed', failedLoads', loads')
           /\ DetailSettles(ui', Here', crossed', failedLoads', loads')
  <1>1. PICK v \in SelectFirst(u) :
            /\ ui' = IF Moved(o, v) THEN ClearPanels(SeedSelection(v)) ELSE SeedSelection(v)
            /\ loads' = DetailLoads(SummaryLoads(P, o, v), o, v)
            /\ failedLoads' = failedLoads \ Restarted(o, v)
            /\ Moved(o, v) \/ crossed' = (crossed \/ Foreign(W \ handlers, v))
    BY DEF RenderFrom
  <1> DEFINE c == RegisteredChannel(v)
             nav == v.activeNavId
             s == SeedSelection(v)
             m == SummaryLoads(P, o, v)
  <1>2. v \in Pages /\ SameContent(u, v) /\ nav = u.activeNavId
    BY FirstPage
  <1>3. /\ s \in Pages /\ s.panels = v.panels /\ s.activeNavId = nav /\ RegisteredChannel(s) = c
    BY <1>2, SeedPage
  <1>4. c \in Shown /\ nav \in Workspaces
    BY <1>2, ChannelShown DEF Pages
  <1>5. \A K, Q : Q \in SUBSET Loads =>
          /\ Cancel(Q, K) \in SUBSET Loads
          /\ \A l \in Cancel(Q, K) : ~l.cancelled => l \in Q /\ l.kind \notin K
          /\ \A l \in Q : l.kind \notin K => l \in Cancel(Q, K)
    BY DEF Cancel, Loads
  <1>6. \A k \in LoadKinds : c # None =>
          /\ NewLoad(k, c) \in Loads /\ NewLoad(k, c).kind = k
          /\ NewLoad(k, c).channel = c
    BY <1>4 DEF NewLoad, Loads, Shown
  <1>7. CASE Moved(o, v)
    <2>1. LoadKinds = {"summary", "channels", "library"} /\ Turned(o, v)
          /\ Restarted(o, v) = LoadKinds
      BY <1>7 DEF Turned, Restarted, LoadKinds
    <2>2. Here' = c /\ ui'.activeNavId = nav /\ failedLoads' = {}
      BY <1>1, <1>3, <1>7, <2>1, ClearPage DEF Here
    <2>3. /\ m = Cancel(P, {"summary"}) \cup (IF c = None THEN {} ELSE {NewLoad("summary", c)})
          /\ loads' = Cancel(m, {"channels", "library"})
                      \cup (IF c = None \/ nav \notin {"channels", "library"} THEN {}
                            ELSE {NewLoad(nav, c)})
      BY <1>1, <2>1 DEF SummaryLoads, DetailLoads
    <2> HIDE DEF m, s, c, nav
    <2>4. m \in SUBSET Loads /\ \A l \in m : ~l.cancelled => l.channel = c \/ l.kind # "summary"
      BY <1>5, <1>6, <2>1, <2>3
    <2>5. loads' \subseteq Loads /\ LoadsFor(loads', c)
      <3>1. Cancel(m, {"channels", "library"}) \in SUBSET Loads
            /\ \A l \in Cancel(m, {"channels", "library"}) : ~l.cancelled =>
                  l \in m /\ l.kind \notin {"channels", "library"}
        BY <1>5, <2>4
      <3>2. \A l \in Loads : l.kind \in LoadKinds
        BY DEF Loads
      <3>3. \A l \in Cancel(m, {"channels", "library"}) : ~l.cancelled => l.channel = c
        BY <2>1, <2>4, <3>1, <3>2
      <3> QED BY <1>6, <2>1, <2>3, <3>1, <3>3 DEF LoadsFor
    <2>6. c # None => NewLoad("summary", c) \in loads'
      <3>1. c # None => NewLoad("summary", c) \in m
        BY <2>3
      <3> QED BY <1>5, <1>6, <2>1, <2>3, <2>4, <3>1
    <2>7. c # None /\ nav = "channels" => NewLoad("channels", c) \in loads'
      BY <2>3
    <2> QED
      BY <2>2, <2>5, <2>6, <2>7 DEF SummarySettles, DetailSettles
  <1>8. CASE ~Moved(o, v) /\ nav # ui.activeNavId
    <2>0. o = ui
      BY <1>2, <1>8 DEF From
    <2>1. Turned(o, v) /\ Restarted(o, v) = {"channels", "library"}
          /\ "summary" \notin Restarted(o, v)
      BY <1>8, <2>0 DEF Turned, Restarted
    <2>2. Here' = c /\ ui' = s /\ (~crossed' => ~crossed) /\ c = Here
      BY <1>1, <1>3, <1>8, <2>0 DEF Here, Moved
    <2>3. m = P
      BY <2>1 DEF SummaryLoads
    <2>4. loads' = Cancel(P, {"channels", "library"})
                      \cup (IF c = None \/ nav \notin {"channels", "library"} THEN {}
                            ELSE {NewLoad(nav, c)})
      BY <1>1, <2>1, <2>3 DEF DetailLoads
    <2> HIDE DEF m, s, c, nav
    <2>5. loads' \subseteq Loads /\ LoadsFor(loads', c)
      <3>1. "channels" \in LoadKinds /\ "library" \in LoadKinds
        BY DEF LoadKinds
      <3> QED BY <1>5, <1>6, <2>2, <2>4, <3>1 DEF LoadsFor
    <2>6. c # None /\ NewLoad("summary", c) \in P => NewLoad("summary", c) \in loads'
      <3>1. "summary" \in LoadKinds
        BY DEF LoadKinds
      <3> QED BY <1>5, <1>6, <2>4, <3>1
    <2>7. SummarySettles(s, c, crossed', failedLoads', loads')
      BY <1>1, <1>2, <1>3, <2>0, <2>1, <2>2, <2>6 DEF SummarySettles, SameContent
    <2>8. c # None /\ nav = "channels" => NewLoad("channels", c) \in loads'
      BY <2>4
    <2>9. DetailSettles(s, c, crossed', failedLoads', loads')
      BY <1>3, <2>8 DEF DetailSettles
    <2> QED
      BY <1>1, <2>2, <2>5, <2>7, <2>9
  <1>9. CASE ~Moved(o, v) /\ nav = ui.activeNavId
    <2>0. o = ui
      BY <1>2, <1>9 DEF From
    <2>1. ~Turned(o, v) /\ Restarted(o, v) = {}
      BY <1>9, <2>0 DEF Turned, Restarted
    <2>2. Here' = c /\ ui' = s /\ (~crossed' => ~crossed) /\ c = Here
      BY <1>1, <1>3, <1>9, <2>0 DEF Here, Moved
    <2>3. loads' = P /\ failedLoads' = failedLoads
      BY <1>1, <2>1 DEF SummaryLoads, DetailLoads
    <2>4. s.panels = u.panels /\ s.activeNavId = u.activeNavId /\ u.activeNavId = ui.activeNavId
      BY <1>2, <1>3, <1>9 DEF SameContent
    <2> HIDE DEF s, c, nav
    <2> QED
      BY <2>0, <2>2, <2>3, <2>4 DEF SummarySettles, DetailSettles
  <1> QED
    BY <1>7, <1>8, <1>9

LEMMA RenderSettles ==
    ASSUME ui \in Pages, NEW u \in Pages, NEW P \in SUBSET Loads, NEW W, Render(u, W, P),
           failedLoads \subseteq LoadKinds, LoadsFor(P, Here),
           SummarySettles(u, Here, crossed, failedLoads, P),
           u.activeNavId = ui.activeNavId => DetailSettles(u, Here, crossed, failedLoads, P)
    PROVE  /\ loads' \subseteq Loads /\ failedLoads' \subseteq LoadKinds
           /\ LoadsFor(loads', Here')
           /\ SummarySettles(ui', Here', crossed', failedLoads', loads')
           /\ DetailSettles(ui', Here', crossed', failedLoads', loads')
  <1>1. From(ui) /\ RenderFrom(ui, u, W, P)
    BY DEF From, Render
  <1> QED BY <1>1, RenderSettlesFrom

\* Who waits when another channel is selected has crossed, unless it is of that channel.
LEMMA RenderHandlers ==
    ASSUME NEW o, From(o), NEW u \in Pages, NEW W, NEW P, RenderFrom(o, u, W, P),
           HandlersFor(W \cap handlers, Here, crossed),
           \A h \in W \ handlers : Carries(h) => h.channel \in Channels
    PROVE  HandlersFor(W, Here', crossed')
  <1>1. PICK v \in SelectFirst(u) :
            /\ ui' = IF Moved(o, v) THEN ClearPanels(SeedSelection(v)) ELSE SeedSelection(v)
            /\ crossed' = IF Moved(o, v) THEN Foreign(W, v)
                          ELSE crossed \/ Foreign(W \ handlers, v)
    BY DEF RenderFrom
  <1>2. Here' = RegisteredChannel(v)
    <2>1. v \in Pages
      BY FirstPage
    <2>2. SeedSelection(v) \in Pages /\ RegisteredChannel(SeedSelection(v)) = RegisteredChannel(v)
      BY <2>1, SeedPage
    <2>3. RegisteredChannel(ClearPanels(SeedSelection(v))) = RegisteredChannel(v)
      BY <2>2, ClearPage
    <2> QED BY <1>1, <2>2, <2>3 DEF Here
  <1>3. \A h \in W : Carries(h) => h.channel \in Channels
    BY DEF HandlersFor
  <1>4. CASE Moved(o, v)
    <2>1. ~crossed' => \A h \in W : Carries(h) => h.channel = RegisteredChannel(v)
      BY <1>1, <1>4 DEF Foreign
    <2> QED BY <1>2, <1>3, <2>1 DEF HandlersFor
  <1>5. CASE ~Moved(o, v)
    <2>0. o = ui
      BY <1>5, FirstPage DEF From
    <2>1. RegisteredChannel(v) = Here
      BY <1>5, <2>0 DEF Moved, Here
    <2>2. ~crossed' => ~crossed /\ \A h \in W \ handlers : Carries(h) => h.channel = RegisteredChannel(v)
      BY <1>1, <1>5 DEF Foreign
    <2>3. ASSUME NEW h \in W, Carries(h), ~crossed' PROVE h.channel = Here'
      <3>1. CASE h \in handlers
        BY <1>2, <2>1, <2>2, <2>3, <3>1 DEF HandlersFor
      <3>2. CASE h \notin handlers
        BY <1>2, <2>2, <2>3, <3>2
      <3> QED BY <3>1, <3>2
    <2> QED BY <1>3, <2>3 DEF HandlersFor
  <1> QED
    BY <1>4, <1>5

-----------------------------------------------------------------------------
(* The invariant: the page, the handlers in flight, the bounds.            *)

PageOK ==
    /\ ui \in Pages /\ loads \subseteq Loads /\ failedLoads \subseteq LoadKinds
    /\ crossed \in BOOLEAN /\ kept \in BOOLEAN
    /\ ShownFor(ui, Here, crossed, kept) /\ SeededFor(ui, Here)
    /\ SummarySettles(ui, Here, crossed, failedLoads, loads)
    /\ DetailSettles(ui, Here, crossed, failedLoads, loads)
    /\ LoadsFor(loads, Here)
    /\ Here = None => ~ui.dashboard

\* A probe has one await; the demo's channel is known after the first.
Staged(hs) ==
    \A h \in hs : /\ h.op = "probe" => h.at = "call"
                  /\ h.at \in {"workspace", "queue"} => h.channel \in Channels

HandlersOK ==
    /\ handlers \subseteq Handlers /\ Staged(handlers)
    /\ HandlersFor(handlers, Here, crossed)

TableOK == jobStatus \in [Jobs -> JobStatuses \cup {None}]

Budgeted ==
    \E b \in Budgets : left \in [switches : 0..b.switches, calls : 0..b.calls,
                                 failures : 0..b.failures, ops : {b.ops}]

ConsoleInv == PageOK /\ HandlersOK /\ TableOK /\ Budgeted

\* u can be written for the channel that is selected.
Fits(u) ==
    /\ u \in Pages /\ u.activeNavId = ui.activeNavId
    /\ ShownFor(u, Here, crossed, kept)
    /\ SummarySettles(u, Here, crossed, failedLoads, loads)
    /\ DetailSettles(u, Here, crossed, failedLoads, loads)

LEMMA PageFits == PageOK => Fits(ui)
  BY DEF PageOK, Fits

LEMMA SameFits ==
    ASSUME NEW u, Fits(u), NEW v \in Pages, SameContent(u, v), v.activeNavId = u.activeNavId
    PROVE  Fits(v)
  BY DEF Fits, ShownFor, SummarySettles, DetailSettles, SameContent

LEMMA FillFits ==
    ASSUME NEW u, Fits(u), NEW names, NEW c \in Channels, ~crossed => c = Here
    PROVE  Fits(Fill(u, names, c))
  <1> DEFINE v == Fill(u, names, c)
  <1>1. /\ v \in Pages
        /\ \A p \in PanelNames : v.panels[p] = IF p \in names THEN c ELSE u.panels[p]
        /\ v.downloadJobs = u.downloadJobs /\ v.selectedJobIds = u.selectedJobIds
        /\ v.selectionSeedKey = u.selectionSeedKey /\ v.activeNavId = u.activeNavId
    BY FillPage DEF Fits, Shown
  <1>2. ClearedOnSwitch \subseteq PanelNames /\ Detailed \subseteq PanelNames
    BY DEF ClearedOnSwitch, Detailed, PanelNames
  <1> HIDE DEF v
  <1>3. ShownFor(v, Here, crossed, kept)
    BY <1>1, <1>2 DEF Fits, ShownFor
  <1>4. SummarySettles(v, Here, crossed, failedLoads, loads)
    BY <1>1, <1>2 DEF Fits, SummarySettles
  <1>5. DetailSettles(v, Here, crossed, failedLoads, loads)
    BY <1>1 DEF Fits, DetailSettles
  <1> QED
    BY <1>1, <1>3, <1>4, <1>5 DEF Fits, v

\* A list, and a selection, of the channel.
LEMMA ListFits ==
    ASSUME NEW u, Fits(u), NEW v \in Pages, v.panels = u.panels, v.activeNavId = u.activeNavId,
           v.selectionSeedKey = u.selectionSeedKey,
           ~crossed => /\ \A j \in DOMAIN v.downloadJobs : ChannelOf[j] = Here
                       /\ \/ v.selectedJobIds \subseteq u.selectedJobIds
                          \/ v.selectedJobIds \subseteq JobsOf(Here)
    PROVE  Fits(v)
  <1>1. ShownFor(v, Here, crossed, kept)
    BY DEF Fits, ShownFor
  <1>2. SummarySettles(v, Here, crossed, failedLoads, loads)
    BY DEF Fits, SummarySettles
  <1>3. DetailSettles(v, Here, crossed, failedLoads, loads)
    BY DEF Fits, DetailSettles
  <1> QED
    BY <1>1, <1>2, <1>3 DEF Fits

LEMMA ApplyFits ==
    ASSUME TableOK, NEW u, Fits(u), NEW c, ~crossed => c = Here
    PROVE  Fits(ApplyDownloadJobs(u, c))
  <1> DEFINE v == ApplyDownloadJobs(u, c)
  <1>1. /\ v \in Pages
        /\ v.panels = u.panels /\ v.downloadJobs = JobsSeen(c)
        /\ v.selectedJobIds \subseteq u.selectedJobIds
        /\ v.selectionSeedKey = u.selectionSeedKey /\ v.activeNavId = u.activeNavId
    BY ApplyPage DEF TableOK, Fits
  <1>2. \A j \in DOMAIN JobsSeen(c) : ChannelOf[j] = c
    BY JobsSeenOf DEF TableOK, JobsOf
  <1> HIDE DEF v
  <1> QED
    BY <1>1, <1>2, ListFits DEF v

-----------------------------------------------------------------------------
(* Steps that render.                                                      *)

LEMMA RenderKeeps ==
    ASSUME PageOK, HandlersOK, NEW u \in Pages, NEW P \in SUBSET loads, NEW W,
           \A h \in W \ handlers : Carries(h) => h.channel \in Channels,
           Render(u, W, P), ShownFor(u, Here, crossed, kept),
           SummarySettles(u, Here, crossed, failedLoads, P),
           u.activeNavId = ui.activeNavId => DetailSettles(u, Here, crossed, failedLoads, P)
    PROVE  PageOK' /\ HandlersFor(W, Here', crossed')
  <1>1. /\ ui' \in Pages
        /\ ShownFor(ui', Here', crossed', kept') /\ SeededFor(ui', Here')
        /\ Here' = None => ~ui'.dashboard
        /\ crossed' \in BOOLEAN /\ kept' \in BOOLEAN
    BY RenderShows DEF PageOK
  <1>2. P \in SUBSET Loads /\ LoadsFor(P, Here)
    BY DEF PageOK, LoadsFor
  <1>3. /\ loads' \subseteq Loads /\ failedLoads' \subseteq LoadKinds
        /\ LoadsFor(loads', Here')
        /\ SummarySettles(ui', Here', crossed', failedLoads', loads')
        /\ DetailSettles(ui', Here', crossed', failedLoads', loads')
    BY <1>2, RenderSettles DEF PageOK
  <1>4. HandlersFor(W \cap handlers, Here, crossed) /\ From(ui) /\ RenderFrom(ui, u, W, P)
    BY DEF HandlersOK, HandlersFor, From, Render
  <1>5. HandlersFor(W, Here', crossed')
    BY <1>4, RenderHandlers
  <1> QED
    BY <1>1, <1>3, <1>5 DEF PageOK

\* What fits is written.
LEMMA FitsKeeps ==
    ASSUME PageOK, HandlersOK, NEW u, Fits(u), NEW W \in SUBSET handlers, Render(u, W, loads)
    PROVE  PageOK' /\ HandlersFor(W, Here', crossed')
  <1>1. /\ u \in Pages /\ ShownFor(u, Here, crossed, kept)
        /\ SummarySettles(u, Here, crossed, failedLoads, loads)
        /\ DetailSettles(u, Here, crossed, failedLoads, loads)
    BY DEF Fits
  <1> QED
    BY <1>1, RenderKeeps

\* The content stays, the channel or the workspace may change.
LEMMA TurnKeeps ==
    ASSUME PageOK, HandlersOK, NEW u \in Pages, SameContent(ui, u), NEW W,
           \A h \in W \ handlers : Carries(h) => h.channel \in Channels, Render(u, W, loads)
    PROVE  PageOK' /\ HandlersFor(W, Here', crossed')
  <1>1. ShownFor(u, Here, crossed, kept)
    BY DEF PageOK, ShownFor, SameContent
  <1>2. SummarySettles(u, Here, crossed, failedLoads, loads)
    BY DEF PageOK, SummarySettles, SameContent
  <1>3. u.activeNavId = ui.activeNavId => DetailSettles(u, Here, crossed, failedLoads, loads)
    BY DEF PageOK, DetailSettles, SameContent
  <1> QED
    BY <1>1, <1>2, <1>3, RenderKeeps

\* The channel stays, for it needs no other.
LEMMA RenderStays ==
    ASSUME PageOK, NEW u, Fits(u), NEW W \in SUBSET handlers, NEW P, Render(u, W, P),
           RegisteredChannel(u) = Here, u.dashboard = ui.dashboard \/ Here # None
    PROVE  Here' = Here /\ crossed' = crossed
  <1>1. Here # None \/ ~u.dashboard
    BY DEF PageOK
  <1>2. u \in Pages /\ ShownFor(u, Here, crossed, kept)
    BY DEF Fits
  <1> QED
    BY <1>1, <1>2, RenderShows DEF PageOK

\* A step that leaves content and channel alone.
LEMMA PageStays ==
    ASSUME PageOK, ui' \in Pages, SameContent(ui, ui'), ui'.activeNavId = ui.activeNavId,
           ui'.dashboard = ui.dashboard, RegisteredChannel(ui') = RegisteredChannel(ui),
           UNCHANGED <<loads, failedLoads, crossed, kept>>
    PROVE  PageOK' /\ Here' = Here
  <1>1. Here' = Here
    BY DEF Here
  <1>2. ShownFor(ui', Here, crossed, kept) /\ SeededFor(ui', Here)
    BY DEF PageOK, ShownFor, SeededFor, SameContent, LaunchableJobs
  <1>3. SummarySettles(ui', Here, crossed, failedLoads, loads)
    BY DEF PageOK, SummarySettles, SameContent
  <1>4. DetailSettles(ui', Here, crossed, failedLoads, loads)
    BY DEF PageOK, DetailSettles, SameContent
  <1> QED
    BY <1>1, <1>2, <1>3, <1>4 DEF PageOK

-----------------------------------------------------------------------------
(* Bounds and handlers.                                                    *)

LEMMA Spent ==
    ASSUME Budgeted
    PROVE  /\ left.switches > 0 /\ left' = [left EXCEPT !.switches = @ - 1] => Budgeted'
           /\ left.calls > 0 /\ left' = [left EXCEPT !.calls = @ - 1] => Budgeted'
           /\ Fails => Budgeted'
           /\ UNCHANGED left => Budgeted'
  <1>1. PICK b \in Budgets : left \in [switches : 0..b.switches, calls : 0..b.calls,
                                       failures : 0..b.failures, ops : {b.ops}]
    BY DEF Budgeted
  <1>2. b.switches \in Nat /\ b.calls \in Nat /\ b.failures \in Nat
    BY BoundsAssumption
  <1>3. ASSUME left.switches > 0, left' = [left EXCEPT !.switches = @ - 1] PROVE Budgeted'
    BY <1>1, <1>2, <1>3 DEF Budgeted
  <1>4. ASSUME left.calls > 0, left' = [left EXCEPT !.calls = @ - 1] PROVE Budgeted'
    BY <1>1, <1>2, <1>4 DEF Budgeted
  <1>5. ASSUME Fails PROVE Budgeted'
    BY <1>1, <1>2, <1>5 DEF Budgeted, Fails
  <1>6. ASSUME UNCHANGED left PROVE Budgeted'
    BY <1>6 DEF Budgeted
  <1> QED
    BY <1>3, <1>4, <1>5, <1>6

LEMMA BeginKeeps ==
    ASSUME ConsoleInv, NEW hs \in SUBSET handlers, NEW op \in Ops,
           NEW at \in Stages \ {"workspace", "queue"},
           NEW ids \in SUBSET Jobs, NEW u \in Pages, SameContent(ui, u),
           BeginIn(hs, op, at, ids, u), op = "probe" => at = "call",
           \/ op = "probe" \/ (op = "commit" /\ at = "call") \/ at = "demo"
           \/ Here # None /\ RegisteredChannel(u) = Here /\ u.activeNavId = ui.activeNavId
    PROVE  ConsoleInv'
  <1> DEFINE k == [slot |-> FreeSlot(hs), op |-> op, at |-> at, ids |-> ids, channel |-> Here]
  <1>1. /\ Render(u, hs, loads) /\ handlers' = hs \cup {k} /\ FreeSlots(hs) # {}
        /\ left.calls > 0 /\ left' = [left EXCEPT !.calls = @ - 1] /\ UNCHANGED jobStatus
    BY DEF BeginIn, Here
  <1>2. PageOK' /\ HandlersFor(hs, Here', crossed')
    BY <1>1, TurnKeeps DEF ConsoleInv
  <1>3. k \in Handlers
    <2>1. FreeSlot(hs) \in 1..MaxHandlers
      BY <1>1 DEF FreeSlot, FreeSlots
    <2>2. Here \in Shown
      BY ChannelShown DEF ConsoleInv, PageOK, Here
    <2> QED BY <2>1, <2>2 DEF Handlers, Shown
  <1>4. k.op = op /\ k.at = at /\ k.channel = Here
    OBVIOUS
  <1> HIDE DEF k
  <1>5. Carries(k) => k.channel \in Channels /\ (~crossed' => k.channel = Here')
    <2>1. CASE op = "probe" \/ (op = "commit" /\ at = "call") \/ at = "demo"
      BY <1>4, <2>1 DEF Carries, DemoStages
    <2>2. CASE Here # None /\ RegisteredChannel(u) = Here /\ u.activeNavId = ui.activeNavId
      <3>1. Fits(u)
        BY <2>2, PageFits, SameFits DEF ConsoleInv
      <3>2. Here' = Here /\ crossed' = crossed
        BY <1>1, <2>2, <3>1, RenderStays DEF ConsoleInv
      <3>3. Here \in Channels
        BY <2>2, ChannelShown DEF ConsoleInv, PageOK, Here, Shown
      <3> QED BY <1>4, <3>2, <3>3
    <2> QED BY <2>1, <2>2
  <1>6. HandlersOK'
    <2>1. hs \subseteq Handlers /\ Staged(hs)
      BY DEF ConsoleInv, HandlersOK, Staged
    <2>2. handlers' \subseteq Handlers
      BY <1>1, <1>3, <2>1
    <2>3. Staged(handlers')
      BY <1>1, <1>4, <2>1 DEF Staged
    <2>4. HandlersFor(handlers', Here', crossed')
      BY <1>1, <1>2, <1>5 DEF HandlersFor
    <2> QED BY <2>2, <2>3, <2>4 DEF HandlersOK
  <1>7. TableOK' /\ Budgeted'
    BY <1>1, Spent DEF ConsoleInv, TableOK
  <1> QED
    BY <1>2, <1>6, <1>7 DEF ConsoleInv

\* A handler that goes on is of the same channel and operation.
LEMMA GoneOn ==
    ASSUME HandlersOK, NEW h \in handlers, Carries(h), NEW at \in Stages, at # "call", GoesOn(h, at),
           HandlersFor(handlers \ {h}, Here', crossed'), ~crossed' => h.channel = Here'
    PROVE  HandlersOK'
  <1> DEFINE k == [h EXCEPT !.at = at, !.ids = {}]
  <1>1. handlers' = (handlers \ {h}) \cup {k}
    BY DEF GoesOn
  <1>2. k \in Handlers
    BY DEF HandlersOK, Handlers
  <1>3. k.op = h.op /\ k.at = at /\ k.channel = h.channel
    BY DEF HandlersOK, Handlers
  <1>4. h.op # "probe" /\ h.channel \in Channels
    BY DEF Carries, HandlersOK, HandlersFor
  <1> HIDE DEF k
  <1>5. handlers' \subseteq Handlers
    BY <1>1, <1>2 DEF HandlersOK
  <1>6. Staged(handlers')
    BY <1>1, <1>3, <1>4 DEF HandlersOK, Staged
  <1>7. HandlersFor(handlers', Here', crossed')
    BY <1>1, <1>3, <1>4 DEF HandlersFor
  <1> QED
    BY <1>5, <1>6, <1>7 DEF HandlersOK

LEMMA Ended ==
    ASSUME HandlersOK, NEW h, Ends(h), HandlersFor(handlers \ {h}, Here', crossed')
    PROVE  HandlersOK'
  BY DEF HandlersOK, Staged, Ends

\* The channel of a handler that carries an answer.
LEMMA Carried ==
    ASSUME HandlersOK, NEW h \in handlers, Carries(h)
    PROVE  h.channel \in Channels /\ (~crossed => h.channel = Here)
  BY DEF HandlersOK, HandlersFor

LEMMA Carrying ==
    ASSUME HandlersOK, NEW h \in handlers
    PROVE  /\ h.at \notin {"call"} \cup DemoStages => Carries(h)
           /\ h.op \notin {"probe", "commit"} /\ h.at \notin DemoStages => Carries(h)
           /\ h \in Handlers
  BY DEF HandlersOK, Staged, Carries, DemoStages

\* An answer is written and its handler ends, or goes on to its next await.
LEMMA AnswerEnds ==
    ASSUME ConsoleInv, NEW h \in handlers, NEW u, Fits(u), Writes(h, u), Ends(h)
    PROVE  ConsoleInv'
  <1>1. Render(u, handlers \ {h}, loads) /\ UNCHANGED <<jobStatus, left>>
    BY DEF Writes
  <1>2. PageOK' /\ HandlersFor(handlers \ {h}, Here', crossed')
    BY <1>1, FitsKeeps DEF ConsoleInv
  <1>3. HandlersOK'
    BY <1>2, Ended DEF ConsoleInv
  <1> QED
    BY <1>1, <1>2, <1>3, Spent DEF ConsoleInv, TableOK

LEMMA AnswerGoesOn ==
    ASSUME ConsoleInv, NEW h \in handlers, Carries(h), NEW u, Fits(u), Writes(h, u),
           RegisteredChannel(u) = Here, u.dashboard = ui.dashboard,
           NEW at \in Stages, at # "call", GoesOn(h, at)
    PROVE  ConsoleInv'
  <1>1. Render(u, handlers \ {h}, loads) /\ UNCHANGED <<jobStatus, left>>
    BY DEF Writes
  <1>2. PageOK' /\ HandlersFor(handlers \ {h}, Here', crossed')
    BY <1>1, FitsKeeps DEF ConsoleInv
  <1>3. Here' = Here /\ crossed' = crossed
    BY <1>1, RenderStays DEF ConsoleInv
  <1>4. HandlersOK'
    BY <1>2, <1>3, Carried, GoneOn DEF ConsoleInv
  <1> QED
    BY <1>1, <1>2, <1>4, Spent DEF ConsoleInv, TableOK

\* A handler goes on, or ends, while the page keeps content and channel.
LEMMA QuietKeeps ==
    ASSUME ConsoleInv, NEW h \in handlers,
           Ends(h) \/ (Carries(h) /\ \E at \in Stages \ {"call"} : GoesOn(h, at)),
           ui' \in Pages, SameContent(ui, ui'), ui'.activeNavId = ui.activeNavId,
           ui'.dashboard = ui.dashboard, RegisteredChannel(ui') = RegisteredChannel(ui),
           UNCHANGED <<loads, failedLoads, crossed, kept>>, TableOK', Budgeted'
    PROVE  ConsoleInv'
  <1>1. PageOK' /\ Here' = Here
    BY PageStays DEF ConsoleInv
  <1>2. HandlersFor(handlers \ {h}, Here', crossed')
    BY <1>1 DEF ConsoleInv, HandlersOK, HandlersFor
  <1>3. CASE Ends(h)
    BY <1>1, <1>2, <1>3, Ended DEF ConsoleInv
  <1>4. CASE Carries(h) /\ \E at \in Stages \ {"call"} : GoesOn(h, at)
    BY <1>1, <1>2, <1>4, Carried, GoneOn DEF ConsoleInv
  <1> QED
    BY <1>3, <1>4

-----------------------------------------------------------------------------
(* The operator's steps.                                                   *)

\* v is u with other statuses.
Restated(u, v) ==
    /\ v \in Pages /\ SameContent(u, v) /\ v.activeNavId = u.activeNavId
    /\ v.dashboard = u.dashboard /\ RegisteredChannel(v) = RegisteredChannel(u)

LEMMA Statuses ==
    ASSUME NEW u \in Pages
    PROVE  /\ Restated(u, u)
           /\ \A s \in {"idle", "syncing", "downloading", "bulk", "preflight"} :
                 Restated(u, [u EXCEPT !.workflowStatus = s])
           /\ \A s \in {"idle", "probing", "committing"} :
                 Restated(u, [u EXCEPT !.registrationStatus = s])
           /\ \A s \in {"idle", "running"} : Restated(u, [u EXCEPT !.liveDownloadStatus = s])
           /\ \A b \in BOOLEAN : Restated(u, [u EXCEPT !.liveDownloadConfirmOpen = b])
           /\ \A p \in {None} \cup SUBSET Jobs : Restated(u, [u EXCEPT !.preflightPlan = p])
  <1>1. Restated(u, u)
    BY DEF Restated, SameContent
  <1>2. \A s \in {"idle", "syncing", "downloading", "bulk", "preflight"} :
           Restated(u, [u EXCEPT !.workflowStatus = s])
    BY DEF Restated, SameContent, RegisteredChannel, Pages
  <1>3. \A s \in {"idle", "probing", "committing"} :
           Restated(u, [u EXCEPT !.registrationStatus = s])
    BY DEF Restated, SameContent, RegisteredChannel, Pages
  <1>4. \A s \in {"idle", "running"} : Restated(u, [u EXCEPT !.liveDownloadStatus = s])
    BY DEF Restated, SameContent, RegisteredChannel, Pages
  <1>5. \A b \in BOOLEAN : Restated(u, [u EXCEPT !.liveDownloadConfirmOpen = b])
    BY DEF Restated, SameContent, RegisteredChannel, Pages
  <1>6. \A p \in {None} \cup SUBSET Jobs : Restated(u, [u EXCEPT !.preflightPlan = p])
    BY DEF Restated, SameContent, RegisteredChannel, Pages
  <1> QED
    BY <1>1, <1>2, <1>3, <1>4, <1>5, <1>6

LEMMA RestatedTwice ==
    ASSUME NEW u, NEW v, NEW w, Restated(u, v), Restated(v, w)
    PROVE  Restated(u, w)
  BY DEF Restated, SameContent

LEMMA IdleStatus ==
    ASSUME NEW u \in Pages
    PROVE  Restated(u, Idle(u))
  BY Statuses DEF Idle

LEMMA LiveEndsStatus ==
    ASSUME NEW u \in Pages
    PROVE  Restated(u, LiveEnds(u))
  <1> DEFINE v == [u EXCEPT !.liveDownloadStatus = "idle"]
             w == [v EXCEPT !.liveDownloadConfirmOpen = FALSE]
  <1>1. Restated(u, v)
    BY Statuses
  <1>2. w = LiveEnds(u)
    BY DEF LiveEnds, Pages
  <1> HIDE DEF v
  <1>3. Restated(v, w)
    BY <1>1, Statuses DEF Restated
  <1> HIDE DEF w
  <1> QED
    BY <1>1, <1>2, <1>3, RestatedTwice

LEMMA RestatedFits ==
    ASSUME NEW u, Fits(u), NEW v, Restated(u, v)
    PROVE  Fits(v)
  BY SameFits DEF Restated

LEMMA MovesKeeps ==
    ASSUME ConsoleInv, NEW u \in Pages, SameContent(ui, u), Moves(u)
    PROVE  ConsoleInv'
  <1>1. /\ Render(u, handlers, loads) /\ UNCHANGED <<handlers, jobStatus>>
        /\ left.switches > 0 /\ left' = [left EXCEPT !.switches = @ - 1]
    BY DEF Moves
  <1>2. PageOK' /\ HandlersFor(handlers, Here', crossed')
    BY <1>1, TurnKeeps DEF ConsoleInv
  <1> QED
    BY <1>1, <1>2, Spent DEF ConsoleInv, HandlersOK, TableOK

LEMMA MovingKeeps ==
    ASSUME ConsoleInv,
           \/ \E c \in Channels : HandleSelectChannelContext(c)
           \/ \E nav \in Workspaces : HandleSelectNav(nav)
           \/ OpenChannelRegistration \/ CloseChannelRegistration
           \/ \E nav \in Workspaces, c \in Channels \cup {None} : ApplyRouteFromHash(nav, c)
           \/ \E c \in Channels : HandleFocusMetadataDueChannel(c)
    PROVE  ConsoleInv'
  <1>0. ui \in Pages
    BY DEF ConsoleInv, PageOK
  <1>1. CASE \E c \in Channels : HandleSelectChannelContext(c)
    <2>1. PICK c \in Channels : Moves([ui EXCEPT !.registration = None, !.probe = None,
                                                 !.selectedChannelId = c, !.workflowStatus = "idle"])
      BY <1>1 DEF HandleSelectChannelContext
    <2> DEFINE u == [ui EXCEPT !.registration = None, !.probe = None,
                               !.selectedChannelId = c, !.workflowStatus = "idle"]
    <2>2. u \in Pages /\ SameContent(ui, u)
      BY <1>0 DEF Pages, SameContent
    <2> HIDE DEF u
    <2> QED BY <2>1, <2>2, MovesKeeps DEF u
  <1>2. CASE \E nav \in Workspaces : HandleSelectNav(nav)
    <2>1. PICK nav \in Workspaces : Moves([ui EXCEPT !.activeNavId = nav])
      BY <1>2 DEF HandleSelectNav
    <2> DEFINE u == [ui EXCEPT !.activeNavId = nav]
    <2>2. u \in Pages /\ SameContent(ui, u)
      BY <1>0 DEF Pages, SameContent
    <2> HIDE DEF u
    <2> QED BY <2>1, <2>2, MovesKeeps DEF u
  <1>3. CASE OpenChannelRegistration
    <2> DEFINE u == [ui EXCEPT !.registration = None, !.probe = None,
                               !.registrationStatus = "idle", !.activeNavId = "channels"]
    <2>1. Moves(u)
      BY <1>3 DEF OpenChannelRegistration
    <2>2. u \in Pages /\ SameContent(ui, u)
      BY <1>0 DEF Pages, SameContent, Workspaces
    <2> HIDE DEF u
    <2> QED BY <2>1, <2>2, MovesKeeps
  <1>4. CASE CloseChannelRegistration
    <2> DEFINE u == [ui EXCEPT !.registration = None, !.probe = None, !.registrationStatus = "idle"]
    <2>1. Moves(u)
      BY <1>4 DEF CloseChannelRegistration
    <2>2. u \in Pages /\ SameContent(ui, u)
      BY <1>0 DEF Pages, SameContent
    <2> HIDE DEF u
    <2> QED BY <2>1, <2>2, MovesKeeps
  <1>5. CASE \E nav \in Workspaces, c \in Channels \cup {None} : ApplyRouteFromHash(nav, c)
    <2>1. PICK nav \in Workspaces, c \in Channels \cup {None} : ApplyRouteFromHash(nav, c)
      BY <1>5
    <2> DEFINE d == IF c = None THEN ui.selectedChannelId ELSE c
               u == [ui EXCEPT !.activeNavId = nav, !.selectedChannelId = d]
    <2>2. Moves(u)
      BY <1>0, <2>1 DEF ApplyRouteFromHash, Pages
    <2>d. d \in Channels \cup {None}
      BY <1>0 DEF Pages
    <2> HIDE DEF d
    <2>3. u \in Pages /\ SameContent(ui, u)
      BY <1>0, <2>d DEF Pages, SameContent
    <2> HIDE DEF u
    <2> QED BY <2>2, <2>3, MovesKeeps
  <1>6. CASE \E c \in Channels : HandleFocusMetadataDueChannel(c)
    <2>1. PICK c \in Channels : HandleFocusMetadataDueChannel(c)
      BY <1>6
    <2> DEFINE u == [ui EXCEPT !.registration = None, !.probe = None,
                               !.selectedChannelId = c, !.workflowStatus = "idle"]
    <2>2. Moves(u)
      BY <2>1 DEF HandleFocusMetadataDueChannel
    <2>3. u \in Pages /\ SameContent(ui, u)
      BY <1>0 DEF Pages, SameContent
    <2> HIDE DEF u
    <2> QED BY <2>2, <2>3, MovesKeeps
  <1> QED
    BY <1>1, <1>2, <1>3, <1>4, <1>5, <1>6

\* The detail of an event: its load has crossed where the page keeps its channel.
LEMMA TargetKeeps ==
    ASSUME ConsoleInv, NEW c \in Channels, HandleOpenEventDetailChannelTarget(c)
    PROVE  ConsoleInv'
  <1> DEFINE u == [ui EXCEPT !.activeNavId = "channels", !.selectedChannelId = c,
                             !.workflowStatus = "idle"]
             k == [slot |-> FreeSlot(handlers), op |-> "target", at |-> "state",
                   ids |-> {}, channel |-> c]
  <1>1. /\ FreeSlots(handlers) # {} /\ handlers' = handlers \cup {k} /\ Render(u, handlers', loads)
        /\ left.calls > 0 /\ left' = [left EXCEPT !.calls = @ - 1] /\ UNCHANGED jobStatus
    BY DEF HandleOpenEventDetailChannelTarget
  <1>2. u \in Pages /\ SameContent(ui, u)
    BY DEF ConsoleInv, PageOK, Pages, SameContent, Workspaces
  <1>3. k \in Handlers
    <2>1. FreeSlot(handlers) \in 1..MaxHandlers
      BY <1>1 DEF FreeSlot, FreeSlots
    <2>2. "target" \in Ops /\ "state" \in Stages
      BY DEF Ops, Stages
    <2> QED BY <2>1, <2>2 DEF Handlers
  <1>4. k.op = "target" /\ k.at = "state" /\ k.channel = c
    OBVIOUS
  <1> HIDE DEF u, k
  <1>5. \A h \in handlers' \ handlers : Carries(h) => h.channel \in Channels
    BY <1>1, <1>4
  <1>6. PageOK' /\ HandlersFor(handlers', Here', crossed')
    <2> DEFINE W == handlers'
    <2>1. Render(u, W, loads) /\ \A h \in W \ handlers : Carries(h) => h.channel \in Channels
      BY <1>1, <1>5
    <2> HIDE DEF W
    <2>2. PageOK' /\ HandlersFor(W, Here', crossed')
      BY <1>2, <2>1, TurnKeeps DEF ConsoleInv
    <2> QED BY <2>2 DEF W
  <1>7. handlers' \subseteq Handlers /\ Staged(handlers')
    BY <1>1, <1>3, <1>4 DEF ConsoleInv, HandlersOK, Staged
  <1> QED
    BY <1>1, <1>6, <1>7, Spent DEF ConsoleInv, HandlersOK, TableOK

\* A handler of the channel that is selected.
LEMMA BegunKeeps ==
    ASSUME ConsoleInv, Here # None, NEW hs \in SUBSET handlers, NEW op \in Ops \ {"probe"},
           NEW at \in Stages \ {"workspace", "queue"}, NEW ids \in SUBSET Jobs,
           NEW u, Restated(ui, u),
           BeginIn(hs, op, at, ids, u)
    PROVE  ConsoleInv'
  BY BeginKeeps DEF Restated, Here

LEMMA BeginningKeeps ==
    ASSUME ConsoleInv,
           \/ HandleManualSync \/ HandleUpdateSyncInterval \/ HandlePolicyQuality
           \/ HandleToggleAutoDownload \/ HandleToggleWorkerPause
           \/ \E j \in Jobs : HandleRetryJob(j) \/ HandleCancelJob(j) \/ HandleStopJob(j)
           \/ HandleRetryFailedDownloads \/ HandleRunPreflight
           \/ \E op \in BulkCalls : HandleBulkQueueAction(op)
           \/ HandleWorkerDryRun \/ HandleRunLiveDownloadPass
           \/ \E type \in EventTypes : EventArrives(type)
           \/ OnReconnect
    PROVE  ConsoleInv'
  <1>0. ui \in Pages /\ handlers \in SUBSET handlers /\ {} \in SUBSET Jobs
    BY DEF ConsoleInv, PageOK
  <1>1. Restated(ui, ui)
        /\ \A s \in {"idle", "syncing", "downloading", "bulk", "preflight"} :
              Restated(ui, [ui EXCEPT !.workflowStatus = s])
    BY <1>0, Statuses
  <1>2. /\ {"call", "candidates", "timer", "state"} \subseteq Stages \ {"workspace", "queue"}
        /\ SingleCalls \cup BulkCalls \cup EventTypes \cup
           {"sync", "interval", "policy", "pause", "retryFailed", "preflight", "dryRun", "live",
            "reconnect"} \subseteq Ops \ {"probe"}
    BY DEF Stages, Ops, SingleCalls, BulkCalls, EventTypes
  <1>3. CASE HandleManualSync
    <2>1. Here # None /\ BeginIn(handlers, "sync", "call", {}, [ui EXCEPT !.workflowStatus = "syncing"])
      BY <1>3 DEF HandleManualSync, Begin, Here
    <2> QED BY <1>0, <1>1, <1>2, <2>1, BegunKeeps
  <1>4. CASE HandleUpdateSyncInterval \/ HandlePolicyQuality \/ HandleToggleAutoDownload
             \/ HandleToggleWorkerPause \/ HandleWorkerDryRun
    <2>1. PICK op \in {"interval", "policy", "pause", "dryRun"} :
             Here # None /\ BeginIn(handlers, op, "call", {}, ui)
      BY <1>4 DEF HandleUpdateSyncInterval, HandlePolicyQuality, HandleToggleAutoDownload,
         HandleToggleWorkerPause, HandleWorkerDryRun, Begin, Here
    <2> QED BY <1>0, <1>1, <1>2, <2>1, BegunKeeps
  <1>5. CASE \E j \in Jobs : HandleRetryJob(j) \/ HandleCancelJob(j) \/ HandleStopJob(j)
    <2>1. PICK j \in Jobs, op \in SingleCalls :
             Here # None /\ BeginIn(handlers, op, "call", {j}, ui)
      BY <1>5 DEF HandleRetryJob, HandleCancelJob, HandleStopJob, Begin, Here, SingleCalls
    <2>2. {j} \in SUBSET Jobs
      OBVIOUS
    <2> QED BY <1>0, <1>1, <1>2, <2>1, <2>2, BegunKeeps
  <1>6. CASE HandleRetryFailedDownloads
    <2>1. Here # None /\ BeginIn(handlers, "retryFailed", "call", FailedDownloadJobIds(ui),
                                 [ui EXCEPT !.workflowStatus = "bulk"])
      BY <1>6 DEF HandleRetryFailedDownloads, Begin, Here
    <2>2. FailedDownloadJobIds(ui) \in SUBSET Jobs
      BY <1>0 DEF FailedDownloadJobIds, Pages
    <2> QED BY <1>0, <1>1, <1>2, <2>1, <2>2, BegunKeeps
  <1>7. CASE HandleRunPreflight
    <2>1. Here # None /\ BeginIn(handlers, "preflight", "call", {},
                                 [ui EXCEPT !.workflowStatus = "preflight"])
      BY <1>7 DEF HandleRunPreflight, Begin, Here
    <2> QED BY <1>0, <1>1, <1>2, <2>1, BegunKeeps
  <1>8. CASE \E op \in BulkCalls : HandleBulkQueueAction(op)
    <2>1. PICK op \in BulkCalls : HandleBulkQueueAction(op)
      BY <1>8
    <2> DEFINE ids == IF ui.selectedJobIds # {} THEN ui.selectedJobIds
                      ELSE IF ui.preflightPlan # None THEN ui.preflightPlan ELSE {}
    <2>2. Here # None /\ BeginIn(handlers, op, "call", ids, [ui EXCEPT !.workflowStatus = "bulk"])
      BY <2>1 DEF HandleBulkQueueAction, Begin, Here
    <2>3. ids \in SUBSET Jobs
      BY <1>0 DEF Pages
    <2> HIDE DEF ids
    <2> QED BY <1>0, <1>1, <1>2, <2>2, <2>3, BegunKeeps
  <1>9. CASE HandleRunLiveDownloadPass
    <2> DEFINE v == [ui EXCEPT !.liveDownloadStatus = "running"]
               u == [v EXCEPT !.workflowStatus = "downloading"]
    <2>1. Here # None /\ BeginIn(handlers, "live", "candidates", {}, u)
      <3>1. u = [ui EXCEPT !.liveDownloadStatus = "running", !.workflowStatus = "downloading"]
        BY <1>0 DEF Pages
      <3> QED BY <1>9, <3>1 DEF HandleRunLiveDownloadPass, Begin, Here
    <2>2. Restated(ui, v)
      BY <1>0, Statuses
    <2> HIDE DEF v
    <2>3. Restated(v, u)
      BY <2>2, Statuses DEF Restated
    <2> HIDE DEF u
    <2>4. Restated(ui, u)
      BY <2>2, <2>3, RestatedTwice
    <2> QED BY <1>0, <1>2, <2>1, <2>4, BegunKeeps
  <1>10. CASE \E type \in EventTypes : EventArrives(type)
    <2>1. PICK type \in EventTypes :
             Here # None /\ BeginIn({h \in handlers : h.at # "timer"}, type, "timer", {}, ui)
      BY <1>10 DEF EventArrives, Here
    <2>2. {h \in handlers : h.at # "timer"} \in SUBSET handlers
      OBVIOUS
    <2> QED BY <1>0, <1>1, <1>2, <2>1, <2>2, BegunKeeps
  <1>11. CASE OnReconnect
    <2>1. Here # None /\ BeginIn(handlers, "reconnect", "state", {}, ui)
      BY <1>11 DEF OnReconnect, Begin, Here
    <2> QED BY <1>0, <1>1, <1>2, <2>1, BegunKeeps
  <1> QED
    BY <1>3, <1>4, <1>5, <1>6, <1>7, <1>8, <1>9, <1>10, <1>11

LEMMA RegistrationKeeps ==
    ASSUME ConsoleInv,
           \/ RunChannelProbe \/ HandleCommit
           \/ HandleSeedDemoWorkspace \/ HandleClearDemoWorkspace
    PROVE  ConsoleInv'
  <1>0. /\ ui \in Pages /\ handlers \in SUBSET handlers /\ {} \in SUBSET Jobs
        /\ {"call", "demo"} \subseteq Stages \ {"workspace", "queue"}
        /\ {"probe", "commit", "seed", "clear"} \subseteq Ops
    BY DEF ConsoleInv, PageOK, Stages, Ops
  <1>1. CASE RunChannelProbe
    <2> DEFINE u == [ui EXCEPT !.registration = None, !.probe = None,
                               !.registrationStatus = "probing"]
    <2>1. BeginIn(handlers, "probe", "call", {}, u)
      BY <1>1 DEF RunChannelProbe, Begin
    <2>2. u \in Pages /\ SameContent(ui, u)
      BY <1>0 DEF Pages, SameContent
    <2> HIDE DEF u
    <2> QED BY <1>0, <2>1, <2>2, BeginKeeps
  <1>2. CASE HandleCommit
    <2> DEFINE u == [ui EXCEPT !.registrationStatus = "committing"]
    <2>1. BeginIn(handlers, "commit", "call", {}, u)
      BY <1>2 DEF HandleCommit, Begin
    <2>2. u \in Pages /\ SameContent(ui, u)
      BY <1>0, Statuses DEF Restated
    <2> HIDE DEF u
    <2> QED BY <1>0, <2>1, <2>2, BeginKeeps
  <1>3. CASE HandleSeedDemoWorkspace \/ HandleClearDemoWorkspace
    <2> DEFINE u == [ui EXCEPT !.workflowStatus = "bulk"]
    <2>1. PICK op \in {"seed", "clear"} : BeginIn(handlers, op, "demo", {}, u)
      BY <1>3 DEF HandleSeedDemoWorkspace, HandleClearDemoWorkspace, Begin
    <2>2. u \in Pages /\ SameContent(ui, u)
      BY <1>0, Statuses DEF Restated
    <2> HIDE DEF u
    <2> QED BY <1>0, <2>1, <2>2, BeginKeeps
  <1> QED
    BY <1>1, <1>2, <1>3

\* A step of the page's own statuses.
LEMMA StatusKeeps ==
    ASSUME ConsoleInv, Restated(ui, ui'),
           UNCHANGED <<loads, handlers, jobStatus, failedLoads, crossed, kept, left>>
    PROVE  ConsoleInv'
  <1>1. PageOK' /\ Here' = Here
    BY PageStays DEF ConsoleInv, Restated
  <1> QED
    BY <1>1, Spent DEF ConsoleInv, HandlersOK, TableOK

LEMMA DialogKeeps ==
    ASSUME ConsoleInv, HandleOpenLiveDownloadConfirm \/ CloseLiveDownloadConfirm
    PROVE  ConsoleInv'
  <1>0. ui \in Pages
    BY DEF ConsoleInv, PageOK
  <1>1. CASE HandleOpenLiveDownloadConfirm
    <2> DEFINE v == [ui EXCEPT !.liveDownloadStatus = "idle"]
               w == [v EXCEPT !.liveDownloadConfirmOpen = TRUE]
    <2>1. w = ui'
      BY <1>0, <1>1 DEF HandleOpenLiveDownloadConfirm, Pages
    <2>2. Restated(ui, v)
      BY <1>0, Statuses
    <2> HIDE DEF v
    <2>3. Restated(v, w)
      BY <2>2, Statuses DEF Restated
    <2> HIDE DEF w
    <2>4. Restated(ui, ui')
      BY <2>1, <2>2, <2>3, RestatedTwice
    <2> QED BY <1>1, <2>4, StatusKeeps DEF HandleOpenLiveDownloadConfirm
  <1>2. CASE CloseLiveDownloadConfirm
    <2>1. Restated(ui, ui')
      BY <1>0, <1>2, Statuses DEF CloseLiveDownloadConfirm
    <2> QED BY <1>2, <2>1, StatusKeeps DEF CloseLiveDownloadConfirm
  <1> QED
    BY <1>1, <1>2

\* What can be selected is in the list.
LEMMA SelectsKeeps ==
    ASSUME ConsoleInv, NEW ids, ids \subseteq ui.selectedJobIds \cup ActionableQueueJobs(ui), Selects(ids)
    PROVE  ConsoleInv'
  <1>0. ui \in Pages /\ PageOK
    BY DEF ConsoleInv, PageOK
  <1>1. ActionableQueueJobs(ui) \subseteq DOMAIN ui.downloadJobs /\ DOMAIN ui.downloadJobs \subseteq Jobs
    BY <1>0 DEF ActionableQueueJobs, SelectableIn, Pages
  <1>2. ids \in SUBSET Jobs
    BY <1>0, <1>1 DEF Pages
  <1>3. ui' = [ui EXCEPT !.selectedJobIds = ids]
        /\ UNCHANGED <<loads, handlers, jobStatus, failedLoads, crossed, kept, left>>
    BY DEF Selects
  <1>4. /\ ui' \in Pages /\ ui'.panels = ui.panels /\ ui'.downloadJobs = ui.downloadJobs
        /\ ui'.selectedJobIds = ids /\ ui'.selectionSeedKey = ui.selectionSeedKey
        /\ ui'.activeNavId = ui.activeNavId /\ ui'.dashboard = ui.dashboard
    BY <1>0, <1>2, <1>3 DEF Pages
  <1>5. Here' = Here
    BY <1>0, <1>3 DEF Here, RegisteredChannel, Pages
  <1>6. ~crossed => ActionableQueueJobs(ui) \subseteq JobsOf(Here)
    BY <1>0, <1>1 DEF PageOK, ShownFor, JobsOf
  <1>7. ShownFor(ui', Here, crossed, kept)
    BY <1>0, <1>4, <1>6 DEF PageOK, ShownFor
  <1>8. SeededFor(ui', Here)
    BY <1>0, <1>4 DEF PageOK, SeededFor, LaunchableJobs
  <1>9. SummarySettles(ui', Here, crossed, failedLoads, loads)
    BY <1>0, <1>4 DEF PageOK, SummarySettles
  <1>10. DetailSettles(ui', Here, crossed, failedLoads, loads)
    BY <1>0, <1>4 DEF PageOK, DetailSettles
  <1>11. PageOK'
    BY <1>0, <1>3, <1>4, <1>5, <1>7, <1>8, <1>9, <1>10 DEF PageOK
  <1> QED
    BY <1>3, <1>5, <1>11, Spent DEF ConsoleInv, HandlersOK, TableOK

LEMMA SelectionKeeps ==
    ASSUME ConsoleInv, HandleSelectVisibleJobs \/ \E j \in Jobs : HandleToggleJobSelection(j)
    PROVE  ConsoleInv'
  <1>1. \E ids : ids \subseteq ui.selectedJobIds \cup ActionableQueueJobs(ui) /\ Selects(ids)
    BY DEF HandleSelectVisibleJobs, HandleToggleJobSelection
  <1> QED
    BY <1>1, SelectsKeeps

-----------------------------------------------------------------------------
(* Loads.                                                                  *)

LEMMA DashboardKeeps ==
    ASSUME ConsoleInv, DashboardAnswered
    PROVE  ConsoleInv'
  <1> DEFINE u == [ui EXCEPT !.dashboard = ~@]
  <1>0. ui \in Pages
    BY DEF ConsoleInv, PageOK
  <1>1. Render(u, handlers, loads) /\ UNCHANGED <<handlers, jobStatus>> /\ (Fails \/ UNCHANGED left)
    BY DEF DashboardAnswered
  <1>2. u \in Pages /\ SameContent(ui, u)
    BY <1>0 DEF Pages, SameContent
  <1> HIDE DEF u
  <1>3. PageOK' /\ HandlersFor(handlers, Here', crossed')
    BY <1>1, <1>2, TurnKeeps DEF ConsoleInv
  <1> QED
    BY <1>1, <1>3, Spent DEF ConsoleInv, HandlersOK, TableOK

LEMMA LoadedKeeps ==
    ASSUME ConsoleInv, NEW l \in loads, NEW u \in Pages, Render(u, handlers, loads \ {l}),
           UNCHANGED <<handlers, jobStatus, left>>, ShownFor(u, Here, crossed, kept),
           SummarySettles(u, Here, crossed, failedLoads, loads \ {l}),
           u.activeNavId = ui.activeNavId => DetailSettles(u, Here, crossed, failedLoads, loads \ {l})
    PROVE  ConsoleInv'
  <1>1. loads \ {l} \in SUBSET loads /\ handlers \in SUBSET handlers
    OBVIOUS
  <1>2. PageOK' /\ HandlersFor(handlers, Here', crossed')
    BY <1>1, RenderKeeps DEF ConsoleInv
  <1> QED
    BY <1>2, Spent DEF ConsoleInv, HandlersOK, TableOK

LEMMA LoadAnsweredKeeps ==
    ASSUME ConsoleInv, NEW l \in loads, LoadAnswered(l)
    PROVE  ConsoleInv'
  <1> DEFINE c == l.channel
  <1>0. /\ ui \in Pages /\ PageOK /\ TableOK
        /\ l \in Loads /\ c \in Channels /\ l.kind \in LoadKinds /\ c \in Shown
        /\ ~l.cancelled => c = Here
    BY DEF ConsoleInv, PageOK, Loads, LoadsFor, Shown
  <1>1. \A k \in LoadKinds : NewLoad(k, Here) \in loads /\ (l.cancelled \/ l.kind # k)
           => NewLoad(k, Here) \in loads \ {l}
    BY DEF NewLoad
  <1>2. UNCHANGED <<handlers, jobStatus, left>>
        /\ Render(IF l.cancelled THEN ui
                  ELSE IF l.kind = "summary" THEN LoadSummary(ui, c)
                  ELSE LoadDetailWorkspace(ui, l.kind, c), handlers, loads \ {l})
    BY DEF LoadAnswered
  <1>3. /\ "summary" \in LoadKinds /\ "channels" \in LoadKinds
        /\ ClearedOnSwitch = {"channelDetail", "channelPolicy", "channelVideos", "library"}
        /\ Detailed = {"channelDetail", "channelPolicy"}
        /\ PanelNames \ Detailed = {"channelVideos", "library", "coverage", "workerPlan", "workerRuns"}
        /\ ClearedOnSwitch \subseteq PanelNames /\ Detailed \subseteq PanelNames
    BY DEF LoadKinds, ClearedOnSwitch, Detailed, PanelNames
  <1>4. CASE l.cancelled
    <2>1. Render(ui, handlers, loads \ {l})
      BY <1>2, <1>4
    <2>2. SummarySettles(ui, Here, crossed, failedLoads, loads \ {l})
      BY <1>0, <1>1, <1>3, <1>4 DEF PageOK, SummarySettles
    <2>3. DetailSettles(ui, Here, crossed, failedLoads, loads \ {l})
      BY <1>0, <1>1, <1>3, <1>4 DEF PageOK, DetailSettles
    <2> QED BY <1>0, <1>2, <2>1, <2>2, <2>3, LoadedKeeps DEF PageOK
  <1>5. CASE ~l.cancelled /\ l.kind = "summary"
    <2> DEFINE w == Fill(ui, {"channelDetail", "channelPolicy"}, c)
               list == JobsSeen(c)
               u == [w EXCEPT !.downloadJobs = list]
    <2>1. Render(u, handlers, loads \ {l})
      BY <1>2, <1>5 DEF LoadSummary
    <2>2. /\ w \in Pages
          /\ \A p \in PanelNames :
                w.panels[p] = IF p \in {"channelDetail", "channelPolicy"} THEN c ELSE ui.panels[p]
          /\ w.selectedJobIds = ui.selectedJobIds /\ w.selectionSeedKey = ui.selectionSeedKey
          /\ w.activeNavId = ui.activeNavId
      BY <1>0, FillPage
    <2>3. /\ list \in UNION {[S -> JobStatuses] : S \in SUBSET Jobs}
          /\ \A j \in DOMAIN list : ChannelOf[j] = c
      BY <1>0, JobsSeenOf DEF TableOK, JobsOf
    <2> HIDE DEF w, list
    <2>4. /\ u \in Pages /\ u.panels = w.panels /\ u.downloadJobs = list
          /\ u.selectedJobIds = ui.selectedJobIds /\ u.selectionSeedKey = ui.selectionSeedKey
          /\ u.activeNavId = ui.activeNavId
      BY <2>2, <2>3 DEF Pages
    <2> HIDE DEF u
    <2>5. ShownFor(u, Here, crossed, kept)
      BY <1>0, <1>3, <1>5, <2>2, <2>3, <2>4 DEF PageOK, ShownFor
    <2>6. SummarySettles(u, Here, crossed, failedLoads, loads \ {l})
      BY <1>0, <1>3, <1>5, <2>2, <2>4 DEF SummarySettles
    <2>7. DetailSettles(u, Here, crossed, failedLoads, loads \ {l})
      <3>1. \A p \in PanelNames \ Detailed : u.panels[p] = ui.panels[p]
        BY <1>3, <2>2, <2>4
      <3> QED BY <1>0, <1>1, <1>3, <1>5, <2>4, <3>1 DEF PageOK, DetailSettles
    <2> QED BY <1>2, <2>1, <2>4, <2>5, <2>6, <2>7, LoadedKeeps
  <1>6. CASE ~l.cancelled /\ l.kind # "summary"
    <2> DEFINE names == {"channelVideos", "library"}
                        \cup (IF l.kind = "channels" THEN {"coverage", "workerPlan", "workerRuns"} ELSE {})
               u == Fill(ui, names, c)
    <2>1. Render(u, handlers, loads \ {l})
      BY <1>2, <1>6 DEF LoadDetailWorkspace
    <2>2. /\ u \in Pages
          /\ \A p \in PanelNames : u.panels[p] = IF p \in names THEN c ELSE ui.panels[p]
          /\ u.downloadJobs = ui.downloadJobs
          /\ u.selectedJobIds = ui.selectedJobIds /\ u.selectionSeedKey = ui.selectionSeedKey
          /\ u.activeNavId = ui.activeNavId
      BY <1>0, FillPage
    <2>3. l.kind = "channels" => names = PanelNames \ Detailed
      BY <1>3
    <2>4. \A p \in Detailed : p \notin names
      BY <1>3
    <2> HIDE DEF u, names
    <2>5. ShownFor(u, Here, crossed, kept)
      BY <1>0, <1>3, <1>6, <2>2 DEF PageOK, ShownFor
    <2>6. SummarySettles(u, Here, crossed, failedLoads, loads \ {l})
      <3>1. \A p \in Detailed : u.panels[p] = ui.panels[p]
        BY <1>3, <2>2, <2>4
      <3> QED BY <1>0, <1>1, <1>3, <1>6, <3>1 DEF PageOK, SummarySettles
    <2>7. DetailSettles(u, Here, crossed, failedLoads, loads \ {l})
      <3>1. CASE l.kind = "channels"
        BY <1>0, <1>3, <1>6, <2>2, <2>3, <3>1 DEF DetailSettles
      <3>2. CASE l.kind # "channels"
        <4>1. \A p \in PanelNames : u.panels[p] \in {c, ui.panels[p]}
          BY <2>2
        <4> QED BY <1>0, <1>1, <1>3, <1>6, <2>2, <3>2, <4>1 DEF PageOK, DetailSettles
      <3> QED BY <3>1, <3>2
    <2> QED BY <1>2, <2>1, <2>2, <2>5, <2>6, <2>7, LoadedKeeps
  <1> QED
    BY <1>4, <1>5, <1>6

LEMMA LoadFailedKeeps ==
    ASSUME ConsoleInv, NEW l \in loads, LoadFailed(l)
    PROVE  ConsoleInv'
  <1>0. /\ ui \in Pages /\ PageOK /\ l \in Loads /\ l.kind \in LoadKinds
        /\ ~l.cancelled => l.channel = Here
    BY DEF ConsoleInv, PageOK, Loads, LoadsFor
  <1>1. /\ ui' = ui \/ ui' = Idle(ui)
        /\ loads' = loads \ {l} /\ UNCHANGED <<handlers, jobStatus, crossed, kept>>
        /\ failedLoads' = failedLoads \cup (IF l.cancelled THEN {} ELSE {l.kind})
        /\ Fails \/ UNCHANGED left
    BY DEF LoadFailed
  <1>2. Restated(ui, ui')
    BY <1>0, <1>1, IdleStatus, Statuses
  <1>3. \A k : NewLoad(k, Here) \in loads => NewLoad(k, Here) \in loads' \/ k \in failedLoads'
    BY <1>1 DEF NewLoad
  <1>4. Here' = Here
    BY <1>2 DEF Restated, Here
  <1>5. ShownFor(ui', Here, crossed, kept) /\ SeededFor(ui', Here)
    BY <1>0, <1>2 DEF PageOK, ShownFor, SeededFor, Restated, SameContent, LaunchableJobs
  <1>6. SummarySettles(ui', Here, crossed, failedLoads', loads')
    BY <1>0, <1>1, <1>2, <1>3 DEF PageOK, SummarySettles, Restated, SameContent
  <1>7. DetailSettles(ui', Here, crossed, failedLoads', loads')
    BY <1>0, <1>1, <1>2, <1>3 DEF PageOK, DetailSettles, Restated, SameContent
  <1>8. PageOK'
    BY <1>0, <1>1, <1>2, <1>4, <1>5, <1>6, <1>7 DEF PageOK, Restated, LoadsFor
  <1> QED
    BY <1>1, <1>4, <1>8, Spent DEF ConsoleInv, HandlersOK, TableOK

-----------------------------------------------------------------------------
(* Answers to handlers.                                                    *)

LEMMA TableKeeps ==
    ASSUME TableOK, NEW S, NEW from, NEW to \in JobStatuses,
           jobStatus' = [j \in Jobs |-> IF j \in S /\ jobStatus[j] \in from THEN to ELSE jobStatus[j]]
    PROVE  TableOK'
  BY DEF TableOK

LEMMA CallKeeps ==
    ASSUME TableOK, NEW h, jobStatus' = AfterCall(h)
    PROVE  TableOK'
  <1>1. {"launchable", "cancelled"} \subseteq JobStatuses
    BY DEF JobStatuses
  <1>2. \/ UNCHANGED jobStatus
        \/ \E from : \E to \in {"launchable", "cancelled"} :
              jobStatus' = [j \in Jobs |-> IF j \in h.ids /\ jobStatus[j] \in from THEN to
                                           ELSE jobStatus[j]]
    BY DEF AfterCall
  <1> QED
    BY <1>1, <1>2, TableKeeps DEF TableOK

\* The page stays while a handler passes on.
LEMMA PassKeeps ==
    ASSUME ConsoleInv, NEW h \in handlers, Carries(h), NEW at \in Stages, at # "call",
           PassesOn(h, at), TableOK'
    PROVE  ConsoleInv'
  <1>1. GoesOn(h, at) /\ UNCHANGED <<ui, loads, failedLoads, crossed, kept, left>>
    BY DEF PassesOn
  <1>2. ui' \in Pages /\ SameContent(ui, ui') /\ UNCHANGED ui
    BY <1>1 DEF ConsoleInv, PageOK, SameContent
  <1> QED
    BY <1>1, <1>2, QuietKeeps, Spent DEF ConsoleInv

LEMMA CallAnsweredKeeps ==
    ASSUME ConsoleInv, NEW h \in handlers, CallAnswered(h)
    PROVE  ConsoleInv'
  <1>1. TableOK'
    BY CallKeeps DEF ConsoleInv, CallAnswered
  <1>2. \E at \in {"jobs", "all", "state", "plan", "runs"} : PassesOn(h, at)
    BY DEF CallAnswered
  <1>3. Carries(h)
    BY DEF CallAnswered, Carries, DemoStages, SingleCalls, BulkCalls
  <1>4. {"jobs", "all", "state", "plan", "runs"} \subseteq Stages \ {"call"}
    BY DEF Stages
  <1> QED
    BY <1>1, <1>2, <1>3, <1>4, PassKeeps

LEMMA RefreshKeeps ==
    ASSUME ConsoleInv, NEW h \in handlers, RefreshChannelAfterEvent(h)
    PROVE  ConsoleInv'
  <1>1. Carries(h)
    BY Carrying DEF ConsoleInv, DemoStages, RefreshChannelAfterEvent
  <1>2. Ends(h) \/ \E at \in {"jobs", "state", "librarySummary", "summary"} : GoesOn(h, at)
    BY DEF RefreshChannelAfterEvent
  <1>3. {"jobs", "state", "librarySummary", "summary"} \subseteq Stages \ {"call"}
    BY DEF Stages
  <1>4. UNCHANGED <<ui, loads, jobStatus, failedLoads, crossed, kept, left>>
    BY DEF RefreshChannelAfterEvent
  <1>5. ui' \in Pages /\ SameContent(ui, ui')
    BY <1>4 DEF ConsoleInv, PageOK, SameContent
  <1>6. TableOK' /\ Budgeted'
    BY <1>4, Spent DEF ConsoleInv, TableOK
  <1> QED
    BY <1>1, <1>2, <1>3, <1>4, <1>5, <1>6, QuietKeeps

LEMMA LiveAnswersKeep ==
    ASSUME ConsoleInv, NEW h \in handlers, LiveCandidatesAnswered(h) \/ LiveRunAnswered(h)
    PROVE  ConsoleInv'
  <1>1. Carries(h)
    BY Carrying DEF ConsoleInv, DemoStages, LiveCandidatesAnswered, LiveRunAnswered
  <1>2. {"run", "state"} \subseteq Stages \ {"call"} /\ {"launchable", "completed", "failed"} \subseteq JobStatuses
    BY DEF Stages, JobStatuses
  <1>3. TableOK'
    <2>1. CASE LiveCandidatesAnswered(h)
      BY <1>2, <2>1 DEF LiveCandidatesAnswered, ConsoleInv, TableOK
    <2>2. CASE LiveRunAnswered(h)
      BY <1>2, <2>2 DEF LiveRunAnswered, ConsoleInv, TableOK
    <2> QED BY <2>1, <2>2
  <1>4. \E at \in {"run", "state"} : PassesOn(h, at)
    BY DEF LiveCandidatesAnswered, LiveRunAnswered
  <1> QED
    BY <1>1, <1>2, <1>3, <1>4, PassKeeps

LEMMA FailedKeeps ==
    ASSUME ConsoleInv, NEW h \in handlers, HandlerFailed(h)
    PROVE  ConsoleInv'
  <1>0. ui \in Pages
    BY DEF ConsoleInv, PageOK
  <1>1. /\ Ends(h) /\ Fails /\ UNCHANGED <<loads, jobStatus, failedLoads, crossed, kept>>
        /\ \/ ui' = ui \/ ui' = Idle(ui) \/ ui' = LiveEnds(Idle(ui))
           \/ ui' = [ui EXCEPT !.registrationStatus = "idle"]
    BY DEF HandlerFailed
  <1>2. Restated(ui, Idle(ui)) /\ Restated(ui, LiveEnds(Idle(ui)))
        /\ Restated(ui, [ui EXCEPT !.registrationStatus = "idle"])
    <2> DEFINE i == Idle(ui)
    <2>1. Restated(ui, i)
      BY <1>0, IdleStatus
    <2> HIDE DEF i
    <2>2. Restated(i, LiveEnds(i))
      BY <2>1, LiveEndsStatus DEF Restated
    <2>3. Restated(ui, LiveEnds(i))
      BY <2>1, <2>2, RestatedTwice
    <2> QED BY <1>0, <2>1, <2>3, Statuses DEF i
  <1>3. Restated(ui, ui')
    BY <1>0, <1>1, <1>2, Statuses
  <1>4. TableOK' /\ Budgeted'
    BY <1>1, Spent DEF ConsoleInv, TableOK
  <1> QED
    BY <1>1, <1>3, <1>4, QuietKeeps DEF Restated

\* The list of the channel, in one way or another.
LEMMA JobsAnswersKeep ==
    ASSUME ConsoleInv, NEW h \in handlers, StartedJobsAnswered(h) \/ JobsAnswered(h)
    PROVE  ConsoleInv'
  <1> DEFINE v == ApplyDownloadJobs(ui, h.channel)
             w == [v EXCEPT !.preflightPlan = None]
  <1>0. Carries(h) /\ h.channel \in Channels /\ (~crossed => h.channel = Here) /\ ui \in Pages
    BY Carrying, Carried DEF ConsoleInv, DemoStages, PageOK, StartedJobsAnswered, JobsAnswered
  <1>1. Fits(v)
    BY <1>0, PageFits, ApplyFits DEF ConsoleInv
  <1>2. v.dashboard = ui.dashboard /\ RegisteredChannel(v) = Here /\ v \in Pages
    BY <1>0, ApplyPage DEF ConsoleInv, TableOK, Here
  <1>3. {"plan", "rest"} \subseteq Stages \ {"call"}
    BY DEF Stages
  <1>4. CASE StartedJobsAnswered(h)
    <2>1. Writes(h, v) /\ (GoesOn(h, "plan") \/ Ends(h))
      BY <1>4 DEF StartedJobsAnswered
    <2> HIDE DEF v
    <2> QED BY <1>0, <1>1, <1>2, <1>3, <2>1, AnswerEnds, AnswerGoesOn
  <1>5. CASE JobsAnswered(h)
    <2>1. Writes(h, w) /\ GoesOn(h, "rest")
      BY <1>5 DEF JobsAnswered
    <2> HIDE DEF v
    <2>2. Restated(v, w)
      BY <1>2, Statuses
    <2>3. Fits(w) /\ w.dashboard = ui.dashboard /\ RegisteredChannel(w) = Here
      BY <1>1, <1>2, <2>2, RestatedFits DEF Restated
    <2> HIDE DEF w
    <2> QED BY <1>0, <1>3, <2>1, <2>3, AnswerGoesOn
  <1> QED
    BY <1>4, <1>5

\* Dashboard, library and worker plan.
LEMMA EffectsFit ==
    ASSUME NEW u, Fits(u), NEW c \in Channels, ~crossed => c = Here
    PROVE  Fits(ShowQueueEffects(u, c))
  <1> DEFINE w == Fill(u, {"library", "workerPlan"}, c)
             v == [w EXCEPT !.dashboard = TRUE]
  <1>1. Fits(w)
    BY FillFits
  <1>2. v = ShowQueueEffects(u, c)
    BY DEF ShowQueueEffects
  <1> HIDE DEF w
  <1>3. v \in Pages /\ SameContent(w, v) /\ v.activeNavId = w.activeNavId
    BY <1>1 DEF Fits, Pages, SameContent
  <1> HIDE DEF v
  <1> QED
    BY <1>1, <1>2, <1>3, SameFits

LEMMA QueueAnswersKeep ==
    ASSUME ConsoleInv, NEW h \in handlers, RestAnswered(h) \/ RetryFailedAnswered(h)
    PROVE  ConsoleInv'
  <1>0. h.channel \in Channels /\ (~crossed => h.channel = Here) /\ Fits(ui)
    BY Carrying, Carried, PageFits DEF ConsoleInv, DemoStages, RestAnswered, RetryFailedAnswered
  <1>1. CASE RestAnswered(h)
    <2> DEFINE u == ShowQueueEffects(ui, h.channel)
    <2>1. (Writes(h, u) \/ Writes(h, Idle(u))) /\ Ends(h)
      BY <1>1 DEF RestAnswered
    <2>2. Fits(u)
      BY <1>0, EffectsFit
    <2> HIDE DEF u
    <2>3. Fits(Idle(u))
      BY <2>2, IdleStatus, RestatedFits DEF Fits
    <2> QED BY <2>1, <2>2, <2>3, AnswerEnds
  <1>2. CASE RetryFailedAnswered(h)
    <2> DEFINE v == ApplyDownloadJobs(ui, h.channel)
               u == ShowQueueEffects(v, h.channel)
               i == Idle(u)
               w == [i EXCEPT !.preflightPlan = None]
    <2>1. Writes(h, w) /\ Ends(h)
      BY <1>2 DEF RetryFailedAnswered
    <2>2. Fits(v)
      BY <1>0, ApplyFits DEF ConsoleInv
    <2> HIDE DEF v
    <2>3. Fits(u)
      BY <1>0, <2>2, EffectsFit
    <2> HIDE DEF u
    <2>4. Fits(i)
      BY <2>3, IdleStatus, RestatedFits DEF Fits
    <2> HIDE DEF i
    <2>5. Restated(i, w)
      BY <2>4, Statuses DEF Fits
    <2> HIDE DEF w
    <2>6. Fits(w)
      BY <2>4, <2>5, RestatedFits
    <2> QED BY <2>1, <2>6, AnswerEnds
  <1> QED
    BY <1>1, <1>2

LEMMA PanelAnswersKeep ==
    ASSUME ConsoleInv, NEW h \in handlers,
           SettingAnswered(h) \/ PlanAnswered(h) \/ RunsAnswered(h) \/ SummaryAnswered(h)
    PROVE  ConsoleInv'
  <1>0. h.channel \in Channels /\ (~crossed => h.channel = Here) /\ Fits(ui)
    <2>1. Carries(h)
      BY Carrying DEF ConsoleInv, DemoStages, SettingAnswered, PlanAnswered, RunsAnswered,
         SummaryAnswered
    <2> QED BY <2>1, Carried, PageFits DEF ConsoleInv
  <1>1. CASE SettingAnswered(h) \/ PlanAnswered(h) \/ RunsAnswered(h)
    <2>1. PICK names : Writes(h, Fill(ui, names, h.channel)) /\ Ends(h)
      BY <1>1 DEF SettingAnswered, PlanAnswered, RunsAnswered
    <2>2. Fits(Fill(ui, names, h.channel))
      BY <1>0, FillFits
    <2> QED BY <2>1, <2>2, AnswerEnds
  <1>2. CASE SummaryAnswered(h)
    <2> DEFINE v == Fill(ui, {"channelDetail", "channelPolicy"}, h.channel)
               u == ApplyDownloadJobs(v, h.channel)
               w == Fill(u, {"channelVideos", "library"}, h.channel)
    <2>1. (Writes(h, u) \/ Writes(h, w)) /\ Ends(h)
      BY <1>2 DEF SummaryAnswered, RefreshChannelSummary
    <2>2. Fits(v)
      BY <1>0, FillFits
    <2> HIDE DEF v
    <2>3. Fits(u)
      BY <1>0, <2>2, ApplyFits DEF ConsoleInv
    <2> HIDE DEF u
    <2>4. Fits(w)
      BY <1>0, <2>3, FillFits
    <2> HIDE DEF w
    <2> QED BY <2>1, <2>3, <2>4, AnswerEnds
  <1> QED
    BY <1>1, <1>2

LEMMA PreflightKeeps ==
    ASSUME ConsoleInv, NEW h \in handlers, PreflightAnswered(h)
    PROVE  ConsoleInv'
  <1> DEFINE v == ApplyDownloadJobs(ui, h.channel)
  <1>0. Carries(h) /\ h.channel \in Channels /\ (~crossed => h.channel = Here) /\ Fits(ui) /\ ui \in Pages
    <2>1. Carries(h)
      BY DEF PreflightAnswered, Carries, DemoStages
    <2> QED BY <2>1, Carried, PageFits DEF ConsoleInv, Fits
  <1>1. PICK ready \in SUBSET {j \in DOMAIN JobsSeen(h.channel) : jobStatus[j] = "launchable"} :
            /\ Writes(h, [v EXCEPT !.preflightPlan = ready, !.selectedJobIds = ready])
            /\ GoesOn(h, "rest")
    BY DEF PreflightAnswered
  <1>2. ready \subseteq JobsOf(h.channel) /\ ready \subseteq Jobs
    BY <1>1, JobsSeenOf DEF ConsoleInv, TableOK, JobsOf
  <1>3. Fits(v) /\ v.downloadJobs = JobsSeen(h.channel) /\ v.dashboard = ui.dashboard
        /\ RegisteredChannel(v) = Here
    BY <1>0, ApplyFits, ApplyPage DEF ConsoleInv, TableOK, Here
  <1> DEFINE w == [v EXCEPT !.preflightPlan = ready, !.selectedJobIds = ready]
  <1>4. Writes(h, w) /\ GoesOn(h, "rest")
    BY <1>1
  <1> HIDE DEF v
  <1>5. /\ w \in Pages /\ w.panels = v.panels /\ w.downloadJobs = v.downloadJobs
        /\ w.selectedJobIds = ready /\ w.selectionSeedKey = v.selectionSeedKey
        /\ w.activeNavId = v.activeNavId /\ w.dashboard = v.dashboard
        /\ RegisteredChannel(w) = RegisteredChannel(v)
    BY <1>2, <1>3 DEF Fits, Pages, RegisteredChannel
  <1> HIDE DEF w
  <1>6. \A j \in DOMAIN JobsSeen(h.channel) : ChannelOf[j] = h.channel
    BY JobsSeenOf DEF ConsoleInv, TableOK, JobsOf
  <1>7. Fits(w)
    BY <1>0, <1>2, <1>3, <1>5, <1>6, ListFits
  <1>8. "rest" \in Stages
    BY DEF Stages
  <1> QED
    BY <1>0, <1>3, <1>4, <1>5, <1>7, <1>8, AnswerGoesOn

\* Every panel of the channel at once.
LEMMA ChannelStateFits ==
    ASSUME TableOK, NEW u, Fits(u), NEW c \in Channels, ~crossed => c = Here
    PROVE  Fits(LoadChannelState(u, c))
  <1> DEFINE f == Fill(u, PanelNames, c)
             v == ApplyDownloadJobs(f, c)
             L == LaunchableJobs(v)
             w == [v EXCEPT !.selectedJobIds = L, !.preflightPlan = None, !.dashboard = TRUE]
  <1>1. Fits(f)
    BY FillFits
  <1> HIDE DEF f
  <1>2. Fits(v) /\ v.downloadJobs = JobsSeen(c)
    BY <1>1, ApplyFits, ApplyPage DEF TableOK, Fits
  <1>3. w = LoadChannelState(u, c)
    BY DEF LoadChannelState, f
  <1> HIDE DEF v
  <1>4. L \subseteq DOMAIN JobsSeen(c) /\ L \subseteq JobsOf(c) /\ L \subseteq Jobs
    BY <1>2, JobsSeenOf DEF TableOK, LaunchableJobs, JobsOf
  <1> HIDE DEF L
  <1>5. /\ w \in Pages /\ w.panels = v.panels /\ w.downloadJobs = v.downloadJobs
        /\ w.selectedJobIds = L /\ w.selectionSeedKey = v.selectionSeedKey
        /\ w.activeNavId = v.activeNavId
    BY <1>2, <1>4 DEF Fits, Pages
  <1> HIDE DEF w
  <1>6. \A j \in DOMAIN JobsSeen(c) : ChannelOf[j] = c
    BY JobsSeenOf DEF TableOK, JobsOf
  <1> QED
    BY <1>2, <1>3, <1>4, <1>5, <1>6, ListFits

\* An answer that fits is written, and another workspace is opened.
LEMMA TurnedAnswerEnds ==
    ASSUME ConsoleInv, NEW h \in handlers, NEW u, Fits(u), NEW v \in Pages, SameContent(u, v),
           Writes(h, v), Ends(h)
    PROVE  ConsoleInv'
  <1>1. Render(v, handlers \ {h}, loads) /\ UNCHANGED <<jobStatus, left>>
    BY DEF Writes
  <1>2. ShownFor(v, Here, crossed, kept)
    BY DEF Fits, ShownFor, SameContent
  <1>3. SummarySettles(v, Here, crossed, failedLoads, loads)
    BY DEF Fits, SummarySettles, SameContent
  <1>4. v.activeNavId = ui.activeNavId => DetailSettles(v, Here, crossed, failedLoads, loads)
    BY DEF Fits, DetailSettles, SameContent
  <1>5. PageOK' /\ HandlersFor(handlers \ {h}, Here', crossed')
    BY <1>1, <1>2, <1>3, <1>4, RenderKeeps DEF ConsoleInv
  <1>6. HandlersOK'
    BY <1>5, Ended DEF ConsoleInv
  <1> QED
    BY <1>1, <1>5, <1>6, Spent DEF ConsoleInv, TableOK

LEMMA StateAnsweredKeeps ==
    ASSUME ConsoleInv, NEW h \in handlers, StateAnswered(h)
    PROVE  ConsoleInv'
  <1> DEFINE u == LoadChannelState(ui, h.channel)
             r == [u EXCEPT !.registration = None, !.probe = None, !.registrationStatus = "idle"]
             d == [Idle(u) EXCEPT !.activeNavId = "channels"]
  <1>0. h.channel \in Channels /\ (~crossed => h.channel = Here) /\ Fits(ui)
    BY Carrying, Carried, PageFits DEF ConsoleInv, DemoStages, StateAnswered
  <1>1. Ends(h) /\ \/ Writes(h, LiveEnds(Idle(u))) \/ Writes(h, Idle(u)) \/ Writes(h, u)
                   \/ Writes(h, r) \/ Writes(h, d)
    BY DEF StateAnswered
  <1>2. Fits(u)
    BY <1>0, ChannelStateFits DEF ConsoleInv
  <1> HIDE DEF u
  <1>3. Fits(Idle(u))
    BY <1>2, IdleStatus, RestatedFits DEF Fits
  <1>4. Fits(LiveEnds(Idle(u)))
    <2> DEFINE i == Idle(u)
    <2>1. Fits(i)
      BY <1>3
    <2> HIDE DEF i
    <2>2. Fits(LiveEnds(i))
      BY <2>1, LiveEndsStatus, RestatedFits DEF Fits
    <2> QED BY <2>2 DEF i
  <1>5. Fits(r)
    <2>1. r \in Pages /\ SameContent(u, r) /\ r.activeNavId = u.activeNavId
      BY <1>2 DEF Fits, Pages, SameContent
    <2> HIDE DEF r
    <2> QED BY <1>2, <2>1, SameFits
  <1>6. CASE Writes(h, d)
    <2> DEFINE i == Idle(u)
    <2>1. Fits(i)
      BY <1>3
    <2>2. d = [i EXCEPT !.activeNavId = "channels"]
      OBVIOUS
    <2> HIDE DEF i, d
    <2>3. d \in Pages /\ SameContent(i, d)
      BY <2>1, <2>2 DEF Fits, Pages, SameContent, Workspaces
    <2> QED BY <1>1, <1>6, <2>1, <2>3, TurnedAnswerEnds
  <1> HIDE DEF r, d
  <1> QED
    BY <1>1, <1>2, <1>3, <1>4, <1>5, <1>6, AnswerEnds

LEMMA ProbeKeeps ==
    ASSUME ConsoleInv, NEW h \in handlers, ProbeAnswered(h)
    PROVE  ConsoleInv'
  <1>1. PICK c \in Channels \cup {Unregistered} :
            Writes(h, [ui EXCEPT !.probe = c, !.registrationStatus = "idle"])
    BY DEF ProbeAnswered
  <1> DEFINE u == [ui EXCEPT !.probe = c, !.registrationStatus = "idle"]
  <1>2. u \in Pages /\ SameContent(ui, u) /\ u.activeNavId = ui.activeNavId
    BY DEF ConsoleInv, PageOK, Pages, SameContent
  <1>3. Writes(h, u) /\ Ends(h)
    BY <1>1 DEF ProbeAnswered
  <1> HIDE DEF u
  <1>4. Fits(u)
    BY <1>2, PageFits, SameFits DEF ConsoleInv
  <1> QED
    BY <1>3, <1>4, AnswerEnds

\* A channel that is registered, or picked with neither probe nor registration, is shown.
LEMMA RenderSelects ==
    ASSUME NEW u \in Pages, NEW c \in Channels, RegisteredChannel(u) = c,
           NEW W, NEW P, Render(u, W, P)
    PROVE  Here' = c
  <1>1. \A v \in SelectFirst(u) : v = u
    BY ChannelsAssumption DEF SelectFirst
  <1>2. ui' \in {ClearPanels(SeedSelection(u)), SeedSelection(u)}
    BY <1>1 DEF Render, RenderFrom
  <1>3. SeedSelection(u) \in Pages /\ RegisteredChannel(SeedSelection(u)) = c
    BY SeedPage
  <1>4. RegisteredChannel(ClearPanels(SeedSelection(u))) = c
    BY <1>3, ClearPage
  <1> QED
    BY <1>2, <1>3, <1>4 DEF Here

\* A handler goes on for a channel it has just selected.
LEMMA SelectedGoesOn ==
    ASSUME ConsoleInv, NEW h \in handlers, h.op # "probe", NEW c \in Channels,
           NEW u \in Pages, SameContent(ui, u), RegisteredChannel(u) = c, Writes(h, u),
           NEW k \in Handlers, k.op = h.op, k.at = "state", k.channel = c,
           handlers' = (handlers \ {h}) \cup {k}
    PROVE  ConsoleInv'
  <1>1. Render(u, handlers \ {h}, loads) /\ UNCHANGED <<jobStatus, left>>
    BY DEF Writes
  <1>2. PageOK' /\ HandlersFor(handlers \ {h}, Here', crossed')
    BY <1>1, TurnKeeps DEF ConsoleInv
  <1>3. Here' = c
    BY <1>1, RenderSelects
  <1>4. handlers' \subseteq Handlers /\ Staged(handlers')
    BY DEF ConsoleInv, HandlersOK, Staged
  <1>5. HandlersFor(handlers', Here', crossed')
    BY <1>2, <1>3 DEF HandlersFor
  <1>6. TableOK' /\ Budgeted'
    BY <1>1, Spent DEF ConsoleInv, TableOK
  <1> QED
    BY <1>2, <1>4, <1>5, <1>6 DEF ConsoleInv, HandlersOK

\* A registration goes on for the channel it selects.
LEMMA CommitKeeps ==
    ASSUME ConsoleInv, NEW h \in handlers, CommitAnswered(h)
    PROVE  ConsoleInv'
  <1>1. PICK c \in Channels :
            /\ Writes(h, [ui EXCEPT !.registration = c, !.probe = c, !.selectedChannelId = c])
            /\ handlers' = (handlers \ {h}) \cup {[h EXCEPT !.at = "state", !.channel = c]}
    BY DEF CommitAnswered
  <1> DEFINE u == [ui EXCEPT !.registration = c, !.probe = c, !.selectedChannelId = c]
             k == [h EXCEPT !.at = "state", !.channel = c]
  <1>2. /\ u \in Pages /\ SameContent(ui, u) /\ u.activeNavId = ui.activeNavId
        /\ u.registration = c
    BY DEF ConsoleInv, PageOK, Pages, SameContent
  <1>3. Writes(h, u) /\ handlers' = (handlers \ {h}) \cup {k}
    BY <1>1
  <1> HIDE DEF u
  <1>4. RegisteredChannel(u) = c
    BY <1>2, ChannelsAssumption DEF RegisteredChannel
  <1>5. k \in Handlers /\ k.op = h.op /\ k.at = "state" /\ k.channel = c /\ h.op # "probe"
    BY DEF ConsoleInv, HandlersOK, Handlers, Stages, CommitAnswered
  <1> HIDE DEF k
  <1> QED
    BY <1>2, <1>3, <1>4, <1>5, SelectedGoesOn

\* The demo workspace: which channel it is, the dashboard, the channel seeded or cleared.
LEMMA DemoKeeps ==
    ASSUME ConsoleInv, NEW h \in handlers, DemoAnswered(h)
    PROVE  ConsoleInv'
  <1>0. h.op # "probe" /\ h \in Handlers
    BY DEF DemoAnswered, ConsoleInv, HandlersOK, Staged
  <1>1. CASE h.op = "seed" /\ Writes(h, Idle(ui)) /\ Ends(h)
    <2>1. Fits(Idle(ui))
      BY PageFits, IdleStatus, RestatedFits DEF ConsoleInv, Fits
    <2> QED BY <1>1, <2>1, AnswerEnds
  <1>2. ASSUME NEW c \in Channels, NEW s \in JobStatuses \cup {None},
               handlers' = (handlers \ {h}) \cup {[h EXCEPT !.at = "workspace", !.channel = c]},
               jobStatus' = [j \in Jobs |->
                    IF j \notin JobsOf(c) THEN jobStatus[j]
                    ELSE IF h.op = "seed" /\ jobStatus[j] = None THEN s
                    ELSE IF h.op = "clear" /\ s = None THEN None
                    ELSE jobStatus[j]],
               UNCHANGED <<ui, loads, failedLoads, crossed, kept, left>>
        PROVE  ConsoleInv'
    <2> DEFINE k == [h EXCEPT !.at = "workspace", !.channel = c]
    <2>1. k \in Handlers /\ k.op = h.op /\ k.at = "workspace" /\ k.channel = c
      BY <1>0 DEF Handlers, Stages
    <2>2. handlers' = (handlers \ {h}) \cup {k}
      BY <1>2
    <2> HIDE DEF k
    <2>3. TableOK'
      BY <1>2 DEF ConsoleInv, TableOK
    <2>4. PageOK' /\ Here' = Here /\ Budgeted'
      BY <1>2 DEF ConsoleInv, PageOK, Here, Budgeted
    <2>5. handlers' \subseteq Handlers /\ Staged(handlers')
      BY <1>0, <2>1, <2>2 DEF ConsoleInv, HandlersOK, Staged
    <2>6. ~Carries(k)
      BY <2>1 DEF Carries, DemoStages
    <2>7. HandlersFor(handlers', Here', crossed')
      BY <1>2, <2>2, <2>4, <2>6 DEF ConsoleInv, HandlersOK, HandlersFor
    <2> QED BY <2>3, <2>4, <2>5, <2>7 DEF ConsoleInv, HandlersOK
  <1> QED
    BY <1>1, <1>2 DEF DemoAnswered

LEMMA WorkspaceKeeps ==
    ASSUME ConsoleInv, NEW h \in handlers, WorkspaceAnswered(h)
    PROVE  ConsoleInv'
  <1> DEFINE u == [ui EXCEPT !.dashboard = TRUE]
             k == [h EXCEPT !.at = "queue", !.ids = {}]
  <1>0. h.op # "probe" /\ h \in Handlers /\ h.channel \in Channels
    BY DEF WorkspaceAnswered, ConsoleInv, HandlersOK, Staged
  <1>1. /\ Render(u, handlers \ {h}, loads) /\ UNCHANGED <<jobStatus, left>>
        /\ handlers' = (handlers \ {h}) \cup {k}
    BY DEF WorkspaceAnswered, Writes, GoesOn
  <1>2. u \in Pages /\ SameContent(ui, u)
    BY DEF ConsoleInv, PageOK, Pages, SameContent
  <1>3. k \in Handlers /\ k.op = h.op /\ k.at = "queue" /\ k.channel = h.channel
    BY <1>0 DEF Handlers, Stages
  <1> HIDE DEF u, k
  <1>4. PageOK' /\ HandlersFor(handlers \ {h}, Here', crossed')
    BY <1>1, <1>2, TurnKeeps DEF ConsoleInv
  <1>5. handlers' \subseteq Handlers /\ Staged(handlers')
    BY <1>0, <1>1, <1>3 DEF ConsoleInv, HandlersOK, Staged
  <1>6. ~Carries(k)
    BY <1>3 DEF Carries, DemoStages
  <1>7. HandlersFor(handlers', Here', crossed')
    BY <1>1, <1>4, <1>6 DEF HandlersFor
  <1> QED
    BY <1>1, <1>4, <1>5, <1>7, Spent DEF ConsoleInv, HandlersOK, TableOK

LEMMA SeededKeeps ==
    ASSUME ConsoleInv, NEW h \in handlers, SeededAnswered(h)
    PROVE  ConsoleInv'
  <1> DEFINE c == h.channel
             u == [ui EXCEPT !.selectedChannelId = c, !.registration = None, !.probe = None]
             k == [h EXCEPT !.at = "state", !.ids = {}]
  <1>0. h.op # "probe" /\ h \in Handlers /\ c \in Channels
    BY DEF SeededAnswered, ConsoleInv, HandlersOK, Staged
  <1>1. Writes(h, u) /\ handlers' = (handlers \ {h}) \cup {k}
    BY DEF SeededAnswered, GoesOn
  <1>2. u \in Pages /\ SameContent(ui, u) /\ RegisteredChannel(u) = c
    BY <1>0, ChannelsAssumption DEF ConsoleInv, PageOK, Pages, SameContent, RegisteredChannel
  <1>3. k \in Handlers /\ k.op = h.op /\ k.at = "state" /\ k.channel = c
    BY <1>0 DEF Handlers, Stages
  <1> HIDE DEF u, k, c
  <1> QED
    BY <1>0, <1>1, <1>2, <1>3, SelectedGoesOn

\* Nothing of a channel is on the page that a clearing leaves.
LEMMA EmptyPage ==
    ASSUME ui \in Pages
    PROVE  LET e == EmptyWorkspace(ui)
           IN  /\ e \in Pages /\ \A c, x, k : ShownFor(e, c, x, k)
               /\ From(Nowhere(e)) /\ Nowhere(e) # ui
  <1> DEFINE f == Fill(ui, PanelNames, None)
             g == [f EXCEPT !.selectedChannelId = None, !.registration = None, !.probe = None]
             d == [g EXCEPT !.downloadJobs = NoJobs]
             r == [d EXCEPT !.preflightPlan = None, !.selectedJobIds = {}, !.selectionSeedKey = None]
             q == [r EXCEPT !.activeNavId = "queue"]
             e == Idle(q)
  <1>1. f \in Pages /\ \A p \in PanelNames : f.panels[p] = None
    BY FillPage DEF Shown
  <1>2. EmptyWorkspace(ui) =
            [f EXCEPT !.selectedChannelId = None, !.registration = None, !.probe = None,
                      !.downloadJobs = NoJobs, !.preflightPlan = None, !.selectedJobIds = {},
                      !.selectionSeedKey = None, !.activeNavId = "queue", !.workflowStatus = "idle"]
    BY DEF EmptyWorkspace
  <1> HIDE DEF f
  <1>3. e = EmptyWorkspace(ui)
    BY <1>1, <1>2 DEF Idle, Pages
  <1>4. g \in Pages /\ g.panels = f.panels
    BY <1>1 DEF Pages
  <1> HIDE DEF g
  <1>5. d \in Pages /\ d.panels = f.panels /\ d.downloadJobs = NoJobs
    <2>1. NoJobs \in [{} -> JobStatuses]
      BY DEF NoJobs
    <2>2. NoJobs \in UNION {[S -> JobStatuses] : S \in SUBSET Jobs}
      BY <2>1
    <2> HIDE DEF d
    <2>3. d = [g EXCEPT !.downloadJobs = NoJobs]
      BY DEF d
    <2> QED BY <1>4, <2>2, <2>3 DEF Pages
  <1> HIDE DEF d
  <1>6. /\ r \in Pages /\ r.panels = f.panels /\ r.downloadJobs = NoJobs
        /\ r.selectedJobIds = {}
    BY <1>5 DEF Pages
  <1> HIDE DEF r
  <1>a. /\ q \in Pages /\ q.panels = f.panels /\ q.downloadJobs = NoJobs
        /\ q.selectedJobIds = {}
    BY <1>6 DEF Pages, Workspaces
  <1> HIDE DEF q
  <1>7. /\ e \in Pages /\ e.panels = f.panels /\ e.downloadJobs = NoJobs
        /\ e.selectedJobIds = {}
    BY <1>a, IdleStatus DEF Restated, SameContent
  <1> HIDE DEF e
  <1>8. ClearedOnSwitch \subseteq PanelNames /\ DOMAIN NoJobs = {}
    BY DEF ClearedOnSwitch, PanelNames, NoJobs
  <1>9. \A c, x, k : ShownFor(e, c, x, k)
    BY <1>1, <1>7, <1>8 DEF ShownFor
  <1>10. RegisteredChannel(Nowhere(e)) = Unregistered /\ Nowhere(e) # ui
    <2>1. Nowhere(e).registration = Unregistered
      BY <1>7 DEF Nowhere, Pages
    <2> QED BY <2>1, ChannelsAssumption DEF RegisteredChannel, Pages
  <1>11. \A v \in Pages : Moved(Nowhere(e), v)
    BY <1>10, ChannelShown, ChannelsAssumption DEF Moved, Shown
  <1> QED
    BY <1>3, <1>7, <1>9, <1>10, <1>11 DEF From

LEMMA ClearedKeeps ==
    ASSUME ConsoleInv, NEW h \in handlers, ClearedAnswered(h)
    PROVE  ConsoleInv'
  <1>1. CASE Writes(h, Idle(ui))
    <2>1. Fits(Idle(ui))
      BY PageFits, IdleStatus, RestatedFits DEF ConsoleInv, Fits
    <2> QED BY <1>1, <2>1, AnswerEnds DEF ClearedAnswered
  <1>2. CASE /\ RenderFrom(Nowhere(EmptyWorkspace(ui)), EmptyWorkspace(ui), handlers \ {h}, loads)
             /\ UNCHANGED <<jobStatus, left>>
    <2> DEFINE W == handlers \ {h}
    <2>1. ui \in Pages
      BY DEF ConsoleInv, PageOK
    <2>2. PICK e : e = EmptyWorkspace(ui)
      OBVIOUS
    <2>3. /\ e \in Pages /\ \A c, x, k : ShownFor(e, c, x, k)
          /\ From(Nowhere(e)) /\ Nowhere(e) # ui
      BY <2>1, <2>2, EmptyPage, Zenon
    <2>4. PICK o : o = Nowhere(e)
      OBVIOUS
    <2>5. From(o) /\ o # ui /\ RenderFrom(o, e, W, loads)
      BY <1>2, <2>2, <2>3, <2>4
    <2>6. ShownFor(e, Here, crossed, kept)
      BY <2>3
    <2>7. /\ ui' \in Pages
          /\ ShownFor(ui', Here', crossed', kept') /\ SeededFor(ui', Here')
          /\ Here' = None => ~ui'.dashboard
          /\ crossed' \in BOOLEAN /\ kept' \in BOOLEAN
      BY <2>1, <2>3, <2>5, <2>6, RenderShowsFrom DEF ConsoleInv, PageOK
    <2>8. /\ loads' \subseteq Loads /\ failedLoads' \subseteq LoadKinds
          /\ LoadsFor(loads', Here')
          /\ SummarySettles(ui', Here', crossed', failedLoads', loads')
          /\ DetailSettles(ui', Here', crossed', failedLoads', loads')
      BY <2>1, <2>3, <2>5, RenderSettlesFrom DEF ConsoleInv, PageOK
    <2>9. HandlersFor(W \cap handlers, Here, crossed) /\ W \ handlers = {}
      BY DEF ConsoleInv, HandlersOK, HandlersFor
    <2>10. HandlersFor(W, Here', crossed')
      BY <2>3, <2>5, <2>9, RenderHandlers
    <2>11. PageOK'
      BY <2>7, <2>8 DEF PageOK
    <2>12. HandlersOK'
      BY <2>10, Ended DEF ConsoleInv, ClearedAnswered
    <2> QED BY <1>2, <2>11, <2>12, Spent DEF ConsoleInv, TableOK
  <1> QED
    BY <1>1, <1>2 DEF ClearedAnswered

-----------------------------------------------------------------------------
LEMMA ConsoleInit == Init => ConsoleInv
  <1> SUFFICES ASSUME Init PROVE ConsoleInv
    OBVIOUS
  <1>1. ui \in Pages /\ Here = None /\ ~ui.dashboard /\ ui.downloadJobs = NoJobs
        /\ ui.panels = [p \in PanelNames |-> None] /\ ui.selectedJobIds = {}
    <2>1. NoJobs \in [{} -> JobStatuses]
      BY DEF NoJobs
    <2>2. NoJobs \in UNION {[S -> JobStatuses] : S \in SUBSET Jobs}
      BY <2>1
    <2> QED
      BY <2>2, ChannelsAssumption DEF Init, Pages, Here, RegisteredChannel, Workspaces
  <1>2. DOMAIN NoJobs = {} /\ ClearedOnSwitch \subseteq PanelNames
    BY DEF NoJobs, ClearedOnSwitch, PanelNames
  <1>3. ShownFor(ui, Here, crossed, kept) /\ SeededFor(ui, Here)
    BY <1>1, <1>2 DEF ShownFor, SeededFor
  <1>4. SummarySettles(ui, Here, crossed, failedLoads, loads)
        /\ DetailSettles(ui, Here, crossed, failedLoads, loads)
    BY <1>1 DEF SummarySettles, DetailSettles
  <1>5. PageOK
    BY <1>1, <1>3, <1>4 DEF Init, PageOK, LoadsFor
  <1>6. HandlersOK /\ TableOK
    BY BoundsAssumption DEF Init, HandlersOK, Staged, HandlersFor, TableOK
  <1>7. Budgeted
    <2>1. left \in Budgets /\ left \in [switches : Nat, calls : Nat, failures : Nat, ops : SUBSET Ops]
      BY BoundsAssumption DEF Init
    <2>2. left \in [switches : 0..left.switches, calls : 0..left.calls,
                    failures : 0..left.failures, ops : {left.ops}]
      BY <2>1
    <2> QED BY <2>1, <2>2 DEF Budgeted
  <1> QED
    BY <1>5, <1>6, <1>7 DEF ConsoleInv

LEMMA ConsoleStep == ConsoleInv /\ [Next]_vars => ConsoleInv'
  <1> SUFFICES ASSUME ConsoleInv, [Next]_vars
               PROVE  ConsoleInv'
    OBVIOUS
  <1>1. CASE Operator
    BY <1>1, MovingKeeps, TargetKeeps, BeginningKeeps, RegistrationKeeps, DialogKeeps,
       SelectionKeeps DEF Operator
  <1>2. CASE DashboardAnswered \/ \E l \in loads : LoadAnswered(l) \/ LoadFailed(l)
    BY <1>2, DashboardKeeps, LoadAnsweredKeeps, LoadFailedKeeps
  <1>3. CASE OnReconnect \/ \E type \in EventTypes : EventArrives(type)
    BY <1>3, BeginningKeeps
  <1>4. CASE \E h \in handlers : RefreshChannelAfterEvent(h) \/ Answered(h) \/ HandlerFailed(h)
    BY <1>4, RefreshKeeps, FailedKeeps, CallAnsweredKeeps, JobsAnswersKeep, QueueAnswersKeep,
       PanelAnswersKeep, PreflightKeeps, LiveAnswersKeep, StateAnsweredKeeps, ProbeKeeps,
       CommitKeeps, DemoKeeps, WorkspaceKeeps, SeededKeeps, ClearedKeeps DEF Answered
  <1>5. CASE \E j \in Jobs : WorkerStarts(j)
    <2>1. TableOK' /\ UNCHANGED <<ui, loads, handlers, failedLoads, crossed, kept, left>>
      BY <1>5 DEF WorkerStarts, ConsoleInv, TableOK, JobStatuses
    <2> QED BY <2>1 DEF ConsoleInv, PageOK, HandlersOK, Budgeted, Here
  <1>6. CASE UNCHANGED vars
    BY <1>6 DEF vars, ConsoleInv, PageOK, HandlersOK, TableOK, Budgeted, Here
  <1> QED
    BY <1>1, <1>2, <1>3, <1>4, <1>5, <1>6 DEF Next

\* Hooks, requests and handlers keep their types, for every number of them.
THEOREM TypesHold == Spec => []TypeOK
  <1>1. ConsoleInv => TypeOK
    BY DEF ConsoleInv, PageOK, HandlersOK, TableOK, Budgeted, TypeOK, Loads, Handlers
  <1> QED BY <1>1, ConsoleInit, ConsoleStep, PTL DEF Spec

\* Unless a handler of another channel crossed the switch, what a switch empties shows
\* the selected channel or nothing, and the selection is of that channel as soon as its
\* list can seed it: for every number of channels, jobs, handlers, switches and failures.
THEOREM OnlyTheSelectedChannel == Spec => []NeverShowsAnotherChannel
  <1>1. ConsoleInv => NeverShowsAnotherChannel
    <2> SUFFICES ASSUME ConsoleInv, ~crossed
                 PROVE  /\ \A p \in ClearedOnSwitch : ui.panels[p] \in {None, Here}
                        /\ \A j \in DOMAIN ui.downloadJobs : ChannelOf[j] = Here
                        /\ LaunchableJobs(ui) # {} /\ ~kept => ui.selectedJobIds \subseteq JobsOf(Here)
      BY DEF NeverShowsAnotherChannel, ClearedOnSwitch, Here
    <2>1. /\ \A p \in ClearedOnSwitch : ui.panels[p] \in {None, Here}
          /\ \A j \in DOMAIN ui.downloadJobs : ChannelOf[j] = Here
          /\ ~kept /\ ui.selectionSeedKey \in {Here} \X SUBSET JobsOf(Here)
             => ui.selectedJobIds \subseteq JobsOf(Here)
      BY DEF ConsoleInv, PageOK, ShownFor
    <2>2. ASSUME LaunchableJobs(ui) # {}
          PROVE  ui.selectionSeedKey \in {Here} \X SUBSET JobsOf(Here)
      <3>1. LaunchableJobs(ui) \subseteq JobsOf(Here)
        <4>1. DOMAIN ui.downloadJobs \subseteq Jobs
          BY DEF ConsoleInv, PageOK, Pages
        <4> QED BY <2>1, <4>1 DEF LaunchableJobs, JobsOf
      <3>2. Here # None
        BY <2>2, <3>1, JobsAssumption, ChannelsAssumption DEF JobsOf
      <3>3. ui.selectionSeedKey = <<Here, LaunchableJobs(ui)>>
        BY <2>2, <3>2 DEF ConsoleInv, PageOK, SeededFor
      <3> QED BY <3>1, <3>3
    <2> QED BY <2>1, <2>2
  <1> QED BY <1>1, ConsoleInit, ConsoleStep, PTL DEF Spec

\* Once the loads of the channels workspace are in, and none failed, every panel shows
\* the selected channel, however often channel and workspace were changed meanwhile.
THEOREM WorkspaceSettles == Spec => []SettledWorkspace
  <1>1. ConsoleInv => SettledWorkspace
    <2> SUFFICES ASSUME ConsoleInv, ~crossed, failedLoads = {}, ui.activeNavId = "channels",
                        Here # None, \A l \in loads : l.cancelled
                 PROVE  \A p \in PanelNames : ui.panels[p] = Here
      BY DEF SettledWorkspace, Here
    <2>1. \A k : NewLoad(k, Here) \notin loads
      BY DEF NewLoad
    <2>2. \A p \in Detailed : ui.panels[p] = Here
      BY <2>1 DEF ConsoleInv, PageOK, SummarySettles
    <2>3. \A p \in PanelNames \ Detailed : ui.panels[p] = Here
      BY <2>1 DEF ConsoleInv, PageOK, DetailSettles
    <2> QED BY <2>2, <2>3
  <1> QED BY <1>1, ConsoleInit, ConsoleStep, PTL DEF Spec

=============================================================================
