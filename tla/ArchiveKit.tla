----------------------------- MODULE ArchiveKit -----------------------------
(***************************************************************************)
(* The archive.txt import of a channel's downloads page: edit or load a    *)
(* ledger, preview it, stage its videos, then hand over to the queue page: *)
(* open it, queue the staged jobs, or queue them and run a confirmed pass. *)
(* It shares the queue page's hooks, its refresh and its worker.           *)
(* (frontend/src/App.tsx, backend/app/services/archive_txt.py)             *)
(*                                                                        *)
(* A ledger is the set of videos it names; duplicate and invalid lines,    *)
(* what a preview says of each line, and the enrichment of placeholders    *)
(* are left out.  A channel is registered and stays selected.              *)
(***************************************************************************)
EXTENDS QueueConsole

CONSTANTS
    Ledgers         \* the texts an operator may paste or load, the empty one included

\* Of the constants; ConsolePages assumes it of its instance.
LedgersAssumption ==
    {} \in Ledgers /\ Ledgers \subseteq SUBSET Jobs /\ \E l \in Ledgers : l # {}

VARIABLES
    kit,            \* the wizard's state hooks
    late            \* history: the text last changed while a preview or a stage was asked for

kitVars == <<vars, kit, late>>

KitOps == {"loadfile", "preview", "stage", "openq", "prepare", "openrun", "runkit", "sync"}

TypeOK ==
    /\ PageOK
    /\ \A c \in calls : c.op \in QueueOps \cup KitOps /\ c.todo # <<>>
    /\ kit.draft \in Ledgers /\ {kit.dialog, late} \subseteq BOOLEAN
    /\ kit.preview = None \/ kit.preview \in [of : Ledgers, stageable : SUBSET Jobs]
    /\ kit.staged = None \/ kit.staged \in [of : Ledgers, videos : SUBSET Jobs, jobs : SUBSET Jobs]
    /\ kit.status \in {"idle", "previewing", "done", "error"}
    /\ kit.stage \in {"idle", "staging", "done", "error"}
    /\ kit.sync \in {"idle", "syncing", "done", "error"}
    /\ kit.queue \in {"idle", "preparing", "done", "error"}
    /\ kit.run \in {"idle", "running", "done", "error"}

-----------------------------------------------------------------------------
(* The server *)

\* A video is archived when its media file is on disk, else stageable.
PreviewArchiveTxt(ledger) == [of |-> ledger, stageable |-> ledger \ server.archived]

\* Stageable videos without an active job get a candidate; a video that has no
\* row gets a placeholder first.
StageableJobs(ledger) ==
    {j \in ledger \ server.archived : server.job[j] \notin {"candidate", "queued", "running"}}

StageArchiveTxt(ledger) ==
    [of |-> ledger, jobs |-> StageableJobs(ledger),
     videos |-> {j \in ledger \ server.archived : server.job[j] = "none"}]

-----------------------------------------------------------------------------
(* Values the page derives *)

\* The jobs handed over at once: the first of those staged.
ArchiveTxtRunJobIds ==
    IF kit.staged = None THEN {} ELSE CHOOSE S \in Firsts(kit.staged.jobs, PassLimit) : TRUE

ArchiveTxtRunBlocked == ~page.ready \/ ArchiveTxtRunJobIds = {} \/ kit.run = "running"

\* The kit is on the channel's page.
FileToolOffers ==
    IF page.here THEN {} ELSE {"load", "edit"} \cup IF kit.draft # {} THEN {"clear"} ELSE {}

PathwayOffers ==
    IF ~page.here /\ kit.status # "previewing" /\ kit.draft # {} THEN {"preview"} ELSE {}

StageOffers ==
    IF ~page.here /\ kit.preview # None /\ kit.stage # "staging"
       /\ kit.preview.stageable # {} THEN {"stage"} ELSE {}

SyncOffers ==
    IF ~page.here /\ kit.preview # None /\ kit.staged # None /\ kit.sync # "syncing"
       /\ kit.staged.videos # {} THEN {"sync"} ELSE {}

QueueHandoffOffers ==
    IF page.here \/ kit.preview = None \/ kit.staged = None \/ ArchiveTxtRunJobIds = {} THEN {}
    ELSE (IF page.status # "loading" THEN {"open queue"} ELSE {}) \cup
         (IF kit.queue # "preparing" THEN {"prepare"} ELSE {}) \cup
         (IF kit.run # "running" /\ kit.queue # "preparing" THEN {"open run"} ELSE {})

\* The dialog cannot be closed while its pass runs.
RunDialogOffers ==
    IF ~kit.dialog THEN {}
    ELSE (IF kit.run # "running" THEN {"close"} ELSE {}) \cup
         (IF ~ArchiveTxtRunBlocked THEN {"start"} ELSE {})

-----------------------------------------------------------------------------
(* Operations *)

KitAwaits(op) ==
    CASE op = "loadfile" -> <<"file">>
      [] op = "preview" -> <<"preview">>
      [] op = "stage" -> <<"stage", "follow", "refresh", "channel">>
      [] op = "openq" -> <<"refresh">>
      [] op = "prepare" -> <<"act", "refresh", "channel">>
      [] op = "openrun" -> <<"plan">>
      [] op = "runkit" -> <<"act", "start", "pass", "refresh", "channel", "runs">>
      [] OTHER -> <<"sync", "follow", "refresh", "channel">>

\* Previews and stages that have not answered.
Asking == \E c \in calls : Stage(c) \in {"preview", "stage"}

BeginKit(op, act, jobs, p, k) ==
    /\ BeginWith(op, KitAwaits(op), act, jobs, p)
    /\ kit' = k
    /\ UNCHANGED late

\* Mutant: a new text keeps what was shown for the old one.
KeepArchiveTxtReviewState(k) == k

\* The run's status and its dialog stay.
ResetArchiveTxtReviewState(k) ==
    [k EXCEPT !.preview = None, !.staged = None, !.sync = "idle", !.queue = "idle",
              !.stage = "idle", !.status = "idle"]

ReplaceArchiveTxtDraft(ledger) ==
    /\ kit' = ResetArchiveTxtReviewState([kit EXCEPT !.draft = ledger])
    /\ late' = Asking

EditArchiveTxtDraft(ledger) ==
    /\ (IF ledger = {} THEN "clear" ELSE "edit") \in FileToolOffers /\ ledger # kit.draft
    /\ Edit(page)
    /\ ReplaceArchiveTxtDraft(ledger)

\* Reading the file takes a moment.
LoadArchiveTxtFile(ledger) ==
    /\ "load" \in FileToolOffers
    /\ BeginKit("loadfile", None, ledger, page, kit)

HandlePreviewArchiveTxt ==
    /\ "preview" \in PathwayOffers
    /\ BeginKit("preview", None, kit.draft, page,
                [kit EXCEPT !.status = "previewing", !.stage = "idle", !.staged = None,
                            !.sync = "idle", !.queue = "idle"])

HandleStageArchiveTxt ==
    /\ "stage" \in StageOffers /\ kit.draft # {}
    /\ BeginKit("stage", None, kit.draft, page,
                [kit EXCEPT !.stage = "staging", !.sync = "idle", !.queue = "idle"])

\* The queue page opens on the staged jobs.
HandleArchiveTxtOpenQueue ==
    /\ "open queue" \in QueueHandoffOffers
    /\ BeginKit("openq", None, {}, [page EXCEPT !.here = TRUE, !.filter = "launchable",
                    !.narrow = Jobs, !.selected = kit.staged.jobs, !.status = "loading"], kit)

HandleArchiveTxtPrepareQueue ==
    /\ "prepare" \in QueueHandoffOffers
    /\ BeginKit("prepare", "queue", ArchiveTxtRunJobIds, [page EXCEPT !.status = "bulk", !.flow = "bulk"],
                [kit EXCEPT !.queue = "preparing"])

HandleArchiveTxtOpenRunConfirm ==
    /\ "open run" \in QueueHandoffOffers
    /\ BeginKit("openrun", None, {}, page, [kit EXCEPT !.run = "idle"])

HandleArchiveTxtPrepareAndRun ==
    /\ "start" \in RunDialogOffers
    /\ BeginKit("runkit", "queue", ArchiveTxtRunJobIds,
                [page EXCEPT !.status = "worker", !.flow = "downloading"],
                [kit EXCEPT !.run = "running", !.queue = "preparing"])

CloseRunDialog ==
    /\ "close" \in RunDialogOffers
    /\ kit' = [kit EXCEPT !.dialog = FALSE]
    /\ UNCHANGED <<vars, late>>

HandleArchiveTxtMetadataSync ==
    /\ "sync" \in SyncOffers
    /\ BeginKit("sync", None, {}, [page EXCEPT !.flow = "syncing"], [kit EXCEPT !.sync = "syncing"])

-----------------------------------------------------------------------------
(* Answers *)

Ends(c) == calls' = calls \ {c}

\* The queue page on the jobs of the hand-over.
OnQueuePage(c, p, filter) ==
    [p EXCEPT !.here = TRUE, !.filter = filter, !.narrow = Jobs, !.selected = c.jobs]

\* A page that is arrived at loads as well.
Arrives(c, rest) ==
    calls' = (calls \ {c}) \cup rest \cup IF page.here THEN {} ELSE {Load}

\* Mutant: a preview that could not be made leaves its button waiting.
FailedPreviewWaits(c) ==
    CASE c.op = "stage" -> [kit EXCEPT !.stage = "error"]
      [] c.op = "prepare" -> [kit EXCEPT !.queue = "error"]
      [] c.op = "openrun" -> [kit EXCEPT !.run = "error"]
      [] c.op = "runkit" -> [kit EXCEPT !.run = "error", !.queue = "error"]
      [] c.op = "sync" -> [kit EXCEPT !.sync = "error"]
      [] OTHER -> kit

\* The kit when one of a handler's requests has failed, whichever.
KitFailed(c) ==
    CASE c.op = "preview" -> [kit EXCEPT !.status = "error"]
      [] c.op = "stage" -> [kit EXCEPT !.stage = "error"]
      [] c.op = "prepare" -> [kit EXCEPT !.queue = "error"]
      [] c.op = "openrun" -> [kit EXCEPT !.run = "error"]
      [] c.op = "runkit" -> [kit EXCEPT !.run = "error", !.queue = "error"]
      [] c.op = "sync" -> [kit EXCEPT !.sync = "error"]
      [] OTHER -> kit

FileRead(c) ==
    /\ Stage(c) = "file"
    /\ page' = [page EXCEPT !.flow = "idle"]
    /\ ReplaceArchiveTxtDraft(c.jobs)
    /\ Ends(c)
    /\ UNCHANGED <<server, lone, left>>

PreviewAnswered(c) ==
    /\ Stage(c) = "preview"
    /\ kit' = [kit EXCEPT !.preview = PreviewArchiveTxt(c.jobs), !.status = "done"]
    /\ page' = [page EXCEPT !.flow = "idle"]
    /\ Ends(c)
    /\ UNCHANGED <<server, lone, left, late>>

\* The result is shown before the rest is read again.
StageAnswered(c) ==
    /\ Stage(c) = "stage"
    /\ server' = [server EXCEPT !.job = [j \in Jobs |->
                      IF j \in StageableJobs(c.jobs) THEN "candidate" ELSE @[j]]]
    /\ kit' = [kit EXCEPT !.staged = StageArchiveTxt(c.jobs), !.stage = "done",
                          !.preview = PreviewArchiveTxt(c.jobs)]
    /\ page' = [page EXCEPT !.flow = "idle"]
    /\ GoesOn(c)
    /\ UNCHANGED <<lone, left, late>>

\* A sync that failed on the server is an answer like any other.
SyncAnswered(c, status) ==
    /\ Stage(c) = "sync"
    /\ kit' = [kit EXCEPT !.sync = status]
    /\ Becomes(c, [c EXCEPT !.todo = Tail(@), !.failed = status = "error"])
    /\ UNCHANGED <<server, page, lone, left, late>>

RunPlanRead(c) ==
    /\ Stage(c) = "plan"
    /\ page' = [page EXCEPT !.ready = server.ready]
    /\ kit' = [kit EXCEPT !.dialog = TRUE]
    /\ Ends(c)
    /\ UNCHANGED <<server, lone, left, late>>

\* The queue status is reset by a refresh that was the handler's last await.
OpenQueueEnds(c) ==
    /\ c.op = "openq" /\ c.seen # None /\ c.plan # None
    /\ page' = [ApplyGlobalDownloadJobs(c) EXCEPT !.status = "idle"]
    /\ Ends(c)
    /\ UNCHANGED <<server, kit, lone, left, late>>

PrepareEnds(c) ==
    /\ c.op = "prepare" /\ Stage(c) = "channel"
    /\ page' = [OnQueuePage(c, page, "queued") EXCEPT !.status = "idle", !.flow = "idle",
                    !.ready = server.ready, !.archived = server.archived]
    /\ kit' = [kit EXCEPT !.queue = "done"]
    /\ Arrives(c, {})
    /\ lone' = FALSE
    /\ UNCHANGED <<server, left, late>>

\* A pass in which a job failed ends as an error; the dialog closes anyway.  The plan
\* shown is the one read at the end of the pass.
RunEndsWell(c) ==
    /\ c.op = "runkit" /\ Stage(c) = "runs"
    /\ page' = [OnQueuePage(c, page, "all") EXCEPT !.status = IF c.failed THEN "error" ELSE "idle",
                    !.flow = IF c.failed THEN "error" ELSE "idle", !.ready = c.ready]
    /\ kit' = [kit EXCEPT !.run = IF c.failed THEN "error" ELSE "done",
                          !.queue = IF c.failed THEN "error" ELSE "done", !.dialog = FALSE]
    /\ Arrives(c, {})
    /\ lone' = FALSE
    /\ UNCHANGED <<server, left, late>>

SyncEnds(c) ==
    /\ c.op = "sync" /\ Stage(c) = "channel"
    /\ page' = [page EXCEPT !.flow = IF c.failed THEN "error" ELSE "idle", !.ready = server.ready,
                            !.archived = server.archived]
    /\ Ends(c)
    /\ UNCHANGED <<server, kit, lone, left, late>>

KitFails(c) ==
    /\ page' = IF c.op \in {"openq", "prepare", "runkit"}
               THEN [page EXCEPT !.status = "error", !.flow = "error"]
               ELSE [page EXCEPT !.flow = "error"]
    /\ kit' = KitFailed(c)
    /\ Ends(c)
    /\ lone' = FALSE
    /\ UNCHANGED <<server, left, late>>

\* The other awaits are the queue page's.
Follows(c) ==
    /\ \/ Acted(c) \/ ReadRest(c)
       \/ c.op # "openq" /\ RefreshQueueConsoleState(c)
       \/ c.op \notin {"prepare", "sync"} /\ LoadChannelState(c)
    /\ UNCHANGED <<kit, late>>

-----------------------------------------------------------------------------
KitInit ==
    /\ Init
    /\ kit = [draft |-> CHOOSE l \in Ledgers : l # {}, preview |-> None, staged |-> None,
              status |-> "idle", stage |-> "idle", sync |-> "idle", queue |-> "idle",
              run |-> "idle", dialog |-> FALSE]
    /\ late = FALSE

KitOperator ==
    \/ \E ledger \in Ledgers : EditArchiveTxtDraft(ledger) \/ LoadArchiveTxtFile(ledger)
    \/ HandlePreviewArchiveTxt \/ HandleStageArchiveTxt \/ HandleArchiveTxtOpenQueue
    \/ HandleArchiveTxtPrepareQueue \/ HandleArchiveTxtOpenRunConfirm
    \/ HandleArchiveTxtPrepareAndRun \/ CloseRunDialog \/ HandleArchiveTxtMetadataSync

KitAnswers(c) ==
    \/ Follows(c) \/ FileRead(c) \/ PreviewAnswered(c) \/ StageAnswered(c) \/ RunPlanRead(c)
    \/ \E status \in {"done", "error"} : SyncAnswered(c, status)
    \/ OpenQueueEnds(c) \/ PrepareEnds(c) \/ RunEndsWell(c) \/ SyncEnds(c) \/ KitFails(c)

KitNext ==
    \/ KitOperator
    \/ (Operator \/ Server) /\ UNCHANGED <<kit, late>>
    \/ \E c \in calls : \/ Reads(c) /\ UNCHANGED <<kit, late>>
                        \/ c.op \in QueueOps /\ Answers(c) /\ UNCHANGED <<kit, late>>
                        \/ c.op \in KitOps /\ KitAnswers(c)

KitSpec == KitInit /\ [][KitNext]_kitVars

-----------------------------------------------------------------------------
(* Properties *)

\* No button of the kit, or of the queue page it shares, is disabled for ever.
NeverStuck ==
    /\ page.status = "loading" => Busy({"refresh", "open", "openq"})
    /\ page.status = "bulk" => Busy({"bulk", "row", "prepare"})
    /\ page.status = "worker" => Busy({"run", "runkit"})
    /\ page.flow = "bulk" => Busy({"rescan", "prepare"})
    /\ page.flow = "downloading" => Busy({"run", "runkit"})
    /\ page.flow = "syncing" => Busy({"sync"})
    /\ \A j \in Jobs : QueueDetailShows(j) = "loading" => \E c \in calls : c.op = "files" /\ j \in c.jobs
    /\ kit.status = "previewing" => Busy({"preview"})
    /\ kit.stage = "staging" => Busy({"stage"})
    /\ kit.sync = "syncing" => Busy({"sync"})
    /\ kit.queue = "preparing" => Busy({"prepare", "runkit"})
    /\ kit.run = "running" => Busy({"runkit"})

\* What is staged was reviewed: the preview next to the stage button is of the text
\* a stage sends, and the staged jobs offered to a pass come from that text, unless
\* the text was last changed while a preview or a stage was being answered.
Reviewed ==
    ~late => /\ kit.preview # None => kit.preview.of = kit.draft
             /\ kit.staged # None => kit.staged.of = kit.draft

=============================================================================
