--------------------------- MODULE ScheduleControl ---------------------------
(***************************************************************************)
(* Automatic backup as the console switches it: the overview's start,     *)
(* update and pause, the runtime settings form, the policy toggle, and     *)
(* what they save on the server.  (frontend/src/App.tsx,                   *)
(* components/channel/ChannelBackupOverview.tsx)                           *)
(*                                                                        *)
(* A start saves the channel's policy, queues its candidates, then saves   *)
(* the settings and the interval of every channel in parallel: the first   *)
(* failure ends the start with an error, and the requests still under way  *)
(* go on.  Requests of one browser are served in any order, an answer may  *)
(* be lost after its request was served.                                   *)
(*                                                                        *)
(* The channel is selected and loaded; the pass limit, saved and edited    *)
(* like the interval, and the two binaries of the draft are left out.      *)
(***************************************************************************)
EXTENDS Integers, FiniteSets

CONSTANTS
    Channels,       \* channels of the dashboard
    Chosen,         \* the selected one
    Seconds,        \* intervals the operator may enter, in seconds
    FirstServers,   \* what the server may hold at first
    None,
    MaxCalls,       \* requests and handlers under way at once
    Budgets         \* bounds of a behaviour: the edits of the draft, the operations
                    \* begun, and which

VARIABLES
    server,         \* settings, the channel's policy and jobs, channel intervals
    page,           \* the state hooks of App
    calls,          \* handlers and refreshes under way
    reported,       \* history: what the last operation told the operator
    left            \* what is left of the budget

vars == <<server, page, calls, reported, left>>

Switches == {"worker", "scheduler", "metadata"}
Settings == [on : SUBSET Switches, every : Seconds, metaEvery : Seconds]
Policies == [auto : BOOLEAN, paused : BOOLEAN]
Backlogs == {"missing", "candidate", "queued"}
Writers == {"start", "stop", "update", "apply", "toggle", "auto"}
Ops == Writers \cup {"reload", "summary"}

Servers == [settings : Settings, policy : Policies, backlog : Backlogs,
            minutes : [Channels -> Nat \ {0}]]
Pages == [settings : Settings, draft : Settings, policy : Policies, minutes : Nat \ {0},
          complete : BOOLEAN, applyStatus : {"idle", "applying", "saved", "error"},
          syncing : BOOLEAN]

\* Of the constants; ConsolePages assumes it of its instance.
ChosenAssumption == Chosen \in Channels /\ "settings" \notin Channels
SecondsAssumption == Seconds \subseteq Nat \ {0}
FirstServersAssumption == FirstServers \subseteq Servers
BudgetsAssumption == Budgets \subseteq [edits : Nat, calls : Nat, ops : SUBSET Ops]

\* Math.max(1, Math.round(seconds / 60))
Minutes(s) == LET m == (s + 30) \div 60 IN IF m < 1 THEN 1 ELSE m

TypeOK ==
    /\ server \in Servers /\ page \in Pages
    /\ \A c \in calls : /\ c.op \in Ops /\ c.slot \in 1..MaxCalls
                        /\ c.todo \subseteq {"settings"} \cup Channels
    /\ reported \in {"nothing", "on", "paused"}
    /\ \E b \in Budgets : left.edits \in 0..b.edits /\ left.calls \in 0..b.calls
                         /\ left.ops = b.ops

-----------------------------------------------------------------------------
(* Values the page derives *)

\* The form and every save refuse what the server's schema refuses.
IsRuntimeDraftValid(d) == d.every >= 5 /\ d.metaEvery >= 30

AutomaticBackupIntended == page.policy.auto /\ ~page.policy.paused

ChannelSchedulerEnabled == page.settings.on = Switches /\ AutomaticBackupIntended

ChannelSchedulerDirty ==
    /\ ChannelSchedulerEnabled
    /\ \/ page.settings.every # page.draft.every
       \/ page.settings.metaEvery # page.draft.metaEvery
       \/ page.minutes # Minutes(page.draft.every)

\* A failed job, a missing binary or a failed pass also ask for attention.
BackgroundNeedsAttention(trouble) ==
    AutomaticBackupIntended /\ (trouble \/ page.settings.on # Switches)

\* Mutant: the overview does not look at a save under way.
OffersWhileApplying(trouble) ==
    IF page.syncing THEN {}
    ELSE (IF ~ChannelSchedulerEnabled THEN {"start"}
          ELSE {"check"} \cup (IF ChannelSchedulerDirty THEN {"update"} ELSE {}))
         \cup (IF BackgroundNeedsAttention(trouble) \/ page.applyStatus = "error"
               THEN {"attention"}
               ELSE IF ChannelSchedulerEnabled THEN {"stop"} ELSE {})

\* The overview's buttons, all disabled while something is saved or synced.
\* One that asks for attention has no pause button.
OverviewOffers(trouble) ==
    IF page.applyStatus = "applying" \/ page.syncing THEN {}
    ELSE (IF ~ChannelSchedulerEnabled THEN {"start"}
          ELSE {"check"} \cup (IF ChannelSchedulerDirty THEN {"update"} ELSE {}))
         \cup (IF BackgroundNeedsAttention(trouble) \/ page.applyStatus = "error"
               THEN {"attention"}
               ELSE IF ChannelSchedulerEnabled THEN {"stop"} ELSE {})

SettingsFormOffers ==
    IF page.applyStatus # "applying" /\ IsRuntimeDraftValid(page.draft) THEN {"apply"} ELSE {}

\* What a start or an update saves: everything on, one interval for both loops.
NextDraft ==
    [on |-> Switches, every |-> page.draft.every, metaEvery |-> page.draft.every]

-----------------------------------------------------------------------------
(* Operations *)

FreeSlots == {i \in 1..MaxCalls : \A c \in calls : c.slot # i}
FreeSlot == CHOOSE i \in FreeSlots : TRUE

\* A writer is on firm ground when the page shows the channel's policy as it is
\* and no toggle and no request of a failed operation is under way.
Firm ==
    /\ page.policy = server.policy
    /\ \A c \in calls : c.op \notin {"toggle", "auto"} /\ ~c.told

Begin(op, at, draft, todo, p) ==
    /\ left.calls > 0 /\ op \in left.ops /\ FreeSlots # {}
    /\ left' = [left EXCEPT !.calls = @ - 1]
    /\ page' = p
    /\ calls' =
         {IF op \in {"toggle", "auto"} THEN [c EXCEPT !.firm = FALSE] ELSE c : c \in calls} \cup
         {[slot |-> FreeSlot, op |-> op, at |-> at, draft |-> draft, todo |-> todo,
           saw |-> page.policy, cut |-> FALSE, told |-> FALSE, firm |-> Firm, got |-> None]}
    /\ reported' = IF op \in Writers THEN "nothing" ELSE reported
    /\ UNCHANGED server

Applying(d) == [page EXCEPT !.draft = d, !.applyStatus = "applying", !.syncing = FALSE]

\* An invalid draft ends an operation before it starts.
Refused ==
    /\ page' = [page EXCEPT !.applyStatus = "error"]
    /\ UNCHANGED <<server, calls, reported, left>>

Everything == {"settings"} \cup Channels

\* A channel with nothing missing queues nothing.
AfterPolicy == IF page.complete THEN "save" ELSE "candidates"

\* The policy is saved unless the page shows it on and not paused.
HandleStartDownloadSchedule(trouble) ==
    /\ "start" \in OverviewOffers(trouble)
    /\ IF IsRuntimeDraftValid(NextDraft)
       THEN Begin("start", IF AutomaticBackupIntended THEN AfterPolicy ELSE "policy",
                  NextDraft, Everything, Applying(NextDraft))
       ELSE Refused

HandleUpdateDownloadSchedule(trouble) ==
    /\ "update" \in OverviewOffers(trouble)
    /\ IF IsRuntimeDraftValid(NextDraft)
       THEN Begin("update", "save", NextDraft, Everything, Applying(NextDraft))
       ELSE Refused

HandleStopDownloadSchedule(trouble) ==
    /\ "stop" \in OverviewOffers(trouble)
    /\ Begin("stop", "policy", page.draft, {}, Applying(page.draft))

HandleApplyRuntimeSettings ==
    /\ "apply" \in SettingsFormOffers
    /\ Begin("apply", "save", page.draft, {"settings"},
             [page EXCEPT !.applyStatus = "applying"])

\* The two toggles of the policy console are never disabled.
HandleToggleWorkerPause == Begin("toggle", "policy", page.draft, {}, page)
HandleToggleAutoDownload == Begin("auto", "policy", page.draft, {}, page)

\* A reconnect or a refresh of the page reads the settings, then the channel again.
Reload == Begin("reload", "read", page.draft, {}, page)

Edits(d) ==
    /\ left.edits > 0 /\ d # page.draft
    /\ left' = [left EXCEPT !.edits = @ - 1]
    /\ page' = [page EXCEPT !.draft = d]
    /\ UNCHANGED <<server, calls, reported>>

\* The overview sets both intervals, in whole minutes.
OnIntervalChange(s) == s % 60 = 0 /\ Edits([page.draft EXCEPT !.every = s, !.metaEvery = s])

\* The settings form sets each field by itself.
EditField ==
    \/ \E s \in Seconds : Edits([page.draft EXCEPT !.every = s])
    \/ \E s \in Seconds : Edits([page.draft EXCEPT !.metaEvery = s])
    \/ \E w \in Switches : Edits([page.draft EXCEPT !.on = (@ \ {w}) \cup ({w} \ @)])

\* A manual sync or a bulk call of the channel begins or ends.
OtherWork ==
    /\ page' = [page EXCEPT !.syncing = ~@]
    /\ UNCHANGED <<server, calls, reported, left>>

-----------------------------------------------------------------------------
(* Requests *)

Ends(c) == calls' = calls \ {c}
GoesOn(c, d) == calls' = (calls \ {c}) \cup {d}

\* The settings answer becomes the page's settings, and the draft follows them.
ShowSettings(p, s) == [p EXCEPT !.settings = s, !.draft = s]

\* What the policy request of an operation saves.
PolicySent(c) ==
    CASE c.op = "start" -> [auto |-> TRUE, paused |-> FALSE]
      [] c.op = "stop" -> [server.policy EXCEPT !.paused = TRUE]
      [] c.op = "toggle" -> [server.policy EXCEPT !.paused = ~c.saw.paused]
      [] OTHER -> [server.policy EXCEPT !.auto = ~c.saw.auto]

\* The end of an operation that reports success; a refresh of the channel follows.
Saved(c, word) ==
    /\ reported' = IF c.firm THEN word ELSE reported
    /\ GoesOn(c, [c EXCEPT !.op = "summary", !.at = "read"])

PolicyAnswered(c) ==
    /\ c.at = "policy"
    /\ server' = [server EXCEPT !.policy = PolicySent(c)]
    /\ LET shown == [page EXCEPT !.policy = PolicySent(c)]
       IN  \/ /\ c.op = "start" /\ page' = shown
              /\ GoesOn(c, [c EXCEPT !.at = AfterPolicy])
              /\ UNCHANGED reported
           \/ /\ c.op = "stop"
              /\ page' = [shown EXCEPT !.applyStatus = "saved", !.syncing = FALSE]
              /\ Saved(c, "paused")
           \/ c.op = "auto" /\ page' = shown /\ Ends(c) /\ UNCHANGED reported
           \/ /\ c.op = "toggle" /\ GoesOn(c, [c EXCEPT !.at = "plan", !.got = PolicySent(c)])
              /\ UNCHANGED <<page, reported>>
    /\ UNCHANGED left

\* The pause toggle shows the new policy once the worker's plan is in as well.
PlanAnswered(c) ==
    /\ c.at = "plan"
    /\ page' = [page EXCEPT !.policy = c.got]
    /\ Ends(c)
    /\ UNCHANGED <<server, reported, left>>

CandidatesAnswered(c) ==
    /\ c.at = "candidates"
    /\ server' = [server EXCEPT !.backlog = IF @ = "missing" THEN "candidate" ELSE @]
    /\ GoesOn(c, [c EXCEPT !.at = "queue"])
    /\ UNCHANGED <<page, reported, left>>

QueueAnswered(c) ==
    /\ c.at = "queue"
    /\ server' = [server EXCEPT !.backlog = IF @ = "candidate" THEN "queued" ELSE @]
    /\ GoesOn(c, [c EXCEPT !.at = "save"])
    /\ UNCHANGED <<page, reported, left>>

\* Mutant: an operation waits for the settings only.
WaitsForSettings(c) == "settings" \notin c.todo

\* An operation waits for all its requests.
AllAnswered(c) == c.todo = {}

\* One of the parallel requests is answered.  The selected channel's interval
\* is shown once every channel has answered.
SaveAnswered(c, r) ==
    /\ c.at = "save" /\ r \in c.todo
    /\ r \in Channels => Minutes(c.draft.every) >= 5
    /\ server' = IF r = "settings" THEN [server EXCEPT !.settings = c.draft]
                 ELSE [server EXCEPT !.minutes[r] = Minutes(c.draft.every)]
    /\ LET d == [c EXCEPT !.todo = @ \ {r}]
           p == IF r = "settings" THEN ShowSettings(page, c.draft)
                ELSE IF d.todo \cap Channels = {} /\ ~c.cut
                     THEN [page EXCEPT !.minutes = Minutes(c.draft.every)] ELSE page
       IN  IF AllAnswered(d)
           THEN IF d.told
                THEN page' = p /\ Ends(c) /\ UNCHANGED reported
                ELSE /\ page' = [p EXCEPT !.applyStatus = "saved",
                                          !.syncing = IF c.op = "apply" THEN @ ELSE FALSE]
                     /\ IF c.op = "apply" THEN Ends(c) /\ UNCHANGED reported
                        ELSE Saved(c, IF c.op = "start" THEN "on" ELSE "nothing")
           ELSE page' = p /\ GoesOn(c, d) /\ UNCHANGED reported
    /\ UNCHANGED left

\* A parallel request fails, served or not; the first failure is reported.
SaveFailed(c, r) ==
    /\ c.at = "save" /\ r \in c.todo
    /\ \/ UNCHANGED server
       \/ r = "settings" /\ server' = [server EXCEPT !.settings = c.draft]
       \/ /\ r \in Channels /\ Minutes(c.draft.every) >= 5
          /\ server' = [server EXCEPT !.minutes[r] = Minutes(c.draft.every)]
    /\ page' = IF c.told THEN page
               ELSE [page EXCEPT !.applyStatus = "error",
                                 !.syncing = IF c.op = "apply" THEN @ ELSE FALSE]
    /\ LET d == [c EXCEPT !.todo = @ \ {r}, !.told = TRUE, !.cut = @ \/ r \in Channels]
       IN  IF d.todo = {} THEN Ends(c) ELSE GoesOn(c, d)
    /\ UNCHANGED <<reported, left>>

\* What a request that is served on its own changes.
Stepped(c) ==
    CASE c.at = "policy" -> [server EXCEPT !.policy = PolicySent(c)]
      [] c.at = "candidates" /\ server.backlog = "missing" -> [server EXCEPT !.backlog = "candidate"]
      [] c.at = "queue" /\ server.backlog = "candidate" -> [server EXCEPT !.backlog = "queued"]
      [] OTHER -> server

\* Any other request of an operation fails, served or not.
StepFailed(c) ==
    /\ c.at \in {"policy", "candidates", "queue", "plan"}
    /\ server' \in {server, Stepped(c)}
    /\ page' = IF c.op \in {"toggle", "auto"} THEN page
               ELSE [page EXCEPT !.applyStatus = "error", !.syncing = FALSE]
    /\ Ends(c)
    /\ UNCHANGED <<reported, left>>

\* A read: the server answers with what it holds now, the answer comes later.
Read(c) ==
    /\ c.at = "read"
    /\ GoesOn(c, [c EXCEPT !.at = "answer", !.got = server])
    /\ UNCHANGED <<server, page, reported, left>>

ReadAnswered(c) ==
    /\ c.at = "answer"
    /\ \/ /\ c.op = "reload" /\ page' = ShowSettings(page, c.got.settings)
          /\ GoesOn(c, [c EXCEPT !.op = "summary", !.at = "read", !.got = None])
       \/ /\ c.op = "summary"
          /\ page' = [page EXCEPT !.policy = c.got.policy, !.minutes = c.got.minutes[Chosen]]
          /\ Ends(c)
    /\ UNCHANGED <<server, reported, left>>

\* A refresh that fails changes nothing: the success it follows stays.
ReadFailed(c) ==
    /\ c.at \in {"read", "answer"}
    /\ Ends(c)
    /\ UNCHANGED <<server, page, reported, left>>

-----------------------------------------------------------------------------
Init ==
    /\ server \in FirstServers
    /\ page \in [settings : {server.settings}, draft : {server.settings},
                 policy : {server.policy}, minutes : {server.minutes[Chosen]},
                 complete : BOOLEAN, applyStatus : {"idle"}, syncing : {FALSE}]
    /\ calls = {} /\ reported = "nothing"
    /\ left \in Budgets

Operator ==
    \/ \E trouble \in BOOLEAN : \/ HandleStartDownloadSchedule(trouble)
                                \/ HandleUpdateDownloadSchedule(trouble)
                                \/ HandleStopDownloadSchedule(trouble)
    \/ HandleApplyRuntimeSettings
    \/ HandleToggleWorkerPause \/ HandleToggleAutoDownload
    \/ Reload
    \/ \E s \in Seconds : OnIntervalChange(s)
    \/ EditField
    \/ OtherWork

Next ==
    \/ Operator
    \/ \E c \in calls :
          \/ PolicyAnswered(c) \/ PlanAnswered(c) \/ CandidatesAnswered(c) \/ QueueAnswered(c)
          \/ \E r \in c.todo : SaveAnswered(c, r) \/ SaveFailed(c, r)
          \/ StepFailed(c) \/ Read(c) \/ ReadAnswered(c) \/ ReadFailed(c)

Spec == Init /\ [][Next]_vars

-----------------------------------------------------------------------------
(* Properties *)

\* What the console last told the operator is so on the server: after "started"
\* the three switches are on, the channel's policy is on and not paused, the
\* missing videos are queued, and both loops and every channel have the
\* interval that was shown; after "paused" the channel is paused.  It holds from
\* the answer until the next operation, whatever failed before, whatever
\* refreshes are late, for an operation begun on a page that showed the
\* channel's policy as it was, with no toggle beside it and no request of an
\* earlier, failed operation still under way.
ReportedIsSo ==
    /\ reported = "on" =>
          /\ server.settings.on = Switches
          /\ server.settings.every = server.settings.metaEvery
          /\ server.policy = [auto |-> TRUE, paused |-> FALSE]
          /\ page.complete \/ server.backlog = "queued"
          /\ \A c \in Channels : server.minutes[c] = Minutes(server.settings.every)
    /\ reported = "paused" => server.policy.paused

\* The buttons that a save disables wait for a save that still answers: one that
\* has not yet been told to have failed.
NeverStuck ==
    page.applyStatus = "applying" =>
        \E c \in calls : c.op \in {"start", "stop", "update", "apply"} /\ ~c.told

=============================================================================
