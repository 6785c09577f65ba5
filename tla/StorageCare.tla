----------------------------- MODULE StorageCare -----------------------------
(***************************************************************************)
(* The storage page's three plan-then-apply flows: index drift (recover a  *)
(* media file no row names, prune a row whose file is missing), orphan     *)
(* sidecars moved to a quarantine folder, and the quarantine drawer        *)
(* (restore, purge).  (frontend/src/App.tsx)                               *)
(*                                                                        *)
(* Every flow asks the server for a dry run, shows the plan and applies it *)
(* by sending the request again: what is done is decided by the server at  *)
(* that moment.  Nothing ties an answer to the selection it was asked for, *)
(* a dialog may be closed and another item opened meanwhile, and a timer   *)
(* closes a flow some time after its success, whatever it then shows.      *)
(*                                                                        *)
(* A folder holds one media file and one sidecar; the server is an         *)
(* external service here, modelled from storage_orphans.py and             *)
(* storage_drift.py.                                                       *)
(***************************************************************************)
EXTENDS Integers, FiniteSets

CONSTANTS
    Folders,        \* video folders
    Ages,           \* minimum ages of a purge, in days
    None,
    MaxVersions,    \* bound: sidecars downloads write per folder
    MaxCalls,       \* requests and timers under way at once
    Plans           \* what the disk holds at first, and the bounds of a behaviour: the
                    \* requests begun, by which flows, edits and steps outside the page

OldestAge == CHOOSE a \in Ages : \A b \in Ages : b <= a
Versions == 1..MaxVersions
Held == [folder : Folders, version : Versions, age : 0..OldestAge]
Disks == [mounted : BOOLEAN, media : SUBSET Folders, rows : SUBSET Folders,
          home : [Folders -> 0..MaxVersions], written : [Folders -> 0..MaxVersions],
          held : SUBSET Held]

\* Of the constants; ConsolePages assumes it of its instance.
AgesAssumption == Ages \subseteq Nat \ {0} /\ \E a \in Ages : \A b \in Ages : b <= a

\* A behaviour begins with every sidecar at its place or in the quarantine.
PlansAssumption ==
    \A p \in Plans :
        /\ p.disk \in Disks
        /\ \A f \in Folders : \A v \in 1..p.disk.written[f] :
              p.disk.home[f] = v \/ \E h \in p.disk.held : h.folder = f /\ h.version = v

VARIABLES
    disk,           \* the download folder, the index rows and the quarantine
    page,           \* the state hooks of App
    calls,          \* requests and timers under way
    purged,         \* history: the sidecars a purge deleted
    left            \* what is left of the bounds

vars == <<disk, page, calls, purged, left>>

Drift == [kind : {"unindexed", "missing"}, folder : Folders]
Flows == {"drift", "orphan", "drawer"}
Statuses == {"idle", "loading", "planning", "running", "done", "error"}

TypeOK ==
    /\ disk \in Disks
    /\ \A f \in Flows : page[f].status \in Statuses
    /\ page.drift.item \in Drift \cup {None} /\ page.orphan.item \in Folders \cup {None}
    /\ page.drawer.item \in Held \cup {None} /\ page.age \in Ages
    /\ page.scan.orphans \subseteq Folders /\ page.scan.drift \subseteq Drift
    /\ page.list \subseteq Held /\ page.open \in BOOLEAN /\ page.confirmed \in BOOLEAN
    /\ Cardinality(calls) <= MaxCalls
    /\ \A p \in purged : p.file \in Held /\ p.shown \in Ages

-----------------------------------------------------------------------------
(* The server *)

\* A volume that is not mounted shows an empty folder.
There(S) == IF disk.mounted THEN S ELSE {}

Scan == [orphans |-> There({f \in Folders : disk.home[f] # 0} \ disk.media),
         drift |-> [kind : {"unindexed"}, folder : There(disk.media) \ disk.rows] \cup
                   [kind : {"missing"}, folder : disk.rows \ There(disk.media)]]

HeldAt(h) == \E g \in There(disk.held) : g.folder = h.folder /\ g.version = h.version

\* An info.json is enough to plan a recovery, and to rescan its folder.
Recover(f) ==
    [ok |-> f \in There({g \in Folders : disk.home[g] # 0}),
     disk |-> [disk EXCEPT !.rows = @ \cup (There(disk.media) \cap {f})]]

\* A row is deleted only while its file is not there.
Prune(f) ==
    [ok |-> f \in disk.rows \ There(disk.media),
     disk |-> [disk EXCEPT !.rows = @ \ {f}]]

\* A sidecar is taken only from a folder without media.
Quarantine(f) ==
    [ok |-> f \in Scan.orphans,
     disk |-> [disk EXCEPT !.home[f] = 0,
                           !.held = @ \cup {[folder |-> f, version |-> disk.home[f], age |-> 0]}]]

\* Mutant: a restore does not look whether its place is taken.
RestoreOver(h) ==
    [ok |-> HeldAt(h),
     disk |-> [disk EXCEPT !.home[h.folder] = h.version,
                  !.held = {g \in @ : g.folder # h.folder \/ g.version # h.version}]]

\* A sidecar goes back only where there is none.
Restore(h) ==
    [ok |-> HeldAt(h) /\ disk.home[h.folder] = 0,
     disk |-> [disk EXCEPT !.home[h.folder] = h.version,
                  !.held = {g \in @ : g.folder # h.folder \/ g.version # h.version}]]

OldEnough(a) == {h \in There(disk.held) : h.age >= a}

Purge(a) ==
    [ok |-> TRUE, disk |-> [disk EXCEPT !.held = @ \ OldEnough(a)]]

\* What a request of a flow does, or would do.
Outcome(c) ==
    CASE c.flow = "drift" -> IF c.item.kind = "missing" THEN Prune(c.item.folder)
                             ELSE Recover(c.item.folder)
      [] c.flow = "orphan" -> Quarantine(c.item)
      [] c.flow = "drawer" -> Restore(c.item)
      [] OTHER -> Purge(c.age)

-----------------------------------------------------------------------------
(* What the page offers *)

DriftListOffers == {d \in page.scan.drift : page.per[d] # "running"}

Busy(flow) == page[flow].status \in {"planning", "running"}

\* A plan with a warning, a flow that plans or runs: no apply.
MayApply(flow) ==
    page[flow].item # None /\ page[flow].plan # None /\ page[flow].plan.ok /\ ~Busy(flow)

DriftModalOffers ==
    IF page.drift.item = None THEN {}
    ELSE {"close"} \cup (IF MayApply("drift") THEN {"apply"} ELSE {})

OrphanListOffers == IF Busy("orphan") THEN {} ELSE page.scan.orphans

OrphanModalOffers ==
    IF page.orphan.item = None THEN {}
    ELSE {"close"} \cup (IF MayApply("orphan") THEN {"apply"} ELSE {})

DrawerOffers ==
    IF ~page.open THEN {}
    ELSE {"close", "age", "confirm"}
         \cup (IF page.drawer.status \in {"loading", "running"} THEN {} ELSE {"refresh"})
         \cup (IF Busy("drawer") THEN {} ELSE {"plan purge"})
         \cup (IF Busy("drawer") \/ page.purge = None \/ ~page.confirmed THEN {}
               ELSE IF page.purge.count > 0 THEN {"purge"} ELSE {})
         \cup (IF MayApply("drawer") THEN {"restore"} ELSE {})

\* The rows of the drawer are not rendered while the list loads.
DrawerRowOffers ==
    IF ~page.open \/ Busy("drawer") \/ page.drawer.status = "loading" THEN {} ELSE page.list

-----------------------------------------------------------------------------
(* Operations *)

Slots == {i \in 1..MaxCalls : \A c \in calls : c.slot # i}

Call(flow, at, item, age) ==
    [slot |-> CHOOSE i \in Slots : TRUE, flow |-> flow, at |-> at,
     item |-> item, age |-> age, got |-> None, applied |-> FALSE, scan |-> None]

Begin(flow, at, item, age) ==
    /\ left.calls > 0 /\ flow \in left.flows /\ Slots # {}
    /\ left' = [left EXCEPT !.calls = @ - 1]
    /\ calls' = calls \cup {Call(flow, at, item, age)}
    /\ UNCHANGED <<disk, purged>>

Planning(item) == [item |-> item, plan |-> None, status |-> "planning"]

HandlePreviewStorageDrift(d) ==
    /\ d \in DriftListOffers
    /\ page' = [page EXCEPT !.drift = Planning(d), !.per[d] = "running"]
    /\ Begin("drift", "plan", d, None)

HandleApplyStorageDriftPreview ==
    /\ "apply" \in DriftModalOffers
    /\ page' = [page EXCEPT !.drift.status = "running", !.per[page.drift.item] = "running"]
    /\ Begin("drift", "apply", page.drift.item, None)

CloseDrift ==
    /\ "close" \in DriftModalOffers
    /\ page' = [page EXCEPT !.drift = [item |-> None, plan |-> None, status |-> "idle"]]
    /\ UNCHANGED <<disk, calls, purged, left>>

HandlePreviewOrphanQuarantine(f) ==
    /\ f \in OrphanListOffers
    /\ page' = [page EXCEPT !.orphan = Planning(f)]
    /\ Begin("orphan", "plan", f, None)

HandleApplyOrphanQuarantine ==
    /\ "apply" \in OrphanModalOffers
    /\ page' = [page EXCEPT !.orphan.status = "running"]
    /\ Begin("orphan", "apply", page.orphan.item, None)

\* The plan and the status stay.
CloseOrphan ==
    /\ "close" \in OrphanModalOffers
    /\ page' = [page EXCEPT !.orphan.item = None]
    /\ UNCHANGED <<disk, calls, purged, left>>

HandleOpenStorageQuarantine ==
    /\ ~page.open \/ "refresh" \in DrawerOffers
    /\ page' = [page EXCEPT !.open = TRUE, !.purge = None,
                   !.drawer = [item |-> None, plan |-> None, status |-> "loading"]]
    /\ Begin("drawer", "list", None, None)

HandlePreviewStorageQuarantineRestore(h) ==
    /\ h \in DrawerRowOffers
    /\ page' = [page EXCEPT !.drawer = Planning(h), !.purge = None]
    /\ Begin("drawer", "plan", h, None)

HandleApplyStorageQuarantineRestore ==
    /\ "restore" \in DrawerOffers
    /\ page' = [page EXCEPT !.drawer.status = "running"]
    /\ Begin("drawer", "apply", page.drawer.item, None)

\* A new age discards the plan, not the one that is being asked for.
EditPurgeAge(a) ==
    /\ "age" \in DrawerOffers /\ a # page.age
    /\ left.edits > 0 /\ left' = [left EXCEPT !.edits = @ - 1]
    /\ page' = [page EXCEPT !.age = a, !.purge = None]
    /\ UNCHANGED <<disk, calls, purged>>

\* The phrase stays typed when the drawer closes or another plan is shown.
TypeConfirmation ==
    /\ "confirm" \in DrawerOffers /\ page.purge # None
    /\ page' = [page EXCEPT !.confirmed = ~@]
    /\ UNCHANGED <<disk, calls, purged, left>>

HandlePreviewStorageQuarantinePurge ==
    /\ "plan purge" \in DrawerOffers
    /\ page' = [page EXCEPT !.drawer = Planning(None), !.purge = None]
    /\ Begin("purge", "plan", None, page.age)

\* Mutant: the purge sends the age of the input.
PurgeAgeOfInput == page.age

\* The purge sends the age of the plan it was shown with.
PurgeAge == page.purge.age

HandleApplyStorageQuarantinePurge ==
    /\ "purge" \in DrawerOffers
    /\ page' = [page EXCEPT !.drawer.status = "running"]
    /\ Begin("purge", "apply", page.purge, PurgeAge)

CloseDrawer ==
    /\ "close" \in DrawerOffers
    /\ page' = [page EXCEPT !.open = FALSE, !.purge = None,
                            !.drawer.item = None, !.drawer.plan = None]
    /\ UNCHANGED <<disk, calls, purged, left>>

-----------------------------------------------------------------------------
(* Answers *)

Ends(c) == calls' = calls \ {c}
GoesOn(c, d) == calls' = (calls \ {c}) \cup {d}

\* The state hooks of a flow: a purge has the drawer's status.
Hooks(flow) == IF flow = "purge" THEN "drawer" ELSE flow

\* The page when a dry run or an apply of c's flow has ended with a status.
Shown(c, plan, status) ==
    CASE c.flow = "purge" -> [page EXCEPT !.purge = plan, !.drawer.status = status]
      [] c.flow = "drift" -> [page EXCEPT !.drift.plan = plan, !.drift.status = status,
                                          !.per[c.item] = IF status = "idle" THEN "idle" ELSE "error"]
      [] OTHER -> [page EXCEPT ![c.flow].plan = plan, ![c.flow].status = status]

\* What the server answers, to a dry run as well.
Result(c) ==
    IF c.flow = "purge" THEN [age |-> c.age, count |-> Cardinality(OldEnough(c.age)), ok |-> TRUE]
    ELSE [of |-> c.item, ok |-> Outcome(c).ok]

\* A dry run: the plan of the item it was asked for, whatever is selected.
PlanServed(c) ==
    /\ c.at = "plan"
    /\ GoesOn(c, [c EXCEPT !.at = "planned", !.got = Result(c)])
    /\ UNCHANGED <<disk, page, purged, left>>

PlanAnswered(c) ==
    /\ c.at = "planned"
    /\ page' = Shown(c, c.got, IF c.got.ok THEN "idle" ELSE "error")
    /\ Ends(c)
    /\ UNCHANGED <<disk, purged, left>>

\* The request itself: it checks again, and acts if nothing is in the way.
ApplyServed(c) ==
    /\ c.at = "apply"
    /\ disk' = IF Outcome(c).ok THEN Outcome(c).disk ELSE disk
    /\ purged' = IF c.flow = "purge"
                 THEN purged \cup {[file |-> h, shown |-> c.item.age] : h \in OldEnough(c.age)}
                 ELSE purged
    /\ GoesOn(c, [c EXCEPT !.at = "follow", !.got = Result(c), !.applied = disk' # disk])
    /\ UNCHANGED <<page, left>>

\* The dashboard, the events, the scan and the selected channel are read again;
\* the drawer's list is shown as soon as it is in.
FollowUp(c) ==
    /\ c.at = "follow"
    /\ page' = IF c.flow \in {"drawer", "purge"} THEN [page EXCEPT !.list = There(disk.held)] ELSE page
    /\ GoesOn(c, [c EXCEPT !.at = "applied", !.scan = Scan])
    /\ UNCHANGED <<disk, purged, left>>

\* A success arms the timer that closes the flow; a purge clears its phrase.
ApplyAnswered(c) ==
    /\ c.at = "applied"
    /\ LET status == IF c.applied \/ c.flow = "purge" THEN "done" ELSE "error"
           shown == [Shown(c, c.got, status) EXCEPT !.scan = c.scan]
       IN  page' = CASE c.flow = "purge" -> [shown EXCEPT !.confirmed = FALSE, !.drawer.item = None,
                                                          !.drawer.plan = None]
                     [] c.flow = "drift" -> [shown EXCEPT !.per[c.item] = "done"]
                     [] OTHER -> shown
    /\ IF c.applied /\ c.flow # "purge"
       THEN GoesOn(c, [c EXCEPT !.at = "timer", !.got = None, !.scan = None])
       ELSE Ends(c)
    /\ UNCHANGED <<disk, purged, left>>

\* The flow closes, whatever it now shows; a drawer keeps its purge plan.
TimerFires(c) ==
    /\ c.at = "timer"
    /\ LET closed == [page EXCEPT ![c.flow] = [item |-> None, plan |-> None, status |-> "idle"]]
       IN  page' = IF c.flow = "drift" THEN [closed EXCEPT !.per[c.item] = "idle"] ELSE closed
    /\ Ends(c)
    /\ UNCHANGED <<disk, purged, left>>

\* The drawer's list; the status becomes idle, whatever the drawer does now.
ListAnswered(c) ==
    /\ c.at = "list"
    /\ page' = [page EXCEPT !.list = There(disk.held), !.drawer.status = "idle"]
    /\ Ends(c)
    /\ UNCHANGED <<disk, purged, left>>

\* A request or a read after it fails; the plan that was shown stays.
Fails(c) ==
    /\ c.at # "timer"
    /\ page' = CASE c.flow = "drift" -> [page EXCEPT !.drift.status = "error", !.per[c.item] = "error"]
                 [] OTHER -> [page EXCEPT ![Hooks(c.flow)].status = "error"]
    /\ Ends(c)
    /\ UNCHANGED <<disk, purged, left>>

\* The page's own load of the scan, and the refresh an event brings.
ScanLoaded ==
    /\ page.scan # Scan
    /\ page' = [page EXCEPT !.scan = Scan]
    /\ UNCHANGED <<disk, calls, purged, left>>

-----------------------------------------------------------------------------
(* The download folder *)

Outside(d) == left.outside > 0 /\ left' = [left EXCEPT !.outside = @ - 1]
              /\ disk' = d /\ UNCHANGED <<page, calls, purged>>

\* yt-dlp writes a sidecar before the media file.  One that is in place it writes
\* over: the same sidecar, in the same place, so nothing changes here.
SidecarWritten(f) ==
    /\ disk.mounted /\ f \notin disk.media /\ disk.home[f] = 0 /\ disk.written[f] < MaxVersions
    /\ Outside([disk EXCEPT !.home[f] = disk.written[f] + 1, !.written[f] = @ + 1])

\* The worker indexes the media file it has downloaded.
MediaWritten(f) ==
    /\ disk.mounted /\ f \notin disk.media /\ disk.written[f] > 0
    /\ Outside([disk EXCEPT !.media = @ \cup {f}, !.rows = @ \cup {f}])

MountToggles == Outside([disk EXCEPT !.mounted = ~@])

DayPasses ==
    /\ \E h \in disk.held : h.age < OldestAge
    /\ Outside([disk EXCEPT !.held =
                  {[h EXCEPT !.age = IF @ < OldestAge THEN @ + 1 ELSE @] : h \in disk.held}])

-----------------------------------------------------------------------------
Init ==
    /\ \E p \in Plans : left = p.bounds /\ disk = p.disk
    /\ page = [drift |-> [item |-> None, plan |-> None, status |-> "idle"],
               orphan |-> [item |-> None, plan |-> None, status |-> "idle"],
               drawer |-> [item |-> None, plan |-> None, status |-> "idle"],
               per |-> [d \in Drift |-> "idle"], scan |-> Scan, list |-> {}, open |-> FALSE,
               purge |-> None, age |-> OldestAge, confirmed |-> FALSE]
    /\ calls = {} /\ purged = {}

Operator ==
    \/ \E d \in Drift : HandlePreviewStorageDrift(d)
    \/ HandleApplyStorageDriftPreview \/ CloseDrift
    \/ \E f \in Folders : HandlePreviewOrphanQuarantine(f)
    \/ HandleApplyOrphanQuarantine \/ CloseOrphan
    \/ HandleOpenStorageQuarantine \/ CloseDrawer
    \/ \E h \in page.list : HandlePreviewStorageQuarantineRestore(h)
    \/ HandleApplyStorageQuarantineRestore
    \/ \E a \in Ages : EditPurgeAge(a)
    \/ TypeConfirmation
    \/ HandlePreviewStorageQuarantinePurge \/ HandleApplyStorageQuarantinePurge

Folder ==
    \/ \E f \in Folders : SidecarWritten(f) \/ MediaWritten(f)
    \/ MountToggles \/ DayPasses

Next ==
    \/ Operator
    \/ Folder
    \/ ScanLoaded
    \/ \E c \in calls : \/ PlanServed(c) \/ PlanAnswered(c) \/ ApplyServed(c) \/ FollowUp(c)
                        \/ ApplyAnswered(c) \/ TimerFires(c) \/ ListAnswered(c) \/ Fails(c)

Spec == Init /\ [][Next]_vars

-----------------------------------------------------------------------------
(* Properties *)

\* No sidecar is lost: every one a download wrote is at its place, in the
\* quarantine, or was deleted by a purge when it had been held for as long as the
\* plan on the page said.  Sidecars are quarantined while their download still
\* runs and are written again by a retry, plans are asked for one item or age and
\* applied under another, the volume is not always mounted.
SidecarsKept ==
    \A f \in Folders : \A v \in 1..disk.written[f] :
        \/ disk.home[f] = v
        \/ \E h \in disk.held : h.folder = f /\ h.version = v
        \/ \E p \in purged : p.file.folder = f /\ p.file.version = v /\ p.file.age >= p.shown

\* A flow that loads, plans or runs waits for one of its own requests, whatever
\* was closed, opened or answered meanwhile; so does an item of the drift list.
NeverStuck ==
    /\ \A f \in Flows : page[f].status \in {"loading", "planning", "running"} =>
          \E c \in calls : Hooks(c.flow) = f /\ c.at # "timer"
    /\ \A d \in Drift : page.per[d] = "running" =>
          \E c \in calls : c.flow = "drift" /\ c.item = d /\ c.at # "timer"

=============================================================================
