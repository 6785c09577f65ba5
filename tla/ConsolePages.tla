---------------------------- MODULE ConsolePages ----------------------------
(***************************************************************************)
(* The console's other pages, one area to a behaviour: the schedule of     *)
(* backups, the storage page, the queue page with the archive.txt kit, the *)
(* history drawers, the saved videos.  The areas keep hooks of their own,  *)
(* so a behaviour of the console is one of each; the variables are shared  *)
(* by name alone.                                                          *)
(***************************************************************************)
EXTENDS Integers, Sequences, FiniteSets

CONSTANTS
    None,
    MaxCalls,                                   \* requests and handlers under way at once
    Channels, Chosen, Seconds, FirstServers,    \* of ScheduleControl
    Budgets,
    Folders, Ages, MaxVersions, StoragePlans,   \* of StorageCare
    Jobs, PassLimit, Ledgers, KitPlans,         \* of ArchiveKit
    Tags, StatusTags, EventTags, Restart,       \* of HistoryDrawers
    MaxRows, HistoryPlans,
    Selections, All, Presets, Strip, Names,     \* of LibraryViews
    Bundles, Items, PageLimit, LibraryPlans

VARIABLES
    area,
    server, page, calls, left,
    note,               \* the area's history
    kit, late           \* the archive.txt kit's

vars == <<area, server, page, calls, left, note, kit, late>>

Schedule == INSTANCE ScheduleControl WITH reported <- note

Storage == INSTANCE StorageCare WITH Plans <- StoragePlans, disk <- server, purged <- note

Queue == INSTANCE ArchiveKit WITH Plans <- KitPlans, lone <- note

History == INSTANCE HistoryDrawers WITH Plans <- HistoryPlans, rows <- server, crossed <- note

Library == INSTANCE LibraryViews WITH Plans <- LibraryPlans, firm <- note

ASSUME PagesAssumption ==
    /\ {MaxCalls, MaxRows, MaxVersions} \subseteq Nat /\ MaxRows # 0
    /\ Schedule!ChosenAssumption /\ Schedule!SecondsAssumption
    /\ Schedule!FirstServersAssumption /\ Schedule!BudgetsAssumption
    /\ Storage!AgesAssumption /\ Storage!PlansAssumption
    /\ Queue!JobsAssumption /\ Queue!PassLimitAssumption
    /\ Queue!PlansAssumption /\ Queue!LedgersAssumption
    /\ History!TagsAssumption /\ History!PlansAssumption
    /\ Library!SelectionsAssumption /\ Library!PlansAssumption

-----------------------------------------------------------------------------
NoKit == kit = None /\ late = FALSE

Init ==
    \/ area = "schedule" /\ Schedule!Init /\ NoKit
    \/ area = "storage" /\ Storage!Init /\ NoKit
    \/ area = "queue" /\ Queue!KitInit
    \/ area = "history" /\ History!Init /\ NoKit
    \/ area = "library" /\ Library!Init /\ NoKit

Next ==
    /\ UNCHANGED area
    /\ \/ area = "schedule" /\ Schedule!Next /\ UNCHANGED <<kit, late>>
       \/ area = "storage" /\ Storage!Next /\ UNCHANGED <<kit, late>>
       \/ area = "queue" /\ Queue!KitNext
       \/ area = "history" /\ History!Next /\ UNCHANGED <<kit, late>>
       \/ area = "library" /\ Library!Next /\ UNCHANGED <<kit, late>>

Spec == Init /\ [][Next]_vars

-----------------------------------------------------------------------------
(* Properties *)

\* Every area keeps its types.
TypeOK ==
    CASE area = "schedule" -> Schedule!TypeOK
      [] area = "storage" -> Storage!TypeOK
      [] area = "queue" -> Queue!TypeOK
      [] area = "history" -> History!TypeOK
      [] area = "library" -> Library!TypeOK

\* No button of a page is disabled for ever, no list loads for ever: every hook of
\* App.tsx that says that something is under way belongs to a request that is
\* still to be answered, whatever overlaps, fails or answers late.
NeverStuck ==
    CASE area = "schedule" -> Schedule!NeverStuck
      [] area = "storage" -> Storage!NeverStuck
      [] area = "queue" -> Queue!NeverStuck
      [] area = "history" -> History!NeverStuck
      [] area = "library" -> Library!NeverStuck

\* Where nothing overlapped and nothing failed, a page shows what the server
\* holds once its requests are answered: the queue page its jobs, its plan and a
\* selection that can be acted on; a drawer the rows of its filters; the saved
\* videos the server's views, the right one marked active, and the right files.
SettledPage ==
    CASE area = "queue" -> Queue!Settled
      [] area = "history" -> History!Settled
      [] area = "library" -> Library!Settled
      [] OTHER -> TRUE

\* What "automatic backup started" or "paused" told the operator is so on the
\* server (ScheduleControl).
ReportedIsSo == area = "schedule" => Schedule!ReportedIsSo

\* No flow of the storage page loses a sidecar a purge did not delete by the age
\* it was shown with (StorageCare).
SidecarsKept == area = "storage" => Storage!SidecarsKept

\* What the archive.txt kit stages and offers to queue comes from the text that was
\* reviewed (ArchiveKit).
Reviewed == area = "queue" => Queue!Reviewed

=============================================================================
