--------------------------- MODULE HistoryDrawers ---------------------------
(***************************************************************************)
(* The console's history: the worker run, scheduler tick, metadata tick    *)
(* and event log drawers with their filters and retention, the restart     *)
(* ledger of the runtime guide, a restart request and a metadata run       *)
(* started by hand.  (frontend/src/App.tsx)                                *)
(*                                                                        *)
(* A drawer opens on rows the page already has and reads the filtered ones *)
(* behind them; a filter button reads at once, with nothing that orders    *)
(* the answers.  A prune or a metadata run reads with the filters there    *)
(* were when its button was clicked.                                       *)
(*                                                                        *)
(* A row is its number and the attributes filters ask for; what a row says *)
(* and the exports and copies of shown rows are left out.  There are fewer *)
(* rows than a query's limit (24, 48, 200).                                *)
(***************************************************************************)
EXTENDS Integers, Sequences, FiniteSets

CONSTANTS
    Tags,           \* attributes of a row: a status, slow, an interval, a limit
    StatusTags,     \* those of which a filter asks for one at most
    EventTags,      \* scopes of the event log: runtime.restart, one job
    Restart,        \* the scope of restart events
    None,
    MaxRows,        \* bound: rows a log ever has
    MaxCalls,       \* requests and timers under way at once
    Plans           \* rows there are, and the bounds of a behaviour: requests begun, of
                    \* which logs, rows added by the server itself

\* Of the constants; ConsolePages assumes it of its instance.
TagsAssumption == StatusTags \subseteq Tags /\ Restart \in EventTags

VARIABLES
    rows,           \* the server: [id, tags] records of every log
    page,           \* the state hooks of App
    calls,          \* requests and timers under way
    crossed,        \* history: logs whose last reads overlapped or failed
    left            \* what is left of the bounds

vars == <<rows, page, calls, crossed, left>>

Ticks == {"scheduler", "metadata"}
Drawers == Ticks \cup {"worker", "events"}
Logs == Drawers \cup {"restarts"}       \* the restart ledger is of the event log
Source(l) == IF l = "restarts" THEN "events" ELSE l
TagsOf(l) == IF Source(l) = "events" THEN EventTags ELSE Tags
Row(l) == [id : 1..MaxRows, tags : SUBSET TagsOf(l)]
Filters(l) ==
    IF Source(l) = "events" THEN {F \in SUBSET EventTags : Cardinality(F) <= 1}
    ELSE {F \in SUBSET Tags : Cardinality(F \cap StatusTags) <= 1}
Keeps == {None} \cup 1..MaxRows         \* None: what is typed is no positive number

\* Of the constants; ConsolePages assumes it of its instance.
PlansAssumption ==
    \A p \in Plans : /\ p.rows = [d \in Drawers |-> p.rows[d]]
                     /\ \A d \in Drawers : p.rows[d] \subseteq Row(d)

TypeOK ==
    /\ \A d \in Drawers : rows[d] \subseteq Row(d)
    /\ \A l \in Logs : page.rows[l] \subseteq Row(l) /\ page.filter[l] \in Filters(l)
    /\ \A d \in Drawers : page.known[d] \subseteq Row(d)
    /\ page.open \in [Drawers \cup {"guide"} -> BOOLEAN] /\ page.keep \in Keeps
    /\ page.pruning \in [Ticks \cup {"events"} -> {"idle", "pruning", "pruned", "error"}]
    /\ page.loading \in [{"events", "restarts"} -> {"idle", "loading", "error"}]
    /\ page.restart \in {"idle", "requesting", "requested", "error"}
    /\ page.run \in {"idle", "running", "done", "error"}
    /\ page.detail \subseteq Row("events") /\ Cardinality(page.detail) <= 1
    /\ crossed \subseteq Logs /\ Cardinality(calls) <= MaxCalls

-----------------------------------------------------------------------------
(* Queries *)

Matches(r, F) == F \subseteq r.tags

Query(l, F) == {r \in rows[Source(l)] : Matches(r, F)}

\* The events drawer falls back on the live feed when it has no rows.
EventLogSourceRows == IF page.rows["events"] # {} THEN page.rows["events"] ELSE page.known["events"]

\* What a prune keeps when no positive number is typed: 200 ticks, 500 events.
NormalizeRetentionKeep(keep) == IF keep = None THEN MaxRows ELSE keep

Newest(R, n) == {r \in R : Cardinality({q \in R : q.id > r.id}) < n}

-----------------------------------------------------------------------------
(* What the drawers offer *)

SchedulerDrawerOffers ==
    IF ~page.open["scheduler"] THEN {}
    ELSE {"close", "keep"} \cup IF page.pruning["scheduler"] = "pruning" THEN {} ELSE {"prune"}

SchedulerFilterOffers == IF page.open["scheduler"] THEN Filters("scheduler") ELSE {}

MetadataDrawerOffers ==
    IF ~page.open["metadata"] THEN {}
    ELSE {"close", "keep"} \cup IF page.pruning["metadata"] = "pruning" THEN {} ELSE {"prune"}

MetadataFilterOffers == IF page.open["metadata"] THEN Filters("metadata") ELSE {}

\* One filter at a time.
WorkerHistoryOffers ==
    IF ~page.open["worker"] THEN {} ELSE {F \in Filters("worker") : Cardinality(F) <= 1}

EventLogOffers ==
    IF ~page.open["events"] THEN {}
    ELSE {"close", "keep"}
         \cup (IF page.loading["events"] = "loading" THEN {} ELSE {"refresh"})
         \cup (IF page.pruning["events"] = "pruning" THEN {} ELSE {"prune"})

\* A scope can be cleared; the kinds only choose among the rows there are.
EventScopeOffers == IF page.open["events"] /\ page.filter["events"] # {} THEN {"clear"} ELSE {}

EventListOffers == IF page.open["events"] THEN EventLogSourceRows ELSE {}

EventDetailOffers ==
    IF page.open["events"] /\ page.detail # {} THEN {"close", "channel", "queue"} ELSE {}

\* The ledger at the end of the guide, and the restart button above it.
RestartLedgerOffers ==
    IF ~page.open["guide"] THEN {}
    ELSE {"log"} \cup IF page.loading["restarts"] = "loading" THEN {} ELSE {"refresh"}

RestartOffers ==
    IF page.open["guide"] /\ page.restart # "requesting" THEN {"restart"} ELSE {}

\* The two tick logs of the guide.
TickLogOffers == IF page.open["guide"] THEN Ticks ELSE {}

\* Another scheduler's tick, which the settings show, disables it as well.
MetadataRunOffers == IF page.run = "running" THEN {} ELSE {"run"}

-----------------------------------------------------------------------------
(* Operations *)

Slots == {i \in 1..MaxCalls : \A c \in calls : c.slot # i}
Reading(c) == \E i \in DOMAIN c.todo : c.todo[i] = "answer"

\* What is awaited, in order.  A timer is no await: it outlives its handler.
Awaits(op) ==
    CASE op = "load" -> <<"read", "answer">>
      [] op = "prune" -> <<"prune", "query", "read", "answer", "timer">>
      [] op = "run" -> <<"act", "read", "answer", "channel">>
      [] OTHER -> <<"act", "settings", "query", "read", "answer">>

Begin(op, l, F, p) ==
    /\ left.calls > 0 /\ l \in left.logs /\ Slots # {}
    /\ left' = [left EXCEPT !.calls = @ - 1]
    /\ page' = p
    /\ calls' = calls \cup {[slot |-> CHOOSE i \in Slots : TRUE, op |-> op,
                             log |-> l, filter |-> F, keep |-> p.keep, todo |-> Awaits(op),
                             got |-> {}, failed |-> FALSE]}
    /\ crossed' = IF \E c \in calls : c.log = l /\ Reading(c) THEN crossed \cup {l}
                  ELSE crossed \ {l}
    /\ UNCHANGED rows

\* A drawer shows what the page knows, whatever its filters say, and reads.
OpenDrawer(d) ==
    Begin("load", d, page.filter[d], [page EXCEPT !.open[d] = TRUE, !.rows[d] = page.known[d]])

ChooseFilter(d, F) == Begin("load", d, F, [page EXCEPT !.filter[d] = F])

HandleOpenWorkerHistory == OpenDrawer("worker")
HandleWorkerHistoryFilter(F) == F \in WorkerHistoryOffers /\ ChooseFilter("worker", F)

HandleOpenSchedulerTicks == "scheduler" \in TickLogOffers /\ OpenDrawer("scheduler")
HandleOpenMetadataTicks == "metadata" \in TickLogOffers /\ OpenDrawer("metadata")

\* A filter button changes one part of the query.
HandleSchedulerTickStatus(F) ==
    /\ F \in SchedulerFilterOffers /\ F \ StatusTags = page.filter["scheduler"] \ StatusTags
    /\ ChooseFilter("scheduler", F)

HandleMetadataTickStatus(F) ==
    /\ F \in MetadataFilterOffers /\ F \ StatusTags = page.filter["metadata"] \ StatusTags
    /\ ChooseFilter("metadata", F)

Toggled(F, tag) == (F \ {tag}) \cup ({tag} \ F)

HandleSchedulerDurationFilter(tag) ==
    /\ tag \in Tags \ StatusTags /\ SchedulerFilterOffers # {}
    /\ ChooseFilter("scheduler", Toggled(page.filter["scheduler"], tag))

HandleMetadataDurationFilter(tag) ==
    /\ tag \in Tags \ StatusTags /\ MetadataFilterOffers # {}
    /\ ChooseFilter("metadata", Toggled(page.filter["metadata"], tag))

HandleResetSchedulerTickFilters == SchedulerFilterOffers # {} /\ ChooseFilter("scheduler", {})
HandleResetMetadataTickFilters == MetadataFilterOffers # {} /\ ChooseFilter("metadata", {})

\* Mutant: a scope is added to the one there was.
AddsScope(p, l, F) == [p EXCEPT !.filter[l] = @ \cup F, !.loading[l] = "loading"]

\* The scope is the page's from now on, its rows come later.
Scoped(p, l, F) == [p EXCEPT !.filter[l] = F, !.loading[l] = "loading"]

LoadEventLog(F) == Begin("load", "events", F, Scoped(page, "events", F))

OpenEventLog(F) ==
    Begin("load", "events", F, Scoped([page EXCEPT !.open["events"] = TRUE, !.detail = {}], "events", F))

HandleOpenEventLog == OpenEventLog({})
HandleOpenRuntimeRestartEventLog == "log" \in RestartLedgerOffers /\ OpenEventLog({Restart})
\* That a mission may name one event of the scope is left out.
HandleOpenRuntimeRestartMissionLog == OpenEventLog({Restart})
HandleOpenQueueJobEventLog == \E tag \in EventTags \ {Restart} : OpenEventLog({tag})
HandleRefreshEventLog == "refresh" \in EventLogOffers /\ LoadEventLog(page.filter["events"])
ClearScope == "clear" \in EventScopeOffers /\ HandleOpenEventLog

LoadRestarts(p) ==
    Begin("load", "restarts", {Restart}, Scoped(p, "restarts", {Restart}))

LoadRuntimeRestartEvents == "refresh" \in RestartLedgerOffers /\ LoadRestarts(page)

HandleOpenRuntimeGuide ==
    LoadRestarts([page EXCEPT !.open["guide"] = TRUE, !.restart = "idle"])

HandlePruneTickRows(l) ==
    /\ "prune" \in IF l = "scheduler" THEN SchedulerDrawerOffers ELSE MetadataDrawerOffers
    /\ Begin("prune", l, page.filter[l], [page EXCEPT !.pruning[l] = "pruning"])

HandlePruneEventLog ==
    /\ "prune" \in EventLogOffers
    /\ Begin("prune", "events", page.filter["events"], [page EXCEPT !.pruning["events"] = "pruning"])

HandleRequestRuntimeRestart ==
    /\ "restart" \in RestartOffers
    /\ Begin("restart", "restarts", {Restart}, [page EXCEPT !.restart = "requesting"])

HandleRunMetadataSchedulerOnce ==
    /\ "run" \in MetadataRunOffers
    /\ Begin("run", "metadata", page.filter["metadata"], [page EXCEPT !.run = "running"])

Shows(p) == page' = p /\ UNCHANGED <<rows, calls, crossed, left>>

\* The drawers have a number each; it is one here.
EditKeep(keep) ==
    /\ "keep" \in SchedulerDrawerOffers \cup MetadataDrawerOffers \cup EventLogOffers
    /\ keep # page.keep
    /\ left.edits > 0 /\ left' = [left EXCEPT !.edits = @ - 1]
    /\ page' = [page EXCEPT !.keep = keep]
    /\ UNCHANGED <<rows, calls, crossed>>

CloseDrawer(d) == page.open[d] /\ Shows([page EXCEPT !.open[d] = FALSE])

OpenEventDetail(r) == r \in EventListOffers /\ Shows([page EXCEPT !.detail = {r}])
CloseEventDetail == "close" \in EventDetailOffers /\ Shows([page EXCEPT !.detail = {}])

\* The drawer closes.  The channel or the queue it goes to is read as well: what
\* that does to the page's channel is HandleOpenEventDetailChannelTarget of
\* ChannelConsole.
HandleOpenEventDetailTarget ==
    /\ {"channel", "queue"} \cap EventDetailOffers # {}
    /\ Shows([page EXCEPT !.open["events"] = FALSE, !.detail = {}])

-----------------------------------------------------------------------------
(* Answers *)

Stage(c) == Head(c.todo)
GoesOn(c, d) ==
    calls' = (calls \ {c}) \cup IF Len(c.todo) = 1 THEN {} ELSE {[d EXCEPT !.todo = Tail(@)]}

\* A handler that has had its last answer.
Ended(c, p) ==
    CASE c.op = "prune" -> [p EXCEPT !.pruning[c.log] = "pruned"]
      [] c.op = "restart" -> [p EXCEPT !.restart = "requested"]
      [] OTHER -> p

NextId(l) == 1 + Cardinality({i \in 1..MaxRows : \E r \in rows[l] : r.id >= i})

\* A prune deletes all but the newest rows, whatever the filters.
PruneServed(c) ==
    /\ Stage(c) = "prune"
    /\ rows' = [rows EXCEPT ![c.log] = Newest(@, NormalizeRetentionKeep(c.keep))]
    /\ GoesOn(c, c)
    /\ UNCHANGED <<page, crossed, left>>

\* A restart logs its events, a metadata run its tick.
Acted(c) ==
    /\ Stage(c) = "act"
    /\ LET l == Source(c.log)
       IN  \E tags \in IF l = "events" THEN {{Restart}} ELSE SUBSET Tags :
              rows' = [rows EXCEPT ![l] = IF NextId(l) <= MaxRows
                                          THEN @ \cup {[id |-> NextId(l), tags |-> tags]} ELSE @]
    /\ GoesOn(c, c)
    /\ UNCHANGED <<page, crossed, left>>

\* After its first request a handler reads with the filters of its click; an event
\* log's scope becomes that of the click again.
Asks(c) ==
    /\ Stage(c) \in {"query", "settings"}
    /\ page' = IF Stage(c) = "query" /\ Source(c.log) = "events"
               THEN Scoped(page, c.log, c.filter) ELSE page
    /\ GoesOn(c, c)
    /\ UNCHANGED <<rows, crossed, left>>

ReadServed(c) ==
    /\ Stage(c) = "read"
    /\ GoesOn(c, [c EXCEPT !.got = Query(c.log, c.filter)])
    /\ UNCHANGED <<rows, page, crossed, left>>

\* The rows replace what the drawer showed; an unscoped log is the feed as well.
RowsAnswered(c) ==
    /\ Stage(c) = "answer"
    /\ LET shown == [page EXCEPT !.rows[c.log] = c.got]
           read == IF Source(c.log) = "events"
                   THEN [shown EXCEPT !.loading[c.log] = "idle",
                            !.known["events"] = IF c.log = "events" /\ c.filter = {} THEN c.got ELSE @]
                   ELSE shown
       IN  page' = Ended(c, read)
    /\ GoesOn(c, c)
    /\ UNCHANGED <<rows, crossed, left>>

\* The selected channel is read again before a run is done.
RunDone(c) ==
    /\ Stage(c) = "channel"
    /\ page' = [page EXCEPT !.run = "done"]
    /\ GoesOn(c, c)
    /\ UNCHANGED <<rows, crossed, left>>

TimerFires(c) ==
    /\ Stage(c) = "timer"
    /\ page' = [page EXCEPT !.pruning[c.log] = "idle"]
    /\ GoesOn(c, c)
    /\ UNCHANGED <<rows, crossed, left>>

\* The page when a request of a handler has failed; a tick drawer only says so.
Failed(c) ==
    CASE c.op = "prune" -> [page EXCEPT !.pruning[c.log] = "error"]
      [] c.op = "restart" -> [page EXCEPT !.restart = "error"]
      [] c.op = "run" -> [page EXCEPT !.run = "error"]
      [] OTHER -> page

\* A read of events that fails is said by its list alone: its handler goes on.
EventsFail(c) ==
    /\ Stage(c) \in {"read", "answer"} /\ Source(c.log) = "events"
    /\ page' = Ended(c, [page EXCEPT !.loading[c.log] = "error"])
    /\ calls' = (calls \ {c}) \cup IF c.op = "prune" THEN {[c EXCEPT !.todo = <<"timer">>]} ELSE {}
    /\ crossed' = crossed \cup {c.log}
    /\ UNCHANGED <<rows, left>>

Fails(c) ==
    /\ Stage(c) \notin {"timer", "query"}
    /\ Stage(c) \in {"read", "answer"} => Source(c.log) # "events"
    /\ page' = Failed(c)
    /\ calls' = (calls \ {c}) \cup IF c.op = "prune" THEN {[c EXCEPT !.todo = <<"timer">>]} ELSE {}
    /\ crossed' = crossed \cup {c.log}
    /\ UNCHANGED <<rows, left>>

-----------------------------------------------------------------------------
(* The server and the page's other reads *)

\* A pass, a tick or an event is logged; an event reaches the feed by the stream, one
\* of a restart the ledger as well.
RowAdded(d, tags) ==
    /\ left.outside > 0 /\ d \in left.logs /\ NextId(d) <= MaxRows
    /\ left' = [left EXCEPT !.outside = @ - 1]
    /\ LET r == [id |-> NextId(d), tags |-> tags]
       IN  /\ rows' = [rows EXCEPT ![d] = @ \cup {r}]
           /\ page' = IF d # "events" THEN page
                      ELSE [page EXCEPT !.known[d] = @ \cup {r},
                                        !.rows["restarts"] = @ \cup {q \in {r} : Restart \in q.tags}]
    /\ UNCHANGED <<calls, crossed>>

\* Settings, worker runs and recent events are read with the channel or by a refresh.
SnapshotRead(d) ==
    /\ page.known[d] # rows[d]
    /\ page' = [page EXCEPT !.known[d] = rows[d]]
    /\ UNCHANGED <<rows, calls, crossed, left>>

-----------------------------------------------------------------------------
Init ==
    /\ \E p \in Plans : rows = p.rows /\ left = p.bounds
    /\ page = [rows |-> [l \in Logs |-> {}], known |-> rows, filter |-> [l \in Logs |-> {}],
               open |-> [d \in Drawers \cup {"guide"} |-> FALSE], keep |-> 1, detail |-> {},
               pruning |-> [l \in Ticks \cup {"events"} |-> "idle"],
               loading |-> [l \in {"events", "restarts"} |-> "idle"],
               restart |-> "idle", run |-> "idle"]
    /\ calls = {} /\ crossed = {}

Operator ==
    \/ HandleOpenWorkerHistory \/ HandleOpenSchedulerTicks \/ HandleOpenMetadataTicks
    \/ \E F \in SUBSET Tags : \/ HandleWorkerHistoryFilter(F)
                              \/ HandleSchedulerTickStatus(F) \/ HandleMetadataTickStatus(F)
    \/ \E tag \in Tags : HandleSchedulerDurationFilter(tag) \/ HandleMetadataDurationFilter(tag)
    \/ HandleResetSchedulerTickFilters \/ HandleResetMetadataTickFilters
    \/ HandleOpenEventLog \/ HandleOpenRuntimeRestartEventLog \/ HandleOpenRuntimeRestartMissionLog
    \/ HandleOpenQueueJobEventLog \/ HandleRefreshEventLog \/ ClearScope
    \/ LoadRuntimeRestartEvents \/ HandleOpenRuntimeGuide
    \/ \E l \in Ticks : HandlePruneTickRows(l)
    \/ HandlePruneEventLog \/ HandleRequestRuntimeRestart \/ HandleRunMetadataSchedulerOnce
    \/ \E keep \in Keeps : EditKeep(keep)
    \/ \E d \in Drawers \cup {"guide"} : CloseDrawer(d)
    \/ \E r \in Row("events") : OpenEventDetail(r)
    \/ CloseEventDetail \/ HandleOpenEventDetailTarget

Answers(c) ==
    \/ PruneServed(c) \/ Acted(c) \/ Asks(c) \/ ReadServed(c) \/ RowsAnswered(c) \/ RunDone(c)
    \/ TimerFires(c) \/ EventsFail(c) \/ Fails(c)

Next ==
    \/ Operator
    \/ \E c \in calls : Answers(c)
    \/ \E d \in Drawers : SnapshotRead(d) \/ \E tags \in SUBSET TagsOf(d) : RowAdded(d, tags)

Spec == Init /\ [][Next]_vars

-----------------------------------------------------------------------------
(* Properties *)

\* A button that waits, waits for an answer that is still to come.
NeverStuck ==
    /\ \A l \in Ticks \cup {"events"} : page.pruning[l] = "pruning" =>
          \E c \in calls : c.op = "prune" /\ c.log = l /\ Stage(c) # "timer"
    /\ \A l \in {"events", "restarts"} : page.loading[l] = "loading" =>
          \E c \in calls : c.log = l /\ Reading(c)
    /\ page.restart = "requesting" => \E c \in calls : c.op = "restart"
    /\ page.run = "running" => \E c \in calls : c.op = "run"

\* A drawer whose reads did not overlap and did not fail shows, once they are in,
\* the rows its filters ask for as the log was at some moment: none a prune has
\* deleted since, none of another filter, and none missing in between.
Settled ==
    \A d \in Drawers :
        (page.open[d] /\ d \notin crossed /\ \A c \in calls : c.log = d => ~Reading(c))
        => \E n \in 0..MaxRows : page.rows[d] = {r \in Query(d, page.filter[d]) : r.id <= n}

=============================================================================
