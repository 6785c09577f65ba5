----------------------- MODULE ConsoleSettled_proofs -----------------------
(***************************************************************************)
(* What the console's pages show, whatever the jobs, rows, folders, views  *)
(* and channels, the number of requests under way and the order of their   *)
(* answers: their types, and that a page whose requests were answered, one *)
(* at a time and without a failure, shows what the server holds.  The      *)
(* parts: the history drawers, the storage page (its types only), the      *)
(* saved videos (filters of a list, beginnings of a list, an import along  *)
(* its bundle, then the types and what ties the page to the server), the   *)
(* schedule, every page.  The queue page's is in ConsolePages_proofs.      *)
(***************************************************************************)
EXTENDS ConsolePages_proofs

(***************************************************************************)
(* The history drawers                                                     *)
(***************************************************************************)

-----------------------------------------------------------------------------
(* Slots: every request has one of its own.                                *)

SlotsOwn(C) ==
    /\ \A c \in C : c.slot \in 1..MaxCalls
    /\ \A c, d \in C : c.slot = d.slot => c = d

LEMMA SlotsBound ==
    ASSUME NEW C, SlotsOwn(C)
    PROVE  Cardinality(C) <= MaxCalls
  <1>1. MaxCalls \in Nat /\ IsFiniteSet(1..MaxCalls) /\ Cardinality(1..MaxCalls) = MaxCalls
    BY PagesAssumption, FS_Interval
  <1>2. PICK f : f = [c \in C |-> c.slot]
    OBVIOUS
  <1>3. f \in Injection(C, 1..MaxCalls)
    BY <1>2 DEF SlotsOwn, Injection, IsInjective
  <1>4. Cardinality(C) <= Cardinality(1..MaxCalls)
    BY <1>1, <1>3, FS_Injection
  <1> QED BY <1>1, <1>4

LEMMA SlotBegins ==
    ASSUME SlotsOwn(calls), NEW d, d.slot \in 1..MaxCalls, \A c \in calls : c.slot # d.slot,
           calls' = calls \cup {d}
    PROVE  SlotsOwn(calls')
  BY DEF SlotsOwn

LEMMA SlotGoesOn ==
    ASSUME SlotsOwn(calls), NEW c \in calls, NEW d, d.slot = c.slot, calls' \subseteq (calls \ {c}) \cup {d}
    PROVE  SlotsOwn(calls')
  BY DEF SlotsOwn

LEMMA SlotsFewer ==
    ASSUME NEW C, SlotsOwn(C), NEW D \in SUBSET C
    PROVE  SlotsOwn(D)
  BY DEF SlotsOwn

-----------------------------------------------------------------------------
LEMMA HistoryCardinality ==
    ASSUME NEW S
    PROVE  History!Cardinality(S) = Cardinality(S)
  BY Zenon DEF History!Cardinality, Cardinality

AllRows == [id : 1..MaxRows, tags : SUBSET (Tags \cup EventTags)]
RowsOf(S) == {f \in [S -> SUBSET AllRows] : \A l \in S : f[l] \subseteq History!Row(l)}
FiltersOf ==
    {f \in [History!Logs -> SUBSET (Tags \cup EventTags)] : \A l \in History!Logs : f[l] \in History!Filters(l)}

HistoryPages ==
    [rows : RowsOf(History!Logs), known : RowsOf(History!Drawers), filter : FiltersOf,
     open : [History!Drawers \cup {"guide"} -> BOOLEAN], keep : History!Keeps,
     detail : {S \in SUBSET History!Row("events") : S = {} \/ \E r : S = {r}},
     pruning : [PruneLogs -> {"idle", "pruning", "pruned", "error"}],
     loading : [EventLogs -> {"idle", "loading", "error"}],
     restart : {"idle", "requesting", "requested", "error"},
     run : {"idle", "running", "done", "error"}]

CallFields == {"slot", "op", "log", "filter", "keep", "todo", "got", "failed"}

HistoryTyped(c) ==
    /\ DOMAIN c = CallFields
    /\ c.filter \in History!Filters(c.log) /\ c.keep \in History!Keeps
    /\ c.got \subseteq History!Row(c.log)

HistoryTypes ==
    /\ server \in RowsOf(History!Drawers) /\ page \in HistoryPages
    /\ note \subseteq History!Logs
    /\ \A c \in calls : HistoryTyped(c)
    /\ SlotsOwn(calls)

LEMMA RowsAre == \A l : History!Row(l) \subseteq AllRows
  BY DEF History!Row, History!TagsOf, AllRows

LEMMA SameRows ==
    \A l : History!Row(History!Source(l)) = History!Row(l)
  BY DEF History!Row, History!TagsOf, History!Source

LEMMA RowsPut ==
    ASSUME NEW S, NEW f \in RowsOf(S), NEW l, NEW R, R \subseteq History!Row(l)
    PROVE  [f EXCEPT ![l] = R] \in RowsOf(S)
  <1>1. R \in SUBSET AllRows
    BY RowsAre
  <1>2. PICK g : g = [f EXCEPT ![l] = R]
    OBVIOUS
  <1>3. g \in [S -> SUBSET AllRows] /\ \A k \in S : g[k] = IF k = l THEN R ELSE f[k]
    BY <1>1, <1>2 DEF RowsOf
  <1>4. \A k \in S : f[k] \subseteq History!Row(k)
    BY DEF RowsOf
  <1>5. \A k \in S : g[k] \subseteq History!Row(k)
    BY <1>3, <1>4
  <1> QED BY <1>2, <1>3, <1>5 DEF RowsOf

LEMMA FilterPut ==
    ASSUME NEW f \in FiltersOf, NEW l, NEW F \in History!Filters(l)
    PROVE  [f EXCEPT ![l] = F] \in FiltersOf
  <1>1. F \in SUBSET (Tags \cup EventTags)
    BY DEF History!Filters
  <1>2. PICK g : g = [f EXCEPT ![l] = F]
    OBVIOUS
  <1>3. g \in [History!Logs -> SUBSET (Tags \cup EventTags)]
        /\ \A k \in History!Logs : g[k] = IF k = l THEN F ELSE f[k]
    BY <1>1, <1>2 DEF FiltersOf
  <1>4. \A k \in History!Logs : f[k] \in History!Filters(k)
    BY DEF FiltersOf
  <1>5. \A k \in History!Logs : g[k] \in History!Filters(k)
    BY <1>3, <1>4
  <1> QED BY <1>2, <1>3, <1>5 DEF FiltersOf

\* Filters a button makes.
LEMMA SmallFilters ==
    /\ \A l : {} \in History!Filters(l)
    /\ \A l \in EventLogs : \A tag \in EventTags : {tag} \in History!Filters(l)
    /\ Restart \in EventTags
  <1>1. History!Cardinality({}) = 0 /\ \A x : History!Cardinality({x}) = 1
    BY HistoryCardinality, FS_EmptySet, FS_Singleton
  <1>2. \A l : {} \in History!Filters(l)
    <2>1. {} \cap StatusTags = {}
      OBVIOUS
    <2>2. 0 <= 1
      OBVIOUS
    <2> QED BY <1>1, <2>1, <2>2 DEF History!Filters
  <1>3. \A l \in EventLogs : \A tag \in EventTags : {tag} \in History!Filters(l)
    <2>1. \A l \in EventLogs : History!Source(l) = "events"
      BY EventSource
    <2>2. 1 <= 1
      OBVIOUS
    <2> QED BY <1>1, <2>1, <2>2 DEF History!Filters
  <1> QED BY <1>2, <1>3, PagesAssumption DEF History!TagsAssumption

LEMMA ToggledFilter ==
    ASSUME NEW l, History!Source(l) # "events", NEW F \in History!Filters(l), NEW tag \in Tags \ StatusTags
    PROVE  History!Toggled(F, tag) \in History!Filters(l)
  <1>1. History!Toggled(F, tag) \cap StatusTags = F \cap StatusTags
    BY DEF History!Toggled
  <1>2. F \in SUBSET Tags /\ History!Cardinality(F \cap StatusTags) <= 1
    BY DEF History!Filters
  <1>3. History!Toggled(F, tag) \in SUBSET Tags
    BY <1>2 DEF History!Toggled
  <1> QED BY <1>1, <1>2, <1>3 DEF History!Filters

LEMMA RowsShown ==
    ASSUME NEW p \in HistoryPages, NEW l, NEW R, R \subseteq History!Row(l)
    PROVE  [p EXCEPT !.rows[l] = R] \in HistoryPages /\ [p EXCEPT !.known[l] = R] \in HistoryPages
  <1>1. p.rows \in RowsOf(History!Logs) /\ p.known \in RowsOf(History!Drawers)
    BY DEF HistoryPages
  <1>2. PICK f \in RowsOf(History!Logs) : f = [p.rows EXCEPT ![l] = R]
    BY <1>1, RowsPut
  <1>3. PICK g \in RowsOf(History!Drawers) : g = [p.known EXCEPT ![l] = R]
    BY <1>1, RowsPut
  <1>4. [p EXCEPT !.rows = f] \in HistoryPages /\ [p EXCEPT !.known = g] \in HistoryPages
    BY DEF HistoryPages
  <1> QED BY <1>2, <1>3, <1>4

LEMMA FilterChosen ==
    ASSUME NEW p \in HistoryPages, NEW l, NEW F \in History!Filters(l)
    PROVE  [p EXCEPT !.filter[l] = F] \in HistoryPages
  <1>1. p.filter \in FiltersOf
    BY DEF HistoryPages
  <1>2. PICK f \in FiltersOf : f = [p.filter EXCEPT ![l] = F]
    BY <1>1, FilterPut
  <1>3. [p EXCEPT !.filter = f] \in HistoryPages
    BY DEF HistoryPages
  <1> QED BY <1>2, <1>3

LEMMA ScopedTyped ==
    ASSUME NEW p \in HistoryPages, NEW l, NEW F \in History!Filters(l)
    PROVE  History!Scoped(p, l, F) \in HistoryPages
  <1>1. PICK q \in HistoryPages : q = [p EXCEPT !.filter[l] = F]
    BY FilterChosen
  <1>2. [q EXCEPT !.loading[l] = "loading"] \in HistoryPages
    BY DEF HistoryPages
  <1>3. [q EXCEPT !.loading[l] = "loading"] = History!Scoped(p, l, F)
    BY <1>1 DEF History!Scoped, HistoryPages
  <1> QED BY <1>2, <1>3

LEMMA HookPut ==
    ASSUME NEW p \in HistoryPages
    PROVE  /\ \A d, b \in BOOLEAN : [p EXCEPT !.open[d] = b] \in HistoryPages
           /\ \A l, s \in {"idle", "pruning", "pruned", "error"} : [p EXCEPT !.pruning[l] = s] \in HistoryPages
           /\ \A l, s \in {"idle", "loading", "error"} : [p EXCEPT !.loading[l] = s] \in HistoryPages
           /\ \A s \in {"idle", "requesting", "requested", "error"} : [p EXCEPT !.restart = s] \in HistoryPages
           /\ \A s \in {"idle", "running", "done", "error"} : [p EXCEPT !.run = s] \in HistoryPages
           /\ \A k \in History!Keeps : [p EXCEPT !.keep = k] \in HistoryPages
           /\ [p EXCEPT !.detail = {}] \in HistoryPages
           /\ \A r \in History!Row("events") : [p EXCEPT !.detail = {r}] \in HistoryPages
  <1>1. \A d, b \in BOOLEAN : [p EXCEPT !.open[d] = b] \in HistoryPages
    BY DEF HistoryPages
  <1>2. \A l, s \in {"idle", "pruning", "pruned", "error"} : [p EXCEPT !.pruning[l] = s] \in HistoryPages
    BY DEF HistoryPages
  <1>3. \A l, s \in {"idle", "loading", "error"} : [p EXCEPT !.loading[l] = s] \in HistoryPages
    BY DEF HistoryPages
  <1>4. /\ \A s \in {"idle", "requesting", "requested", "error"} : [p EXCEPT !.restart = s] \in HistoryPages
        /\ \A s \in {"idle", "running", "done", "error"} : [p EXCEPT !.run = s] \in HistoryPages
        /\ \A k \in History!Keeps : [p EXCEPT !.keep = k] \in HistoryPages
    BY DEF HistoryPages
  <1>5. /\ [p EXCEPT !.detail = {}] \in HistoryPages
        /\ \A r \in History!Row("events") : [p EXCEPT !.detail = {r}] \in HistoryPages
    BY DEF HistoryPages
  <1> QED BY <1>1, <1>2, <1>3, <1>4, <1>5

\* A handler begins.
LEMMA HistoryBeginTyped ==
    ASSUME HistoryTypes, NEW op, NEW l \in History!Logs, NEW F \in History!Filters(l),
           NEW p \in HistoryPages, History!Begin(op, l, F, p)
    PROVE  HistoryTypes'
  <1>1. \E i \in History!Slots : TRUE
    BY DEF History!Begin
  <1>2. PICK i : i \in History!Slots /\ i = CHOOSE j \in History!Slots : TRUE
    BY <1>1
  <1>3. i \in 1..MaxCalls /\ \A c \in calls : c.slot # i
    BY <1>2 DEF History!Slots
  <1>4. PICK d : d = [slot |-> i, op |-> op, log |-> l, filter |-> F, keep |-> p.keep,
                      todo |-> History!Awaits(op), got |-> {}, failed |-> FALSE]
    OBVIOUS
  <1>5. calls' = calls \cup {d} /\ page' = p /\ server' = server
    BY <1>2, <1>4 DEF History!Begin
  <1>6. note' \subseteq note \cup {l}
    BY DEF History!Begin
  <1>7. DOMAIN d = CallFields /\ d.slot = i /\ d.log = l /\ d.filter = F /\ d.keep = p.keep /\ d.got = {}
    BY <1>4 DEF CallFields
  <1>8. HistoryTyped(d)
    BY <1>7 DEF HistoryTyped, HistoryPages
  <1>9. SlotsOwn(calls')
    BY <1>3, <1>5, <1>7, SlotBegins DEF HistoryTypes
  <1> QED BY <1>5, <1>6, <1>8, <1>9 DEF HistoryTypes

LEMMA HistoryShows ==
    ASSUME HistoryTypes, page' \in HistoryPages, server' \in RowsOf(History!Drawers),
           note' \subseteq History!Logs, calls' = calls
    PROVE  HistoryTypes'
  BY DEF HistoryTypes

\* A call goes on with other fields, or ends.
LEMMA HistoryMoves ==
    ASSUME HistoryTypes, NEW c \in calls, NEW d, DOMAIN d = CallFields, d.slot = c.slot, d.log = c.log,
           d.filter = c.filter, d.keep = c.keep, d.got \subseteq History!Row(c.log),
           calls' \subseteq (calls \ {c}) \cup {d}, page' \in HistoryPages,
           server' \in RowsOf(History!Drawers), note' \subseteq note \cup {c.log}, c.log \in History!Logs
    PROVE  HistoryTypes'
  <1>1. HistoryTyped(c)
    BY DEF HistoryTypes
  <1>2. HistoryTyped(d)
    BY <1>1 DEF HistoryTyped
  <1>3. SlotsOwn(calls')
    BY SlotGoesOn DEF HistoryTypes
  <1> QED BY <1>2, <1>3 DEF HistoryTypes

LEMMA HistoryOperatorTyped ==
    ASSUME HistoryTypes, History!Operator
    PROVE  HistoryTypes'
  <1>0. /\ page \in HistoryPages /\ server \in RowsOf(History!Drawers) /\ note \subseteq History!Logs
        /\ History!Drawers \subseteq History!Logs
        /\ History!Logs = {"scheduler", "metadata", "worker", "events", "restarts"}
        /\ History!Drawers = {"scheduler", "metadata", "worker", "events"}
        /\ EventLogs = {"events", "restarts"}
    BY DEF HistoryTypes, History!Logs, History!Drawers, History!Ticks, EventLogs
  <1>1. /\ \A l \in History!Logs : page.filter[l] \in History!Filters(l)
        /\ \A d \in History!Drawers : page.known[d] \subseteq History!Row(d)
    <2>1. page.filter \in FiltersOf /\ page.known \in RowsOf(History!Drawers)
      BY <1>0 DEF HistoryPages
    <2> QED BY <2>1 DEF FiltersOf, RowsOf
  <1>2. ASSUME NEW d \in History!Drawers, History!OpenDrawer(d)
        PROVE  HistoryTypes'
    <2>1. PICK p : p = [page EXCEPT !.open[d] = TRUE, !.rows[d] = page.known[d]]
                   /\ History!Begin("load", d, page.filter[d], p)
      BY <1>2 DEF History!OpenDrawer
    <2>0. [page EXCEPT !.open[d] = TRUE] \in HistoryPages
      BY <1>0 DEF HistoryPages
    <2>2. PICK q \in HistoryPages : q = [page EXCEPT !.open[d] = TRUE]
      BY <2>0
    <2>3. [q EXCEPT !.rows[d] = page.known[d]] \in HistoryPages
      BY <1>1, RowsShown
    <2>4. p = [q EXCEPT !.rows[d] = page.known[d]]
      BY <1>0, <2>1, <2>2 DEF HistoryPages
    <2> QED BY <1>0, <1>1, <2>1, <2>3, <2>4, HistoryBeginTyped
  <1>3. ASSUME NEW d \in History!Drawers, NEW F \in History!Filters(d), History!ChooseFilter(d, F)
        PROVE  HistoryTypes'
    <2>1. [page EXCEPT !.filter[d] = F] \in HistoryPages
      BY <1>0, FilterChosen
    <2> QED BY <1>0, <1>3, <2>1, HistoryBeginTyped DEF History!ChooseFilter
  <1>4. CASE History!HandleOpenWorkerHistory \/ History!HandleOpenSchedulerTicks
             \/ History!HandleOpenMetadataTicks
    BY <1>0, <1>2, <1>4 DEF History!HandleOpenWorkerHistory, History!HandleOpenSchedulerTicks,
                            History!HandleOpenMetadataTicks
  <1>5. CASE \/ \E F \in SUBSET Tags : \/ History!HandleWorkerHistoryFilter(F)
                                       \/ History!HandleSchedulerTickStatus(F)
                                       \/ History!HandleMetadataTickStatus(F)
             \/ History!HandleResetSchedulerTickFilters \/ History!HandleResetMetadataTickFilters
    BY <1>0, <1>3, <1>5, SmallFilters
       DEF History!HandleWorkerHistoryFilter, History!HandleSchedulerTickStatus,
           History!HandleMetadataTickStatus, History!HandleResetSchedulerTickFilters,
           History!HandleResetMetadataTickFilters, History!WorkerHistoryOffers,
           History!SchedulerFilterOffers, History!MetadataFilterOffers
  <1>6. ASSUME NEW tag \in Tags,
               History!HandleSchedulerDurationFilter(tag) \/ History!HandleMetadataDurationFilter(tag)
        PROVE  HistoryTypes'
    <2>1. PICK l \in {"scheduler", "metadata"} :
             tag \in Tags \ StatusTags /\ History!ChooseFilter(l, History!Toggled(page.filter[l], tag))
      BY <1>6 DEF History!HandleSchedulerDurationFilter, History!HandleMetadataDurationFilter
    <2>2. l \in History!Logs /\ l \in History!Drawers /\ History!Source(l) # "events"
      BY <1>0, <2>1 DEF History!Source
    <2>3. History!Toggled(page.filter[l], tag) \in History!Filters(l)
      BY <1>1, <2>1, <2>2, ToggledFilter
    <2> QED BY <1>3, <2>1, <2>2, <2>3
  <1>7. ASSUME NEW F \in History!Filters("events"), History!LoadEventLog(F) \/ History!OpenEventLog(F)
        PROVE  HistoryTypes'
    <2>1. PICK q : /\ q = page \/ q = [page EXCEPT !.open["events"] = TRUE, !.detail = {}]
                   /\ History!Begin("load", "events", F, History!Scoped(q, "events", F))
      BY <1>7 DEF History!LoadEventLog, History!OpenEventLog
    <2>2. [page EXCEPT !.open["events"] = TRUE, !.detail = {}] \in HistoryPages
      BY <1>0 DEF HistoryPages
    <2>3. q \in HistoryPages
      BY <1>0, <2>1, <2>2
    <2> QED BY <1>0, <2>1, <2>3, ScopedTyped, HistoryBeginTyped
  <1>8. CASE \/ History!HandleOpenEventLog \/ History!HandleOpenRuntimeRestartEventLog
             \/ History!HandleOpenRuntimeRestartMissionLog \/ History!HandleOpenQueueJobEventLog
             \/ History!HandleRefreshEventLog \/ History!ClearScope
    BY <1>0, <1>1, <1>7, <1>8, SmallFilters
       DEF History!HandleOpenEventLog, History!HandleOpenRuntimeRestartEventLog,
           History!HandleOpenRuntimeRestartMissionLog, History!HandleOpenQueueJobEventLog,
           History!HandleRefreshEventLog, History!ClearScope
  <1>9. CASE History!LoadRuntimeRestartEvents \/ History!HandleOpenRuntimeGuide
    <2>1. PICK q : /\ q = page \/ q = [page EXCEPT !.open["guide"] = TRUE, !.restart = "idle"]
                   /\ History!LoadRestarts(q)
      BY <1>9 DEF History!LoadRuntimeRestartEvents, History!HandleOpenRuntimeGuide
    <2>2. [page EXCEPT !.open["guide"] = TRUE, !.restart = "idle"] \in HistoryPages
      BY <1>0 DEF HistoryPages
    <2>3. q \in HistoryPages
      BY <1>0, <2>1, <2>2
    <2>4. "restarts" \in EventLogs /\ "restarts" \in History!Logs
      BY <1>0
    <2>5. {Restart} \in History!Filters("restarts")
      BY <2>4, SmallFilters
    <2>6. History!Scoped(q, "restarts", {Restart}) \in HistoryPages
      BY <2>3, <2>5, ScopedTyped
    <2> QED BY <2>1, <2>4, <2>5, <2>6, HistoryBeginTyped DEF History!LoadRestarts
  <1>10. CASE \/ \E l \in History!Ticks : History!HandlePruneTickRows(l)
              \/ History!HandlePruneEventLog
    <2>1. PICK l \in History!Logs : History!Begin("prune", l, page.filter[l], [page EXCEPT !.pruning[l] = "pruning"])
      BY <1>0, <1>10 DEF History!HandlePruneTickRows, History!HandlePruneEventLog, History!Ticks
    <2>2. [page EXCEPT !.pruning[l] = "pruning"] \in HistoryPages
      BY <1>0 DEF HistoryPages
    <2> QED BY <1>1, <2>1, <2>2, HistoryBeginTyped
  <1>11. CASE History!HandleRequestRuntimeRestart
    <2>1. [page EXCEPT !.restart = "requesting"] \in HistoryPages
      BY <1>0, HookPut
    <2>2. "restarts" \in EventLogs /\ "restarts" \in History!Logs
      BY <1>0
    <2>3. {Restart} \in History!Filters("restarts")
      BY <2>2, SmallFilters
    <2> QED BY <1>11, <2>1, <2>2, <2>3, HistoryBeginTyped DEF History!HandleRequestRuntimeRestart
  <1>12. CASE History!HandleRunMetadataSchedulerOnce
    <2>1. [page EXCEPT !.run = "running"] \in HistoryPages
      BY <1>0, HookPut
    <2>2. "metadata" \in History!Logs
      BY <1>0
    <2> QED BY <1>1, <1>12, <2>1, <2>2, HistoryBeginTyped DEF History!HandleRunMetadataSchedulerOnce
  <1>13. ASSUME NEW keep \in History!Keeps, History!EditKeep(keep)
         PROVE  HistoryTypes'
    <2>1. page' \in HistoryPages /\ server' = server /\ note' = note /\ calls' = calls
      BY <1>0, <1>13, HookPut DEF History!EditKeep
    <2> QED BY <1>0, <2>1, HistoryShows
  <1>14. CASE \/ \E d \in History!Drawers \cup {"guide"} : History!CloseDrawer(d)
              \/ \E r \in History!Row("events") : History!OpenEventDetail(r)
              \/ History!CloseEventDetail \/ History!HandleOpenEventDetailTarget
    <2>1. [page EXCEPT !.open["events"] = FALSE, !.detail = {}] \in HistoryPages
      BY <1>0 DEF HistoryPages
    <2>2. ASSUME NEW d PROVE [page EXCEPT !.open[d] = FALSE] \in HistoryPages
      BY <1>0 DEF HistoryPages
    <2>4. [page EXCEPT !.detail = {}] \in HistoryPages
      BY <1>0 DEF HistoryPages
    <2>5. ASSUME NEW r \in History!Row("events") PROVE [page EXCEPT !.detail = {r}] \in HistoryPages
      BY <1>0 DEF HistoryPages
    <2>6. PICK p : /\ \/ \E d : p = [page EXCEPT !.open[d] = FALSE]
                      \/ \E r \in History!Row("events") : p = [page EXCEPT !.detail = {r}]
                      \/ p = [page EXCEPT !.detail = {}]
                      \/ p = [page EXCEPT !.open["events"] = FALSE, !.detail = {}]
                   /\ History!Shows(p)
      BY <1>14 DEF History!CloseDrawer, History!OpenEventDetail,
         History!CloseEventDetail, History!HandleOpenEventDetailTarget
    <2>7. p \in HistoryPages
      BY <2>1, <2>2, <2>4, <2>5, <2>6
    <2>3. page' \in HistoryPages /\ server' = server /\ note' = note /\ calls' = calls
      BY <2>6, <2>7 DEF History!Shows
    <2> QED BY <1>0, <2>3, HistoryShows
  <1> QED
    BY <1>4, <1>5, <1>6, <1>8, <1>9, <1>10, <1>11, <1>12, <1>13, <1>14 DEF History!Operator

\* The numbers rows had, and smaller ones.
Numbers(R) == {i \in 1..MaxRows : \E r \in R : r.id >= i}

LEMMA NumbersCount ==
    ASSUME NEW R
    PROVE  /\ IsFiniteSet(Numbers(R)) /\ Cardinality(Numbers(R)) \in Nat
           /\ \A S : R \subseteq S => Cardinality(Numbers(R)) <= Cardinality(Numbers(S))
  <1>1. IsFiniteSet(1..MaxRows)
    BY PagesAssumption, FS_Interval
  <1>2. \A S : IsFiniteSet(Numbers(S)) /\ Cardinality(Numbers(S)) \in Nat
    BY <1>1, FS_Subset, FS_CardinalityType DEF Numbers
  <1>3. \A S : R \subseteq S => Numbers(R) \subseteq Numbers(S)
    BY DEF Numbers
  <1> QED BY <1>2, <1>3, FS_Subset

LEMMA NextIdIs ==
    ASSUME NEW l
    PROVE  History!NextId(l) = 1 + Cardinality(Numbers(server[l]))
  BY HistoryCardinality DEF History!NextId, Numbers

LEMMA IdsBefore ==
    ASSUME NEW R, NEW r \in R, r.id \in 1..MaxRows
    PROVE  r.id <= Cardinality(Numbers(R))
  <1>1. 1..r.id \subseteq Numbers(R)
    BY PagesAssumption DEF Numbers
  <1>2. Cardinality(1..r.id) = r.id
    <2>1. r.id \in Int /\ 1 <= r.id /\ 1 \in Int
      BY PagesAssumption
    <2>2. Cardinality(1..r.id) = IF 1 > r.id THEN 0 ELSE r.id - 1 + 1
      BY <2>1, FS_Interval
    <2>3. \A n \in Int : 1 <= n => (IF 1 > n THEN 0 ELSE n - 1 + 1) = n
      OBVIOUS
    <2> QED BY <2>1, <2>2, <2>3
  <1> QED BY <1>1, <1>2, NumbersCount, FS_Subset

\* Every row has a number below the next one, which a new row can have.
LEMMA NextIdTyped ==
    ASSUME NEW l, server[l] \subseteq History!Row(l)
    PROVE  /\ History!NextId(l) \in Nat /\ History!NextId(l) >= 1
           /\ \A r \in server[l] : r.id < History!NextId(l)
  <1>1. Cardinality(Numbers(server[l])) \in Nat
    BY NumbersCount
  <1>2. ASSUME NEW r \in server[l]
        PROVE  r.id \in 1..MaxRows /\ r.id <= Cardinality(Numbers(server[l]))
    BY IdsBefore DEF History!Row
  <1> QED BY <1>1, <1>2, NextIdIs, PagesAssumption

LEMMA RowPut ==
    ASSUME NEW l, NEW tags \in SUBSET History!TagsOf(l), server[l] \subseteq History!Row(l),
           History!NextId(l) <= MaxRows
    PROVE  [id |-> History!NextId(l), tags |-> tags] \in History!Row(l)
  <1>1. History!NextId(l) \in 1..MaxRows
    BY NextIdTyped, PagesAssumption
  <1> QED BY <1>1 DEF History!Row

LEMMA HistoryServerTyped ==
    ASSUME HistoryTypes, NEW d \in History!Drawers,
           History!SnapshotRead(d) \/ \E tags \in SUBSET History!TagsOf(d) : History!RowAdded(d, tags)
    PROVE  HistoryTypes'
  <1>0. /\ page \in HistoryPages /\ server \in RowsOf(History!Drawers) /\ note \subseteq History!Logs
        /\ \A x \in History!Drawers : server[x] \subseteq History!Row(x)
    BY DEF HistoryTypes, RowsOf
  <1>1. CASE History!SnapshotRead(d)
    <2>1. [page EXCEPT !.known[d] = server[d]] \in HistoryPages
      BY <1>0, RowsShown
    <2> QED BY <1>0, <1>1, <2>1, HistoryShows DEF History!SnapshotRead
  <1>2. ASSUME NEW tags \in SUBSET History!TagsOf(d), History!RowAdded(d, tags)
        PROVE  HistoryTypes'
    <2>1. PICK r : r = [id |-> History!NextId(d), tags |-> tags]
      OBVIOUS
    <2>2. r \in History!Row(d)
      BY <1>0, <1>2, <2>1, RowPut DEF History!RowAdded
    <2>3. server' = [server EXCEPT ![d] = server[d] \cup {r}] /\ calls' = calls /\ note' = note
      BY <1>2, <2>1 DEF History!RowAdded
    <2>4. server' \in RowsOf(History!Drawers)
      BY <1>0, <2>2, <2>3, RowsPut
    <2>5. page' \in HistoryPages
      <3>1. CASE d # "events"
        BY <1>0, <1>2, <3>1 DEF History!RowAdded
      <3>2. CASE d = "events"
        <4>1. PICK more : more = {q \in {r} : Restart \in q.tags}
          OBVIOUS
        <4>2. page' = [page EXCEPT !.known[d] = @ \cup {r}, !.rows["restarts"] = @ \cup more]
          BY <1>2, <2>1, <3>2, <4>1 DEF History!RowAdded
        <4>3. page.known[d] \subseteq History!Row(d) /\ page.rows["restarts"] \subseteq History!Row("restarts")
          BY <1>0, <3>2 DEF HistoryPages, RowsOf, History!Logs
        <4>4. more \subseteq History!Row("restarts") /\ History!Row(d) = History!Row("restarts")
          BY <2>2, <3>2, <4>1 DEF History!Row, History!TagsOf, History!Source
        <4>5. PICK q \in HistoryPages : q = [page EXCEPT !.known[d] = page.known[d] \cup {r}]
          BY <1>0, <2>2, <4>3, RowsShown
        <4>6. [q EXCEPT !.rows["restarts"] = page.rows["restarts"] \cup more] \in HistoryPages
          BY <4>3, <4>4, RowsShown
        <4>7. page' = [q EXCEPT !.rows["restarts"] = page.rows["restarts"] \cup more]
          BY <1>0, <4>2, <4>5 DEF HistoryPages
        <4> QED BY <4>6, <4>7
      <3> QED BY <3>1, <3>2
    <2> QED BY <1>0, <2>3, <2>4, <2>5, HistoryShows
  <1> QED BY <1>1, <1>2

\* What is left of a call that goes on.
LEMMA HistoryMovedOn ==
    ASSUME HistoryTypes, NEW c \in calls, NEW d, DOMAIN d = CallFields, d.slot = c.slot, d.log = c.log,
           d.filter = c.filter, d.keep = c.keep, d.got \subseteq History!Row(c.log),
           History!GoesOn(c, d), page' \in HistoryPages,
           server' \in RowsOf(History!Drawers), note' = note, c.log \in History!Logs
    PROVE  HistoryTypes'
  <1>1. PICK e : e = [d EXCEPT !.todo = Tail(d.todo)]
    OBVIOUS
  <1>2. /\ DOMAIN e = CallFields /\ e.slot = c.slot /\ e.log = c.log /\ e.filter = c.filter
        /\ e.keep = c.keep /\ e.got = d.got
    BY <1>1 DEF CallFields
  <1>3. calls' \subseteq (calls \ {c}) \cup {e}
    BY <1>1 DEF History!GoesOn
  <1> QED BY <1>2, <1>3, HistoryMoves

LEMMA HistoryLogs ==
    ASSUME StuckHistoryInv, NEW c \in calls
    PROVE  c.log \in History!Logs /\ History!Source(c.log) \in History!Drawers
  <1>1. c.op \in HistoryOps /\ c.log \in LogsOf(c.op)
    BY HistoryStage
  <1> QED BY <1>1 DEF HistoryOps, LogsOf, History!Logs, History!Drawers, History!Ticks, PruneLogs, History!Source

LEMMA HistoryEndedTyped ==
    ASSUME NEW c, NEW p \in HistoryPages
    PROVE  History!Ended(c, p) \in HistoryPages
  <1>1. [p EXCEPT !.pruning[c.log] = "pruned"] \in HistoryPages
    BY DEF HistoryPages
  <1>2. [p EXCEPT !.restart = "requested"] \in HistoryPages
    BY DEF HistoryPages
  <1> QED BY <1>1, <1>2 DEF History!Ended

LEMMA HistoryServedTyped ==
    ASSUME HistoryTypes, StuckHistoryInv, NEW c \in calls,
           \/ History!PruneServed(c) \/ History!Acted(c) \/ History!Asks(c) \/ History!ReadServed(c)
    PROVE  HistoryTypes'
  <1>0. /\ page \in HistoryPages /\ server \in RowsOf(History!Drawers)
        /\ \A x \in History!Drawers : server[x] \subseteq History!Row(x)
        /\ HistoryTyped(c) /\ DOMAIN c = CallFields /\ c.got \subseteq History!Row(c.log)
        /\ c.log \in History!Logs /\ History!Source(c.log) \in History!Drawers
        /\ c.filter \in History!Filters(c.log)
    BY HistoryLogs DEF HistoryTypes, RowsOf, HistoryTyped
  <1>1. CASE History!PruneServed(c)
    <2>1. PICK R : /\ R = History!Newest(server[c.log], History!NormalizeRetentionKeep(c.keep))
                   /\ server' = [server EXCEPT ![c.log] = R]
      BY <1>1 DEF History!PruneServed
    <2>2. c.op = "prune"
      <3>1. History!Stage(c) = "prune"
        BY <1>1 DEF History!PruneServed
      <3> QED BY <3>1, HistoryStage DEF HistoryOps, StepsOf
    <2>3. c.log \in History!Drawers
      BY <2>2, HistoryStage DEF PruneLogs, History!Drawers, History!Ticks
    <2>4. R \subseteq History!Row(c.log)
      BY <1>0, <2>1, <2>3 DEF History!Newest
    <2>5. server' \in RowsOf(History!Drawers)
      BY <1>0, <2>1, <2>4, RowsPut
    <2>6. History!GoesOn(c, c) /\ page' = page /\ note' = note
      BY <1>1 DEF History!PruneServed
    <2> QED BY <1>0, <2>5, <2>6, HistoryMovedOn
  <1>2. CASE History!Acted(c)
    <2>1. PICK l : l = History!Source(c.log)
      OBVIOUS
    <2>2. PICK tags \in IF l = "events" THEN {{Restart}} ELSE SUBSET Tags :
             server' = [server EXCEPT ![l] = IF History!NextId(l) <= MaxRows
                                             THEN server[l] \cup {[id |-> History!NextId(l), tags |-> tags]}
                                             ELSE server[l]]
      BY <1>2, <2>1 DEF History!Acted
    <2>3. tags \in SUBSET History!TagsOf(l)
      BY <2>1, <2>2, SmallFilters DEF History!TagsOf, History!Source
    <2>4. PICK R : R = IF History!NextId(l) <= MaxRows
                       THEN server[l] \cup {[id |-> History!NextId(l), tags |-> tags]} ELSE server[l]
      OBVIOUS
    <2>5. R \subseteq History!Row(l)
      BY <1>0, <2>1, <2>3, <2>4, RowPut
    <2>6. server' \in RowsOf(History!Drawers)
      BY <1>0, <2>2, <2>4, <2>5, RowsPut
    <2>7. History!GoesOn(c, c) /\ page' = page /\ note' = note
      BY <1>2 DEF History!Acted
    <2> QED BY <1>0, <2>6, <2>7, HistoryMovedOn
  <1>3. CASE History!Asks(c)
    <2>1. page' \in HistoryPages
      BY <1>0, <1>3, ScopedTyped DEF History!Asks
    <2>2. History!GoesOn(c, c) /\ server' = server /\ note' = note
      BY <1>3 DEF History!Asks
    <2> QED BY <1>0, <2>1, <2>2, HistoryMovedOn
  <1>4. CASE History!ReadServed(c)
    <2>1. PICK R : R = History!Query(c.log, c.filter)
      OBVIOUS
    <2>2. PICK d : d = [c EXCEPT !.got = R]
      OBVIOUS
    <2>3. History!GoesOn(c, d) /\ page' = page /\ server' = server /\ note' = note
      BY <1>4, <2>1, <2>2 DEF History!ReadServed
    <2>4. R \subseteq History!Row(c.log)
      <3>1. R \subseteq server[History!Source(c.log)]
        BY <2>1 DEF History!Query
      <3> QED BY <1>0, <3>1, SameRows
    <2>5. /\ DOMAIN d = CallFields /\ d.slot = c.slot /\ d.log = c.log /\ d.filter = c.filter
          /\ d.keep = c.keep /\ d.got = R
      BY <1>0, <2>2 DEF CallFields
    <2> QED BY <1>0, <2>3, <2>4, <2>5, HistoryMovedOn
  <1> QED BY <1>1, <1>2, <1>3, <1>4

LEMMA HistoryAnsweredTyped ==
    ASSUME HistoryTypes, StuckHistoryInv, NEW c \in calls,
           History!RowsAnswered(c) \/ History!RunDone(c) \/ History!TimerFires(c)
    PROVE  HistoryTypes'
  <1>0. /\ page \in HistoryPages /\ server \in RowsOf(History!Drawers)
        /\ HistoryTyped(c) /\ DOMAIN c = CallFields /\ c.got \subseteq History!Row(c.log)
        /\ c.log \in History!Logs
    BY HistoryLogs DEF HistoryTypes, HistoryTyped
  <1>1. History!GoesOn(c, c) /\ server' = server /\ note' = note
    BY DEF History!RowsAnswered, History!RunDone, History!TimerFires
  <1>2. page' \in HistoryPages
    <2>1. CASE History!RowsAnswered(c)
      <3>1. PICK a \in HistoryPages : a = [page EXCEPT !.rows[c.log] = c.got]
        BY <1>0, RowsShown
      <3>2. PICK b : b = IF History!Source(c.log) = "events"
                   THEN [a EXCEPT !.loading[c.log] = "idle",
                            !.known["events"] = IF c.log = "events" /\ c.filter = {} THEN c.got ELSE @]
                   ELSE a
        OBVIOUS
      <3>3. page' = History!Ended(c, b)
        BY <2>1, <3>1, <3>2 DEF History!RowsAnswered
      <3>4. PICK e \in HistoryPages : e = [a EXCEPT !.loading[c.log] = "idle"]
        <4>1. [a EXCEPT !.loading[c.log] = "idle"] \in HistoryPages
          BY DEF HistoryPages
        <4> QED BY <4>1
      <3>5. PICK K : K = IF c.log = "events" /\ c.filter = {} THEN c.got ELSE a.known["events"]
        OBVIOUS
      <3>6. K \subseteq History!Row("events")
        BY <1>0, <3>5 DEF HistoryPages, RowsOf, History!Drawers
      <3>7. [e EXCEPT !.known["events"] = K] \in HistoryPages
        BY <3>6, RowsShown
      <3>8. [a EXCEPT !.loading[c.log] = "idle", !.known["events"] = K]
            = [e EXCEPT !.known["events"] = K]
        BY <3>4 DEF HistoryPages
      <3>9. b \in HistoryPages
        <4>1. CASE History!Source(c.log) = "events"
          <5>1. b = [a EXCEPT !.loading[c.log] = "idle", !.known["events"] = K]
            BY <3>2, <3>5, <4>1 DEF HistoryPages
          <5> QED BY <3>7, <3>8, <5>1
        <4>2. CASE History!Source(c.log) # "events"
          BY <3>2, <4>2
        <4> QED BY <4>1, <4>2
      <3> QED BY <3>3, <3>9, HistoryEndedTyped
    <2>2. CASE History!RunDone(c)
      BY <1>0, <2>2 DEF History!RunDone, HistoryPages
    <2>3. CASE History!TimerFires(c)
      BY <1>0, <2>3 DEF History!TimerFires, HistoryPages
    <2> QED BY <2>1, <2>2, <2>3
  <1> QED BY <1>0, <1>1, <1>2, HistoryMovedOn

LEMMA HistoryFailsTyped ==
    ASSUME HistoryTypes, StuckHistoryInv, NEW c \in calls, History!EventsFail(c) \/ History!Fails(c)
    PROVE  HistoryTypes'
  <1>0. /\ page \in HistoryPages /\ server \in RowsOf(History!Drawers)
        /\ HistoryTyped(c) /\ DOMAIN c = CallFields /\ c.got \subseteq History!Row(c.log)
        /\ c.log \in History!Logs
    BY HistoryLogs DEF HistoryTypes, HistoryTyped
  <1>1. PICK d : d = [c EXCEPT !.todo = <<"timer">>]
    OBVIOUS
  <1>2. /\ DOMAIN d = CallFields /\ d.slot = c.slot /\ d.log = c.log /\ d.filter = c.filter
        /\ d.keep = c.keep /\ d.got = c.got
    BY <1>0, <1>1 DEF CallFields
  <1>3. calls' \subseteq (calls \ {c}) \cup {d} /\ server' = server /\ note' = note \cup {c.log}
    BY <1>1 DEF History!EventsFail, History!Fails
  <1>4. page' \in HistoryPages
    <2>1. CASE History!EventsFail(c)
      <3>1. [page EXCEPT !.loading[c.log] = "error"] \in HistoryPages
        BY <1>0 DEF HistoryPages
      <3>2. PICK p \in HistoryPages : page' = History!Ended(c, p)
        BY <2>1, <3>1 DEF History!EventsFail
      <3> QED BY <3>2, HistoryEndedTyped
    <2>2. CASE History!Fails(c)
      <3>1. /\ [page EXCEPT !.pruning[c.log] = "error"] \in HistoryPages
            /\ [page EXCEPT !.restart = "error"] \in HistoryPages
            /\ [page EXCEPT !.run = "error"] \in HistoryPages
        BY <1>0 DEF HistoryPages
      <3> QED BY <1>0, <2>2, <3>1 DEF History!Fails, History!Failed
    <2> QED BY <2>1, <2>2
  <1> QED BY <1>0, <1>2, <1>3, <1>4, HistoryMoves

LEMMA HistoryTypesStep ==
    ASSUME HistoryTypes, StuckHistoryInv, [History!Next]_(History!vars)
    PROVE  HistoryTypes'
  <1>1. CASE History!Operator
    BY <1>1, HistoryOperatorTyped
  <1>2. CASE \E c \in calls : History!Answers(c)
    BY <1>2, HistoryServedTyped, HistoryAnsweredTyped, HistoryFailsTyped DEF History!Answers
  <1>3. CASE \E d \in History!Drawers : \/ History!SnapshotRead(d)
                                        \/ \E tags \in SUBSET History!TagsOf(d) : History!RowAdded(d, tags)
    BY <1>3, HistoryServerTyped
  <1>4. CASE UNCHANGED History!vars
    BY <1>4 DEF History!vars, HistoryTypes
  <1> QED BY <1>1, <1>2, <1>3, <1>4 DEF History!Next

LEMMA HistoryTypesInit ==
    ASSUME History!Init
    PROVE  HistoryTypes
  <1>1. server \in RowsOf(History!Drawers)
    <2>1. PICK p \in HistoryPlans : server = p.rows
      BY DEF History!Init
    <2>2. /\ p.rows = [d \in History!Drawers |-> p.rows[d]]
          /\ \A d \in History!Drawers : p.rows[d] \subseteq History!Row(d)
      BY PagesAssumption DEF History!PlansAssumption
    <2>3. PICK f : f = p.rows
      OBVIOUS
    <2>4. f = [d \in History!Drawers |-> f[d]] /\ \A d \in History!Drawers : f[d] \in SUBSET AllRows
      BY <2>2, <2>3, RowsAre
    <2>5. f \in [History!Drawers -> SUBSET AllRows]
      BY <2>4
    <2> QED BY <2>1, <2>2, <2>3, <2>5 DEF RowsOf
  <1>2. PICK rows, filter, open, pruning, loading :
           /\ rows = [l \in History!Logs |-> {}] /\ filter = rows
           /\ open = [d \in History!Drawers \cup {"guide"} |-> FALSE]
           /\ pruning = [l \in PruneLogs |-> "idle"] /\ loading = [l \in EventLogs |-> "idle"]
           /\ page = [rows |-> rows, known |-> server, filter |-> filter, open |-> open, keep |-> 1,
                   detail |-> {}, pruning |-> pruning, loading |-> loading,
                   restart |-> "idle", run |-> "idle"]
    BY DEF History!Init, PruneLogs, EventLogs
  <1>3. rows \in RowsOf(History!Logs) /\ filter \in FiltersOf
    BY <1>2, SmallFilters DEF RowsOf, FiltersOf
  <1>4. 1 \in History!Keeps
    BY PagesAssumption DEF History!Keeps
  <1>5. open \in [History!Drawers \cup {"guide"} -> BOOLEAN]
        /\ pruning \in [PruneLogs -> {"idle", "pruning", "pruned", "error"}]
        /\ loading \in [EventLogs -> {"idle", "loading", "error"}]
    BY <1>2
  <1>6. page \in HistoryPages
    BY <1>1, <1>2, <1>3, <1>4, <1>5 DEF HistoryPages
  <1> QED BY <1>1, <1>6 DEF History!Init, HistoryTypes, SlotsOwn

LEMMA HistoryTypesOK ==
    ASSUME HistoryTypes
    PROVE  History!TypeOK
  <1>1. \A d \in History!Drawers : server[d] \subseteq History!Row(d) /\ page.known[d] \subseteq History!Row(d)
    BY DEF HistoryTypes, HistoryPages, RowsOf
  <1>2. \A l \in History!Logs : page.rows[l] \subseteq History!Row(l) /\ page.filter[l] \in History!Filters(l)
    BY DEF HistoryTypes, HistoryPages, RowsOf, FiltersOf
  <1>3. page.detail \subseteq History!Row("events") /\ History!Cardinality(page.detail) <= 1
    <2>1. page.detail \in {S \in SUBSET History!Row("events") : S = {} \/ \E r : S = {r}}
      BY DEF HistoryTypes, HistoryPages
    <2>2. \A x : Cardinality({x}) <= 1
      <3>1. \A x : Cardinality({x}) = 1
        BY FS_Singleton
      <3> QED BY <3>1
    <2>3. Cardinality({}) <= 1
      BY FS_EmptySet
    <2> QED BY <2>1, <2>2, <2>3, HistoryCardinality
  <1>4. History!Cardinality(calls) <= MaxCalls
    BY SlotsBound, HistoryCardinality DEF HistoryTypes
  <1>5. /\ page.open \in [History!Drawers \cup {"guide"} -> BOOLEAN] /\ page.keep \in History!Keeps
        /\ page.pruning \in [History!Ticks \cup {"events"} -> {"idle", "pruning", "pruned", "error"}]
        /\ page.loading \in [{"events", "restarts"} -> {"idle", "loading", "error"}]
        /\ page.restart \in {"idle", "requesting", "requested", "error"}
        /\ page.run \in {"idle", "running", "done", "error"}
    BY DEF HistoryTypes, HistoryPages, PruneLogs, EventLogs
  <1> QED BY <1>1, <1>2, <1>3, <1>4, <1>5 DEF HistoryTypes, History!TypeOK

\* The request has rows of the drawer to come.
ToRead(c, d) == c.log = d /\ History!Stage(c) \notin {"timer", "channel"}

\* The rows of a filter as the log was at some moment: all of them up to a number.
AsOf(S, R, F) ==
    \E n \in 0..MaxRows : /\ n < 1 + Cardinality(Numbers(S))
                          /\ R = {r \in {q \in S : History!Matches(q, F)} : r.id <= n}

Drawn(d, S, p, C) ==
    /\ \A a, b \in C : ToRead(a, d) /\ ToRead(b, d) => a = b
    /\ \A c \in C : ToRead(c, d) => /\ c.filter = p.filter[d]
                                    /\ History!Stage(c) = "answer" => AsOf(S, c.got, c.filter)
    /\ p.open[d] /\ (\A c \in C : ~ToRead(c, d)) => AsOf(S, p.rows[d], p.filter[d])

DrawersInv == \A d \in History!Drawers \ note : Drawn(d, server[d], page, calls)

\* The page shows of a drawer what it showed, or closes it.
SameView(d, p, q) ==
    q.filter[d] = p.filter[d] /\ q.rows[d] = p.rows[d] /\ (q.open[d] => p.open[d])

LEMMA ReadingIs ==
    ASSUME StuckHistoryInv, NEW c \in calls
    PROVE  History!Reading(c) <=> History!Stage(c) \notin {"timer", "channel"}
  <1>0. PICK t, op : t = c.todo /\ op = c.op /\ op \in HistoryOps /\ PathOf(op, t)
    BY HistoryStage DEF HistoryCall
  <1>1. /\ t \in Seq(StepsOf(op)) /\ Len(t) \in Nat /\ Len(t) # 0 /\ DOMAIN t = 1..Len(t)
        /\ t[Len(t)] = LastOf(op) /\ 1 \in DOMAIN t
    BY <1>0, EmptySeq DEF PathOf
  <1>2. History!Stage(c) = t[1] /\ t[1] \in StepsOf(op) /\ (Len(t) = 1 <=> t[1] = LastOf(op))
    <2>1. Head(t) = t[1]
      BY <1>1, <1>0 DEF PathOf
    <2> QED BY <1>0, <2>1, PathHead DEF History!Stage
  <1>3. ASSUME NEW i \in DOMAIN t, t[i] # LastOf(op)
        PROVE  i + 1 \in DOMAIN t /\ t[i + 1] = After(op, t[i])
    <2>1. i # Len(t) /\ i \in 1..Len(t)
      BY <1>1, <1>3
    <2>2. i \in 1..Len(t) - 1 /\ i + 1 \in 1..Len(t)
      BY <1>1, <2>1
    <2> QED BY <1>0, <1>1, <2>2 DEF PathOf
  <1>4. ASSUME History!Reading(c)
        PROVE  History!Stage(c) \notin {"timer", "channel"}
    <2>1. PICK i \in DOMAIN t : t[i] = "answer"
      BY <1>0, <1>4 DEF History!Reading
    <2>2. t[1] \in {"timer", "channel"} => Len(t) = 1
      BY <1>0, <1>2 DEF HistoryOps, StepsOf, LastOf
    <2>3. Len(t) = 1 => i = 1
      BY <1>1
    <2> QED BY <1>2, <2>1, <2>2, <2>3
  <1>5. ASSUME History!Stage(c) \notin {"timer", "channel"}
        PROVE  History!Reading(c)
    <2>1. \A i \in DOMAIN t : t[i] = "answer" => History!Reading(c)
      BY <1>0 DEF History!Reading
    <2>2. \A i \in DOMAIN t : t[i] = "read" => History!Reading(c)
      BY <1>0, <1>3, <2>1 DEF HistoryOps, LastOf, After
    <2>3. \A i \in DOMAIN t : t[i] = "query" => History!Reading(c)
      BY <1>0, <1>3, <2>2 DEF HistoryOps, LastOf, After
    <2>4. \A i \in DOMAIN t : t[i] \in {"prune", "settings"} => History!Reading(c)
      BY <1>0, <1>3, <2>3 DEF HistoryOps, LastOf, After
    <2>5. \A i \in DOMAIN t : t[i] = "act" => History!Reading(c)
      BY <1>0, <1>3, <2>2, <2>4 DEF HistoryOps, LastOf, After
    <2>6. t[1] \in {"act", "prune", "query", "read", "answer", "settings"}
      BY <1>0, <1>2, <1>5 DEF HistoryOps, StepsOf
    <2> QED BY <1>1, <2>1, <2>2, <2>3, <2>4, <2>5, <2>6
  <1> QED BY <1>4, <1>5

\* What a log read at some moment says is not changed by rows that come.
LEMMA AsOfGrows ==
    ASSUME NEW S, NEW T, S \subseteq T, NEW R, NEW F, AsOf(S, R, F),
           \A r \in T \ S : r.id \in Nat /\ r.id >= 1 + Cardinality(Numbers(S))
    PROVE  AsOf(T, R, F)
  <1>1. PICK n \in 0..MaxRows : /\ n < 1 + Cardinality(Numbers(S))
                                /\ R = {r \in {q \in S : History!Matches(q, F)} : r.id <= n}
    BY DEF AsOf
  <1>2. Cardinality(Numbers(S)) \in Nat /\ Cardinality(Numbers(T)) \in Nat
        /\ Cardinality(Numbers(S)) <= Cardinality(Numbers(T)) /\ n \in Nat
    BY NumbersCount, PagesAssumption
  <1>3. \A r \in T \ S : ~(r.id <= n)
    BY <1>1, <1>2
  <1>4. R = {r \in {q \in T : History!Matches(q, F)} : r.id <= n}
    BY <1>1, <1>3
  <1>5. n < 1 + Cardinality(Numbers(T))
    BY <1>1, <1>2
  <1> QED BY <1>4, <1>5 DEF AsOf

\* A log read now.
LEMMA AsOfNow ==
    ASSUME NEW d, server[d] \subseteq History!Row(d), NEW F
    PROVE  AsOf(server[d], {q \in server[d] : History!Matches(q, F)}, F)
  <1>1. PICK n : n = Cardinality(Numbers(server[d]))
    OBVIOUS
  <1>2. IsFiniteSet(1..MaxRows) /\ Cardinality(1..MaxRows) = MaxRows
    BY PagesAssumption, FS_Interval
  <1>3. n \in Nat /\ n <= MaxRows
    BY <1>1, <1>2, NumbersCount, FS_Subset DEF Numbers
  <1>4. \A r \in server[d] : r.id \in Nat /\ r.id < 1 + n
    BY <1>1, NextIdTyped, NextIdIs, PagesAssumption DEF History!Row
  <1>5. n \in 0..MaxRows /\ n < 1 + n
    BY <1>3, PagesAssumption
  <1>6. \A r \in server[d] : r.id <= n
    BY <1>3, <1>4
  <1>7. {q \in server[d] : History!Matches(q, F)} = {r \in {q \in server[d] : History!Matches(q, F)} : r.id <= n}
    BY <1>6
  <1> QED BY <1>1, <1>5, <1>7 DEF AsOf

\* The requests of the drawer are those there were, and so is what it shows.
LEMMA DrawnStays ==
    ASSUME NEW d, NEW S, NEW T, NEW p, NEW q, NEW C, NEW D, Drawn(d, S, p, C), SameView(d, p, q),
           \A R, F : AsOf(S, R, F) => AsOf(T, R, F),
           \A c : ToRead(c, d) => (c \in C <=> c \in D)
    PROVE  Drawn(d, T, q, D)
  <1>1. \A a, b \in D : ToRead(a, d) /\ ToRead(b, d) => a = b
    BY DEF Drawn
  <1>2. \A c \in D : ToRead(c, d) => /\ c.filter = q.filter[d]
                                     /\ History!Stage(c) = "answer" => AsOf(T, c.got, c.filter)
    BY DEF Drawn, SameView
  <1>3. q.open[d] /\ (\A c \in D : ~ToRead(c, d)) => AsOf(T, q.rows[d], q.filter[d])
    BY DEF Drawn, SameView
  <1> QED BY <1>1, <1>2, <1>3 DEF Drawn

\* The drawer's one request: it reads with the filter that is shown.
LEMMA DrawnBegins ==
    ASSUME NEW d, NEW S, NEW q, NEW C, NEW c, \A a \in C : ~ToRead(a, d), ToRead(c, d),
           c.filter = q.filter[d], History!Stage(c) = "answer" => AsOf(S, c.got, c.filter)
    PROVE  Drawn(d, S, q, C \cup {c})
  BY DEF Drawn

\* It has answered, or has only its timer or the channel left.
LEMMA DrawnEnds ==
    ASSUME NEW d, NEW S, NEW q, NEW C, \A a \in C : ~ToRead(a, d), AsOf(S, q.rows[d], q.filter[d])
    PROVE  Drawn(d, S, q, C)
  BY DEF Drawn

LEMMA DrawersBegin ==
    ASSUME DrawersInv, StuckHistoryInv, NEW op \in HistoryOps, NEW l, NEW F, NEW p,
           History!Begin(op, l, F, p), \A d \in History!Drawers \ {l} : SameView(d, page, p),
           l \in History!Drawers => F = p.filter[l]
    PROVE  DrawersInv'
  <1>1. PICK c : /\ calls' = calls \cup {c} /\ page' = p /\ server' = server
                 /\ c.log = l /\ c.filter = F /\ c.todo = History!Awaits(op)
    <2>1. PICK i, c : /\ calls' = calls \cup {c} /\ page' = p /\ server' = server
                      /\ c = [slot |-> i, op |-> op, log |-> l, filter |-> F, keep |-> p.keep,
                              todo |-> History!Awaits(op), got |-> {}, failed |-> FALSE]
      BY DEF History!Begin
    <2>2. c.log = l /\ c.filter = F /\ c.todo = History!Awaits(op)
      BY <2>1
    <2> QED BY <2>1, <2>2
  <1>2. History!Stage(c) \in {"read", "prune", "act"}
    BY <1>1 DEF HistoryOps, History!Stage, History!Awaits
  <1>3. ASSUME NEW d \in History!Drawers, d \notin note'
        PROVE  Drawn(d, server[d], p, calls \cup {c})
    <2>1. CASE d = l
      <3>1. \A a \in calls : ~(a.log = l /\ History!Reading(a))
        BY <1>3, <2>1 DEF History!Begin
      <3>2. \A a \in calls : ~ToRead(a, d)
        BY <2>1, <3>1, ReadingIs DEF ToRead
      <3>3. ToRead(c, d) /\ c.filter = p.filter[d] /\ History!Stage(c) # "answer"
        BY <1>1, <1>2, <2>1 DEF ToRead
      <3> QED BY <3>2, <3>3, DrawnBegins
    <2>2. CASE d # l
      <3>1. Drawn(d, server[d], page, calls)
        BY <1>3, <2>2 DEF DrawersInv, History!Begin
      <3>2. SameView(d, page, p)
        BY <2>2
      <3>3. \A a : ToRead(a, d) => (a \in calls <=> a \in calls \cup {c})
        BY <1>1, <2>2 DEF ToRead
      <3> QED BY <3>1, <3>2, <3>3, DrawnStays
    <2> QED BY <2>1, <2>2
  <1> QED BY <1>1, <1>3 DEF DrawersInv

\* The drawers are shown as they were, but for one whose reads have overlapped or failed.
LEMMA DrawersKept ==
    ASSUME DrawersInv, note \subseteq note', NEW p, p = page', NEW C, C = calls', NEW s, s = server',
           \A d \in History!Drawers \ note' :
               /\ SameView(d, page, p)
               /\ \A R, F : AsOf(server[d], R, F) => AsOf(s[d], R, F)
               /\ \A c : ToRead(c, d) => (c \in calls <=> c \in C)
    PROVE  DrawersInv'
  <1>1. ASSUME NEW d \in History!Drawers, d \notin note'
        PROVE  Drawn(d, s[d], p, C)
    <2>1. Drawn(d, server[d], page, calls)
      BY <1>1 DEF DrawersInv
    <2> QED BY <1>1, <2>1, DrawnStays
  <1> QED BY <1>1 DEF DrawersInv

\* A row more.
LEMMA LogGrows ==
    ASSUME HistoryTypes, NEW l \in History!Drawers, NEW tags, NEW d \in History!Drawers, NEW s, s = server',
           \/ server' = server
           \/ server' = [server EXCEPT ![l] = @ \cup {[id |-> History!NextId(l), tags |-> tags]}]
    PROVE  \A R, F : AsOf(server[d], R, F) => AsOf(s[d], R, F)
  <1>1. /\ DOMAIN server = History!Drawers /\ server[d] \subseteq History!Row(d)
        /\ server \in [History!Drawers -> SUBSET AllRows]
    BY DEF HistoryTypes, RowsOf
  <1>2. CASE s[d] = server[d]
    BY <1>2
  <1>3. CASE s[d] # server[d]
    <2>1. PICK r : r = [id |-> History!NextId(l), tags |-> tags]
      OBVIOUS
    <2>2. d = l /\ s[d] = server[d] \cup {r}
      BY <1>1, <1>3, <2>1
    <2>3. r.id = 1 + Cardinality(Numbers(server[d])) /\ r.id \in Nat
      BY <1>1, <2>1, <2>2, NextIdIs, NextIdTyped
    <2>4. \A x \in s[d] \ server[d] : x.id \in Nat /\ x.id >= 1 + Cardinality(Numbers(server[d]))
      BY <2>2, <2>3, NumbersCount
    <2> QED BY <2>2, <2>4, AsOfGrows
  <1> QED BY <1>2, <1>3

LEMMA DrawersOperator ==
    ASSUME DrawersInv, HistoryTypes, StuckHistoryInv, History!Operator
    PROVE  DrawersInv'
  <1>0. /\ page \in HistoryPages
        /\ History!Drawers = {"scheduler", "metadata", "worker", "events"}
        /\ {"load", "prune", "run", "restart"} \subseteq HistoryOps
    BY DEF HistoryTypes, History!Drawers, History!Ticks, HistoryOps
  <1>1. /\ DOMAIN page.filter = History!Logs /\ History!Drawers \subseteq History!Logs
        /\ DOMAIN page.rows = History!Logs /\ DOMAIN page.open = History!Drawers \cup {"guide"}
        /\ page.filter \in FiltersOf /\ page.rows \in RowsOf(History!Logs)
    BY <1>0 DEF HistoryPages, FiltersOf, RowsOf, History!Logs
  <1>2. ASSUME NEW d \in History!Drawers, History!OpenDrawer(d)
        PROVE  DrawersInv'
    <2>1. PICK p : p = [page EXCEPT !.open[d] = TRUE, !.rows[d] = page.known[d]]
                   /\ History!Begin("load", d, page.filter[d], p)
      BY <1>2 DEF History!OpenDrawer
    <2>2. p.filter = page.filter /\ \A x \in History!Drawers \ {d} : SameView(x, page, p)
      BY <1>0, <1>1, <2>1 DEF SameView, HistoryPages
    <2> QED BY <1>0, <2>1, <2>2, DrawersBegin
  <1>3. ASSUME NEW d \in History!Drawers, NEW F, History!ChooseFilter(d, F)
        PROVE  DrawersInv'
    <2>1. PICK p : p = [page EXCEPT !.filter[d] = F] /\ History!Begin("load", d, F, p)
      BY <1>3 DEF History!ChooseFilter
    <2>2. p.filter[d] = F /\ \A x \in History!Drawers \ {d} : SameView(x, page, p)
      BY <1>0, <1>1, <2>1 DEF SameView, HistoryPages
    <2> QED BY <1>0, <2>1, <2>2, DrawersBegin
  <1>4. CASE History!HandleOpenWorkerHistory \/ History!HandleOpenSchedulerTicks
             \/ History!HandleOpenMetadataTicks
    BY <1>0, <1>2, <1>4 DEF History!HandleOpenWorkerHistory, History!HandleOpenSchedulerTicks,
                            History!HandleOpenMetadataTicks
  <1>5. CASE \/ \E F \in SUBSET Tags : \/ History!HandleWorkerHistoryFilter(F)
                                       \/ History!HandleSchedulerTickStatus(F)
                                       \/ History!HandleMetadataTickStatus(F)
             \/ \E tag \in Tags : \/ History!HandleSchedulerDurationFilter(tag)
                                  \/ History!HandleMetadataDurationFilter(tag)
             \/ History!HandleResetSchedulerTickFilters \/ History!HandleResetMetadataTickFilters
    BY <1>0, <1>3, <1>5
       DEF History!HandleWorkerHistoryFilter, History!HandleSchedulerTickStatus,
           History!HandleMetadataTickStatus, History!HandleResetSchedulerTickFilters,
           History!HandleResetMetadataTickFilters, History!HandleSchedulerDurationFilter,
           History!HandleMetadataDurationFilter
  <1>6. ASSUME NEW F, History!LoadEventLog(F) \/ History!OpenEventLog(F)
        PROVE  DrawersInv'
    <2>1. PICK q : /\ q = page \/ q = [page EXCEPT !.open["events"] = TRUE, !.detail = {}]
                   /\ History!Begin("load", "events", F, History!Scoped(q, "events", F))
      BY <1>6 DEF History!LoadEventLog, History!OpenEventLog
    <2>2. PICK p : p = History!Scoped(q, "events", F)
      OBVIOUS
    <2>3. /\ DOMAIN q = DOMAIN page /\ q.filter = page.filter /\ q.rows = page.rows
          /\ q.open = page.open \/ q.open = [page.open EXCEPT !["events"] = TRUE]
      BY <1>0, <2>1 DEF HistoryPages
    <2>4. /\ p.filter = [q.filter EXCEPT !["events"] = F] /\ p.rows = q.rows /\ p.open = q.open
      BY <1>0, <2>2, <2>3 DEF History!Scoped, HistoryPages
    <2>5. p.filter["events"] = F /\ \A x \in History!Drawers \ {"events"} : SameView(x, page, p)
      BY <1>0, <1>1, <2>3, <2>4 DEF SameView
    <2> QED BY <1>0, <2>1, <2>2, <2>5, DrawersBegin
  <1>7. CASE \/ History!HandleOpenEventLog \/ History!HandleOpenRuntimeRestartEventLog
             \/ History!HandleOpenRuntimeRestartMissionLog \/ History!HandleOpenQueueJobEventLog
             \/ History!HandleRefreshEventLog \/ History!ClearScope
    BY <1>6, <1>7
       DEF History!HandleOpenEventLog, History!HandleOpenRuntimeRestartEventLog,
           History!HandleOpenRuntimeRestartMissionLog, History!HandleOpenQueueJobEventLog,
           History!HandleRefreshEventLog, History!ClearScope
  <1>8. CASE History!LoadRuntimeRestartEvents \/ History!HandleOpenRuntimeGuide
    <2>1. PICK q : /\ q = page \/ q = [page EXCEPT !.open["guide"] = TRUE, !.restart = "idle"]
                   /\ History!LoadRestarts(q)
      BY <1>8 DEF History!LoadRuntimeRestartEvents, History!HandleOpenRuntimeGuide
    <2>2. PICK p : p = History!Scoped(q, "restarts", {Restart})
                   /\ History!Begin("load", "restarts", {Restart}, p)
      BY <2>1 DEF History!LoadRestarts
    <2>3. /\ DOMAIN q = DOMAIN page /\ q.filter = page.filter /\ q.rows = page.rows
          /\ q.open = page.open \/ q.open = [page.open EXCEPT !["guide"] = TRUE]
      BY <1>0, <2>1 DEF HistoryPages
    <2>4. /\ p.filter = [q.filter EXCEPT !["restarts"] = {Restart}] /\ p.rows = q.rows /\ p.open = q.open
      BY <1>0, <2>2, <2>3 DEF History!Scoped, HistoryPages
    <2>5. "restarts" \notin History!Drawers /\ \A x \in History!Drawers : SameView(x, page, p)
      BY <1>0, <1>1, <2>3, <2>4 DEF SameView
    <2> QED BY <1>0, <2>2, <2>5, DrawersBegin
  <1>9. CASE \/ \E l \in History!Ticks : History!HandlePruneTickRows(l)
             \/ History!HandlePruneEventLog \/ History!HandleRunMetadataSchedulerOnce
    <2>1. PICK op, l, p :
             /\ op \in HistoryOps
             /\ History!Begin(op, l, page.filter[l], p)
             /\ p = [page EXCEPT !.pruning[l] = "pruning"] \/ p = [page EXCEPT !.run = "running"]
      BY <1>0, <1>9 DEF History!HandlePruneTickRows, History!HandlePruneEventLog,
                        History!HandleRunMetadataSchedulerOnce
    <2>2. p.filter = page.filter /\ p.rows = page.rows /\ p.open = page.open
      BY <1>0, <2>1 DEF HistoryPages
    <2>3. \A x \in History!Drawers : SameView(x, page, p)
      BY <2>2 DEF SameView
    <2> QED BY <2>1, <2>2, <2>3, DrawersBegin
  <1>10. CASE History!HandleRequestRuntimeRestart
    <2>1. PICK p : p = [page EXCEPT !.restart = "requesting"]
                   /\ History!Begin("restart", "restarts", {Restart}, p)
      BY <1>10 DEF History!HandleRequestRuntimeRestart
    <2>2. p.filter = page.filter /\ p.rows = page.rows /\ p.open = page.open
      BY <1>0, <2>1 DEF HistoryPages
    <2>3. "restarts" \notin History!Drawers /\ \A x \in History!Drawers : SameView(x, page, p)
      BY <1>0, <2>2 DEF SameView
    <2> QED BY <1>0, <2>1, <2>3, DrawersBegin
  <1>11. CASE \/ \E keep \in History!Keeps : History!EditKeep(keep)
              \/ \E d \in History!Drawers \cup {"guide"} : History!CloseDrawer(d)
              \/ \E r \in History!Row("events") : History!OpenEventDetail(r)
              \/ History!CloseEventDetail \/ History!HandleOpenEventDetailTarget
    <2>1. PICK p : p = page' /\ server' = server /\ note' = note /\ calls' = calls
                   /\ \/ \E keep : p = [page EXCEPT !.keep = keep]
                      \/ \E d : p = [page EXCEPT !.open[d] = FALSE]
                      \/ \E r : p = [page EXCEPT !.detail = r]
                      \/ p = [page EXCEPT !.open["events"] = FALSE, !.detail = {}]
      BY <1>11 DEF History!CloseDrawer, History!OpenEventDetail, History!EditKeep,
         History!CloseEventDetail, History!HandleOpenEventDetailTarget, History!Shows
    <2>2. /\ p.filter = page.filter /\ p.rows = page.rows
          /\ \A x \in History!Drawers : p.open[x] => page.open[x]
      <3>1. CASE \E d : p = [page EXCEPT !.open[d] = FALSE]
        <4>1. PICK d : p = [page EXCEPT !.open[d] = FALSE]
          BY <3>1
        <4>2. p.filter = page.filter /\ p.rows = page.rows /\ p.open = [page.open EXCEPT ![d] = FALSE]
          BY <1>0, <4>1 DEF HistoryPages
        <4> QED BY <1>1, <4>2
      <3>2. CASE p = [page EXCEPT !.open["events"] = FALSE, !.detail = {}]
        <4>2. p.filter = page.filter /\ p.rows = page.rows /\ p.open = [page.open EXCEPT !["events"] = FALSE]
          BY <1>0, <3>2 DEF HistoryPages
        <4> QED BY <1>1, <4>2
      <3>3. CASE (\E keep : p = [page EXCEPT !.keep = keep]) \/ \E r : p = [page EXCEPT !.detail = r]
        BY <1>0, <3>3 DEF HistoryPages
      <3> QED BY <2>1, <3>1, <3>2, <3>3
    <2>3. \A x \in History!Drawers : SameView(x, page, p)
      BY <2>2 DEF SameView
    <2> QED BY <2>1, <2>3, DrawersKept
  <1> QED
    BY <1>4, <1>5, <1>7, <1>8, <1>9, <1>10, <1>11 DEF History!Operator

LEMMA DrawersServer ==
    ASSUME DrawersInv, HistoryTypes, NEW d \in History!Drawers,
           History!SnapshotRead(d) \/ \E tags \in SUBSET History!TagsOf(d) : History!RowAdded(d, tags)
    PROVE  DrawersInv'
  <1>0. page \in HistoryPages /\ page.rows \in RowsOf(History!Logs) /\ "restarts" \notin History!Drawers
    BY DEF HistoryTypes, HistoryPages, History!Drawers, History!Ticks
  <1>1. calls' = calls /\ note' = note
    BY DEF History!SnapshotRead, History!RowAdded
  <1>2. PICK p, s : p = page' /\ s = server'
    OBVIOUS
  <1>3. \A x \in History!Drawers : SameView(x, page, p)
    <2>1. \/ p = page
          \/ \E y : p = [page EXCEPT !.known[d] = y]
          \/ \E y, z : p = [page EXCEPT !.known[d] = y, !.rows["restarts"] = z]
      BY <1>2 DEF History!SnapshotRead, History!RowAdded
    <2>2. ASSUME NEW y, p = [page EXCEPT !.known[d] = y]
          PROVE  p.filter = page.filter /\ p.open = page.open /\ p.rows = page.rows
      BY <1>0, <2>2 DEF HistoryPages
    <2>3. ASSUME NEW y, NEW z, p = [page EXCEPT !.known[d] = y, !.rows["restarts"] = z]
          PROVE  p.filter = page.filter /\ p.open = page.open
                 /\ \A x \in History!Drawers : p.rows[x] = page.rows[x]
      <3>1. /\ p.filter = page.filter /\ p.open = page.open
            /\ p.rows = [page.rows EXCEPT !["restarts"] = z]
        BY <1>0, <2>3 DEF HistoryPages
      <3>2. DOMAIN page.rows = History!Logs /\ History!Drawers \subseteq History!Logs
        BY <1>0 DEF RowsOf, History!Logs
      <3> QED BY <1>0, <3>1, <3>2
    <2> QED BY <2>1, <2>2, <2>3 DEF SameView
  <1>4. \E tags : \/ server' = server
                  \/ server' = [server EXCEPT ![d] = @ \cup {[id |-> History!NextId(d), tags |-> tags]}]
    BY DEF History!SnapshotRead, History!RowAdded
  <1>5. \A x \in History!Drawers : \A R, F : AsOf(server[x], R, F) => AsOf(s[x], R, F)
    BY <1>2, <1>4, LogGrows
  <1> QED BY <1>1, <1>2, <1>3, <1>5, DrawersKept

\* What a call is after an await, if it goes on.
LEMMA HistoryNext ==
    ASSUME HistoryTypes, StuckHistoryInv, NEW c \in calls, NEW e, DOMAIN e = CallFields,
           e.log = c.log, e.todo = c.todo, e.filter = c.filter, History!GoesOn(c, e)
    PROVE  \/ calls' = calls \ {c} /\ History!Stage(c) = LastOf(c.op)
           \/ \E f : /\ calls' = (calls \ {c}) \cup {f}
                     /\ f.log = c.log /\ f.filter = c.filter /\ f.got = e.got
                     /\ History!Stage(f) = After(c.op, History!Stage(c))
                     /\ History!Stage(c) # LastOf(c.op)
  <1>1. PathOf(c.op, c.todo)
    BY HistoryStage DEF HistoryCall
  <1>2. CASE Len(c.todo) = 1
    BY <1>2, HistoryStage DEF History!GoesOn
  <1>3. CASE Len(c.todo) # 1
    <2>1. PICK f : f = [e EXCEPT !.todo = Tail(e.todo)]
      OBVIOUS
    <2>2. calls' = (calls \ {c}) \cup {f}
      BY <1>3, <2>1 DEF History!GoesOn
    <2>3. f.log = c.log /\ f.filter = c.filter /\ f.got = e.got /\ f.todo = Tail(c.todo)
      BY <2>1 DEF CallFields
    <2>4. History!Stage(f) = After(c.op, History!Stage(c))
      BY <1>1, <1>3, <2>3, PathTail DEF History!Stage
    <2>5. History!Stage(c) # LastOf(c.op)
      BY <1>3, HistoryStage
    <2> QED BY <2>2, <2>3, <2>4, <2>5
  <1> QED BY <1>2, <1>3

\* The drawers a call is not of.
LEMMA DrawersOthers ==
    ASSUME NEW c \in calls, NEW d, c.log # d, NEW C, Drawn(d, server[d], page, calls), NEW S, NEW p,
           C = calls \ {c} \/ \E f : f.log = c.log /\ C = (calls \ {c}) \cup {f},
           SameView(d, page, p), \A R, F : AsOf(server[d], R, F) => AsOf(S, R, F)
    PROVE  Drawn(d, S, p, C)
  <1>1. \A a : ToRead(a, d) => (a \in calls <=> a \in C)
    BY DEF ToRead
  <1> QED BY <1>1, DrawnStays

\* The drawer of a call that has rows to come, still: with the next of its awaits.
LEMMA DrawnGoesOn ==
    ASSUME NEW c \in calls, NEW d, c.log = d, Drawn(d, server[d], page, calls), NEW S, NEW p, NEW f,
           History!Stage(c) \notin {"timer", "channel"}, History!Stage(f) \notin {"timer", "channel"},
           f.log = c.log, f.filter = c.filter, p.filter[d] = page.filter[d],
           History!Stage(f) = "answer" => AsOf(S, f.got, f.filter)
    PROVE  Drawn(d, S, p, (calls \ {c}) \cup {f})
  <1>1. \A a \in calls \ {c} : ~ToRead(a, d)
    BY DEF Drawn, ToRead
  <1>2. c.filter = page.filter[d]
    BY DEF Drawn, ToRead
  <1>3. ToRead(f, d) /\ f.filter = p.filter[d]
    BY <1>2 DEF ToRead
  <1> QED BY <1>1, <1>3, DrawnBegins

LEMMA DrawersServed ==
    ASSUME DrawersInv, HistoryTypes, StuckHistoryInv, NEW c \in calls,
           \/ History!PruneServed(c) \/ History!Acted(c) \/ History!Asks(c) \/ History!ReadServed(c)
    PROVE  DrawersInv'
  <1>0. /\ DOMAIN c = CallFields /\ page \in HistoryPages /\ note' = note
        /\ server \in [History!Drawers -> SUBSET AllRows]
        /\ \A d \in History!Drawers : server[d] \subseteq History!Row(d)
        /\ c.op \in HistoryOps /\ c.log \in LogsOf(c.op) /\ c.log \in History!Logs
        /\ History!Source(c.log) \in History!Drawers
    BY HistoryStage, HistoryLogs
       DEF HistoryTypes, HistoryTyped, RowsOf, History!PruneServed, History!Acted, History!Asks,
           History!ReadServed
  <1>1. PICK e : /\ DOMAIN e = CallFields /\ e.log = c.log /\ e.todo = c.todo /\ e.filter = c.filter
                 /\ History!GoesOn(c, e)
                 /\ History!ReadServed(c) => e.got = History!Query(c.log, c.filter)
    <2>1. CASE History!ReadServed(c)
      <3>1. PICK R : R = History!Query(c.log, c.filter)
        OBVIOUS
      <3>2. PICK e : e = [c EXCEPT !.got = R] /\ History!GoesOn(c, e)
        BY <2>1, <3>1 DEF History!ReadServed
      <3>3. DOMAIN e = CallFields /\ e.log = c.log /\ e.todo = c.todo /\ e.filter = c.filter /\ e.got = R
        BY <1>0, <3>2 DEF CallFields
      <3> QED BY <3>1, <3>2, <3>3
    <2>2. CASE ~History!ReadServed(c)
      BY <1>0, <2>2 DEF History!PruneServed, History!Acted, History!Asks
    <2> QED BY <2>1, <2>2
  <1>2. History!Stage(c) \in {"prune", "act", "query", "settings", "read"}
    BY DEF History!PruneServed, History!Acted, History!Asks, History!ReadServed
  <1>3. PICK f : /\ calls' = (calls \ {c}) \cup {f} /\ f.log = c.log /\ f.filter = c.filter
                 /\ f.got = e.got /\ History!Stage(f) = After(c.op, History!Stage(c))
    <2>1. History!Stage(c) # LastOf(c.op)
      BY <1>2 DEF LastOf
    <2> QED BY <1>1, <2>1, HistoryNext
  <1>4. /\ History!Stage(f) \in {"query", "read", "settings", "answer"}
        /\ History!Stage(f) = "answer" => History!Stage(c) = "read"
    BY <1>2, <1>3 DEF After
  <1>5. PICK p, s, C : p = page' /\ s = server' /\ C = calls'
    OBVIOUS
  <1>6. ASSUME NEW d \in History!Drawers, d \notin note
        PROVE  SameView(d, page, p)
    <2>1. CASE ~History!Asks(c)
      <3>1. p = page
        BY <1>5, <2>1 DEF History!PruneServed, History!Acted, History!ReadServed
      <3> QED BY <3>1 DEF SameView
    <2>2. CASE p = page
      BY <2>2 DEF SameView
    <2>3. CASE p = History!Scoped(page, c.log, c.filter) /\ History!Stage(c) = "query"
      <3>1. p.rows = page.rows /\ p.open = page.open /\ p.filter = [page.filter EXCEPT ![c.log] = c.filter]
        BY <1>0, <2>3 DEF History!Scoped, HistoryPages
      <3>2. c.log = d => c.filter = page.filter[d]
        BY <1>6, <2>3 DEF DrawersInv, Drawn, ToRead
      <3>3. p.filter[d] = page.filter[d]
        BY <1>0, <3>1, <3>2 DEF HistoryPages, FiltersOf
      <3> QED BY <3>1, <3>3 DEF SameView
    <2> QED BY <1>5, <2>1, <2>2, <2>3 DEF History!Asks
  <1>7. ASSUME NEW d \in History!Drawers, d \notin note, c.log # d
        PROVE  Drawn(d, s[d], p, C)
    <2>1. \A R, F : AsOf(server[d], R, F) => AsOf(s[d], R, F)
      <3>1. CASE History!PruneServed(c)
        <4>1. s = [server EXCEPT ![c.log] = s[c.log]]
          BY <1>0, <1>5, <3>1 DEF History!PruneServed
        <4>2. s[d] = server[d]
          BY <1>0, <1>7, <4>1
        <4> QED BY <4>2
      <3>2. CASE History!Acted(c)
        <4>1. PICK l \in History!Drawers : l = History!Source(c.log)
          BY <1>0
        <4>2. \E tags : \/ server' = server
                        \/ server' = [server EXCEPT ![l] = @ \cup {[id |-> History!NextId(l), tags |-> tags]}]
          <5>1. PICK tags : server' = [server EXCEPT ![l] = IF History!NextId(l) <= MaxRows
                        THEN @ \cup {[id |-> History!NextId(l), tags |-> tags]} ELSE @]
            BY <3>2, <4>1 DEF History!Acted
          <5>2. [server EXCEPT ![l] = server[l]] = server
            BY <1>0
          <5> QED BY <5>1, <5>2
        <4> QED BY <1>5, <4>2, LogGrows
      <3>3. CASE History!Asks(c) \/ History!ReadServed(c)
        BY <1>5, <3>3 DEF History!Asks, History!ReadServed
      <3> QED BY <3>1, <3>2, <3>3
    <2>2. Drawn(d, server[d], page, calls) /\ SameView(d, page, p)
      BY <1>6, <1>7 DEF DrawersInv
    <2>3. C = (calls \ {c}) \cup {f}
      BY <1>3, <1>5
    <2> QED BY <1>3, <1>7, <2>1, <2>2, <2>3, DrawersOthers
  <1>8. ASSUME NEW d \in History!Drawers, d \notin note, c.log = d
        PROVE  Drawn(d, s[d], p, C)
    <2>1. Drawn(d, server[d], page, calls) /\ p.filter[d] = page.filter[d]
      BY <1>6, <1>8 DEF DrawersInv, SameView
    <2>2. History!Stage(f) = "answer" => AsOf(s[d], f.got, f.filter)
      <3>1. SUFFICES ASSUME History!Stage(f) = "answer" PROVE AsOf(s[d], f.got, f.filter)
        OBVIOUS
      <3>2. History!ReadServed(c) /\ s = server
        BY <1>4, <1>5, <3>1 DEF History!PruneServed, History!Acted, History!Asks, History!ReadServed
      <3>3. f.got = {q \in server[d] : History!Matches(q, f.filter)}
        <4>1. f.got = History!Query(d, f.filter) /\ d # "restarts"
          BY <1>1, <1>3, <1>8, <3>2 DEF History!Drawers, History!Ticks
        <4> QED BY <4>1 DEF History!Query, History!Source
      <3> QED BY <1>0, <3>2, <3>3, AsOfNow
    <2>3. History!Stage(c) \notin {"timer", "channel"} /\ History!Stage(f) \notin {"timer", "channel"}
      BY <1>2, <1>4
    <2>4. Drawn(d, s[d], p, (calls \ {c}) \cup {f})
      BY <1>3, <1>8, <2>1, <2>2, <2>3, DrawnGoesOn
    <2> QED BY <1>3, <1>5, <2>4
  <1> QED BY <1>0, <1>5, <1>7, <1>8 DEF DrawersInv

LEMMA EndedShows ==
    ASSUME NEW c, NEW p \in HistoryPages, NEW q, q = History!Ended(c, p)
    PROVE  q.rows = p.rows /\ q.filter = p.filter /\ q.open = p.open
  BY DEF History!Ended, HistoryPages

LEMMA DrawersAnswered ==
    ASSUME DrawersInv, HistoryTypes, StuckHistoryInv, NEW c \in calls,
           History!RowsAnswered(c) \/ History!RunDone(c) \/ History!TimerFires(c)
    PROVE  DrawersInv'
  <1>0. /\ DOMAIN c = CallFields /\ page \in HistoryPages /\ note' = note /\ server' = server
        /\ c.op \in HistoryOps /\ c.log \in LogsOf(c.op) /\ c.log \in History!Logs
        /\ page.rows \in [History!Logs -> SUBSET AllRows] /\ History!Drawers \subseteq History!Logs
    BY HistoryStage, HistoryLogs
       DEF HistoryTypes, HistoryTyped, RowsOf, HistoryPages, History!RowsAnswered, History!RunDone,
           History!TimerFires, History!Logs
  <1>1. History!GoesOn(c, c)
    BY DEF History!RowsAnswered, History!RunDone, History!TimerFires
  <1>2. PICK p, C : p = page' /\ C = calls'
    OBVIOUS
  <1>3. /\ C = calls \ {c} \/ \E f : f.log = c.log /\ C = (calls \ {c}) \cup {f}
        /\ \A a \in C : a \in calls \ {c} \/ History!Stage(a) \in {"timer", "channel"}
    <2>1. CASE calls' = calls \ {c}
      BY <1>2, <2>1
    <2>2. ASSUME NEW f, calls' = (calls \ {c}) \cup {f}, f.log = c.log,
                 History!Stage(f) = After(c.op, History!Stage(c)), History!Stage(c) # LastOf(c.op)
          PROVE  /\ \E g : g.log = c.log /\ C = (calls \ {c}) \cup {g}
                 /\ \A a \in C : a \in calls \ {c} \/ History!Stage(a) \in {"timer", "channel"}
      <3>1. History!Stage(c) \in {"answer", "channel", "timer"}
        BY DEF History!RowsAnswered, History!RunDone, History!TimerFires
      <3>2. After(c.op, History!Stage(c)) \in {"timer", "channel"}
        BY <3>1 DEF After
      <3> QED BY <1>2, <2>2, <3>2
    <2> QED BY <1>0, <1>1, <2>1, <2>2, HistoryNext
  <1>4. /\ p.filter = page.filter /\ p.open = page.open
        /\ p.rows = IF History!RowsAnswered(c) THEN [page.rows EXCEPT ![c.log] = c.got] ELSE page.rows
    <2>1. CASE History!RowsAnswered(c)
      <3>1. PICK a \in HistoryPages : a = [page EXCEPT !.rows[c.log] = c.got]
        BY <1>0, RowsShown DEF HistoryTypes, HistoryTyped
      <3>2. PICK b : b = IF History!Source(c.log) = "events"
                   THEN [a EXCEPT !.loading[c.log] = "idle",
                            !.known["events"] = IF c.log = "events" /\ c.filter = {} THEN c.got ELSE @]
                   ELSE a
        OBVIOUS
      <3>3. p = History!Ended(c, b)
        BY <1>2, <2>1, <3>1, <3>2 DEF History!RowsAnswered
      <3>4. a.filter = page.filter /\ a.open = page.open /\ a.rows = [page.rows EXCEPT ![c.log] = c.got]
        BY <1>0, <3>1 DEF HistoryPages
      <3>5. b.filter = a.filter /\ b.open = a.open /\ b.rows = a.rows /\ DOMAIN b = DOMAIN a
        BY <3>1, <3>2 DEF HistoryPages
      <3>6. p.filter = b.filter /\ p.open = b.open /\ p.rows = b.rows
        BY <3>1, <3>3, <3>5 DEF History!Ended, HistoryPages
      <3> QED BY <2>1, <3>4, <3>5, <3>6
    <2>2. CASE ~History!RowsAnswered(c)
      <3>1. p = [page EXCEPT !.run = "done"] \/ p = [page EXCEPT !.pruning[c.log] = "idle"]
        BY <1>2, <2>2 DEF History!RunDone, History!TimerFires
      <3> QED BY <1>0, <2>2, <3>1 DEF HistoryPages
    <2> QED BY <2>1, <2>2
  <1>5. ASSUME NEW d \in History!Drawers, d \notin note, c.log # d
        PROVE  Drawn(d, server[d], p, C)
    <2>1. SameView(d, page, p)
      BY <1>0, <1>4, <1>5 DEF SameView
    <2>2. Drawn(d, server[d], page, calls)
      BY <1>5 DEF DrawersInv
    <2> QED BY <1>3, <1>5, <2>1, <2>2, DrawersOthers
  <1>6. ASSUME NEW d \in History!Drawers, d \notin note, c.log = d, History!RowsAnswered(c)
        PROVE  Drawn(d, server[d], p, C)
    <2>1. Drawn(d, server[d], page, calls) /\ History!Stage(c) = "answer"
      BY <1>6 DEF DrawersInv, History!RowsAnswered
    <2>2. c.filter = page.filter[d] /\ AsOf(server[d], c.got, c.filter)
      BY <1>6, <2>1 DEF Drawn, ToRead
    <2>3. \A a \in calls \ {c} : ~ToRead(a, d)
      BY <1>6, <2>1 DEF Drawn, ToRead
    <2>4. \A a \in C : ~ToRead(a, d)
      BY <1>3, <2>3 DEF ToRead
    <2>5. p.rows[d] = c.got /\ p.filter[d] = c.filter
      BY <1>0, <1>4, <1>6, <2>2
    <2> QED BY <2>2, <2>4, <2>5, DrawnEnds
  <1>7. ASSUME NEW d \in History!Drawers, d \notin note, c.log = d, ~History!RowsAnswered(c)
        PROVE  Drawn(d, server[d], p, C)
    <2>1. History!Stage(c) \in {"timer", "channel"}
      BY <1>7 DEF History!RunDone, History!TimerFires
    <2>2. Drawn(d, server[d], page, calls) /\ SameView(d, page, p)
      BY <1>4, <1>7 DEF DrawersInv, SameView
    <2>3. \A a : ToRead(a, d) => (a \in calls <=> a \in C)
      BY <1>3, <2>1 DEF ToRead
    <2> QED BY <2>2, <2>3, DrawnStays
  <1> QED BY <1>0, <1>2, <1>5, <1>6, <1>7 DEF DrawersInv

LEMMA DrawersFail ==
    ASSUME DrawersInv, HistoryTypes, StuckHistoryInv, NEW c \in calls,
           History!EventsFail(c) \/ History!Fails(c)
    PROVE  DrawersInv'
  <1>0. /\ DOMAIN c = CallFields /\ page \in HistoryPages /\ note' = note \cup {c.log} /\ server' = server
    BY DEF HistoryTypes, HistoryTyped, History!EventsFail, History!Fails
  <1>1. PICK p, C : p = page' /\ C = calls'
    OBVIOUS
  <1>2. C = calls \ {c} \/ \E f : f.log = c.log /\ C = (calls \ {c}) \cup {f}
    <2>1. PICK f : f = [c EXCEPT !.todo = <<"timer">>]
      OBVIOUS
    <2>2. f.log = c.log
      BY <1>0, <2>1 DEF CallFields
    <2>3. C = (calls \ {c}) \cup IF c.op = "prune" THEN {f} ELSE {}
      BY <1>1, <2>1 DEF History!EventsFail, History!Fails
    <2> QED BY <2>2, <2>3
  <1>3. p.rows = page.rows /\ p.filter = page.filter /\ p.open = page.open
    <2>1. CASE History!EventsFail(c)
      <3>0. PICK a : a = [page EXCEPT !.loading[c.log] = "error"]
        OBVIOUS
      <3>1. p = History!Ended(c, a)
        BY <1>1, <2>1, <3>0 DEF History!EventsFail
      <3>2. a \in HistoryPages /\ a.rows = page.rows /\ a.filter = page.filter /\ a.open = page.open
        BY <1>0, <3>0 DEF HistoryPages
      <3>3. p.rows = a.rows /\ p.filter = a.filter /\ p.open = a.open
        BY <3>1, <3>2, EndedShows
      <3> QED BY <3>2, <3>3
    <2>2. CASE History!Fails(c)
      BY <1>0, <1>1, <2>2 DEF History!Fails, History!Failed, HistoryPages
    <2> QED BY <2>1, <2>2
  <1>4. ASSUME NEW d \in History!Drawers, d \notin note \cup {c.log}
        PROVE  Drawn(d, server[d], p, C)
    <2>1. SameView(d, page, p) /\ Drawn(d, server[d], page, calls)
      BY <1>3, <1>4 DEF SameView, DrawersInv
    <2> QED BY <1>2, <1>4, <2>1, DrawersOthers
  <1> QED BY <1>0, <1>1, <1>4 DEF DrawersInv

LEMMA DrawersInit ==
    ASSUME History!Init
    PROVE  DrawersInv
  <1>1. calls = {}
    BY DEF History!Init
  <1>2. PICK rows, filter, open, pruning, loading, known :
           /\ open = [d \in History!Drawers \cup {"guide"} |-> FALSE]
           /\ page = [rows |-> rows, known |-> known, filter |-> filter, open |-> open, keep |-> 1,
                   detail |-> {}, pruning |-> pruning, loading |-> loading,
                   restart |-> "idle", run |-> "idle"]
    BY DEF History!Init
  <1>3. \A d \in History!Drawers : ~page.open[d]
    BY <1>2
  <1> QED BY <1>1, <1>3 DEF DrawersInv, Drawn

LEMMA DrawersStep ==
    ASSUME DrawersInv, HistoryTypes, StuckHistoryInv, [History!Next]_(History!vars)
    PROVE  DrawersInv'
  <1>1. CASE History!Operator
    BY <1>1, DrawersOperator
  <1>2. CASE \E c \in calls : History!Answers(c)
    BY <1>2, DrawersServed, DrawersAnswered, DrawersFail DEF History!Answers
  <1>3. CASE \E d \in History!Drawers : \/ History!SnapshotRead(d)
                                        \/ \E tags \in SUBSET History!TagsOf(d) : History!RowAdded(d, tags)
    BY <1>3, DrawersServer
  <1>4. CASE UNCHANGED History!vars
    BY <1>4 DEF History!vars, DrawersInv
  <1> QED BY <1>1, <1>2, <1>3, <1>4 DEF History!Next

LEMMA HistorySettled ==
    ASSUME DrawersInv, StuckHistoryInv
    PROVE  History!Settled
  <1>1. ASSUME NEW d \in History!Drawers, page.open[d], d \notin note,
               \A c \in calls : c.log = d => ~History!Reading(c)
        PROVE  \E n \in 0..MaxRows :
                   page.rows[d] = {r \in History!Query(d, page.filter[d]) : r.id <= n}
    <2>1. \A c \in calls : ~ToRead(c, d)
      BY <1>1, ReadingIs DEF ToRead
    <2>2. AsOf(server[d], page.rows[d], page.filter[d])
      BY <1>1, <2>1 DEF DrawersInv, Drawn
    <2>3. History!Query(d, page.filter[d]) = {q \in server[d] : History!Matches(q, page.filter[d])}
      BY <1>1 DEF History!Query, History!Source, History!Drawers, History!Ticks
    <2> QED BY <2>2, <2>3 DEF AsOf
  <1> QED BY <1>1 DEF History!Settled

(***************************************************************************)
(* The storage page                                                        *)
(***************************************************************************)

Scans == [orphans : SUBSET Folders, drift : SUBSET Storage!Drift]
PurgePlans == [age : Ages, count : {Storage!Cardinality(S) : S \in SUBSET Storage!Held}, ok : BOOLEAN]
PlansOf(S) == [of : S, ok : BOOLEAN]
HooksOf(S) == [item : S \cup {None}, plan : PlansOf(S) \cup {None}, status : Storage!Statuses]
PerDrift == {"idle", "running", "error", "done"}

StoragePages ==
    [drift : HooksOf(Storage!Drift), orphan : HooksOf(Folders), drawer : HooksOf(Storage!Held),
     per : [Storage!Drift -> PerDrift], scan : Scans, list : SUBSET Storage!Held, open : BOOLEAN,
     purge : PurgePlans \cup {None}, age : Ages, confirmed : BOOLEAN]

ItemsOf(flow) ==
    CASE flow = "drift" -> Storage!Drift
      [] flow = "orphan" -> Folders
      [] OTHER -> Storage!Held

StorageFields == {"slot", "flow", "at", "item", "age", "got", "applied", "scan"}

StorageTyped(c) ==
    /\ DOMAIN c = StorageFields
    /\ c.flow \in {"drift", "orphan", "drawer", "purge"}
    /\ c.at \in {"plan", "planned", "apply", "follow", "applied", "timer", "list"}
    /\ c.at = "list" => c.flow = "drawer"
    /\ c.at = "timer" => c.flow # "purge"
    /\ c.flow = "purge" =>
          /\ c.age \in Ages /\ (c.at = "apply" => c.item \in PurgePlans)
          /\ c.at \in {"planned", "follow", "applied"} => c.got \in PurgePlans
    /\ c.flow # "purge" =>
          /\ c.at # "list" => c.item \in ItemsOf(c.flow)
          /\ c.at \in {"planned", "follow", "applied"} => c.got \in PlansOf(ItemsOf(c.flow))
    /\ c.at = "applied" => c.scan \in Scans

StorageTypes ==
    /\ page \in StoragePages
    /\ \A c \in calls : StorageTyped(c)
    /\ SlotsOwn(calls)
    /\ \A p \in note : p.file \in Storage!Held /\ p.shown \in Ages

LEMMA ScanTyped ==
    ASSUME DiskInv
    PROVE  Storage!Scan \in Scans /\ Storage!There(server.held) \subseteq Storage!Held
  <1>1. /\ server.media \subseteq Folders /\ server.rows \subseteq Folders
        /\ server.held \subseteq Storage!Held
    BY DEF DiskInv, Storage!Disks
  <1>2. \A S : Storage!There(S) \subseteq S
    BY DEF Storage!There
  <1>3. PICK o, d : /\ o = Storage!There({f \in Folders : server.home[f] # 0} \ server.media)
                    /\ d = [kind : {"unindexed"}, folder : Storage!There(server.media) \ server.rows] \cup
                           [kind : {"missing"}, folder : server.rows \ Storage!There(server.media)]
    OBVIOUS
  <1>4. o \subseteq Folders
    BY <1>2, <1>3
  <1>5. d \subseteq Storage!Drift
    <2>1. /\ Storage!There(server.media) \ server.rows \subseteq Folders
          /\ server.rows \ Storage!There(server.media) \subseteq Folders
      BY <1>1, <1>2
    <2> QED BY <1>3, <2>1 DEF Storage!Drift
  <1>6. Storage!Scan = [orphans |-> o, drift |-> d]
    BY <1>3 DEF Storage!Scan
  <1> QED BY <1>1, <1>2, <1>4, <1>5, <1>6 DEF Scans

LEMMA OldEnoughTyped ==
    ASSUME DiskInv, NEW a
    PROVE  Storage!OldEnough(a) \subseteq Storage!Held
  BY ScanTyped DEF Storage!OldEnough

LEMMA ResultTyped ==
    ASSUME DiskInv, NEW c, StorageTyped(c), c.at \in {"plan", "apply"}
    PROVE  /\ c.flow = "purge" => Storage!Result(c) \in PurgePlans
           /\ c.flow # "purge" => Storage!Result(c) \in PlansOf(ItemsOf(c.flow))
  <1>1. CASE c.flow = "purge"
    <2>1. PICK n : n = Storage!Cardinality(Storage!OldEnough(c.age))
      OBVIOUS
    <2>2. n \in {Storage!Cardinality(S) : S \in SUBSET Storage!Held}
      BY <2>1, OldEnoughTyped
    <2>3. Storage!Result(c) = [age |-> c.age, count |-> n, ok |-> TRUE] /\ c.age \in Ages
      BY <1>1, <2>1 DEF Storage!Result, StorageTyped
    <2> QED BY <1>1, <2>2, <2>3 DEF PurgePlans
  <1>2. CASE c.flow # "purge"
    <2>1. c.item \in ItemsOf(c.flow)
      BY <1>2 DEF StorageTyped
    <2>2. Storage!Outcome(c).ok \in BOOLEAN
      <3>1. ASSUME NEW f PROVE Storage!Recover(f).ok \in BOOLEAN
        BY DEF Storage!Recover
      <3>2. ASSUME NEW f PROVE Storage!Prune(f).ok \in BOOLEAN
        BY DEF Storage!Prune
      <3>3. ASSUME NEW f PROVE Storage!Quarantine(f).ok \in BOOLEAN
        BY DEF Storage!Quarantine
      <3>4. ASSUME NEW h PROVE Storage!Restore(h).ok \in BOOLEAN
        BY DEF Storage!Restore
      <3> QED BY <1>2, <3>1, <3>2, <3>3, <3>4 DEF Storage!Outcome, StorageTyped
    <2>3. PICK ok \in BOOLEAN : ok = Storage!Outcome(c).ok
      BY <2>2
    <2>4. Storage!Result(c) = [of |-> c.item, ok |-> ok]
      BY <1>2, <2>3 DEF Storage!Result
    <2> QED BY <1>2, <2>1, <2>4 DEF PlansOf
  <1> QED BY <1>1, <1>2

\* What a handler begins with.
Asked(flow, at, item, age) ==
    \/ /\ flow = "purge" /\ at \in {"plan", "apply"} /\ age \in Ages
       /\ at = "apply" => item \in PurgePlans
    \/ flow \in {"drift", "orphan", "drawer"} /\ at \in {"plan", "apply"} /\ item \in ItemsOf(flow)
    \/ flow = "drawer" /\ at = "list"

LEMMA StorageBeginTyped ==
    ASSUME StorageTypes, NEW flow, NEW at, NEW item, NEW age, Storage!Begin(flow, at, item, age),
           page' \in StoragePages, Asked(flow, at, item, age)
    PROVE  StorageTypes'
  <1>1. \E i \in Storage!Slots : TRUE
    BY DEF Storage!Begin
  <1>2. PICK i : i \in Storage!Slots /\ i = CHOOSE j \in Storage!Slots : TRUE
    BY <1>1
  <1>3. i \in 1..MaxCalls /\ \A c \in calls : c.slot # i
    BY <1>2 DEF Storage!Slots
  <1>4. PICK d : d = [slot |-> i, flow |-> flow, at |-> at, item |-> item, age |-> age,
                      got |-> None, applied |-> FALSE, scan |-> None]
    OBVIOUS
  <1>5. calls' = calls \cup {d} /\ note' = note
    BY <1>2, <1>4 DEF Storage!Begin, Storage!Call
  <1>6. DOMAIN d = StorageFields /\ d.slot = i /\ d.flow = flow /\ d.at = at /\ d.item = item /\ d.age = age
    BY <1>4 DEF StorageFields
  <1>7. StorageTyped(d)
    BY <1>6 DEF StorageTyped, Asked
  <1>8. SlotsOwn(calls')
    BY <1>3, <1>5, <1>6, SlotBegins DEF StorageTypes
  <1> QED BY <1>5, <1>7, <1>8 DEF StorageTypes

LEMMA StorageMoves ==
    ASSUME StorageTypes, NEW c \in calls, NEW d, StorageTyped(d), d.slot = c.slot, Storage!GoesOn(c, d),
           page' \in StoragePages, \A p \in note' : p.file \in Storage!Held /\ p.shown \in Ages
    PROVE  StorageTypes'
  <1>1. calls' = (calls \ {c}) \cup {d}
    BY DEF Storage!GoesOn
  <1>2. SlotsOwn(calls')
    BY <1>1, SlotGoesOn DEF StorageTypes
  <1> QED BY <1>1, <1>2 DEF StorageTypes

LEMMA StorageEnds ==
    ASSUME StorageTypes, NEW c \in calls, Storage!Ends(c), page' \in StoragePages, note' = note
    PROVE  StorageTypes'
  <1>1. calls' = calls \ {c}
    BY DEF Storage!Ends
  <1>2. SlotsOwn(calls')
    BY <1>1, SlotsFewer DEF StorageTypes
  <1> QED BY <1>1, <1>2 DEF StorageTypes

LEMMA StorageShows ==
    ASSUME StorageTypes, calls' = calls, page' \in StoragePages, note' = note
    PROVE  StorageTypes'
  BY DEF StorageTypes

\* What the hooks of a flow become.
LEMMA HooksPut ==
    ASSUME NEW p \in StoragePages
    PROVE  /\ \A h \in HooksOf(Storage!Drift) : [p EXCEPT !.drift = h] \in StoragePages
           /\ \A h \in HooksOf(Folders) : [p EXCEPT !.orphan = h] \in StoragePages
           /\ \A h \in HooksOf(Storage!Held) : [p EXCEPT !.drawer = h] \in StoragePages
           /\ \A d : \A s \in PerDrift : [p EXCEPT !.per[d] = s] \in StoragePages
           /\ \A g \in PurgePlans \cup {None} : [p EXCEPT !.purge = g] \in StoragePages
           /\ \A l \in SUBSET Storage!Held : [p EXCEPT !.list = l] \in StoragePages
           /\ \A s \in Scans : [p EXCEPT !.scan = s] \in StoragePages
           /\ \A a \in Ages : [p EXCEPT !.age = a] \in StoragePages
           /\ \A b \in BOOLEAN : [p EXCEPT !.open = b] \in StoragePages
           /\ \A b \in BOOLEAN : [p EXCEPT !.confirmed = b] \in StoragePages
  <1>1. \A h \in HooksOf(Storage!Drift) : [p EXCEPT !.drift = h] \in StoragePages
    BY DEF StoragePages
  <1>2. \A h \in HooksOf(Folders) : [p EXCEPT !.orphan = h] \in StoragePages
    BY DEF StoragePages
  <1>3. \A h \in HooksOf(Storage!Held) : [p EXCEPT !.drawer = h] \in StoragePages
    BY DEF StoragePages
  <1>4. \A d : \A s \in PerDrift : [p EXCEPT !.per[d] = s] \in StoragePages
    BY DEF StoragePages
  <1>5. /\ \A g \in PurgePlans \cup {None} : [p EXCEPT !.purge = g] \in StoragePages
        /\ \A l \in SUBSET Storage!Held : [p EXCEPT !.list = l] \in StoragePages
        /\ \A s \in Scans : [p EXCEPT !.scan = s] \in StoragePages
    BY DEF StoragePages
  <1>6. /\ \A a \in Ages : [p EXCEPT !.age = a] \in StoragePages
        /\ \A b \in BOOLEAN : [p EXCEPT !.open = b] \in StoragePages
        /\ \A b \in BOOLEAN : [p EXCEPT !.confirmed = b] \in StoragePages
    BY DEF StoragePages
  <1> QED BY <1>1, <1>2, <1>3, <1>4, <1>5, <1>6

LEMMA StorageOperatorTyped ==
    ASSUME StorageTypes, Storage!Operator
    PROVE  StorageTypes'
  <1>0. /\ page \in StoragePages
        /\ page.drift \in HooksOf(Storage!Drift) /\ page.orphan \in HooksOf(Folders)
        /\ page.drawer \in HooksOf(Storage!Held)
        /\ page.age \in Ages /\ page.purge \in PurgePlans \cup {None} /\ page.list \subseteq Storage!Held
    BY DEF StorageTypes, StoragePages
  <1>1. ASSUME NEW S, NEW x \in S \cup {None}
        PROVE  Storage!Planning(x) \in HooksOf(S)
    BY DEF Storage!Planning, HooksOf, Storage!Statuses
  <1>2. ASSUME NEW S, NEW h \in HooksOf(S), NEW s \in Storage!Statuses
        PROVE  [h EXCEPT !.status = s] \in HooksOf(S)
    BY DEF HooksOf
  <1>3. {"planning", "running", "loading", "idle"} \subseteq Storage!Statuses /\ "running" \in PerDrift
    BY DEF Storage!Statuses, PerDrift
  <1>4. ASSUME NEW S, NEW s \in Storage!Statuses
        PROVE  [item |-> None, plan |-> None, status |-> s] \in HooksOf(S)
    BY <1>4 DEF HooksOf
  <1>5. ASSUME NEW d \in Storage!Drift, Storage!HandlePreviewStorageDrift(d)
        PROVE  StorageTypes'
    <2>1. PICK h \in HooksOf(Storage!Drift) : h = Storage!Planning(d)
      BY <1>1
    <2>2. page' = [page EXCEPT !.drift = h, !.per[d] = "running"]
          /\ Storage!Begin("drift", "plan", d, None)
      BY <1>5, <2>1 DEF Storage!HandlePreviewStorageDrift
    <2>3. page' \in StoragePages
      BY <1>0, <1>3, <2>2 DEF StoragePages
    <2>9. Asked("drift", "plan", d, None)
      BY <2>2, <2>3 DEF Asked, ItemsOf
    <2> QED BY <2>2, <2>3, <2>9, StorageBeginTyped
  <1>6. CASE Storage!HandleApplyStorageDriftPreview
    <2>1. PICK h \in HooksOf(Storage!Drift) : h = [page.drift EXCEPT !.status = "running"]
      BY <1>0, <1>2, <1>3
    <2>2. /\ page' = [page EXCEPT !.drift = h, !.per[page.drift.item] = "running"]
          /\ Storage!Begin("drift", "apply", page.drift.item, None)
      BY <1>0, <1>6, <2>1 DEF Storage!HandleApplyStorageDriftPreview, StoragePages
    <2>3. page' \in StoragePages
      BY <1>0, <1>3, <2>2 DEF StoragePages
    <2>4. page.drift.item \in ItemsOf("drift")
      BY <1>0, <1>6 DEF Storage!HandleApplyStorageDriftPreview, Storage!DriftModalOffers, HooksOf, ItemsOf
    <2>9. Asked("drift", "apply", page.drift.item, None)
      BY <2>2, <2>3, <2>4 DEF Asked
    <2> QED BY <2>2, <2>3, <2>9, StorageBeginTyped
  <1>7. CASE Storage!CloseDrift
    <2>1. PICK h \in HooksOf(Storage!Drift) : h = [item |-> None, plan |-> None, status |-> "idle"]
      BY <1>3, <1>4
    <2>2. page' = [page EXCEPT !.drift = h] /\ calls' = calls /\ note' = note
      BY <1>7, <2>1 DEF Storage!CloseDrift
    <2>3. page' \in StoragePages
      BY <1>0, <2>2 DEF StoragePages
    <2> QED BY <2>2, <2>3, StorageShows
  <1>8. ASSUME NEW f \in Folders, Storage!HandlePreviewOrphanQuarantine(f)
        PROVE  StorageTypes'
    <2>1. PICK h \in HooksOf(Folders) : h = Storage!Planning(f)
      BY <1>1
    <2>2. page' = [page EXCEPT !.orphan = h] /\ Storage!Begin("orphan", "plan", f, None)
      BY <1>8, <2>1 DEF Storage!HandlePreviewOrphanQuarantine
    <2>3. page' \in StoragePages
      BY <1>0, <2>2 DEF StoragePages
    <2>9. Asked("orphan", "plan", f, None)
      BY <2>2, <2>3 DEF Asked, ItemsOf
    <2> QED BY <2>2, <2>3, <2>9, StorageBeginTyped
  <1>9. CASE Storage!HandleApplyOrphanQuarantine
    <2>1. PICK h \in HooksOf(Folders) : h = [page.orphan EXCEPT !.status = "running"]
      BY <1>0, <1>2, <1>3
    <2>2. page' = [page EXCEPT !.orphan = h] /\ Storage!Begin("orphan", "apply", page.orphan.item, None)
      BY <1>0, <1>9, <2>1 DEF Storage!HandleApplyOrphanQuarantine, StoragePages
    <2>3. page' \in StoragePages
      BY <1>0, <2>2 DEF StoragePages
    <2>4. page.orphan.item \in ItemsOf("orphan")
      BY <1>0, <1>9 DEF Storage!HandleApplyOrphanQuarantine, Storage!OrphanModalOffers, HooksOf, ItemsOf
    <2>9. Asked("orphan", "apply", page.orphan.item, None)
      BY <2>2, <2>3, <2>4 DEF Asked
    <2> QED BY <2>2, <2>3, <2>9, StorageBeginTyped
  <1>10. CASE Storage!CloseOrphan
    <2>1. PICK h \in HooksOf(Folders) : h = [page.orphan EXCEPT !.item = None]
      <3>1. [page.orphan EXCEPT !.item = None] \in HooksOf(Folders)
        BY <1>0 DEF HooksOf
      <3> QED BY <3>1
    <2>2. page' = [page EXCEPT !.orphan = h] /\ calls' = calls /\ note' = note
      BY <1>0, <1>10, <2>1 DEF Storage!CloseOrphan, StoragePages
    <2>3. page' \in StoragePages
      BY <1>0, <2>2 DEF StoragePages
    <2> QED BY <2>2, <2>3, StorageShows
  <1>11. CASE Storage!HandleOpenStorageQuarantine
    <2>1. PICK h \in HooksOf(Storage!Held) : h = [item |-> None, plan |-> None, status |-> "loading"]
      BY <1>3, <1>4
    <2>2. /\ page' = [page EXCEPT !.open = TRUE, !.purge = None, !.drawer = h]
          /\ Storage!Begin("drawer", "list", None, None)
      BY <1>11, <2>1 DEF Storage!HandleOpenStorageQuarantine
    <2>3. page' \in StoragePages
      BY <1>0, <2>2 DEF StoragePages
    <2>9. Asked("drawer", "list", None, None)
      BY <2>2, <2>3 DEF Asked
    <2> QED BY <2>2, <2>3, <2>9, StorageBeginTyped
  <1>12. ASSUME NEW f \in page.list, Storage!HandlePreviewStorageQuarantineRestore(f)
         PROVE  StorageTypes'
    <2>1. PICK h \in HooksOf(Storage!Held) : h = Storage!Planning(f)
      BY <1>0, <1>1
    <2>2. page' = [page EXCEPT !.drawer = h, !.purge = None] /\ Storage!Begin("drawer", "plan", f, None)
      BY <1>12, <2>1 DEF Storage!HandlePreviewStorageQuarantineRestore
    <2>3. page' \in StoragePages
      BY <1>0, <2>2 DEF StoragePages
    <2>4. f \in ItemsOf("drawer")
      BY <1>0 DEF ItemsOf
    <2>9. Asked("drawer", "plan", f, None)
      BY <2>2, <2>3, <2>4 DEF Asked
    <2> QED BY <2>2, <2>3, <2>9, StorageBeginTyped
  <1>13. CASE Storage!HandleApplyStorageQuarantineRestore
    <2>1. PICK h \in HooksOf(Storage!Held) : h = [page.drawer EXCEPT !.status = "running"]
      BY <1>0, <1>2, <1>3
    <2>2. page' = [page EXCEPT !.drawer = h] /\ Storage!Begin("drawer", "apply", page.drawer.item, None)
      BY <1>0, <1>13, <2>1 DEF Storage!HandleApplyStorageQuarantineRestore, StoragePages
    <2>3. page' \in StoragePages
      BY <1>0, <2>2 DEF StoragePages
    <2>4. Storage!MayApply("drawer")
      BY <1>13 DEF Storage!HandleApplyStorageQuarantineRestore, Storage!DrawerOffers
    <2>5. page.drawer.item \in ItemsOf("drawer")
      BY <1>0, <2>4 DEF Storage!MayApply, HooksOf, ItemsOf
    <2>9. Asked("drawer", "apply", page.drawer.item, None)
      BY <2>2, <2>3, <2>5 DEF Asked
    <2> QED BY <2>2, <2>3, <2>9, StorageBeginTyped
  <1>14. ASSUME NEW a \in Ages, Storage!EditPurgeAge(a)
         PROVE  StorageTypes'
    <2>1. page' = [page EXCEPT !.age = a, !.purge = None] /\ calls' = calls /\ note' = note
      BY <1>14 DEF Storage!EditPurgeAge
    <2>2. page' \in StoragePages
      BY <1>0, <2>1 DEF StoragePages
    <2> QED BY <2>1, <2>2, StorageShows
  <1>15. CASE Storage!TypeConfirmation
    <2>1. PICK b \in BOOLEAN : b = ~page.confirmed
      OBVIOUS
    <2>2. page' = [page EXCEPT !.confirmed = b] /\ calls' = calls /\ note' = note
      BY <1>0, <1>15, <2>1 DEF Storage!TypeConfirmation, StoragePages
    <2>3. page' \in StoragePages
      BY <1>0, <2>2 DEF StoragePages
    <2> QED BY <2>2, <2>3, StorageShows
  <1>16. CASE Storage!HandlePreviewStorageQuarantinePurge
    <2>1. PICK h \in HooksOf(Storage!Held) : h = Storage!Planning(None)
      BY <1>1
    <2>2. /\ page' = [page EXCEPT !.drawer = h, !.purge = None]
          /\ Storage!Begin("purge", "plan", None, page.age)
      BY <1>16, <2>1 DEF Storage!HandlePreviewStorageQuarantinePurge
    <2>3. page' \in StoragePages
      BY <1>0, <2>2 DEF StoragePages
    <2>9. Asked("purge", "plan", None, page.age)
      BY <1>0, <2>2, <2>3 DEF Asked
    <2> QED BY <2>2, <2>3, <2>9, StorageBeginTyped
  <1>17. CASE Storage!HandleApplyStorageQuarantinePurge
    <2>1. PICK h \in HooksOf(Storage!Held) : h = [page.drawer EXCEPT !.status = "running"]
      BY <1>0, <1>2, <1>3
    <2>2. /\ page' = [page EXCEPT !.drawer = h]
          /\ Storage!Begin("purge", "apply", page.purge, page.purge.age)
      BY <1>0, <1>17, <2>1 DEF Storage!HandleApplyStorageQuarantinePurge, StoragePages, Storage!PurgeAge
    <2>3. page' \in StoragePages
      BY <1>0, <2>2 DEF StoragePages
    <2>4. page.purge \in PurgePlans
      BY <1>0, <1>17 DEF Storage!HandleApplyStorageQuarantinePurge, Storage!DrawerOffers
    <2>5. page.purge.age \in Ages
      BY <2>4 DEF PurgePlans
    <2>9. Asked("purge", "apply", page.purge, page.purge.age)
      BY <2>2, <2>3, <2>4, <2>5 DEF Asked
    <2> QED BY <2>2, <2>3, <2>9, StorageBeginTyped
  <1>18. CASE Storage!CloseDrawer
    <2>1. PICK h \in HooksOf(Storage!Held) : h = [page.drawer EXCEPT !.item = None, !.plan = None]
      <3>1. [page.drawer EXCEPT !.item = None, !.plan = None] \in HooksOf(Storage!Held)
        BY <1>0 DEF HooksOf
      <3> QED BY <3>1
    <2>2. /\ page' = [page EXCEPT !.open = FALSE, !.purge = None, !.drawer = h]
          /\ calls' = calls /\ note' = note
      BY <1>0, <1>18, <2>1 DEF Storage!CloseDrawer, StoragePages
    <2>3. page' \in StoragePages
      BY <1>0, <2>2 DEF StoragePages
    <2> QED BY <2>2, <2>3, StorageShows
  <1> QED
    BY <1>5, <1>6, <1>7, <1>8, <1>9, <1>10, <1>11, <1>12, <1>13, <1>14, <1>15, <1>16, <1>17, <1>18
       DEF Storage!Operator

LEMMA FlowShown ==
    ASSUME page \in StoragePages, NEW S, NEW h \in HooksOf(S), NEW g \in PlansOf(S),
           NEW s \in Storage!Statuses
    PROVE  /\ [h EXCEPT !.plan = g, !.status = s] \in HooksOf(S)
           /\ [h EXCEPT !.status = s] \in HooksOf(S)
  BY DEF HooksOf

LEMMA AreaShownTyped ==
    ASSUME page \in StoragePages, NEW c, StorageTyped(c), NEW g, NEW s \in Storage!Statuses,
           c.flow = "purge" => g \in PurgePlans,
           c.flow # "purge" => g \in PlansOf(ItemsOf(c.flow)), c.at # "list", NEW q, q = Storage!Shown(c, g, s)
    PROVE  q \in StoragePages
  <1>0. /\ page.drift \in HooksOf(Storage!Drift) /\ page.orphan \in HooksOf(Folders)
        /\ page.drawer \in HooksOf(Storage!Held)
    BY DEF StoragePages
  <1>1. CASE c.flow = "purge"
    <2>1. PICK h \in HooksOf(Storage!Held) : h = [page.drawer EXCEPT !.status = s]
      <3>1. [page.drawer EXCEPT !.status = s] \in HooksOf(Storage!Held)
        BY <1>0 DEF HooksOf
      <3> QED BY <3>1
    <2>2. q = [page EXCEPT !.purge = g, !.drawer = h]
      BY <1>1, <2>1 DEF Storage!Shown, StoragePages
    <2>3. [page EXCEPT !.purge = g, !.drawer = h] \in StoragePages
      BY <1>1 DEF StoragePages
    <2> QED BY <2>2, <2>3
  <1>2. CASE c.flow = "drift"
    <2>1. PICK h \in HooksOf(Storage!Drift) : h = [page.drift EXCEPT !.plan = g, !.status = s]
      BY <1>0, <1>2, FlowShown DEF ItemsOf
    <2>2. PICK e \in PerDrift : e = IF s = "idle" THEN "idle" ELSE "error"
      BY DEF PerDrift
    <2>3. q = [page EXCEPT !.drift = h, !.per[c.item] = e]
      BY <1>2, <2>1, <2>2 DEF Storage!Shown, StoragePages
    <2>4. [page EXCEPT !.drift = h, !.per[c.item] = e] \in StoragePages
      BY DEF StoragePages
    <2> QED BY <2>3, <2>4
  <1>3. CASE c.flow = "orphan"
    <2>1. PICK h \in HooksOf(Folders) : h = [page.orphan EXCEPT !.plan = g, !.status = s]
      BY <1>0, <1>3, FlowShown DEF ItemsOf
    <2>2. q = [page EXCEPT !.orphan = h]
      BY <1>3, <2>1 DEF Storage!Shown, StoragePages
    <2>3. [page EXCEPT !.orphan = h] \in StoragePages
      BY DEF StoragePages
    <2> QED BY <2>2, <2>3
  <1>4. CASE c.flow = "drawer"
    <2>1. PICK h \in HooksOf(Storage!Held) : h = [page.drawer EXCEPT !.plan = g, !.status = s]
      BY <1>0, <1>4, FlowShown DEF ItemsOf
    <2>2. q = [page EXCEPT !.drawer = h]
      BY <1>4, <2>1 DEF Storage!Shown, StoragePages
    <2>3. [page EXCEPT !.drawer = h] \in StoragePages
      BY DEF StoragePages
    <2> QED BY <2>2, <2>3
  <1> QED BY <1>1, <1>2, <1>3, <1>4 DEF StorageTyped

LEMMA StorageServedTyped ==
    ASSUME StorageTypes, DiskInv, NEW c \in calls,
           Storage!PlanServed(c) \/ Storage!ApplyServed(c) \/ Storage!FollowUp(c)
    PROVE  StorageTypes'
  <1>0. StorageTyped(c) /\ page \in StoragePages
        /\ \A p \in note : p.file \in Storage!Held /\ p.shown \in Ages
    BY DEF StorageTypes
  <1>1. CASE Storage!PlanServed(c)
    <2>1. PICK r : r = Storage!Result(c)
      OBVIOUS
    <2>2. PICK d : d = [c EXCEPT !.at = "planned", !.got = r]
      OBVIOUS
    <2>3. /\ DOMAIN d = StorageFields /\ d.slot = c.slot /\ d.flow = c.flow /\ d.item = c.item
          /\ d.age = c.age /\ d.at = "planned" /\ d.got = r
      BY <1>0, <2>2 DEF StorageTyped, StorageFields
    <2>4. Storage!GoesOn(c, d) /\ page' = page /\ note' = note /\ c.at = "plan"
      BY <1>1, <2>1, <2>2 DEF Storage!PlanServed
    <2>5. StorageTyped(d)
      BY <1>0, <2>1, <2>3, <2>4, ResultTyped DEF StorageTyped
    <2> QED BY <1>0, <2>3, <2>4, <2>5, StorageMoves
  <1>2. CASE Storage!ApplyServed(c)
    <2>1. PICK r : r = Storage!Result(c)
      OBVIOUS
    <2>2. PICK d : d = [c EXCEPT !.at = "follow", !.got = r, !.applied = server' # server]
                   /\ Storage!GoesOn(c, d)
      BY <1>2, <2>1 DEF Storage!ApplyServed
    <2>3. /\ DOMAIN d = StorageFields /\ d.slot = c.slot /\ d.flow = c.flow /\ d.item = c.item
          /\ d.age = c.age /\ d.at = "follow" /\ d.got = r
      BY <1>0, <2>2 DEF StorageTyped, StorageFields
    <2>4. page' = page /\ c.at = "apply"
      BY <1>2 DEF Storage!ApplyServed
    <2>5. StorageTyped(d)
      BY <1>0, <2>1, <2>3, <2>4, ResultTyped DEF StorageTyped
    <2>6. \A p \in note' : p.file \in Storage!Held /\ p.shown \in Ages
      <3>1. CASE c.flow = "purge"
        <4>1. note' = note \cup {[file |-> h, shown |-> c.item.age] : h \in Storage!OldEnough(c.age)}
          BY <1>2, <3>1 DEF Storage!ApplyServed
        <4>2. c.item.age \in Ages
          BY <1>0, <2>4, <3>1 DEF StorageTyped, PurgePlans
        <4> QED BY <1>0, <4>1, <4>2, OldEnoughTyped
      <3>2. CASE c.flow # "purge"
        BY <1>0, <1>2, <3>2 DEF Storage!ApplyServed
      <3> QED BY <3>1, <3>2
    <2>7. Storage!GoesOn(c, d) /\ page' \in StoragePages
      BY <1>0, <2>2, <2>4
    <2> QED BY <2>3, <2>5, <2>6, <2>7, StorageMoves
  <1>3. CASE Storage!FollowUp(c)
    <2>1. PICK s \in Scans : s = Storage!Scan
      BY ScanTyped
    <2>2. PICK d : d = [c EXCEPT !.at = "applied", !.scan = s]
      OBVIOUS
    <2>3. /\ DOMAIN d = StorageFields /\ d.slot = c.slot /\ d.flow = c.flow /\ d.item = c.item
          /\ d.age = c.age /\ d.at = "applied" /\ d.got = c.got /\ d.scan = s
      BY <1>0, <2>2 DEF StorageTyped, StorageFields
    <2>4. Storage!GoesOn(c, d) /\ note' = note /\ c.at = "follow"
      BY <1>3, <2>1, <2>2 DEF Storage!FollowUp
    <2>5. StorageTyped(d)
      BY <1>0, <2>3, <2>4 DEF StorageTyped
    <2>6. page' \in StoragePages
      BY <1>0, <1>3, ScanTyped DEF Storage!FollowUp, StoragePages
    <2> QED BY <1>0, <2>3, <2>4, <2>5, <2>6, StorageMoves
  <1> QED BY <1>1, <1>2, <1>3

LEMMA StorageAppliedTyped ==
    ASSUME StorageTypes, NEW c \in calls, Storage!ApplyAnswered(c)
    PROVE  StorageTypes'
  <1>0. StorageTyped(c) /\ page \in StoragePages /\ c.at = "applied" /\ note' = note
        /\ \A p \in note : p.file \in Storage!Held /\ p.shown \in Ages
    BY DEF StorageTypes, Storage!ApplyAnswered
  <1>1. PICK s \in Storage!Statuses : s = IF c.applied \/ c.flow = "purge" THEN "done" ELSE "error"
    BY DEF Storage!Statuses
  <1>2. PICK q \in StoragePages : q = Storage!Shown(c, c.got, s)
    <2>1. /\ c.flow = "purge" => c.got \in PurgePlans
          /\ c.flow # "purge" => c.got \in PlansOf(ItemsOf(c.flow))
      BY <1>0 DEF StorageTyped
    <2> QED BY <1>0, <2>1, AreaShownTyped
  <1>3. PICK p \in StoragePages : p = [q EXCEPT !.scan = c.scan]
    <2>1. c.scan \in Scans
      BY <1>0 DEF StorageTyped
    <2>2. [q EXCEPT !.scan = c.scan] \in StoragePages
      BY <2>1 DEF StoragePages
    <2> QED BY <2>2
  <1>4. page' = CASE c.flow = "purge" -> [p EXCEPT !.confirmed = FALSE, !.drawer.item = None,
                                                    !.drawer.plan = None]
                  [] c.flow = "drift" -> [p EXCEPT !.per[c.item] = "done"]
                  [] OTHER -> p
    BY <1>1, <1>2, <1>3 DEF Storage!ApplyAnswered
  <1>5. page' \in StoragePages
    <2>1. PICK h \in HooksOf(Storage!Held) : h = [p.drawer EXCEPT !.item = None, !.plan = None]
      <3>1. [p.drawer EXCEPT !.item = None, !.plan = None] \in HooksOf(Storage!Held)
        BY DEF StoragePages, HooksOf
      <3> QED BY <3>1
    <2>2. [p EXCEPT !.confirmed = FALSE, !.drawer = h] \in StoragePages
      BY DEF StoragePages
    <2>3. [p EXCEPT !.confirmed = FALSE, !.drawer = h]
          = [p EXCEPT !.confirmed = FALSE, !.drawer.item = None, !.drawer.plan = None]
      BY <2>1 DEF StoragePages
    <2>4. [p EXCEPT !.per[c.item] = "done"] \in StoragePages
      BY DEF StoragePages, PerDrift
    <2> QED BY <1>4, <2>2, <2>3, <2>4
  <1>6. CASE Storage!Ends(c)
    BY <1>0, <1>5, <1>6, StorageEnds
  <1>7. CASE c.applied /\ c.flow # "purge"
    <2>1. PICK d : d = [c EXCEPT !.at = "timer", !.got = None, !.scan = None]
      OBVIOUS
    <2>2. /\ DOMAIN d = StorageFields /\ d.slot = c.slot /\ d.flow = c.flow /\ d.item = c.item
          /\ d.age = c.age /\ d.at = "timer"
      BY <1>0, <2>1 DEF StorageTyped, StorageFields
    <2>3. Storage!GoesOn(c, d)
      BY <1>7, <2>1 DEF Storage!ApplyAnswered
    <2>4. StorageTyped(d)
      BY <1>0, <1>7, <2>2 DEF StorageTyped
    <2> QED BY <1>0, <1>5, <2>2, <2>3, <2>4, StorageMoves
  <1> QED BY <1>6, <1>7 DEF Storage!ApplyAnswered

LEMMA StorageAnsweredTyped ==
    ASSUME StorageTypes, DiskInv, NEW c \in calls,
           \/ Storage!PlanAnswered(c) \/ Storage!TimerFires(c) \/ Storage!ListAnswered(c) \/ Storage!Fails(c)
    PROVE  StorageTypes'
  <1>0. /\ StorageTyped(c) /\ page \in StoragePages /\ Storage!Ends(c) /\ note' = note
        /\ page.drift \in HooksOf(Storage!Drift) /\ page.orphan \in HooksOf(Folders)
        /\ page.drawer \in HooksOf(Storage!Held)
        /\ c.flow \in {"drift", "orphan", "drawer", "purge"}
    BY DEF StorageTypes, StoragePages, StorageTyped, Storage!PlanAnswered, Storage!TimerFires,
           Storage!ListAnswered, Storage!Fails
  <1>1. CASE Storage!PlanAnswered(c)
    <2>1. PICK s \in Storage!Statuses : s = IF c.got.ok THEN "idle" ELSE "error"
      BY DEF Storage!Statuses
    <2>2. c.at = "planned" /\ page' = Storage!Shown(c, c.got, s)
      BY <1>1, <2>1 DEF Storage!PlanAnswered
    <2>3. /\ c.flow = "purge" => c.got \in PurgePlans
          /\ c.flow # "purge" => c.got \in PlansOf(ItemsOf(c.flow))
      BY <1>0, <2>2 DEF StorageTyped
    <2>4. page' \in StoragePages
      BY <1>0, <2>2, <2>3, AreaShownTyped
    <2> QED BY <1>0, <2>4, StorageEnds
  <1>2. CASE Storage!TimerFires(c)
    <2>1. c.flow \in {"drift", "orphan", "drawer"}
      BY <1>0, <1>2 DEF StorageTyped, Storage!TimerFires
    <2>2. ASSUME NEW S PROVE [item |-> None, plan |-> None, status |-> "idle"] \in HooksOf(S)
      BY DEF HooksOf, Storage!Statuses
    <2>3. PICK h : /\ h = [item |-> None, plan |-> None, status |-> "idle"]
                   /\ h \in HooksOf(Storage!Drift) /\ h \in HooksOf(Folders) /\ h \in HooksOf(Storage!Held)
      BY <2>2
    <2>4. PICK p : p = [page EXCEPT ![c.flow] = h]
      OBVIOUS
    <2>5. p \in StoragePages
      <3>1. CASE c.flow = "drift"
        BY <1>0, <2>3, <2>4, <3>1 DEF StoragePages
      <3>2. CASE c.flow = "orphan"
        BY <1>0, <2>3, <2>4, <3>2 DEF StoragePages
      <3>3. CASE c.flow = "drawer"
        BY <1>0, <2>3, <2>4, <3>3 DEF StoragePages
      <3> QED BY <2>1, <3>1, <3>2, <3>3
    <2>6. page' = IF c.flow = "drift" THEN [p EXCEPT !.per[c.item] = "idle"] ELSE p
      BY <1>2, <2>3, <2>4 DEF Storage!TimerFires
    <2>7. [p EXCEPT !.per[c.item] = "idle"] \in StoragePages
      BY <2>5 DEF StoragePages, PerDrift
    <2>8. page' \in StoragePages
      BY <2>5, <2>6, <2>7
    <2> QED BY <1>0, <2>8, StorageEnds
  <1>3. CASE Storage!ListAnswered(c)
    <2>1. PICK h \in HooksOf(Storage!Held) : h = [page.drawer EXCEPT !.status = "idle"]
      <3>1. [page.drawer EXCEPT !.status = "idle"] \in HooksOf(Storage!Held)
        BY <1>0 DEF HooksOf, Storage!Statuses
      <3> QED BY <3>1
    <2>2. page' = [page EXCEPT !.list = Storage!There(server.held), !.drawer = h]
      BY <1>0, <1>3, <2>1 DEF Storage!ListAnswered, StoragePages
    <2>3. page' \in StoragePages
      BY <1>0, <2>2, ScanTyped DEF StoragePages
    <2> QED BY <1>0, <2>3, StorageEnds
  <1>4. CASE Storage!Fails(c)
    <2>1. ASSUME NEW S, NEW h \in HooksOf(S) PROVE [h EXCEPT !.status = "error"] \in HooksOf(S)
      BY DEF HooksOf, Storage!Statuses
    <2>2. PICK f, g, h : /\ f = [page.drift EXCEPT !.status = "error"] /\ f \in HooksOf(Storage!Drift)
                         /\ g = [page.orphan EXCEPT !.status = "error"] /\ g \in HooksOf(Folders)
                         /\ h = [page.drawer EXCEPT !.status = "error"] /\ h \in HooksOf(Storage!Held)
      BY <1>0, <2>1
    <2>3. \/ page' = [page EXCEPT !.drift = f, !.per[c.item] = "error"]
          \/ page' = [page EXCEPT !.orphan = g]
          \/ page' = [page EXCEPT !.drawer = h]
      <3>1. CASE c.flow = "drift"
        BY <1>0, <1>4, <2>2, <3>1 DEF Storage!Fails, StoragePages
      <3>2. CASE c.flow = "orphan"
        BY <1>0, <1>4, <2>2, <3>2 DEF Storage!Fails, StoragePages, Storage!Hooks
      <3>3. CASE c.flow \in {"drawer", "purge"}
        BY <1>0, <1>4, <2>2, <3>3 DEF Storage!Fails, StoragePages, Storage!Hooks
      <3> QED BY <1>0, <3>1, <3>2, <3>3
    <2>4. /\ [page EXCEPT !.drift = f, !.per[c.item] = "error"] \in StoragePages
          /\ [page EXCEPT !.orphan = g] \in StoragePages
          /\ [page EXCEPT !.drawer = h] \in StoragePages
      BY <1>0, <2>2 DEF StoragePages, PerDrift
    <2>5. page' \in StoragePages
      BY <2>3, <2>4
    <2> QED BY <1>0, <2>5, StorageEnds
  <1> QED BY <1>1, <1>2, <1>3, <1>4

LEMMA StorageTypesStep ==
    ASSUME StorageTypes, DiskInv, [Storage!Next]_(Storage!vars)
    PROVE  StorageTypes'
  <1>1. CASE Storage!Operator
    BY <1>1, StorageOperatorTyped
  <1>2. CASE Storage!Folder \/ UNCHANGED Storage!vars
    <2>1. UNCHANGED <<page, calls, note>>
      BY <1>2 DEF Storage!Folder, Storage!SidecarWritten, Storage!MediaWritten,
                  Storage!MountToggles, Storage!DayPasses, Storage!Outside, Storage!vars
    <2> QED BY <2>1 DEF StorageTypes
  <1>3. CASE Storage!ScanLoaded
    <2>1. page \in StoragePages
      BY DEF StorageTypes
    <2>2. page' \in StoragePages /\ calls' = calls /\ note' = note
      BY <1>3, <2>1, ScanTyped DEF Storage!ScanLoaded, StoragePages
    <2> QED BY <2>2, StorageShows
  <1>4. CASE \E c \in calls : \/ Storage!PlanServed(c) \/ Storage!PlanAnswered(c)
                             \/ Storage!ApplyServed(c) \/ Storage!FollowUp(c)
                             \/ Storage!ApplyAnswered(c) \/ Storage!TimerFires(c)
                             \/ Storage!ListAnswered(c) \/ Storage!Fails(c)
    BY <1>4, StorageServedTyped, StorageAppliedTyped, StorageAnsweredTyped
  <1> QED BY <1>1, <1>2, <1>3, <1>4 DEF Storage!Next

LEMMA StorageTypesInit ==
    ASSUME Storage!Init, DiskInv
    PROVE  StorageTypes
  <1>1. PICK h, per, s : /\ h = [item |-> None, plan |-> None, status |-> "idle"]
                         /\ per = [d \in Storage!Drift |-> "idle"] /\ s = Storage!Scan
    OBVIOUS
  <1>2. page = [drift |-> h, orphan |-> h, drawer |-> h, per |-> per, scan |-> s, list |-> {},
                open |-> FALSE, purge |-> None, age |-> Storage!OldestAge, confirmed |-> FALSE]
    BY <1>1 DEF Storage!Init
  <1>3. h \in HooksOf(Storage!Drift) /\ h \in HooksOf(Folders) /\ h \in HooksOf(Storage!Held)
    BY <1>1 DEF HooksOf, Storage!Statuses
  <1>4. per \in [Storage!Drift -> PerDrift] /\ s \in Scans
    BY <1>1, ScanTyped DEF PerDrift
  <1>5. page \in StoragePages
    BY <1>2, <1>3, <1>4, Bounds DEF StoragePages
  <1>6. calls = {} /\ note = {}
    BY DEF Storage!Init
  <1> QED BY <1>5, <1>6 DEF StorageTypes, SlotsOwn

LEMMA StorageTypesOK ==
    ASSUME StorageTypes, DiskInv
    PROVE  Storage!TypeOK
  <1>1. Storage!Cardinality(calls) <= MaxCalls
    <2>1. Storage!Cardinality(calls) = Cardinality(calls)
      BY Zenon DEF Storage!Cardinality, Cardinality
    <2> QED BY <2>1, SlotsBound DEF StorageTypes
  <1>2. /\ page.drift \in HooksOf(Storage!Drift) /\ page.orphan \in HooksOf(Folders)
        /\ page.drawer \in HooksOf(Storage!Held) /\ page.age \in Ages /\ page.scan \in Scans
        /\ page.list \subseteq Storage!Held /\ page.open \in BOOLEAN /\ page.confirmed \in BOOLEAN
    BY DEF StorageTypes, StoragePages
  <1>3. \A f \in Storage!Flows : page[f].status \in Storage!Statuses
    BY <1>2 DEF Storage!Flows, HooksOf
  <1>4. /\ page.drift.item \in Storage!Drift \cup {None} /\ page.orphan.item \in Folders \cup {None}
        /\ page.drawer.item \in Storage!Held \cup {None}
        /\ page.scan.orphans \subseteq Folders /\ page.scan.drift \subseteq Storage!Drift
    BY <1>2 DEF HooksOf, Scans
  <1> QED BY <1>1, <1>2, <1>3, <1>4 DEF StorageTypes, DiskInv, Storage!TypeOK

(***************************************************************************)
(* The saved videos                                                        *)
(***************************************************************************)

-----------------------------------------------------------------------------
(* The saved videos: the types, and what ties the page to the server.      *)

\* No two views of one name.
NamesOnce(V) == \A i, k \in DOMAIN V : V[i].name = V[k].name => i = k

IdsOnce(V) == \A i, k \in DOMAIN V : V[i].id = V[k].id => i = k

\* A is the beginning of B.
Begins(A, B) == Len(A) <= Len(B) /\ \A i \in 1..Len(A) : A[i] = B[i]

\* What the database keeps of the views.
LibraryServer ==
    {s \in [views : Seq(Library!View), next : Nat \ {0}] :
        /\ \A i \in DOMAIN s.views : s.views[i].id \in 1..(s.next - 1)
        /\ NamesOnce(s.views) /\ IdsOnce(s.views)}

LibraryPage ==
    [views : Seq(Library!View), active : Int \cup {None}, choice : Selections,
     draft : Names \cup {None}, import : {"idle", "importing", "done", "error"},
     item : Items \cup {None}, files : Items \cup {None}, detail : {"idle", "loading", "error"},
     here : BOOLEAN, late : BOOLEAN, alone : BOOLEAN]

LibraryFields == {"slot", "op", "at", "sent", "got", "alone", "kept", "gone"}

\* A request carries what its operation needs, an answer what the page then shows.
LibraryRequest(c) ==
    /\ DOMAIN c = LibraryFields
    /\ {c.alone, c.kept, c.gone} \subseteq BOOLEAN
    /\ c.op \in {"save", "delete", "import", "load", "detail"}
    /\ c.at \in {"sent", "answer", "timer"} /\ (c.at = "timer" => c.op = "import")
    /\ c.op = "save" => c.sent \in Library!View
    /\ c.op = "delete" => c.sent \in Nat \ {0}
    /\ c.op = "import" => c.sent \in Bundles
    /\ c.op = "detail" => c.sent \in Items

LibraryAnswer(c) ==
    c.at = "answer" =>
       IF c.op = "detail" THEN c.got = c.sent
       ELSE /\ c.got \in Seq(Library!View) /\ NamesOnce(c.got)
            /\ c.op = "save" => /\ Len(c.got) # 0
                                /\ c.got[1].name = c.sent.name
                                /\ c.got[1].choice = Strip[c.sent.choice]

LibraryTypes ==
    /\ server \in LibraryServer
    /\ page \in LibraryPage /\ NamesOnce(page.views)
    /\ \A c \in calls : LibraryRequest(c) /\ LibraryAnswer(c)
    /\ note \in BOOLEAN
    /\ left \in [calls : Nat, edits : Nat, outside : Nat]

\* Under way, and about to change the views.
Changes(c) == c.op \in {"save", "delete", "import"} /\ c.at # "timer"

\* The view marked active has the filters that are applied.
ActiveFits(p) ==
    ~p.late => \A i \in DOMAIN p.views :
                  p.views[i].id = p.active => Strip[p.views[i].choice] = Strip[p.choice]

\* A save under way: beside the saved name, the page has what the server has.
SaveFits(c) ==
    /\ Begins(Library!Without(page.views, c.sent.name), Library!Without(server.views, c.sent.name))
    /\ c.at = "answer" => Len(server.views) # 0 /\ server.views[1].name = c.sent.name

DeleteFits(c) ==
    /\ Begins(page.views, Library!WithoutId(server.views, c.sent))
    /\ c.at = "answer" => \A i \in DOMAIN server.views : server.views[i].id # c.sent
    /\ ActiveFits(page)

\* A request that has had the page to itself is the only one, and has the answer that
\* the server would give now.
AloneIsSo ==
    \A c \in calls : c.alone => /\ calls = {c}
                                /\ c.at = "answer" /\ c.op # "detail" => c.got = server.views

\* A request of a page that was reloaded is not answered.
GoneIsSent == \A c \in calls : c.gone => c.at = "sent"

\* A save the filters were not changed since.
KeptIsSo == \A c \in calls : c.op = "save" /\ c.kept /\ ~c.gone => page.choice = c.sent.choice

FirmIsSo ==
    note => /\ \A c \in calls : ~c.gone
            /\ (\A c \in calls : ~Changes(c)) => Begins(page.views, server.views) /\ ActiveFits(page)
            /\ \A c \in calls : c.alone /\ Changes(c) =>
                  (c.op = "save" => SaveFits(c)) /\ (c.op = "delete" => DeleteFits(c))

\* The drawer's files, where no other video's were on the way.
FilesFit ==
    (page.item # None /\ page.alone) =>
       /\ \A c \in calls : c.op = "detail" => c.sent = page.item
       /\ page.detail = "idle" => page.files = page.item

ViewsInv == AloneIsSo /\ GoneIsSent /\ KeptIsSo /\ FirmIsSo /\ FilesFit

-----------------------------------------------------------------------------
(* Filters.  Where names, or numbers, are distinct a filter drops one view *)
(* at most, and the rest keeps its order.                                  *)

LEMMA FilterPlaces ==
    ASSUME NEW V, NEW I
    PROVE  Library!Filter(V, I) =
              [k \in 1..Cardinality(I) |-> V[CHOOSE i \in I : Cardinality({j \in I : j <= i}) = k]]
  BY Zenon DEF Library!Filter, Library!Cardinality, Cardinality

LEMMA UpTo ==
    ASSUME NEW n \in Nat
    PROVE  /\ IsFiniteSet(1..n) /\ Cardinality(1..n) = n
           /\ \A i \in 1..n : Cardinality({j \in 1..n : j <= i}) = i
           /\ \A k \in 1..n : Cardinality((1..n) \ {k}) = n - 1
  <1>1. \A i \in 1..n : {j \in 1..n : j <= i} = 1..i
    OBVIOUS
  <1>2. \A m \in Nat : IsFiniteSet(1..m) /\ Cardinality(1..m) = m
    BY FS_Interval
  <1>3. \A k \in 1..n : Cardinality((1..n) \ {k}) = n - 1
    BY <1>2, FS_RemoveElement
  <1>4. ASSUME NEW i \in 1..n
        PROVE  Cardinality({j \in 1..n : j <= i}) = i
    <2>1. {j \in 1..n : j <= i} = 1..i /\ i \in Nat
      OBVIOUS
    <2>2. Cardinality(1..i) = i
      BY <1>2, <2>1
    <2> QED BY Zenon, <2>1, <2>2
  <1> QED BY <1>2, <1>3, <1>4

LEMMA UpToBut ==
    ASSUME NEW n \in Nat, NEW k \in 1..n, NEW i \in (1..n) \ {k}
    PROVE  Cardinality({j \in (1..n) \ {k} : j <= i}) = IF i < k THEN i ELSE i - 1
  <1> DEFINE U == {j \in (1..n) \ {k} : j <= i}
  <1>1. ASSUME i < k
        PROVE  Cardinality(U) = i
    <2>1. U = 1..i /\ i \in Nat
      BY <1>1
    <2>2. Cardinality(1..i) = i
      BY <2>1, UpTo
    <2> QED BY Zenon, <2>1, <2>2
  <1>2. ASSUME k < i
        PROVE  Cardinality(U) = i - 1
    <2>1. U = (1..i) \ {k} /\ k \in 1..i /\ i \in Nat
      BY <1>2
    <2>2. Cardinality((1..i) \ {k}) = i - 1
      BY <2>1, UpTo
    <2> QED BY Zenon, <2>1, <2>2
  <1>3. i < k \/ (k < i /\ ~(i < k))
    OBVIOUS
  <1> HIDE DEF U
  <1>4. Cardinality(U) = IF i < k THEN i ELSE i - 1
    BY <1>1, <1>2, <1>3
  <1> QED BY Zenon, <1>4 DEF U

LEMMA FilterAll ==
    ASSUME NEW S, NEW V \in Seq(S)
    PROVE  Library!Filter(V, DOMAIN V) = V
  <1> DEFINE n == Len(V)
             Up(i) == {j \in 1..n : j <= i}
             Place(k) == CHOOSE i \in 1..n : Cardinality(Up(i)) = k
  <1>1. n \in Nat /\ DOMAIN V = 1..n /\ V = [k \in 1..n |-> V[k]]
    OBVIOUS
  <1>2. Cardinality(1..n) = n
    BY <1>1, FS_Interval
  <1>3. \A i \in 1..n : Cardinality(Up(i)) = i
    BY <1>1, UpTo
  <1>4. \A k \in 1..n : Place(k) = k
    <2> HIDE DEF Up
    <2> QED BY <1>3
  <1>5. Library!Filter(V, 1..n) = [k \in 1..Cardinality(1..n) |-> V[Place(k)]]
    BY Zenon, FilterPlaces
  <1> HIDE DEF Place
  <1> QED BY <1>1, <1>2, <1>4, <1>5

\* W is V without its place k.
Drops(V, W, k) ==
    /\ Len(W) = Len(V) - 1
    /\ \A i \in 1..Len(W) : W[i] = IF i < k THEN V[i] ELSE V[i + 1]

LEMMA FilterBut ==
    ASSUME NEW S, NEW V \in Seq(S), NEW k \in DOMAIN V
    PROVE  /\ Library!Filter(V, DOMAIN V \ {k}) \in Seq(S)
           /\ Drops(V, Library!Filter(V, DOMAIN V \ {k}), k)
  <1> DEFINE n == Len(V)
             I == (1..n) \ {k}
             Up(i) == {j \in I : j <= i}
             Place(r) == CHOOSE i \in I : Cardinality(Up(i)) = r
             W == Library!Filter(V, DOMAIN V \ {k})
  <1>1. n \in Nat /\ DOMAIN V = 1..n /\ \A i \in 1..n : V[i] \in S
    OBVIOUS
  <1>2. Cardinality(I) = n - 1 /\ n - 1 \in Nat
    <2>1. k \in 1..n /\ n - 1 \in Nat
      BY <1>1
    <2> QED BY <1>1, <2>1, UpTo
  <1>3. \A i \in I : Cardinality(Up(i)) = IF i < k THEN i ELSE i - 1
    <2>1. n \in Nat /\ k \in 1..n
      BY <1>1
    <2> HIDE DEF n
    <2> QED BY <2>1, UpToBut
  <1>4. \A r \in 1..(n - 1) : Place(r) = IF r < k THEN r ELSE r + 1
    <2>1. SUFFICES ASSUME NEW r \in 1..(n - 1)
                   PROVE  Place(r) = IF r < k THEN r ELSE r + 1
      OBVIOUS
    <2>2. PICK p : p = IF r < k THEN r ELSE r + 1
      OBVIOUS
    <2>3. p \in I /\ (IF p < k THEN p ELSE p - 1) = r
      BY <1>1, <2>1, <2>2
    <2>4. \A i \in I : (IF i < k THEN i ELSE i - 1) = r => i = p
      BY <1>1, <2>1, <2>2
    <2> HIDE DEF Up, I
    <2>5. Place(r) = p
      BY <1>3, <2>3, <2>4
    <2> QED BY <2>2, <2>5
  <1>5. W = [r \in 1..(n - 1) |-> V[Place(r)]]
    <2>1. Library!Filter(V, I) = [r \in 1..Cardinality(I) |-> V[Place(r)]]
      BY Zenon, FilterPlaces
    <2> HIDE DEF Place
    <2> QED BY <1>1, <1>2, <2>1
  <1> HIDE DEF Place, W, I
  <1>6. \A r \in 1..(n - 1) : V[Place(r)] \in S
    BY <1>1, <1>4
  <1>7. W \in [1..(n - 1) -> S]
    BY <1>5, <1>6
  <1>8. W \in Seq(S) /\ Len(W) = n - 1
    BY <1>2, <1>7
  <1>9. \A i \in 1..Len(W) : W[i] = IF i < k THEN V[i] ELSE V[i + 1]
    BY <1>1, <1>4, <1>5, <1>8
  <1> QED BY <1>8, <1>9 DEF W, Drops

\* In a finite set of places, every rank is that of one place.
LEMMA Ranks ==
    ASSUME NEW n \in Nat, NEW I \in SUBSET (1..n)
    PROVE  /\ Cardinality(I) \in Nat
           /\ \A i \in I : Cardinality({j \in I : j <= i}) \in 1..Cardinality(I)
           /\ \A i, k \in I : i < k => Cardinality({j \in I : j <= i}) < Cardinality({j \in I : j <= k})
           /\ \A r \in 1..Cardinality(I) : \E i \in I : Cardinality({j \in I : j <= i}) = r
  <1> DEFINE Up(i) == {j \in I : j <= i}
             rank == [i \in I |-> Cardinality(Up(i))]
  <1>1. IsFiniteSet(1..n)
    BY FS_Interval
  <1>2. IsFiniteSet(I)
    BY <1>1, FS_Subset
  <1>3. Cardinality(I) \in Nat
    BY <1>2, FS_CardinalityType
  <1>4. \A i \in I : IsFiniteSet(Up(i)) /\ Cardinality(Up(i)) <= Cardinality(I)
    BY <1>2, FS_Subset
  <1>5. \A i \in I : Cardinality(Up(i)) \in Nat
    BY <1>4, FS_CardinalityType
  <1>6. \A i \in I : Cardinality(Up(i)) # 0
    <2>1. \A i \in I : i \in Up(i)
      OBVIOUS
    <2> QED BY <1>4, <2>1, FS_EmptySet
  <1>7. \A i \in I : Cardinality(Up(i)) \in 1..Cardinality(I)
    BY <1>3, <1>4, <1>5, <1>6
  <1>8. ASSUME NEW i \in I, NEW k \in I, i < k
        PROVE  Cardinality(Up(i)) < Cardinality(Up(k))
    <2>0. i \in Int /\ k \in Int /\ I \subseteq Int
      OBVIOUS
    <2>1. \A j \in I : j <= i => j <= k
      BY <1>8, <2>0
    <2>2. k <= k /\ ~(k <= i)
      BY <1>8, <2>0
    <2>3. Up(i) \in SUBSET Up(k) /\ k \in Up(k) /\ k \notin Up(i)
      BY <2>1, <2>2
    <2>4. Cardinality(Up(i)) <= Cardinality(Up(k)) /\ Cardinality(Up(k)) # Cardinality(Up(i))
      BY <1>4, <2>3, FS_Subset
    <2> QED BY <1>5, <2>4
  <1>9. \A r \in 1..Cardinality(I) : \E i \in I : Cardinality(Up(i)) = r
    <2>1. rank \in [I -> 1..Cardinality(I)]
      BY <1>7
    <2>2. \A i, k \in I : rank[i] = rank[k] => i = k
      <3>1. \A i \in I : rank[i] = Cardinality(Up(i))
        OBVIOUS
      <3> HIDE DEF rank, Up
      <3> QED BY <1>5, <1>8, <3>1
    <2>3. rank \in Injection(I, 1..Cardinality(I))
      BY <2>1, <2>2 DEF Injection, IsInjective
    <2>4. IsFiniteSet(1..Cardinality(I)) /\ Cardinality(1..Cardinality(I)) = Cardinality(I)
      BY <1>3, FS_Interval
    <2>5. rank \in Surjection(I, 1..Cardinality(I))
      BY <2>3, <2>4, FS_Injection
    <2> QED BY <2>5 DEF Surjection
  <1> QED
    BY <1>3, <1>7, <1>8, <1>9

\* A filter has views of V, each from a place of its own.
LEMMA FilterSome ==
    ASSUME NEW S, NEW V \in Seq(S), NEW I \in SUBSET (DOMAIN V)
    PROVE  LET W == Library!Filter(V, I)
           IN  /\ W \in Seq(S)
               /\ \E from \in [DOMAIN W -> I] : /\ \A r \in DOMAIN W : W[r] = V[from[r]]
                                                /\ \A r, q \in DOMAIN W : from[r] = from[q] => r = q
  <1> DEFINE n == Cardinality(I)
             Rank(i) == Cardinality({j \in I : j <= i})
             Place(r) == CHOOSE i \in I : Rank(i) = r
             W == Library!Filter(V, I)
             from == [r \in 1..n |-> Place(r)]
  <1>1. Len(V) \in Nat /\ I \in SUBSET (1..Len(V)) /\ \A i \in I : V[i] \in S
    OBVIOUS
  <1>2. n \in Nat /\ \A r \in 1..n : \E i \in I : Rank(i) = r
    BY <1>1, Ranks
  <1>3. W = [r \in 1..n |-> V[Place(r)]]
    BY Zenon, FilterPlaces
  <1> HIDE DEF W, n, Rank
  <1>4. \A r \in 1..n : Place(r) \in I /\ Rank(Place(r)) = r
    BY <1>2
  <1> HIDE DEF Place
  <1>5. W \in [1..n -> S]
    BY <1>1, <1>3, <1>4
  <1>6. W \in Seq(S) /\ DOMAIN W = 1..n
    BY <1>2, <1>5
  <1>7. from \in [DOMAIN W -> I]
    BY <1>4, <1>6
  <1>8. \A r \in DOMAIN W : W[r] = V[from[r]]
    BY <1>3, <1>6
  <1>9. \A r, q \in DOMAIN W : from[r] = from[q] => r = q
    BY <1>4, <1>6
  <1> HIDE DEF from
  <1>10. \E f \in [DOMAIN W -> I] : /\ \A r \in DOMAIN W : W[r] = V[f[r]]
                                    /\ \A r, q \in DOMAIN W : f[r] = f[q] => r = q
    BY <1>7, <1>8, <1>9
  <1> QED BY Zenon, <1>6, <1>10 DEF W

\* What Without and WithoutId leave: no name twice, if none was; and where V has one view
\* of the name, or of the number, all but that one.
LEMMA WithoutNames ==
    ASSUME NEW V \in Seq(Library!View), NEW I \in SUBSET (DOMAIN V)
    PROVE  LET W == Library!Filter(V, I)
           IN  /\ W \in Seq(Library!View)
               /\ NamesOnce(V) => NamesOnce(W)
               /\ IdsOnce(V) => IdsOnce(W)
               /\ \A r \in DOMAIN W : \E i \in I : W[r] = V[i]
  <1> DEFINE W == Library!Filter(V, I)
  <1>1. W \in Seq(Library!View)
    BY FilterSome
  <1>2. PICK from \in [DOMAIN W -> I] : /\ \A r \in DOMAIN W : W[r] = V[from[r]]
                                        /\ \A r, q \in DOMAIN W : from[r] = from[q] => r = q
    BY FilterSome
  <1> HIDE DEF W
  <1>3. \A r \in DOMAIN W : from[r] \in DOMAIN V
    BY <1>2
  <1>4. NamesOnce(V) => NamesOnce(W)
    BY <1>2, <1>3 DEF NamesOnce
  <1>5. IdsOnce(V) => IdsOnce(W)
    BY <1>2, <1>3 DEF IdsOnce
  <1>6. \A r \in DOMAIN W : \E i \in I : W[r] = V[i]
    BY <1>2
  <1> QED BY Zenon, <1>1, <1>4, <1>5, <1>6 DEF W

LEMMA WithoutIs ==
    ASSUME NEW V \in Seq(Library!View), NEW name, NamesOnce(V)
    PROVE  LET W == Library!Without(V, name)
           IN  \/ W = V /\ \A i \in DOMAIN V : V[i].name # name
               \/ \E k \in DOMAIN V : V[k].name = name /\ Drops(V, W, k)
  <1> DEFINE I == {i \in DOMAIN V : V[i].name # name}
  <1>1. CASE \A i \in DOMAIN V : V[i].name # name
    <2>1. I = DOMAIN V
      BY <1>1
    <2>2. Library!Filter(V, DOMAIN V) = V
      BY FilterAll
    <2>3. Library!Without(V, name) = V
      BY Zenon, <2>1, <2>2 DEF Library!Without
    <2> QED BY <1>1, <2>3
  <1>2. ASSUME NEW k \in DOMAIN V, V[k].name = name
        PROVE  Drops(V, Library!Without(V, name), k)
    <2>1. I = DOMAIN V \ {k}
      BY <1>2 DEF NamesOnce
    <2>2. Drops(V, Library!Filter(V, DOMAIN V \ {k}), k)
      BY FilterBut
    <2> QED BY Zenon, <2>1, <2>2 DEF Library!Without
  <1> QED BY <1>1, <1>2

LEMMA WithoutIdIs ==
    ASSUME NEW V \in Seq(Library!View), NEW id, IdsOnce(V)
    PROVE  LET W == Library!WithoutId(V, id)
           IN  \/ W = V /\ \A i \in DOMAIN V : V[i].id # id
               \/ \E k \in DOMAIN V : V[k].id = id /\ Drops(V, W, k)
  <1> DEFINE I == {i \in DOMAIN V : V[i].id # id}
  <1>1. CASE \A i \in DOMAIN V : V[i].id # id
    <2>1. I = DOMAIN V
      BY <1>1
    <2>2. Library!Filter(V, DOMAIN V) = V
      BY FilterAll
    <2>3. Library!WithoutId(V, id) = V
      BY Zenon, <2>1, <2>2 DEF Library!WithoutId
    <2> QED BY <1>1, <2>3
  <1>2. ASSUME NEW k \in DOMAIN V, V[k].id = id
        PROVE  Drops(V, Library!WithoutId(V, id), k)
    <2>1. I = DOMAIN V \ {k}
      BY <1>2 DEF IdsOnce
    <2>2. Drops(V, Library!Filter(V, DOMAIN V \ {k}), k)
      BY FilterBut
    <2> QED BY Zenon, <2>1, <2>2 DEF Library!WithoutId
  <1> QED BY <1>1, <1>2

LEMMA WithoutKeeps ==
    ASSUME NEW V \in Seq(Library!View), NEW name
    PROVE  LET W == Library!Without(V, name)
           IN  /\ W \in Seq(Library!View)
               /\ NamesOnce(V) => NamesOnce(W)
               /\ IdsOnce(V) => IdsOnce(W)
               /\ \A r \in DOMAIN W : W[r].name # name /\ \E i \in DOMAIN V : W[r] = V[i]
  <1>1. PICK I : I = {i \in DOMAIN V : V[i].name # name}
    OBVIOUS
  <1>2. Library!Without(V, name) = Library!Filter(V, I) /\ I \in SUBSET (DOMAIN V)
    BY <1>1 DEF Library!Without
  <1>3. PICK W : W = Library!Filter(V, I)
    OBVIOUS
  <1>4. /\ W \in Seq(Library!View)
        /\ NamesOnce(V) => NamesOnce(W)
        /\ IdsOnce(V) => IdsOnce(W)
        /\ \A r \in DOMAIN W : \E i \in I : W[r] = V[i]
    BY Zenon, <1>2, <1>3, WithoutNames
  <1>5. \A r \in DOMAIN W : W[r].name # name /\ \E i \in DOMAIN V : W[r] = V[i]
    BY <1>1, <1>4
  <1> QED BY Zenon, <1>2, <1>3, <1>4, <1>5

LEMMA WithoutIdKeeps ==
    ASSUME NEW V \in Seq(Library!View), NEW id
    PROVE  LET W == Library!WithoutId(V, id)
           IN  /\ W \in Seq(Library!View)
               /\ NamesOnce(V) => NamesOnce(W)
               /\ IdsOnce(V) => IdsOnce(W)
               /\ \A r \in DOMAIN W : W[r].id # id /\ \E i \in DOMAIN V : W[r] = V[i]
  <1>1. PICK I : I = {i \in DOMAIN V : V[i].id # id}
    OBVIOUS
  <1>2. Library!WithoutId(V, id) = Library!Filter(V, I) /\ I \in SUBSET (DOMAIN V)
    BY <1>1 DEF Library!WithoutId
  <1>3. PICK W : W = Library!Filter(V, I)
    OBVIOUS
  <1>4. /\ W \in Seq(Library!View)
        /\ NamesOnce(V) => NamesOnce(W)
        /\ IdsOnce(V) => IdsOnce(W)
        /\ \A r \in DOMAIN W : \E i \in I : W[r] = V[i]
    BY Zenon, <1>2, <1>3, WithoutNames
  <1>5. \A r \in DOMAIN W : W[r].id # id /\ \E i \in DOMAIN V : W[r] = V[i]
    BY <1>1, <1>4
  <1> QED BY Zenon, <1>2, <1>3, <1>4, <1>5

-----------------------------------------------------------------------------
(* Beginnings of the server's list.                                        *)

LEMMA BeginsPrefix ==
    ASSUME NEW A \in Seq(Library!View), NEW B \in Seq(Library!View), Begins(A, B)
    PROVE  Library!IsPrefix(A, B)
  <1>1. Len(A) \in Nat /\ Len(B) \in Nat /\ Len(A) <= Len(B)
    BY DEF Begins
  <1>2. SubSeq(A, 1, Len(A)) = [i \in 1..Len(A) |-> A[i]]
    BY <1>1
  <1>3. SubSeq(B, 1, Len(A)) = [i \in 1..Len(A) |-> B[i]]
    BY <1>1
  <1>4. [i \in 1..Len(A) |-> A[i]] = [i \in 1..Len(A) |-> B[i]]
    BY DEF Begins
  <1> QED BY <1>1, <1>2, <1>3, <1>4 DEF Library!IsPrefix

LEMMA BeginsBegins ==
    ASSUME NEW A \in Seq(Library!View), NEW B \in Seq(Library!View), NEW C \in Seq(Library!View),
           Begins(A, B), Begins(B, C)
    PROVE  Begins(A, C)
  BY DEF Begins

LEMMA BeginsOnce ==
    ASSUME NEW A \in Seq(Library!View), NEW B \in Seq(Library!View), Begins(A, B)
    PROVE  /\ NamesOnce(B) => NamesOnce(A)
           /\ IdsOnce(B) => IdsOnce(A)
  <1>1. DOMAIN A = 1..Len(A) /\ DOMAIN B = 1..Len(B) /\ Len(A) \in Nat /\ Len(B) \in Nat
    OBVIOUS
  <1>2. \A i \in DOMAIN A : i \in DOMAIN B /\ A[i] = B[i]
    BY <1>1 DEF Begins
  <1> QED BY <1>2 DEF NamesOnce, IdsOnce

LEMMA CutBegins ==
    ASSUME NEW V \in Seq(Library!View)
    PROVE  /\ Library!Cut(V) \in Seq(Library!View)
           /\ Begins(Library!Cut(V), V)
           /\ Len(V) # 0 => Len(Library!Cut(V)) # 0
  <1>1. PageLimit \in Nat /\ PageLimit # 0
    BY PagesAssumption DEF Library!SelectionsAssumption
  <1>2. PICK m : m = IF Len(V) < PageLimit THEN Len(V) ELSE PageLimit
    OBVIOUS
  <1>3. m \in Nat /\ m <= Len(V) /\ (Len(V) # 0 => m # 0)
    BY <1>1, <1>2
  <1>4. PICK W : W = SubSeq(V, 1, m)
    OBVIOUS
  <1>5. Library!Cut(V) = W
    BY <1>2, <1>4 DEF Library!Cut
  <1>6. W \in Seq(Library!View) /\ Len(W) = m /\ \A i \in 1..m : W[i] = V[i]
    BY <1>3, <1>4
  <1> QED BY <1>3, <1>5, <1>6 DEF Begins

\* W follows x.
Follows(T, x, W) ==
    Len(T) = Len(W) + 1 /\ T[1] = x /\ \A i \in 1..Len(W) : T[i + 1] = W[i]

LEMMA OnTop ==
    ASSUME NEW x \in Library!View, NEW W \in Seq(Library!View)
    PROVE  <<x>> \o W \in Seq(Library!View) /\ Follows(<<x>> \o W, x, W)
  <1>1. PICK T : T = <<x>> \o W
    OBVIOUS
  <1>2. T \in Seq(Library!View) /\ Len(T) = Len(W) + 1 /\ T[1] = x
    BY <1>1
  <1>3. \A i \in 1..Len(W) : T[i + 1] = W[i]
    BY <1>1
  <1> QED BY <1>1, <1>2, <1>3 DEF Follows

LEMMA FollowsOnce ==
    ASSUME NEW T \in Seq(Library!View), NEW x \in Library!View, NEW W \in Seq(Library!View),
           Follows(T, x, W)
    PROVE  /\ NamesOnce(W) /\ (\A r \in DOMAIN W : W[r].name # x.name) => NamesOnce(T)
           /\ IdsOnce(W) /\ (\A r \in DOMAIN W : W[r].id # x.id) => IdsOnce(T)
           /\ \A i \in DOMAIN T : T[i] = x \/ \E r \in DOMAIN W : T[i] = W[r]
  <1>1. DOMAIN T = 1..Len(T) /\ DOMAIN W = 1..Len(W) /\ Len(W) \in Nat /\ Len(T) = Len(W) + 1
    BY DEF Follows
  <1>2. \A i \in DOMAIN T : i # 1 => i - 1 \in DOMAIN W /\ T[i] = W[i - 1]
    <2>1. SUFFICES ASSUME NEW i \in DOMAIN T, i # 1
                   PROVE  i - 1 \in DOMAIN W /\ T[i] = W[i - 1]
      OBVIOUS
    <2>2. PICK j : j = i - 1
      OBVIOUS
    <2>3. j \in 1..Len(W) /\ j + 1 = i
      BY <1>1, <2>1, <2>2
    <2>4. T[j + 1] = W[j]
      BY <2>3 DEF Follows
    <2> QED BY <1>1, <2>2, <2>3, <2>4
  <1>3. T[1] = x
    BY DEF Follows
  <1>4. \A i, k \in DOMAIN T : i - 1 = k - 1 => i = k
    BY <1>1
  <1>5. ASSUME NamesOnce(W), \A r \in DOMAIN W : W[r].name # x.name
        PROVE  NamesOnce(T)
    <2>1. SUFFICES ASSUME NEW i \in DOMAIN T, NEW k \in DOMAIN T, T[i].name = T[k].name
                   PROVE  i = k
      BY DEF NamesOnce
    <2>2. CASE i = 1 \/ k = 1
      BY <1>2, <1>3, <1>5, <2>1, <2>2
    <2>3. CASE i # 1 /\ k # 1
      BY <1>2, <1>4, <1>5, <2>1, <2>3 DEF NamesOnce
    <2> QED BY <2>2, <2>3
  <1>6. ASSUME IdsOnce(W), \A r \in DOMAIN W : W[r].id # x.id
        PROVE  IdsOnce(T)
    <2>1. SUFFICES ASSUME NEW i \in DOMAIN T, NEW k \in DOMAIN T, T[i].id = T[k].id
                   PROVE  i = k
      BY DEF IdsOnce
    <2>2. CASE i = 1 \/ k = 1
      BY <1>2, <1>3, <1>6, <2>1, <2>2
    <2>3. CASE i # 1 /\ k # 1
      BY <1>2, <1>4, <1>6, <2>1, <2>3 DEF IdsOnce
    <2> QED BY <2>2, <2>3
  <1>7. \A i \in DOMAIN T : T[i] = x \/ \E r \in DOMAIN W : T[i] = W[r]
    BY <1>2, <1>3
  <1> QED BY <1>5, <1>6, <1>7

\* Filters of a beginning.
LEMMA DropsBegins ==
    ASSUME NEW A \in Seq(Library!View), NEW B \in Seq(Library!View),
           NEW P \in Seq(Library!View), NEW Q \in Seq(Library!View), Begins(A, B),
           NEW k \in DOMAIN B, Drops(B, Q, k),
           IF k <= Len(A) THEN Drops(A, P, k) ELSE P = A
    PROVE  Begins(P, Q)
  <1>1. Len(A) <= Len(B) /\ \A i \in 1..Len(A) : A[i] = B[i]
    BY DEF Begins
  <1>2. k \in 1..Len(B) /\ Len(Q) = Len(B) - 1
    BY DEF Drops
  <1>3. \A i \in 1..Len(Q) : Q[i] = IF i < k THEN B[i] ELSE B[i + 1]
    BY DEF Drops
  <1>4. CASE k <= Len(A)
    <2>1. Len(P) = Len(A) - 1 /\ \A i \in 1..Len(P) : P[i] = IF i < k THEN A[i] ELSE A[i + 1]
      BY <1>4 DEF Drops
    <2>2. ASSUME NEW i \in 1..Len(P)
          PROVE  P[i] = Q[i]
      <3>1. i \in 1..Len(Q) /\ i \in 1..Len(A) /\ i + 1 \in 1..Len(A)
        BY <1>1, <1>2, <2>1
      <3> QED BY <1>1, <1>3, <2>1, <3>1
    <2> QED BY <1>1, <1>2, <2>1, <2>2 DEF Begins
  <1>5. CASE ~(k <= Len(A))
    <2>1. ASSUME NEW i \in 1..Len(A)
          PROVE  A[i] = Q[i]
      <3>1. i \in 1..Len(Q) /\ i < k
        BY <1>1, <1>2, <1>5
      <3> QED BY <1>1, <1>3, <3>1
    <2>2. Len(A) <= Len(Q)
      BY <1>1, <1>2, <1>5
    <2> QED BY <1>5, <2>1, <2>2 DEF Begins
  <1> QED BY <1>4, <1>5

LEMMA WithoutBegins ==
    ASSUME NEW A \in Seq(Library!View), NEW B \in Seq(Library!View), Begins(A, B),
           NamesOnce(B), NEW name
    PROVE  Begins(Library!Without(A, name), Library!Without(B, name))
  <1>1. PICK P, Q : P = Library!Without(A, name) /\ Q = Library!Without(B, name)
    OBVIOUS
  <1>2. P \in Seq(Library!View) /\ Q \in Seq(Library!View)
    BY <1>1, WithoutKeeps
  <1>3. NamesOnce(A)
    BY BeginsOnce
  <1>4. \/ P = A /\ \A i \in DOMAIN A : A[i].name # name
        \/ \E k \in DOMAIN A : A[k].name = name /\ Drops(A, P, k)
    BY <1>1, <1>3, WithoutIs
  <1>5. \/ Q = B /\ \A i \in DOMAIN B : B[i].name # name
        \/ \E k \in DOMAIN B : B[k].name = name /\ Drops(B, Q, k)
    BY <1>1, WithoutIs
  <1>6. \A i \in DOMAIN A : i \in DOMAIN B /\ A[i] = B[i] /\ (i \in DOMAIN A <=> i <= Len(A))
    BY DEF Begins
  <1>7. CASE Q = B /\ \A i \in DOMAIN B : B[i].name # name
    BY <1>1, <1>4, <1>6, <1>7
  <1>8. ASSUME NEW k \in DOMAIN B, B[k].name = name, Drops(B, Q, k)
        PROVE  Begins(P, Q)
    <2>1. k <= Len(A) => k \in DOMAIN A
      OBVIOUS
    <2>2. k <= Len(A) => Drops(A, P, k)
      BY <1>4, <1>6, <1>8, <2>1 DEF NamesOnce
    <2>3. ~(k <= Len(A)) => P = A
      BY <1>4, <1>6, <1>8 DEF NamesOnce
    <2> QED BY <1>2, <1>8, <2>2, <2>3, DropsBegins
  <1> QED BY <1>1, <1>5, <1>7, <1>8

LEMMA WithoutIdBegins ==
    ASSUME NEW A \in Seq(Library!View), NEW B \in Seq(Library!View), Begins(A, B),
           IdsOnce(B), NEW id
    PROVE  Begins(Library!WithoutId(A, id), Library!WithoutId(B, id))
  <1>1. PICK P, Q : P = Library!WithoutId(A, id) /\ Q = Library!WithoutId(B, id)
    OBVIOUS
  <1>2. P \in Seq(Library!View) /\ Q \in Seq(Library!View)
    BY <1>1, WithoutIdKeeps
  <1>3. IdsOnce(A)
    BY BeginsOnce
  <1>4. \/ P = A /\ \A i \in DOMAIN A : A[i].id # id
        \/ \E k \in DOMAIN A : A[k].id = id /\ Drops(A, P, k)
    BY <1>1, <1>3, WithoutIdIs
  <1>5. \/ Q = B /\ \A i \in DOMAIN B : B[i].id # id
        \/ \E k \in DOMAIN B : B[k].id = id /\ Drops(B, Q, k)
    BY <1>1, WithoutIdIs
  <1>6. \A i \in DOMAIN A : i \in DOMAIN B /\ A[i] = B[i] /\ (i \in DOMAIN A <=> i <= Len(A))
    BY DEF Begins
  <1>7. CASE Q = B /\ \A i \in DOMAIN B : B[i].id # id
    BY <1>1, <1>4, <1>6, <1>7
  <1>8. ASSUME NEW k \in DOMAIN B, B[k].id = id, Drops(B, Q, k)
        PROVE  Begins(P, Q)
    <2>1. k <= Len(A) => k \in DOMAIN A
      OBVIOUS
    <2>2. k <= Len(A) => Drops(A, P, k)
      BY <1>4, <1>6, <1>8, <2>1 DEF IdsOnce
    <2>3. ~(k <= Len(A)) => P = A
      BY <1>4, <1>6, <1>8 DEF IdsOnce
    <2> QED BY <1>2, <1>8, <2>2, <2>3, DropsBegins
  <1> QED BY <1>1, <1>5, <1>7, <1>8

-----------------------------------------------------------------------------
(* What a save and a delete make of the two lists.                         *)

\* W is what x is put on top of: dropping x's name drops x alone.
LEMMA DropTop ==
    ASSUME NEW T \in Seq(Library!View), NEW x \in Library!View, NEW W \in Seq(Library!View),
           Follows(T, x, W), NamesOnce(T)
    PROVE  Begins(W, Library!Without(T, x.name)) /\ Begins(Library!Without(T, x.name), W)
  <1>1. PICK Q : Q = Library!Without(T, x.name)
    OBVIOUS
  <1>2. Q \in Seq(Library!View) /\ 1 \in DOMAIN T /\ T[1] = x
    BY <1>1, WithoutKeeps DEF Follows
  <1>3. Drops(T, Q, 1)
    <2>1. \/ Q = T /\ \A i \in DOMAIN T : T[i].name # x.name
          \/ \E k \in DOMAIN T : T[k].name = x.name /\ Drops(T, Q, k)
      BY <1>1, WithoutIs
    <2> QED BY <1>2, <2>1 DEF NamesOnce
  <1>4. Len(Q) = Len(W)
    BY <1>3 DEF Drops, Follows
  <1>5. ASSUME NEW i \in 1..Len(W)
        PROVE  Q[i] = W[i]
    <2>1. i \in 1..Len(Q) /\ ~(i < 1)
      BY <1>4
    <2>2. Q[i] = T[i + 1]
      BY <1>3, <2>1 DEF Drops
    <2> QED BY <2>2 DEF Follows
  <1> QED BY <1>1, <1>2, <1>4, <1>5 DEF Begins

\* The page puts a view on top: beside its name, nothing new is shown.
LEMMA PageSaves ==
    ASSUME NEW P \in Seq(Library!View), NamesOnce(P), NEW x \in Library!View
    PROVE  LET Q == Library!Cut(<<x>> \o Library!Without(P, x.name))
           IN  /\ Q \in Seq(Library!View) /\ NamesOnce(Q)
               /\ Begins(Library!Without(Q, x.name), Library!Without(P, x.name))
               /\ \A i \in DOMAIN Q : Q[i] = x \/ \E r \in DOMAIN P : Q[i] = P[r] /\ P[r].name # x.name
  <1>1. PICK W : W = Library!Without(P, x.name)
    OBVIOUS
  <1>2. /\ W \in Seq(Library!View) /\ NamesOnce(W)
        /\ \A r \in DOMAIN W : W[r].name # x.name /\ \E i \in DOMAIN P : W[r] = P[i]
    BY <1>1, WithoutKeeps
  <1>3. PICK T : T = <<x>> \o W
    OBVIOUS
  <1>4. T \in Seq(Library!View) /\ Follows(T, x, W)
    BY <1>2, <1>3, OnTop
  <1>5. NamesOnce(T) /\ \A i \in DOMAIN T : T[i] = x \/ \E r \in DOMAIN W : T[i] = W[r]
    BY <1>2, <1>4, FollowsOnce
  <1>6. PICK Q : Q = Library!Cut(T)
    OBVIOUS
  <1>7. Q \in Seq(Library!View) /\ Begins(Q, T)
    BY <1>4, <1>6, CutBegins
  <1>8. NamesOnce(Q)
    BY <1>4, <1>5, <1>7, BeginsOnce
  <1>9. Begins(Library!Without(Q, x.name), W)
    <2>1. Begins(Library!Without(Q, x.name), Library!Without(T, x.name))
      BY <1>4, <1>5, <1>7, WithoutBegins
    <2>2. Begins(Library!Without(T, x.name), W)
      BY <1>2, <1>4, <1>5, DropTop
    <2>3. /\ Library!Without(Q, x.name) \in Seq(Library!View)
          /\ Library!Without(T, x.name) \in Seq(Library!View)
      BY <1>4, <1>7, WithoutKeeps
    <2> QED BY <1>2, <2>1, <2>2, <2>3, BeginsBegins
  <1>10. \A i \in DOMAIN Q : Q[i] = x \/ \E r \in DOMAIN P : Q[i] = P[r] /\ P[r].name # x.name
    <2>1. \A i \in DOMAIN Q : i \in DOMAIN T /\ Q[i] = T[i]
      BY <1>4, <1>7 DEF Begins
    <2> QED BY <1>2, <1>5, <2>1
  <1> QED BY Zenon, <1>1, <1>3, <1>6, <1>7, <1>8, <1>9, <1>10

\* The answer puts the server's newest on top: the page then has the server's beginning.
LEMMA PageAnswers ==
    ASSUME NEW P \in Seq(Library!View), NEW S \in Seq(Library!View), NamesOnce(S), Len(S) # 0,
           Begins(Library!Without(P, S[1].name), Library!Without(S, S[1].name))
    PROVE  Begins(Library!Cut(<<S[1]>> \o Library!Without(P, S[1].name)), S)
  <1>1. PICK x, W, V : x = S[1] /\ W = Library!Without(P, S[1].name) /\ V = Library!Without(S, S[1].name)
    OBVIOUS
  <1>2. x \in Library!View /\ W \in Seq(Library!View) /\ V \in Seq(Library!View) /\ Begins(W, V)
    BY <1>1, WithoutKeeps
  <1>3. PICK T : T = <<x>> \o W
    OBVIOUS
  <1>4. T \in Seq(Library!View) /\ Follows(T, x, W)
    BY <1>2, <1>3, OnTop
  <1>5. Drops(S, V, 1)
    <2>1. \/ V = S /\ \A i \in DOMAIN S : S[i].name # S[1].name
          \/ \E k \in DOMAIN S : S[k].name = S[1].name /\ Drops(S, V, k)
      BY <1>1, WithoutIs
    <2> QED BY <2>1 DEF NamesOnce
  <1>6. Begins(T, S)
    <2>1. Len(T) <= Len(S)
      BY <1>2, <1>4, <1>5 DEF Begins, Follows, Drops
    <2>2. ASSUME NEW i \in 1..Len(T)
          PROVE  T[i] = S[i]
      <3>1. CASE i = 1
        BY <1>1, <1>4, <3>1 DEF Follows
      <3>2. CASE i # 1
        <4>1. PICK j : j = i - 1
          OBVIOUS
        <4>2. j \in 1..Len(W) /\ j + 1 = i /\ j \in 1..Len(V) /\ ~(j < 1)
          BY <1>2, <1>4, <3>2, <4>1 DEF Follows, Begins
        <4>3. T[j + 1] = W[j] /\ W[j] = V[j] /\ V[j] = S[j + 1]
          BY <1>2, <1>4, <1>5, <4>2 DEF Follows, Begins, Drops
        <4> QED BY <4>2, <4>3
      <3> QED BY <3>1, <3>2
    <2> QED BY <2>1, <2>2 DEF Begins
  <1>7. Library!Cut(T) \in Seq(Library!View) /\ Begins(Library!Cut(T), T)
    BY <1>4, CutBegins
  <1>8. Begins(Library!Cut(T), S)
    BY <1>4, <1>6, <1>7, BeginsBegins
  <1> QED BY Zenon, <1>1, <1>3, <1>8

\* A view with no number of the server's, taken from the page while it is saved.
LEMMA PageDropsLocal ==
    ASSUME NEW P \in Seq(Library!View), NEW S \in Seq(Library!View), NamesOnce(P), NEW name,
           \A i \in DOMAIN S : S[i].id > 0,
           Begins(Library!Without(P, name), Library!Without(S, name)),
           NEW i \in DOMAIN P, ~(P[i].id > 0)
    PROVE  Begins(Library!Without(Library!WithoutId(P, P[i].id), name), Library!Without(S, name))
  <1>1. PICK W, V, id : W = Library!Without(P, name) /\ V = Library!Without(S, name) /\ id = P[i].id
    OBVIOUS
  <1>2. /\ W \in Seq(Library!View) /\ V \in Seq(Library!View) /\ NamesOnce(W)
        /\ \A r \in DOMAIN W : W[r].name # name
        /\ \A r \in DOMAIN V : \E j \in DOMAIN S : V[r] = S[j]
    BY <1>1, WithoutKeeps
  <1>3. \A r \in DOMAIN W : W[r].id > 0
    <2>1. \A r \in DOMAIN W : r \in DOMAIN V /\ W[r] = V[r]
      BY <1>1, <1>2 DEF Begins
    <2> QED BY <1>2, <2>1
  <1>4. \/ W = P /\ \A j \in DOMAIN P : P[j].name # name
        \/ \E k \in DOMAIN P : P[k].name = name /\ Drops(P, W, k)
    BY <1>1, WithoutIs
  <1>5. \A j \in DOMAIN P : P[j].name # name => P[j].id > 0
    <2>1. SUFFICES ASSUME NEW j \in DOMAIN P, P[j].name # name
                   PROVE  \E r \in DOMAIN W : W[r] = P[j]
      BY <1>3
    <2>2. CASE W = P
      BY <2>2
    <2>3. ASSUME NEW k \in DOMAIN P, P[k].name = name, Drops(P, W, k)
          PROVE  \E r \in DOMAIN W : W[r] = P[j]
      <3>1. j # k
        BY <2>1, <2>3
      <3>2. PICK r : r = IF j < k THEN j ELSE j - 1
        OBVIOUS
      <3>3. r \in 1..Len(W) /\ (IF r < k THEN r ELSE r + 1) = j
        BY <1>2, <2>3, <3>1, <3>2 DEF Drops
      <3>4. W[r] = P[j] /\ r \in DOMAIN W
        BY <1>2, <2>3, <3>3 DEF Drops
      <3> QED BY <3>4
    <2> QED BY <1>4, <2>2, <2>3
  <1>6. P[i].name = name
    BY <1>5
  <1>7. \A j \in DOMAIN P : P[j].id # id <=> P[j].name # name
    BY <1>1, <1>5, <1>6 DEF NamesOnce
  <1>8. {j \in DOMAIN P : P[j].id # id} = {j \in DOMAIN P : P[j].name # name}
    BY <1>7
  <1>9. Library!WithoutId(P, id) = W
    BY Zenon, <1>1, <1>8 DEF Library!WithoutId, Library!Without
  <1>10. Library!Without(W, name) = W
    <2>1. \/ Library!Without(W, name) = W
          \/ \E k \in DOMAIN W : W[k].name = name
      BY <1>2, WithoutIs
    <2> QED BY <1>2, <2>1
  <1> QED BY <1>1, <1>9, <1>10

-----------------------------------------------------------------------------
(* The server keeps one view of a name, and numbers no two of them alike.  *)

LEMMA Stripped ==
    \A choice \in Selections : Strip[choice] \in Selections /\ Strip[Strip[choice]] = Strip[choice]
  BY PagesAssumption DEF Library!SelectionsAssumption

LEMMA ServerSaves ==
    ASSUME NEW s \in LibraryServer, NEW p, p.name \in Names \cup Selections, p.choice \in Selections
    PROVE  LET t == Library!UpsertLibraryView(s, p)
           IN  /\ t \in LibraryServer
               /\ Len(t.views) # 0 /\ t.views[1].name = p.name /\ t.views[1].choice = Strip[p.choice]
               /\ Begins(Library!Without(s.views, p.name), Library!Without(t.views, p.name))
  <1>1. /\ s.views \in Seq(Library!View) /\ s.next \in Nat \ {0}
        /\ \A i \in DOMAIN s.views : s.views[i].id \in 1..(s.next - 1)
        /\ NamesOnce(s.views) /\ IdsOnce(s.views)
    BY DEF LibraryServer
  <1>2. PICK t : t = Library!UpsertLibraryView(s, p)
    OBVIOUS
  <1>3. PICK N, id : /\ N = Library!Named(s.views, p.name)
                     /\ id = IF N = {} THEN s.next ELSE s.views[CHOOSE i \in N : TRUE].id
    OBVIOUS
  <1>4. PICK W, x : /\ W = Library!Without(s.views, p.name)
                    /\ x = [id |-> id, name |-> p.name, choice |-> Strip[p.choice]]
    OBVIOUS
  <1>5. t = [views |-> <<x>> \o W, next |-> IF id = s.next THEN s.next + 1 ELSE s.next]
    BY <1>2, <1>3, <1>4 DEF Library!UpsertLibraryView
  <1>6. /\ W \in Seq(Library!View) /\ NamesOnce(W) /\ IdsOnce(W)
        /\ \A r \in DOMAIN W : W[r].name # p.name /\ \E i \in DOMAIN s.views : W[r] = s.views[i]
    BY <1>1, <1>4, WithoutKeeps
  <1>7. \A r \in DOMAIN W : W[r].id \in 1..(s.next - 1)
    BY <1>1, <1>6
  <1>8. id \in Nat \ {0} /\ id <= s.next /\ \A r \in DOMAIN W : W[r].id # id
    <2>1. CASE N = {}
      BY <1>1, <1>3, <1>7, <2>1
    <2>2. ASSUME N # {}
          PROVE  \E i \in DOMAIN s.views : s.views[i].name = p.name /\ id = s.views[i].id
      <3>1. PICK i : i = CHOOSE j \in N : TRUE
        OBVIOUS
      <3>2. i \in N
        BY <2>2, <3>1
      <3> QED BY <1>3, <2>2, <3>1, <3>2 DEF Library!Named
    <2>3. ASSUME NEW i \in DOMAIN s.views, s.views[i].name = p.name, id = s.views[i].id
          PROVE  id \in Nat \ {0} /\ id <= s.next /\ \A r \in DOMAIN W : W[r].id # id
      <3>1. id \in 1..(s.next - 1)
        BY <1>1, <2>3
      <3>2. \A r \in DOMAIN W : W[r].id # id
        BY <1>1, <1>6, <2>3 DEF IdsOnce
      <3> QED BY <1>1, <3>1, <3>2
    <2> QED BY <2>1, <2>2, <2>3
  <1>9. x \in Library!View /\ x.name = p.name /\ x.choice = Strip[p.choice] /\ x.id = id
    <2>1. Strip[p.choice] \in Selections
      BY Stripped
    <2> QED BY <1>4, <1>8, <2>1 DEF Library!View
  <1>10. PICK T : T = <<x>> \o W
    OBVIOUS
  <1>11. T \in Seq(Library!View) /\ Follows(T, x, W)
    BY <1>6, <1>9, <1>10, OnTop
  <1>12. /\ NamesOnce(T) /\ IdsOnce(T)
         /\ \A i \in DOMAIN T : T[i] = x \/ \E r \in DOMAIN W : T[i] = W[r]
    BY <1>6, <1>8, <1>9, <1>11, FollowsOnce
  <1>13. t.views = T /\ (t.next = s.next \/ t.next = s.next + 1) /\ id < t.next
         /\ t \in [views : Seq(Library!View), next : Nat \ {0}]
    BY <1>1, <1>5, <1>8, <1>10, <1>11
  <1>14. \A i \in DOMAIN T : T[i].id \in 1..(t.next - 1)
    <2>1. x.id \in 1..(t.next - 1)
      BY <1>1, <1>8, <1>9, <1>13
    <2>2. \A r \in DOMAIN W : W[r].id \in 1..(t.next - 1)
      BY <1>1, <1>7, <1>13
    <2> QED BY <1>12, <2>1, <2>2
  <1>15. t \in LibraryServer
    BY <1>12, <1>13, <1>14 DEF LibraryServer
  <1>16. Len(T) # 0 /\ T[1] = x
    BY <1>6, <1>11 DEF Follows
  <1>17. Begins(W, Library!Without(T, p.name))
    BY <1>6, <1>9, <1>11, <1>12, DropTop
  <1> QED BY Zenon, <1>2, <1>4, <1>9, <1>13, <1>15, <1>16, <1>17

LEMMA Least ==
    ASSUME NEW S \in SUBSET Nat, S # {}
    PROVE  \E n \in S : \A k \in S : n <= k
  <1>1. PICK n \in S : \A k \in S : ~ (<<k, n>> \in OpToRel(<, Nat))
    BY WFMin, NatLessThanWellFounded
  <1>2. n \in Nat /\ \A k \in S : k \in Nat
    BY <1>1
  <1>3. \A k \in S : k < n => <<k, n>> \in OpToRel(<, Nat)
    BY <1>2 DEF OpToRel
  <1>4. \A k \in S : ~ (k < n)
    BY <1>1, <1>3
  <1>5. \A k \in S : n <= k
    BY <1>2, <1>4
  <1> QED BY <1>1, <1>5

LEMMA ServerDeletes ==
    ASSUME NEW s \in LibraryServer, NEW id
    PROVE  LET t == Library!DeleteLibraryView(s, id)
           IN  /\ t \in LibraryServer /\ t.views = Library!WithoutId(s.views, id)
               /\ \A i \in DOMAIN t.views : t.views[i].id # id
  <1>1. /\ s.views \in Seq(Library!View) /\ s.next \in Nat \ {0}
        /\ s = [views |-> s.views, next |-> s.next]
        /\ \A i \in DOMAIN s.views : s.views[i].id \in 1..(s.next - 1)
        /\ NamesOnce(s.views) /\ IdsOnce(s.views)
    BY DEF LibraryServer
  <1>2. PICK W : W = Library!WithoutId(s.views, id)
    OBVIOUS
  <1>3. /\ W \in Seq(Library!View) /\ NamesOnce(W) /\ IdsOnce(W)
        /\ \A r \in DOMAIN W : W[r].id # id /\ \E i \in DOMAIN s.views : W[r] = s.views[i]
    BY <1>1, <1>2, WithoutIdKeeps
  <1>4. PICK t : t = Library!DeleteLibraryView(s, id)
    OBVIOUS
  <1>5. PICK above : above = {n \in 1..s.next : \A i \in DOMAIN W : W[i].id < n}
    OBVIOUS
  <1>6. PICK next : next = CHOOSE n \in above : \A k \in above : n <= k
    OBVIOUS
  <1>7. t = [views |-> W, next |-> next]
    BY Zenon, <1>2, <1>4, <1>5, <1>6 DEF Library!DeleteLibraryView
  <1>8. next \in above
    <2>1. s.next \in above
      BY <1>1, <1>3, <1>5
    <2>2. above \in SUBSET Nat /\ above # {}
      BY <1>1, <1>5, <2>1
    <2>3. \E n \in above : \A k \in above : n <= k
      BY <2>2, Least
    <2> QED BY <1>6, <2>3
  <1>9. next \in Nat \ {0} /\ \A i \in DOMAIN W : W[i].id \in 1..(next - 1)
    <2>1. next \in Nat \ {0} /\ \A i \in DOMAIN W : W[i].id < next
      BY <1>1, <1>5, <1>8
    <2>2. \A i \in DOMAIN W : W[i].id \in Nat \ {0}
      BY <1>1, <1>3
    <2> QED BY <2>1, <2>2
  <1>10. t \in LibraryServer /\ t.views = W
    BY <1>3, <1>7, <1>9 DEF LibraryServer
  <1> QED BY <1>2, <1>3, <1>4, <1>10

-----------------------------------------------------------------------------
(* Along a bundle.  The library's induction takes an operator, its minimum *)
(* of a well-founded order a set: enough to go along a sequence.           *)

LEMMA Along ==
    ASSUME NEW L \in Nat, NEW T, 0 \in T, \A i \in 1..L : i - 1 \in T => i \in T
    PROVE  0..L \subseteq T
  <1> DEFINE Missing == (0..L) \ T
  <1>1. SUFFICES ASSUME Missing # {}
                 PROVE  FALSE
    OBVIOUS
  <1>2. Missing \subseteq Nat
    OBVIOUS
  <1> HIDE DEF Missing
  <1>3. PICK x \in Missing : \A y \in Missing : ~ (<<y, x>> \in OpToRel(<, Nat))
    BY <1>1, <1>2, WFMin, NatLessThanWellFounded
  <1>4. \A y \in Missing : ~ (y < x)
    <2>1. \A y \in Missing : y < x => <<y, x>> \in OpToRel(<, Nat)
      BY <1>2, <1>3 DEF OpToRel
    <2> QED BY <1>3, <2>1
  <1>5. x \in 1..L /\ x \notin T
    <2>1. x \in 0..L /\ x \notin T
      BY <1>3 DEF Missing
    <2>2. x # 0
      BY <2>1
    <2> QED BY <2>1, <2>2
  <1>6. x - 1 \notin T
    BY <1>5
  <1>7. x - 1 \in Missing /\ x - 1 < x
    BY <1>5, <1>6 DEF Missing
  <1> QED BY <1>4, <1>7

RunsAlong(f, L, base, step) == f[0] = base /\ \A i \in 1..L : f[i] = step[i][f[i - 1]]

LEMMA Recursion ==
    ASSUME NEW L \in Nat, NEW A, NEW base \in A, NEW step \in [1..L -> [A -> A]]
    PROVE  \E f \in [0..L -> A] : RunsAlong(f, L, base, step)
  <1> DEFINE Runs(f, m) == f[0] = base /\ \A i \in 1..m : f[i] = step[i][f[i - 1]]
             T == {m \in 0..L : \E f \in [0..m -> A] : Runs(f, m)}
  <1>1. 0 \in T
    <2>1. PICK f : f = [j \in 0..0 |-> base]
      OBVIOUS
    <2>2. f \in [0..0 -> A] /\ Runs(f, 0)
      BY <2>1
    <2> QED BY <2>2
  <1>2. ASSUME NEW m \in 1..L, m - 1 \in T
        PROVE  m \in T
    <2>1. PICK f \in [0..(m - 1) -> A] : Runs(f, m - 1)
      BY <1>2
    <2>2. PICK g : g = [j \in 0..m |-> IF j = m THEN step[m][f[m - 1]] ELSE f[j]]
      OBVIOUS
    <2>3. m - 1 \in 0..(m - 1) /\ 0 \in 0..(m - 1) /\ 0 # m
      OBVIOUS
    <2>4. step[m][f[m - 1]] \in A
      BY <2>3
    <2>5. g \in [0..m -> A]
      <3>1. \A j \in 0..m : j # m => j \in 0..(m - 1)
        OBVIOUS
      <3> QED BY <2>2, <2>4, <3>1
    <2>6. g[0] = base
      BY <2>1, <2>2, <2>3
    <2>7. ASSUME NEW i \in 1..m
          PROVE  g[i] = step[i][g[i - 1]]
      <3>1. g[i - 1] = f[i - 1]
        BY <2>2
      <3>2. CASE i = m
        <4>1. m \in 0..m
          OBVIOUS
        <4>2. g[m] = step[m][f[m - 1]]
          BY Zenon, <2>2, <4>1
        <4> QED BY Zenon, <3>1, <3>2, <4>2
      <3>3. CASE i # m
        <4>1. i \in 1..(m - 1) /\ i \in 0..m
          BY <3>3
        <4>2. f[i] = step[i][f[i - 1]]
          BY <2>1, <4>1
        <4>3. g[i] = f[i]
          BY <2>2, <3>3, <4>1
        <4> QED BY <3>1, <4>2, <4>3
      <3> QED BY <3>2, <3>3
    <2>8. Runs(g, m)
      BY <2>6, <2>7
    <2> QED BY <2>5, <2>8
  <1>3. 0..L \subseteq T
    <2> HIDE DEF T
    <2> QED BY <1>1, <1>2, Along
  <1>4. L \in T
    BY <1>3
  <1> QED BY <1>4 DEF RunsAlong

\* The loop of an import, as its recursive function says it.
ImportRuns(s, bundle, f) ==
    f = [n \in 0..Len(bundle) |->
            IF n = 0 THEN s
            ELSE IF \E k \in 1..(n - 1) : bundle[k].name = bundle[n].name THEN f[n - 1]
            ELSE Library!UpsertLibraryView(f[n - 1], bundle[n])]

LEMMA ServerImports ==
    ASSUME NEW s \in LibraryServer, NEW bundle \in Bundles
    PROVE  Library!ImportLibraryViews(s, bundle) \in LibraryServer
  <1>1. Len(bundle) \in Nat /\ \A i \in 1..Len(bundle) : /\ bundle[i].name \in Names \cup Selections
                                                         /\ bundle[i].choice \in Selections
    <2>1. bundle \in Seq([name : Names \cup Selections, choice : Selections])
      BY PagesAssumption DEF Library!SelectionsAssumption
    <2>2. PICK R : R = [name : Names \cup Selections, choice : Selections]
      OBVIOUS
    <2>3. bundle \in Seq(R)
      BY Zenon, <2>1, <2>2
    <2>4. Len(bundle) \in Nat /\ \A i \in 1..Len(bundle) : bundle[i] \in R
      BY <2>3
    <2> QED BY <2>2, <2>4
  <1> DEFINE L == Len(bundle)
             Again(n) == \E k \in 1..(n - 1) : bundle[k].name = bundle[n].name
             Up(n, t) == IF Again(n) THEN t ELSE Library!UpsertLibraryView(t, bundle[n])
             step == [n \in 1..L |-> [t \in LibraryServer |-> Up(n, t)]]
  <1>2. \A n \in 1..L, t \in LibraryServer : Up(n, t) \in LibraryServer
    <2>1. SUFFICES ASSUME NEW n \in 1..L, NEW t \in LibraryServer
                   PROVE  Library!UpsertLibraryView(t, bundle[n]) \in LibraryServer
      OBVIOUS
    <2> QED BY <1>1, ServerSaves
  <1>3. \E f : ImportRuns(s, bundle, f)
    <2> HIDE DEF Up
    <2>1. step \in [1..L -> [LibraryServer -> LibraryServer]]
      BY <1>2
    <2>2. \A n \in 1..L, t \in LibraryServer : step[n][t] = Up(n, t)
      OBVIOUS
    <2> HIDE DEF step, L
    <2>3. L \in Nat
      BY <1>1 DEF L
    <2>4. PICK f \in [0..L -> LibraryServer] : f[0] = s /\ \A i \in 1..L : f[i] = step[i][f[i - 1]]
      <3>1. PICK m, up : m = L /\ up = step
        OBVIOUS
      <3>2. m \in Nat /\ s \in LibraryServer /\ up \in [1..m -> [LibraryServer -> LibraryServer]]
        BY <2>1, <2>3, <3>1
      <3>3. \E f \in [0..m -> LibraryServer] : RunsAlong(f, m, s, up)
        BY Zenon, <3>2, Recursion
      <3> QED BY Zenon, <3>1, <3>3 DEF RunsAlong
    <2>5. ASSUME NEW n \in 1..L
          PROVE  f[n] = Up(n, f[n - 1])
      <3>1. n - 1 \in 0..L
        BY <2>3
      <3>2. f[n - 1] \in LibraryServer
        BY <2>4, <3>1
      <3> QED BY <2>2, <2>4, <3>2
    <2>6. f = [n \in 0..L |-> f[n]]
      BY <2>4
    <2>7. f = [n \in 0..L |-> IF n = 0 THEN s ELSE Up(n, f[n - 1])]
      <3>1. \A n \in 0..L : n # 0 => n \in 1..L
        BY <2>3
      <3>2. \A n \in 0..L : f[n] = IF n = 0 THEN s ELSE Up(n, f[n - 1])
        BY <2>4, <2>5, <3>1
      <3> HIDE DEF Up
      <3> QED BY Zenon, <2>6, <3>2
    <2>8. ImportRuns(s, bundle, f)
      BY Zenon, <2>7 DEF ImportRuns, Up, L
    <2> QED BY <2>8
  <1>4. PICK g : /\ ImportRuns(s, bundle, g)
                 /\ Library!ImportLibraryViews(s, bundle) = g[Len(bundle)]
    <2>1. PICK g : g = CHOOSE f : ImportRuns(s, bundle, f)
      OBVIOUS
    <2>2. ImportRuns(s, bundle, g)
      BY Zenon, <1>3, <2>1
    <2>3. Library!ImportLibraryViews(s, bundle) = g[Len(bundle)]
      BY Zenon, <2>1 DEF Library!ImportLibraryViews, ImportRuns
    <2> QED BY <2>2, <2>3
  <1>5. PICK T : T = {n \in 0..L : g[n] \in LibraryServer}
    OBVIOUS
  <1>6. g[0] = s /\ \A n \in 1..L : g[n] = Up(n, g[n - 1])
    <2>1. g = [n \in 0..L |-> IF n = 0 THEN s ELSE Up(n, g[n - 1])]
      BY Zenon, <1>4 DEF ImportRuns
    <2>2. 0 \in 0..L /\ \A n \in 1..L : n \in 0..L /\ n # 0
      BY <1>1
    <2>3. \A n \in 0..L : g[n] = IF n = 0 THEN s ELSE Up(n, g[n - 1])
      <3> HIDE DEF Up, L
      <3> QED BY Zenon, <2>1
    <2> HIDE DEF Up, L
    <2> QED BY <2>2, <2>3
  <1>7. 0 \in T /\ \A n \in 1..L : n - 1 \in T => n \in T
    <2> HIDE DEF Up
    <2> QED BY <1>1, <1>2, <1>5, <1>6
  <1>8. L \in 0..L /\ L \in Nat
    BY <1>1
  <1> HIDE DEF L
  <1>9. L \in T
    BY <1>7, <1>8, Along
  <1> QED BY <1>4, <1>5, <1>9 DEF L

-----------------------------------------------------------------------------
(* The types of the saved videos.                                          *)

LibraryCallOK(c) == LibraryRequest(c) /\ LibraryAnswer(c)

LEMMA LibraryMarks ==
    ASSUME NEW c, LibraryCallOK(c)
    PROVE  /\ LibraryCallOK([c EXCEPT !.alone = FALSE])
           /\ LibraryCallOK([c EXCEPT !.kept = FALSE])
           /\ LibraryCallOK([c EXCEPT !.gone = TRUE])
  <1>1. DOMAIN c = LibraryFields
    BY DEF LibraryCallOK, LibraryRequest
  <1>2. LibraryCallOK([c EXCEPT !.alone = FALSE])
    <2>1. PICK d : d = [c EXCEPT !.alone = FALSE]
      OBVIOUS
    <2>2. /\ DOMAIN d = LibraryFields /\ d.alone = FALSE /\ d.kept = c.kept /\ d.gone = c.gone
          /\ d.op = c.op /\ d.at = c.at /\ d.sent = c.sent /\ d.got = c.got
      BY <1>1, <2>1 DEF LibraryFields
    <2>3. LibraryCallOK(d)
      BY <2>2 DEF LibraryCallOK, LibraryRequest, LibraryAnswer
    <2> QED BY <2>1, <2>3
  <1>3. LibraryCallOK([c EXCEPT !.kept = FALSE])
    <2>1. PICK d : d = [c EXCEPT !.kept = FALSE]
      OBVIOUS
    <2>2. /\ DOMAIN d = LibraryFields /\ d.alone = c.alone /\ d.kept = FALSE /\ d.gone = c.gone
          /\ d.op = c.op /\ d.at = c.at /\ d.sent = c.sent /\ d.got = c.got
      BY <1>1, <2>1 DEF LibraryFields
    <2>3. LibraryCallOK(d)
      BY <2>2 DEF LibraryCallOK, LibraryRequest, LibraryAnswer
    <2> QED BY <2>1, <2>3
  <1>4. LibraryCallOK([c EXCEPT !.gone = TRUE])
    <2>1. PICK d : d = [c EXCEPT !.gone = TRUE]
      OBVIOUS
    <2>2. /\ DOMAIN d = LibraryFields /\ d.alone = c.alone /\ d.kept = c.kept /\ d.gone = TRUE
          /\ d.op = c.op /\ d.at = c.at /\ d.sent = c.sent /\ d.got = c.got
      BY <1>1, <2>1 DEF LibraryFields
    <2>3. LibraryCallOK(d)
      BY <2>2 DEF LibraryCallOK, LibraryRequest, LibraryAnswer
    <2> QED BY <2>1, <2>3
  <1> QED BY <1>2, <1>3, <1>4

LEMMA LibraryMarked ==
    ASSUME \A c \in calls : LibraryCallOK(c)
    PROVE  /\ \A d \in {[c EXCEPT !.alone = FALSE] : c \in calls} : LibraryCallOK(d)
           /\ \A d \in {[c EXCEPT !.kept = FALSE] : c \in calls} : LibraryCallOK(d)
  BY LibraryMarks

\* What a request needs to carry.
SendsWell(op, sent) ==
    /\ op \in {"save", "delete", "import", "load", "detail"}
    /\ op = "save" => sent \in Library!View
    /\ op = "delete" => sent \in Nat \ {0}
    /\ op = "import" => sent \in Bundles
    /\ op = "detail" => sent \in Items

LEMMA LibraryBeginsTyped ==
    ASSUME LibraryTypes, NEW op, NEW sent, NEW p, Library!Begin(op, sent, p),
           SendsWell(op, sent), p \in LibraryPage, NamesOnce(p.views)
    PROVE  LibraryTypes'
  <1>1. PICK C : C = {[c EXCEPT !.alone = FALSE] : c \in calls}
    OBVIOUS
  <1>2. PICK slot, alone, d :
             /\ d = [slot |-> slot, op |-> op, at |-> "sent", sent |-> sent, got |-> None,
                     alone |-> alone, kept |-> TRUE, gone |-> FALSE]
             /\ calls' = C \cup {d} /\ alone \in BOOLEAN
    BY <1>1 DEF Library!Begin
  <1>3. LibraryCallOK(d)
    BY <1>2 DEF LibraryCallOK, LibraryRequest, LibraryAnswer, LibraryFields, SendsWell
  <1>4. \A c \in C : LibraryCallOK(c)
    BY <1>1, LibraryMarked DEF LibraryTypes, LibraryCallOK
  <1>5. \A c \in calls' : LibraryRequest(c) /\ LibraryAnswer(c)
    BY <1>2, <1>3, <1>4 DEF LibraryCallOK
  <1>6. left' \in [calls : Nat, edits : Nat, outside : Nat]
    BY DEF Library!Begin, LibraryTypes
  <1>7. server' = server /\ note' = note /\ page' = p
    BY DEF Library!Begin
  <1> QED BY <1>5, <1>6, <1>7 DEF LibraryTypes

LEMMA LibraryEditsTyped ==
    ASSUME LibraryTypes, NEW p, Library!Edit(p), p \in LibraryPage, NamesOnce(p.views)
    PROVE  LibraryTypes'
  <1>1. \A c \in calls' : LibraryRequest(c) /\ LibraryAnswer(c)
    <2>1. \A c \in calls : LibraryCallOK(c)
      BY DEF LibraryTypes, LibraryCallOK
    <2>2. calls' = calls \/ calls' = {[c EXCEPT !.kept = FALSE] : c \in calls}
      BY DEF Library!Edit
    <2> QED BY <2>1, <2>2, LibraryMarked DEF LibraryCallOK
  <1>2. left' \in [calls : Nat, edits : Nat, outside : Nat]
    BY DEF Library!Edit, LibraryTypes
  <1>3. server' = server /\ note' = note /\ page' = p
    BY DEF Library!Edit
  <1> QED BY <1>1, <1>2, <1>3 DEF LibraryTypes

LEMMA FilteredTyped ==
    ASSUME page \in LibraryPage, NEW choice \in Selections
    PROVE  /\ Library!Filtered(choice) \in LibraryPage
           /\ [Library!Filtered(choice) EXCEPT !.draft = None] \in LibraryPage
           /\ Library!Filtered(choice).views = page.views
           /\ [Library!Filtered(choice) EXCEPT !.draft = None].views = page.views
  <1>1. PICK p : p = [page EXCEPT !.choice = choice, !.active = None, !.late = FALSE]
    OBVIOUS
  <1>2. p \in LibraryPage /\ p.views = page.views
    BY <1>1 DEF LibraryPage
  <1>3. PICK q : q = [p EXCEPT !.draft = None]
    OBVIOUS
  <1>4. q \in LibraryPage /\ q.views = page.views
    BY <1>2, <1>3 DEF LibraryPage
  <1> QED BY <1>1, <1>2, <1>3, <1>4 DEF Library!Filtered

LEMMA LibraryEditingTyped ==
    ASSUME LibraryTypes,
           \/ \E choice \in Selections : \/ Library!HandleApplyLibraryPreset(choice)
                                         \/ Library!HandleLibraryFilter(choice)
                                         \/ Library!HandleOpenStorageTriageView(choice)
           \/ Library!HandleResetLibraryFilters
           \/ \E name \in Names : Library!TypeName(name)
           \/ \E i \in DOMAIN page.views : Library!HandleApplySavedLibraryView(i)
           \/ Library!CloseDetail
    PROVE  LibraryTypes'
  <1>0. page \in LibraryPage /\ NamesOnce(page.views) /\ page.views \in Seq(Library!View)
    BY DEF LibraryTypes, LibraryPage
  <1>1. CASE \/ \E choice \in Selections : \/ Library!HandleApplyLibraryPreset(choice)
                                           \/ Library!HandleLibraryFilter(choice)
                                           \/ Library!HandleOpenStorageTriageView(choice)
             \/ Library!HandleResetLibraryFilters
    <2>1. All \in Selections
      BY PagesAssumption DEF Library!SelectionsAssumption
    <2>2. \E choice \in Selections : \/ Library!Edit(Library!Filtered(choice))
                      \/ Library!Edit([Library!Filtered(choice) EXCEPT !.draft = None])
      BY <1>1, <2>1 DEF Library!HandleApplyLibraryPreset, Library!HandleLibraryFilter,
                  Library!HandleOpenStorageTriageView, Library!HandleResetLibraryFilters
    <2>3. ASSUME NEW choice \in Selections, Library!Edit(Library!Filtered(choice))
          PROVE  LibraryTypes'
      <3>1. PICK p : p = Library!Filtered(choice)
        OBVIOUS
      <3>2. p \in LibraryPage /\ p.views = page.views /\ Library!Edit(p)
        BY <1>0, <2>3, <3>1, FilteredTyped
      <3> QED BY <1>0, <3>2, LibraryEditsTyped
    <2>4. ASSUME NEW choice \in Selections, Library!Edit([Library!Filtered(choice) EXCEPT !.draft = None])
          PROVE  LibraryTypes'
      <3>1. PICK p : p = [Library!Filtered(choice) EXCEPT !.draft = None]
        OBVIOUS
      <3>2. p \in LibraryPage /\ p.views = page.views /\ Library!Edit(p)
        BY <1>0, <2>4, <3>1, FilteredTyped
      <3> QED BY <1>0, <3>2, LibraryEditsTyped
    <2> QED BY <2>2, <2>3, <2>4
  <1>2. ASSUME NEW name \in Names, Library!TypeName(name)
        PROVE  LibraryTypes'
    <2>1. PICK p : p = [page EXCEPT !.draft = name] /\ Library!Edit(p)
      BY <1>2 DEF Library!TypeName
    <2>2. p \in LibraryPage /\ p.views = page.views
      BY <1>0, <2>1 DEF LibraryPage
    <2> QED BY <1>0, <2>1, <2>2, LibraryEditsTyped
  <1>3. ASSUME NEW i \in DOMAIN page.views, Library!HandleApplySavedLibraryView(i)
        PROVE  LibraryTypes'
    <2>1. PICK v : v = page.views[i]
      OBVIOUS
    <2>2. v \in Library!View
      BY <1>0, <2>1
    <2>3. v.id \in Int /\ v.choice \in Selections
      BY <2>2 DEF Library!View
    <2>4. PICK p : /\ p = [page EXCEPT !.choice = v.choice, !.active = v.id, !.late = FALSE]
                   /\ Library!Edit(p)
      BY <1>3, <2>1 DEF Library!HandleApplySavedLibraryView
    <2>5. p \in LibraryPage /\ p.views = page.views
      BY <1>0, <2>3, <2>4 DEF LibraryPage
    <2> QED BY <1>0, <2>4, <2>5, LibraryEditsTyped
  <1>4. CASE Library!CloseDetail
    <2>1. page' = [page EXCEPT !.item = None] /\ UNCHANGED <<server, calls, note, left>>
      BY <1>4 DEF Library!CloseDetail
    <2>2. page' \in LibraryPage /\ page'.views = page.views
      BY <1>0, <2>1 DEF LibraryPage
    <2> QED BY <1>0, <2>1, <2>2 DEF LibraryTypes
  <1> QED BY <1>1, <1>2, <1>3, <1>4

LEMMA LibraryPersistTyped ==
    ASSUME LibraryTypes, NEW name \in Names \cup Selections, Library!PersistLibraryView(name)
    PROVE  LibraryTypes'
  <1>0. page \in LibraryPage /\ NamesOnce(page.views) /\ page.views \in Seq(Library!View)
        /\ page.choice \in Selections
    BY DEF LibraryTypes, LibraryPage
  <1>1. PICK view : view = [id |-> -left.calls, name |-> name, choice |-> page.choice]
    OBVIOUS
  <1>2. view \in Library!View /\ view.name = name /\ view.id \in Int
    <2>1. left.calls \in Nat
      BY DEF LibraryTypes
    <2>2. -left.calls \in Int
      BY <2>1
    <2> QED BY <1>0, <1>1, <2>2 DEF Library!View
  <1>3. PICK V : V = Library!Cut(<<view>> \o Library!Without(page.views, name))
    OBVIOUS
  <1>4. V \in Seq(Library!View) /\ NamesOnce(V)
    BY Zenon, <1>0, <1>2, <1>3, PageSaves
  <1>5. PICK p : /\ p = [page EXCEPT !.views = V, !.active = view.id, !.draft = None, !.late = FALSE]
                 /\ Library!Begin("save", view, p)
    BY <1>1, <1>3 DEF Library!PersistLibraryView
  <1>6. p \in LibraryPage /\ p.views = V
    BY <1>0, <1>2, <1>4, <1>5 DEF LibraryPage
  <1>7. SendsWell("save", view)
    BY <1>2 DEF SendsWell
  <1> QED BY <1>4, <1>5, <1>6, <1>7, LibraryBeginsTyped

LEMMA LibraryDeletesTyped ==
    ASSUME LibraryTypes, NEW i \in DOMAIN page.views, Library!HandleDeleteSavedLibraryView(i)
    PROVE  LibraryTypes'
  <1>0. page \in LibraryPage /\ NamesOnce(page.views) /\ page.views \in Seq(Library!View)
    BY DEF LibraryTypes, LibraryPage
  <1>1. PICK id : id = page.views[i].id
    OBVIOUS
  <1>2. id \in Int
    <2>1. page.views[i] \in Library!View
      BY <1>0
    <2> QED BY <1>1, <2>1 DEF Library!View
  <1>3. PICK V, a : V = Library!WithoutId(page.views, id) /\ a = IF page.active = id THEN None ELSE page.active
    OBVIOUS
  <1>4. V \in Seq(Library!View) /\ NamesOnce(V)
    BY Zenon, <1>0, <1>3, WithoutIdKeeps
  <1>5. PICK p : p = [page EXCEPT !.views = V, !.active = a]
    OBVIOUS
  <1>6. p \in LibraryPage /\ p.views = V
    BY <1>0, <1>3, <1>4, <1>5 DEF LibraryPage
  <1>7. IF id > 0 THEN Library!Begin("delete", id, p) ELSE Library!Edit(p)
    BY <1>0, <1>1, <1>3, <1>5 DEF Library!HandleDeleteSavedLibraryView, LibraryPage
  <1>8. id > 0 => SendsWell("delete", id)
    BY <1>2 DEF SendsWell
  <1> QED BY <1>4, <1>6, <1>7, <1>8, LibraryBeginsTyped, LibraryEditsTyped

LEMMA LibraryStartingTyped ==
    ASSUME LibraryTypes,
           \/ Library!HandleSaveLibraryView \/ Library!HandleOverwriteSavedLibraryView
           \/ \E i \in DOMAIN page.views : Library!HandleDeleteSavedLibraryView(i)
           \/ \E bundle \in Bundles : Library!HandleImportLibraryViews(bundle)
           \/ \E item \in Items : Library!HandleOpenLibraryDetail(item)
           \/ Library!Arrive
    PROVE  LibraryTypes'
  <1>0. page \in LibraryPage /\ NamesOnce(page.views) /\ page.views \in Seq(Library!View)
    BY DEF LibraryTypes, LibraryPage
  <1>1. CASE Library!HandleSaveLibraryView
    <2>1. PICK name : name = Library!SavedLibraryViewName /\ Library!PersistLibraryView(name)
      BY <1>1 DEF Library!HandleSaveLibraryView
    <2>2. name \in Names \cup Selections
      BY <1>0, <2>1, Stripped DEF Library!SavedLibraryViewName, LibraryPage
    <2> QED BY <2>1, <2>2, LibraryPersistTyped
  <1>2. CASE Library!HandleOverwriteSavedLibraryView
    <2>1. PICK i \in DOMAIN page.views : Library!PersistLibraryView(page.views[i].name)
      BY <1>2 DEF Library!HandleOverwriteSavedLibraryView, Library!ActiveSavedLibraryView
    <2>2. page.views[i] \in Library!View
      BY <1>0
    <2>3. page.views[i].name \in Names \cup Selections
      BY <2>2 DEF Library!View
    <2> QED BY <2>1, <2>3, LibraryPersistTyped
  <1>3. ASSUME NEW bundle \in Bundles, Library!HandleImportLibraryViews(bundle)
        PROVE  LibraryTypes'
    <2>1. PICK p : p = [page EXCEPT !.import = "importing"] /\ Library!Begin("import", bundle, p)
      BY <1>3 DEF Library!HandleImportLibraryViews
    <2>2. p \in LibraryPage /\ p.views = page.views /\ SendsWell("import", bundle)
      BY <1>0, <2>1 DEF LibraryPage, SendsWell
    <2> QED BY <1>0, <2>1, <2>2, LibraryBeginsTyped
  <1>4. ASSUME NEW item \in Items, Library!HandleOpenLibraryDetail(item)
        PROVE  LibraryTypes'
    <2>1. PICK p, alone : /\ alone \in BOOLEAN
                          /\ p = [page EXCEPT !.item = item, !.detail = "loading", !.files = None,
                                              !.alone = alone]
                          /\ Library!Begin("detail", item, p)
      BY <1>4 DEF Library!HandleOpenLibraryDetail
    <2>2. p \in LibraryPage /\ p.views = page.views /\ SendsWell("detail", item)
      BY <1>0, <2>1 DEF LibraryPage, SendsWell
    <2> QED BY <1>0, <2>1, <2>2, LibraryBeginsTyped
  <1>5. CASE Library!Arrive
    <2>1. PICK p : p = [page EXCEPT !.here = TRUE] /\ Library!Begin("load", None, p)
      BY <1>5 DEF Library!Arrive
    <2>2. p \in LibraryPage /\ p.views = page.views /\ SendsWell("load", None)
      BY <1>0, <2>1 DEF LibraryPage, SendsWell
    <2> QED BY <1>0, <2>1, <2>2, LibraryBeginsTyped
  <1> QED BY <1>1, <1>2, <1>3, <1>4, <1>5, LibraryDeletesTyped

LEMMA LibraryLeavesTyped ==
    ASSUME LibraryTypes, Library!Leave \/ Library!Reload \/ Library!SavedElsewhere
    PROVE  LibraryTypes'
  <1>0. /\ page \in LibraryPage /\ NamesOnce(page.views) /\ page.views \in Seq(Library!View)
        /\ \A c \in calls : LibraryCallOK(c)
    BY DEF LibraryTypes, LibraryPage, LibraryCallOK
  <1>1. CASE Library!Leave
    <2>1. /\ page' = [page EXCEPT !.here = FALSE] /\ calls' \subseteq calls
          /\ UNCHANGED <<server, note, left>>
      BY <1>1 DEF Library!Leave
    <2>2. page' \in LibraryPage /\ page'.views = page.views
      BY <1>0, <2>1 DEF LibraryPage
    <2> QED BY <1>0, <2>1, <2>2 DEF LibraryTypes, LibraryCallOK
  <1>2. CASE Library!Reload
    <2>1. PICK V : V = Library!Cut(page.views)
      OBVIOUS
    <2>2. V \in Seq(Library!View) /\ NamesOnce(V)
      BY <1>0, <2>1, CutBegins, BeginsOnce
    <2>3. All \in Selections
      BY PagesAssumption DEF Library!SelectionsAssumption
    <2>4. page' = [page EXCEPT !.views = V, !.active = None, !.choice = All, !.draft = None,
                   !.import = "idle", !.item = None, !.files = None, !.detail = "idle",
                   !.here = FALSE, !.late = FALSE]
      BY <1>0, <1>2, <2>1 DEF Library!Reload, LibraryPage
    <2>5. page' \in LibraryPage /\ page'.views = V
      BY <1>0, <2>2, <2>3, <2>4 DEF LibraryPage
    <2>6. \A c \in calls : LibraryCallOK([c EXCEPT !.gone = TRUE])
      BY <1>0, LibraryMarks
    <2>7. \A c \in calls' : LibraryCallOK(c)
      BY <1>2, <2>6 DEF Library!Reload
    <2>8. left' \in [calls : Nat, edits : Nat, outside : Nat] /\ server' = server
      BY <1>2 DEF Library!Reload, LibraryTypes
    <2>9. note' \in BOOLEAN
      BY Zenon, <1>2 DEF Library!Reload
    <2> QED BY <2>2, <2>5, <2>7, <2>8, <2>9 DEF LibraryTypes, LibraryCallOK
  <1>3. CASE Library!SavedElsewhere
    <2>1. PICK p : /\ p.name \in Names \cup Selections /\ p.choice \in Selections
                   /\ server' = Library!UpsertLibraryView(server, p)
      <3>1. PICK name \in Names, choice \in Selections :
               server' = Library!UpsertLibraryView(server, [name |-> name, choice |-> choice])
        BY <1>3 DEF Library!SavedElsewhere
      <3> QED BY <3>1
    <2>2. server' \in LibraryServer
      BY <2>1, ServerSaves DEF LibraryTypes
    <2>3. \A c \in calls' : LibraryCallOK(c)
      BY <1>0, <1>3, LibraryMarked DEF Library!SavedElsewhere
    <2>4. left' \in [calls : Nat, edits : Nat, outside : Nat] /\ page' = page
      BY <1>3 DEF Library!SavedElsewhere, LibraryTypes
    <2>5. note' \in BOOLEAN
      BY Zenon, <1>3 DEF Library!SavedElsewhere
    <2> QED BY <1>0, <2>2, <2>3, <2>4, <2>5 DEF LibraryTypes, LibraryCallOK
  <1> QED BY <1>1, <1>2, <1>3

\* What a request makes of the server.
LEMMA LibraryAfter ==
    ASSUME server \in LibraryServer, NEW c, LibraryRequest(c)
    PROVE  /\ Library!After(c) \in LibraryServer
           /\ c.op = "save" =>
                 /\ Len(Library!After(c).views) # 0
                 /\ Library!After(c).views[1].name = c.sent.name
                 /\ Library!After(c).views[1].choice = Strip[c.sent.choice]
                 /\ Begins(Library!Without(server.views, c.sent.name),
                           Library!Without(Library!After(c).views, c.sent.name))
           /\ c.op = "delete" =>
                 /\ Library!After(c).views = Library!WithoutId(server.views, c.sent)
                 /\ \A i \in DOMAIN Library!After(c).views : Library!After(c).views[i].id # c.sent
           /\ c.op \in {"load", "detail"} => Library!After(c) = server
  <1>1. PICK t : t = Library!After(c)
    OBVIOUS
  <1>2. CASE c.op = "save"
    <2>1. t = Library!UpsertLibraryView(server, c.sent)
      BY <1>1, <1>2 DEF Library!After
    <2>2. c.sent.name \in Names \cup Selections /\ c.sent.choice \in Selections
      BY <1>2 DEF LibraryRequest, Library!View
    <2>3. /\ t \in LibraryServer
          /\ Len(t.views) # 0 /\ t.views[1].name = c.sent.name /\ t.views[1].choice = Strip[c.sent.choice]
          /\ Begins(Library!Without(server.views, c.sent.name), Library!Without(t.views, c.sent.name))
      BY Zenon, <2>1, <2>2, ServerSaves
    <2> QED BY <1>1, <1>2, <2>3
  <1>3. CASE c.op = "delete"
    <2>1. t = Library!DeleteLibraryView(server, c.sent)
      BY <1>1, <1>3 DEF Library!After
    <2>2. /\ t \in LibraryServer /\ t.views = Library!WithoutId(server.views, c.sent)
          /\ \A i \in DOMAIN t.views : t.views[i].id # c.sent
      BY Zenon, <2>1, ServerDeletes
    <2> QED BY <1>1, <1>3, <2>2
  <1>4. CASE c.op = "import"
    <2>1. t = Library!ImportLibraryViews(server, c.sent)
      BY <1>1, <1>4 DEF Library!After
    <2>2. c.sent \in Bundles
      BY <1>4 DEF LibraryRequest
    <2>3. t \in LibraryServer
      BY <2>1, <2>2, ServerImports
    <2> QED BY <1>1, <1>4, <2>3
  <1>5. CASE c.op \in {"load", "detail"}
    BY <1>5 DEF Library!After
  <1> QED BY <1>2, <1>3, <1>4, <1>5 DEF LibraryRequest

LEMMA LibraryServedTyped ==
    ASSUME LibraryTypes, NEW c \in calls, Library!Served(c)
    PROVE  LibraryTypes'
  <1>0. LibraryRequest(c) /\ server \in LibraryServer /\ DOMAIN c = LibraryFields
    BY DEF LibraryTypes, LibraryRequest
  <1>1. server' = Library!After(c) /\ c.at = "sent" /\ UNCHANGED <<page, note, left>>
    BY DEF Library!Served
  <1>2. PICK s : s = server'
    OBVIOUS
  <1>3. /\ s \in LibraryServer
        /\ c.op = "save" => /\ Len(s.views) # 0
                            /\ s.views[1].name = c.sent.name /\ s.views[1].choice = Strip[c.sent.choice]
    BY <1>0, <1>1, <1>2, LibraryAfter
  <1>4. PICK d : d = [c EXCEPT !.at = "answer", !.got = IF c.op = "detail" THEN c.sent ELSE s.views]
    OBVIOUS
  <1>5. calls' \subseteq calls \cup {d}
    BY <1>2, <1>4 DEF Library!Served
  <1>6. /\ DOMAIN d = LibraryFields /\ d.alone = c.alone /\ d.kept = c.kept /\ d.gone = c.gone
        /\ d.op = c.op /\ d.at = "answer" /\ d.sent = c.sent
        /\ d.got = IF c.op = "detail" THEN c.sent ELSE s.views
    BY <1>0, <1>4 DEF LibraryFields
  <1>7. LibraryRequest(d)
    BY <1>0, <1>6 DEF LibraryRequest
  <1>8. s.views \in Seq(Library!View) /\ NamesOnce(s.views)
    BY <1>3 DEF LibraryServer
  <1>9. LibraryAnswer(d)
    BY <1>3, <1>6, <1>8 DEF LibraryAnswer
  <1> QED BY <1>1, <1>2, <1>3, <1>5, <1>7, <1>9 DEF LibraryTypes

\* A call that has ended, or goes on as a timer.
LEMMA LibraryEndsTyped ==
    ASSUME LibraryTypes, NEW c \in calls,
           calls' \subseteq calls \cup IF c.op = "import" THEN {[c EXCEPT !.at = "timer", !.got = None]}
                                       ELSE {},
           page' \in LibraryPage, NamesOnce(page'.views), note' \in BOOLEAN,
           UNCHANGED <<server, left>>
    PROVE  LibraryTypes'
  <1>0. LibraryRequest(c) /\ DOMAIN c = LibraryFields
    BY DEF LibraryTypes, LibraryRequest
  <1>1. PICK d : d = [c EXCEPT !.at = "timer", !.got = None]
    OBVIOUS
  <1>2. /\ DOMAIN d = LibraryFields /\ d.alone = c.alone /\ d.kept = c.kept /\ d.gone = c.gone
        /\ d.op = c.op /\ d.at = "timer" /\ d.sent = c.sent
    BY <1>0, <1>1 DEF LibraryFields
  <1>3. c.op = "import" => LibraryRequest(d) /\ LibraryAnswer(d)
    BY <1>0, <1>2 DEF LibraryRequest, LibraryAnswer
  <1>4. \A x \in calls' : LibraryRequest(x) /\ LibraryAnswer(x)
    BY <1>1, <1>3 DEF LibraryTypes
  <1> QED BY <1>4 DEF LibraryTypes

LEMMA LibraryAnswersTyped ==
    ASSUME LibraryTypes, NEW c \in calls, Library!Answers(c)
    PROVE  LibraryTypes'
  <1>0. /\ page \in LibraryPage /\ NamesOnce(page.views) /\ page.views \in Seq(Library!View)
        /\ note \in BOOLEAN /\ LibraryRequest(c) /\ LibraryAnswer(c)
        /\ {c.alone, c.kept, c.gone} \subseteq BOOLEAN
    BY DEF LibraryTypes, LibraryPage, LibraryRequest
  <1>1. CASE Library!SaveAnswered(c)
    <2>1. /\ c.op = "save" /\ c.at = "answer" /\ c.got \in Seq(Library!View) /\ Len(c.got) # 0
          /\ c.got[1].name = c.sent.name
      BY <1>0, <1>1 DEF Library!SaveAnswered, LibraryAnswer
    <2>2. PICK x, V : x = c.got[1] /\ V = Library!Cut(<<x>> \o Library!Without(page.views, x.name))
      OBVIOUS
    <2>3. x \in Library!View
      BY <2>1, <2>2
    <2>4. V \in Seq(Library!View) /\ NamesOnce(V)
      BY Zenon, <1>0, <2>2, <2>3, PageSaves
    <2>5. /\ page' = [page EXCEPT !.views = V, !.active = x.id, !.late = ~c.kept]
          /\ note' = (note /\ c.alone) /\ calls' = calls \ {c} /\ UNCHANGED <<server, left>>
      BY <1>0, <1>1, <2>1, <2>2 DEF Library!SaveAnswered, Library!Shown, Library!Ends, LibraryPage
    <2>6. x.id \in Int /\ (~c.kept) \in BOOLEAN
      <3>1. x.id \in Int
        BY <2>3 DEF Library!View
      <3>2. (~c.kept) \in BOOLEAN
        BY Zenon
      <3> QED BY <3>1, <3>2
    <2>7. page' \in LibraryPage /\ page'.views = V
      BY <1>0, <2>4, <2>5, <2>6 DEF LibraryPage
    <2> QED BY <1>0, <2>4, <2>5, <2>7, LibraryEndsTyped
  <1>2. CASE Library!DeleteAnswered(c)
    <2>1. page' = page /\ note' = (note /\ c.alone) /\ calls' = calls \ {c} /\ UNCHANGED <<server, left>>
      BY <1>2 DEF Library!DeleteAnswered, Library!Shown, Library!Ends
    <2> QED BY <1>0, <2>1, LibraryEndsTyped
  <1>3. CASE Library!ImportAnswered(c)
    <2>1. c.op = "import" /\ c.at = "answer" /\ c.got \in Seq(Library!View) /\ NamesOnce(c.got)
      BY <1>0, <1>3 DEF Library!ImportAnswered, LibraryAnswer
    <2>2. PICK V, l : V = Library!Cut(c.got) /\ l = (page.late \/ page.active # None)
      OBVIOUS
    <2>3. V \in Seq(Library!View) /\ NamesOnce(V)
      BY <2>1, <2>2, CutBegins, BeginsOnce
    <2>4. /\ page' = [page EXCEPT !.views = V, !.import = "done", !.late = l]
          /\ note' = c.alone /\ UNCHANGED <<server, left>>
          /\ calls' = (calls \ {c}) \cup {[c EXCEPT !.at = "timer", !.got = None]}
      BY <1>0, <1>3, <2>2 DEF Library!ImportAnswered, Library!Shown, LibraryPage
    <2>5. l \in BOOLEAN
      BY <1>0, <2>2 DEF LibraryPage
    <2>6. page' \in LibraryPage /\ page'.views = V
      BY <1>0, <2>3, <2>4, <2>5 DEF LibraryPage
    <2>7. calls' \subseteq calls \cup IF c.op = "import" THEN {[c EXCEPT !.at = "timer", !.got = None]} ELSE {}
      BY <2>1, <2>4
    <2> QED BY <1>0, <2>3, <2>4, <2>6, <2>7, LibraryEndsTyped
  <1>4. CASE Library!LibraryViewsLoaded(c)
    <2>1. c.op = "load" /\ c.at = "answer" /\ c.got \in Seq(Library!View) /\ NamesOnce(c.got)
      BY <1>0, <1>4 DEF Library!LibraryViewsLoaded, LibraryAnswer
    <2>2. PICK l : l = (page.late \/ page.active # None)
      OBVIOUS
    <2>3. /\ page' = [page EXCEPT !.views = c.got, !.late = l]
          /\ note' = c.alone /\ calls' = calls \ {c} /\ UNCHANGED <<server, left>>
      BY <1>0, <1>4, <2>2 DEF Library!LibraryViewsLoaded, Library!Shown, Library!Ends, LibraryPage
    <2>4. l \in BOOLEAN
      BY <1>0, <2>2 DEF LibraryPage
    <2>5. page' \in LibraryPage /\ page'.views = c.got
      BY <1>0, <2>1, <2>3, <2>4 DEF LibraryPage
    <2> QED BY <1>0, <2>1, <2>3, <2>5, LibraryEndsTyped
  <1>5. CASE Library!DetailAnswered(c)
    <2>1. c.op = "detail" /\ c.at = "answer" /\ c.got \in Items
      BY <1>0, <1>5 DEF Library!DetailAnswered, LibraryAnswer, LibraryRequest
    <2>2. /\ page' = [page EXCEPT !.files = c.got, !.detail = "idle"]
          /\ note' = note /\ calls' = calls \ {c} /\ UNCHANGED <<server, left>>
      BY <1>5 DEF Library!DetailAnswered, Library!Shown, Library!Ends
    <2>3. page' \in LibraryPage /\ page'.views = page.views
      BY <1>0, <2>1, <2>2 DEF LibraryPage
    <2> QED BY <1>0, <2>2, <2>3, LibraryEndsTyped
  <1>6. CASE Library!TimerFires(c)
    <2>1. /\ page' = [page EXCEPT !.import = "idle"]
          /\ note' = note /\ calls' = calls \ {c} /\ UNCHANGED <<server, left>>
      BY <1>6 DEF Library!TimerFires, Library!Shown, Library!Ends
    <2>2. page' \in LibraryPage /\ page'.views = page.views
      BY <1>0, <2>1 DEF LibraryPage
    <2> QED BY <1>0, <2>1, <2>2, LibraryEndsTyped
  <1>7. CASE Library!Fails(c)
    <2>1. /\ \/ page' = [page EXCEPT !.import = "error"]
             \/ page' = [page EXCEPT !.detail = "error"]
             \/ page' = page
          /\ note' = (note /\ c.op \in {"load", "detail"}) /\ UNCHANGED <<server, left>>
      BY <1>7 DEF Library!Fails, Library!Shown
    <2>2. page' \in LibraryPage /\ page'.views = page.views
      BY <1>0, <2>1 DEF LibraryPage
    <2>3. calls' \subseteq calls \cup IF c.op = "import" THEN {[c EXCEPT !.at = "timer", !.got = None]} ELSE {}
      BY <1>7 DEF Library!Fails
    <2>4. note' \in BOOLEAN
      BY <2>1
    <2> QED BY <1>0, <2>1, <2>2, <2>3, <2>4, LibraryEndsTyped
  <1> QED BY <1>1, <1>2, <1>3, <1>4, <1>5, <1>6, <1>7, LibraryServedTyped DEF Library!Answers

LEMMA LibraryTypesInit ==
    ASSUME Library!Init
    PROVE  LibraryTypes
  <1>1. PICK p \in LibraryPlans :
           /\ server = [views |-> p.views, next |-> Len(p.views) + 1] /\ left = p.bounds
           /\ page = [views |-> Library!Cut(p.views), active |-> None, choice |-> All, draft |-> None,
                      import |-> "idle", item |-> None, files |-> None, detail |-> "idle",
                      here |-> FALSE, late |-> FALSE, alone |-> TRUE]
           /\ calls = {} /\ note = TRUE
    BY DEF Library!Init
  <1>2. /\ p.views \in Seq(Library!View) /\ p.bounds \in [calls : Nat, edits : Nat, outside : Nat]
        /\ \A i \in DOMAIN p.views : p.views[i].id \in 1..Len(p.views)
        /\ NamesOnce(p.views) /\ IdsOnce(p.views)
    BY PagesAssumption DEF Library!PlansAssumption, NamesOnce, IdsOnce
  <1>3. Library!Cut(p.views) \in Seq(Library!View) /\ NamesOnce(Library!Cut(p.views))
    BY <1>2, CutBegins, BeginsOnce
  <1>4. PICK V : V = Library!Cut(p.views)
    OBVIOUS
  <1>5. All \in Selections
    BY PagesAssumption DEF Library!SelectionsAssumption
  <1>6. page \in LibraryPage /\ page.views = V
    BY <1>1, <1>3, <1>4, <1>5 DEF LibraryPage
  <1>7. server \in LibraryServer
    <2>1. PICK n : n = Len(p.views)
      OBVIOUS
    <2>2. n \in Nat /\ n + 1 \in Nat \ {0} /\ (n + 1) - 1 = n
      BY <1>2, <2>1
    <2>3. server \in [views : Seq(Library!View), next : Nat \ {0}]
      BY <1>1, <1>2, <2>1, <2>2
    <2>4. server.views = p.views /\ server.next - 1 = n
      BY <1>1, <2>1, <2>2
    <2> QED BY <1>2, <2>1, <2>3, <2>4 DEF LibraryServer
  <1> QED BY <1>1, <1>2, <1>3, <1>4, <1>6, <1>7 DEF LibraryTypes

LEMMA LibraryTypesStep ==
    ASSUME LibraryTypes, [Library!Next]_(Library!vars)
    PROVE  LibraryTypes'
  <1>1. CASE Library!Operator
    BY <1>1, LibraryEditingTyped, LibraryStartingTyped, LibraryLeavesTyped DEF Library!Operator
  <1>2. CASE Library!SavedElsewhere
    BY <1>2, LibraryLeavesTyped
  <1>3. ASSUME NEW c \in calls, Library!Answers(c)
        PROVE  LibraryTypes'
    BY <1>3, LibraryAnswersTyped
  <1>4. CASE UNCHANGED Library!vars
    BY <1>4 DEF Library!vars, LibraryTypes
  <1> QED BY <1>1, <1>2, <1>3, <1>4 DEF Library!Next

LEMMA LibraryTypesOK ==
    ASSUME LibraryTypes
    PROVE  Library!TypeOK
  <1>1. /\ server.views \in Seq(Library!View) /\ server.next \in Nat \ {0}
        /\ \A i \in DOMAIN server.views : server.views[i].id \in 1..(server.next - 1)
    BY DEF LibraryTypes, LibraryServer
  <1>2. \A i \in DOMAIN server.views : server.views[i] \in Library!View /\ server.views[i].id \in 1..server.next
    BY <1>1
  <1>3. page \in LibraryPage /\ note \in BOOLEAN
    BY DEF LibraryTypes
  <1>4. page.views \in Seq(Library!View)
    BY <1>3 DEF LibraryPage
  <1>5. \A i \in DOMAIN page.views : page.views[i] \in Library!View
    BY <1>4
  <1> QED BY <1>2, <1>3, <1>5 DEF Library!TypeOK, LibraryPage

-----------------------------------------------------------------------------
(* What a page shows of the server: requests that begin, edits.            *)

\* d is c, with fewer marks.
SameCall(d, c) ==
    /\ d.op = c.op /\ d.at = c.at /\ d.sent = c.sent /\ d.got = c.got /\ d.gone = c.gone
    /\ d.alone => c.alone
    /\ d.kept => c.kept

LEMMA LibraryCarries ==
    ASSUME NEW c, LibraryRequest(c)
    PROVE  /\ SameCall(c, c)
           /\ SameCall([c EXCEPT !.alone = FALSE], c) /\ ~[c EXCEPT !.alone = FALSE].alone
           /\ SameCall([c EXCEPT !.kept = FALSE], c) /\ ~[c EXCEPT !.kept = FALSE].kept
  <1>1. DOMAIN c = LibraryFields
    BY DEF LibraryRequest
  <1>2. PICK d : d = [c EXCEPT !.alone = FALSE]
    OBVIOUS
  <1>3. /\ d.alone = FALSE /\ d.kept = c.kept /\ d.gone = c.gone
        /\ d.op = c.op /\ d.at = c.at /\ d.sent = c.sent /\ d.got = c.got
    BY <1>1, <1>2 DEF LibraryFields
  <1>4. SameCall(d, c) /\ ~d.alone
    BY <1>3 DEF SameCall
  <1>5. PICK e : e = [c EXCEPT !.kept = FALSE]
    OBVIOUS
  <1>6. /\ e.alone = c.alone /\ e.kept = FALSE /\ e.gone = c.gone
        /\ e.op = c.op /\ e.at = c.at /\ e.sent = c.sent /\ e.got = c.got
    BY <1>1, <1>5 DEF LibraryFields
  <1>7. SameCall(e, c) /\ ~e.kept
    BY <1>6 DEF SameCall
  <1> QED BY <1>2, <1>4, <1>5, <1>7 DEF SameCall

\* What a request may make of the page as it begins.
ViewsAfter(op, sent, p) ==
    /\ op = "save" =>
          (Begins(page.views, server.views) =>
              Begins(Library!Without(p.views, sent.name), Library!Without(server.views, sent.name)))
    /\ op = "delete" =>
          (Begins(page.views, server.views) /\ ActiveFits(page) =>
              Begins(p.views, Library!WithoutId(server.views, sent)) /\ ActiveFits(p))
    /\ op \in {"load", "detail"} => /\ p.views = page.views /\ p.active = page.active
                                    /\ p.late = page.late

SameFiles(p) ==
    p.item = page.item /\ p.detail = page.detail /\ p.files = page.files /\ p.alone = page.alone

FilesAfter(op, sent, p) ==
    IF op = "detail"
    THEN p.item = sent /\ p.detail = "loading" /\ (p.alone => \A c \in calls : c.op # "detail")
    ELSE SameFiles(p)

LEMMA LibraryBeginsFit ==
    ASSUME LibraryTypes, ViewsInv, NEW op, NEW sent, NEW p, Library!Begin(op, sent, p),
           SendsWell(op, sent), p.choice = page.choice, op = "save" => sent.choice = page.choice,
           ViewsAfter(op, sent, p), FilesAfter(op, sent, p)
    PROVE  ViewsInv'
  <1>1. PICK C : C = {[c EXCEPT !.alone = FALSE] : c \in calls}
    OBVIOUS
  <1>2. PICK d : /\ d.op = op /\ d.at = "sent" /\ d.sent = sent /\ d.gone = FALSE /\ d.kept = TRUE
                 /\ d.alone => calls = {}
                 /\ calls' = C \cup {d}
    <2>1. PICK slot, alone, d :
             /\ d = [slot |-> slot, op |-> op, at |-> "sent", sent |-> sent, got |-> None,
                     alone |-> alone, kept |-> TRUE, gone |-> FALSE]
             /\ calls' = C \cup {d} /\ (alone => calls = {})
      BY <1>1 DEF Library!Begin
    <2> QED BY <2>1
  <1>3. /\ \A x \in C : ~x.alone /\ \E c \in calls : SameCall(x, c)
        /\ \A c \in calls : \E x \in C : x.op = c.op /\ x.at = c.at
    <2>1. \A c \in calls : SameCall([c EXCEPT !.alone = FALSE], c) /\ ~[c EXCEPT !.alone = FALSE].alone
      BY LibraryCarries DEF LibraryTypes
    <2>2. \A x \in C : ~x.alone /\ \E c \in calls : SameCall(x, c)
      BY <1>1, <2>1
    <2>3. \A c \in calls : \E x \in C : SameCall(x, c)
      BY <1>1, <2>1
    <2> QED BY <2>2, <2>3 DEF SameCall
  <1>4. calls = {} => C = {}
    BY <1>1
  <1>5. server' = server /\ note' = note /\ page' = p
    BY DEF Library!Begin
  <1>6. AloneIsSo'
    BY <1>2, <1>3, <1>4, <1>5 DEF AloneIsSo
  <1>7. KeptIsSo'
    <2>1. KeptIsSo
      BY DEF ViewsInv
    <2> QED BY <1>2, <1>3, <1>5, <2>1 DEF KeptIsSo, SameCall
  <1>8. FirmIsSo'
    <2>1. SUFFICES ASSUME note
                   PROVE  /\ \A c \in calls' : ~c.gone
                          /\ (\A c \in calls' : ~Changes(c)) =>
                                Begins(page'.views, server'.views) /\ ActiveFits(page')
                          /\ \A c \in calls' : c.alone /\ Changes(c) =>
                                (c.op = "save" => SaveFits(c)') /\ (c.op = "delete" => DeleteFits(c)')
      BY <1>5 DEF FirmIsSo
    <2>2. /\ \A c \in calls : ~c.gone
          /\ (\A c \in calls : ~Changes(c)) => Begins(page.views, server.views) /\ ActiveFits(page)
      BY <2>1 DEF ViewsInv, FirmIsSo
    <2>3. \A c \in calls' : ~c.gone
      BY <1>2, <1>3, <2>2 DEF SameCall
    <2>4. ASSUME \A c \in calls' : ~Changes(c)
          PROVE  Begins(page'.views, server'.views) /\ ActiveFits(page')
      <3>1. op \in {"load", "detail"}
        BY <1>2, <2>4 DEF Changes, SendsWell
      <3>2. \A c \in calls : ~Changes(c)
        BY <1>2, <1>3, <2>4 DEF Changes
      <3>3. p.views = page.views /\ p.active = page.active /\ p.late = page.late
        BY <3>1 DEF ViewsAfter
      <3> QED BY <1>5, <2>2, <3>2, <3>3 DEF ActiveFits
    <2>5. ASSUME NEW c \in calls', c.alone, Changes(c)
          PROVE  (c.op = "save" => SaveFits(c)') /\ (c.op = "delete" => DeleteFits(c)')
      <3>1. c = d /\ calls = {}
        BY <1>2, <1>3, <2>5
      <3>2. Begins(page.views, server.views) /\ ActiveFits(page)
        BY <2>2, <3>1
      <3>3. c.at # "answer"
        BY <1>2, <3>1
      <3>4. c.op = "save" => SaveFits(c)'
        BY <1>2, <1>5, <3>1, <3>2, <3>3 DEF SaveFits, ViewsAfter
      <3>5. c.op = "delete" => DeleteFits(c)'
        BY <1>2, <1>5, <3>1, <3>2, <3>3 DEF DeleteFits, ViewsAfter
      <3> QED BY <3>4, <3>5
    <2> QED BY <2>3, <2>4, <2>5
  <1>9. FilesFit'
    <2>1. FilesFit
      BY DEF ViewsInv
    <2>2. CASE op = "detail"
      <3>1. p.item = sent /\ p.detail = "loading" /\ (p.alone => \A c \in calls : c.op # "detail")
        BY <2>2 DEF FilesAfter
      <3>2. p.alone => \A x \in C : x.op # "detail"
        BY <1>3, <3>1 DEF SameCall
      <3>3. p.alone => \A x \in calls' : x.op = "detail" => x.sent = p.item
        BY <1>2, <3>1, <3>2
      <3> QED BY <1>5, <3>1, <3>3 DEF FilesFit
    <2>3. CASE op # "detail"
      <3>1. p.item = page.item /\ p.detail = page.detail /\ p.files = page.files /\ p.alone = page.alone
        BY <2>3 DEF FilesAfter, SameFiles
      <3>2. \A x \in calls' : x.op = "detail" => \E c \in calls : c.op = "detail" /\ x.sent = c.sent
        BY <1>2, <1>3, <2>3 DEF SameCall
      <3> QED BY <1>5, <2>1, <3>1, <3>2 DEF FilesFit
    <2> QED BY <2>2, <2>3
  <1>10. GoneIsSent'
    BY <1>2, <1>3 DEF ViewsInv, GoneIsSent, SameCall
  <1> QED BY <1>6, <1>7, <1>8, <1>9, <1>10 DEF ViewsInv

\* The filters change, or the view marked active.
LEMMA LibraryEditsFit ==
    ASSUME LibraryTypes, ViewsInv, NEW p, Library!Edit(p), SameFiles(p),
           p.views = page.views, IdsOnce(page.views) /\ ActiveFits(page) => ActiveFits(p)
    PROVE  ViewsInv'
  <1>1. server' = server /\ note' = note /\ page' = p
    BY DEF Library!Edit
  <1>2. PICK C : C = {[c EXCEPT !.kept = FALSE] : c \in calls}
    OBVIOUS
  <1>3. calls' = IF p.choice = page.choice THEN calls ELSE C
    BY <1>2 DEF Library!Edit
  <1>4. /\ \A x \in C : ~x.kept /\ \E c \in calls : SameCall(x, c)
        /\ \A c \in calls : \E x \in C : x.op = c.op /\ x.at = c.at
    <2>1. \A c \in calls : SameCall([c EXCEPT !.kept = FALSE], c) /\ ~[c EXCEPT !.kept = FALSE].kept
      BY LibraryCarries DEF LibraryTypes
    <2>2. \A x \in C : ~x.kept /\ \E c \in calls : SameCall(x, c)
      BY <1>2, <2>1
    <2>3. \A c \in calls : \E x \in C : SameCall(x, c)
      BY <1>2, <2>1
    <2> QED BY <2>2, <2>3 DEF SameCall
  <1>5. \A x \in C, c \in calls : calls = {c} => C = {x}
    BY <1>2
  <1>6. AloneIsSo'
    <2>1. AloneIsSo
      BY DEF ViewsInv
    <2>2. CASE calls' = calls
      BY <1>1, <2>1, <2>2 DEF AloneIsSo
    <2>3. CASE calls' = C
      <3>1. SUFFICES ASSUME NEW x \in C, x.alone
                     PROVE  C = {x} /\ (x.at = "answer" /\ x.op # "detail" => x.got = server.views)
        BY <1>1, <2>3 DEF AloneIsSo
      <3>2. PICK c \in calls : SameCall(x, c)
        BY <1>4
      <3>3. calls = {c} /\ (c.at = "answer" /\ c.op # "detail" => c.got = server.views)
        BY <2>1, <3>1, <3>2 DEF AloneIsSo, SameCall
      <3> QED BY <1>5, <3>2, <3>3 DEF SameCall
    <2> QED BY <1>3, <2>2, <2>3
  <1>7. KeptIsSo'
    <2>1. KeptIsSo
      BY DEF ViewsInv
    <2> QED BY <1>1, <1>3, <1>4, <2>1 DEF KeptIsSo
  <1>8. \A x \in calls' : \E c \in calls : SameCall(x, c)
    <2>1. \A c \in calls : SameCall(c, c)
      BY DEF SameCall
    <2> QED BY <1>3, <1>4, <2>1
  <1>9. \A c \in calls : \E x \in calls' : x.op = c.op /\ x.at = c.at
    BY <1>3, <1>4
  <1>10. FirmIsSo'
    <2>1. SUFFICES ASSUME note
                   PROVE  /\ \A c \in calls' : ~c.gone
                          /\ (\A c \in calls' : ~Changes(c)) =>
                                Begins(page'.views, server'.views) /\ ActiveFits(page')
                          /\ \A c \in calls' : c.alone /\ Changes(c) =>
                                (c.op = "save" => SaveFits(c)') /\ (c.op = "delete" => DeleteFits(c)')
      BY <1>1 DEF FirmIsSo
    <2>2. /\ \A c \in calls : ~c.gone
          /\ (\A c \in calls : ~Changes(c)) => Begins(page.views, server.views) /\ ActiveFits(page)
          /\ \A c \in calls : c.alone /\ Changes(c) =>
                (c.op = "save" => SaveFits(c)) /\ (c.op = "delete" => DeleteFits(c))
      BY <2>1 DEF ViewsInv, FirmIsSo
    <2>3. /\ server.views \in Seq(Library!View) /\ page.views \in Seq(Library!View)
          /\ IdsOnce(server.views)
      BY DEF LibraryTypes, LibraryServer, LibraryPage
    <2>4. \A c \in calls' : ~c.gone
      BY <1>8, <2>2 DEF SameCall
    <2>5. ASSUME \A c \in calls' : ~Changes(c)
          PROVE  Begins(page'.views, server'.views) /\ ActiveFits(page')
      <3>1. \A c \in calls : ~Changes(c)
        BY <1>9, <2>5 DEF Changes
      <3>2. IdsOnce(page.views)
        BY <2>2, <2>3, <3>1, BeginsOnce
      <3> QED BY <1>1, <2>2, <3>1, <3>2
    <2>6. ASSUME NEW x \in calls', x.alone, Changes(x)
          PROVE  (x.op = "save" => SaveFits(x)') /\ (x.op = "delete" => DeleteFits(x)')
      <3>1. PICK c \in calls : SameCall(x, c)
        BY <1>8
      <3>2. (c.op = "save" => SaveFits(c)) /\ (c.op = "delete" => DeleteFits(c))
        BY <2>2, <2>6, <3>1 DEF SameCall, Changes
      <3>3. x.op = "save" => SaveFits(x)'
        BY <1>1, <3>1, <3>2 DEF SaveFits, SameCall
      <3>4. ASSUME x.op = "delete"
            PROVE  DeleteFits(x)'
        <4>1. Begins(page.views, Library!WithoutId(server.views, x.sent))
          BY <3>1, <3>2, <3>4 DEF DeleteFits, SameCall
        <4>2. /\ Library!WithoutId(server.views, x.sent) \in Seq(Library!View)
              /\ IdsOnce(Library!WithoutId(server.views, x.sent))
          BY <2>3, WithoutIdKeeps
        <4>3. IdsOnce(page.views)
          BY <2>3, <4>1, <4>2, BeginsOnce
        <4>4. ActiveFits(page)
          BY <3>1, <3>2, <3>4 DEF DeleteFits, SameCall
        <4> QED BY <1>1, <3>1, <3>2, <3>4, <4>3, <4>4 DEF DeleteFits, SameCall
      <3> QED BY <3>3, <3>4
    <2> QED BY <2>4, <2>5, <2>6
  <1>11. FilesFit'
    <2>1. FilesFit
      BY DEF ViewsInv
    <2> QED BY <1>1, <1>8, <2>1 DEF FilesFit, SameFiles, SameCall
  <1>12. GoneIsSent'
    BY <1>8 DEF ViewsInv, GoneIsSent, SameCall
  <1> QED BY <1>6, <1>7, <1>10, <1>11, <1>12 DEF ViewsInv

\* No view is marked when nothing is.
LEMMA NoneActive ==
    ASSUME NEW p, p.views \in Seq(Library!View), p.active = None
    PROVE  ActiveFits(p)
  <1>1. \A i \in DOMAIN p.views : p.views[i].id \in Int
    <2>1. PICK V : V = p.views
      OBVIOUS
    <2>2. \A i \in DOMAIN V : V[i] \in Library!View
      BY <2>1
    <2> QED BY <2>1, <2>2 DEF Library!View
  <1>2. None \notin Int
    BY PagesAssumption DEF Library!SelectionsAssumption
  <1> QED BY <1>1, <1>2 DEF ActiveFits

LEMMA LibraryFiltersFit ==
    ASSUME LibraryTypes, ViewsInv, NEW choice \in Selections,
           Library!Edit(Library!Filtered(choice))
           \/ Library!Edit([Library!Filtered(choice) EXCEPT !.draft = None])
    PROVE  ViewsInv'
  <1>0. page \in LibraryPage /\ page.views \in Seq(Library!View)
    BY DEF LibraryTypes, LibraryPage
  <1>1. PICK p : p = [page EXCEPT !.choice = choice, !.active = None, !.late = FALSE]
    OBVIOUS
  <1>2. /\ p.views = page.views /\ p.active = None /\ SameFiles(p) /\ p \in LibraryPage
    BY <1>0, <1>1 DEF LibraryPage, SameFiles
  <1>3. PICK q : q = [p EXCEPT !.draft = None]
    OBVIOUS
  <1>4. q.views = page.views /\ q.active = None /\ SameFiles(q)
    BY <1>2, <1>3 DEF LibraryPage, SameFiles
  <1>5. Library!Edit(p) \/ Library!Edit(q)
    BY <1>1, <1>3 DEF Library!Filtered
  <1>6. ActiveFits(p) /\ ActiveFits(q)
    BY <1>0, <1>2, <1>4, NoneActive
  <1> QED BY <1>2, <1>4, <1>5, <1>6, LibraryEditsFit

LEMMA LibraryEditingFit ==
    ASSUME LibraryTypes, ViewsInv,
           \/ \E choice \in Selections : \/ Library!HandleApplyLibraryPreset(choice)
                                         \/ Library!HandleLibraryFilter(choice)
                                         \/ Library!HandleOpenStorageTriageView(choice)
           \/ Library!HandleResetLibraryFilters
           \/ \E name \in Names : Library!TypeName(name)
           \/ \E i \in DOMAIN page.views : Library!HandleApplySavedLibraryView(i)
           \/ Library!CloseDetail
    PROVE  ViewsInv'
  <1>0. page \in LibraryPage /\ page.views \in Seq(Library!View)
    BY DEF LibraryTypes, LibraryPage
  <1>1. CASE \/ \E choice \in Selections : \/ Library!HandleApplyLibraryPreset(choice)
                                           \/ Library!HandleLibraryFilter(choice)
                                           \/ Library!HandleOpenStorageTriageView(choice)
             \/ Library!HandleResetLibraryFilters
    <2>1. All \in Selections
      BY PagesAssumption DEF Library!SelectionsAssumption
    <2>2. \E choice \in Selections : \/ Library!Edit(Library!Filtered(choice))
                      \/ Library!Edit([Library!Filtered(choice) EXCEPT !.draft = None])
      BY <1>1, <2>1 DEF Library!HandleApplyLibraryPreset, Library!HandleLibraryFilter,
                  Library!HandleOpenStorageTriageView, Library!HandleResetLibraryFilters
    <2> QED BY <2>2, LibraryFiltersFit
  <1>2. ASSUME NEW name \in Names, Library!TypeName(name)
        PROVE  ViewsInv'
    <2>1. PICK p : p = [page EXCEPT !.draft = name] /\ Library!Edit(p)
      BY <1>2 DEF Library!TypeName
    <2>2. /\ p.views = page.views /\ SameFiles(p) /\ p.active = page.active
          /\ p.late = page.late /\ p.choice = page.choice
      BY <1>0, <2>1 DEF LibraryPage, SameFiles
    <2>3. ActiveFits(page) => ActiveFits(p)
      BY <2>2 DEF ActiveFits
    <2> QED BY <2>1, <2>2, <2>3, LibraryEditsFit
  <1>3. ASSUME NEW i \in DOMAIN page.views, Library!HandleApplySavedLibraryView(i)
        PROVE  ViewsInv'
    <2>1. PICK p : /\ p = [page EXCEPT !.choice = page.views[i].choice, !.active = page.views[i].id, !.late = FALSE]
                   /\ Library!Edit(p)
      BY <1>3 DEF Library!HandleApplySavedLibraryView
    <2>2. /\ p.views = page.views /\ SameFiles(p) /\ p.active = page.views[i].id
          /\ p.choice = page.views[i].choice
      BY <1>0, <2>1 DEF LibraryPage, SameFiles
    <2>3. IdsOnce(page.views) => ActiveFits(p)
      BY <2>2 DEF ActiveFits, IdsOnce
    <2> QED BY <2>1, <2>2, <2>3, LibraryEditsFit
  <1>4. CASE Library!CloseDetail
    <2>1. page' = [page EXCEPT !.item = None] /\ UNCHANGED <<server, calls, note, left>>
      BY <1>4 DEF Library!CloseDetail
    <2>2. /\ page'.views = page.views /\ page'.active = page.active /\ page'.late = page.late
          /\ page'.choice = page.choice /\ page'.item = None
      BY <1>0, <2>1 DEF LibraryPage
    <2>3. AloneIsSo' /\ GoneIsSent' /\ KeptIsSo'
      BY <2>1, <2>2 DEF ViewsInv, AloneIsSo, GoneIsSent, KeptIsSo
    <2>4. FilesFit'
      BY <2>2 DEF FilesFit
    <2>5. ActiveFits(page) => ActiveFits(page')
      BY <2>2 DEF ActiveFits
    <2>6. FirmIsSo'
      BY <2>1, <2>2, <2>5 DEF ViewsInv, FirmIsSo, SaveFits, DeleteFits
    <2> QED BY <2>3, <2>4, <2>6 DEF ViewsInv
  <1> QED BY <1>1, <1>2, <1>3, <1>4

LEMMA LibraryPersistFit ==
    ASSUME LibraryTypes, ViewsInv, NEW name \in Names \cup Selections, Library!PersistLibraryView(name)
    PROVE  ViewsInv'
  <1>0. /\ page \in LibraryPage /\ NamesOnce(page.views) /\ page.views \in Seq(Library!View)
        /\ page.choice \in Selections
        /\ server.views \in Seq(Library!View) /\ NamesOnce(server.views)
    BY DEF LibraryTypes, LibraryPage, LibraryServer
  <1>1. PICK view : view = [id |-> -left.calls, name |-> name, choice |-> page.choice]
    OBVIOUS
  <1>2. view \in Library!View /\ view.name = name /\ view.choice = page.choice
    <2>1. left.calls \in Nat
      BY DEF LibraryTypes
    <2>2. -left.calls \in Int
      BY <2>1
    <2> QED BY <1>0, <1>1, <2>2 DEF Library!View
  <1>3. PICK V : V = Library!Cut(<<view>> \o Library!Without(page.views, name))
    OBVIOUS
  <1>4. /\ V \in Seq(Library!View)
        /\ Begins(Library!Without(V, name), Library!Without(page.views, name))
    BY Zenon, <1>0, <1>2, <1>3, PageSaves
  <1>5. PICK p : /\ p = [page EXCEPT !.views = V, !.active = view.id, !.draft = None, !.late = FALSE]
                 /\ Library!Begin("save", view, p)
    BY <1>1, <1>3 DEF Library!PersistLibraryView
  <1>6. p.views = V /\ SameFiles(p) /\ p.choice = page.choice
    BY <1>0, <1>5 DEF LibraryPage, SameFiles
  <1>7. SendsWell("save", view)
    BY <1>2 DEF SendsWell
  <1>8. ASSUME Begins(page.views, server.views)
        PROVE  Begins(Library!Without(V, name), Library!Without(server.views, name))
    <2>1. Begins(Library!Without(page.views, name), Library!Without(server.views, name))
      BY <1>0, <1>8, WithoutBegins
    <2>2. /\ Library!Without(V, name) \in Seq(Library!View)
          /\ Library!Without(page.views, name) \in Seq(Library!View)
          /\ Library!Without(server.views, name) \in Seq(Library!View)
      BY <1>0, <1>4, WithoutKeeps
    <2> QED BY <1>4, <2>1, <2>2, BeginsBegins
  <1>9. ViewsAfter("save", view, p)
    BY <1>2, <1>6, <1>8 DEF ViewsAfter
  <1>10. FilesAfter("save", view, p)
    BY <1>6 DEF FilesAfter
  <1> QED BY <1>2, <1>5, <1>6, <1>7, <1>9, <1>10, LibraryBeginsFit

LEMMA WithoutIdFrom ==
    ASSUME NEW V \in Seq(Library!View), NEW id, NEW W, W = Library!WithoutId(V, id)
    PROVE  /\ W \in Seq(Library!View)
           /\ \A r \in DOMAIN W : W[r].id # id
           /\ \A r \in DOMAIN W : \E i \in DOMAIN V : W[r] = V[i]
  <1>1. PICK I : I = {i \in DOMAIN V : V[i].id # id}
    OBVIOUS
  <1>2. W = Library!Filter(V, I) /\ I \in SUBSET (DOMAIN V)
    BY <1>1 DEF Library!WithoutId
  <1>3. PICK X : X = Library!Filter(V, I)
    OBVIOUS
  <1>4. /\ X \in Seq(Library!View)
        /\ NamesOnce(V) => NamesOnce(X)
        /\ IdsOnce(V) => IdsOnce(X)
        /\ \A r \in DOMAIN X : \E i \in I : X[r] = V[i]
    BY Zenon, <1>2, <1>3, WithoutNames
  <1>5. W = X
    BY <1>2, <1>3
  <1> QED BY <1>1, <1>4, <1>5

\* The marked view stays, or none is marked.
LEMMA DeletedActive ==
    ASSUME NEW p, NEW q, NEW id, p.views \in Seq(Library!View), q.views = Library!WithoutId(p.views, id),
           q.active = (IF p.active = id THEN None ELSE p.active), q.late = p.late, q.choice = p.choice,
           ActiveFits(p)
    PROVE  ActiveFits(q)
  <1>1. PICK V, W : V = p.views /\ W = q.views
    OBVIOUS
  <1>5. V \in Seq(Library!View) /\ W = Library!WithoutId(V, id)
    BY <1>1
  <1>4. /\ W \in Seq(Library!View)
        /\ \A r \in DOMAIN W : W[r].id # id
        /\ \A r \in DOMAIN W : \E i \in DOMAIN V : W[r] = V[i]
    BY <1>5, WithoutIdFrom
  <1>2. CASE p.active = id
    BY <1>1, <1>4, <1>2, NoneActive
  <1>3. CASE p.active # id
    BY <1>1, <1>4, <1>3 DEF ActiveFits
  <1> QED BY <1>2, <1>3

\* A view that no save has numbered yet.
LEMMA LibraryDropsLocalFit ==
    ASSUME LibraryTypes, ViewsInv, NEW i \in DOMAIN page.views, ~(page.views[i].id > 0), NEW p,
           p.views = Library!WithoutId(page.views, page.views[i].id),
           SameFiles(p), p.choice = page.choice, Library!Edit(p)
    PROVE  ViewsInv'
  <1>0. /\ NamesOnce(page.views) /\ page.views \in Seq(Library!View)
        /\ server.views \in Seq(Library!View) /\ \A k \in DOMAIN server.views : server.views[k].id > 0
    BY DEF LibraryTypes, LibraryPage, LibraryServer
  <1>1. server' = server /\ note' = note /\ page' = p /\ calls' = calls
    BY DEF Library!Edit
  <1>2. AloneIsSo' /\ GoneIsSent' /\ KeptIsSo'
    BY <1>1 DEF ViewsInv, AloneIsSo, GoneIsSent, KeptIsSo
  <1>3. FilesFit'
    BY <1>1 DEF ViewsInv, FilesFit, SameFiles
  <1>4. FirmIsSo'
    <2>1. SUFFICES ASSUME note
                   PROVE  /\ \A c \in calls : ~c.gone
                          /\ (\A c \in calls : ~Changes(c)) =>
                                Begins(p.views, server.views) /\ ActiveFits(p)
                          /\ \A c \in calls : c.alone /\ Changes(c) =>
                                (c.op = "save" => SaveFits(c)') /\ (c.op = "delete" => DeleteFits(c)')
      BY <1>1 DEF FirmIsSo
    <2>2. /\ \A c \in calls : ~c.gone
          /\ (\A c \in calls : ~Changes(c)) => Begins(page.views, server.views) /\ ActiveFits(page)
          /\ \A c \in calls : c.alone /\ Changes(c) =>
                (c.op = "save" => SaveFits(c)) /\ (c.op = "delete" => DeleteFits(c))
      BY <2>1 DEF ViewsInv, FirmIsSo
    <2>3. ~Begins(page.views, server.views)
      BY <1>0 DEF Begins
    <2>4. \A c \in calls : ~DeleteFits(c)
      <3>1. SUFFICES ASSUME NEW c \in calls, Begins(page.views, Library!WithoutId(server.views, c.sent))
                     PROVE  FALSE
        BY DEF DeleteFits
      <3>2. PICK W : W = Library!WithoutId(server.views, c.sent)
        OBVIOUS
      <3>8. PICK V : V = server.views
        OBVIOUS
      <3>9. V \in Seq(Library!View) /\ W = Library!WithoutId(V, c.sent)
        BY <1>0, <3>2, <3>8
      <3>3. W \in Seq(Library!View) /\ \A r \in DOMAIN W : \E k \in DOMAIN V : W[r] = V[k]
        BY <3>9, WithoutIdFrom
      <3>4. \A r \in DOMAIN W : W[r].id > 0
        BY <1>0, <3>3, <3>8
      <3>5. PICK P : P = page.views
        OBVIOUS
      <3>6. P \in Seq(Library!View) /\ Begins(P, W) /\ i \in DOMAIN P /\ ~(P[i].id > 0)
        BY <1>0, <3>1, <3>2, <3>5
      <3>7. i \in DOMAIN W /\ P[i] = W[i]
        BY <3>3, <3>6 DEF Begins
      <3> QED BY <3>4, <3>6, <3>7
    <2>5. ASSUME NEW c \in calls, c.alone, Changes(c), c.op = "save"
          PROVE  SaveFits(c)'
      <3>1. SaveFits(c)
        BY <2>2, <2>5
      <3>2. Begins(Library!Without(p.views, c.sent.name), Library!Without(server.views, c.sent.name))
        BY <1>0, <3>1, PageDropsLocal DEF SaveFits
      <3> QED BY <1>1, <3>1, <3>2 DEF SaveFits
    <2> QED BY <2>2, <2>3, <2>4, <2>5
  <1> QED BY <1>2, <1>3, <1>4 DEF ViewsInv

LEMMA LibraryDeletesFit ==
    ASSUME LibraryTypes, ViewsInv, NEW i \in DOMAIN page.views, Library!HandleDeleteSavedLibraryView(i)
    PROVE  ViewsInv'
  <1>0. /\ page \in LibraryPage /\ page.views \in Seq(Library!View)
        /\ server.views \in Seq(Library!View) /\ IdsOnce(server.views)
    BY DEF LibraryTypes, LibraryPage, LibraryServer
  <1>1. PICK id : id = page.views[i].id
    OBVIOUS
  <1>2. id \in Int
    <2>1. page.views[i] \in Library!View
      BY <1>0
    <2> QED BY <1>1, <2>1 DEF Library!View
  <1>3. PICK V, a : V = Library!WithoutId(page.views, id) /\ a = IF page.active = id THEN None ELSE page.active
    OBVIOUS
  <1>4. V \in Seq(Library!View)
    BY Zenon, <1>0, <1>3, WithoutIdKeeps
  <1>5. PICK p : p = [page EXCEPT !.views = V, !.active = a]
    OBVIOUS
  <1>6. /\ p.views = V /\ p.active = a /\ p.late = page.late /\ p.choice = page.choice /\ SameFiles(p)
    BY <1>0, <1>5 DEF LibraryPage, SameFiles
  <1>7. IF id > 0 THEN Library!Begin("delete", id, p) ELSE Library!Edit(p)
    BY <1>0, <1>1, <1>3, <1>5 DEF Library!HandleDeleteSavedLibraryView, LibraryPage
  <1>8. CASE id > 0
    <2>1. SendsWell("delete", id)
      BY <1>2, <1>8 DEF SendsWell
    <2>2. Begins(page.views, server.views) => Begins(V, Library!WithoutId(server.views, id))
      BY <1>0, <1>3, WithoutIdBegins
    <2>3. ActiveFits(page) => ActiveFits(p)
      BY <1>0, <1>3, <1>6, DeletedActive
    <2>4. ViewsAfter("delete", id, p)
      BY <1>6, <2>2, <2>3 DEF ViewsAfter
    <2>5. FilesAfter("delete", id, p)
      BY <1>6 DEF FilesAfter
    <2> QED BY <1>6, <1>7, <1>8, <2>1, <2>4, <2>5, LibraryBeginsFit
  <1>9. CASE ~(id > 0)
    BY <1>1, <1>3, <1>6, <1>7, <1>9, LibraryDropsLocalFit
  <1> QED BY <1>8, <1>9

LEMMA LibraryStartingFit ==
    ASSUME LibraryTypes, ViewsInv,
           \/ Library!HandleSaveLibraryView \/ Library!HandleOverwriteSavedLibraryView
           \/ \E i \in DOMAIN page.views : Library!HandleDeleteSavedLibraryView(i)
           \/ \E bundle \in Bundles : Library!HandleImportLibraryViews(bundle)
           \/ \E item \in Items : Library!HandleOpenLibraryDetail(item)
           \/ Library!Arrive
    PROVE  ViewsInv'
  <1>0. page \in LibraryPage /\ page.views \in Seq(Library!View)
    BY DEF LibraryTypes, LibraryPage
  <1>1. CASE Library!HandleSaveLibraryView
    <2>1. PICK name : name = Library!SavedLibraryViewName /\ Library!PersistLibraryView(name)
      BY <1>1 DEF Library!HandleSaveLibraryView
    <2>2. name \in Names \cup Selections
      BY <1>0, <2>1, Stripped DEF Library!SavedLibraryViewName, LibraryPage
    <2> QED BY <2>1, <2>2, LibraryPersistFit
  <1>2. CASE Library!HandleOverwriteSavedLibraryView
    <2>1. PICK i \in DOMAIN page.views : Library!PersistLibraryView(page.views[i].name)
      BY <1>2 DEF Library!HandleOverwriteSavedLibraryView, Library!ActiveSavedLibraryView
    <2>2. page.views[i] \in Library!View
      BY <1>0
    <2>3. page.views[i].name \in Names \cup Selections
      BY <2>2 DEF Library!View
    <2> QED BY <2>1, <2>3, LibraryPersistFit
  <1>3. ASSUME NEW bundle \in Bundles, Library!HandleImportLibraryViews(bundle)
        PROVE  ViewsInv'
    <2>1. PICK p : p = [page EXCEPT !.import = "importing"] /\ Library!Begin("import", bundle, p)
      BY <1>3 DEF Library!HandleImportLibraryViews
    <2>2. SendsWell("import", bundle)
      BY DEF SendsWell
    <2>3. p.choice = page.choice /\ FilesAfter("import", bundle, p) /\ ViewsAfter("import", bundle, p)
      BY <1>0, <2>1 DEF LibraryPage, FilesAfter, SameFiles, ViewsAfter
    <2> QED BY <2>1, <2>2, <2>3, LibraryBeginsFit
  <1>4. ASSUME NEW item \in Items, Library!HandleOpenLibraryDetail(item)
        PROVE  ViewsInv'
    <2>1. PICK p, alone : /\ alone = (\A c \in calls : c.op # "detail")
                          /\ p = [page EXCEPT !.item = item, !.detail = "loading", !.files = None,
                                              !.alone = alone]
                          /\ Library!Begin("detail", item, p)
      BY <1>4 DEF Library!HandleOpenLibraryDetail
    <2>2. SendsWell("detail", item)
      BY DEF SendsWell
    <2>3. /\ p.choice = page.choice /\ p.views = page.views /\ p.active = page.active /\ p.late = page.late
          /\ p.item = item /\ p.detail = "loading" /\ p.alone = alone
      BY <1>0, <2>1 DEF LibraryPage
    <2>4. FilesAfter("detail", item, p) /\ ViewsAfter("detail", item, p)
      BY <2>1, <2>3 DEF FilesAfter, ViewsAfter
    <2> QED BY <2>1, <2>2, <2>3, <2>4, LibraryBeginsFit
  <1>5. CASE Library!Arrive
    <2>1. PICK p : p = [page EXCEPT !.here = TRUE] /\ Library!Begin("load", None, p)
      BY <1>5 DEF Library!Arrive
    <2>2. SendsWell("load", None)
      BY DEF SendsWell
    <2>3. p.choice = page.choice /\ FilesAfter("load", None, p) /\ ViewsAfter("load", None, p)
      BY <1>0, <2>1 DEF LibraryPage, FilesAfter, SameFiles, ViewsAfter
    <2> QED BY <2>1, <2>2, <2>3, LibraryBeginsFit
  <1> QED BY <1>1, <1>2, <1>3, <1>4, <1>5, LibraryDeletesFit

\* The page is left, or reloaded; or another session saves.
LEMMA LibraryLeavesFit ==
    ASSUME LibraryTypes, ViewsInv, Library!Leave \/ Library!Reload \/ Library!SavedElsewhere
    PROVE  ViewsInv'
  <1>0. page \in LibraryPage /\ page.views \in Seq(Library!View) /\ \A c \in calls : LibraryRequest(c)
    BY DEF LibraryTypes, LibraryPage
  <1>1. CASE Library!Leave
    <2>1. /\ page' = [page EXCEPT !.here = FALSE] /\ calls' = {c \in calls : c.op # "load"}
          /\ UNCHANGED <<server, note, left>>
      BY <1>1 DEF Library!Leave
    <2>2. /\ page'.views = page.views /\ page'.active = page.active /\ page'.late = page.late
          /\ page'.choice = page.choice
          /\ page'.item = page.item /\ page'.alone = page.alone
          /\ page'.detail = page.detail /\ page'.files = page.files
      BY <1>0, <2>1 DEF LibraryPage
    <2>3. AloneIsSo' /\ GoneIsSent' /\ KeptIsSo'
      BY <2>1, <2>2 DEF ViewsInv, AloneIsSo, GoneIsSent, KeptIsSo
    <2>4. FilesFit'
      BY <2>1, <2>2 DEF ViewsInv, FilesFit
    <2>5. ActiveFits(page) => ActiveFits(page')
      BY <2>2 DEF ActiveFits
    <2>6. (\A c \in calls' : ~Changes(c)) => \A c \in calls : ~Changes(c)
      BY <2>1 DEF Changes
    <2>7. FirmIsSo'
      BY <2>1, <2>2, <2>5, <2>6 DEF ViewsInv, FirmIsSo, SaveFits, DeleteFits
    <2> QED BY <2>3, <2>4, <2>7 DEF ViewsInv
  <1>2. CASE Library!Reload
    <2>1. page'.item = None /\ note' = FALSE
      BY <1>0, <1>2 DEF Library!Reload, LibraryPage
    <2>2. PICK C : C = {[c EXCEPT !.gone = TRUE] : c \in {d \in calls : d.at = "sent"}}
      OBVIOUS
    <2>3. calls' = C
      BY <1>2, <2>2 DEF Library!Reload
    <2>4. ASSUME NEW c \in calls
          PROVE  LET d == [c EXCEPT !.gone = TRUE]
                 IN  d.gone = TRUE /\ d.at = c.at /\ d.alone = c.alone
      <3>1. PICK d : d = [c EXCEPT !.gone = TRUE]
        OBVIOUS
      <3>2. DOMAIN c = LibraryFields
        BY <1>0 DEF LibraryRequest
      <3>3. d.gone = TRUE /\ d.at = c.at /\ d.alone = c.alone
        BY <3>1, <3>2 DEF LibraryFields
      <3> QED BY <3>1, <3>3
    <2>5. \A d \in C : d.gone /\ d.at = "sent" /\ \E c \in calls : d.alone = c.alone
      BY <2>2, <2>4
    <2>6. \A c \in calls : calls = {c} => \A d \in C : C = {d}
      BY <2>2
    <2>7. AloneIsSo' /\ GoneIsSent' /\ KeptIsSo'
      <3>1. AloneIsSo'
        BY <2>3, <2>5, <2>6 DEF ViewsInv, AloneIsSo
      <3> QED BY <2>3, <2>5, <3>1 DEF GoneIsSent, KeptIsSo
    <2>8. FirmIsSo' /\ FilesFit'
      BY <2>1 DEF FirmIsSo, FilesFit
    <2> QED BY <2>7, <2>8 DEF ViewsInv
  <1>3. CASE Library!SavedElsewhere
    <2>1. page' = page /\ note' = FALSE
      BY <1>3 DEF Library!SavedElsewhere
    <2>2. PICK C : C = {[c EXCEPT !.alone = FALSE] : c \in calls}
      OBVIOUS
    <2>3. calls' = C
      BY <1>3, <2>2 DEF Library!SavedElsewhere
    <2>4. \A c \in calls : SameCall([c EXCEPT !.alone = FALSE], c) /\ ~[c EXCEPT !.alone = FALSE].alone
      BY <1>0, LibraryCarries
    <2>5. \A x \in C : ~x.alone /\ \E c \in calls : SameCall(x, c)
      BY <2>2, <2>4
    <2>6. AloneIsSo' /\ GoneIsSent'
      BY <2>3, <2>5 DEF ViewsInv, AloneIsSo, GoneIsSent, SameCall
    <2>7. KeptIsSo'
      BY <2>1, <2>3, <2>5 DEF ViewsInv, KeptIsSo, SameCall
    <2>8. FirmIsSo'
      BY <2>1 DEF FirmIsSo
    <2>9. FilesFit'
      BY <2>1, <2>3, <2>5 DEF ViewsInv, FilesFit, SameCall
    <2> QED BY <2>6, <2>7, <2>8, <2>9 DEF ViewsInv
  <1> QED BY <1>1, <1>2, <1>3

\* A list that does not hold the number is as it was without it.
LEMMA WithoutIdSame ==
    ASSUME NEW V \in Seq(Library!View), NEW id, IdsOnce(V), \A i \in DOMAIN V : V[i].id # id
    PROVE  Library!WithoutId(V, id) = V
  <1>1. PICK W : W = Library!WithoutId(V, id)
    OBVIOUS
  <1>2. \/ W = V /\ \A i \in DOMAIN V : V[i].id # id
        \/ \E k \in DOMAIN V : V[k].id = id /\ Drops(V, W, k)
    BY <1>1, WithoutIdIs
  <1> QED BY <1>1, <1>2

LEMMA LibraryServedFit ==
    ASSUME LibraryTypes, ViewsInv, NEW c \in calls, Library!Served(c)
    PROVE  ViewsInv'
  <1>0. /\ LibraryRequest(c) /\ server \in LibraryServer /\ DOMAIN c = LibraryFields
        /\ server.views \in Seq(Library!View) /\ page.views \in Seq(Library!View)
    BY DEF LibraryTypes, LibraryRequest, LibraryServer, LibraryPage
  <1>1. server' = Library!After(c) /\ c.at = "sent" /\ page' = page /\ note' = note
    BY DEF Library!Served
  <1>2. PICK s : s = server'
    OBVIOUS
  <1>3. /\ s \in LibraryServer
        /\ c.op = "save" => /\ Len(s.views) # 0 /\ s.views[1].name = c.sent.name
                            /\ Begins(Library!Without(server.views, c.sent.name),
                                      Library!Without(s.views, c.sent.name))
        /\ c.op = "delete" => /\ s.views = Library!WithoutId(server.views, c.sent)
                              /\ \A i \in DOMAIN s.views : s.views[i].id # c.sent
        /\ c.op \in {"load", "detail"} => s = server
    BY <1>0, <1>1, <1>2, LibraryAfter
  <1>4. PICK d : d = [c EXCEPT !.at = "answer", !.got = IF c.op = "detail" THEN c.sent ELSE s.views]
    OBVIOUS
  <1>5. calls' = (calls \ {c}) \cup IF c.gone THEN {} ELSE {d}
    BY <1>2, <1>4 DEF Library!Served
  <1>6. /\ d.alone = c.alone /\ d.kept = c.kept /\ d.gone = c.gone
        /\ d.op = c.op /\ d.at = "answer" /\ d.sent = c.sent
        /\ d.got = IF c.op = "detail" THEN c.sent ELSE s.views
    BY <1>0, <1>4 DEF LibraryFields
  <1>7. \A x \in calls' : x.alone => x = d /\ calls = {c} /\ calls' = {d}
    <2>1. \A x \in calls : x.alone => calls = {x}
      BY DEF ViewsInv, AloneIsSo
    <2> QED BY <1>5, <1>6, <2>1
  <1>8. AloneIsSo'
    BY <1>2, <1>6, <1>7 DEF AloneIsSo
  <1>9. GoneIsSent' /\ KeptIsSo'
    BY <1>1, <1>5, <1>6 DEF ViewsInv, GoneIsSent, KeptIsSo
  <1>10. FilesFit'
    BY <1>1, <1>5, <1>6 DEF ViewsInv, FilesFit
  <1>11. FirmIsSo'
    <2>1. SUFFICES ASSUME note
                   PROVE  /\ \A x \in calls' : ~x.gone
                          /\ (\A x \in calls' : ~Changes(x)) =>
                                Begins(page'.views, server'.views) /\ ActiveFits(page')
                          /\ \A x \in calls' : x.alone /\ Changes(x) =>
                                (x.op = "save" => SaveFits(x)') /\ (x.op = "delete" => DeleteFits(x)')
      BY <1>1 DEF FirmIsSo
    <2>2. /\ \A x \in calls : ~x.gone
          /\ (\A x \in calls : ~Changes(x)) => Begins(page.views, server.views) /\ ActiveFits(page)
          /\ c.alone /\ Changes(c) => (c.op = "save" => SaveFits(c)) /\ (c.op = "delete" => DeleteFits(c))
      BY <2>1 DEF ViewsInv, FirmIsSo
    <2>3. \A x \in calls' : ~x.gone
      BY <1>5, <1>6, <2>2
    <2>4. ASSUME \A x \in calls' : ~Changes(x)
          PROVE  Begins(page'.views, server'.views) /\ ActiveFits(page')
      <3>1. ~Changes(d) /\ \A x \in calls \ {c} : ~Changes(x)
        BY <1>5, <2>2, <2>4
      <3>2. ~Changes(c) /\ c.op \in {"load", "detail"}
        BY <1>0, <1>1, <1>6, <3>1 DEF Changes, LibraryRequest
      <3>3. Begins(page.views, server.views) /\ ActiveFits(page)
        BY <2>2, <3>1, <3>2
      <3> QED BY <1>1, <1>2, <1>3, <3>2, <3>3
    <2>5. ASSUME NEW x \in calls', x.alone, Changes(x)
          PROVE  (x.op = "save" => SaveFits(x)') /\ (x.op = "delete" => DeleteFits(x)')
      <3>1. x = d /\ c.alone /\ Changes(c)
        BY <1>1, <1>6, <1>7, <2>5 DEF Changes
      <3>2. ASSUME c.op = "save"
            PROVE  SaveFits(d)'
        <4>1. PICK n : n = c.sent.name
          OBVIOUS
        <4>2. Begins(Library!Without(page.views, n), Library!Without(server.views, n))
          BY <2>2, <3>1, <3>2, <4>1 DEF SaveFits
        <4>3. Begins(Library!Without(server.views, n), Library!Without(s.views, n))
          BY <1>3, <3>2, <4>1
        <4>4. s.views \in Seq(Library!View)
          BY <1>3 DEF LibraryServer
        <4>5. /\ Library!Without(page.views, n) \in Seq(Library!View)
              /\ Library!Without(server.views, n) \in Seq(Library!View)
              /\ Library!Without(s.views, n) \in Seq(Library!View)
          BY <1>0, <4>4, WithoutKeeps
        <4>6. Begins(Library!Without(page.views, n), Library!Without(s.views, n))
          BY <4>2, <4>3, <4>5, BeginsBegins
        <4> QED BY <1>1, <1>2, <1>3, <1>6, <3>2, <4>1, <4>6 DEF SaveFits
      <3>3. ASSUME c.op = "delete"
            PROVE  DeleteFits(d)'
        <4>1. Begins(page.views, s.views) /\ ActiveFits(page)
          BY <1>3, <2>2, <3>1, <3>3 DEF DeleteFits
        <4>2. s.views \in Seq(Library!View) /\ IdsOnce(s.views)
          BY <1>3 DEF LibraryServer
        <4>3. Library!WithoutId(s.views, c.sent) = s.views
          BY <1>3, <3>3, <4>2, WithoutIdSame
        <4> QED BY <1>1, <1>2, <1>3, <1>6, <3>3, <4>1, <4>3 DEF DeleteFits
      <3> QED BY <1>6, <3>1, <3>2, <3>3
    <2> QED BY <2>3, <2>4, <2>5
  <1> QED BY <1>8, <1>9, <1>10, <1>11 DEF ViewsInv

\* The page shows the server's views again; or what it showed, for an answer that does not
\* change them.
ShowsServer(c, p) == c.alone /\ Begins(p.views, server.views) /\ ActiveFits(p)

ShowsSame(c, p) ==
    /\ note /\ ~Changes(c)
    /\ p.views = page.views /\ p.active = page.active /\ p.late = page.late

FilesStay(c, p) ==
    /\ p.item = page.item /\ p.alone = page.alone
    /\ \/ p.detail = page.detail /\ p.files = page.files
       \/ p.detail = "error"
       \/ c.op = "detail" /\ p.files = c.sent

\* A call that has ended, or goes on as a timer.
LEMMA LibraryEndsFit ==
    ASSUME LibraryTypes, ViewsInv, NEW c \in calls, ~c.gone, NEW p, page' = p, server' = server,
           calls \ {c} \subseteq calls',
           calls' \subseteq (calls \ {c}) \cup
              IF c.op = "import" THEN {[c EXCEPT !.at = "timer", !.got = None]} ELSE {},
           p.choice = page.choice,
           note' => ShowsServer(c, p) \/ ShowsSame(c, p),
           FilesStay(c, p)
    PROVE  ViewsInv'
  <1>0. LibraryRequest(c) /\ DOMAIN c = LibraryFields
    BY DEF LibraryTypes, LibraryRequest
  <1>1. PICK d : d = [c EXCEPT !.at = "timer", !.got = None]
    OBVIOUS
  <1>2. /\ d.alone = c.alone /\ d.gone = c.gone /\ d.op = c.op /\ d.at = "timer"
    BY <1>0, <1>1 DEF LibraryFields
  <1>3. \A x \in calls' : (x \in calls /\ x # c) \/ (x = d /\ d.op = "import")
    <2>1. CASE c.op = "import"
      BY <1>1, <1>2, <2>1
    <2>2. CASE c.op # "import"
      BY <2>2
    <2> QED BY <2>1, <2>2
  <1>4. \A x \in calls : x.alone => calls = {x}
    BY DEF ViewsInv, AloneIsSo
  <1>5. \A x \in calls' : x.alone => x = d /\ calls' = {d}
    BY <1>2, <1>3, <1>4
  <1>6. AloneIsSo'
    BY <1>2, <1>5 DEF AloneIsSo
  <1>7. GoneIsSent'
    BY <1>2, <1>3 DEF ViewsInv, GoneIsSent
  <1>8. KeptIsSo'
    BY <1>2, <1>3 DEF ViewsInv, KeptIsSo
  <1>9. ~Changes(d)
    BY <1>2 DEF Changes
  <1>10. ASSUME note', ShowsServer(c, p)
         PROVE  FirmIsSo'
    <2>1. calls = {c}
      BY <1>4, <1>10 DEF ShowsServer
    <2>2. \A x \in calls' : x = d
      BY <1>3, <2>1
    <2>3. Begins(p.views, server.views) /\ ActiveFits(p)
      BY <1>10 DEF ShowsServer
    <2> QED BY <1>2, <1>9, <2>2, <2>3 DEF FirmIsSo
  <1>11. ASSUME note', ShowsSame(c, p)
         PROVE  FirmIsSo'
    <2>1. /\ note /\ ~Changes(c)
          /\ p.views = page.views /\ p.active = page.active /\ p.late = page.late
      BY <1>11 DEF ShowsSame
    <2>2. /\ \A x \in calls : ~x.gone
          /\ (\A x \in calls : ~Changes(x)) => Begins(page.views, server.views) /\ ActiveFits(page)
      BY <2>1 DEF ViewsInv, FirmIsSo
    <2>3. ActiveFits(page) => ActiveFits(p)
      BY <2>1 DEF ActiveFits
    <2>4. (\A x \in calls' : ~Changes(x)) => \A x \in calls : ~Changes(x)
      BY <2>1
    <2>5. (\A x \in calls' : ~Changes(x)) => Begins(p.views, server.views) /\ ActiveFits(p)
      BY <2>1, <2>2, <2>3, <2>4
    <2>6. \A x \in calls' : ~x.gone
      BY <1>2, <1>3, <2>2
    <2> QED BY <1>5, <1>9, <2>5, <2>6 DEF FirmIsSo
  <1>12. FirmIsSo'
    <2>1. CASE ~note'
      BY <2>1 DEF FirmIsSo
    <2> QED BY <1>10, <1>11, <2>1
  <1>13. FilesFit'
    <2>1. FilesFit
      BY DEF ViewsInv
    <2>2. (p.item # None /\ p.alone) => \A x \in calls : x.op = "detail" => x.sent = p.item
      BY <2>1 DEF FilesFit, FilesStay
    <2>3. (p.item # None /\ p.alone) => \A x \in calls' : x.op = "detail" => x.sent = p.item
      BY <1>2, <1>3, <2>2
    <2>4. (p.item # None /\ p.alone /\ p.detail = "idle") => p.files = p.item
      BY <2>1, <2>2 DEF FilesFit, FilesStay
    <2> QED BY <2>3, <2>4 DEF FilesFit
  <1> QED BY <1>6, <1>7, <1>8, <1>12, <1>13 DEF ViewsInv

LEMMA LibrarySaveAnsweredFit ==
    ASSUME LibraryTypes, ViewsInv, NEW c \in calls, Library!SaveAnswered(c)
    PROVE  ViewsInv'
  <1>0. /\ page \in LibraryPage /\ page.views \in Seq(Library!View) /\ LibraryAnswer(c)
        /\ server.views \in Seq(Library!View) /\ NamesOnce(server.views) /\ IdsOnce(server.views)
    BY DEF LibraryTypes, LibraryPage, LibraryServer
  <1>1. /\ c.op = "save" /\ c.at = "answer" /\ c.got \in Seq(Library!View) /\ Len(c.got) # 0
        /\ c.got[1].name = c.sent.name /\ c.got[1].choice = Strip[c.sent.choice]
    BY <1>0 DEF Library!SaveAnswered, LibraryAnswer
  <1>2. PICK x, V, l : /\ x = c.got[1] /\ V = Library!Cut(<<x>> \o Library!Without(page.views, c.sent.name))
                       /\ l = ~c.kept
    OBVIOUS
  <1>3. x \in Library!View
    BY <1>1, <1>2
  <1>4. V \in Seq(Library!View)
    <2>1. V = Library!Cut(<<x>> \o Library!Without(page.views, x.name))
      BY <1>1, <1>2
    <2>2. PICK W : W = Library!Without(page.views, x.name)
      OBVIOUS
    <2>3. W \in Seq(Library!View)
      BY <1>0, <2>2, WithoutKeeps
    <2>4. <<x>> \o W \in Seq(Library!View)
      BY <1>3, <2>3, OnTop
    <2> QED BY <2>1, <2>2, <2>4, CutBegins
  <1>5. PICK p : /\ p = [page EXCEPT !.views = V, !.active = x.id, !.late = l]
                 /\ page' = p /\ note' = (note /\ c.alone) /\ calls' = calls \ {c} /\ server' = server
    BY <1>0, <1>2 DEF Library!SaveAnswered, Library!Shown, Library!Ends, LibraryPage
  <1>6. /\ p.views = V /\ p.active = x.id /\ p.late = l /\ p.choice = page.choice
        /\ FilesStay(c, p)
    BY <1>0, <1>5 DEF LibraryPage, FilesStay
  <1>7. ~c.gone
    BY <1>1 DEF ViewsInv, GoneIsSent
  <1>8. ASSUME note, c.alone
        PROVE  ShowsServer(c, p)
    <2>1. c.got = server.views
      BY <1>1, <1>8 DEF ViewsInv, AloneIsSo
    <2>2. SaveFits(c)
      BY <1>1, <1>8 DEF ViewsInv, FirmIsSo, Changes
    <2>3. PICK S : S = server.views
      OBVIOUS
    <2>4. /\ S \in Seq(Library!View) /\ NamesOnce(S) /\ IdsOnce(S) /\ Len(S) # 0
          /\ S[1] = x /\ x.name = c.sent.name /\ x.choice = Strip[c.sent.choice]
      BY <1>0, <1>1, <1>2, <2>1, <2>3
    <2>5. Begins(Library!Without(page.views, S[1].name), Library!Without(S, S[1].name))
      BY <2>2, <2>3, <2>4 DEF SaveFits
    <2>6. V = Library!Cut(<<S[1]>> \o Library!Without(page.views, S[1].name))
      BY <1>2, <2>4
    <2>7. Begins(V, S)
      BY <1>0, <2>4, <2>5, <2>6, PageAnswers
    <2>8. ASSUME ~p.late, NEW i \in DOMAIN V, V[i].id = x.id
          PROVE  Strip[V[i].choice] = Strip[page.choice]
      <3>1. i \in 1..Len(V) /\ 1 \in 1..Len(V) /\ Len(V) <= Len(S) /\ i \in DOMAIN S /\ 1 \in DOMAIN S
        BY <1>4, <2>4, <2>7 DEF Begins
      <3>2. S[i].id = S[1].id
        BY <2>4, <2>7, <2>8, <3>1 DEF Begins
      <3>3. i = 1
        BY <2>4, <3>1, <3>2 DEF IdsOnce
      <3>4. V[i].choice = Strip[c.sent.choice]
        BY <2>4, <2>7, <3>1, <3>3 DEF Begins
      <3>5. c.kept
        BY <1>2, <1>6, <2>8
      <3>6. page.choice = c.sent.choice
        BY <1>1, <1>7, <3>5 DEF ViewsInv, KeptIsSo
      <3>7. Strip[Strip[page.choice]] = Strip[page.choice]
        BY <1>0, Stripped DEF LibraryPage
      <3> QED BY <3>4, <3>6, <3>7
    <2>9. ActiveFits(p)
      BY <1>6, <2>8 DEF ActiveFits
    <2> QED BY <1>6, <1>8, <2>3, <2>7, <2>9 DEF ShowsServer
  <1>9. note' => ShowsServer(c, p) \/ ShowsSame(c, p)
    BY <1>5, <1>8
  <1> QED BY <1>5, <1>6, <1>7, <1>9, LibraryEndsFit

LEMMA LibraryDeleteAnsweredFit ==
    ASSUME LibraryTypes, ViewsInv, NEW c \in calls, Library!DeleteAnswered(c)
    PROVE  ViewsInv'
  <1>0. server.views \in Seq(Library!View) /\ IdsOnce(server.views)
    BY DEF LibraryTypes, LibraryServer
  <1>1. c.op = "delete" /\ c.at = "answer"
    BY DEF Library!DeleteAnswered
  <1>2. PICK p : /\ p = page /\ page' = p
                 /\ note' = (note /\ c.alone) /\ calls' = calls \ {c} /\ server' = server
    BY DEF Library!DeleteAnswered, Library!Shown, Library!Ends
  <1>3. FilesStay(c, p)
    BY <1>2 DEF FilesStay
  <1>4. ~c.gone
    BY <1>1 DEF ViewsInv, GoneIsSent
  <1>5. ASSUME note, c.alone
        PROVE  ShowsServer(c, p)
    <2>1. DeleteFits(c)
      BY <1>1, <1>5 DEF ViewsInv, FirmIsSo, Changes
    <2>2. /\ Begins(page.views, Library!WithoutId(server.views, c.sent)) /\ ActiveFits(page)
          /\ \A i \in DOMAIN server.views : server.views[i].id # c.sent
      BY <1>1, <2>1 DEF DeleteFits
    <2>3. Library!WithoutId(server.views, c.sent) = server.views
      BY <1>0, <2>2, WithoutIdSame
    <2> QED BY <1>2, <1>5, <2>2, <2>3 DEF ShowsServer
  <1>6. note' => ShowsServer(c, p) \/ ShowsSame(c, p)
    BY <1>2, <1>5
  <1> QED BY <1>2, <1>3, <1>4, <1>6, LibraryEndsFit

\* The list that was answered replaces the page's.
LEMMA LibraryListedFit ==
    ASSUME LibraryTypes, ViewsInv, NEW c \in calls,
           Library!ImportAnswered(c) \/ Library!LibraryViewsLoaded(c)
    PROVE  ViewsInv'
  <1>0. /\ page \in LibraryPage /\ LibraryAnswer(c)
        /\ server.views \in Seq(Library!View)
    BY DEF LibraryTypes, LibraryPage, LibraryServer
  <1>1. c.op \in {"import", "load"} /\ c.at = "answer" /\ c.got \in Seq(Library!View)
    BY <1>0 DEF Library!ImportAnswered, Library!LibraryViewsLoaded, LibraryAnswer
  <1>2. PICK l : l = (page.late \/ page.active # None)
    OBVIOUS
  <1>3. PICK d : d = [c EXCEPT !.at = "timer", !.got = None]
    OBVIOUS
  <1>4. PICK V, p : /\ V = c.got \/ V = Library!Cut(c.got)
                    /\ p.views = V /\ p.late = l /\ p.active = page.active /\ p.choice = page.choice
                    /\ FilesStay(c, p)
                    /\ page' = p /\ note' = c.alone /\ server' = server
                    /\ calls \ {c} \subseteq calls'
                    /\ calls' \subseteq (calls \ {c}) \cup IF c.op = "import" THEN {d} ELSE {}
    <2>1. CASE Library!ImportAnswered(c)
      <3>1. PICK V, p : /\ V = Library!Cut(c.got)
                        /\ p = [page EXCEPT !.views = V, !.import = "done", !.late = l]
        OBVIOUS
      <3>2. page' = p /\ note' = c.alone /\ server' = server /\ c.op = "import" /\ calls' = (calls \ {c}) \cup {d}
        BY <1>0, <1>2, <1>3, <2>1, <3>1 DEF Library!ImportAnswered, Library!Shown, LibraryPage
      <3>3. /\ p.views = V /\ p.late = l /\ p.active = page.active /\ p.choice = page.choice
            /\ FilesStay(c, p)
        BY <1>0, <3>1 DEF LibraryPage, FilesStay
      <3> QED BY <3>1, <3>2, <3>3
    <2>2. CASE Library!LibraryViewsLoaded(c)
      <3>1. PICK V, p : V = c.got /\ p = [page EXCEPT !.views = V, !.late = l]
        OBVIOUS
      <3>2. page' = p /\ note' = c.alone /\ server' = server /\ calls' = calls \ {c}
        BY <1>0, <1>2, <2>2, <3>1 DEF Library!LibraryViewsLoaded, Library!Shown, Library!Ends, LibraryPage
      <3>3. /\ p.views = V /\ p.late = l /\ p.active = page.active /\ p.choice = page.choice
            /\ FilesStay(c, p)
        BY <1>0, <3>1 DEF LibraryPage, FilesStay
      <3> QED BY <3>1, <3>2, <3>3
    <2> QED BY <2>1, <2>2
  <1>5. ~c.gone
    BY <1>1 DEF ViewsInv, GoneIsSent
  <1>6. V \in Seq(Library!View) /\ Begins(V, c.got)
    <2>1. Begins(c.got, c.got)
      BY <1>1 DEF Begins
    <2> QED BY <1>1, <1>4, <2>1, CutBegins
  <1>7. ASSUME c.alone
        PROVE  ShowsServer(c, p)
    <2>1. c.got = server.views
      BY <1>1, <1>7 DEF ViewsInv, AloneIsSo
    <2>2. ActiveFits(p)
      <3>1. CASE ~p.late
        <4>1. p.active = None
          BY <1>2, <1>4, <3>1
        <4> QED BY <1>4, <1>6, <4>1, NoneActive
      <3> QED BY <3>1 DEF ActiveFits
    <2> QED BY <1>4, <1>6, <1>7, <2>1, <2>2 DEF ShowsServer
  <1>8. note' => ShowsServer(c, p) \/ ShowsSame(c, p)
    BY <1>4, <1>7
  <1> QED BY <1>3, <1>4, <1>5, <1>8, LibraryEndsFit

\* Answers that leave the views as they are.
LEMMA LibraryRestFit ==
    ASSUME LibraryTypes, ViewsInv, NEW c \in calls,
           Library!DetailAnswered(c) \/ Library!TimerFires(c) \/ Library!Fails(c)
    PROVE  ViewsInv'
  <1>0. page \in LibraryPage /\ LibraryAnswer(c) /\ LibraryRequest(c)
    BY DEF LibraryTypes
  <1>1. PICK d : d = [c EXCEPT !.at = "timer", !.got = None]
    OBVIOUS
  <1>2. CASE Library!DetailAnswered(c)
    <2>1. c.op = "detail" /\ c.at = "answer" /\ c.got = c.sent
      BY <1>0, <1>2 DEF Library!DetailAnswered, LibraryAnswer
    <2>2. PICK p : /\ p = [page EXCEPT !.files = c.got, !.detail = "idle"] /\ page' = p
                   /\ note' = note /\ calls' = calls \ {c} /\ server' = server
      BY <1>2 DEF Library!DetailAnswered, Library!Shown, Library!Ends
    <2>3. /\ p.choice = page.choice /\ FilesStay(c, p)
          /\ note => ShowsSame(c, p)
      BY <1>0, <2>1, <2>2 DEF LibraryPage, FilesStay, ShowsSame, Changes
    <2>4. ~c.gone
      BY <2>1 DEF ViewsInv, GoneIsSent
    <2> QED BY <2>2, <2>3, <2>4, LibraryEndsFit
  <1>3. CASE Library!TimerFires(c)
    <2>1. c.at = "timer"
      BY <1>3 DEF Library!TimerFires
    <2>2. PICK p : /\ p = [page EXCEPT !.import = "idle"] /\ page' = p
                   /\ note' = note /\ calls' = calls \ {c} /\ server' = server
      BY <1>3 DEF Library!TimerFires, Library!Shown, Library!Ends
    <2>3. /\ p.choice = page.choice /\ FilesStay(c, p)
          /\ note => ShowsSame(c, p)
      BY <1>0, <2>1, <2>2 DEF LibraryPage, FilesStay, ShowsSame, Changes
    <2>4. ~c.gone
      BY <2>1 DEF ViewsInv, GoneIsSent
    <2> QED BY <2>2, <2>3, <2>4, LibraryEndsFit
  <1>4. CASE Library!Fails(c)
    <2>1. ~c.gone
      BY <1>4 DEF Library!Fails
    <2>2. PICK p : /\ \/ p = [page EXCEPT !.import = "error"]
                      \/ p = [page EXCEPT !.detail = "error"]
                      \/ p = page
                   /\ page' = p /\ server' = server
                   /\ note' = (note /\ c.op \in {"load", "detail"})
                   /\ calls \ {c} \subseteq calls'
                   /\ calls' \subseteq (calls \ {c}) \cup IF c.op = "import" THEN {d} ELSE {}
      BY <1>1, <1>4 DEF Library!Fails, Library!Shown
    <2>3. p.choice = page.choice /\ FilesStay(c, p)
      BY <1>0, <2>2 DEF LibraryPage, FilesStay
    <2>4. note' => ShowsSame(c, p)
      BY <1>0, <2>2 DEF LibraryPage, ShowsSame, Changes
    <2> QED BY <1>1, <2>1, <2>2, <2>3, <2>4, LibraryEndsFit
  <1> QED BY <1>2, <1>3, <1>4

LEMMA ViewsInit ==
    ASSUME Library!Init
    PROVE  ViewsInv
  <1>1. PICK p \in LibraryPlans :
           /\ server = [views |-> p.views, next |-> Len(p.views) + 1]
           /\ page = [views |-> Library!Cut(p.views), active |-> None, choice |-> All, draft |-> None,
                      import |-> "idle", item |-> None, files |-> None, detail |-> "idle",
                      here |-> FALSE, late |-> FALSE, alone |-> TRUE]
           /\ calls = {} /\ note = TRUE
    BY DEF Library!Init
  <1>2. p.views \in Seq(Library!View)
    BY PagesAssumption DEF Library!PlansAssumption
  <1>3. page.views = Library!Cut(p.views) /\ page.active = None /\ page.item = None /\ server.views = p.views
    BY <1>1
  <1>4. page.views \in Seq(Library!View) /\ Begins(page.views, server.views)
    BY <1>2, <1>3, CutBegins
  <1>5. ActiveFits(page)
    BY <1>3, <1>4, NoneActive
  <1> QED BY <1>1, <1>3, <1>4, <1>5 DEF ViewsInv, AloneIsSo, GoneIsSent, KeptIsSo, FirmIsSo, FilesFit

LEMMA ViewsStep ==
    ASSUME LibraryTypes, ViewsInv, [Library!Next]_(Library!vars)
    PROVE  ViewsInv'
  <1>1. CASE Library!Operator
    BY <1>1, LibraryEditingFit, LibraryStartingFit, LibraryLeavesFit DEF Library!Operator
  <1>2. CASE Library!SavedElsewhere
    BY <1>2, LibraryLeavesFit
  <1>3. ASSUME NEW c \in calls, Library!Answers(c)
        PROVE  ViewsInv'
    BY <1>3, LibraryServedFit, LibrarySaveAnsweredFit, LibraryDeleteAnsweredFit, LibraryListedFit,
       LibraryRestFit DEF Library!Answers
  <1>4. CASE UNCHANGED Library!vars
    BY <1>4 DEF Library!vars, ViewsInv, AloneIsSo, GoneIsSent, KeptIsSo, FirmIsSo, FilesFit,
                SaveFits, DeleteFits
  <1> QED BY <1>1, <1>2, <1>3, <1>4 DEF Library!Next

LEMMA LibrarySettled ==
    ASSUME LibraryTypes, ViewsInv
    PROVE  Library!Settled
  <1>1. /\ server.views \in Seq(Library!View) /\ page.views \in Seq(Library!View) /\ NamesOnce(page.views)
    BY DEF LibraryTypes, LibraryServer, LibraryPage
  <1>2. ASSUME note, \A c \in calls : c.op = "detail" \/ c.at = "timer"
        PROVE  /\ Library!IsPrefix(page.views, server.views)
               /\ ~page.late => \A i \in Library!ActiveSavedLibraryView :
                                Strip[page.views[i].choice] = Strip[page.choice]
    <2>1. \A c \in calls : ~Changes(c)
      BY <1>2 DEF Changes
    <2>2. Begins(page.views, server.views) /\ ActiveFits(page)
      BY <1>2, <2>1 DEF ViewsInv, FirmIsSo
    <2>3. Library!IsPrefix(page.views, server.views)
      BY <1>1, <2>2, BeginsPrefix
    <2> QED BY <2>2, <2>3 DEF ActiveFits, Library!ActiveSavedLibraryView
  <1>3. (page.item # None /\ page.alone /\ page.detail = "idle") => page.files = page.item
    BY DEF ViewsInv, FilesFit
  <1> QED BY <1>1, <1>2, <1>3 DEF Library!Settled, NamesOnce

(***************************************************************************)
(* The pages together                                                      *)
(***************************************************************************)

-----------------------------------------------------------------------------
(* The schedule of backups keeps its types with its invariant.             *)

LEMMA ScheduleTypesOK ==
    ASSUME ScheduleInv
    PROVE  Schedule!TypeOK
  <1>1. /\ server \in Schedule!Servers /\ page \in Schedule!Pages
        /\ note \in {"nothing", "on", "paused"} /\ \A c \in calls : c \in ScheduleCalls
    BY DEF ScheduleInv, ScheduleTypes
  <1>2. \A c \in calls : /\ c.op \in Schedule!Ops /\ c.slot \in 1..MaxCalls
                         /\ c.todo \subseteq {"settings"} \cup Channels
    BY <1>1 DEF ScheduleCalls, Schedule!Everything
  <1>3. \E b \in Budgets : left.edits \in 0..b.edits /\ left.calls \in 0..b.calls /\ left.ops = b.ops
    BY DEF ScheduleInv, ScheduleLeft
  <1> QED BY <1>1, <1>2, <1>3 DEF Schedule!TypeOK

-----------------------------------------------------------------------------
(* Every page                                                              *)

PagesInv ==
    /\ area \in Areas
    /\ area = "schedule" => ScheduleInv
    /\ area = "storage" => SidecarsInv /\ StorageTypes
    /\ area = "queue" => StuckQueueInv /\ QueueTypes /\ LoneInv
    /\ area = "history" => StuckHistoryInv /\ HistoryTypes /\ DrawersInv
    /\ area = "library" => LibraryTypes /\ ViewsInv

LEMMA PagesInit == ASSUME Init PROVE PagesInv
  <1>1. CASE area = "schedule" /\ Schedule!Init
    BY <1>1, ScheduleInit DEF PagesInv, Areas
  <1>2. CASE area = "storage" /\ Storage!Init
    <2>1. SidecarsInv
      BY <1>2, SidecarsInit, PagesAssumption
    <2>2. StorageTypes
      BY <1>2, <2>1, StorageTypesInit DEF SidecarsInv
    <2> QED BY <1>2, <2>1, <2>2 DEF PagesInv, Areas
  <1>3. CASE area = "queue" /\ Queue!KitInit
    BY <1>3, QueueNeverStuckInit, QueueTypesInit, LoneInit DEF PagesInv, Areas
  <1>4. CASE area = "history" /\ History!Init
    BY <1>4, HistoryNeverStuckInit, HistoryTypesInit, DrawersInit DEF PagesInv, Areas
  <1>5. CASE area = "library" /\ Library!Init
    BY <1>5, LibraryTypesInit, ViewsInit DEF PagesInv, Areas
  <1> QED BY <1>1, <1>2, <1>3, <1>4, <1>5 DEF Init

LEMMA PagesStep == ASSUME PagesInv, [Next]_vars PROVE PagesInv'
  <1>1. area' = area /\ area \in Areas
    BY PageSteps DEF PagesInv
  <1>2. CASE area = "schedule"
    <2>1. ScheduleInv'
      BY <1>2, PageSteps, ScheduleStep DEF PagesInv
    <2> QED BY <1>1, <1>2, <2>1 DEF PagesInv
  <1>3. CASE area = "storage"
    <2>1. SidecarsInv /\ StorageTypes /\ [Storage!Next]_(Storage!vars)
      BY <1>3, PageSteps DEF PagesInv
    <2>2. SidecarsInv'
      BY <2>1, SidecarsStep
    <2>3. StorageTypes'
      BY <2>1, StorageTypesStep DEF SidecarsInv
    <2> QED BY <1>1, <1>3, <2>2, <2>3 DEF PagesInv
  <1>4. CASE area = "queue"
    <2>1. StuckQueueInv /\ QueueTypes /\ LoneInv /\ [Queue!KitNext]_(Queue!kitVars)
      BY <1>4, PageSteps DEF PagesInv
    <2>2. StuckQueueInv' /\ QueueTypes' /\ LoneInv'
      BY <2>1, QueueNeverStuckStep, QueueTypesStep, LoneStep
    <2> QED BY <1>1, <1>4, <2>2 DEF PagesInv
  <1>5. CASE area = "history"
    <2>1. StuckHistoryInv /\ HistoryTypes /\ DrawersInv /\ [History!Next]_(History!vars)
      BY <1>5, PageSteps DEF PagesInv
    <2>2. StuckHistoryInv' /\ HistoryTypes' /\ DrawersInv'
      BY <2>1, HistoryNeverStuckStep, HistoryTypesStep, DrawersStep
    <2> QED BY <1>1, <1>5, <2>2 DEF PagesInv
  <1>6. CASE area = "library"
    <2>1. LibraryTypes /\ ViewsInv /\ [Library!Next]_(Library!vars)
      BY <1>6, PageSteps DEF PagesInv
    <2>2. LibraryTypes' /\ ViewsInv'
      BY <2>1, LibraryTypesStep, ViewsStep
    <2> QED BY <1>1, <1>6, <2>2 DEF PagesInv
  <1> QED BY <1>1, <1>2, <1>3, <1>4, <1>5, <1>6 DEF Areas

LEMMA PagesTyped == ASSUME PagesInv PROVE TypeOK
  <1>1. area = "schedule" => Schedule!TypeOK
    BY ScheduleTypesOK DEF PagesInv
  <1>2. area = "storage" => Storage!TypeOK
    BY StorageTypesOK DEF PagesInv, SidecarsInv
  <1>3. area = "queue" => Queue!TypeOK
    BY QueueTypesOK DEF PagesInv
  <1>4. area = "history" => History!TypeOK
    BY HistoryTypesOK DEF PagesInv
  <1>5. area = "library" => Library!TypeOK
    BY LibraryTypesOK DEF PagesInv
  <1> QED BY <1>1, <1>2, <1>3, <1>4, <1>5 DEF PagesInv, Areas, TypeOK

LEMMA PagesSettled == ASSUME PagesInv PROVE SettledPage
  <1>1. area = "queue" => Queue!Settled
    BY QueueSettled DEF PagesInv
  <1>2. area = "history" => History!Settled
    BY HistorySettled DEF PagesInv
  <1>3. area = "library" => Library!Settled
    BY LibrarySettled DEF PagesInv
  <1> QED BY <1>1, <1>2, <1>3 DEF SettledPage

\* Every page keeps its types: the hooks of App.tsx, the requests under way and what
\* the server answers stay in the sets they are read as, however many requests overlap.
THEOREM TypesHold == Spec => []TypeOK
  <1>1. Init => PagesInv
    BY PagesInit
  <1>2. PagesInv /\ [Next]_vars => PagesInv'
    BY PagesStep
  <1>3. PagesInv => TypeOK
    BY PagesTyped
  <1> QED BY <1>1, <1>2, <1>3, PTL DEF Spec

\* Where nothing overlapped and nothing failed, a page shows what the server holds once
\* its requests are answered: the queue page its jobs, its plan and a selection that can
\* be acted on; a history drawer the rows of its filters; the saved videos the server's
\* newest views, the active one with the filters that are applied, and the files of the
\* video the drawer names.
THEOREM PagesSettle == Spec => []SettledPage
  <1>1. Init => PagesInv
    BY PagesInit
  <1>2. PagesInv /\ [Next]_vars => PagesInv'
    BY PagesStep
  <1>3. PagesInv => SettledPage
    BY PagesSettled
  <1> QED BY <1>1, <1>2, <1>3, PTL DEF Spec

=============================================================================
