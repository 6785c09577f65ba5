---------------------------- MODULE MCConsolePages ----------------------------
(***************************************************************************)
(* An instance of ConsolePages for TLC: a few plans for every area, each   *)
(* with the operations that share hooks.                                   *)
(***************************************************************************)
EXTENDS ConsolePages

CONSTANTS
    c1, c2,             \* channels
    f1, f2,             \* video folders
    j1, j2,             \* download jobs
    failed, slow,       \* attributes of a tick or a run
    restart, job,       \* scopes of the event log
    n1, n2,             \* names of saved views
    all, broken,        \* filters of the library, and
    spaced,             \* one with blanks around it
    v1, v2              \* videos of the library

-----------------------------------------------------------------------------
(* The schedule of backups *)

MCChannels == {c1, c2}
MCSeconds == {10, 120, 900}

Off == [settings |-> [on |-> {}, every |-> 900, metaEvery |-> 900],
        policy |-> [auto |-> FALSE, paused |-> FALSE],
        backlog |-> "missing", minutes |-> [c \in MCChannels |-> 360]]
On == [settings |-> [on |-> {"worker", "scheduler", "metadata"}, every |-> 900, metaEvery |-> 900],
       policy |-> [auto |-> TRUE, paused |-> FALSE],
       backlog |-> "candidate", minutes |-> [c \in MCChannels |-> 15]]

MCFirstServers == {Off, On}
MCBudgets ==
    {[edits |-> 1, calls |-> 2, ops |-> {"start", "stop", "update", "apply"}],
     [edits |-> 0, calls |-> 2, ops |-> {"start", "stop", "toggle", "auto", "reload"}]}

-----------------------------------------------------------------------------
(* The storage page: one media file without a row and one row without a file; *)
(* an orphan beside a sidecar in the quarantine; two quarantined sidecars of *)
(* different ages. *)

MCFolders == {f1, f2}
MCAges == {1, 2}
Home(F) == [f \in MCFolders |-> IF f \in F THEN 1 ELSE 0]
Disk(media, rows, old) ==
    [mounted |-> TRUE, media |-> media, rows |-> rows, held |-> old,
     home |-> Home({f \in MCFolders : \A h \in old : h.folder # f}), written |-> Home(MCFolders)]
Old(f, a) == [folder |-> f, version |-> 1, age |-> a]

MCStoragePlans ==
    {[disk |-> Disk({f1}, {f2}, {}),
      bounds |-> [calls |-> 3, edits |-> 0, outside |-> 1, flows |-> {"drift"}]],
     [disk |-> Disk({}, {}, {Old(f2, 0)}),
      bounds |-> [calls |-> 3, edits |-> 0, outside |-> 1, flows |-> {"orphan", "drawer"}]],
     [disk |-> Disk({}, {}, {Old(f1, 1), Old(f2, 2)}),
      bounds |-> [calls |-> 4, edits |-> 1, outside |-> 1, flows |-> {"drawer", "purge"}]]}

-----------------------------------------------------------------------------
(* The queue page and the archive.txt kit *)

MCJobs == {j1, j2}
Of(a, b) == [j \in MCJobs |-> IF j = j1 THEN a ELSE b]

MCLedgers == {{}, {j1}, {j1, j2}}
MCKitPlans ==
    {[here |-> TRUE, server |-> [job |-> Of("queued", "queued"), archived |-> {}, ready |-> TRUE],
      bounds |-> [calls |-> 2, edits |-> 0, outside |-> 0, ops |-> {"open", "run"}]],
     [here |-> TRUE, server |-> [job |-> Of("queued", "failed"), archived |-> {}, ready |-> TRUE],
      bounds |-> [calls |-> 2, edits |-> 1, outside |-> 0,
                  ops |-> {"refresh", "open", "bulk", "row", "run"}]],
     [here |-> TRUE, server |-> [job |-> Of("queued", "failed"), archived |-> {j2}, ready |-> TRUE],
      bounds |-> [calls |-> 1, edits |-> 2, outside |-> 1,
                  ops |-> {"event", "refresh", "files", "rescan"}]],
     [here |-> FALSE, server |-> [job |-> Of("none", "queued"), archived |-> {}, ready |-> TRUE],
      bounds |-> [calls |-> 3, edits |-> 1, outside |-> 0,
                  ops |-> {"preview", "stage", "openq", "prepare"}]],
     [here |-> FALSE, server |-> [job |-> Of("none", "queued"), archived |-> {}, ready |-> TRUE],
      bounds |-> [calls |-> 4, edits |-> 0, outside |-> 0,
                  ops |-> {"preview", "stage", "openrun", "runkit"}]],
     [here |-> FALSE, server |-> [job |-> Of("none", "failed"), archived |-> {j2}, ready |-> TRUE],
      bounds |-> [calls |-> 4, edits |-> 1, outside |-> 0,
                  ops |-> {"loadfile", "preview", "stage", "sync"}]]}

-----------------------------------------------------------------------------
(* The history drawers: every log has two rows that no filter both keeps *)

MCTags == {failed, slow}
MCStatusTags == {failed}
MCEventTags == {restart, job}

Row(i, T) == [id |-> i, tags |-> T]
FirstRows == [d \in {"scheduler", "metadata", "worker", "events"} |->
                 IF d = "events" THEN {Row(1, {restart}), Row(2, {job})}
                 ELSE {Row(1, {failed}), Row(2, {slow})}]
LogsRead(logs, edits, outside) ==
    [rows |-> FirstRows,
     bounds |-> [calls |-> 3, edits |-> edits, outside |-> outside, logs |-> logs]]

MCHistoryPlans ==
    {LogsRead({"events", "restarts"}, 0, 0), LogsRead({"restarts", "metadata"}, 0, 0),
     LogsRead({"restarts", "scheduler"}, 1, 0), LogsRead({"restarts", "scheduler"}, 0, 1),
     LogsRead({"worker"}, 0, 1)}

-----------------------------------------------------------------------------
(* The saved videos: a short list, one that fills the page, none *)

MCSelections == {all, broken, spaced}
MCStrip == [choice \in MCSelections |-> IF choice = spaced THEN broken ELSE choice]
MCPresets == {broken}
MCNames == {n1, n2}
MCItems == {v1, v2}

View(i, n, c) == [id |-> i, name |-> n, choice |-> c]
MCLibraryPlans ==
    {[views |-> <<View(1, n1, broken)>>, bounds |-> [calls |-> 3, edits |-> 1, outside |-> 0]],
     [views |-> <<View(3, n2, broken), View(2, broken, broken), View(1, n1, all)>>,
      bounds |-> [calls |-> 2, edits |-> 2, outside |-> 0]],
     [views |-> <<>>, bounds |-> [calls |-> 2, edits |-> 2, outside |-> 1]]}

MCBundles ==
    {<<[name |-> n1, choice |-> all], [name |-> n2, choice |-> broken],
       [name |-> n1, choice |-> broken]>>}
=============================================================================
