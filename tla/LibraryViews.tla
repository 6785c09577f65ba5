---------------------------- MODULE LibraryViews ----------------------------
(***************************************************************************)
(* The saved-videos page: its filters, presets and saved views, the import *)
(* of a bundle of views and the file drawer of a video.                    *)
(* (frontend/src/App.tsx, backend/app/services/library_views.py)           *)
(*                                                                        *)
(* A view is kept three times: in the page, in the browser's storage and   *)
(* in the database.  A save shows at once under an id of its own, which    *)
(* the answer replaces; a delete is shown before it is asked for; arriving *)
(* at the page replaces the page's views by the server's.                  *)
(*                                                                        *)
(* A choice of query, integrity, sidecar, codec is a value of Selections;  *)
(* so is the name a view gets when none is typed.  Copies and downloads of *)
(* the bundle are left out.                                                *)
(***************************************************************************)
EXTENDS Integers, FiniteSets, Sequences, SequencesExt

CONSTANTS
    Selections,        \* filters
    All,            \* no filter at all
    Presets,        \* choices a preset button makes
    Strip,          \* a choice without the blanks around its query and its codec
    Names,          \* names an operator types
    Bundles,        \* files to import: sequences of [name, choice]
    Items,          \* videos of the library
    None,
    PageLimit,      \* views the page keeps (10); the server lists more (20, 50)
    MaxCalls,       \* requests and timers under way at once
    Plans           \* views there are, and the bounds of a behaviour: the requests begun,
                    \* edits, saves of other sessions

View == [id : Int, name : Names \cup Selections, choice : Selections]

\* Of the constants; ConsolePages assumes both of its instance.
SelectionsAssumption ==
    /\ All \in Selections /\ Presets \subseteq Selections
    /\ Strip \in [Selections -> Selections] /\ Strip[All] = All
    /\ \A choice \in Selections : Strip[Strip[choice]] = Strip[choice]
    /\ Bundles \subseteq Seq([name : Names \cup Selections, choice : Selections])
    /\ PageLimit \in Nat \ {0} /\ None \notin Int

\* The database numbers the views and holds one of a name.
PlansAssumption ==
    \A p \in Plans :
       /\ p.views \in Seq(View) /\ p.bounds \in [calls : Nat, edits : Nat, outside : Nat]
       /\ \A i \in DOMAIN p.views : p.views[i].id \in 1..Len(p.views)
       /\ \A i, k \in DOMAIN p.views :
             p.views[i].name = p.views[k].name \/ p.views[i].id = p.views[k].id => i = k

VARIABLES
    server,         \* [views, next]: the views, newest first, and the next id
    page,           \* the state hooks of App and the browser's storage
    calls,          \* requests and timers under way
    firm,           \* history: the page's views are the server's, nothing overlapped or failed
    left            \* what is left of the bounds

vars == <<server, page, calls, firm, left>>

TypeOK ==
    /\ \A i \in DOMAIN server.views : server.views[i] \in View /\ server.views[i].id \in 1..server.next
    /\ \A i \in DOMAIN page.views : page.views[i] \in View
    /\ page.choice \in Selections /\ page.draft \in Names \cup {None}
    /\ page.import \in {"idle", "importing", "done", "error"}
    /\ page.item \in Items \cup {None} /\ page.files \in Items \cup {None}
    /\ page.detail \in {"idle", "loading", "error"}
    /\ {page.here, page.late, page.alone, firm} \subseteq BOOLEAN

-----------------------------------------------------------------------------
(* The server *)

\* The views at the places I, in their order.
Filter(V, I) ==
    [k \in 1..Cardinality(I) |-> V[CHOOSE i \in I : Cardinality({j \in I : j <= i}) = k]]

Without(V, name) == Filter(V, {i \in DOMAIN V : V[i].name # name})
WithoutId(V, id) == Filter(V, {i \in DOMAIN V : V[i].id # id})
Named(V, name) == {i \in DOMAIN V : V[i].name = name}

\* A view is found by its name and becomes the newest; its texts are stripped.
UpsertLibraryView(s, p) ==
    LET id == IF Named(s.views, p.name) = {} THEN s.next
              ELSE s.views[CHOOSE i \in Named(s.views, p.name) : TRUE].id
    IN  [views |-> <<[id |-> id, name |-> p.name, choice |-> Strip[p.choice]]>> \o Without(s.views, p.name),
         next |-> IF id = s.next THEN s.next + 1 ELSE s.next]

\* The first of each name is imported, in the order of the file.
ImportLibraryViews(s, bundle) ==
    LET import[n \in 0..Len(bundle)] ==
          IF n = 0 THEN s
          ELSE IF \E k \in 1..(n - 1) : bundle[k].name = bundle[n].name THEN import[n - 1]
          ELSE UpsertLibraryView(import[n - 1], bundle[n])
    IN  import[Len(bundle)]

\* SQLite numbers a row after the largest number there is: a deleted one may come back.
DeleteLibraryView(s, id) ==
    LET V == WithoutId(s.views, id)
        above == {n \in 1..s.next : \A i \in DOMAIN V : V[i].id < n}
    IN  [views |-> V, next |-> CHOOSE n \in above : \A k \in above : n <= k]

-----------------------------------------------------------------------------
(* What the page shows *)

Cut(V) == SubSeq(V, 1, IF Len(V) < PageLimit THEN Len(V) ELSE PageLimit)

ActiveSavedLibraryView == {i \in DOMAIN page.views : page.views[i].id = page.active}

SavedLibraryViewName == IF page.draft = None THEN Strip[page.choice] ELSE page.draft

\* Any other choice can be made: preset, integrity, sidecar, codec or query.
FilterOffers == IF page.here THEN Selections \ {page.choice} ELSE {}

SavedViewOffers ==
    IF ~page.here THEN {}
    ELSE {"name", "save", "import"} \cup IF ActiveSavedLibraryView # {} THEN {"overwrite"} ELSE {}

\* The pills of the saved views: apply or delete.
PillOffers == IF page.here THEN DOMAIN page.views ELSE {}

ResetOffers == IF page.here /\ Strip[page.choice] # All THEN {"reset"} ELSE {}

ShelfOffers == IF page.here THEN Items ELSE {}

\* The drawer shows the files it was answered last.
DetailOffers == IF page.item # None THEN {"close"} ELSE {}

-----------------------------------------------------------------------------
(* Operations *)

Slots == {i \in 1..MaxCalls : \A c \in calls : c.slot # i}

\* A call that begins beside others does not have the page for itself.
Begin(op, sent, p) ==
    /\ left.calls > 0 /\ Slots # {}
    /\ left' = [left EXCEPT !.calls = @ - 1]
    /\ page' = p
    /\ calls' = {[c EXCEPT !.alone = FALSE] : c \in calls} \cup
                {[slot |-> CHOOSE i \in Slots : TRUE, op |-> op, at |-> "sent",
                  sent |-> sent, got |-> None, alone |-> calls = {}, kept |-> TRUE, gone |-> FALSE]}
    /\ UNCHANGED <<server, firm>>

\* An edit of the filters is told to the saves under way.
Edit(p) ==
    /\ left.edits > 0 /\ left' = [left EXCEPT !.edits = @ - 1]
    /\ page' = p
    /\ calls' = IF p.choice = page.choice THEN calls ELSE {[c EXCEPT !.kept = FALSE] : c \in calls}
    /\ UNCHANGED <<server, firm>>

Filtered(choice) == [page EXCEPT !.choice = choice, !.active = None, !.late = FALSE]

\* Mutant: a preset leaves the saved view it was applied over marked active.
KeepActive(choice) ==
    choice \in FilterOffers \cap Presets /\ Edit([page EXCEPT !.choice = choice])

HandleApplyLibraryPreset(choice) == choice \in FilterOffers \cap Presets /\ Edit(Filtered(choice))

\* The integrity, sidecar, codec and query controls.
HandleLibraryFilter(choice) == choice \in FilterOffers /\ Edit(Filtered(choice))

HandleResetLibraryFilters ==
    "reset" \in ResetOffers /\ Edit([Filtered(All) EXCEPT !.draft = None])

\* From the storage page, on to a channel's library.
HandleOpenStorageTriageView(choice) ==
    ~page.here /\ choice \in Presets \ {page.choice} /\ Edit(Filtered(choice))

TypeName(name) == "name" \in SavedViewOffers /\ name # page.draft /\ Edit([page EXCEPT !.draft = name])

\* The view is on top at once, under an id of this page.
PersistLibraryView(name) ==
    LET view == [id |-> -left.calls, name |-> name, choice |-> page.choice]
    IN  Begin("save", view, [page EXCEPT !.views = Cut(<<view>> \o Without(@, name)),
                                         !.active = view.id, !.draft = None, !.late = FALSE])

HandleSaveLibraryView == "save" \in SavedViewOffers /\ PersistLibraryView(SavedLibraryViewName)

HandleOverwriteSavedLibraryView ==
    /\ "overwrite" \in SavedViewOffers
    /\ \E i \in ActiveSavedLibraryView : PersistLibraryView(page.views[i].name)

HandleApplySavedLibraryView(i) ==
    /\ i \in PillOffers
    /\ Edit([page EXCEPT !.choice = page.views[i].choice, !.active = page.views[i].id, !.late = FALSE])

\* A view that has no id of the server yet is only taken from the page.
HandleDeleteSavedLibraryView(i) ==
    /\ i \in PillOffers
    /\ LET id == page.views[i].id
           p == [page EXCEPT !.views = WithoutId(@, id),
                             !.active = IF @ = id THEN None ELSE @]
       IN  IF id > 0 THEN Begin("delete", id, p) ELSE Edit(p)

HandleImportLibraryViews(bundle) ==
    /\ "import" \in SavedViewOffers
    /\ Begin("import", bundle, [page EXCEPT !.import = "importing"])

HandleOpenLibraryDetail(item) ==
    /\ item \in ShelfOffers
    /\ Begin("detail", item, [page EXCEPT !.item = item, !.detail = "loading", !.files = None,
                                 !.alone = \A c \in calls : c.op # "detail"])

CloseDetail ==
    /\ "close" \in DetailOffers
    /\ page' = [page EXCEPT !.item = None]
    /\ UNCHANGED <<server, calls, firm, left>>

\* Arriving at the page lists the views; leaving it drops an answer to come.
Arrive == ~page.here /\ Begin("load", None, [page EXCEPT !.here = TRUE])

Leave ==
    /\ page.here
    /\ page' = [page EXCEPT !.here = FALSE]
    /\ calls' = {c \in calls : c.op # "load"}
    /\ UNCHANGED <<server, firm, left>>

\* The browser reloads the page: the views are in its storage, the requests that
\* were sent may still arrive.
Reload ==
    /\ left.edits > 0 /\ left' = [left EXCEPT !.edits = @ - 1]
    /\ page' = [page EXCEPT !.views = Cut(@), !.active = None, !.choice = All, !.draft = None,
                   !.import = "idle", !.item = None, !.files = None, !.detail = "idle",
                   !.here = FALSE, !.late = FALSE]
    /\ calls' = {[c EXCEPT !.gone = TRUE] : c \in {d \in calls : d.at = "sent"}}
    /\ firm' = FALSE
    /\ UNCHANGED server

-----------------------------------------------------------------------------
(* Answers *)

Ends(c) == calls' = calls \ {c}

After(c) ==
    CASE c.op = "save" -> UpsertLibraryView(server, c.sent)
      [] c.op = "import" -> ImportLibraryViews(server, c.sent)
      [] c.op = "delete" -> DeleteLibraryView(server, c.sent)
      [] OTHER -> server

\* A request takes effect; what is answered is what there is then.
Served(c) ==
    /\ c.at = "sent"
    /\ server' = After(c)
    /\ calls' = (calls \ {c}) \cup
                IF c.gone THEN {}
                ELSE {[c EXCEPT !.at = "answer",
                                !.got = IF c.op = "detail" THEN c.sent ELSE server'.views]}
    /\ UNCHANGED <<page, firm, left>>

Shown(p, isFirm) == page' = p /\ firm' = isFirm

SaveAnswered(c) ==
    /\ c.op = "save" /\ c.at = "answer"
    /\ Shown([page EXCEPT !.views = Cut(<<c.got[1]>> \o Without(@, c.sent.name)),
                          !.active = c.got[1].id, !.late = ~c.kept], firm /\ c.alone)
    /\ Ends(c)
    /\ UNCHANGED <<server, left>>

DeleteAnswered(c) ==
    /\ c.op = "delete" /\ c.at = "answer"
    /\ Shown(page, firm /\ c.alone)
    /\ Ends(c)
    /\ UNCHANGED <<server, left>>

\* The list after the import replaces the page's; a timer clears the status.
ImportAnswered(c) ==
    /\ c.op = "import" /\ c.at = "answer"
    /\ Shown([page EXCEPT !.views = Cut(c.got), !.import = "done", !.late = @ \/ page.active # None],
             c.alone)
    /\ calls' = (calls \ {c}) \cup {[c EXCEPT !.at = "timer", !.got = None]}
    /\ UNCHANGED <<server, left>>

\* The whole list is shown, longer than the page keeps otherwise.
LibraryViewsLoaded(c) ==
    /\ c.op = "load" /\ c.at = "answer"
    /\ Shown([page EXCEPT !.views = c.got, !.late = @ \/ page.active # None], c.alone)
    /\ Ends(c)
    /\ UNCHANGED <<server, left>>

\* The files are shown, whatever item the drawer is on by now.
DetailAnswered(c) ==
    /\ c.op = "detail" /\ c.at = "answer"
    /\ Shown([page EXCEPT !.files = c.got, !.detail = "idle"], firm)
    /\ Ends(c)
    /\ UNCHANGED <<server, left>>

TimerFires(c) ==
    /\ c.at = "timer"
    /\ Shown([page EXCEPT !.import = "idle"], firm)
    /\ Ends(c)
    /\ UNCHANGED <<server, left>>

\* A save or a delete that fails stays shown; a load fails in silence.
Fails(c) ==
    /\ c.at # "timer" /\ ~c.gone
    /\ Shown(CASE c.op = "import" -> [page EXCEPT !.import = "error"]
               [] c.op = "detail" -> [page EXCEPT !.detail = "error"]
               [] OTHER -> page,
             firm /\ c.op \in {"load", "detail"})
    /\ calls' = (calls \ {c}) \cup
                IF c.op = "import" THEN {[c EXCEPT !.at = "timer", !.got = None]} ELSE {}
    /\ UNCHANGED <<server, left>>

\* Another session saves a view.
SavedElsewhere ==
    /\ left.outside > 0 /\ left' = [left EXCEPT !.outside = @ - 1]
    /\ \E name \in Names, choice \in Selections :
          server' = UpsertLibraryView(server, [name |-> name, choice |-> choice])
    /\ calls' = {[c EXCEPT !.alone = FALSE] : c \in calls}
    /\ firm' = FALSE
    /\ UNCHANGED page

-----------------------------------------------------------------------------
Init ==
    /\ \E p \in Plans : /\ server = [views |-> p.views, next |-> Len(p.views) + 1]
                       /\ left = p.bounds
                       /\ page = [views |-> Cut(p.views), active |-> None, choice |-> All, draft |-> None,
                                  import |-> "idle", item |-> None, files |-> None, detail |-> "idle",
                                  here |-> FALSE, late |-> FALSE, alone |-> TRUE]
    /\ calls = {} /\ firm = TRUE

Operator ==
    \/ \E choice \in Selections : \/ HandleApplyLibraryPreset(choice) \/ HandleLibraryFilter(choice)
                               \/ HandleOpenStorageTriageView(choice)
    \/ HandleResetLibraryFilters
    \/ \E name \in Names : TypeName(name)
    \/ HandleSaveLibraryView \/ HandleOverwriteSavedLibraryView
    \/ \E i \in DOMAIN page.views : HandleApplySavedLibraryView(i) \/ HandleDeleteSavedLibraryView(i)
    \/ \E bundle \in Bundles : HandleImportLibraryViews(bundle)
    \/ \E item \in Items : HandleOpenLibraryDetail(item)
    \/ CloseDetail \/ Arrive \/ Leave \/ Reload

Answers(c) ==
    \/ Served(c) \/ SaveAnswered(c) \/ DeleteAnswered(c) \/ ImportAnswered(c)
    \/ LibraryViewsLoaded(c) \/ DetailAnswered(c) \/ TimerFires(c) \/ Fails(c)

Next == Operator \/ SavedElsewhere \/ \E c \in calls : Answers(c)

Spec == Init /\ [][Next]_vars

-----------------------------------------------------------------------------
(* Properties *)

\* The import and the file drawer wait only for answers that are still to come.
NeverStuck ==
    /\ page.import = "importing" => \E c \in calls : c.op = "import" /\ c.at # "timer"
    /\ page.detail = "loading" => \E c \in calls : c.op = "detail"

\* The page never lists two views of one name.  When its requests are answered, with
\* none overlapping, failed or undercut by another session, its views are the
\* server's newest, in order; the view marked active has the filters that are
\* applied, but for blanks that count for nothing, unless they were changed before its save was answered or the list was
\* replaced under it; and the drawer's files are of the video it names, unless
\* another's were asked for before and not answered.
Settled ==
    /\ \A i, k \in DOMAIN page.views : page.views[i].name = page.views[k].name => i = k
    /\ (firm /\ \A c \in calls : c.op = "detail" \/ c.at = "timer") =>
          /\ IsPrefix(page.views, server.views)
          /\ ~page.late => \A i \in ActiveSavedLibraryView : Strip[page.views[i].choice] = Strip[page.choice]
    /\ (page.item # None /\ page.alone /\ page.detail = "idle") => page.files = page.item

=============================================================================
