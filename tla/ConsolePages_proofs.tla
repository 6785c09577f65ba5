------------------------ MODULE ConsolePages_proofs ------------------------
(***************************************************************************)
(* The console's pages, whatever the jobs, ledgers, channels, rows,        *)
(* folders and intervals, the number of requests under way and the order   *)
(* of their answers.  What a request under way will do when it is answered *)
(* is fixed by what it carries; the invariants say what that may be in     *)
(* every state.  The parts: what the archive.txt kit reviewed; what the    *)
(* schedule of backups told; that no button waits for ever (the schedule's *)
(* in its invariant, then the storage page, the saved videos, the queue    *)
(* page with the kit, the history drawers, every page); that the storage   *)
(* page loses no sidecar; and what the queue page shows, for               *)
(* ConsoleSettled_proofs.                                                  *)
(***************************************************************************)
EXTENDS ConsolePages, SequenceTheorems, FiniteSetTheorems, TLAPS

(***************************************************************************)
(* The archive.txt kit                                                     *)
(***************************************************************************)

Stages == {"file", "preview", "stage", "plan", "act", "start", "pass", "refresh", "channel",
           "runs", "sync", "follow", "files"}

\* A preview or a stage is asked for first or not at all, and a call that starts a
\* pass or a sync goes on to something else.
TodoOK(t) ==
    /\ t \in Seq(Stages) /\ t # <<>>
    /\ t[Len(t)] \notin {"start", "pass", "sync"}
    /\ \A i \in 2..Len(t) : t[i] \notin {"preview", "stage"}

Asks(c) == Queue!Stage(c) \in {"preview", "stage"}

IsCall(c) == {"todo", "jobs"} \subseteq DOMAIN c /\ TodoOK(c.todo)

IsKit(k) == {"draft", "preview", "staged"} \subseteq DOMAIN k

\* While no text was changed under a preview or a stage, those under way carry the
\* present text.
Carries(C, k, l) == \A c \in C : IsCall(c) /\ (~l /\ Asks(c) => c.jobs = k.draft)

Shows(k, l) ==
    ~l => /\ k.preview # None => k.preview.of = k.draft
          /\ k.staged # None => k.staged.of = k.draft

KitInv == IsKit(kit) /\ Carries(calls, kit, late) /\ Shows(kit, late)

-----------------------------------------------------------------------------
(* What a call awaits.                                                     *)

LEMMA TailOK ==
    ASSUME NEW t, TodoOK(t), Len(t) # 1
    PROVE  TodoOK(Tail(t)) /\ Head(Tail(t)) \notin {"preview", "stage"}
  <1>1. Len(t) \in Nat /\ Len(t) >= 2
    <2>1. t \in Seq(Stages) /\ t # <<>>
      BY DEF TodoOK
    <2>2. Len(t) \in Nat /\ Len(t) # 0
      BY <2>1, EmptySeq
    <2>3. \A n \in Nat : n # 0 /\ n # 1 => n >= 2
      OBVIOUS
    <2> QED BY <2>2, <2>3
  <1>2. Tail(t) \in Seq(Stages) /\ Len(Tail(t)) = Len(t) - 1
    BY <1>1, HeadTailProperties DEF TodoOK
  <1>3. \A i \in 1..Len(t) - 1 : Tail(t)[i] = t[i + 1]
    BY <1>1 DEF TodoOK
  <1>4. Tail(t) # <<>> /\ Head(Tail(t)) = t[2] /\ Tail(t)[Len(t) - 1] = t[Len(t)]
    BY <1>1, <1>2, <1>3
  <1>5. \A i \in 2..Len(Tail(t)) : Tail(t)[i] \notin {"preview", "stage"}
    BY <1>1, <1>2, <1>3 DEF TodoOK
  <1> QED BY <1>1, <1>2, <1>4, <1>5 DEF TodoOK

LEMMA AwaitsOK ==
    /\ \A op : TodoOK(Queue!Awaits(op)) /\ Head(Queue!Awaits(op)) \notin {"preview", "stage"}
    /\ \A op : TodoOK(Queue!KitAwaits(op))
    /\ \A op : op \notin {"preview", "stage"}
                  => Head(Queue!KitAwaits(op)) \notin {"preview", "stage"}
  <1>1. TodoOK(<<"refresh">>) /\ TodoOK(<<"files">>) /\ TodoOK(<<"file">>)
        /\ TodoOK(<<"preview">>) /\ TodoOK(<<"plan">>)
    BY DEF TodoOK, Stages
  <1>2. TodoOK(<<"act", "refresh", "channel">>)
    BY DEF TodoOK, Stages
  <1>3. TodoOK(<<"start", "pass", "refresh", "channel">>)
    BY DEF TodoOK, Stages
  <1>4. TodoOK(<<"act", "follow", "channel">>)
    BY DEF TodoOK, Stages
  <1>5. TodoOK(<<"stage", "follow", "refresh", "channel">>)
    BY DEF TodoOK, Stages
  <1>6. TodoOK(<<"act", "start", "pass", "refresh", "channel", "runs">>)
    BY DEF TodoOK, Stages
  <1>7. TodoOK(<<"sync", "follow", "refresh", "channel">>)
    BY DEF TodoOK, Stages
  <1>8. ASSUME NEW op
        PROVE  TodoOK(Queue!Awaits(op)) /\ Head(Queue!Awaits(op)) \notin {"preview", "stage"}
    <2>1. \/ Queue!Awaits(op) = <<"refresh">> \/ Queue!Awaits(op) = <<"act", "refresh", "channel">>
          \/ Queue!Awaits(op) = <<"start", "pass", "refresh", "channel">>
          \/ Queue!Awaits(op) = <<"files">> \/ Queue!Awaits(op) = <<"act", "follow", "channel">>
      BY DEF Queue!Awaits
    <2> QED BY <1>1, <1>2, <1>3, <1>4, <2>1
  <1>9. ASSUME NEW op
        PROVE  /\ TodoOK(Queue!KitAwaits(op))
               /\ op \notin {"preview", "stage"}
                     => Head(Queue!KitAwaits(op)) \notin {"preview", "stage"}
    <2>1. \/ Queue!KitAwaits(op) \in {<<"file">>, <<"refresh">>, <<"plan">>}
          \/ op = "preview" /\ Queue!KitAwaits(op) = <<"preview">>
          \/ op = "stage" /\ Queue!KitAwaits(op) = <<"stage", "follow", "refresh", "channel">>
          \/ Queue!KitAwaits(op) = <<"act", "refresh", "channel">>
          \/ Queue!KitAwaits(op) = <<"act", "start", "pass", "refresh", "channel", "runs">>
          \/ Queue!KitAwaits(op) = <<"sync", "follow", "refresh", "channel">>
      BY DEF Queue!KitAwaits
    <2> QED BY <1>1, <1>2, <1>5, <1>6, <1>7, <2>1
  <1> QED BY <1>8, <1>9

-----------------------------------------------------------------------------
(* The calls under way.                                                    *)

\* A call that may be added to those under way.
MayJoin(d, k, l) == IsCall(d) /\ (~l /\ Asks(d) => d.jobs = k.draft)

\* At most the calls of N join those under way.
Joined(N) == calls' \subseteq calls \cup N /\ \A d \in N : MayJoin(d, kit, late)

LEMMA CallsKept ==
    ASSUME Carries(calls, kit, late), NEW N, Joined(N), kit'.draft = kit.draft, late' = late
    PROVE  Carries(calls', kit', late')
  BY DEF Carries, MayJoin, Joined

LEMMA LoadJoins == ASSUME NEW k, NEW l PROVE MayJoin(Queue!Load, k, l)
  <1>1. Queue!Load.todo = Queue!Awaits("load") /\ {"todo", "jobs"} \subseteq DOMAIN Queue!Load
    BY DEF Queue!Load, Queue!Call
  <1>2. TodoOK(Queue!Load.todo) /\ Head(Queue!Load.todo) \notin {"preview", "stage"}
    BY <1>1, AwaitsOK
  <1> QED BY <1>1, <1>2 DEF MayJoin, IsCall, Asks, Queue!Stage

\* What follows an await, or another value read, is no preview and no stage to come.
LEMMA TailJoins ==
    ASSUME NEW c, IsCall(c), NEW d, {"todo", "jobs"} \subseteq DOMAIN d, d.todo = Tail(c.todo),
           Len(c.todo) # 1, NEW k, NEW l
    PROVE  MayJoin(d, k, l)
  BY TailOK DEF MayJoin, IsCall, Asks, Queue!Stage

LEMMA SameJoins ==
    ASSUME NEW c \in calls, Carries(calls, kit, late), NEW d, DOMAIN d = DOMAIN c,
           d.todo = c.todo, d.jobs = c.jobs
    PROVE  MayJoin(d, kit, late)
  BY DEF MayJoin, Carries, IsCall, Asks, Queue!Stage

\* An await that is never the last.
LEMMA NotLast ==
    ASSUME NEW c, IsCall(c), Queue!Stage(c) \in {"start", "pass", "sync"}
    PROVE  Len(c.todo) # 1
  <1>1. SUFFICES ASSUME Len(c.todo) = 1 PROVE FALSE
    OBVIOUS
  <1>2. c.todo \in Seq(Stages) /\ c.todo # <<>> /\ c.todo[Len(c.todo)] \notin {"start", "pass", "sync"}
    BY DEF IsCall, TodoOK
  <1>3. Head(c.todo) = c.todo[1]
    BY <1>2
  <1> QED BY <1>1, <1>2, <1>3 DEF Queue!Stage

LEMMA BeginCarries ==
    ASSUME Carries(calls, kit, late), NEW op, NEW todo, TodoOK(todo), NEW act, NEW jobs, NEW p,
           Head(todo) \in {"preview", "stage"} => jobs = kit.draft,
           Queue!BeginWith(op, todo, act, jobs, p), kit'.draft = kit.draft, late' = late
    PROVE  Carries(calls', kit', late')
  <1> DEFINE d == Queue!Call(Queue!FreeSlot, op, todo, act, jobs)
  <1>1. calls' = calls \cup {d} \cup (IF p.here /\ ~page.here THEN {Queue!Load} ELSE {})
    BY DEF Queue!BeginWith
  <1>2. d.todo = todo /\ d.jobs = jobs /\ {"todo", "jobs"} \subseteq DOMAIN d
    BY DEF Queue!Call
  <1> HIDE DEF d
  <1>3. MayJoin(d, kit, late)
    BY <1>2 DEF MayJoin, IsCall, Asks, Queue!Stage
  <1>4. \A x \in {d, Queue!Load} : MayJoin(x, kit, late)
    BY <1>3, LoadJoins
  <1>5. Joined({d, Queue!Load})
    BY <1>1, <1>4 DEF Joined
  <1> QED BY <1>5, CallsKept

LEMMA GoesOnCarries ==
    ASSUME Carries(calls, kit, late), NEW c \in calls, Queue!GoesOn(c), kit'.draft = kit.draft,
           late' = late
    PROVE  Carries(calls', kit', late')
  <1>1. IsCall(c)
    BY DEF Carries
  <1>2. CASE Len(c.todo) = 1
    <2>1. Joined({})
      BY <1>2 DEF Queue!GoesOn, Queue!Last, Joined
    <2> QED BY <2>1, CallsKept
  <1>3. CASE Len(c.todo) # 1
    <2> DEFINE d == [c EXCEPT !.todo = Tail(c.todo)]
    <2>1. {"todo", "jobs"} \subseteq DOMAIN d /\ d.todo = Tail(c.todo)
      BY <1>1 DEF IsCall
    <2>2. calls' \subseteq calls \cup {d}
      BY <1>3 DEF Queue!GoesOn, Queue!Last
    <2> HIDE DEF d
    <2>3. MayJoin(d, kit, late)
      BY <1>1, <1>3, <2>1, TailJoins
    <2>4. Joined({d})
      BY <2>2, <2>3 DEF Joined
    <2> QED BY <2>4, CallsKept
  <1> QED BY <1>2, <1>3

-----------------------------------------------------------------------------
(* The steps of the queue page, and of the server.                         *)

LEMMA PageOperatorCarries ==
    ASSUME Carries(calls, kit, late), Queue!Operator, UNCHANGED <<kit, late>>
    PROVE  Carries(calls', kit', late')
  <1>1. ASSUME NEW op, NEW act, NEW jobs, NEW p, Queue!Begin(op, act, jobs, p)
        PROVE  Carries(calls', kit', late')
    <2>1. TodoOK(Queue!Awaits(op)) /\ Head(Queue!Awaits(op)) \notin {"preview", "stage"}
      BY AwaitsOK
    <2>2. Queue!BeginWith(op, Queue!Awaits(op), act, jobs, p)
      BY <1>1 DEF Queue!Begin
    <2> QED BY <2>1, <2>2, BeginCarries
  <1>2. ASSUME NEW N, Joined(N) PROVE Carries(calls', kit', late')
    BY <1>2, CallsKept
  <1>3. calls' \subseteq calls => Joined({})
    BY DEF Joined
  <1>4. ASSUME NEW p, Queue!Edit(p) PROVE Carries(calls', kit', late')
    BY <1>2, <1>3, <1>4 DEF Queue!Edit
  <1>5. CASE \E j \in Jobs : \/ Queue!HandleToggleQueueConsoleJobSelection(j)
                             \/ Queue!HandleToggleQueueConsoleDetails(j)
                             \/ \E act \in {"retry", "cancel", "stop"} :
                                    Queue!HandleQueueConsoleJobAction(j, act)
    <2>1. PICK j \in Jobs : \/ Queue!HandleToggleQueueConsoleJobSelection(j)
                            \/ Queue!HandleToggleQueueConsoleDetails(j)
                            \/ \E act \in {"retry", "cancel", "stop"} :
                                   Queue!HandleQueueConsoleJobAction(j, act)
      BY <1>5
    <2>2. CASE Queue!HandleToggleQueueConsoleJobSelection(j)
      BY <1>4, <2>2 DEF Queue!HandleToggleQueueConsoleJobSelection
    <2>3. CASE Queue!HandleToggleQueueConsoleDetails(j)
      BY <1>1, <1>4, <2>3 DEF Queue!HandleToggleQueueConsoleDetails
    <2>4. CASE \E act \in {"retry", "cancel", "stop"} : Queue!HandleQueueConsoleJobAction(j, act)
      BY <1>1, <2>4 DEF Queue!HandleQueueConsoleJobAction
    <2> QED BY <2>1, <2>2, <2>3, <2>4
  <1>6. CASE Queue!HandleSelectVisibleQueueConsoleJobs \/ Queue!HandleResetQueueConsoleFilters
    BY <1>4, <1>6 DEF Queue!HandleSelectVisibleQueueConsoleJobs, Queue!HandleResetQueueConsoleFilters
  <1>7. CASE \/ \E f \in Queue!StatusFilters : Queue!EditFilter(f, page.narrow)
             \/ \E narrow \in SUBSET Jobs : Queue!EditFilter(page.filter, narrow)
    BY <1>4, <1>7 DEF Queue!EditFilter
  <1>8. CASE \/ \E act \in Queue!BulkActions : Queue!HandleQueueConsoleBulkAction(act)
             \/ Queue!HandleOpenQueueConsoleRunConfirm \/ Queue!HandleQueueConsoleRunWorker
    BY <1>1, <1>8 DEF Queue!HandleQueueConsoleBulkAction, Queue!HandleOpenQueueConsoleRunConfirm,
                      Queue!HandleQueueConsoleRunWorker
  <1>9. CASE \/ Queue!HandleRefreshQueueConsole \/ Queue!HandleApplyRescan
             \/ Queue!QueueEventArrives
    BY <1>1, <1>9 DEF Queue!HandleRefreshQueueConsole, Queue!HandleApplyRescan,
                      Queue!QueueEventArrives
  <1>10. CASE Queue!CloseConfirm \/ Queue!LeaveQueue
    <2>1. calls' \subseteq calls
      BY <1>10 DEF Queue!CloseConfirm, Queue!LeaveQueue
    <2> QED BY <1>2, <1>3, <2>1
  <1>11. CASE Queue!GoToQueue
    <2>1. Joined({Queue!Load})
      BY <1>11, LoadJoins DEF Queue!GoToQueue, Joined
    <2> QED BY <1>2, <2>1
  <1> QED
    BY <1>5, <1>6, <1>7, <1>8, <1>9, <1>10, <1>11 DEF Queue!Operator

LEMMA ServerCarries ==
    ASSUME Carries(calls, kit, late), Queue!Server, UNCHANGED <<kit, late>>
    PROVE  Carries(calls', kit', late')
  <1>1. calls' = calls
    BY DEF Queue!Server, Queue!BackgroundTakes, Queue!WorkerSwitched, Queue!RunEnds, Queue!Outside
  <1> QED BY <1>1

LEMMA ReadsCarry ==
    ASSUME Carries(calls, kit, late), NEW c \in calls, Queue!Reads(c), UNCHANGED <<kit, late>>
    PROVE  Carries(calls', kit', late')
  <1>0. IsCall(c)
    BY DEF Carries
  <1>1. ASSUME NEW d, MayJoin(d, kit, late), Queue!Becomes(c, d)
        PROVE  Carries(calls', kit', late')
    <2>1. Joined({d})
      BY <1>1 DEF Queue!Becomes, Joined
    <2> QED BY <2>1, CallsKept
  <1>2. CASE Queue!ReadJobs(c)
    <2> DEFINE d == [c EXCEPT !.seen = server.job]
    <2>1. DOMAIN d = DOMAIN c /\ d.todo = c.todo /\ d.jobs = c.jobs /\ Queue!Becomes(c, d)
      BY <1>0, <1>2 DEF Queue!ReadJobs, IsCall
    <2> HIDE DEF d
    <2> QED BY <1>1, <2>1, SameJoins
  <1>3. CASE Queue!ReadPlan(c)
    <2> DEFINE d == [c EXCEPT !.plan = Queue!Plan]
    <2>1. DOMAIN d = DOMAIN c /\ d.todo = c.todo /\ d.jobs = c.jobs /\ Queue!Becomes(c, d)
      BY <1>0, <1>3 DEF Queue!ReadPlan, IsCall
    <2> HIDE DEF d
    <2> QED BY <1>1, <2>1, SameJoins
  <1>4. CASE Queue!PassStarts(c)
    <2>1. PICK S : Queue!Becomes(c, [c EXCEPT !.todo = Tail(@), !.planned = S])
      BY <1>4 DEF Queue!PassStarts
    <2> DEFINE d == [c EXCEPT !.todo = Tail(@), !.planned = S]
    <2>2. {"todo", "jobs"} \subseteq DOMAIN d /\ d.todo = Tail(c.todo) /\ Queue!Becomes(c, d)
      BY <1>0, <2>1 DEF IsCall
    <2>3. Len(c.todo) # 1
      BY <1>0, <1>4, NotLast DEF Queue!PassStarts
    <2> HIDE DEF d
    <2>4. MayJoin(d, kit, late)
      BY <1>0, <2>2, <2>3, TailJoins
    <2> QED BY <1>1, <2>2, <2>4
  <1>5. CASE Queue!PassOver(c)
    <2> DEFINE d == [c EXCEPT !.todo = Tail(@), !.ready = server.ready,
                              !.failed = \E j \in c.took : server.job[j] # "completed"]
    <2>1. {"todo", "jobs"} \subseteq DOMAIN d /\ d.todo = Tail(c.todo) /\ Queue!Becomes(c, d)
      BY <1>0, <1>5 DEF Queue!PassOver, IsCall
    <2>2. Len(c.todo) # 1
      BY <1>0, <1>5, NotLast DEF Queue!PassOver
    <2> HIDE DEF d
    <2>3. MayJoin(d, kit, late)
      BY <1>0, <2>1, <2>2, TailJoins
    <2> QED BY <1>1, <2>1, <2>3
  <1>6. CASE \E j \in c.planned : Queue!PassTakes(c, j)
    <2>1. PICK j \in c.planned : Queue!PassTakes(c, j)
      BY <1>6
    <2> DEFINE d == [c EXCEPT !.took = @ \cup {j}]
    <2>2. DOMAIN d = DOMAIN c /\ d.todo = c.todo /\ d.jobs = c.jobs /\ Queue!Becomes(c, d)
      BY <1>0, <2>1 DEF Queue!PassTakes, IsCall
    <2> HIDE DEF d
    <2> QED BY <1>1, <2>2, SameJoins
  <1> QED BY <1>2, <1>3, <1>4, <1>5, <1>6 DEF Queue!Reads

LEMMA AnswersCarry ==
    ASSUME Carries(calls, kit, late), NEW c \in calls, UNCHANGED <<kit, late>>,
           \/ Queue!Acted(c) \/ Queue!RefreshQueueConsoleState(c) \/ Queue!LoadChannelState(c)
           \/ Queue!ReadRest(c) \/ Queue!Fails(c)
    PROVE  Carries(calls', kit', late')
  <1>1. CASE Queue!GoesOn(c)
    BY <1>1, GoesOnCarries
  <1>2. CASE Queue!Fails(c)
    <2>1. Joined({})
      BY <1>2 DEF Queue!Fails, Joined
    <2> QED BY <2>1, CallsKept
  <1> QED BY <1>1, <1>2 DEF Queue!Acted, Queue!RefreshQueueConsoleState, Queue!LoadChannelState,
                            Queue!ReadRest

-----------------------------------------------------------------------------
(* The steps of the kit.                                                   *)

\* The kit's text, preview and result are kept, or what was shown is cleared.
Keeps(k) ==
    /\ IsKit(k) /\ k.draft = kit.draft
    /\ k.preview \in {kit.preview, None} /\ k.staged \in {kit.staged, None}

LEMMA KitKept ==
    ASSUME KitInv, Keeps(kit'), late' = late, Carries(calls', kit', late')
    PROVE  KitInv'
  BY DEF KitInv, Keeps, Shows

LEMMA BeginKitKeeps ==
    ASSUME KitInv, NEW op, NEW act, NEW jobs, NEW p, NEW k, Keeps(k),
           op \in {"preview", "stage"} => jobs = kit.draft, Queue!BeginKit(op, act, jobs, p, k)
    PROVE  KitInv'
  <1>1. TodoOK(Queue!KitAwaits(op))
        /\ (Head(Queue!KitAwaits(op)) \in {"preview", "stage"} => jobs = kit.draft)
    BY AwaitsOK
  <1>2. /\ Queue!BeginWith(op, Queue!KitAwaits(op), act, jobs, p)
        /\ kit' = k /\ kit'.draft = kit.draft /\ late' = late
    BY DEF Queue!BeginKit, Keeps
  <1>3. Carries(calls', kit', late')
    BY <1>1, <1>2, BeginCarries DEF KitInv
  <1> QED BY <1>2, <1>3, KitKept

\* A new text clears what was shown, and is too late for what was asked.
LEMMA ReplaceKeeps ==
    ASSUME KitInv, NEW ledger, Queue!ReplaceArchiveTxtDraft(ledger), calls' \subseteq calls
    PROVE  KitInv'
  <1>1. IsKit(kit') /\ kit'.preview = None /\ kit'.staged = None
    BY DEF KitInv, IsKit, Queue!ReplaceArchiveTxtDraft, Queue!ResetArchiveTxtReviewState
  <1>2. late' = \E c \in calls : Asks(c)
    BY DEF Queue!ReplaceArchiveTxtDraft, Queue!Asking, Asks
  <1>3. Carries(calls', kit', late')
    BY <1>2 DEF KitInv, Carries
  <1> QED BY <1>1, <1>3 DEF KitInv, Shows

LEMMA KitOperatorKeeps ==
    ASSUME KitInv, Queue!KitOperator
    PROVE  KitInv'
  <1>0. IsKit(kit)
    BY DEF KitInv
  <1>1. CASE \E ledger \in Ledgers : Queue!EditArchiveTxtDraft(ledger)
    BY <1>1, ReplaceKeeps DEF Queue!EditArchiveTxtDraft, Queue!Edit
  <1>2. CASE \E ledger \in Ledgers : Queue!LoadArchiveTxtFile(ledger)
    <2>1. Keeps(kit)
      BY <1>0 DEF Keeps
    <2> QED BY <1>2, <2>1, BeginKitKeeps DEF Queue!LoadArchiveTxtFile
  <1>3. CASE Queue!HandlePreviewArchiveTxt
    <2> DEFINE k == [kit EXCEPT !.status = "previewing", !.stage = "idle", !.staged = None,
                                !.sync = "idle", !.queue = "idle"]
    <2>1. Keeps(k)
      BY <1>0 DEF Keeps, IsKit
    <2>2. Queue!BeginKit("preview", None, kit.draft, page, k)
      BY <1>3 DEF Queue!HandlePreviewArchiveTxt
    <2> HIDE DEF k
    <2> QED BY <2>1, <2>2, BeginKitKeeps
  <1>4. CASE Queue!HandleStageArchiveTxt
    <2> DEFINE k == [kit EXCEPT !.stage = "staging", !.sync = "idle", !.queue = "idle"]
    <2>1. Keeps(k)
      BY <1>0 DEF Keeps, IsKit
    <2>2. Queue!BeginKit("stage", None, kit.draft, page, k)
      BY <1>4 DEF Queue!HandleStageArchiveTxt
    <2> HIDE DEF k
    <2> QED BY <2>1, <2>2, BeginKitKeeps
  <1>5. CASE Queue!HandleArchiveTxtOpenQueue
    <2>1. Keeps(kit)
      BY <1>0 DEF Keeps
    <2> QED BY <1>5, <2>1, BeginKitKeeps DEF Queue!HandleArchiveTxtOpenQueue
  <1>6. CASE Queue!HandleArchiveTxtPrepareQueue
    <2>1. Keeps([kit EXCEPT !.queue = "preparing"])
      BY <1>0 DEF Keeps, IsKit
    <2> QED BY <1>6, <2>1, BeginKitKeeps DEF Queue!HandleArchiveTxtPrepareQueue
  <1>7. CASE Queue!HandleArchiveTxtOpenRunConfirm
    <2>1. Keeps([kit EXCEPT !.run = "idle"])
      BY <1>0 DEF Keeps, IsKit
    <2> QED BY <1>7, <2>1, BeginKitKeeps DEF Queue!HandleArchiveTxtOpenRunConfirm
  <1>8. CASE Queue!HandleArchiveTxtPrepareAndRun
    <2>1. Keeps([kit EXCEPT !.run = "running", !.queue = "preparing"])
      BY <1>0 DEF Keeps, IsKit
    <2> QED BY <1>8, <2>1, BeginKitKeeps DEF Queue!HandleArchiveTxtPrepareAndRun
  <1>9. CASE Queue!CloseRunDialog
    <2>1. Keeps(kit') /\ calls' = calls /\ late' = late
      BY <1>0, <1>9 DEF Keeps, IsKit, Queue!CloseRunDialog, Queue!vars
    <2>2. Carries(calls', kit', late')
      BY <2>1 DEF KitInv, Carries, Keeps
    <2> QED BY <2>1, <2>2, KitKept
  <1>10. CASE Queue!HandleArchiveTxtMetadataSync
    <2>1. Keeps([kit EXCEPT !.sync = "syncing"])
      BY <1>0 DEF Keeps, IsKit
    <2> QED BY <1>10, <2>1, BeginKitKeeps DEF Queue!HandleArchiveTxtMetadataSync
  <1> QED
    BY <1>1, <1>2, <1>3, <1>4, <1>5, <1>6, <1>7, <1>8, <1>9, <1>10 DEF Queue!KitOperator

\* Only a handler that ends puts its status into the kit.
LEMMA EndsKeepKit ==
    ASSUME KitInv, NEW c \in calls,
           \/ Queue!RunPlanRead(c) \/ Queue!OpenQueueEnds(c) \/ Queue!PrepareEnds(c)
           \/ Queue!RunEndsWell(c) \/ Queue!SyncEnds(c) \/ Queue!KitFails(c)
    PROVE  KitInv'
  <1>0. IsKit(kit)
    BY DEF KitInv
  <1>1. Keeps(kit') /\ late' = late
    <2>1. CASE Queue!RunPlanRead(c)
      BY <1>0, <2>1 DEF Queue!RunPlanRead, Keeps, IsKit
    <2>2. CASE Queue!OpenQueueEnds(c) \/ Queue!SyncEnds(c)
      BY <1>0, <2>2 DEF Queue!OpenQueueEnds, Queue!SyncEnds, Keeps, IsKit
    <2>3. CASE Queue!PrepareEnds(c)
      BY <1>0, <2>3 DEF Queue!PrepareEnds, Keeps, IsKit
    <2>4. CASE Queue!RunEndsWell(c)
      <3> DEFINE k(run, q) == [kit EXCEPT !.run = run, !.queue = q, !.dialog = FALSE]
      <3>1. \A run, q : Keeps(k(run, q))
        BY <1>0 DEF Keeps, IsKit
      <3>2. /\ kit' = k(IF c.failed THEN "error" ELSE "done", IF c.failed THEN "error" ELSE "done")
            /\ late' = late
        BY <2>4 DEF Queue!RunEndsWell
      <3> HIDE DEF k
      <3> QED BY <3>1, <3>2
    <2>5. CASE Queue!KitFails(c)
      <3>1. kit' = Queue!KitFailed(c) /\ late' = late
        BY <2>5 DEF Queue!KitFails
      <3>2. \/ Queue!KitFailed(c) = [kit EXCEPT !.status = "error"]
            \/ Queue!KitFailed(c) = [kit EXCEPT !.stage = "error"]
            \/ Queue!KitFailed(c) = [kit EXCEPT !.queue = "error"]
            \/ Queue!KitFailed(c) = [kit EXCEPT !.run = "error"]
            \/ Queue!KitFailed(c) = [kit EXCEPT !.run = "error", !.queue = "error"]
            \/ Queue!KitFailed(c) = [kit EXCEPT !.sync = "error"]
            \/ Queue!KitFailed(c) = kit
        BY DEF Queue!KitFailed
      <3> QED BY <1>0, <3>1, <3>2 DEF Keeps, IsKit
    <2> QED BY <2>1, <2>2, <2>3, <2>4, <2>5
  <1>2. Joined({Queue!Load})
    <2>1. calls' \subseteq calls \cup {Queue!Load}
      BY DEF Queue!RunPlanRead, Queue!OpenQueueEnds, Queue!PrepareEnds, Queue!RunEndsWell,
             Queue!SyncEnds, Queue!KitFails, Queue!Ends, Queue!Arrives
    <2> QED BY <2>1, LoadJoins DEF Joined
  <1>3. Carries(calls', kit', late')
    BY <1>1, <1>2, CallsKept DEF KitInv, Keeps
  <1> QED BY <1>1, <1>3, KitKept

\* An answer is about the text it was asked for, which is the present one unless it
\* was changed under way.
LEMMA KitAnswersKeep ==
    ASSUME KitInv, NEW c \in calls, Queue!KitAnswers(c)
    PROVE  KitInv'
  <1>0. IsKit(kit) /\ IsCall(c) /\ (~late /\ Asks(c) => c.jobs = kit.draft)
    BY DEF KitInv, Carries
  <1>1. CASE Queue!Follows(c)
    <2>1. Carries(calls', kit', late')
      BY <1>1, AnswersCarry DEF Queue!Follows, KitInv
    <2>2. Keeps(kit') /\ late' = late
      BY <1>0, <1>1 DEF Queue!Follows, Keeps
    <2> QED BY <2>1, <2>2, KitKept
  <1>2. CASE Queue!FileRead(c)
    BY <1>2, ReplaceKeeps DEF Queue!FileRead, Queue!Ends
  <1>3. CASE Queue!PreviewAnswered(c)
    <2> DEFINE answer == Queue!PreviewArchiveTxt(c.jobs)
    <2>1. /\ kit' = [kit EXCEPT !.preview = answer, !.status = "done"]
          /\ late' = late /\ calls' \subseteq calls /\ Asks(c) /\ answer.of = c.jobs
      BY <1>3 DEF Queue!PreviewAnswered, Queue!Ends, Asks, Queue!PreviewArchiveTxt
    <2> HIDE DEF answer
    <2>2. /\ IsKit(kit') /\ kit'.draft = kit.draft /\ kit'.preview = answer
          /\ kit'.staged = kit.staged
      BY <1>0, <2>1 DEF IsKit
    <2>3. Carries(calls', kit', late')
      BY <2>1, <2>2 DEF KitInv, Carries
    <2>4. Shows(kit', late')
      BY <1>0, <2>1, <2>2 DEF KitInv, Shows
    <2> QED BY <2>2, <2>3, <2>4 DEF KitInv
  <1>4. CASE Queue!StageAnswered(c)
    <2> DEFINE answer == Queue!PreviewArchiveTxt(c.jobs)
               result == Queue!StageArchiveTxt(c.jobs)
    <2>1. /\ kit' = [kit EXCEPT !.staged = result, !.stage = "done", !.preview = answer]
          /\ late' = late /\ Queue!GoesOn(c) /\ Asks(c)
      BY <1>4 DEF Queue!StageAnswered, Asks
    <2>2. answer.of = c.jobs /\ result.of = c.jobs
      BY DEF Queue!PreviewArchiveTxt, Queue!StageArchiveTxt
    <2> HIDE DEF answer, result
    <2>3. /\ IsKit(kit') /\ kit'.draft = kit.draft /\ kit'.preview = answer
          /\ kit'.staged = result
      BY <1>0, <2>1 DEF IsKit
    <2>4. Carries(calls', kit', late')
      BY <2>1, <2>3, GoesOnCarries DEF KitInv
    <2>5. Shows(kit', late')
      BY <1>0, <2>1, <2>2, <2>3 DEF Shows
    <2> QED BY <2>3, <2>4, <2>5 DEF KitInv
  <1>5. CASE \E status \in {"done", "error"} : Queue!SyncAnswered(c, status)
    <2>1. PICK status \in {"done", "error"} : Queue!SyncAnswered(c, status)
      BY <1>5
    <2> DEFINE d == [c EXCEPT !.todo = Tail(@), !.failed = status = "error"]
    <2>2. {"todo", "jobs"} \subseteq DOMAIN d /\ d.todo = Tail(c.todo)
      BY <1>0 DEF IsCall
    <2>3. /\ Queue!Becomes(c, d) /\ Len(c.todo) # 1 /\ Keeps(kit') /\ late' = late
      BY <1>0, <2>1, NotLast DEF Queue!SyncAnswered, Keeps, IsKit
    <2> HIDE DEF d
    <2>4. MayJoin(d, kit, late)
      BY <1>0, <2>2, <2>3, TailJoins
    <2>5. Joined({d})
      BY <2>3, <2>4 DEF Joined, Queue!Becomes
    <2>6. Carries(calls', kit', late')
      BY <2>3, <2>5, CallsKept DEF KitInv, Keeps
    <2> QED BY <2>3, <2>6, KitKept
  <1>6. CASE \/ Queue!RunPlanRead(c) \/ Queue!OpenQueueEnds(c) \/ Queue!PrepareEnds(c)
             \/ Queue!RunEndsWell(c) \/ Queue!SyncEnds(c) \/ Queue!KitFails(c)
    BY <1>6, EndsKeepKit
  <1> QED
    BY <1>1, <1>2, <1>3, <1>4, <1>5, <1>6 DEF Queue!KitAnswers

LEMMA KitInitOK ==
    ASSUME Queue!KitInit
    PROVE  KitInv
  <1>1. IsKit(kit) /\ kit.preview = None /\ kit.staged = None
    BY DEF Queue!KitInit, IsKit
  <1>2. calls \subseteq {Queue!Load}
    BY DEF Queue!KitInit, Queue!Init
  <1>3. Carries(calls, kit, late)
    BY <1>2, LoadJoins DEF Carries, MayJoin
  <1> QED BY <1>1, <1>3 DEF KitInv, Shows

LEMMA KitStep ==
    ASSUME KitInv, [Queue!KitNext]_(Queue!kitVars)
    PROVE  KitInv'
  <1>0. Carries(calls, kit, late)
    BY DEF KitInv
  <1>1. ASSUME Carries(calls', kit', late'), UNCHANGED <<kit, late>>
        PROVE  KitInv'
    BY <1>1 DEF KitInv
  <1>2. CASE Queue!KitOperator
    BY <1>2, KitOperatorKeeps
  <1>3. CASE (Queue!Operator \/ Queue!Server) /\ UNCHANGED <<kit, late>>
    BY <1>0, <1>1, <1>3, PageOperatorCarries, ServerCarries
  <1>4. ASSUME NEW c \in calls, Queue!Reads(c), UNCHANGED <<kit, late>>
        PROVE  KitInv'
    BY <1>0, <1>1, <1>4, ReadsCarry
  <1>5. ASSUME NEW c \in calls, Queue!Answers(c), UNCHANGED <<kit, late>>
        PROVE  KitInv'
    BY <1>0, <1>1, <1>5, AnswersCarry DEF Queue!Answers
  <1>6. ASSUME NEW c \in calls, Queue!KitAnswers(c)
        PROVE  KitInv'
    BY <1>6, KitAnswersKeep
  <1>7. CASE UNCHANGED Queue!kitVars
    BY <1>0, <1>1, <1>7 DEF Queue!kitVars, Queue!vars
  <1> QED
    BY <1>2, <1>3, <1>4, <1>5, <1>6, <1>7 DEF Queue!KitNext

\* The kit's part of a state of the console.
QueueKitInv == area = "queue" => KitInv

\* Whatever the ledgers, the jobs and the channel hold, and in whatever order files
\* are read, previews and stages answer, fail or overlap with the queue page's
\* handlers, what the kit shows and offers to a pass comes from the text that stands
\* in its editor, unless that text was changed while an answer was awaited.
THEOREM LedgerReviewed == Spec => []Reviewed
  <1>1. Init => QueueKitInv
    BY KitInitOK DEF Init, QueueKitInv
  <1>2. QueueKitInv /\ [Next]_vars => QueueKitInv'
    <2> SUFFICES ASSUME QueueKitInv, [Next]_vars, area' = "queue"
                 PROVE  KitInv'
      BY DEF QueueKitInv
    <2>1. KitInv /\ [Queue!KitNext]_(Queue!kitVars)
      BY DEF QueueKitInv, Next, vars, Queue!kitVars, Queue!vars
    <2> QED BY <2>1, KitStep
  <1>3. QueueKitInv => Reviewed
    BY DEF QueueKitInv, KitInv, Shows, Reviewed, Queue!Reviewed
  <1> QED BY <1>1, <1>2, <1>3, PTL DEF Spec

-----------------------------------------------------------------------------
(***************************************************************************)
(* The schedule of backups                                                 *)
(***************************************************************************)

Quiet == {"reload", "summary"}

ScheduleCalls ==
    [slot : 1..MaxCalls, op : Schedule!Ops,
     at : {"policy", "plan", "candidates", "queue", "save", "read", "answer"},
     draft : Schedule!Settings, todo : SUBSET Schedule!Everything, saw : Schedule!Policies,
     cut : BOOLEAN, told : BOOLEAN, firm : BOOLEAN,
     got : {None} \cup Schedule!Policies \cup Schedule!Servers]

\* How far each operation can be, and what it has got by then.
AtOK(c) ==
    /\ c.op = "start" => c.at \in {"policy", "candidates", "queue", "save"}
    /\ c.op = "stop" => c.at = "policy"
    /\ c.op \in {"update", "apply"} => c.at = "save"
    /\ c.op = "toggle" => c.at \in {"policy", "plan"}
    /\ c.op = "auto" => c.at = "policy"
    /\ c.op \in Quiet => c.at \in {"read", "answer"}
    /\ c.told => c.at = "save"
    /\ c.at = "plan" => c.got \in Schedule!Policies
    /\ c.at = "answer" => c.got \in Schedule!Servers
    /\ c.op = "start" => /\ c.draft.on = Schedule!Switches /\ c.draft.every = c.draft.metaEvery
                         /\ c.at # "save" => c.todo = Schedule!Everything

\* An operation the overview waits for, and one begun on firm ground.
Saves(c) == c.op \in Schedule!Writers \ {"toggle", "auto"} /\ ~c.told
Sure(c) == Saves(c) /\ c.firm

ScheduleTypes ==
    /\ server \in Schedule!Servers /\ page \in Schedule!Pages
    /\ \A c \in calls : c \in ScheduleCalls /\ AtOK(c)
    /\ note \in {"nothing", "on", "paused"}

ScheduleLeft ==
    \E b \in Budgets : left.edits \in 0..b.edits /\ left.calls \in 0..b.calls
                       /\ left.ops = b.ops /\ {"edits", "calls", "ops"} \subseteq DOMAIN left

OneSave ==
    \A c \in calls : Saves(c) => /\ page.applyStatus = "applying"
                                 /\ \A d \in calls : Saves(d) => d = c

SureAlone == \A c \in calls : Sure(c) => \A d \in calls \ {c} : d.op \in Quiet

ReportAlone == note # "nothing" => \A c \in calls : c.op \in Quiet

\* What a start on firm ground has done on the server by the time it awaits c.at.
Done(c) ==
    /\ c.at \in {"candidates", "queue", "save"} => server.policy = [auto |-> TRUE, paused |-> FALSE]
    /\ c.at = "queue" => server.backlog \in {"candidate", "queued"}
    /\ c.at = "save" =>
          /\ page.complete \/ server.backlog = "queued"
          /\ "settings" \notin c.todo => server.settings = c.draft
          /\ \A k \in Channels \ c.todo : server.minutes[k] = Schedule!Minutes(c.draft.every)

StartsDone == \A c \in calls : Sure(c) /\ c.op = "start" => Done(c)

ScheduleInv ==
    /\ ScheduleTypes /\ ScheduleLeft /\ OneSave /\ SureAlone /\ ReportAlone /\ StartsDone
    /\ Schedule!ReportedIsSo /\ Schedule!NeverStuck

-----------------------------------------------------------------------------
(* A call that is answered is replaced by what is left of it.              *)

\* D is empty or holds what is left of c, and the step did on the server, on the
\* page and in the report what c lets it do.
Fits(c, D) ==
    /\ calls' = (calls \ {c}) \cup D
    /\ \A d, e \in D : d = e
    /\ \A d \in D : /\ d \in ScheduleCalls /\ AtOK(d)
                    /\ Saves(d) => Saves(c)
                    /\ Sure(d) => Sure(c)
                    /\ c.op \in Quiet => d.op \in Quiet
    /\ server' \in Schedule!Servers /\ (c.op \in Quiet => server' = server)
    /\ page' \in Schedule!Pages /\ page'.complete = page.complete
    /\ \/ page'.applyStatus = page.applyStatus /\ (Saves(c) => \E d \in D : Saves(d))
       \/ Saves(c) /\ page'.applyStatus # "applying" /\ \A d \in D : ~Saves(d)

\* What a call on firm ground goes on with has done its part, and what is reported
\* at its end is so.
Reports(c, D) ==
    /\ \A d \in D : Sure(d) /\ d.op = "start" => Done(d)'
    /\ \/ note' = note
       \/ /\ note' \in {"nothing", "on", "paused"} /\ Schedule!ReportedIsSo'
          /\ Sure(c) /\ \A d \in D : d.op \in Quiet

LEMMA FitsAlone ==
    ASSUME OneSave, SureAlone, Schedule!NeverStuck, NEW c \in calls, NEW D, Fits(c, D)
    PROVE  OneSave' /\ SureAlone' /\ Schedule!NeverStuck'
  <1>1. OneSave'
    <2> SUFFICES ASSUME NEW e \in calls', Saves(e)
                 PROVE  page'.applyStatus = "applying" /\ \A f \in calls' : Saves(f) => f = e
      BY DEF OneSave, Saves
    <2>1. CASE e \in D
      BY <2>1 DEF Fits, OneSave
    <2>2. CASE e \notin D
      <3>1. e \in calls /\ e # c /\ ~Saves(c)
        BY <2>2 DEF Fits, OneSave
      <3> QED BY <3>1 DEF Fits, OneSave
    <2> QED BY <2>1, <2>2
  <1>2. SureAlone'
    <2> SUFFICES ASSUME NEW e \in calls', Sure(e), NEW f \in calls', f # e
                 PROVE  f.op \in Quiet
      BY DEF SureAlone, Sure, Saves, Quiet
    <2>1. CASE e \in D
      BY <2>1 DEF Fits, SureAlone
    <2>2. CASE e \notin D
      BY <2>2 DEF Fits, SureAlone
    <2> QED BY <2>1, <2>2
  <1>3. Schedule!NeverStuck'
    <2> SUFFICES ASSUME page'.applyStatus = "applying"
                 PROVE  \E e \in calls' : Saves(e)
      BY DEF Schedule!NeverStuck, Saves, Schedule!Writers
    <2>1. page.applyStatus = "applying" /\ (Saves(c) => \E d \in D : Saves(d))
      BY DEF Fits
    <2>2. PICK e \in calls : Saves(e)
      BY <2>1 DEF Schedule!NeverStuck, Saves, Schedule!Writers
    <2> QED BY <2>1, <2>2 DEF Fits
  <1> QED BY <1>1, <1>2, <1>3

LEMMA Answered ==
    ASSUME ScheduleInv, NEW c \in calls, NEW D, Fits(c, D), Reports(c, D), left' = left
    PROVE  ScheduleInv'
  <1>1. OneSave' /\ SureAlone' /\ Schedule!NeverStuck'
    BY FitsAlone DEF ScheduleInv
  <1>2. ScheduleTypes' /\ ScheduleLeft'
    <2>1. \A e \in calls' : e \in ScheduleCalls /\ AtOK(e)
      BY DEF ScheduleInv, ScheduleTypes, Fits
    <2>2. note' \in {"nothing", "on", "paused"} /\ server' \in Schedule!Servers
          /\ page' \in Schedule!Pages
      BY DEF ScheduleInv, ScheduleTypes, Fits, Reports
    <2> QED BY <2>1, <2>2 DEF ScheduleTypes, ScheduleInv, ScheduleLeft, AtOK
  <1>3. ReportAlone'
    <2> SUFFICES ASSUME note' # "nothing", NEW e \in calls' PROVE e.op \in Quiet
      BY DEF ReportAlone, Quiet
    <2>1. CASE note' = note
      BY <2>1 DEF ScheduleInv, ReportAlone, Fits
    <2>2. CASE Sure(c) /\ \A d \in D : d.op \in Quiet
      BY <2>2 DEF ScheduleInv, SureAlone, Fits
    <2> QED BY <2>1, <2>2 DEF Reports
  <1>4. c.op \in Quiet => server' = server /\ page'.complete = page.complete
    BY DEF Fits
  <1>5. StartsDone'
    <2> SUFFICES ASSUME NEW e \in calls', Sure(e), e.op = "start" PROVE Done(e)'
      BY DEF StartsDone, Sure, Saves
    <2>1. CASE e \in D
      BY <2>1 DEF Reports
    <2>2. CASE e \notin D
      <3>1. e \in calls /\ c.op \in Quiet
        BY <2>2 DEF Fits, ScheduleInv, SureAlone
      <3>2. Done(e)
        BY <3>1 DEF ScheduleInv, StartsDone
      <3> QED BY <1>4, <3>1, <3>2 DEF Done
    <2> QED BY <2>1, <2>2
  <1>6. Schedule!ReportedIsSo'
    <2>1. CASE note' = note /\ note # "nothing"
      <3>1. server' = server /\ page'.complete = page.complete
        BY <1>4, <2>1 DEF ScheduleInv, ReportAlone
      <3> QED BY <2>1, <3>1 DEF ScheduleInv, Schedule!ReportedIsSo
    <2>2. CASE note' = "nothing"
      BY <2>2 DEF Schedule!ReportedIsSo
    <2> QED BY <2>1, <2>2 DEF Reports
  <1> QED BY <1>1, <1>2, <1>3, <1>5, <1>6 DEF ScheduleInv

-----------------------------------------------------------------------------
(* The steps of the operator.                                              *)

\* The draft is edited, or other work begins or ends, beside the calls.
LEMMA Beside ==
    ASSUME ScheduleInv, UNCHANGED <<server, calls, note>>, ScheduleLeft',
           page' \in Schedule!Pages, page'.complete = page.complete,
           \/ page'.applyStatus = page.applyStatus
           \/ page.applyStatus # "applying" /\ page'.applyStatus # "applying"
    PROVE  ScheduleInv'
  <1>1. ScheduleTypes' /\ OneSave'
    BY DEF ScheduleInv, ScheduleTypes, OneSave, AtOK, Saves
  <1>2. SureAlone' /\ ReportAlone' /\ Schedule!NeverStuck'
    BY DEF ScheduleInv, SureAlone, ReportAlone, Schedule!NeverStuck, Sure, Saves
  <1>3. StartsDone'
    <2> SUFFICES ASSUME NEW c \in calls, Sure(c), c.op = "start" PROVE Done(c)'
      BY DEF StartsDone, Sure, Saves
    <2>1. Done(c)
      BY DEF ScheduleInv, StartsDone
    <2> QED BY <2>1 DEF Done
  <1>4. Schedule!ReportedIsSo'
    BY DEF ScheduleInv, Schedule!ReportedIsSo
  <1> QED BY <1>1, <1>2, <1>3, <1>4 DEF ScheduleInv

\* A call that begins.
NewCall(op, at, draft, todo) ==
    [slot |-> Schedule!FreeSlot, op |-> op, at |-> at, draft |-> draft, todo |-> todo,
     saw |-> page.policy, cut |-> FALSE, told |-> FALSE, firm |-> Schedule!Firm, got |-> None]

\* A toggle takes the firm ground from the calls under way.
Shaken(c) == [c EXCEPT !.firm = FALSE]
UnderWay(op) == {IF op \in {"toggle", "auto"} THEN Shaken(c) ELSE c : c \in calls}

LEMMA ShakenOK ==
    ASSUME NEW c \in ScheduleCalls, AtOK(c)
    PROVE  /\ Shaken(c) \in ScheduleCalls /\ AtOK(Shaken(c)) /\ ~Sure(Shaken(c))
           /\ Saves(Shaken(c)) <=> Saves(c)
           /\ Shaken(c).op = c.op
  <1>1. Shaken(c) \in ScheduleCalls /\ Shaken(c).firm = FALSE
    BY DEF Shaken, ScheduleCalls
  <1>2. /\ Shaken(c).op = c.op /\ Shaken(c).at = c.at /\ Shaken(c).told = c.told
        /\ Shaken(c).got = c.got /\ Shaken(c).draft = c.draft /\ Shaken(c).todo = c.todo
    BY DEF Shaken, ScheduleCalls
  <1> HIDE DEF Shaken
  <1> QED BY <1>1, <1>2 DEF AtOK, Sure, Saves

\* What a button or a toggle may begin.
MayBegin(op, at, draft, todo, p) ==
    /\ op \in Schedule!Ops /\ draft \in Schedule!Settings /\ todo \subseteq Schedule!Everything
    /\ p \in Schedule!Pages /\ p.complete = page.complete
    /\ at \in {"policy", "candidates", "save", "read"}
    /\ AtOK(NewCall(op, at, draft, todo))
    /\ IF op \in Schedule!Writers \ {"toggle", "auto"}
       THEN page.applyStatus # "applying" /\ p.applyStatus = "applying"
       ELSE p.applyStatus = page.applyStatus
    /\ op = "start" /\ Schedule!Firm => Done(NewCall(op, at, draft, todo))

LEMMA BeginTypes ==
    ASSUME ScheduleInv, NEW op, NEW at, NEW draft, NEW todo, NEW p,
           MayBegin(op, at, draft, todo, p), Schedule!Begin(op, at, draft, todo, p)
    PROVE  /\ calls' = UnderWay(op) \cup {NewCall(op, at, draft, todo)}
           /\ NewCall(op, at, draft, todo) \in ScheduleCalls
           /\ ScheduleTypes' /\ ScheduleLeft'
  <1>1. calls' = UnderWay(op) \cup {NewCall(op, at, draft, todo)}
    BY DEF Schedule!Begin, UnderWay, Shaken, NewCall
  <1>2. NewCall(op, at, draft, todo) \in ScheduleCalls
    <2>1. Schedule!FreeSlot \in 1..MaxCalls
      BY DEF Schedule!Begin, Schedule!FreeSlot, Schedule!FreeSlots
    <2>2. page.policy \in Schedule!Policies
      BY DEF ScheduleInv, ScheduleTypes, Schedule!Pages
    <2>3. Schedule!Firm \in BOOLEAN
      BY DEF Schedule!Firm
    <2> QED BY <2>1, <2>2, <2>3, Zenon DEF NewCall, ScheduleCalls, MayBegin
  <1>3. \A e \in calls' : e \in ScheduleCalls /\ AtOK(e)
    BY <1>1, <1>2, ShakenOK DEF ScheduleInv, ScheduleTypes, UnderWay, MayBegin
  <1>4. server' = server /\ page' = p /\ note' \in {note, "nothing"}
    BY DEF Schedule!Begin
  <1>5. ScheduleTypes'
    BY <1>3, <1>4 DEF ScheduleTypes, ScheduleInv, MayBegin, AtOK
  <1>6. ScheduleLeft'
    <2>1. PICK b \in Budgets : left.edits \in 0..b.edits /\ left.calls \in 0..b.calls
                       /\ left.ops = b.ops /\ {"edits", "calls", "ops"} \subseteq DOMAIN left
      BY DEF ScheduleInv, ScheduleLeft
    <2>2. left.calls > 0 /\ left' = [left EXCEPT !.calls = left.calls - 1]
      BY DEF Schedule!Begin
    <2>3. b.edits \in Nat /\ b.calls \in Nat
      BY PagesAssumption DEF PagesAssumption, Schedule!BudgetsAssumption
    <2>4. /\ left'.edits = left.edits /\ left'.calls = left.calls - 1 /\ left'.ops = left.ops
          /\ {"edits", "calls", "ops"} \subseteq DOMAIN left'
      BY <2>1, <2>2
    <2>5. left'.calls \in 0..b.calls
      BY <2>1, <2>2, <2>3, <2>4
    <2> QED BY <2>1, <2>4, <2>5 DEF ScheduleLeft
  <1> QED BY <1>1, <1>2, <1>5, <1>6

LEMMA BeginKeepsSchedule ==
    ASSUME ScheduleInv, NEW op, NEW at, NEW draft, NEW todo, NEW p,
           MayBegin(op, at, draft, todo, p), Schedule!Begin(op, at, draft, todo, p)
    PROVE  ScheduleInv'
  <1> DEFINE new == NewCall(op, at, draft, todo)
  <1>1. calls' = UnderWay(op) \cup {new} /\ ScheduleTypes' /\ ScheduleLeft'
    BY BeginTypes
  <1>2. server' = server /\ page' = p /\ note' = IF op \in Schedule!Writers THEN "nothing" ELSE note
    BY DEF Schedule!Begin
  <1>3. /\ Saves(new) <=> op \in Schedule!Writers \ {"toggle", "auto"}
        /\ Sure(new) <=> Saves(new) /\ Schedule!Firm
        /\ new.op = op
    BY DEF NewCall, Saves, Sure
  <1>4. op \notin {"toggle", "auto"} => UnderWay(op) = calls
    BY DEF UnderWay
  <1>5. op \in {"toggle", "auto"} =>
            /\ \A e \in UnderWay(op) : \E c \in calls : e = Shaken(c)
            /\ \A c \in calls : Shaken(c) \in UnderWay(op)
    BY DEF UnderWay
  <1>6. \A c \in calls : c \in ScheduleCalls /\ AtOK(c)
    BY DEF ScheduleInv, ScheduleTypes
  <1>7. CASE op \in Schedule!Writers \ {"toggle", "auto"}
    <2>1. page.applyStatus # "applying" /\ p.applyStatus = "applying"
      BY <1>7 DEF MayBegin
    <2>2. calls' = calls \cup {new} /\ \A c \in calls : ~Saves(c)
      BY <1>1, <1>4, <1>7, <2>1 DEF ScheduleInv, OneSave
    <2>3. OneSave' /\ Schedule!NeverStuck'
      <3> HIDE DEF new
      <3>1. \A c \in calls' : Saves(c) => c = new
        BY <2>2
      <3>2. Saves(new) /\ new \in calls'
        BY <1>3, <1>7, <2>2
      <3> QED BY <1>2, <2>1, <3>1, <3>2 DEF OneSave, Schedule!NeverStuck, Saves, Schedule!Writers
    <2>4. Schedule!Firm => \A c \in calls : c.op \in Quiet
      BY <1>6, <2>2 DEF Schedule!Firm, Saves, ScheduleCalls, Schedule!Ops, Schedule!Writers, Quiet
    <2>5. SureAlone'
      <3> HIDE DEF new
      <3>1. \A c \in calls' : Sure(c) => c = new /\ Schedule!Firm
        BY <1>3, <2>2 DEF Sure
      <3> QED BY <2>2, <2>4, <3>1 DEF SureAlone, Sure, Saves, Quiet
    <2>6. note' = "nothing"
      BY <1>2, <1>7
    <2>7. ReportAlone' /\ Schedule!ReportedIsSo'
      BY <2>6 DEF ReportAlone, Schedule!ReportedIsSo
    <2>8. StartsDone'
      <3> SUFFICES ASSUME NEW c \in calls', Sure(c), c.op = "start" PROVE Done(c)'
        BY DEF StartsDone, Sure, Saves
      <3>1. c = new /\ Schedule!Firm /\ op = "start"
        <4> HIDE DEF new
        <4> QED BY <1>3, <2>2 DEF Sure
      <3>2. Done(c)
        BY <3>1 DEF MayBegin
      <3>3. server' = server /\ page'.complete = page.complete
        BY <1>2 DEF MayBegin
      <3> QED BY <3>2, <3>3 DEF Done
    <2> QED BY <1>1, <2>3, <2>5, <2>7, <2>8 DEF ScheduleInv
  <1>8. CASE op \in {"toggle", "auto"}
    <2>1. p.applyStatus = page.applyStatus /\ ~Saves(new)
      BY <1>3, <1>8 DEF MayBegin
    <2>2. \A e \in calls' : Saves(e) => \E c \in calls : e = Shaken(c) /\ Saves(c)
      <3> HIDE DEF new
      <3> QED BY <1>1, <1>5, <1>6, <1>8, <2>1, ShakenOK
    <2>3. \A e \in calls' : ~Sure(e)
      <3> HIDE DEF new
      <3> QED BY <1>1, <1>5, <1>6, <1>8, <2>1, ShakenOK DEF Sure
    <2>4. OneSave'
      <3> SUFFICES ASSUME NEW e \in calls', Saves(e)
                   PROVE  page'.applyStatus = "applying" /\ \A f \in calls' : Saves(f) => f = e
        BY DEF OneSave, Saves
      <3> QED BY <1>2, <2>1, <2>2 DEF ScheduleInv, OneSave
    <2>5. Schedule!NeverStuck'
      <3> SUFFICES ASSUME page'.applyStatus = "applying"
                   PROVE  \E e \in calls' : Saves(e)
        BY DEF Schedule!NeverStuck, Saves, Schedule!Writers
      <3>1. PICK c \in calls : Saves(c)
        BY <1>2, <2>1 DEF ScheduleInv, Schedule!NeverStuck, Saves, Schedule!Writers
      <3>2. Shaken(c) \in calls' /\ Saves(Shaken(c))
        BY <1>1, <1>5, <1>6, <1>8, <3>1, ShakenOK
      <3> QED BY <3>2
    <2>6. SureAlone' /\ StartsDone'
      BY <2>3 DEF SureAlone, StartsDone, Sure, Saves
    <2>7. note' = "nothing"
      BY <1>2, <1>8 DEF Schedule!Writers
    <2>8. ReportAlone' /\ Schedule!ReportedIsSo'
      BY <2>7 DEF ReportAlone, Schedule!ReportedIsSo
    <2> QED BY <1>1, <2>4, <2>5, <2>6, <2>8 DEF ScheduleInv
  <1>9. CASE op \in Quiet
    <2>1. p.applyStatus = page.applyStatus /\ ~Saves(new) /\ note' = note
      BY <1>2, <1>3, <1>9 DEF MayBegin, Quiet, Schedule!Writers
    <2>2. calls' = calls \cup {new} /\ new.op \in Quiet
      BY <1>1, <1>3, <1>4, <1>9 DEF Quiet
    <2> HIDE DEF new
    <2>3. OneSave'
      BY <1>2, <2>1, <2>2 DEF ScheduleInv, OneSave, Saves
    <2>4. Schedule!NeverStuck' /\ SureAlone' /\ ReportAlone'
      BY <1>2, <2>1, <2>2
         DEF ScheduleInv, Schedule!NeverStuck, SureAlone, ReportAlone, Sure, Saves
    <2>5. server' = server /\ page'.complete = page.complete
      BY <1>2 DEF MayBegin
    <2>6. StartsDone'
      <3> SUFFICES ASSUME NEW c \in calls', Sure(c), c.op = "start" PROVE Done(c)'
        BY DEF StartsDone, Sure, Saves
      <3>1. Done(c)
        BY <2>1, <2>2 DEF ScheduleInv, StartsDone, Sure
      <3> QED BY <2>5, <3>1 DEF Done
    <2>7. Schedule!ReportedIsSo'
      BY <2>1, <2>5 DEF ScheduleInv, Schedule!ReportedIsSo
    <2> QED BY <1>1, <2>3, <2>4, <2>6, <2>7 DEF ScheduleInv
  <1> QED
    BY <1>7, <1>8, <1>9 DEF MayBegin, Schedule!Ops, Schedule!Writers, Quiet

LEMMA StartKeeps ==
    ASSUME ScheduleInv, NEW trouble, Schedule!HandleStartDownloadSchedule(trouble)
    PROVE  ScheduleInv'
  <1> DEFINE d == Schedule!NextDraft
             p == Schedule!Applying(d)
             at == IF Schedule!AutomaticBackupIntended THEN Schedule!AfterPolicy ELSE "policy"
  <1>1. page \in Schedule!Pages /\ page.applyStatus # "applying"
    BY DEF ScheduleInv, ScheduleTypes, Schedule!HandleStartDownloadSchedule, Schedule!OverviewOffers
  <1>2. d \in Schedule!Settings /\ d.on = Schedule!Switches /\ d.every = d.metaEvery
    BY <1>1 DEF Schedule!NextDraft, Schedule!Pages, Schedule!Settings
  <1>3. CASE Schedule!IsRuntimeDraftValid(d)
    <2>1. Schedule!Begin("start", at, d, Schedule!Everything, p)
      BY <1>3 DEF Schedule!HandleStartDownloadSchedule
    <2>2. p \in Schedule!Pages /\ p.complete = page.complete /\ p.applyStatus = "applying"
      <3> HIDE DEF d
      <3> QED BY <1>1, <1>2 DEF Schedule!Applying, Schedule!Pages
    <2>3. at \in {"policy", "candidates", "save"} /\ (at = "save" => page.complete)
      BY DEF Schedule!AfterPolicy
    <2>4. at # "policy" /\ Schedule!Firm => server.policy = [auto |-> TRUE, paused |-> FALSE]
      BY <1>1 DEF Schedule!AutomaticBackupIntended, Schedule!Firm, Schedule!Pages, Schedule!Policies
    <2> DEFINE new == NewCall("start", at, d, Schedule!Everything)
    <2>5. /\ new.op = "start" /\ new.at = at /\ new.told = FALSE /\ new.draft = d
          /\ new.todo = Schedule!Everything
      BY DEF NewCall
    <2> HIDE DEF d, at, p, new
    <2>6. AtOK(new)
      BY <1>2, <2>3, <2>5 DEF AtOK, Quiet
    <2>7. Schedule!Firm => Done(new)
      BY <2>3, <2>4, <2>5 DEF Done, Schedule!Everything
    <2>8. MayBegin("start", at, d, Schedule!Everything, p)
      BY <1>1, <1>2, <2>2, <2>3, <2>6, <2>7
         DEF MayBegin, Schedule!Ops, Schedule!Writers, new
    <2> QED BY <2>1, <2>8, BeginKeepsSchedule
  <1>4. CASE ~Schedule!IsRuntimeDraftValid(d)
    <2>1. /\ page' = [page EXCEPT !.applyStatus = "error"]
          /\ UNCHANGED <<server, calls, note, left>>
      BY <1>4 DEF Schedule!HandleStartDownloadSchedule, Schedule!Refused
    <2>2. page' \in Schedule!Pages /\ page'.complete = page.complete /\ page'.applyStatus = "error"
      BY <1>1, <2>1 DEF Schedule!Pages
    <2> QED BY <1>1, <2>1, <2>2, Beside DEF ScheduleInv, ScheduleLeft
  <1> QED BY <1>3, <1>4

LEMMA UpdateKeeps ==
    ASSUME ScheduleInv, NEW trouble, Schedule!HandleUpdateDownloadSchedule(trouble)
    PROVE  ScheduleInv'
  <1> DEFINE d == Schedule!NextDraft
             p == Schedule!Applying(d)
  <1>1. page \in Schedule!Pages /\ page.applyStatus # "applying"
    BY DEF ScheduleInv, ScheduleTypes, Schedule!HandleUpdateDownloadSchedule,
           Schedule!OverviewOffers
  <1>2. d \in Schedule!Settings
    BY <1>1 DEF Schedule!NextDraft, Schedule!Pages, Schedule!Settings
  <1>3. CASE Schedule!IsRuntimeDraftValid(d)
    <2>1. Schedule!Begin("update", "save", d, Schedule!Everything, p)
      BY <1>3 DEF Schedule!HandleUpdateDownloadSchedule
    <2>2. p \in Schedule!Pages /\ p.complete = page.complete /\ p.applyStatus = "applying"
      <3> HIDE DEF d
      <3> QED BY <1>1, <1>2 DEF Schedule!Applying, Schedule!Pages
    <2> HIDE DEF d, p
    <2>3. AtOK(NewCall("update", "save", d, Schedule!Everything))
      BY DEF AtOK, NewCall, Quiet
    <2>4. MayBegin("update", "save", d, Schedule!Everything, p)
      BY <1>1, <1>2, <2>2, <2>3 DEF MayBegin, Schedule!Ops, Schedule!Writers
    <2> QED BY <2>1, <2>4, BeginKeepsSchedule
  <1>4. CASE ~Schedule!IsRuntimeDraftValid(d)
    <2>1. /\ page' = [page EXCEPT !.applyStatus = "error"]
          /\ UNCHANGED <<server, calls, note, left>>
      BY <1>4 DEF Schedule!HandleUpdateDownloadSchedule, Schedule!Refused
    <2>2. page' \in Schedule!Pages /\ page'.complete = page.complete /\ page'.applyStatus = "error"
      BY <1>1, <2>1 DEF Schedule!Pages
    <2> QED BY <1>1, <2>1, <2>2, Beside DEF ScheduleInv, ScheduleLeft
  <1> QED BY <1>3, <1>4

LEMMA OtherBeginsKeep ==
    ASSUME ScheduleInv,
           \/ \E trouble \in BOOLEAN : Schedule!HandleStopDownloadSchedule(trouble)
           \/ Schedule!HandleApplyRuntimeSettings
           \/ Schedule!HandleToggleWorkerPause \/ Schedule!HandleToggleAutoDownload
           \/ Schedule!Reload
    PROVE  ScheduleInv'
  <1>1. page \in Schedule!Pages /\ page.draft \in Schedule!Settings
    BY DEF ScheduleInv, ScheduleTypes, Schedule!Pages
  <1>2. CASE \E trouble \in BOOLEAN : Schedule!HandleStopDownloadSchedule(trouble)
    <2> DEFINE p == Schedule!Applying(page.draft)
    <2>1. page.applyStatus # "applying" /\ Schedule!Begin("stop", "policy", page.draft, {}, p)
      BY <1>2 DEF Schedule!HandleStopDownloadSchedule, Schedule!OverviewOffers
    <2>2. p \in Schedule!Pages /\ p.complete = page.complete /\ p.applyStatus = "applying"
      BY <1>1 DEF Schedule!Applying, Schedule!Pages
    <2> HIDE DEF p
    <2>3. AtOK(NewCall("stop", "policy", page.draft, {}))
      BY DEF AtOK, NewCall, Quiet
    <2>4. MayBegin("stop", "policy", page.draft, {}, p)
      BY <1>1, <2>1, <2>2, <2>3 DEF MayBegin, Schedule!Ops, Schedule!Writers
    <2> QED BY <2>1, <2>4, BeginKeepsSchedule
  <1>3. CASE Schedule!HandleApplyRuntimeSettings
    <2> DEFINE p == [page EXCEPT !.applyStatus = "applying"]
    <2>1. page.applyStatus # "applying" /\ Schedule!Begin("apply", "save", page.draft, {"settings"}, p)
      BY <1>3 DEF Schedule!HandleApplyRuntimeSettings, Schedule!SettingsFormOffers
    <2>2. p \in Schedule!Pages /\ p.complete = page.complete /\ p.applyStatus = "applying"
      BY <1>1 DEF Schedule!Pages
    <2> HIDE DEF p
    <2>3. AtOK(NewCall("apply", "save", page.draft, {"settings"}))
      BY DEF AtOK, NewCall, Quiet
    <2>4. MayBegin("apply", "save", page.draft, {"settings"}, p)
      BY <1>1, <2>1, <2>2, <2>3 DEF MayBegin, Schedule!Ops, Schedule!Writers, Schedule!Everything
    <2> QED BY <2>1, <2>4, BeginKeepsSchedule
  <1>4. ASSUME NEW op \in {"toggle", "auto"}, Schedule!Begin(op, "policy", page.draft, {}, page)
        PROVE  ScheduleInv'
    <2>1. AtOK(NewCall(op, "policy", page.draft, {}))
      BY <1>4 DEF AtOK, NewCall, Quiet
    <2>2. MayBegin(op, "policy", page.draft, {}, page)
      BY <1>1, <1>4, <2>1 DEF MayBegin, Schedule!Ops, Schedule!Writers
    <2> QED BY <1>4, <2>2, BeginKeepsSchedule
  <1>5. CASE Schedule!Reload
    <2>1. AtOK(NewCall("reload", "read", page.draft, {}))
      BY DEF AtOK, NewCall, Quiet
    <2>2. MayBegin("reload", "read", page.draft, {}, page)
      BY <1>1, <2>1 DEF MayBegin, Schedule!Ops, Schedule!Writers
    <2> QED BY <1>5, <2>2, BeginKeepsSchedule DEF Schedule!Reload
  <1> QED
    BY <1>2, <1>3, <1>4, <1>5 DEF Schedule!HandleToggleWorkerPause, Schedule!HandleToggleAutoDownload

LEMMA EditsKeep ==
    ASSUME ScheduleInv, NEW d \in Schedule!Settings, Schedule!Edits(d)
    PROVE  ScheduleInv'
  <1>1. /\ page' \in Schedule!Pages /\ page'.complete = page.complete
        /\ page'.applyStatus = page.applyStatus /\ UNCHANGED <<server, calls, note>>
    BY DEF ScheduleInv, ScheduleTypes, Schedule!Pages, Schedule!Edits
  <1>2. ScheduleLeft'
    <2>1. PICK b \in Budgets : left.edits \in 0..b.edits /\ left.calls \in 0..b.calls
                       /\ left.ops = b.ops /\ {"edits", "calls", "ops"} \subseteq DOMAIN left
      BY DEF ScheduleInv, ScheduleLeft
    <2>2. left.edits > 0 /\ left' = [left EXCEPT !.edits = left.edits - 1]
      BY DEF Schedule!Edits
    <2>3. b.edits \in Nat
      BY PagesAssumption DEF PagesAssumption, Schedule!BudgetsAssumption
    <2>4. /\ left'.edits = left.edits - 1 /\ left'.calls = left.calls /\ left'.ops = left.ops
          /\ {"edits", "calls", "ops"} \subseteq DOMAIN left'
      BY <2>1, <2>2
    <2>5. left'.edits \in 0..b.edits
      BY <2>1, <2>2, <2>3, <2>4
    <2> QED BY <2>1, <2>4, <2>5 DEF ScheduleLeft
  <1> QED BY <1>1, <1>2, Beside

LEMMA ScheduleOperatorKeeps ==
    ASSUME ScheduleInv, Schedule!Operator
    PROVE  ScheduleInv'
  <1>1. page \in Schedule!Pages /\ page.draft \in Schedule!Settings
    BY DEF ScheduleInv, ScheduleTypes, Schedule!Pages
  <1>2. CASE \E s \in Seconds : Schedule!OnIntervalChange(s)
    <2>1. PICK s \in Seconds : Schedule!Edits([page.draft EXCEPT !.every = s, !.metaEvery = s])
      BY <1>2 DEF Schedule!OnIntervalChange
    <2>2. [page.draft EXCEPT !.every = s, !.metaEvery = s] \in Schedule!Settings
      BY <1>1 DEF Schedule!Settings
    <2> QED BY <2>1, <2>2, EditsKeep
  <1>3. CASE Schedule!EditField
    <2>1. \A s \in Seconds : /\ [page.draft EXCEPT !.every = s] \in Schedule!Settings
                             /\ [page.draft EXCEPT !.metaEvery = s] \in Schedule!Settings
      BY <1>1 DEF Schedule!Settings
    <2>2. \A w \in Schedule!Switches :
              [page.draft EXCEPT !.on = (@ \ {w}) \cup ({w} \ @)] \in Schedule!Settings
      <3> SUFFICES ASSUME NEW w \in Schedule!Switches
                   PROVE  [page.draft EXCEPT !.on = (@ \ {w}) \cup ({w} \ @)] \in Schedule!Settings
        OBVIOUS
      <3> DEFINE on == (page.draft.on \ {w}) \cup ({w} \ page.draft.on)
      <3>1. on \subseteq Schedule!Switches
        BY <1>1 DEF Schedule!Settings
      <3> HIDE DEF on
      <3>2. [page.draft EXCEPT !.on = on] \in Schedule!Settings
        BY <1>1, <3>1 DEF Schedule!Settings
      <3> QED BY <3>2 DEF on
    <2> QED BY <1>3, <2>1, <2>2, EditsKeep DEF Schedule!EditField
  <1>4. CASE Schedule!OtherWork
    <2>1. /\ page' \in Schedule!Pages /\ page'.complete = page.complete
          /\ page'.applyStatus = page.applyStatus /\ UNCHANGED <<server, calls, note, left>>
      <3> DEFINE busy == ~page.syncing
      <3>1. busy \in BOOLEAN /\ page' = [page EXCEPT !.syncing = busy]
            /\ UNCHANGED <<server, calls, note, left>>
        BY <1>4 DEF Schedule!OtherWork
      <3> HIDE DEF busy
      <3> QED BY <1>1, <3>1 DEF Schedule!Pages
    <2> QED BY <2>1, Beside DEF ScheduleInv, ScheduleLeft
  <1> QED
    BY <1>2, <1>3, <1>4, StartKeeps, UpdateKeeps, OtherBeginsKeep DEF Schedule!Operator

-----------------------------------------------------------------------------
(* The answers.                                                            *)

LEMMA UnderWayOK ==
    ASSUME ScheduleInv, NEW c \in calls
    PROVE  /\ c \in ScheduleCalls /\ AtOK(c) /\ c.op \in Schedule!Ops
           /\ server \in Schedule!Servers /\ page \in Schedule!Pages
           /\ Sure(c) /\ c.op = "start" => Done(c)
  BY DEF ScheduleInv, ScheduleTypes, StartsDone, ScheduleCalls

LEMMA MinutesOK == ASSUME NEW s \in Seconds PROVE Schedule!Minutes(s) \in Nat \ {0}
  <1>1. s \in Nat
    BY PagesAssumption DEF PagesAssumption, Schedule!SecondsAssumption
  <1>2. (s + 30) \div 60 \in Int
    BY <1>1
  <1>3. \A m \in Int : (IF m < 1 THEN 1 ELSE m) \in Nat \ {0}
    OBVIOUS
  <1> QED BY <1>2, <1>3 DEF Schedule!Minutes

LEMMA PolicySentOK ==
    ASSUME NEW c \in ScheduleCalls, server \in Schedule!Servers
    PROVE  /\ Schedule!PolicySent(c) \in Schedule!Policies
           /\ c.op = "start" => Schedule!PolicySent(c) = [auto |-> TRUE, paused |-> FALSE]
           /\ c.op = "stop" => Schedule!PolicySent(c).paused
  <1>1. server.policy \in Schedule!Policies /\ c.saw \in Schedule!Policies
    BY DEF Schedule!Servers, ScheduleCalls
  <1>2. CASE c.op = "start"
    <2>1. Schedule!PolicySent(c) = [auto |-> TRUE, paused |-> FALSE]
      BY <1>2 DEF Schedule!PolicySent
    <2> QED BY <1>2, <2>1 DEF Schedule!Policies
  <1>3. CASE c.op = "stop"
    <2>1. Schedule!PolicySent(c) = [server.policy EXCEPT !.paused = TRUE]
      BY <1>3 DEF Schedule!PolicySent
    <2> QED BY <1>1, <1>3, <2>1 DEF Schedule!Policies
  <1>4. CASE c.op \notin {"start", "stop"}
    <2>1. ASSUME NEW b \in BOOLEAN
          PROVE  /\ [server.policy EXCEPT !.paused = b] \in Schedule!Policies
                 /\ [server.policy EXCEPT !.auto = b] \in Schedule!Policies
      BY <1>1 DEF Schedule!Policies
    <2>2. \/ Schedule!PolicySent(c) = [server.policy EXCEPT !.paused = ~c.saw.paused]
          \/ Schedule!PolicySent(c) = [server.policy EXCEPT !.auto = ~c.saw.auto]
      BY <1>4 DEF Schedule!PolicySent
    <2>3. (~c.saw.paused) \in BOOLEAN /\ (~c.saw.auto) \in BOOLEAN
      OBVIOUS
    <2> QED BY <1>4, <2>1, <2>2, <2>3
  <1> QED BY <1>2, <1>3, <1>4

\* A call goes on, or ends.
LEMMA WithNothing ==
    ASSUME ScheduleInv, NEW c \in calls, Schedule!Ends(c), note' = note, left' = left,
           server' \in Schedule!Servers, c.op \in Quiet => server' = server,
           page' \in Schedule!Pages, page'.complete = page.complete,
           \/ page'.applyStatus = page.applyStatus /\ ~Saves(c)
           \/ Saves(c) /\ page'.applyStatus # "applying"
    PROVE  ScheduleInv'
  <1>1. Fits(c, {}) /\ Reports(c, {})
    BY DEF Fits, Reports, Schedule!Ends
  <1> QED BY <1>1, Answered

LEMMA PolicyAnsweredKeeps ==
    ASSUME ScheduleInv, NEW c \in calls, Schedule!PolicyAnswered(c)
    PROVE  ScheduleInv'
  <1> DEFINE policy == Schedule!PolicySent(c)
             shown == [page EXCEPT !.policy = policy]
  <1>1. /\ c \in ScheduleCalls /\ AtOK(c) /\ c.op \in Schedule!Ops
        /\ server \in Schedule!Servers /\ page \in Schedule!Pages
    BY UnderWayOK
  <1>2. c.at = "policy" /\ c.told = FALSE /\ left' = left
    BY <1>1 DEF Schedule!PolicyAnswered, AtOK, ScheduleCalls
  <1>3. policy \in Schedule!Policies
    BY <1>1, PolicySentOK
  <1>4. /\ server' = [server EXCEPT !.policy = policy]
        /\ \/ /\ c.op = "start" /\ page' = shown
              /\ Schedule!GoesOn(c, [c EXCEPT !.at = Schedule!AfterPolicy])
              /\ UNCHANGED note
           \/ /\ c.op = "stop"
              /\ page' = [shown EXCEPT !.applyStatus = "saved", !.syncing = FALSE]
              /\ Schedule!Saved(c, "paused")
           \/ c.op = "auto" /\ page' = shown /\ Schedule!Ends(c) /\ UNCHANGED note
           \/ /\ c.op = "toggle"
              /\ Schedule!GoesOn(c, [c EXCEPT !.at = "plan", !.got = policy])
              /\ UNCHANGED <<page, note>>
    BY DEF Schedule!PolicyAnswered
  <1> HIDE DEF policy
  <1>5. /\ server' \in Schedule!Servers /\ server'.policy = policy
        /\ shown \in Schedule!Pages /\ shown.complete = page.complete
        /\ shown.applyStatus = page.applyStatus
    BY <1>1, <1>3, <1>4 DEF Schedule!Servers, Schedule!Pages
  <1> HIDE DEF shown
  <1>6. CASE c.op = "start"
    <2> DEFINE d == [c EXCEPT !.at = Schedule!AfterPolicy]
    <2>1. page' = shown /\ Schedule!GoesOn(c, d) /\ note' = note
      BY <1>4, <1>6
    <2>2. Schedule!AfterPolicy \in {"candidates", "save"}
          /\ (Schedule!AfterPolicy = "save" => page.complete)
      BY DEF Schedule!AfterPolicy
    <2>3. /\ d \in ScheduleCalls /\ d.op = "start" /\ d.told = FALSE /\ d.firm = c.firm
          /\ d.at = Schedule!AfterPolicy /\ d.draft = c.draft /\ d.todo = c.todo
      BY <1>1, <1>2, <1>6, <2>2 DEF ScheduleCalls
    <2> HIDE DEF d
    <2>4. c.todo = Schedule!Everything /\ AtOK(d)
      BY <1>1, <1>2, <1>6, <2>2, <2>3 DEF AtOK, Quiet
    <2>5. Saves(c) /\ Saves(d) /\ (Sure(d) => Sure(c)) /\ c.op \notin Quiet
      BY <1>2, <1>6, <2>3 DEF Saves, Sure, Schedule!Writers, Quiet
    <2>6. Fits(c, {d})
      BY <1>5, <2>1, <2>3, <2>4, <2>5 DEF Fits, Schedule!GoesOn
    <2>7. server'.policy = [auto |-> TRUE, paused |-> FALSE]
      BY <1>1, <1>5, <1>6, PolicySentOK DEF policy
    <2>8. ASSUME NEW e, e = d PROVE Done(e)'
      BY <1>5, <2>1, <2>2, <2>3, <2>4, <2>7, <2>8 DEF Done, Schedule!Everything
    <2>9. Reports(c, {d})
      BY <2>1, <2>8 DEF Reports
    <2> QED BY <1>2, <2>6, <2>9, Answered
  <1>7. CASE c.op = "stop"
    <2> DEFINE d == [c EXCEPT !.op = "summary", !.at = "read"]
    <2>1. /\ page' = [shown EXCEPT !.applyStatus = "saved", !.syncing = FALSE]
          /\ Schedule!GoesOn(c, d) /\ note' = IF c.firm THEN "paused" ELSE note
      BY <1>4, <1>7 DEF Schedule!Saved
    <2>2. page' \in Schedule!Pages /\ page'.complete = page.complete /\ page'.applyStatus = "saved"
      BY <1>5, <2>1 DEF Schedule!Pages
    <2>3. /\ d \in ScheduleCalls /\ d.op = "summary" /\ d.told = FALSE /\ d.at = "read"
      BY <1>1, <1>2 DEF ScheduleCalls, Schedule!Ops
    <2> HIDE DEF d
    <2>4. AtOK(d) /\ ~Saves(d) /\ d.op \in Quiet /\ Saves(c)
      BY <1>2, <1>7, <2>3 DEF AtOK, Saves, Sure, Schedule!Writers, Quiet
    <2>5. Fits(c, {d})
      BY <1>5, <1>7, <2>1, <2>2, <2>3, <2>4 DEF Fits, Schedule!GoesOn, Sure, Quiet
    <2>6. server'.policy.paused
      BY <1>1, <1>5, <1>7, PolicySentOK DEF policy
    <2>7. Reports(c, {d})
      <3>1. c.firm => Schedule!ReportedIsSo' /\ note' = "paused" /\ Sure(c)
        BY <2>1, <2>4, <2>6 DEF Schedule!ReportedIsSo, Sure
      <3>2. ~c.firm => note' = note
        BY <2>1
      <3> QED BY <2>3, <2>4, <3>1, <3>2 DEF Reports
    <2> QED BY <1>2, <2>5, <2>7, Answered
  <1>8. CASE c.op = "auto"
    <2>1. page' = shown /\ Schedule!Ends(c) /\ note' = note /\ ~Saves(c) /\ c.op \notin Quiet
      BY <1>4, <1>8 DEF Saves, Quiet
    <2> QED BY <1>2, <1>5, <2>1, WithNothing
  <1>9. CASE c.op = "toggle"
    <2> DEFINE d == [c EXCEPT !.at = "plan", !.got = policy]
    <2>1. page' = page /\ Schedule!GoesOn(c, d) /\ note' = note
      BY <1>4, <1>9
    <2>2. d \in ScheduleCalls /\ d.op = "toggle" /\ d.told = FALSE /\ d.at = "plan" /\ d.got = policy
      BY <1>1, <1>2, <1>3, <1>9 DEF ScheduleCalls
    <2> HIDE DEF d
    <2>3. AtOK(d) /\ ~Saves(d) /\ ~Saves(c) /\ c.op \notin Quiet
      BY <1>3, <1>9, <2>2 DEF AtOK, Saves, Quiet
    <2>4. Fits(c, {d}) /\ Reports(c, {d})
      BY <1>1, <1>5, <2>1, <2>2, <2>3 DEF Fits, Reports, Schedule!GoesOn, Sure
    <2> QED BY <1>2, <2>4, Answered
  <1> QED BY <1>4, <1>6, <1>7, <1>8, <1>9

LEMMA BacklogKeeps ==
    ASSUME ScheduleInv, NEW c \in calls,
           Schedule!CandidatesAnswered(c) \/ Schedule!QueueAnswered(c)
    PROVE  ScheduleInv'
  <1>1. /\ c \in ScheduleCalls /\ AtOK(c) /\ c.op \in Schedule!Ops
        /\ server \in Schedule!Servers /\ page \in Schedule!Pages
        /\ Sure(c) /\ c.op = "start" => Done(c)
    BY UnderWayOK
  <1>2. c.at \in {"candidates", "queue"} /\ UNCHANGED <<page, note, left>>
    BY DEF Schedule!CandidatesAnswered, Schedule!QueueAnswered
  <1>3. c.op = "start" /\ c.told = FALSE /\ c.todo = Schedule!Everything
    BY <1>1, <1>2 DEF AtOK, ScheduleCalls, Schedule!Ops, Schedule!Writers, Quiet
  <1>4. PICK b \in Schedule!Backlogs :
            /\ server' = [server EXCEPT !.backlog = b]
            /\ c.at = "candidates" => b \in {"candidate", "queued"}
            /\ c.at = "queue" /\ server.backlog \in {"candidate", "queued"} => b = "queued"
    BY <1>1 DEF Schedule!CandidatesAnswered, Schedule!QueueAnswered, Schedule!Servers,
                Schedule!Backlogs
  <1>5. /\ server' \in Schedule!Servers /\ server'.backlog = b /\ server'.policy = server.policy
    BY <1>1, <1>4 DEF Schedule!Servers
  <1>6. PICK d : /\ d = [c EXCEPT !.at = IF c.at = "candidates" THEN "queue" ELSE "save"]
                 /\ Schedule!GoesOn(c, d)
    BY DEF Schedule!CandidatesAnswered, Schedule!QueueAnswered
  <1>7. /\ d \in ScheduleCalls /\ d.op = "start" /\ d.told = FALSE /\ d.firm = c.firm
        /\ d.draft = c.draft /\ d.todo = c.todo
        /\ d.at = IF c.at = "candidates" THEN "queue" ELSE "save"
    BY <1>1, <1>2, <1>3, <1>6 DEF ScheduleCalls
  <1>8. AtOK(d) /\ Saves(c) /\ Saves(d) /\ (Sure(d) => Sure(c)) /\ c.op \notin Quiet
    BY <1>1, <1>2, <1>3, <1>7 DEF AtOK, Saves, Sure, Schedule!Writers, Quiet
  <1>9. Fits(c, {d})
    BY <1>1, <1>2, <1>5, <1>6, <1>7, <1>8 DEF Fits, Schedule!GoesOn
  <1>10. ASSUME Sure(d) PROVE Done(d)'
    <2>1. Done(c)
      BY <1>1, <1>3, <1>8, <1>10
    <2>2. server'.policy = [auto |-> TRUE, paused |-> FALSE]
      BY <1>2, <1>5, <2>1 DEF Done
    <2>3. CASE c.at = "candidates"
      BY <1>4, <1>5, <1>7, <2>2, <2>3 DEF Done
    <2>4. CASE c.at = "queue"
      <3>1. server'.backlog = "queued"
        BY <1>4, <1>5, <2>1, <2>4 DEF Done
      <3> QED BY <1>3, <1>7, <2>2, <2>4, <3>1 DEF Done, Schedule!Everything
    <2> QED BY <1>2, <2>3, <2>4
  <1>11. Reports(c, {d})
    BY <1>2, <1>10 DEF Reports
  <1> QED BY <1>2, <1>9, <1>11, Answered

\* What a request of a save writes.
Writes(c, r) ==
    IF r = "settings" THEN [server EXCEPT !.settings = c.draft]
    ELSE [server EXCEPT !.minutes[r] = Schedule!Minutes(c.draft.every)]

LEMMA WritesOK ==
    ASSUME server \in Schedule!Servers, NEW c \in ScheduleCalls, NEW r \in Schedule!Everything
    PROVE  /\ Writes(c, r) \in Schedule!Servers
           /\ Writes(c, r).policy = server.policy /\ Writes(c, r).backlog = server.backlog
           /\ r = "settings" => /\ Writes(c, r).settings = c.draft
                                /\ Writes(c, r).minutes = server.minutes
           /\ r # "settings" =>
                  /\ Writes(c, r).settings = server.settings
                  /\ Writes(c, r).minutes
                         = [server.minutes EXCEPT ![r] = Schedule!Minutes(c.draft.every)]
  <1>1. c.draft \in Schedule!Settings /\ Schedule!Minutes(c.draft.every) \in Nat \ {0}
    BY MinutesOK DEF ScheduleCalls, Schedule!Settings
  <1>2. CASE r = "settings"
    BY <1>1, <1>2 DEF Writes, Schedule!Servers
  <1>3. CASE r # "settings"
    <2> DEFINE m == [server.minutes EXCEPT ![r] = Schedule!Minutes(c.draft.every)]
    <2>1. r \in Channels /\ server.minutes \in [Channels -> Nat \ {0}]
      BY <1>3 DEF Schedule!Everything, Schedule!Servers
    <2>2. m \in [Channels -> Nat \ {0}]
      BY <1>1, <2>1
    <2>3. Writes(c, r) = [server EXCEPT !.minutes = m]
      BY <1>3 DEF Writes
    <2> HIDE DEF m
    <2>4. /\ Writes(c, r) \in Schedule!Servers /\ Writes(c, r).minutes = m
          /\ Writes(c, r).settings = server.settings
          /\ Writes(c, r).policy = server.policy /\ Writes(c, r).backlog = server.backlog
      BY <2>2, <2>3 DEF Schedule!Servers
    <2> QED BY <1>3, <2>4 DEF m
  <1> QED BY <1>2, <1>3

\* The save of a start on firm ground does its part, one request at a time.
LEMMA WritesDone ==
    ASSUME server \in Schedule!Servers, NEW c \in ScheduleCalls, NEW r \in c.todo,
           c.at = "save", Done(c), server' = Writes(c, r), page'.complete = page.complete
    PROVE  /\ server'.policy = [auto |-> TRUE, paused |-> FALSE]
           /\ page'.complete \/ server'.backlog = "queued"
           /\ "settings" \notin c.todo \ {r} => server'.settings = c.draft
           /\ \A k \in Channels \ (c.todo \ {r}) :
                  server'.minutes[k] = Schedule!Minutes(c.draft.every)
  <1>1. r \in Schedule!Everything
    BY DEF ScheduleCalls
  <1>2. /\ Writes(c, r).policy = server.policy /\ Writes(c, r).backlog = server.backlog
        /\ r = "settings" => /\ Writes(c, r).settings = c.draft
                             /\ Writes(c, r).minutes = server.minutes
        /\ r # "settings" =>
               /\ Writes(c, r).settings = server.settings
               /\ Writes(c, r).minutes
                      = [server.minutes EXCEPT ![r] = Schedule!Minutes(c.draft.every)]
    BY <1>1, WritesOK
  <1>3. "settings" \notin Channels /\ server.minutes \in [Channels -> Nat \ {0}]
    BY PagesAssumption DEF PagesAssumption, Schedule!ChosenAssumption, Schedule!Servers
  <1>4. /\ server'.policy = [auto |-> TRUE, paused |-> FALSE]
        /\ page'.complete \/ server'.backlog = "queued"
    BY <1>2 DEF Done
  <1>5. "settings" \notin c.todo \ {r} => server'.settings = c.draft
    BY <1>2 DEF Done
  <1>6. ASSUME NEW k \in Channels \ (c.todo \ {r})
        PROVE  server'.minutes[k] = Schedule!Minutes(c.draft.every)
    <2>1. CASE k = r
      BY <1>2, <1>3, <2>1
    <2>2. CASE k # r
      <3>1. server.minutes[k] = Schedule!Minutes(c.draft.every)
        BY <2>2 DEF Done
      <3> QED BY <1>2, <1>3, <2>2, <3>1
    <2> QED BY <2>1, <2>2
  <1> QED BY <1>4, <1>5, <1>6

LEMMA SaveAnsweredKeeps ==
    ASSUME ScheduleInv, NEW c \in calls, NEW r \in c.todo, Schedule!SaveAnswered(c, r)
    PROVE  ScheduleInv'
  <1>1. /\ c \in ScheduleCalls /\ AtOK(c) /\ c.op \in Schedule!Ops
        /\ server \in Schedule!Servers /\ page \in Schedule!Pages
        /\ Sure(c) /\ c.op = "start" => Done(c)
    BY UnderWayOK
  <1>2. c.at = "save" /\ left' = left /\ server' = Writes(c, r) /\ r \in Schedule!Everything
    BY <1>1 DEF Schedule!SaveAnswered, Writes, ScheduleCalls
  <1>3. /\ server' \in Schedule!Servers
        /\ c.op \in {"start", "update", "apply"} /\ c.op \notin Quiet
    BY <1>1, <1>2, WritesOK DEF AtOK, Quiet, Schedule!Ops, Schedule!Writers
  <1>4. PICK d, p :
            /\ d = [c EXCEPT !.todo = c.todo \ {r}]
            /\ p = IF r = "settings" THEN Schedule!ShowSettings(page, c.draft)
                   ELSE IF d.todo \cap Channels = {} /\ ~c.cut
                        THEN [page EXCEPT !.minutes = Schedule!Minutes(c.draft.every)] ELSE page
            /\ IF Schedule!AllAnswered(d)
               THEN IF d.told
                    THEN page' = p /\ Schedule!Ends(c) /\ UNCHANGED note
                    ELSE /\ page' = [p EXCEPT !.applyStatus = "saved",
                                              !.syncing = IF c.op = "apply" THEN @ ELSE FALSE]
                         /\ IF c.op = "apply" THEN Schedule!Ends(c) /\ UNCHANGED note
                            ELSE Schedule!Saved(c, IF c.op = "start" THEN "on" ELSE "nothing")
               ELSE page' = p /\ Schedule!GoesOn(c, d) /\ UNCHANGED note
    BY DEF Schedule!SaveAnswered
  <1>5. p \in Schedule!Pages /\ p.complete = page.complete /\ p.applyStatus = page.applyStatus
    <2>1. c.draft \in Schedule!Settings /\ Schedule!Minutes(c.draft.every) \in Nat \ {0}
      BY <1>1, MinutesOK DEF ScheduleCalls, Schedule!Settings
    <2>2. \/ p = [page EXCEPT !.settings = c.draft, !.draft = c.draft]
          \/ p = [page EXCEPT !.minutes = Schedule!Minutes(c.draft.every)]
          \/ p = page
      BY <1>4 DEF Schedule!ShowSettings
    <2> QED BY <1>1, <2>1, <2>2 DEF Schedule!Pages
  <1>6. /\ d \in ScheduleCalls /\ d.op = c.op /\ d.told = c.told /\ d.firm = c.firm
        /\ d.draft = c.draft /\ d.todo = c.todo \ {r} /\ d.at = "save"
    <2> DEFINE todo == c.todo \ {r}
    <2>1. todo \subseteq Schedule!Everything /\ d = [c EXCEPT !.todo = todo]
      BY <1>1, <1>4 DEF ScheduleCalls
    <2> HIDE DEF todo
    <2>2. /\ d \in ScheduleCalls /\ d.op = c.op /\ d.told = c.told /\ d.firm = c.firm
          /\ d.draft = c.draft /\ d.todo = todo /\ d.at = c.at
      BY <1>1, <2>1 DEF ScheduleCalls
    <2> QED BY <1>2, <2>2 DEF todo
  <1>7. AtOK(d) /\ (Saves(d) <=> Saves(c)) /\ (Sure(d) <=> Sure(c)) /\ (Saves(c) <=> ~c.told)
    BY <1>1, <1>2, <1>3, <1>6 DEF AtOK, Saves, Sure, Schedule!Writers, Quiet
  <1>8. Sure(c) /\ c.op = "start" =>
            /\ server'.policy = [auto |-> TRUE, paused |-> FALSE]
            /\ p.complete \/ server'.backlog = "queued"
            /\ "settings" \notin d.todo => server'.settings = c.draft
            /\ \A k \in Channels \ d.todo : server'.minutes[k] = Schedule!Minutes(c.draft.every)
    <2>1. page'.complete = p.complete
      BY <1>4, <1>5 DEF Schedule!Pages
    <2> QED BY <1>1, <1>2, <1>5, <1>6, <2>1, WritesDone
  <1>9. CASE ~Schedule!AllAnswered(d)
    <2>1. page' = p /\ Schedule!GoesOn(c, d) /\ note' = note
      BY <1>4, <1>9
    <2>2. Fits(c, {d})
      BY <1>1, <1>3, <1>5, <1>6, <1>7, <2>1 DEF Fits, Schedule!GoesOn
    <2>3. Sure(d) /\ d.op = "start" => Done(d)'
      BY <1>6, <1>7, <1>8, <2>1 DEF Done
    <2>4. Reports(c, {d})
      BY <2>1, <2>3 DEF Reports
    <2> QED BY <1>2, <2>2, <2>4, Answered
  <1>10. CASE Schedule!AllAnswered(d) /\ c.told
    <2>1. page' = p /\ Schedule!Ends(c) /\ note' = note /\ ~Saves(c)
      BY <1>4, <1>6, <1>7, <1>10
    <2> QED BY <1>2, <1>3, <1>5, <2>1, WithNothing
  <1>11. CASE Schedule!AllAnswered(d) /\ ~c.told
    <2>1. /\ page' \in Schedule!Pages /\ page'.complete = page.complete
          /\ page'.applyStatus = "saved"
      <3> DEFINE s == IF c.op = "apply" THEN p.syncing ELSE FALSE
      <3>1. s \in BOOLEAN /\ page' = [p EXCEPT !.applyStatus = "saved", !.syncing = s]
        BY <1>4, <1>5, <1>6, <1>11 DEF Schedule!Pages
      <3> HIDE DEF s
      <3> QED BY <1>5, <3>1 DEF Schedule!Pages
    <2>2. CASE c.op = "apply"
      <3>1. Schedule!Ends(c) /\ note' = note /\ Saves(c)
        BY <1>4, <1>6, <1>7, <1>11, <2>2
      <3> QED BY <1>2, <1>3, <2>1, <3>1, WithNothing
    <2>3. CASE c.op # "apply"
      <3> DEFINE word == IF c.op = "start" THEN "on" ELSE "nothing"
      <3>1. PICK e : /\ e = [c EXCEPT !.op = "summary", !.at = "read"]
                     /\ Schedule!GoesOn(c, e) /\ note' = IF c.firm THEN word ELSE note
        BY <1>4, <1>6, <1>11, <2>3 DEF Schedule!Saved
      <3>2. e \in ScheduleCalls /\ e.op = "summary" /\ e.at = "read" /\ e.told = c.told
        BY <1>1, <3>1 DEF ScheduleCalls, Schedule!Ops
      <3>3. AtOK(e) /\ e.op \in Quiet /\ ~Saves(e) /\ Saves(c)
        BY <1>7, <1>11, <3>2 DEF AtOK, Quiet, Saves, Schedule!Writers
      <3>4. Fits(c, {e})
        BY <1>3, <2>1, <3>1, <3>2, <3>3 DEF Fits, Schedule!GoesOn, Sure
      <3>5. ASSUME c.firm PROVE Sure(c) /\ note' = word /\ Schedule!ReportedIsSo'
        <4>1. Sure(c) /\ note' = word
          BY <3>1, <3>3, <3>5 DEF Sure
        <4>2. CASE c.op = "start"
          <5>1. c.draft.on = Schedule!Switches /\ c.draft.every = c.draft.metaEvery
            BY <1>1, <4>2 DEF AtOK
          <5>2. /\ server'.policy = [auto |-> TRUE, paused |-> FALSE]
                /\ page'.complete \/ server'.backlog = "queued"
                /\ server'.settings = c.draft
                /\ \A k \in Channels : server'.minutes[k] = Schedule!Minutes(c.draft.every)
            BY <1>5, <1>8, <1>11, <2>1, <4>1, <4>2 DEF Schedule!AllAnswered
          <5>3. note' = "on"
            BY <4>1, <4>2
          <5> QED BY <4>1, <5>1, <5>2, <5>3 DEF Schedule!ReportedIsSo
        <4>3. CASE c.op # "start"
          BY <4>1, <4>3 DEF Schedule!ReportedIsSo
        <4> QED BY <4>1, <4>2, <4>3
      <3>6. ~c.firm => note' = note
        BY <3>1
      <3>7. Reports(c, {e})
        BY <3>2, <3>3, <3>5, <3>6 DEF Reports
      <3> QED BY <1>2, <3>4, <3>7, Answered
    <2> QED BY <2>2, <2>3
  <1> QED BY <1>9, <1>10, <1>11

LEMMA SaveFailedKeeps ==
    ASSUME ScheduleInv, NEW c \in calls, NEW r \in c.todo, Schedule!SaveFailed(c, r)
    PROVE  ScheduleInv'
  <1>1. /\ c \in ScheduleCalls /\ AtOK(c) /\ c.op \in Schedule!Ops
        /\ server \in Schedule!Servers /\ page \in Schedule!Pages
    BY UnderWayOK
  <1>2. c.at = "save" /\ left' = left /\ note' = note /\ r \in Schedule!Everything
    BY <1>1 DEF Schedule!SaveFailed, ScheduleCalls
  <1>3. c.op \in {"start", "update", "apply"} /\ c.op \notin Quiet
    BY <1>1, <1>2 DEF AtOK, Quiet, Schedule!Ops, Schedule!Writers
  <1>4. server' \in Schedule!Servers
    <2>1. "settings" \notin Channels
      BY PagesAssumption DEF PagesAssumption, Schedule!ChosenAssumption
    <2>2. server' \in {server, Writes(c, r)}
      BY <2>1 DEF Schedule!SaveFailed, Writes
    <2> QED BY <1>1, <1>2, <2>2, WritesOK
  <1>5. /\ page' \in Schedule!Pages /\ page'.complete = page.complete
        /\ IF c.told THEN page'.applyStatus = page.applyStatus
           ELSE page'.applyStatus = "error"
    <2>1. CASE c.told
      BY <1>1, <2>1 DEF Schedule!SaveFailed
    <2>2. CASE ~c.told
      <3> DEFINE s == IF c.op = "apply" THEN page.syncing ELSE FALSE
      <3>1. s \in BOOLEAN /\ page' = [page EXCEPT !.applyStatus = "error", !.syncing = s]
        BY <1>1, <2>2 DEF Schedule!SaveFailed, Schedule!Pages
      <3> HIDE DEF s
      <3> QED BY <1>1, <2>2, <3>1 DEF Schedule!Pages
    <2> QED BY <2>1, <2>2
  <1>6. Saves(c) <=> ~c.told
    BY <1>3 DEF Saves, Schedule!Writers
  <1>7. PICK d : /\ d = [c EXCEPT !.todo = c.todo \ {r}, !.told = TRUE,
                                  !.cut = c.cut \/ r \in Channels]
                 /\ IF d.todo = {} THEN Schedule!Ends(c) ELSE Schedule!GoesOn(c, d)
    BY DEF Schedule!SaveFailed
  <1>8. d \in ScheduleCalls /\ d.op = c.op /\ d.told = TRUE /\ d.at = "save" /\ d.draft = c.draft
    <2> DEFINE todo == c.todo \ {r}
               cut == c.cut \/ r \in Channels
    <2>1. /\ todo \subseteq Schedule!Everything /\ cut \in BOOLEAN
          /\ d = [c EXCEPT !.todo = todo, !.told = TRUE, !.cut = cut]
      BY <1>1, <1>7 DEF ScheduleCalls
    <2> HIDE DEF todo, cut
    <2> QED BY <1>1, <1>2, <2>1 DEF ScheduleCalls
  <1>9. AtOK(d) /\ ~Saves(d)
    BY <1>1, <1>2, <1>3, <1>8 DEF AtOK, Saves, Quiet
  <1>10. CASE Schedule!Ends(c)
    BY <1>2, <1>3, <1>4, <1>5, <1>6, <1>10, WithNothing
  <1>11. CASE Schedule!GoesOn(c, d)
    <2>1. Fits(c, {d})
      BY <1>3, <1>4, <1>5, <1>6, <1>8, <1>9, <1>11 DEF Fits, Schedule!GoesOn, Sure
    <2>2. Reports(c, {d})
      BY <1>2, <1>9 DEF Reports, Sure
    <2> QED BY <1>2, <2>1, <2>2, Answered
  <1> QED BY <1>7, <1>10, <1>11

LEMMA OtherAnswersKeep ==
    ASSUME ScheduleInv, NEW c \in calls,
           \/ Schedule!PlanAnswered(c) \/ Schedule!StepFailed(c)
           \/ Schedule!Read(c) \/ Schedule!ReadAnswered(c) \/ Schedule!ReadFailed(c)
    PROVE  ScheduleInv'
  <1>1. /\ c \in ScheduleCalls /\ AtOK(c) /\ c.op \in Schedule!Ops
        /\ server \in Schedule!Servers /\ page \in Schedule!Pages
    BY UnderWayOK
  <1>2. c.at # "save" => c.told = FALSE
    BY <1>1 DEF AtOK, ScheduleCalls
  <1>3. CASE Schedule!PlanAnswered(c)
    <2>1. c.op = "toggle" /\ c.got \in Schedule!Policies
      BY <1>1, <1>3 DEF Schedule!PlanAnswered, AtOK, Schedule!Ops, Schedule!Writers, Quiet
    <2>2. /\ page' \in Schedule!Pages /\ page'.complete = page.complete
          /\ page'.applyStatus = page.applyStatus
          /\ Schedule!Ends(c) /\ UNCHANGED <<server, note, left>>
      BY <1>1, <1>3, <2>1 DEF Schedule!PlanAnswered, Schedule!Pages
    <2> QED BY <1>1, <2>1, <2>2, WithNothing DEF Saves
  <1>4. CASE Schedule!StepFailed(c)
    <2>1. /\ c.at \in {"policy", "candidates", "queue", "plan"} /\ Schedule!Ends(c)
          /\ UNCHANGED <<note, left>>
      BY <1>4 DEF Schedule!StepFailed
    <2>2. c.op \in {"start", "stop", "toggle", "auto"} /\ c.op \notin Quiet /\ c.told = FALSE
      BY <1>1, <1>2, <2>1 DEF AtOK, Schedule!Ops, Schedule!Writers, Quiet
    <2>3. server' \in Schedule!Servers
      <3> DEFINE policy == Schedule!PolicySent(c)
      <3>1. policy \in Schedule!Policies
        BY <1>1, PolicySentOK
      <3>2. server' \in {server, [server EXCEPT !.policy = policy],
                         [server EXCEPT !.backlog = "candidate"], [server EXCEPT !.backlog = "queued"]}
        BY <1>4 DEF Schedule!StepFailed, Schedule!Stepped
      <3> HIDE DEF policy
      <3> QED BY <1>1, <3>1, <3>2 DEF Schedule!Servers, Schedule!Backlogs
    <2>4. CASE c.op \in {"toggle", "auto"}
      <3>1. page' = page /\ ~Saves(c)
        BY <1>4, <2>4 DEF Schedule!StepFailed, Saves
      <3> QED BY <1>1, <2>1, <2>2, <2>3, <3>1, WithNothing
    <2>5. CASE c.op \in {"start", "stop"}
      <3>1. page' = [page EXCEPT !.applyStatus = "error", !.syncing = FALSE] /\ Saves(c)
        BY <1>4, <2>2, <2>5 DEF Schedule!StepFailed, Saves, Schedule!Writers
      <3>2. page' \in Schedule!Pages /\ page'.complete = page.complete /\ page'.applyStatus = "error"
        BY <1>1, <3>1 DEF Schedule!Pages
      <3> QED BY <2>1, <2>2, <2>3, <3>1, <3>2, WithNothing
    <2> QED BY <2>2, <2>4, <2>5
  <1>5. ASSUME c.at \in {"read", "answer"}
        PROVE  c.op \in Quiet /\ c.told = FALSE /\ ~Saves(c)
    BY <1>1, <1>2, <1>5 DEF AtOK, Schedule!Ops, Schedule!Writers, Quiet, Saves
  <1>6. ASSUME NEW d, d \in ScheduleCalls, d.op \in Quiet, AtOK(d), c.op \in Quiet, ~Saves(c),
               Schedule!GoesOn(c, d), UNCHANGED <<server, note, left>>,
               page' \in Schedule!Pages, page'.complete = page.complete,
               page'.applyStatus = page.applyStatus
        PROVE  ScheduleInv'
    <2>1. ~Saves(d) /\ ~Sure(d)
      BY <1>6 DEF Saves, Sure, Schedule!Writers, Quiet
    <2>2. Fits(c, {d}) /\ Reports(c, {d})
      BY <1>1, <1>6, <2>1 DEF Fits, Reports, Schedule!GoesOn
    <2> QED BY <1>6, <2>2, Answered
  <1>7. CASE Schedule!Read(c)
    <2>1. PICK d : d = [c EXCEPT !.at = "answer", !.got = server] /\ Schedule!GoesOn(c, d)
      BY <1>7 DEF Schedule!Read
    <2>2. c.at = "read" /\ UNCHANGED <<server, page, note, left>>
      BY <1>7 DEF Schedule!Read
    <2>3. /\ d \in ScheduleCalls /\ d.op = c.op /\ d.at = "answer" /\ d.told = c.told
          /\ d.got \in Schedule!Servers
      BY <1>1, <2>1 DEF ScheduleCalls
    <2>4. AtOK(d)
      BY <1>5, <2>2, <2>3 DEF AtOK, Quiet
    <2> QED BY <1>1, <1>5, <1>6, <2>1, <2>2, <2>3, <2>4
  <1>8. CASE Schedule!ReadAnswered(c)
    <2>1. c.at = "answer" /\ c.got \in Schedule!Servers /\ UNCHANGED <<server, note, left>>
      BY <1>1, <1>8 DEF Schedule!ReadAnswered, AtOK
    <2>2. CASE c.op = "reload"
      <3>1. PICK d : /\ d = [c EXCEPT !.op = "summary", !.at = "read", !.got = None]
                     /\ Schedule!GoesOn(c, d)
        BY <1>8, <2>2 DEF Schedule!ReadAnswered
      <3>2. d \in ScheduleCalls /\ d.op = "summary" /\ d.at = "read" /\ d.told = c.told
        BY <1>1, <3>1 DEF ScheduleCalls, Schedule!Ops
      <3>3. AtOK(d)
        BY <1>5, <2>1, <3>2 DEF AtOK, Quiet
      <3>4. c.got.settings \in Schedule!Settings
        BY <2>1 DEF Schedule!Servers
      <3>5. page' = [page EXCEPT !.settings = c.got.settings, !.draft = c.got.settings]
        BY <1>8, <2>2 DEF Schedule!ReadAnswered, Schedule!ShowSettings
      <3>6. /\ page' \in Schedule!Pages /\ page'.complete = page.complete
            /\ page'.applyStatus = page.applyStatus
        BY <1>1, <3>4, <3>5 DEF Schedule!Pages
      <3> QED BY <1>5, <1>6, <2>1, <3>1, <3>2, <3>3, <3>6 DEF Quiet
    <2>3. CASE c.op = "summary"
      <3>1. c.got.policy \in Schedule!Policies /\ c.got.minutes[Chosen] \in Nat \ {0}
        BY <2>1, PagesAssumption DEF Schedule!Servers, PagesAssumption, Schedule!ChosenAssumption
      <3>2. /\ page' = [page EXCEPT !.policy = c.got.policy, !.minutes = c.got.minutes[Chosen]]
            /\ Schedule!Ends(c)
        BY <1>8, <2>3 DEF Schedule!ReadAnswered
      <3>3. /\ page' \in Schedule!Pages /\ page'.complete = page.complete
            /\ page'.applyStatus = page.applyStatus
        BY <1>1, <3>1, <3>2 DEF Schedule!Pages
      <3> QED BY <1>1, <1>5, <2>1, <3>2, <3>3, WithNothing
    <2> QED BY <1>8, <2>2, <2>3 DEF Schedule!ReadAnswered
  <1>9. CASE Schedule!ReadFailed(c)
    BY <1>1, <1>5, <1>9, WithNothing DEF Schedule!ReadFailed
  <1> QED BY <1>3, <1>4, <1>7, <1>8, <1>9

-----------------------------------------------------------------------------
LEMMA ScheduleInit ==
    ASSUME Schedule!Init
    PROVE  ScheduleInv
  <1>1. calls = {} /\ note = "nothing"
    BY DEF Schedule!Init
  <1>2. server \in Schedule!Servers
    BY PagesAssumption DEF Schedule!Init, PagesAssumption, Schedule!FirstServersAssumption
  <1>3. /\ server.settings \in Schedule!Settings /\ server.policy \in Schedule!Policies
        /\ server.minutes[Chosen] \in Nat \ {0}
    BY <1>2, PagesAssumption DEF Schedule!Servers, PagesAssumption, Schedule!ChosenAssumption
  <1>4. page \in Schedule!Pages /\ page.applyStatus = "idle"
    BY <1>3 DEF Schedule!Init, Schedule!Pages
  <1>5. ScheduleLeft
    <2>1. left \in Budgets /\ left \in [edits : Nat, calls : Nat, ops : SUBSET Schedule!Ops]
      BY PagesAssumption DEF Schedule!Init, PagesAssumption, Schedule!BudgetsAssumption
    <2>2. left.edits \in 0..left.edits /\ left.calls \in 0..left.calls
      BY <2>1
    <2> QED BY <2>1, <2>2 DEF ScheduleLeft
  <1>6. ScheduleTypes
    BY <1>1, <1>2, <1>4 DEF ScheduleTypes
  <1> QED
    BY <1>1, <1>4, <1>5, <1>6 DEF ScheduleInv, OneSave, SureAlone, ReportAlone, StartsDone,
                                  Schedule!ReportedIsSo, Schedule!NeverStuck

LEMMA ScheduleStep ==
    ASSUME ScheduleInv, [Schedule!Next]_(Schedule!vars)
    PROVE  ScheduleInv'
  <1>1. CASE Schedule!Operator
    BY <1>1, ScheduleOperatorKeeps
  <1>2. ASSUME NEW c \in calls,
               \/ Schedule!PolicyAnswered(c) \/ Schedule!PlanAnswered(c)
               \/ Schedule!CandidatesAnswered(c) \/ Schedule!QueueAnswered(c)
               \/ \E r \in c.todo : Schedule!SaveAnswered(c, r) \/ Schedule!SaveFailed(c, r)
               \/ Schedule!StepFailed(c) \/ Schedule!Read(c) \/ Schedule!ReadAnswered(c)
               \/ Schedule!ReadFailed(c)
        PROVE  ScheduleInv'
    BY <1>2, PolicyAnsweredKeeps, BacklogKeeps, SaveAnsweredKeeps, SaveFailedKeeps,
       OtherAnswersKeep
  <1>3. CASE UNCHANGED Schedule!vars
    <2>1. UNCHANGED <<server, page, calls, note, left>>
      BY <1>3 DEF Schedule!vars
    <2>2. ScheduleLeft' /\ page \in Schedule!Pages
      BY <2>1 DEF ScheduleInv, ScheduleLeft, ScheduleTypes
    <2> QED BY <2>1, <2>2, Beside
  <1> QED BY <1>1, <1>2, <1>3 DEF Schedule!Next

\* The schedule's part of a state of the console.
SchedulePartInv == area = "schedule" => ScheduleInv

\* What the console last told the operator is so on the server, whatever the
\* channels and intervals, however many operations, toggles and refreshes overlap, in
\* whatever order their requests are served and whichever of them fail.
THEOREM ReportsAreSo == Spec => []ReportedIsSo
  <1>1. Init => SchedulePartInv
    BY ScheduleInit DEF Init, SchedulePartInv
  <1>2. SchedulePartInv /\ [Next]_vars => SchedulePartInv'
    <2> SUFFICES ASSUME SchedulePartInv, [Next]_vars, area' = "schedule"
                 PROVE  ScheduleInv'
      BY DEF SchedulePartInv
    <2>1. ScheduleInv /\ [Schedule!Next]_(Schedule!vars)
      BY DEF SchedulePartInv, Next, vars, Schedule!vars
    <2> QED BY <2>1, ScheduleStep
  <1>3. SchedulePartInv => ReportedIsSo
    BY DEF SchedulePartInv, ScheduleInv, ReportedIsSo
  <1> QED BY <1>1, <1>2, <1>3, PTL DEF Spec

(***************************************************************************)
(* No button waits for ever                                                *)
(***************************************************************************)

(* The storage page.                                                       *)

StoragePage == {"drift", "orphan", "drawer", "per", "scan", "list", "open", "purge", "age",
                "confirmed"}

StorageCall(c) ==
    /\ {"flow", "at", "item"} \subseteq DOMAIN c
    /\ c.flow \in Storage!Flows \cup {"purge"}
    /\ c.at = "list" => c.flow \in {"drawer", "purge"}

StorageShape ==
    /\ DOMAIN page = StoragePage
    /\ \A f \in Storage!Flows : DOMAIN page[f] = {"item", "plan", "status"}
    /\ DOMAIN page.per = Storage!Drift
    /\ \A c \in calls : StorageCall(c)

Waiting == {"loading", "planning", "running"}

\* A call begins or goes on: what it says waits, waits for it.
LEMMA FlowGoesOn ==
    ASSUME Storage!NeverStuck, NEW d, NEW c,
           \/ calls' = calls \cup {d}
           \/ calls' = (calls \ {c}) \cup {d} /\ d.flow = c.flow /\ d.item = c.item,
           d.at # "timer",
           \A f \in Storage!Flows \ {Storage!Hooks(d.flow)} : page'[f].status = page[f].status,
           \A e \in Storage!Drift : (d.flow = "drift" /\ d.item = e) \/ page'.per[e] = page.per[e]
    PROVE  Storage!NeverStuck'
  <1>0. d \in calls'
    OBVIOUS
  <1>1. ASSUME NEW f \in Storage!Flows, page'[f].status \in Waiting
        PROVE  \E x \in calls' : Storage!Hooks(x.flow) = f /\ x.at # "timer"
    <2>1. CASE f = Storage!Hooks(d.flow)
      BY <1>0, <2>1
    <2>2. CASE f # Storage!Hooks(d.flow)
      <3>1. PICK x \in calls : Storage!Hooks(x.flow) = f /\ x.at # "timer"
        BY <1>1, <2>2 DEF Storage!NeverStuck, Waiting
      <3> QED BY <2>2, <3>1
    <2> QED BY <2>1, <2>2
  <1>2. ASSUME NEW e \in Storage!Drift, page'.per[e] = "running"
        PROVE  \E x \in calls' : x.flow = "drift" /\ x.item = e /\ x.at # "timer"
    <2>1. CASE d.flow = "drift" /\ d.item = e
      BY <1>0, <2>1
    <2>2. CASE ~(d.flow = "drift" /\ d.item = e)
      <3>1. PICK x \in calls : x.flow = "drift" /\ x.item = e /\ x.at # "timer"
        BY <1>2, <2>2 DEF Storage!NeverStuck
      <3> QED BY <2>2, <3>1
    <2> QED BY <2>1, <2>2
  <1> QED BY <1>1, <1>2 DEF Storage!NeverStuck, Waiting, Storage!Hooks

\* Nothing is asked or answered.
LEMMA FlowRests ==
    ASSUME Storage!NeverStuck, calls' = calls,
           \A f \in Storage!Flows : page'[f].status = page[f].status \/ page'[f].status \notin Waiting,
           page'.per = page.per
    PROVE  Storage!NeverStuck'
  BY DEF Storage!NeverStuck, Waiting, Storage!Hooks

StuckStorageInv == StorageShape /\ Storage!NeverStuck

LEMMA StorageBegins ==
    ASSUME StuckStorageInv, NEW flow \in Storage!Flows \cup {"purge"},
           NEW at, at # "timer", at = "list" => flow \in {"drawer", "purge"}, NEW item, NEW age,
           Storage!Begin(flow, at, item, age), DOMAIN page' = StoragePage,
           \A f \in Storage!Flows : DOMAIN page'[f] = {"item", "plan", "status"},
           DOMAIN page'.per = Storage!Drift,
           \A f \in Storage!Flows \ {Storage!Hooks(flow)} : page'[f].status = page[f].status,
           \A e \in Storage!Drift : (flow = "drift" /\ item = e) \/ page'.per[e] = page.per[e]
    PROVE  StuckStorageInv'
  <1>1. PICK d : d = Storage!Call(flow, at, item, age)
    OBVIOUS
  <1>2. calls' = calls \cup {d}
    BY <1>1 DEF Storage!Begin
  <1>3. {"flow", "at", "item"} \subseteq DOMAIN d /\ d.flow = flow /\ d.at = at /\ d.item = item
    BY <1>1 DEF Storage!Call
  <1>4. StorageShape'
    BY <1>2, <1>3 DEF StuckStorageInv, StorageShape, StorageCall
  <1>5. Storage!NeverStuck'
    BY <1>2, <1>3, FlowGoesOn DEF StuckStorageInv
  <1> QED BY <1>4, <1>5 DEF StuckStorageInv

LEMMA DriftBegins ==
    ASSUME StuckStorageInv,
           \/ \E d \in Storage!Drift : Storage!HandlePreviewStorageDrift(d)
           \/ Storage!HandleApplyStorageDriftPreview
    PROVE  StuckStorageInv'
  <1>1. ASSUME NEW d \in Storage!Drift, Storage!HandlePreviewStorageDrift(d)
        PROVE  StuckStorageInv'
    <2>1. page' = [page EXCEPT !.drift = Storage!Planning(d), !.per[d] = "running"]
      BY <1>1 DEF Storage!HandlePreviewStorageDrift
    <2>2. /\ DOMAIN page' = StoragePage /\ page'.drift = Storage!Planning(d)
          /\ page'.orphan = page.orphan /\ page'.drawer = page.drawer
          /\ page'.per = [page.per EXCEPT ![d] = "running"]
      BY <2>1 DEF StuckStorageInv, StorageShape, StoragePage
    <2>3. \A f \in Storage!Flows : DOMAIN page'[f] = {"item", "plan", "status"}
      BY <2>2 DEF StuckStorageInv, StorageShape, Storage!Flows, Storage!Planning
    <2>4. \A f \in Storage!Flows \ {"drift"} : page'[f].status = page[f].status
      BY <2>2 DEF Storage!Flows
    <2>5. /\ DOMAIN page'.per = Storage!Drift
          /\ \A e \in Storage!Drift : e = d \/ page'.per[e] = page.per[e]
      BY <2>2 DEF StuckStorageInv, StorageShape
    <2>6. Storage!Begin("drift", "plan", d, None) /\ Storage!Hooks("drift") = "drift"
          /\ "drift" \in Storage!Flows
      BY <1>1 DEF Storage!HandlePreviewStorageDrift, Storage!Hooks, Storage!Flows
    <2> QED BY <2>2, <2>3, <2>4, <2>5, <2>6, StorageBegins
  <1>2. CASE Storage!HandleApplyStorageDriftPreview
    <2>0. PICK d : d = page.drift.item
      OBVIOUS
    <2>1. page' = [page EXCEPT !.drift.status = "running", !.per[d] = "running"]
      BY <1>2, <2>0 DEF Storage!HandleApplyStorageDriftPreview
    <2>2. /\ DOMAIN page' = StoragePage /\ page'.drift = [page.drift EXCEPT !.status = "running"]
          /\ page'.orphan = page.orphan /\ page'.drawer = page.drawer
          /\ page'.per = [page.per EXCEPT ![d] = "running"]
      BY <2>1 DEF StuckStorageInv, StorageShape, StoragePage
    <2>3. \A f \in Storage!Flows : DOMAIN page'[f] = {"item", "plan", "status"}
      BY <2>2 DEF StuckStorageInv, StorageShape, Storage!Flows
    <2>4. \A f \in Storage!Flows \ {"drift"} : page'[f].status = page[f].status
      BY <2>2 DEF Storage!Flows
    <2>5. /\ DOMAIN page'.per = Storage!Drift
          /\ \A e \in Storage!Drift : e = d \/ page'.per[e] = page.per[e]
      BY <2>2 DEF StuckStorageInv, StorageShape
    <2>6. Storage!Begin("drift", "apply", d, None) /\ Storage!Hooks("drift") = "drift"
          /\ "drift" \in Storage!Flows
      BY <1>2, <2>0 DEF Storage!HandleApplyStorageDriftPreview, Storage!Hooks, Storage!Flows
    <2> QED BY <2>2, <2>3, <2>4, <2>5, <2>6, StorageBegins
  <1> QED BY <1>1, <1>2

\* What is shown of the sidecars and of the quarantine waits for a flow of its own.
LEMMA SidecarFlowBegins ==
    ASSUME StuckStorageInv, NEW h \in {"orphan", "drawer"},
           NEW flow \in {"orphan", "drawer", "purge"}, Storage!Hooks(flow) = h,
           NEW at, at # "timer", at = "list" => flow # "orphan", NEW item, NEW age,
           Storage!Begin(flow, at, item, age), DOMAIN page' = DOMAIN page,
           DOMAIN page'[h] = DOMAIN page[h], page'.per = page.per,
           \A f \in Storage!Flows \ {h} : page'[f] = page[f]
    PROVE  StuckStorageInv'
  <1>1. \A f \in Storage!Flows : DOMAIN page'[f] = {"item", "plan", "status"}
    BY DEF StuckStorageInv, StorageShape, Storage!Flows
  <1>2. \A f \in Storage!Flows \ {Storage!Hooks(flow)} : page'[f].status = page[f].status
    OBVIOUS
  <1>3. /\ DOMAIN page' = StoragePage /\ DOMAIN page'.per = Storage!Drift
        /\ flow \in Storage!Flows \cup {"purge"}
    BY DEF StuckStorageInv, StorageShape, Storage!Flows
  <1> QED BY <1>1, <1>2, <1>3, StorageBegins

LEMMA OrphanBegins ==
    ASSUME StuckStorageInv,
           \/ \E f \in Folders : Storage!HandlePreviewOrphanQuarantine(f)
           \/ Storage!HandleApplyOrphanQuarantine
    PROVE  StuckStorageInv'
  <1>0. /\ DOMAIN page = StoragePage /\ DOMAIN page.orphan = {"item", "plan", "status"}
        /\ Storage!Flows = {"drift", "orphan", "drawer"} /\ Storage!Hooks("orphan") = "orphan"
    BY DEF StuckStorageInv, StorageShape, Storage!Flows, Storage!Hooks
  <1>1. ASSUME NEW f \in Folders, Storage!HandlePreviewOrphanQuarantine(f)
        PROVE  StuckStorageInv'
    <2>1. page' = [page EXCEPT !.orphan = Storage!Planning(f)]
          /\ Storage!Begin("orphan", "plan", f, None)
      BY <1>1 DEF Storage!HandlePreviewOrphanQuarantine
    <2>2. /\ DOMAIN page' = DOMAIN page /\ page'.orphan = Storage!Planning(f)
          /\ \A g \in Storage!Flows \ {"orphan"} : page'[g] = page[g]
          /\ page'.per = page.per
      BY <1>0, <2>1 DEF StoragePage
    <2>3. DOMAIN page'.orphan = DOMAIN page.orphan
      BY <1>0, <2>2 DEF Storage!Planning
    <2> QED BY <1>0, <2>1, <2>2, <2>3, SidecarFlowBegins
  <1>2. CASE Storage!HandleApplyOrphanQuarantine
    <2>1. page' = [page EXCEPT !.orphan.status = "running"]
          /\ \E x : Storage!Begin("orphan", "apply", x, None)
      BY <1>2 DEF Storage!HandleApplyOrphanQuarantine
    <2>2. /\ DOMAIN page' = DOMAIN page
          /\ page'.orphan = [page.orphan EXCEPT !.status = "running"]
          /\ \A g \in Storage!Flows \ {"orphan"} : page'[g] = page[g]
          /\ page'.per = page.per
      BY <1>0, <2>1 DEF StoragePage
    <2>3. DOMAIN page'.orphan = DOMAIN page.orphan
      BY <1>0, <2>2
    <2> QED BY <1>0, <2>1, <2>2, <2>3, SidecarFlowBegins
  <1> QED BY <1>1, <1>2

\* What a page is that differs from the present one in the drawer at most.
DrawerOnly ==
    /\ DOMAIN page' = DOMAIN page /\ DOMAIN page'.drawer = DOMAIN page.drawer
    /\ page'.drift = page.drift /\ page'.orphan = page.orphan /\ page'.per = page.per

LEMMA DrawerBegins ==
    ASSUME StuckStorageInv,
           \/ Storage!HandleOpenStorageQuarantine
           \/ \E h \in page.list : Storage!HandlePreviewStorageQuarantineRestore(h)
           \/ Storage!HandleApplyStorageQuarantineRestore
           \/ Storage!HandlePreviewStorageQuarantinePurge
           \/ Storage!HandleApplyStorageQuarantinePurge
    PROVE  StuckStorageInv'
  <1>0. /\ DOMAIN page = StoragePage /\ DOMAIN page.drawer = {"item", "plan", "status"}
        /\ Storage!Flows = {"drift", "orphan", "drawer"}
        /\ Storage!Hooks("drawer") = "drawer" /\ Storage!Hooks("purge") = "drawer"
    BY DEF StuckStorageInv, StorageShape, Storage!Flows, Storage!Hooks
  <1>1. ASSUME DrawerOnly, NEW flow \in {"drawer", "purge"}, NEW at \in {"list", "plan", "apply"},
               NEW item, NEW age, Storage!Begin(flow, at, item, age)
        PROVE  StuckStorageInv'
    <2>1. \A f \in Storage!Flows \ {"drawer"} : page'[f] = page[f]
      BY <1>0, <1>1 DEF DrawerOnly
    <2> QED BY <1>0, <1>1, <2>1, SidecarFlowBegins DEF DrawerOnly
  <1>2. CASE Storage!HandleOpenStorageQuarantine
    <2>1. DrawerOnly
      BY <1>0, <1>2 DEF Storage!HandleOpenStorageQuarantine, DrawerOnly, StoragePage
    <2> QED BY <1>1, <1>2, <2>1 DEF Storage!HandleOpenStorageQuarantine
  <1>3. CASE \E h \in page.list : Storage!HandlePreviewStorageQuarantineRestore(h)
    <2>1. DrawerOnly
      BY <1>0, <1>3 DEF Storage!HandlePreviewStorageQuarantineRestore, DrawerOnly, StoragePage,
                        Storage!Planning
    <2> QED BY <1>1, <1>3, <2>1 DEF Storage!HandlePreviewStorageQuarantineRestore
  <1>4. CASE Storage!HandleApplyStorageQuarantineRestore
    <2>1. DrawerOnly
      BY <1>0, <1>4 DEF Storage!HandleApplyStorageQuarantineRestore, DrawerOnly, StoragePage
    <2> QED BY <1>1, <1>4, <2>1 DEF Storage!HandleApplyStorageQuarantineRestore
  <1>5. CASE Storage!HandlePreviewStorageQuarantinePurge
    <2>1. DrawerOnly
      BY <1>0, <1>5 DEF Storage!HandlePreviewStorageQuarantinePurge, DrawerOnly, StoragePage,
                        Storage!Planning
    <2> QED BY <1>1, <1>5, <2>1 DEF Storage!HandlePreviewStorageQuarantinePurge
  <1>6. CASE Storage!HandleApplyStorageQuarantinePurge
    <2>1. DrawerOnly
      BY <1>0, <1>6 DEF Storage!HandleApplyStorageQuarantinePurge, DrawerOnly, StoragePage
    <2> QED BY <1>1, <1>6, <2>1 DEF Storage!HandleApplyStorageQuarantinePurge
  <1> QED BY <1>2, <1>3, <1>4, <1>5, <1>6

\* Closing, editing and what the folder does leave the statuses, or set them at rest.
LEMMA StorageRests ==
    ASSUME StuckStorageInv,
           \/ Storage!CloseDrift \/ Storage!CloseOrphan \/ Storage!CloseDrawer
           \/ Storage!TypeConfirmation \/ \E a \in Ages : Storage!EditPurgeAge(a)
           \/ Storage!Folder \/ Storage!ScanLoaded \/ UNCHANGED <<page, calls>>
    PROVE  StuckStorageInv'
  <1>0. /\ StorageShape /\ DOMAIN page = StoragePage
        /\ Storage!Flows = {"drift", "orphan", "drawer"}
        /\ \A f \in Storage!Flows : DOMAIN page[f] = {"item", "plan", "status"}
    BY DEF StuckStorageInv, StorageShape, Storage!Flows
  <1>1. ASSUME calls' = calls, DOMAIN page' = DOMAIN page, page'.per = page.per,
               \A f \in Storage!Flows :
                  /\ DOMAIN page'[f] = DOMAIN page[f]
                  /\ page'[f].status = page[f].status \/ page'[f].status \notin Waiting
        PROVE  StuckStorageInv'
    <2>1. StorageShape'
      BY <1>0, <1>1 DEF StorageShape
    <2>2. Storage!NeverStuck'
      BY <1>1, FlowRests DEF StuckStorageInv
    <2> QED BY <2>1, <2>2 DEF StuckStorageInv
  <1>2. CASE Storage!CloseDrift
    <2>1. /\ calls' = calls
          /\ page' = [page EXCEPT !.drift = [item |-> None, plan |-> None, status |-> "idle"]]
      BY <1>2 DEF Storage!CloseDrift
    <2> QED BY <1>0, <1>1, <2>1 DEF StoragePage, Waiting
  <1>3. CASE Storage!CloseOrphan
    <2>1. calls' = calls /\ page' = [page EXCEPT !.orphan.item = None]
      BY <1>3 DEF Storage!CloseOrphan
    <2> QED BY <1>0, <1>1, <2>1 DEF StoragePage
  <1>4. CASE Storage!CloseDrawer
    <2>1. /\ calls' = calls
          /\ page' = [page EXCEPT !.open = FALSE, !.purge = None,
                                  !.drawer.item = None, !.drawer.plan = None]
      BY <1>4 DEF Storage!CloseDrawer
    <2>2. /\ DOMAIN page' = DOMAIN page /\ page'.per = page.per
          /\ page'.drift = page.drift /\ page'.orphan = page.orphan
          /\ page'.drawer = [page.drawer EXCEPT !.item = None, !.plan = None]
      BY <1>0, <2>1 DEF StoragePage
    <2>3. page'.drawer.status = page.drawer.status /\ DOMAIN page'.drawer = DOMAIN page.drawer
      BY <1>0, <2>2
    <2> QED BY <1>0, <1>1, <2>1, <2>2, <2>3
  <1>5. CASE Storage!TypeConfirmation
    <2>1. calls' = calls /\ page' = [page EXCEPT !.confirmed = ~@]
      BY <1>5 DEF Storage!TypeConfirmation
    <2> QED BY <1>0, <1>1, <2>1 DEF StoragePage
  <1>6. CASE \E a \in Ages : Storage!EditPurgeAge(a)
    <2>1. calls' = calls /\ \E a : page' = [page EXCEPT !.age = a, !.purge = None]
      BY <1>6 DEF Storage!EditPurgeAge
    <2> QED BY <1>0, <1>1, <2>1 DEF StoragePage
  <1>7. CASE Storage!ScanLoaded
    <2>1. calls' = calls /\ \E s : page' = [page EXCEPT !.scan = s]
      BY <1>7 DEF Storage!ScanLoaded
    <2> QED BY <1>0, <1>1, <2>1 DEF StoragePage
  <1>8. CASE UNCHANGED <<page, calls>>
    BY <1>1, <1>8
  <1>9. CASE Storage!Folder
    <2>1. UNCHANGED <<page, calls>>
      BY <1>9 DEF Storage!Folder, Storage!SidecarWritten, Storage!MediaWritten,
                  Storage!MountToggles, Storage!DayPasses, Storage!Outside
    <2> QED BY <1>1, <2>1
  <1> QED BY <1>2, <1>3, <1>4, <1>5, <1>6, <1>7, <1>8, <1>9

\* A request is served: its call goes on.
LEMMA StorageServed ==
    ASSUME StuckStorageInv, NEW c \in calls,
           Storage!PlanServed(c) \/ Storage!ApplyServed(c) \/ Storage!FollowUp(c)
    PROVE  StuckStorageInv'
  <1>0. /\ StorageShape /\ DOMAIN page = StoragePage /\ Storage!Flows = {"drift", "orphan", "drawer"}
        /\ {"flow", "at", "item"} \subseteq DOMAIN c /\ c.flow \in Storage!Flows \cup {"purge"}
    <2>1. Storage!Flows = {"drift", "orphan", "drawer"}
      BY DEF Storage!Flows
    <2>2. StorageShape
      BY DEF StuckStorageInv
    <2>3. {"flow", "at", "item"} \subseteq DOMAIN c /\ c.flow \in Storage!Flows \cup {"purge"}
      BY <2>2 DEF StorageShape, StorageCall
    <2>4. /\ DOMAIN page = StoragePage /\ DOMAIN page.per = Storage!Drift
          /\ \A f \in Storage!Flows : DOMAIN page[f] = {"item", "plan", "status"}
      BY <2>2 DEF StorageShape
    <2> QED BY <2>1, <2>2, <2>3, <2>4
  <1>1. ASSUME NEW d, DOMAIN d = DOMAIN c, d.flow = c.flow, d.item = c.item, d.at \notin {"timer", "list"},
               Storage!GoesOn(c, d), page' = page \/ \E l : page' = [page EXCEPT !.list = l]
        PROVE  StuckStorageInv'
    <2>1. /\ DOMAIN page' = DOMAIN page /\ page'.per = page.per
          /\ \A f \in Storage!Flows : page'[f] = page[f]
      BY <1>0, <1>1 DEF StoragePage
    <2>2. calls' = (calls \ {c}) \cup {d}
      BY <1>1 DEF Storage!GoesOn
    <2>3. StorageShape'
      BY <1>0, <1>1, <2>1, <2>2 DEF StorageShape, StorageCall
    <2>4. Storage!NeverStuck'
      BY <1>1, <2>1, <2>2, FlowGoesOn DEF StuckStorageInv
    <2> QED BY <2>3, <2>4 DEF StuckStorageInv
  <1>2. CASE Storage!PlanServed(c)
    <2>1. PICK d : d = [c EXCEPT !.at = "planned", !.got = Storage!Result(c)]
      OBVIOUS
    <2>2. DOMAIN d = DOMAIN c /\ d.flow = c.flow /\ d.item = c.item /\ d.at = "planned"
      BY <1>0, <2>1
    <2>3. Storage!GoesOn(c, d) /\ page' = page
      BY <1>2, <2>1 DEF Storage!PlanServed
    <2> QED BY <1>1, <2>2, <2>3
  <1>3. CASE Storage!ApplyServed(c)
    <2>1. PICK d : /\ d = [c EXCEPT !.at = "follow", !.got = Storage!Result(c), !.applied = (server' # server)]
                   /\ Storage!GoesOn(c, d) /\ page' = page
      BY <1>3 DEF Storage!ApplyServed
    <2>2. DOMAIN d = DOMAIN c /\ d.flow = c.flow /\ d.item = c.item /\ d.at = "follow"
      BY <1>0, <2>1
    <2> QED BY <1>1, <2>1, <2>2
  <1>4. CASE Storage!FollowUp(c)
    <2>1. PICK d : d = [c EXCEPT !.at = "applied", !.scan = Storage!Scan]
      OBVIOUS
    <2>2. DOMAIN d = DOMAIN c /\ d.flow = c.flow /\ d.item = c.item /\ d.at = "applied"
      BY <1>0, <2>1
    <2>3. Storage!GoesOn(c, d) /\ (page' = page \/ \E l : page' = [page EXCEPT !.list = l])
      BY <1>4, <2>1 DEF Storage!FollowUp
    <2> QED BY <1>1, <2>2, <2>3
  <1> QED BY <1>2, <1>3, <1>4

\* A call of a flow is over, or is a timer from now on.
Over(c) ==
    \/ calls' = calls \ {c}
    \/ \E d : /\ calls' = (calls \ {c}) \cup {d}
             /\ DOMAIN d = DOMAIN c /\ d.flow = c.flow /\ d.at = "timer"

\* A page on which what c's flow said is at rest.
Rested(c, p) ==
    /\ DOMAIN p = DOMAIN page /\ DOMAIN p.per = DOMAIN page.per
    /\ \A f \in Storage!Flows : DOMAIN p[f] = DOMAIN page[f]
    /\ p[Storage!Hooks(c.flow)].status \notin Waiting
    /\ \A f \in Storage!Flows \ {Storage!Hooks(c.flow)} : p[f] = page[f]
    /\ \A e \in Storage!Drift :
          \/ p.per[e] # "running"
          \/ p.per[e] = page.per[e] /\ ~(c.flow = "drift" /\ c.item = e)

LEMMA FlowOver ==
    ASSUME StuckStorageInv, NEW c \in calls, Over(c), Rested(c, page')
    PROVE  StuckStorageInv'
  <1>1. StorageShape'
    BY DEF StuckStorageInv, StorageShape, StorageCall, Over, Rested
  <1>2. ASSUME NEW f \in Storage!Flows, page'[f].status \in Waiting
        PROVE  \E x \in calls' : Storage!Hooks(x.flow) = f /\ x.at # "timer"
    <2>1. f # Storage!Hooks(c.flow) /\ page[f].status \in Waiting
      BY <1>2 DEF Rested
    <2> QED BY <2>1 DEF StuckStorageInv, Storage!NeverStuck, Waiting, Over
  <1>3. ASSUME NEW e \in Storage!Drift, page'.per[e] = "running"
        PROVE  \E x \in calls' : x.flow = "drift" /\ x.item = e /\ x.at # "timer"
    <2>1. page.per[e] = "running" /\ ~(c.flow = "drift" /\ c.item = e)
      BY <1>3 DEF Rested
    <2>2. PICK x \in calls : x.flow = "drift" /\ x.item = e /\ x.at # "timer"
      BY <2>1 DEF StuckStorageInv, Storage!NeverStuck
    <2> QED BY <2>1, <2>2 DEF Over
  <1> QED BY <1>1, <1>2, <1>3 DEF StuckStorageInv, Storage!NeverStuck, Waiting, Storage!Hooks

\* A dry run or an apply that has ended with a status.
LEMMA ShownRests ==
    ASSUME StorageShape, NEW c, c.flow \in Storage!Flows \cup {"purge"}, NEW plan,
           NEW status, status \notin Waiting,
           NEW p, p = Storage!Shown(c, plan, status)
    PROVE  Rested(c, p)
  <1>0. /\ DOMAIN page = StoragePage /\ Storage!Flows = {"drift", "orphan", "drawer"}
        /\ \A f \in Storage!Flows : DOMAIN page[f] = {"item", "plan", "status"}
        /\ DOMAIN page.per = Storage!Drift
    BY DEF StorageShape, Storage!Flows
  <1>1. CASE c.flow = "purge"
    <2>1. p = [page EXCEPT !.purge = plan, !.drawer.status = status]
      BY <1>1 DEF Storage!Shown
    <2>2. /\ DOMAIN p = DOMAIN page /\ p.drift = page.drift /\ p.orphan = page.orphan
          /\ p.drawer = [page.drawer EXCEPT !.status = status] /\ p.per = page.per
      BY <1>0, <2>1 DEF StoragePage
    <2>3. Storage!Hooks(c.flow) = "drawer"
      BY <1>1 DEF Storage!Hooks
    <2>4. /\ \A f \in Storage!Flows : DOMAIN p[f] = DOMAIN page[f] /\ (f # "drawer" => p[f] = page[f])
          /\ p.drawer.status = status
      BY <1>0, <2>2
    <2>5. \A e \in Storage!Drift : p.per[e] = page.per[e] /\ ~(c.flow = "drift" /\ c.item = e)
      BY <1>1, <2>2
    <2> QED BY <2>2, <2>3, <2>4, <2>5 DEF Rested
  <1>2. CASE c.flow = "drift"
    <2>1. PICK idle : p = [page EXCEPT !.drift.plan = plan, !.drift.status = status,
                                       !.per[c.item] = idle] /\ idle \in {"idle", "error"}
      BY <1>2 DEF Storage!Shown
    <2>2. /\ DOMAIN p = DOMAIN page /\ p.orphan = page.orphan /\ p.drawer = page.drawer
          /\ p.drift = [page.drift EXCEPT !.plan = plan, !.status = status]
          /\ p.per = [page.per EXCEPT ![c.item] = idle]
      BY <1>0, <2>1 DEF StoragePage
    <2>3. DOMAIN p.drift = DOMAIN page.drift /\ p.drift.status = status
      BY <1>0, <2>2
    <2>4. /\ DOMAIN p.per = DOMAIN page.per
          /\ \A e \in Storage!Drift : IF e = c.item THEN p.per[e] # "running"
                                      ELSE p.per[e] = page.per[e]
      BY <1>0, <2>1, <2>2
    <2>5. /\ Storage!Hooks(c.flow) = "drift" /\ DOMAIN p = DOMAIN page
          /\ \A f \in Storage!Flows \ {"drift"} : p[f] = page[f]
      BY <1>0, <1>2, <2>2 DEF Storage!Hooks
    <2>6. \A f \in Storage!Flows : DOMAIN p[f] = DOMAIN page[f]
      BY <1>0, <2>3, <2>5
    <2>7. \A e \in Storage!Drift :
             \/ p.per[e] # "running"
             \/ p.per[e] = page.per[e] /\ ~(c.flow = "drift" /\ c.item = e)
      BY <2>4
    <2> QED BY <2>3, <2>4, <2>5, <2>6, <2>7 DEF Rested
  <1>3. CASE c.flow \in {"orphan", "drawer"}
    <2>1. p = [page EXCEPT ![c.flow].plan = plan, ![c.flow].status = status]
      BY <1>3 DEF Storage!Shown
    <2>2. /\ DOMAIN p = DOMAIN page /\ p.per = page.per
          /\ p[c.flow] = [page[c.flow] EXCEPT !.plan = plan, !.status = status]
          /\ \A f \in Storage!Flows \ {c.flow} : p[f] = page[f]
      BY <1>0, <1>3, <2>1 DEF StoragePage
    <2>3. DOMAIN p[c.flow] = DOMAIN page[c.flow] /\ p[c.flow].status = status
      BY <1>0, <1>3, <2>2
    <2>4. Storage!Hooks(c.flow) = c.flow /\ c.flow # "drift" /\ c.flow \in Storage!Flows
      BY <1>0, <1>3 DEF Storage!Hooks
    <2>5. \A f \in Storage!Flows : DOMAIN p[f] = DOMAIN page[f]
      BY <2>2, <2>3
    <2>6. \A e \in Storage!Drift : p.per[e] = page.per[e] /\ ~(c.flow = "drift" /\ c.item = e)
      BY <2>2, <2>4
    <2> QED BY <2>2, <2>3, <2>4, <2>5, <2>6 DEF Rested
  <1> QED BY <1>1, <1>2, <1>3 DEF Storage!Flows

LEMMA StorageAnswered ==
    ASSUME StuckStorageInv, NEW c \in calls,
           \/ Storage!PlanAnswered(c) \/ Storage!ApplyAnswered(c) \/ Storage!TimerFires(c)
           \/ Storage!ListAnswered(c) \/ Storage!Fails(c)
    PROVE  StuckStorageInv'
  <1>0. /\ StorageShape /\ DOMAIN page = StoragePage /\ Storage!Flows = {"drift", "orphan", "drawer"}
        /\ \A f \in Storage!Flows : DOMAIN page[f] = {"item", "plan", "status"}
        /\ DOMAIN page.per = Storage!Drift
        /\ {"flow", "at", "item"} \subseteq DOMAIN c /\ c.flow \in Storage!Flows \cup {"purge"}
    <2>1. Storage!Flows = {"drift", "orphan", "drawer"}
      BY DEF Storage!Flows
    <2>2. StorageShape
      BY DEF StuckStorageInv
    <2>3. {"flow", "at", "item"} \subseteq DOMAIN c /\ c.flow \in Storage!Flows \cup {"purge"}
      BY <2>2 DEF StorageShape, StorageCall
    <2>4. /\ DOMAIN page = StoragePage /\ DOMAIN page.per = Storage!Drift
          /\ \A f \in Storage!Flows : DOMAIN page[f] = {"item", "plan", "status"}
      BY <2>2 DEF StorageShape
    <2> QED BY <2>1, <2>2, <2>3, <2>4
  <1>1. CASE Storage!PlanAnswered(c)
    <2>1. Over(c)
      BY <1>1 DEF Storage!PlanAnswered, Storage!Ends, Over
    <2>2. PICK status \in {"idle", "error"} : page' = Storage!Shown(c, c.got, status)
      BY <1>1 DEF Storage!PlanAnswered
    <2>3. status \notin Waiting
      BY DEF Waiting
    <2>4. PICK p : p = page'
      OBVIOUS
    <2>5. Rested(c, p)
      BY <1>0, <2>2, <2>3, <2>4, ShownRests
    <2> QED BY <2>1, <2>4, <2>5, FlowOver
  <1>2. CASE Storage!ApplyAnswered(c)
    <2>1. Over(c)
      BY <1>0, <1>2 DEF Storage!ApplyAnswered, Storage!Ends, Storage!GoesOn, Over
    <2>2. PICK status, p :
             /\ status \in {"done", "error"} /\ p = Storage!Shown(c, c.got, status)
             /\ page' = CASE c.flow = "purge" -> [[p EXCEPT !.scan = c.scan]
                                   EXCEPT !.confirmed = FALSE, !.drawer.item = None, !.drawer.plan = None]
                          [] c.flow = "drift" -> [[p EXCEPT !.scan = c.scan] EXCEPT !.per[c.item] = "done"]
                          [] OTHER -> [p EXCEPT !.scan = c.scan]
      BY <1>2 DEF Storage!ApplyAnswered
    <2>3. status \notin Waiting
      BY <2>2 DEF Waiting
    <2>4. Rested(c, p)
      BY <1>0, <2>2, <2>3, ShownRests
    <2>5. PICK q : q = [p EXCEPT !.scan = c.scan]
      OBVIOUS
    <2>6. /\ Rested(c, q) /\ DOMAIN q = StoragePage
          /\ \A f \in Storage!Flows : DOMAIN q[f] = {"item", "plan", "status"}
          /\ DOMAIN q.per = Storage!Drift
      BY <1>0, <2>4, <2>5 DEF StoragePage, Rested, Storage!Hooks
    <2>7. CASE c.flow = "purge"
      <3>1. page' = [q EXCEPT !.confirmed = FALSE, !.drawer.item = None, !.drawer.plan = None]
        BY <2>2, <2>5, <2>7
      <3>2. /\ DOMAIN page' = DOMAIN q /\ page'.per = q.per
            /\ page'.drift = q.drift /\ page'.orphan = q.orphan
            /\ page'.drawer = [q.drawer EXCEPT !.item = None, !.plan = None]
        BY <1>0, <2>6, <3>1 DEF StoragePage
      <3>3. page'.drawer.status = q.drawer.status /\ DOMAIN page'.drawer = DOMAIN q.drawer
        BY <1>0, <2>6, <3>2
      <3>4. PICK r : r = page'
        OBVIOUS
      <3>5. Rested(c, r)
        <4>1. Storage!Hooks(c.flow) = "drawer"
          BY <2>7 DEF Storage!Hooks
        <4>2. \A f \in Storage!Flows : /\ DOMAIN r[f] = DOMAIN page[f]
                                       /\ f # "drawer" => r[f] = page[f]
          <5>1. r.drift = q.drift /\ r.orphan = q.orphan /\ DOMAIN r.drawer = DOMAIN q.drawer
            BY <3>2, <3>3, <3>4
          <5> QED BY <1>0, <2>6, <4>1, <5>1 DEF Rested
        <4>3. r.drawer.status \notin Waiting
          BY <2>6, <3>3, <3>4, <4>1 DEF Rested
        <4>4. \A e \in Storage!Drift :
                 \/ r.per[e] # "running"
                 \/ r.per[e] = page.per[e] /\ ~(c.flow = "drift" /\ c.item = e)
          BY <2>6, <3>2, <3>4 DEF Rested
        <4>5. DOMAIN r = DOMAIN page /\ DOMAIN r.per = DOMAIN page.per
          BY <1>0, <2>6, <3>2, <3>4
        <4> QED BY <4>1, <4>2, <4>3, <4>4, <4>5 DEF Rested
      <3> QED BY <2>1, <3>4, <3>5, FlowOver
    <2>8. CASE c.flow = "drift"
      <3>1. page' = [q EXCEPT !.per[c.item] = "done"]
        BY <2>2, <2>5, <2>8
      <3>2. /\ DOMAIN page' = DOMAIN q /\ \A f \in Storage!Flows : page'[f] = q[f]
            /\ page'.per = [q.per EXCEPT ![c.item] = "done"]
        BY <1>0, <2>6, <3>1 DEF StoragePage
      <3>3. PICK r : r = page'
        OBVIOUS
      <3>4. Rested(c, r)
        BY <1>0, <2>6, <2>8, <3>2, <3>3 DEF Rested, Storage!Hooks
      <3> QED BY <2>1, <3>3, <3>4, FlowOver
    <2>9. CASE c.flow \in {"orphan", "drawer"}
      <3>1. page' = q
        BY <2>2, <2>5, <2>9
      <3> QED BY <2>1, <2>6, <3>1, FlowOver
    <2> QED BY <1>0, <2>7, <2>8, <2>9
  <1>3. CASE Storage!TimerFires(c)
    <2>1. Over(c)
      BY <1>3 DEF Storage!TimerFires, Storage!Ends, Over
    <2>2. PICK q : q = [page EXCEPT ![c.flow] = [item |-> None, plan |-> None, status |-> "idle"]]
      OBVIOUS
    <2>3. page' = IF c.flow = "drift" THEN [q EXCEPT !.per[c.item] = "idle"] ELSE q
      BY <1>3, <2>2 DEF Storage!TimerFires
    <2>4. CASE c.flow = "purge"
      <3>1. /\ DOMAIN page' = DOMAIN page /\ page'.per = page.per
            /\ \A f \in Storage!Flows : page'[f] = page[f]
        BY <1>0, <2>2, <2>3, <2>4 DEF StoragePage
      <3>2. StorageShape'
        BY <1>0, <2>1, <3>1 DEF StorageShape, StorageCall, Over
      <3>3. calls' = calls \ {c} /\ c.at = "timer"
        BY <1>3 DEF Storage!TimerFires, Storage!Ends
      <3>4. Storage!NeverStuck'
        BY <3>1, <3>3 DEF StuckStorageInv, Storage!NeverStuck, Storage!Hooks
      <3> QED BY <3>2, <3>4 DEF StuckStorageInv
    <2>5. CASE c.flow \in Storage!Flows
      <3>1. /\ DOMAIN q = DOMAIN page /\ q.per = page.per
            /\ q[c.flow] = [item |-> None, plan |-> None, status |-> "idle"]
            /\ \A f \in Storage!Flows \ {c.flow} : q[f] = page[f]
        BY <1>0, <2>2, <2>5 DEF StoragePage
      <3>2. PICK r : r = page'
        OBVIOUS
      <3>3. /\ DOMAIN r = DOMAIN page /\ r[c.flow] = q[c.flow]
            /\ \A f \in Storage!Flows \ {c.flow} : r[f] = page[f]
            /\ r.per = IF c.flow = "drift" THEN [page.per EXCEPT ![c.item] = "idle"] ELSE page.per
        BY <1>0, <2>3, <2>5, <3>1, <3>2 DEF StoragePage
      <3>4. Rested(c, r)
        BY <1>0, <2>5, <3>1, <3>3 DEF Rested, Storage!Hooks, Waiting
      <3> QED BY <2>1, <3>2, <3>4, FlowOver
    <2> QED BY <1>0, <2>4, <2>5
  <1>4. CASE Storage!ListAnswered(c) \/ Storage!Fails(c)
    <2>1. Over(c)
      BY <1>4 DEF Storage!ListAnswered, Storage!Fails, Storage!Ends, Over
    <2>2. CASE Storage!Fails(c) /\ c.flow = "drift"
      <3>1. page' = [page EXCEPT !.drift.status = "error", !.per[c.item] = "error"]
        BY <2>2 DEF Storage!Fails
      <3>2. PICK r : r = page'
        OBVIOUS
      <3>3. /\ DOMAIN r = DOMAIN page /\ r.orphan = page.orphan /\ r.drawer = page.drawer
            /\ r.drift = [page.drift EXCEPT !.status = "error"]
            /\ r.per = [page.per EXCEPT ![c.item] = "error"]
        BY <1>0, <3>1, <3>2 DEF StoragePage
      <3>4. Storage!Hooks(c.flow) = "drift"
        BY <2>2 DEF Storage!Hooks
      <3>5. Rested(c, r)
        BY <1>0, <2>2, <3>3, <3>4 DEF Rested, Waiting
      <3> QED BY <2>1, <3>2, <3>5, FlowOver
    <2>3. CASE Storage!Fails(c) /\ c.flow # "drift"
      <3>1. PICK h : h = Storage!Hooks(c.flow) /\ h \in {"orphan", "drawer"}
        BY <1>0, <2>3 DEF Storage!Hooks
      <3>2. page' = [page EXCEPT ![h].status = "error"]
        BY <2>3, <3>1 DEF Storage!Fails
      <3>3. PICK r : r = page'
        OBVIOUS
      <3>4. /\ DOMAIN r = DOMAIN page /\ r.per = page.per
            /\ r[h] = [page[h] EXCEPT !.status = "error"]
            /\ \A f \in Storage!Flows \ {h} : r[f] = page[f]
        BY <1>0, <3>1, <3>2, <3>3 DEF StoragePage
      <3>5. Rested(c, r)
        BY <1>0, <2>3, <3>1, <3>4 DEF Rested, Waiting
      <3> QED BY <2>1, <3>3, <3>5, FlowOver
    <2>4. CASE Storage!ListAnswered(c)
      <3>1. c.flow \in {"drawer", "purge"} /\ Storage!Hooks(c.flow) = "drawer"
        BY <1>0, <2>4 DEF Storage!ListAnswered, StorageShape, StorageCall, Storage!Hooks
      <3>2. PICK r, l : r = page' /\ page' = [page EXCEPT !.list = l, !.drawer.status = "idle"]
        BY <2>4 DEF Storage!ListAnswered
      <3>3. /\ DOMAIN r = DOMAIN page /\ r.per = page.per
            /\ r.drawer = [page.drawer EXCEPT !.status = "idle"]
            /\ r.drift = page.drift /\ r.orphan = page.orphan
        BY <1>0, <3>2 DEF StoragePage
      <3>4. Rested(c, r)
        BY <1>0, <3>1, <3>3 DEF Rested, Waiting
      <3> QED BY <2>1, <3>2, <3>4, FlowOver
    <2> QED BY <1>4, <2>2, <2>3, <2>4
  <1> QED BY <1>1, <1>2, <1>3, <1>4

LEMMA StorageNeverStuckInit ==
    ASSUME Storage!Init
    PROVE  StuckStorageInv
  <1>1. calls = {}
    BY DEF Storage!Init
  <1>2. /\ DOMAIN page = StoragePage /\ page.per = [d \in Storage!Drift |-> "idle"]
        /\ \A f \in Storage!Flows : page[f] = [item |-> None, plan |-> None, status |-> "idle"]
    BY DEF Storage!Init, StoragePage, Storage!Flows
  <1> QED BY <1>1, <1>2 DEF StuckStorageInv, StorageShape, Storage!NeverStuck

LEMMA StorageNeverStuckStep ==
    ASSUME StuckStorageInv, [Storage!Next]_(Storage!vars)
    PROVE  StuckStorageInv'
  <1>1. CASE Storage!Operator
    BY <1>1, DriftBegins, OrphanBegins, DrawerBegins, StorageRests DEF Storage!Operator
  <1>2. CASE Storage!Folder \/ Storage!ScanLoaded
    BY <1>2, StorageRests
  <1>3. ASSUME NEW c \in calls,
               \/ Storage!PlanServed(c) \/ Storage!PlanAnswered(c) \/ Storage!ApplyServed(c)
               \/ Storage!FollowUp(c) \/ Storage!ApplyAnswered(c) \/ Storage!TimerFires(c)
               \/ Storage!ListAnswered(c) \/ Storage!Fails(c)
        PROVE  StuckStorageInv'
    BY <1>3, StorageServed, StorageAnswered
  <1>4. CASE UNCHANGED Storage!vars
    BY <1>4, StorageRests DEF Storage!vars
  <1> QED BY <1>1, <1>2, <1>3, <1>4 DEF Storage!Next

-----------------------------------------------------------------------------
(* The saved videos.                                                       *)

\* A call that this page, not one before a reload, waits for.
Pending(C, op) == \E c \in C : c.op = op /\ c.at # "timer" /\ ~c.gone

LibraryCall(c) == {"slot", "op", "at", "got", "alone", "kept", "gone"} \subseteq DOMAIN c

LibraryShape(p, C) == {"import", "detail"} \subseteq DOMAIN p /\ \A c \in C : LibraryCall(c)

LibraryWaits(p, C) ==
    /\ p.import = "importing" => Pending(C, "import")
    /\ p.detail = "loading" => Pending(C, "detail")

StuckLibraryInv == LibraryShape(page, calls) /\ LibraryWaits(page, calls)

\* Another part of the page is edited.
OtherHooks(p) ==
    DOMAIN p = DOMAIN page /\ p.import = page.import /\ p.detail = page.detail

\* Every call goes on, marked at most.
Marked(C) ==
    /\ \A c \in calls : \E d \in C : d.op = c.op /\ d.at = c.at /\ d.gone = c.gone
    /\ \A d \in C : \E c \in calls : DOMAIN d = DOMAIN c

LEMMA MarkedWaits ==
    ASSUME StuckLibraryInv, NEW C, Marked(C)
    PROVE  LibraryShape(page, C) /\ \A op : Pending(calls, op) => Pending(C, op)
  BY DEF StuckLibraryInv, LibraryShape, LibraryCall, Marked, Pending

LEMMA MarkedOK ==
    ASSUME StuckLibraryInv
    PROVE  /\ Marked(calls)
           /\ Marked({[c EXCEPT !.alone = FALSE] : c \in calls})
           /\ Marked({[c EXCEPT !.kept = FALSE] : c \in calls})
  <1>1. \A c \in calls : {"op", "at", "gone"} \subseteq DOMAIN c
    BY DEF StuckLibraryInv, LibraryShape, LibraryCall
  <1>2. Marked(calls)
    BY DEF Marked
  <1>3. Marked({[c EXCEPT !.alone = FALSE] : c \in calls})
    <2>1. \A c \in calls : LET d == [c EXCEPT !.alone = FALSE]
                           IN  d.op = c.op /\ d.at = c.at /\ d.gone = c.gone /\ DOMAIN d = DOMAIN c
      BY <1>1
    <2> QED BY <2>1 DEF Marked
  <1>4. Marked({[c EXCEPT !.kept = FALSE] : c \in calls})
    <2>1. \A c \in calls : LET d == [c EXCEPT !.kept = FALSE]
                           IN  d.op = c.op /\ d.at = c.at /\ d.gone = c.gone /\ DOMAIN d = DOMAIN c
      BY <1>1
    <2> QED BY <2>1 DEF Marked
  <1> QED BY <1>2, <1>3, <1>4

LEMMA LibraryBegins ==
    ASSUME StuckLibraryInv, NEW op, NEW sent, NEW p, Library!Begin(op, sent, p),
           DOMAIN p = DOMAIN page,
           p.import = page.import \/ op = "import", p.detail = page.detail \/ op = "detail"
    PROVE  StuckLibraryInv'
  <1>0. PICK C : C = {[c EXCEPT !.alone = FALSE] : c \in calls}
    OBVIOUS
  <1>1. PICK d : /\ page' = p /\ calls' = C \cup {d}
                 /\ LibraryCall(d) /\ d.op = op /\ d.at = "sent" /\ d.gone = FALSE
    <2>1. PICK slot, alone, d :
             /\ page' = p /\ calls' = C \cup {d}
             /\ d = [slot |-> slot, op |-> op, at |-> "sent", sent |-> sent, got |-> None,
                     alone |-> alone, kept |-> TRUE, gone |-> FALSE]
      BY <1>0 DEF Library!Begin
    <2>2. LibraryCall(d) /\ d.op = op /\ d.at = "sent" /\ d.gone = FALSE
      BY <2>1 DEF LibraryCall
    <2> QED BY <2>1, <2>2
  <1>2. LibraryShape(page, C) /\ \A o : Pending(calls, o) => Pending(C, o)
    BY <1>0, MarkedOK, MarkedWaits
  <1>3. Pending(calls', op) /\ \A o : Pending(calls, o) => Pending(calls', o)
    BY <1>1, <1>2 DEF Pending
  <1>4. LibraryShape(page', calls')
    BY <1>1, <1>2 DEF LibraryShape
  <1>5. LibraryWaits(page', calls')
    BY <1>1, <1>3 DEF StuckLibraryInv, LibraryWaits
  <1> QED BY <1>4, <1>5 DEF StuckLibraryInv

LEMMA LibraryRests ==
    ASSUME StuckLibraryInv, OtherHooks(page'), Marked(calls')
    PROVE  StuckLibraryInv'
  <1>1. PICK C, p : C = calls' /\ p = page'
    OBVIOUS
  <1>2. LibraryShape(page, C) /\ \A op : Pending(calls, op) => Pending(C, op)
    BY <1>1, MarkedWaits
  <1>3. LibraryShape(p, C) /\ LibraryWaits(p, C)
    BY <1>1, <1>2 DEF StuckLibraryInv, LibraryShape, LibraryWaits, OtherHooks
  <1> QED BY <1>1, <1>3 DEF StuckLibraryInv

LEMMA LibraryEdits ==
    ASSUME StuckLibraryInv, NEW p, Library!Edit(p), OtherHooks(p)
    PROVE  StuckLibraryInv'
  <1>1. page' = p /\ Marked(calls')
    BY MarkedOK DEF Library!Edit
  <1> QED BY <1>1, LibraryRests

LEMMA FilteredOther ==
    ASSUME StuckLibraryInv, NEW choice
    PROVE  OtherHooks(Library!Filtered(choice))
           /\ OtherHooks([Library!Filtered(choice) EXCEPT !.draft = None])
  <1>1. {"import", "detail"} \subseteq DOMAIN page
    BY DEF StuckLibraryInv, LibraryShape
  <1>2. PICK p : p = Library!Filtered(choice)
    OBVIOUS
  <1>3. OtherHooks(p)
    BY <1>1, <1>2 DEF OtherHooks, Library!Filtered
  <1>4. OtherHooks([p EXCEPT !.draft = None])
    BY <1>1, <1>3 DEF OtherHooks
  <1> QED BY <1>2, <1>3, <1>4

LEMMA LibraryEditing ==
    ASSUME StuckLibraryInv,
           \/ \E choice \in Selections : \/ Library!HandleApplyLibraryPreset(choice)
                                         \/ Library!HandleLibraryFilter(choice)
                                         \/ Library!HandleOpenStorageTriageView(choice)
           \/ Library!HandleResetLibraryFilters
           \/ \E name \in Names : Library!TypeName(name)
           \/ \E i \in DOMAIN page.views : Library!HandleApplySavedLibraryView(i)
           \/ Library!CloseDetail
    PROVE  StuckLibraryInv'
  <1>0. {"import", "detail"} \subseteq DOMAIN page
    BY DEF StuckLibraryInv, LibraryShape
  <1>1. CASE \/ \E choice \in Selections : \/ Library!HandleApplyLibraryPreset(choice)
                                           \/ Library!HandleLibraryFilter(choice)
                                           \/ Library!HandleOpenStorageTriageView(choice)
             \/ Library!HandleResetLibraryFilters
    <2>1. \E choice : \/ Library!Edit(Library!Filtered(choice))
                      \/ Library!Edit([Library!Filtered(choice) EXCEPT !.draft = None])
      BY <1>1 DEF Library!HandleApplyLibraryPreset, Library!HandleLibraryFilter,
                  Library!HandleOpenStorageTriageView, Library!HandleResetLibraryFilters
    <2> QED BY <2>1, FilteredOther, LibraryEdits
  <1>2. ASSUME NEW name, Library!TypeName(name)
        PROVE  StuckLibraryInv'
    <2>1. PICK p : p = [page EXCEPT !.draft = name] /\ Library!Edit(p)
      BY <1>2 DEF Library!TypeName
    <2>2. OtherHooks(p)
      BY <1>0, <2>1 DEF OtherHooks
    <2> QED BY <2>1, <2>2, LibraryEdits
  <1>3. ASSUME NEW i, Library!HandleApplySavedLibraryView(i)
        PROVE  StuckLibraryInv'
    <2>1. PICK p, x, y : /\ p = [page EXCEPT !.choice = x, !.active = y, !.late = FALSE]
                         /\ Library!Edit(p)
      BY <1>3 DEF Library!HandleApplySavedLibraryView
    <2>2. OtherHooks(p)
      BY <1>0, <2>1 DEF OtherHooks
    <2> QED BY <2>1, <2>2, LibraryEdits
  <1>4. CASE Library!CloseDetail
    <2>1. page' = [page EXCEPT !.item = None] /\ Marked(calls')
      BY <1>4, MarkedOK DEF Library!CloseDetail
    <2>2. OtherHooks(page')
      BY <1>0, <2>1 DEF OtherHooks
    <2> QED BY <2>1, <2>2, LibraryRests
  <1> QED BY <1>1, <1>2, <1>3, <1>4

LEMMA LibraryStarting ==
    ASSUME StuckLibraryInv,
           \/ Library!HandleSaveLibraryView \/ Library!HandleOverwriteSavedLibraryView
           \/ \E i \in DOMAIN page.views : Library!HandleDeleteSavedLibraryView(i)
           \/ \E bundle \in Bundles : Library!HandleImportLibraryViews(bundle)
           \/ \E item \in Items : Library!HandleOpenLibraryDetail(item)
           \/ Library!Arrive
    PROVE  StuckLibraryInv'
  <1>0. {"import", "detail"} \subseteq DOMAIN page
    BY DEF StuckLibraryInv, LibraryShape
  <1>1. ASSUME NEW name, Library!PersistLibraryView(name)
        PROVE  StuckLibraryInv'
    <2>1. PICK p, view, v, a : /\ p = [page EXCEPT !.views = v, !.active = a, !.draft = None, !.late = FALSE]
                               /\ Library!Begin("save", view, p)
      BY <1>1 DEF Library!PersistLibraryView
    <2>2. DOMAIN p = DOMAIN page /\ p.import = page.import /\ p.detail = page.detail
      BY <1>0, <2>1
    <2> QED BY <2>1, <2>2, LibraryBegins
  <1>2. ASSUME NEW i, Library!HandleDeleteSavedLibraryView(i)
        PROVE  StuckLibraryInv'
    <2>1. PICK p, v, a, id : /\ p = [page EXCEPT !.views = v, !.active = a]
                             /\ Library!Begin("delete", id, p) \/ Library!Edit(p)
      BY <1>2 DEF Library!HandleDeleteSavedLibraryView
    <2>2. DOMAIN p = DOMAIN page /\ p.import = page.import /\ p.detail = page.detail
      BY <1>0, <2>1
    <2> QED BY <2>1, <2>2, LibraryBegins, LibraryEdits DEF OtherHooks
  <1>3. ASSUME NEW bundle, Library!HandleImportLibraryViews(bundle)
        PROVE  StuckLibraryInv'
    <2>1. PICK p : p = [page EXCEPT !.import = "importing"] /\ Library!Begin("import", bundle, p)
      BY <1>3 DEF Library!HandleImportLibraryViews
    <2>2. DOMAIN p = DOMAIN page /\ p.detail = page.detail
      BY <1>0, <2>1
    <2> QED BY <2>1, <2>2, LibraryBegins
  <1>4. ASSUME NEW item, Library!HandleOpenLibraryDetail(item)
        PROVE  StuckLibraryInv'
    <2>1. PICK p, alone : /\ p = [page EXCEPT !.item = item, !.detail = "loading", !.files = None,
                                              !.alone = alone]
                          /\ Library!Begin("detail", item, p)
      BY <1>4 DEF Library!HandleOpenLibraryDetail
    <2>2. DOMAIN p = DOMAIN page /\ p.import = page.import
      BY <1>0, <2>1
    <2> QED BY <2>1, <2>2, LibraryBegins
  <1>5. CASE Library!Arrive
    <2>1. PICK p : p = [page EXCEPT !.here = TRUE] /\ Library!Begin("load", None, p)
      BY <1>5 DEF Library!Arrive
    <2>2. DOMAIN p = DOMAIN page /\ p.import = page.import /\ p.detail = page.detail
      BY <1>0, <2>1
    <2> QED BY <2>1, <2>2, LibraryBegins
  <1> QED
    BY <1>1, <1>2, <1>3, <1>4, <1>5 DEF Library!HandleSaveLibraryView,
       Library!HandleOverwriteSavedLibraryView

\* Leaving the page drops a load that nothing waits for; a reload drops what has been
\* answered, and waits for nothing.
LEMMA LibraryLeaves ==
    ASSUME StuckLibraryInv, Library!Leave \/ Library!Reload \/ Library!SavedElsewhere
    PROVE  StuckLibraryInv'
  <1>0. {"import", "detail"} \subseteq DOMAIN page /\ \A c \in calls : LibraryCall(c)
    BY DEF StuckLibraryInv, LibraryShape
  <1>1. CASE Library!Leave
    <2>1. page' = [page EXCEPT !.here = FALSE] /\ calls' = {c \in calls : c.op # "load"}
      BY <1>1 DEF Library!Leave
    <2>2. \A op \in {"import", "detail"} : Pending(calls, op) => Pending(calls', op)
      BY <2>1 DEF Pending
    <2>3. DOMAIN page' = DOMAIN page /\ page'.import = page.import /\ page'.detail = page.detail
      BY <1>0, <2>1
    <2>4. LibraryShape(page', calls')
      BY <1>0, <2>1, <2>3 DEF LibraryShape
    <2>5. LibraryWaits(page', calls')
      BY <2>2, <2>3 DEF StuckLibraryInv, LibraryWaits
    <2> QED BY <2>4, <2>5 DEF StuckLibraryInv
  <1>2. CASE Library!Reload
    <2>1. PICK V : page' = [page EXCEPT !.views = V, !.active = None, !.choice = All, !.draft = None,
                   !.import = "idle", !.item = None, !.files = None, !.detail = "idle",
                   !.here = FALSE, !.late = FALSE]
      BY <1>2 DEF Library!Reload
    <2>2. DOMAIN page' = DOMAIN page /\ page'.import = "idle" /\ page'.detail = "idle"
      BY <1>0, <2>1
    <2>3. \A c \in calls : LibraryCall([c EXCEPT !.gone = TRUE])
      BY <1>0 DEF LibraryCall
    <2>4. \A d \in calls' : LibraryCall(d)
      BY <1>2, <2>3 DEF Library!Reload
    <2> QED BY <1>0, <2>2, <2>4 DEF StuckLibraryInv, LibraryShape, LibraryWaits
  <1>3. CASE Library!SavedElsewhere
    <2>1. page' = page /\ Marked(calls')
      BY <1>3, MarkedOK DEF Library!SavedElsewhere
    <2> QED BY <2>1, LibraryRests DEF OtherHooks
  <1> QED BY <1>1, <1>2, <1>3

\* One call is answered, or has failed: the hook of its operation rests.
LEMMA LibraryCallEnds ==
    ASSUME StuckLibraryInv, NEW c \in calls,
           calls' = calls \ {c} \/ \E d : /\ calls' = (calls \ {c}) \cup {d} /\ LibraryCall(d),
           DOMAIN page' = DOMAIN page,
           c.op = "import" /\ c.at # "timer" /\ ~c.gone => page'.import # "importing",
           c.op = "detail" /\ c.at # "timer" /\ ~c.gone => page'.detail # "loading",
           page'.import = page.import \/ page'.import # "importing",
           page'.detail = page.detail \/ page'.detail # "loading"
    PROVE  StuckLibraryInv'
  <1>1. LibraryShape(page', calls')
    BY DEF StuckLibraryInv, LibraryShape
  <1>2. ASSUME page'.import = "importing"
        PROVE  Pending(calls', "import")
    <2>1. PICK x \in calls : x.op = "import" /\ x.at # "timer" /\ ~x.gone
      BY <1>2 DEF StuckLibraryInv, LibraryWaits, Pending
    <2>2. x # c
      BY <1>2, <2>1
    <2> QED BY <2>1, <2>2 DEF Pending
  <1>3. ASSUME page'.detail = "loading"
        PROVE  Pending(calls', "detail")
    <2>1. PICK x \in calls : x.op = "detail" /\ x.at # "timer" /\ ~x.gone
      BY <1>3 DEF StuckLibraryInv, LibraryWaits, Pending
    <2>2. x # c
      BY <1>3, <2>1
    <2> QED BY <2>1, <2>2 DEF Pending
  <1> QED BY <1>1, <1>2, <1>3 DEF StuckLibraryInv, LibraryWaits

LEMMA LibraryAnswers ==
    ASSUME StuckLibraryInv, NEW c \in calls, Library!Answers(c)
    PROVE  StuckLibraryInv'
  <1>0. {"import", "detail"} \subseteq DOMAIN page /\ LibraryCall(c)
        /\ {"slot", "op", "at", "got", "alone", "kept", "gone"} \subseteq DOMAIN c
    BY DEF StuckLibraryInv, LibraryShape, LibraryCall
  <1>1. CASE Library!Served(c)
    <2>1. page' = page
      BY <1>1 DEF Library!Served
    <2>2. CASE c.gone
      <3>1. calls' = calls \ {c}
        BY <1>1, <2>2 DEF Library!Served
      <3> QED BY <2>1, <2>2, <3>1, LibraryCallEnds
    <2>3. CASE ~c.gone
      <3>1. PICK d, got : calls' = (calls \ {c}) \cup {d} /\ d = [c EXCEPT !.at = "answer", !.got = got]
        BY <1>1, <2>3 DEF Library!Served
      <3>2. LibraryCall(d) /\ d.op = c.op /\ d.at = "answer" /\ d.gone = c.gone
        BY <1>0, <3>1 DEF LibraryCall
      <3>3. \A op : Pending(calls, op) => Pending(calls', op)
        BY <2>3, <3>1, <3>2 DEF Pending
      <3>4. LibraryShape(page', calls') /\ LibraryWaits(page', calls')
        BY <2>1, <3>1, <3>2, <3>3 DEF StuckLibraryInv, LibraryShape, LibraryWaits
      <3> QED BY <3>4 DEF StuckLibraryInv
    <2> QED BY <2>2, <2>3
  <1>2. CASE Library!SaveAnswered(c)
    <2>1. PICK v, a, l : page' = [page EXCEPT !.views = v, !.active = a, !.late = l]
      BY <1>2 DEF Library!SaveAnswered, Library!Shown
    <2>2. DOMAIN page' = DOMAIN page /\ page'.import = page.import /\ page'.detail = page.detail
      BY <1>0, <2>1
    <2>3. c.op = "save" /\ calls' = calls \ {c}
      BY <1>2 DEF Library!SaveAnswered, Library!Ends
    <2> QED BY <2>2, <2>3, LibraryCallEnds
  <1>3. CASE Library!DeleteAnswered(c)
    <2>1. page' = page /\ c.op = "delete" /\ calls' = calls \ {c}
      BY <1>3 DEF Library!DeleteAnswered, Library!Shown, Library!Ends
    <2> QED BY <2>1, LibraryCallEnds
  <1>4. CASE Library!ImportAnswered(c)
    <2>1. PICK v, l : page' = [page EXCEPT !.views = v, !.import = "done", !.late = l]
      BY <1>4 DEF Library!ImportAnswered, Library!Shown
    <2>2. DOMAIN page' = DOMAIN page /\ page'.import = "done" /\ page'.detail = page.detail
      BY <1>0, <2>1
    <2>3. PICK d : c.op = "import" /\ calls' = (calls \ {c}) \cup {d} /\ LibraryCall(d)
      BY <1>0, <1>4 DEF Library!ImportAnswered, LibraryCall
    <2> QED BY <2>2, <2>3, LibraryCallEnds
  <1>5. CASE Library!LibraryViewsLoaded(c)
    <2>1. PICK v, l : page' = [page EXCEPT !.views = v, !.late = l]
      BY <1>5 DEF Library!LibraryViewsLoaded, Library!Shown
    <2>2. DOMAIN page' = DOMAIN page /\ page'.import = page.import /\ page'.detail = page.detail
      BY <1>0, <2>1
    <2>3. c.op = "load" /\ calls' = calls \ {c}
      BY <1>5 DEF Library!LibraryViewsLoaded, Library!Ends
    <2> QED BY <2>2, <2>3, LibraryCallEnds
  <1>6. CASE Library!DetailAnswered(c)
    <2>1. page' = [page EXCEPT !.files = c.got, !.detail = "idle"]
      BY <1>6 DEF Library!DetailAnswered, Library!Shown
    <2>2. DOMAIN page' = DOMAIN page /\ page'.import = page.import /\ page'.detail = "idle"
      BY <1>0, <2>1
    <2>3. c.op = "detail" /\ calls' = calls \ {c}
      BY <1>6 DEF Library!DetailAnswered, Library!Ends
    <2> QED BY <2>2, <2>3, LibraryCallEnds
  <1>7. CASE Library!TimerFires(c)
    <2>1. page' = [page EXCEPT !.import = "idle"]
      BY <1>7 DEF Library!TimerFires, Library!Shown
    <2>2. DOMAIN page' = DOMAIN page /\ page'.import = "idle" /\ page'.detail = page.detail
      BY <1>0, <2>1
    <2>3. c.at = "timer" /\ calls' = calls \ {c}
      BY <1>7 DEF Library!TimerFires, Library!Ends
    <2> QED BY <2>2, <2>3, LibraryCallEnds
  <1>8. CASE Library!Fails(c)
    <2>1. PICK p : p = page'
      OBVIOUS
    <2>2. /\ DOMAIN p = DOMAIN page
          /\ p.import = IF c.op = "import" THEN "error" ELSE page.import
          /\ p.detail = IF c.op = "detail" THEN "error" ELSE page.detail
      BY <1>0, <1>8, <2>1 DEF Library!Fails, Library!Shown
    <2>3. calls' = calls \ {c} \/ \E d : /\ calls' = (calls \ {c}) \cup {d} /\ LibraryCall(d)
      BY <1>0, <1>8 DEF Library!Fails, LibraryCall
    <2> QED BY <2>1, <2>2, <2>3, LibraryCallEnds
  <1> QED BY <1>1, <1>2, <1>3, <1>4, <1>5, <1>6, <1>7, <1>8 DEF Library!Answers

LEMMA LibraryNeverStuckInit ==
    ASSUME Library!Init
    PROVE  StuckLibraryInv
  <1>1. calls = {} /\ {"import", "detail"} \subseteq DOMAIN page
        /\ page.import = "idle" /\ page.detail = "idle"
    BY DEF Library!Init
  <1> QED BY <1>1 DEF StuckLibraryInv, LibraryShape, LibraryWaits

LEMMA LibraryNeverStuckStep ==
    ASSUME StuckLibraryInv, [Library!Next]_(Library!vars)
    PROVE  StuckLibraryInv'
  <1>1. CASE Library!Operator
    BY <1>1, LibraryEditing, LibraryStarting, LibraryLeaves DEF Library!Operator
  <1>2. CASE Library!SavedElsewhere
    BY <1>2, LibraryLeaves
  <1>3. CASE \E c \in calls : Library!Answers(c)
    BY <1>3, LibraryAnswers
  <1>4. CASE UNCHANGED Library!vars
    BY <1>4 DEF Library!vars, StuckLibraryInv
  <1> QED BY <1>1, <1>2, <1>3, <1>4 DEF Library!Next

LEMMA LibraryNeverStuckOK ==
    ASSUME StuckLibraryInv
    PROVE  Library!NeverStuck
  BY DEF StuckLibraryInv, LibraryWaits, Pending, Library!NeverStuck

-----------------------------------------------------------------------------
(* The queue page and the kit.                                             *)

QueueOps == Queue!QueueOps \cup Queue!KitOps

\* What a handler of the operation may come to, and what it may end with.
StagesOf(op) ==
    {s \in Stages : /\ s = "file" => op = "loadfile"
                    /\ s = "preview" => op = "preview"
                    /\ s = "stage" => op = "stage"
                    /\ s = "plan" => op = "openrun"
                    /\ s = "sync" => op = "sync"
                    /\ op = "openq" => s = "refresh"}

FinalsOf(op) ==
    {s \in StagesOf(op) : /\ s \notin {"act", "start", "pass", "sync"}
                          /\ op \in Queue!KitOps => /\ s \notin {"files", "follow"}
                                                    /\ s = "refresh" => op = "openq"
                                                    /\ s = "channel" => op \in {"stage", "prepare", "sync"}}

AwaitsOf(op, t) == t \in Seq(StagesOf(op)) /\ t # <<>> /\ t[Len(t)] \in FinalsOf(op)

QueueCall(c) ==
    /\ {"op", "todo", "jobs"} \subseteq DOMAIN c
    /\ c.op \in QueueOps /\ AwaitsOf(c.op, c.todo)

PageShape(p) == {"status", "flow", "file"} \subseteq DOMAIN p /\ DOMAIN p.file = Jobs
KitShape(k) == {"status", "stage", "sync", "queue", "run"} \subseteq DOMAIN k

\* The page or the kit waits for a handler of one of the operations.
Wants(p, k, F) ==
    \/ p.status = "loading" /\ F = {"refresh", "open", "openq"}
    \/ p.status = "bulk" /\ F = {"bulk", "row", "prepare"}
    \/ p.status = "worker" /\ F = {"run", "runkit"}
    \/ p.flow = "bulk" /\ F = {"rescan", "prepare"}
    \/ p.flow = "downloading" /\ F = {"run", "runkit"}
    \/ p.flow = "syncing" /\ F = {"sync"}
    \/ k.status = "previewing" /\ F = {"preview"}
    \/ k.queue = "preparing" /\ F = {"prepare", "runkit"}
    \/ k.run = "running" /\ F = {"runkit"}

\* It waits for the call.
Files(p, j) == p.file[j] = "loading"
ReadsFiles(c, j) == c.op = "files" /\ j \in c.jobs
AtFirst(c, op) == c.op = op /\ Queue!Stage(c) = op

\* A stage and a sync are waited for until they are answered, not until their
\* handlers end.
QueueWaits(p, k, C) ==
    /\ \A F : Wants(p, k, F) => \E c \in C : c.op \in F
    /\ \A j \in Jobs : Files(p, j) => \E c \in C : ReadsFiles(c, j)
    /\ k.stage = "staging" => \E c \in C : AtFirst(c, "stage")
    /\ k.sync = "syncing" => \E c \in C : AtFirst(c, "sync")

QueueShape(p, k, C) == PageShape(p) /\ KitShape(k) /\ \A c \in C : QueueCall(c)

StuckQueueInv == QueueShape(page, kit, calls) /\ QueueWaits(page, kit, calls)

\* Nothing new is waited for.
Fewer(p, k) ==
    /\ PageShape(p) /\ KitShape(k)
    /\ \A F : Wants(p, k, F) => Wants(page, kit, F)
    /\ \A j \in Jobs : Files(p, j) => Files(page, j)
    /\ k.stage = "staging" => kit.stage = "staging"
    /\ k.sync = "syncing" => kit.sync = "syncing"

\* No hook waits for the answer a call has at once, or for the call at all.
Answers(c, k) ==
    /\ k.stage = "staging" => ~AtFirst(c, "stage")
    /\ k.sync = "syncing" => ~AtFirst(c, "sync")
Ended(c, p, k) ==
    /\ \A F : Wants(p, k, F) => c.op \notin F
    /\ \A j \in Jobs : Files(p, j) => ~ReadsFiles(c, j)
    /\ Answers(c, k)

LEMMA QueueCallEnds ==
    ASSUME StuckQueueInv, NEW c, Fewer(page', kit'), Ended(c, page', kit'),
           calls \ {c} \subseteq calls', \A d \in calls' : QueueCall(d)
    PROVE  StuckQueueInv'
  <1>1. PICK p, k, C : p = page' /\ k = kit' /\ C = calls'
    OBVIOUS
  <1>2. QueueShape(p, k, C)
    BY <1>1 DEF Fewer, QueueShape
  <1>3. \A F : Wants(p, k, F) => \E x \in C : x.op \in F
    BY <1>1 DEF Fewer, Ended, StuckQueueInv, QueueWaits
  <1>4. \A j \in Jobs : Files(p, j) => \E x \in C : ReadsFiles(x, j)
    BY <1>1 DEF Fewer, Ended, StuckQueueInv, QueueWaits
  <1>5. /\ k.stage = "staging" => \E x \in C : AtFirst(x, "stage")
        /\ k.sync = "syncing" => \E x \in C : AtFirst(x, "sync")
    BY <1>1 DEF Fewer, Ended, Answers, StuckQueueInv, QueueWaits
  <1>6. QueueWaits(p, k, C)
    BY <1>3, <1>4, <1>5 DEF QueueWaits
  <1> QED BY <1>1, <1>2, <1>6 DEF StuckQueueInv

LEMMA QueueCallGoesOn ==
    ASSUME StuckQueueInv, NEW c \in calls, NEW d, QueueCall(d), d.op = c.op, d.jobs = c.jobs,
           calls' = (calls \ {c}) \cup {d}, Fewer(page', kit'), Answers(c, kit')
    PROVE  StuckQueueInv'
  <1>1. PICK p, k, C : p = page' /\ k = kit' /\ C = calls'
    OBVIOUS
  <1>2. QueueShape(p, k, C)
    BY <1>1 DEF Fewer, QueueShape, StuckQueueInv
  <1>3. \A F : Wants(p, k, F) => \E x \in C : x.op \in F
    BY <1>1 DEF Fewer, StuckQueueInv, QueueWaits
  <1>4. \A j \in Jobs : Files(p, j) => \E x \in C : ReadsFiles(x, j)
    BY <1>1 DEF Fewer, StuckQueueInv, QueueWaits, ReadsFiles
  <1>5. /\ k.stage = "staging" => \E x \in C : AtFirst(x, "stage")
        /\ k.sync = "syncing" => \E x \in C : AtFirst(x, "sync")
    BY <1>1 DEF Fewer, Answers, StuckQueueInv, QueueWaits
  <1>6. QueueWaits(p, k, C)
    BY <1>3, <1>4, <1>5 DEF QueueWaits
  <1> QED BY <1>1, <1>2, <1>6 DEF StuckQueueInv

\* No call that something waits for is dropped.
LEMMA QueueRests ==
    ASSUME StuckQueueInv, Fewer(page', kit'), \A d \in calls' : QueueCall(d),
           \A c \in calls : c.op = "load" \/ c \in calls'
    PROVE  StuckQueueInv'
  <1>1. PICK p, k, C : p = page' /\ k = kit' /\ C = calls'
    OBVIOUS
  <1>2. QueueShape(p, k, C)
    BY <1>1 DEF Fewer, QueueShape
  <1>3. \A F : Wants(p, k, F) => Wants(page, kit, F) /\ "load" \notin F
    BY <1>1 DEF Fewer, Wants
  <1>4. \A F : Wants(p, k, F) => \E x \in C : x.op \in F
    BY <1>1, <1>3 DEF StuckQueueInv, QueueWaits
  <1>5. \A j \in Jobs : Files(p, j) => \E x \in C : ReadsFiles(x, j)
    BY <1>1 DEF Fewer, StuckQueueInv, QueueWaits, ReadsFiles
  <1>6. /\ k.stage = "staging" => \E x \in C : AtFirst(x, "stage")
        /\ k.sync = "syncing" => \E x \in C : AtFirst(x, "sync")
    BY <1>1 DEF Fewer, AtFirst, StuckQueueInv, QueueWaits
  <1>7. QueueWaits(p, k, C)
    BY <1>4, <1>5, <1>6 DEF QueueWaits
  <1> QED BY <1>1, <1>2, <1>7 DEF StuckQueueInv

\* What a call awaits.
LEMMA AwaitsTail ==
    ASSUME NEW op, NEW t, AwaitsOf(op, t), Len(t) # 1
    PROVE  AwaitsOf(op, Tail(t))
  <1>1. Len(t) \in Nat /\ Len(t) >= 2
    <2>1. Len(t) \in Nat /\ Len(t) # 0
      BY EmptySeq DEF AwaitsOf
    <2>2. \A n \in Nat : n # 0 /\ n # 1 => n >= 2
      OBVIOUS
    <2> QED BY <2>1, <2>2
  <1>2. Tail(t) \in Seq(StagesOf(op)) /\ Len(Tail(t)) = Len(t) - 1
    BY <1>1, HeadTailProperties DEF AwaitsOf
  <1>3. \A i \in 1..Len(t) - 1 : Tail(t)[i] = t[i + 1]
    BY <1>1 DEF AwaitsOf
  <1>4. Len(t) - 1 \in 1..Len(t) - 1 /\ Len(t) - 1 # 0
    BY <1>1
  <1>5. Tail(t)[Len(t) - 1] = t[Len(t)]
    BY <1>1, <1>3, <1>4
  <1>6. Tail(t) # <<>>
    BY <1>2, <1>4, EmptySeq
  <1> QED BY <1>2, <1>5, <1>6 DEF AwaitsOf

LEMMA AwaitsHead ==
    ASSUME NEW op, NEW t, AwaitsOf(op, t)
    PROVE  Head(t) \in StagesOf(op) /\ (Len(t) = 1 => Head(t) \in FinalsOf(op))
  <1>1. Len(t) \in Nat /\ Len(t) # 0
    BY EmptySeq DEF AwaitsOf
  <1>2. Head(t) = t[1] /\ 1 \in 1..Len(t)
    BY <1>1 DEF AwaitsOf
  <1> QED BY <1>1, <1>2 DEF AwaitsOf

LEMMA AwaitsInitially ==
    /\ \A op \in Queue!QueueOps : AwaitsOf(op, Queue!Awaits(op))
    /\ \A op \in Queue!KitOps : AwaitsOf(op, Queue!KitAwaits(op))
  <1>1. ASSUME NEW op \in Queue!QueueOps
        PROVE  AwaitsOf(op, Queue!Awaits(op))
    <2>1. CASE op \in {"load", "event", "refresh", "open"}
      <3>1. "refresh" \in FinalsOf(op) /\ Queue!Awaits(op) = <<"refresh">>
        BY <2>1 DEF FinalsOf, StagesOf, Stages, Queue!KitOps, Queue!Awaits
      <3> QED BY <3>1 DEF AwaitsOf, FinalsOf
    <2>2. CASE op \in {"bulk", "row"}
      <3>1. {"act", "refresh", "channel"} \subseteq StagesOf(op) /\ "channel" \in FinalsOf(op)
        BY <2>2 DEF FinalsOf, StagesOf, Stages, Queue!KitOps
      <3>2. Queue!Awaits(op) = <<"act", "refresh", "channel">>
        BY <2>2 DEF Queue!Awaits
      <3> QED BY <3>1, <3>2 DEF AwaitsOf
    <2>3. CASE op = "run"
      <3>1. {"start", "pass", "refresh", "channel"} \subseteq StagesOf(op) /\ "channel" \in FinalsOf(op)
        BY <2>3 DEF FinalsOf, StagesOf, Stages, Queue!KitOps
      <3>2. Queue!Awaits(op) = <<"start", "pass", "refresh", "channel">>
        BY <2>3 DEF Queue!Awaits
      <3> QED BY <3>1, <3>2 DEF AwaitsOf
    <2>4. CASE op = "files"
      <3>1. "files" \in FinalsOf(op) /\ Queue!Awaits(op) = <<"files">>
        BY <2>4 DEF FinalsOf, StagesOf, Stages, Queue!KitOps, Queue!Awaits
      <3> QED BY <3>1 DEF AwaitsOf, FinalsOf
    <2>5. CASE op = "rescan"
      <3>1. {"act", "follow", "channel"} \subseteq StagesOf(op) /\ "channel" \in FinalsOf(op)
        BY <2>5 DEF FinalsOf, StagesOf, Stages, Queue!KitOps
      <3>2. Queue!Awaits(op) = <<"act", "follow", "channel">>
        BY <2>5 DEF Queue!Awaits
      <3> QED BY <3>1, <3>2 DEF AwaitsOf
    <2> QED BY <2>1, <2>2, <2>3, <2>4, <2>5 DEF Queue!QueueOps
  <1>2. ASSUME NEW op \in Queue!KitOps
        PROVE  AwaitsOf(op, Queue!KitAwaits(op))
    <2>1. CASE op \in {"loadfile", "preview", "openq", "openrun"}
      <3>1. PICK s : s \in FinalsOf(op) /\ Queue!KitAwaits(op) = <<s>>
        BY <2>1 DEF FinalsOf, StagesOf, Stages, Queue!KitOps, Queue!KitAwaits
      <3> QED BY <3>1 DEF AwaitsOf, FinalsOf
    <2>2. CASE op = "stage"
      <3>1. {"stage", "follow", "refresh", "channel"} \subseteq StagesOf(op) /\ "channel" \in FinalsOf(op)
        BY <2>2 DEF FinalsOf, StagesOf, Stages
      <3>2. Queue!KitAwaits(op) = <<"stage", "follow", "refresh", "channel">>
        BY <2>2 DEF Queue!KitAwaits
      <3> QED BY <3>1, <3>2 DEF AwaitsOf
    <2>3. CASE op = "prepare"
      <3>1. {"act", "refresh", "channel"} \subseteq StagesOf(op) /\ "channel" \in FinalsOf(op)
        BY <2>3 DEF FinalsOf, StagesOf, Stages
      <3>2. Queue!KitAwaits(op) = <<"act", "refresh", "channel">>
        BY <2>3 DEF Queue!KitAwaits
      <3> QED BY <3>1, <3>2 DEF AwaitsOf
    <2>4. CASE op = "runkit"
      <3>1. {"act", "start", "pass", "refresh", "channel", "runs"} \subseteq StagesOf(op)
            /\ "runs" \in FinalsOf(op)
        BY <2>4 DEF FinalsOf, StagesOf, Stages
      <3>2. Queue!KitAwaits(op) = <<"act", "start", "pass", "refresh", "channel", "runs">>
        BY <2>4 DEF Queue!KitAwaits
      <3> QED BY <3>1, <3>2 DEF AwaitsOf
    <2>5. CASE op = "sync"
      <3>1. {"sync", "follow", "refresh", "channel"} \subseteq StagesOf(op) /\ "channel" \in FinalsOf(op)
        BY <2>5 DEF FinalsOf, StagesOf, Stages
      <3>2. Queue!KitAwaits(op) = <<"sync", "follow", "refresh", "channel">>
        BY <2>5 DEF Queue!KitAwaits
      <3> QED BY <3>1, <3>2 DEF AwaitsOf
    <2> QED BY <2>1, <2>2, <2>3, <2>4, <2>5 DEF Queue!KitOps
  <1> QED BY <1>1, <1>2

LEMMA LoadIsCall == QueueCall(Queue!Load) /\ Queue!Load.op = "load"
  <1>1. Queue!Load.op = "load" /\ Queue!Load.todo = Queue!Awaits("load")
        /\ {"op", "todo", "jobs"} \subseteq DOMAIN Queue!Load
    BY DEF Queue!Load, Queue!Call
  <1>2. "load" \in Queue!QueueOps
    BY DEF Queue!QueueOps
  <1> QED BY <1>1, <1>2, AwaitsInitially DEF QueueCall, QueueOps

\* A handler begins; what waits anew, waits for it.
LEMMA QueueBegins ==
    ASSUME StuckQueueInv, NEW op \in QueueOps, NEW todo, AwaitsOf(op, todo), NEW act, NEW jobs, NEW p,
           Queue!BeginWith(op, todo, act, jobs, p), PageShape(p), KitShape(kit'),
           \A F : Wants(p, kit', F) => Wants(page, kit, F) \/ op \in F,
           \A j \in Jobs : Files(p, j) => Files(page, j) \/ (op = "files" /\ j \in jobs),
           kit'.stage = "staging" => kit.stage = "staging" \/ (op = "stage" /\ Head(todo) = "stage"),
           kit'.sync = "syncing" => kit.sync = "syncing" \/ (op = "sync" /\ Head(todo) = "sync")
    PROVE  StuckQueueInv'
  <1>1. PICK d : d = Queue!Call(Queue!FreeSlot, op, todo, act, jobs)
    OBVIOUS
  <1>2. calls' = calls \cup {d} \cup (IF p.here /\ ~page.here THEN {Queue!Load} ELSE {}) /\ page' = p
    BY <1>1 DEF Queue!BeginWith
  <1>3. d.op = op /\ d.todo = todo /\ d.jobs = jobs /\ {"op", "todo", "jobs"} \subseteq DOMAIN d
    BY <1>1 DEF Queue!Call
  <1>4. \A c \in calls' : QueueCall(c)
    BY <1>2, <1>3, LoadIsCall DEF QueueCall, StuckQueueInv, QueueShape
  <1>5. PICK k, C : k = kit' /\ C = calls'
    OBVIOUS
  <1>6. d \in C /\ calls \subseteq C
    BY <1>2, <1>5
  <1>7. \A F : Wants(p, k, F) => \E c \in C : c.op \in F
    BY <1>3, <1>5, <1>6 DEF StuckQueueInv, QueueWaits
  <1>8. \A j \in Jobs : Files(p, j) => \E c \in C : ReadsFiles(c, j)
    BY <1>3, <1>5, <1>6 DEF StuckQueueInv, QueueWaits, ReadsFiles
  <1>9. /\ k.stage = "staging" => \E c \in C : AtFirst(c, "stage")
        /\ k.sync = "syncing" => \E c \in C : AtFirst(c, "sync")
    BY <1>3, <1>5, <1>6 DEF StuckQueueInv, QueueWaits, AtFirst, Queue!Stage
  <1>10. QueueShape(p, k, C) /\ QueueWaits(p, k, C)
    BY <1>4, <1>5, <1>7, <1>8, <1>9 DEF QueueShape, QueueWaits
  <1> QED BY <1>2, <1>5, <1>10 DEF StuckQueueInv

\* An await of a handler is over: it goes on to the next, or has ended.
LEMMA QueueAwaitOver ==
    ASSUME StuckQueueInv, NEW c \in calls, Queue!GoesOn(c), Fewer(page', kit'), Answers(c, kit'),
           Queue!Last(c) => Ended(c, page', kit')
    PROVE  StuckQueueInv'
  <1>0. QueueCall(c) /\ \A x \in calls : QueueCall(x)
    BY DEF StuckQueueInv, QueueShape
  <1>1. CASE Queue!Last(c)
    <2>1. calls' = calls \ {c}
      BY <1>1 DEF Queue!GoesOn
    <2> QED BY <1>0, <1>1, <2>1, QueueCallEnds
  <1>2. CASE ~Queue!Last(c)
    <2>1. PICK d : d = [c EXCEPT !.todo = Tail(c.todo)]
      OBVIOUS
    <2>2. calls' = (calls \ {c}) \cup {d}
      BY <1>2, <2>1 DEF Queue!GoesOn
    <2>3. d.op = c.op /\ d.jobs = c.jobs /\ d.todo = Tail(c.todo) /\ DOMAIN d = DOMAIN c
      BY <1>0, <2>1 DEF QueueCall
    <2>4. AwaitsOf(c.op, Tail(c.todo))
      BY <1>0, <1>2, AwaitsTail DEF QueueCall, Queue!Last
    <2>5. QueueCall(d)
      BY <1>0, <2>3, <2>4 DEF QueueCall
    <2> QED BY <2>2, <2>3, <2>5, QueueCallGoesOn
  <1> QED BY <1>1, <1>2

-----------------------------------------------------------------------------
(* The steps of the queue page, and of the server.                         *)

LEMMA QueueHandlerBegins ==
    ASSUME StuckQueueInv, NEW op \in Queue!QueueOps, NEW act, NEW jobs, NEW p,
           Queue!Begin(op, act, jobs, p), PageShape(p), kit' = kit,
           \A F : Wants(p, kit, F) => Wants(page, kit, F) \/ op \in F,
           \A j \in Jobs : Files(p, j) => Files(page, j) \/ (op = "files" /\ j \in jobs)
    PROVE  StuckQueueInv'
  <1>1. AwaitsOf(op, Queue!Awaits(op)) /\ op \in QueueOps
    BY AwaitsInitially DEF QueueOps
  <1>2. Queue!BeginWith(op, Queue!Awaits(op), act, jobs, p)
    BY DEF Queue!Begin
  <1>3. KitShape(kit)
    BY DEF StuckQueueInv, QueueShape
  <1> QED BY <1>1, <1>2, <1>3, QueueBegins

\* The hooks that wait are left alone.
SameHooks(p) ==
    PageShape(p) /\ p.status = page.status /\ p.flow = page.flow /\ p.file = page.file

LEMMA SameHooksWait ==
    ASSUME StuckQueueInv, NEW p, SameHooks(p)
    PROVE  Fewer(p, kit)
  BY DEF StuckQueueInv, QueueShape, SameHooks, Fewer, Wants, Files

LEMMA QueuePageEdits ==
    ASSUME StuckQueueInv, NEW p, Queue!Edit(p), SameHooks(p), kit' = kit
    PROVE  StuckQueueInv'
  <1>1. Fewer(p, kit)
    BY SameHooksWait
  <1>2. page' = p /\ calls' = calls
    BY DEF Queue!Edit
  <1>3. \A c \in calls : QueueCall(c)
    BY DEF StuckQueueInv, QueueShape
  <1> QED BY <1>1, <1>2, <1>3, QueueRests

QueueEdits ==
    \/ \E j \in Jobs : Queue!HandleToggleQueueConsoleJobSelection(j)
    \/ Queue!HandleSelectVisibleQueueConsoleJobs \/ Queue!HandleResetQueueConsoleFilters
    \/ \E f, narrow : Queue!EditFilter(f, narrow)
    \/ Queue!CloseConfirm \/ Queue!GoToQueue \/ Queue!LeaveQueue

LEMMA QueuePageEditing ==
    ASSUME StuckQueueInv, kit' = kit, QueueEdits
    PROVE  StuckQueueInv'
  <1>0. PageShape(page) /\ {"status", "flow", "file"} \subseteq DOMAIN page /\ SameHooks(page)
        /\ \A c \in calls : QueueCall(c)
    BY DEF StuckQueueInv, QueueShape, PageShape, SameHooks
  <1>1. ASSUME NEW selected
        PROVE  SameHooks([page EXCEPT !.selected = selected])
    BY <1>0 DEF SameHooks, PageShape
  <1>2. ASSUME NEW filter, NEW narrow
        PROVE  SameHooks([page EXCEPT !.filter = filter, !.narrow = narrow])
    <2>1. PICK p : p = [page EXCEPT !.filter = filter, !.narrow = narrow]
      OBVIOUS
    <2>2. DOMAIN p = DOMAIN page /\ p.status = page.status /\ p.flow = page.flow /\ p.file = page.file
      BY <1>0, <2>1
    <2>3. SameHooks(p)
      BY <1>0, <2>2 DEF SameHooks, PageShape
    <2> QED BY <2>1, <2>3
  <1>3. CASE \/ \E j \in Jobs : Queue!HandleToggleQueueConsoleJobSelection(j)
             \/ Queue!HandleSelectVisibleQueueConsoleJobs
    <2>1. \E selected : Queue!Edit([page EXCEPT !.selected = selected])
      BY <1>3 DEF Queue!HandleToggleQueueConsoleJobSelection, Queue!HandleSelectVisibleQueueConsoleJobs
    <2> QED BY <1>1, <2>1, QueuePageEdits
  <1>4. CASE Queue!HandleResetQueueConsoleFilters \/ \E f, narrow : Queue!EditFilter(f, narrow)
    <2>1. \E filter, narrow : Queue!Edit([page EXCEPT !.filter = filter, !.narrow = narrow])
      BY <1>4 DEF Queue!HandleResetQueueConsoleFilters, Queue!EditFilter
    <2> QED BY <1>2, <2>1, QueuePageEdits
  <1>5. CASE Queue!CloseConfirm
    <2>1. SameHooks([page EXCEPT !.confirm = FALSE])
      BY <1>0 DEF SameHooks, PageShape
    <2>2. page' = [page EXCEPT !.confirm = FALSE] /\ calls' = calls
      BY <1>5 DEF Queue!CloseConfirm
    <2> QED BY <1>0, <2>1, <2>2, SameHooksWait, QueueRests
  <1>6. CASE Queue!GoToQueue
    <2>1. SameHooks([page EXCEPT !.here = TRUE])
      BY <1>0 DEF SameHooks, PageShape
    <2>2. page' = [page EXCEPT !.here = TRUE] /\ calls' = calls \cup {Queue!Load}
      BY <1>6 DEF Queue!GoToQueue
    <2> QED BY <1>0, <2>1, <2>2, LoadIsCall, SameHooksWait, QueueRests
  <1>7. CASE Queue!LeaveQueue
    <2>1. SameHooks([page EXCEPT !.here = FALSE])
      BY <1>0 DEF SameHooks, PageShape
    <2>2. page' = [page EXCEPT !.here = FALSE] /\ calls' = {c \in calls : c.op # "load"}
      BY <1>7 DEF Queue!LeaveQueue
    <2> QED BY <1>0, <2>1, <2>2, SameHooksWait, QueueRests
  <1> QED BY <1>3, <1>4, <1>5, <1>6, <1>7 DEF QueueEdits

LEMMA QueuePageOperator ==
    ASSUME StuckQueueInv, Queue!Operator, UNCHANGED <<kit, late>>
    PROVE  StuckQueueInv'
  <1>0. {"status", "flow", "file"} \subseteq DOMAIN page /\ DOMAIN page.file = Jobs /\ kit' = kit
    BY DEF StuckQueueInv, QueueShape, PageShape
  <1>1. ASSUME NEW j \in Jobs, Queue!HandleToggleQueueConsoleDetails(j)
        PROVE  StuckQueueInv'
    <2>1. ASSUME NEW e, Queue!Edit([page EXCEPT !.expanded = e])
          PROVE  StuckQueueInv'
      <3>1. SameHooks([page EXCEPT !.expanded = e])
        BY <1>0 DEF SameHooks, PageShape
      <3> QED BY <2>1, <3>1, <1>0, QueuePageEdits
    <2>2. ASSUME NEW p, p = [page EXCEPT !.expanded = j, !.file[j] = "loading"],
                 Queue!Begin("files", None, {j}, p)
          PROVE  StuckQueueInv'
      <3>1. /\ DOMAIN p = DOMAIN page /\ p.status = page.status /\ p.flow = page.flow
            /\ p.file = [page.file EXCEPT ![j] = "loading"]
        BY <1>0, <2>2
      <3>2. PageShape(p) /\ \A F : Wants(p, kit, F) => Wants(page, kit, F)
        BY <1>0, <3>1 DEF PageShape, Wants
      <3>3. \A i \in Jobs : Files(p, i) => Files(page, i) \/ i \in {j}
        BY <1>0, <3>1 DEF Files
      <3>4. "files" \in Queue!QueueOps
        BY DEF Queue!QueueOps
      <3> QED BY <2>2, <3>2, <3>3, <3>4, <1>0, QueueHandlerBegins
    <2> QED BY <1>1, <2>1, <2>2 DEF Queue!HandleToggleQueueConsoleDetails
  <1>2. ASSUME NEW op \in {"bulk", "row"}, NEW act, NEW jobs,
               Queue!Begin(op, act, jobs, [page EXCEPT !.status = "bulk"])
        PROVE  StuckQueueInv'
    <2>1. PICK p : p = [page EXCEPT !.status = "bulk"]
      OBVIOUS
    <2>2. DOMAIN p = DOMAIN page /\ p.status = "bulk" /\ p.flow = page.flow /\ p.file = page.file
      BY <1>0, <2>1
    <2>3. PageShape(p) /\ \A F : Wants(p, kit, F) => Wants(page, kit, F) \/ op \in F
      BY <1>0, <2>2 DEF PageShape, Wants
    <2>4. \A j \in Jobs : Files(p, j) => Files(page, j)
      BY <2>2 DEF Files
    <2>5. op \in Queue!QueueOps
      BY DEF Queue!QueueOps
    <2> QED BY <1>2, <2>1, <2>3, <2>4, <2>5, <1>0, QueueHandlerBegins
  <1>3. ASSUME NEW op \in {"open", "refresh"},
               Queue!Begin(op, None, {}, [page EXCEPT !.status = "loading"])
        PROVE  StuckQueueInv'
    <2>1. PICK p : p = [page EXCEPT !.status = "loading"]
      OBVIOUS
    <2>2. DOMAIN p = DOMAIN page /\ p.status = "loading" /\ p.flow = page.flow /\ p.file = page.file
      BY <1>0, <2>1
    <2>3. PageShape(p) /\ \A F : Wants(p, kit, F) => Wants(page, kit, F) \/ op \in F
      BY <1>0, <2>2 DEF PageShape, Wants
    <2>4. \A j \in Jobs : Files(p, j) => Files(page, j)
      BY <2>2 DEF Files
    <2>5. op \in Queue!QueueOps
      BY DEF Queue!QueueOps
    <2> QED BY <1>3, <2>1, <2>3, <2>4, <2>5, <1>0, QueueHandlerBegins
  <1>4. CASE Queue!HandleQueueConsoleRunWorker
    <2>1. PICK p : /\ p = [page EXCEPT !.confirm = FALSE, !.status = "worker", !.flow = "downloading"]
                   /\ Queue!Begin("run", None, {}, p)
      BY <1>4 DEF Queue!HandleQueueConsoleRunWorker
    <2>2. DOMAIN p = DOMAIN page /\ p.status = "worker" /\ p.flow = "downloading" /\ p.file = page.file
      BY <1>0, <2>1
    <2>3. PageShape(p) /\ \A F : Wants(p, kit, F) => Wants(page, kit, F) \/ "run" \in F
      BY <1>0, <2>2 DEF PageShape, Wants
    <2>4. \A j \in Jobs : Files(p, j) => Files(page, j)
      BY <2>2 DEF Files
    <2>5. "run" \in Queue!QueueOps
      BY DEF Queue!QueueOps
    <2> QED BY <2>1, <2>3, <2>4, <2>5, <1>0, QueueHandlerBegins
  <1>5. CASE Queue!HandleApplyRescan
    <2>1. PICK p : p = [page EXCEPT !.flow = "bulk"] /\ Queue!Begin("rescan", "rescan", {}, p)
      BY <1>5 DEF Queue!HandleApplyRescan
    <2>2. DOMAIN p = DOMAIN page /\ p.status = page.status /\ p.flow = "bulk" /\ p.file = page.file
      BY <1>0, <2>1
    <2>3. PageShape(p) /\ \A F : Wants(p, kit, F) => Wants(page, kit, F) \/ "rescan" \in F
      BY <1>0, <2>2 DEF PageShape, Wants
    <2>4. \A j \in Jobs : Files(p, j) => Files(page, j)
      BY <2>2 DEF Files
    <2>5. "rescan" \in Queue!QueueOps
      BY DEF Queue!QueueOps
    <2> QED BY <2>1, <2>3, <2>4, <2>5, <1>0, QueueHandlerBegins
  <1>6. CASE Queue!QueueEventArrives
    <2>1. Queue!Begin("event", None, {}, page) /\ "event" \in Queue!QueueOps /\ PageShape(page)
      BY <1>0, <1>6 DEF Queue!QueueEventArrives, Queue!QueueOps, PageShape
    <2> QED BY <2>1, <1>0, QueueHandlerBegins
  <1>7. CASE \/ \E j \in Jobs : \E act \in {"retry", "cancel", "stop"} :
                    Queue!HandleQueueConsoleJobAction(j, act)
             \/ \E act \in Queue!BulkActions : Queue!HandleQueueConsoleBulkAction(act)
    BY <1>2, <1>7 DEF Queue!HandleQueueConsoleJobAction, Queue!HandleQueueConsoleBulkAction
  <1>8. CASE Queue!HandleOpenQueueConsoleRunConfirm \/ Queue!HandleRefreshQueueConsole
    BY <1>3, <1>8 DEF Queue!HandleOpenQueueConsoleRunConfirm, Queue!HandleRefreshQueueConsole
  <1>9. CASE \/ \E j \in Jobs : Queue!HandleToggleQueueConsoleJobSelection(j)
             \/ Queue!HandleSelectVisibleQueueConsoleJobs \/ Queue!HandleResetQueueConsoleFilters
             \/ \E f \in Queue!StatusFilters : Queue!EditFilter(f, page.narrow)
             \/ \E narrow \in SUBSET Jobs : Queue!EditFilter(page.filter, narrow)
             \/ Queue!CloseConfirm \/ Queue!GoToQueue \/ Queue!LeaveQueue
    <2>1. QueueEdits
      BY <1>9 DEF QueueEdits
    <2> QED BY <1>0, <2>1, QueuePageEditing
  <1> QED
    BY <1>1, <1>4, <1>5, <1>6, <1>7, <1>8, <1>9 DEF Queue!Operator

\* What a call may have come to.
LEMMA StageOK ==
    ASSUME StuckQueueInv, NEW c \in calls
    PROVE  /\ QueueCall(c) /\ {"op", "todo", "jobs"} \subseteq DOMAIN c /\ c.op \in QueueOps
           /\ Queue!Stage(c) \in StagesOf(c.op)
           /\ Queue!Last(c) => Queue!Stage(c) \in FinalsOf(c.op)
  BY AwaitsHead DEF StuckQueueInv, QueueShape, QueueCall, Queue!Stage, Queue!Last

\* A call of which nothing but its stage waits any more.
LEMMA QueueAnswersAll ==
    ASSUME StuckQueueInv, NEW c, c.op \notin {"stage", "sync"}, NEW k
    PROVE  Answers(c, k)
  BY DEF Answers, AtFirst

\* A handler's next stage is reached, or another value is read, and the page is as it was.
LEMMA QueueReads ==
    ASSUME StuckQueueInv, NEW c \in calls, Queue!Reads(c), UNCHANGED <<kit, late>>
    PROVE  StuckQueueInv'
  <1>0. QueueCall(c) /\ {"op", "todo", "jobs"} \subseteq DOMAIN c
        /\ Queue!Stage(c) \in StagesOf(c.op)
        /\ (Queue!Last(c) => Queue!Stage(c) \in FinalsOf(c.op))
    BY StageOK
  <1>1. SameHooks(page)
    BY DEF SameHooks, StuckQueueInv, QueueShape
  <1>2. Fewer(page, kit)
    BY <1>1, SameHooksWait
  <1>3. page' = page /\ kit' = kit /\ Queue!Stage(c) \notin {"stage", "sync"}
    BY DEF Queue!Reads, Queue!ReadJobs, Queue!ReadPlan, Queue!PassStarts, Queue!PassOver,
           Queue!PassTakes
  <1>4. Answers(c, kit')
    BY <1>3 DEF Answers, AtFirst
  <1>5. ASSUME NEW d, Queue!Becomes(c, d), d.op = c.op, d.jobs = c.jobs, DOMAIN d = DOMAIN c,
               \/ d.todo = c.todo
               \/ d.todo = Tail(c.todo) /\ Queue!Stage(c) \in {"start", "pass"}
        PROVE  StuckQueueInv'
    <2>1. Queue!Stage(c) \in {"start", "pass"} => ~Queue!Last(c)
      BY <1>0 DEF FinalsOf
    <2>2. AwaitsOf(c.op, d.todo)
      BY <1>0, <1>5, <2>1, AwaitsTail DEF QueueCall, Queue!Last
    <2>3. QueueCall(d)
      BY <1>0, <1>5, <2>2 DEF QueueCall
    <2>4. calls' = (calls \ {c}) \cup {d}
      BY <1>5 DEF Queue!Becomes
    <2> QED BY <1>2, <1>3, <1>4, <1>5, <2>3, <2>4, QueueCallGoesOn
  <1>6. CASE Queue!ReadJobs(c)
    <2>1. PICK d, x : d = [c EXCEPT !.seen = x] /\ Queue!Becomes(c, d)
      BY <1>6 DEF Queue!ReadJobs
    <2>2. d.op = c.op /\ d.jobs = c.jobs /\ d.todo = c.todo /\ DOMAIN d = DOMAIN c
      BY <1>0, <2>1
    <2> QED BY <1>5, <2>1, <2>2
  <1>7. CASE Queue!ReadPlan(c)
    <2>1. PICK d, x : d = [c EXCEPT !.plan = x] /\ Queue!Becomes(c, d)
      BY <1>7 DEF Queue!ReadPlan
    <2>2. d.op = c.op /\ d.jobs = c.jobs /\ d.todo = c.todo /\ DOMAIN d = DOMAIN c
      BY <1>0, <2>1
    <2> QED BY <1>5, <2>1, <2>2
  <1>8. CASE Queue!PassStarts(c)
    <2>1. PICK d, x : d = [c EXCEPT !.todo = Tail(c.todo), !.planned = x] /\ Queue!Becomes(c, d)
      BY <1>8 DEF Queue!PassStarts
    <2>2. d.op = c.op /\ d.jobs = c.jobs /\ d.todo = Tail(c.todo) /\ DOMAIN d = DOMAIN c
      BY <1>0, <2>1
    <2> QED BY <1>5, <1>8, <2>1, <2>2 DEF Queue!PassStarts
  <1>9. CASE Queue!PassOver(c)
    <2>1. PICK d, x, y : d = [c EXCEPT !.todo = Tail(c.todo), !.ready = x, !.failed = y]
                         /\ Queue!Becomes(c, d)
      BY <1>9 DEF Queue!PassOver
    <2>2. d.op = c.op /\ d.jobs = c.jobs /\ d.todo = Tail(c.todo) /\ DOMAIN d = DOMAIN c
      BY <1>0, <2>1
    <2> QED BY <1>5, <1>9, <2>1, <2>2 DEF Queue!PassOver
  <1>10. CASE \E j \in c.planned : Queue!PassTakes(c, j)
    <2>1. PICK d, x : d = [c EXCEPT !.took = x] /\ Queue!Becomes(c, d)
      BY <1>10 DEF Queue!PassTakes
    <2>2. d.op = c.op /\ d.jobs = c.jobs /\ d.todo = c.todo /\ DOMAIN d = DOMAIN c
      BY <1>0, <2>1
    <2> QED BY <1>5, <2>1, <2>2
  <1> QED
    BY <1>6, <1>7, <1>8, <1>9, <1>10 DEF Queue!Reads

\* The page once a handler has ended well, or one of its requests has failed.
LEMMA EndedRests ==
    ASSUME StuckQueueInv, NEW c, c.op \in Queue!QueueOps, NEW p, SameHooks(p)
    PROVE  Fewer(Queue!Ended(c, p), kit) /\ Ended(c, Queue!Ended(c, p), kit)
  <1>0. {"status", "flow", "file"} \subseteq DOMAIN p /\ KitShape(kit) /\ DOMAIN p.file = Jobs
    BY DEF SameHooks, PageShape, StuckQueueInv, QueueShape
  <1>1. PICK q : q = Queue!Ended(c, p)
    OBVIOUS
  <1>2. Answers(c, kit)
    BY QueueAnswersAll DEF Queue!QueueOps
  <1>3. /\ DOMAIN q = DOMAIN p
        /\ q.status = IF c.op \in {"open", "refresh", "bulk", "row"} THEN "idle"
                      ELSE IF c.op = "run" THEN (IF c.failed THEN "error" ELSE "idle") ELSE p.status
        /\ q.flow = IF c.op = "run" THEN (IF c.failed THEN "error" ELSE "idle")
                    ELSE IF c.op = "rescan" THEN "idle" ELSE p.flow
    BY <1>0, <1>1 DEF Queue!Ended
  <1>4. q.file = IF c.op = "files" THEN [j \in Jobs |-> IF j \in c.jobs THEN "idle" ELSE p.file[j]]
                 ELSE p.file
    BY <1>0, <1>1 DEF Queue!Ended
  <1>5. PageShape(q)
    BY <1>0, <1>3, <1>4 DEF PageShape
  <1>6. \A F : Wants(q, kit, F) => Wants(page, kit, F) /\ c.op \notin F
    BY <1>3 DEF SameHooks, Wants, Queue!QueueOps
  <1>7. \A j \in Jobs : Files(q, j) => Files(page, j) /\ ~ReadsFiles(c, j)
    BY <1>4 DEF SameHooks, Files, ReadsFiles
  <1>8. Fewer(q, kit) /\ Ended(c, q, kit)
    BY <1>0, <1>2, <1>5, <1>6, <1>7 DEF Fewer, Ended
  <1> QED BY <1>1, <1>8

LEMMA FailedRests ==
    ASSUME StuckQueueInv, NEW c, c.op \in Queue!QueueOps
    PROVE  Fewer(Queue!Failed(c), kit) /\ Ended(c, Queue!Failed(c), kit)
  <1>0. {"status", "flow", "file"} \subseteq DOMAIN page /\ KitShape(kit) /\ DOMAIN page.file = Jobs
    BY DEF PageShape, StuckQueueInv, QueueShape
  <1>1. PICK q : q = Queue!Failed(c)
    OBVIOUS
  <1>2. Answers(c, kit)
    BY QueueAnswersAll DEF Queue!QueueOps
  <1>3. /\ DOMAIN q = DOMAIN page
        /\ q.status = IF c.op \in {"load", "event", "files", "rescan"} THEN page.status ELSE "error"
        /\ q.flow = IF c.op \in {"load", "event", "files"} THEN page.flow ELSE "error"
    BY <1>0, <1>1 DEF Queue!Failed
  <1>4. q.file = IF c.op = "files" THEN [j \in Jobs |-> IF j \in c.jobs THEN "error" ELSE page.file[j]]
                 ELSE page.file
    BY <1>0, <1>1 DEF Queue!Failed
  <1>5. PageShape(q)
    BY <1>0, <1>3, <1>4 DEF PageShape
  <1>6. \A F : Wants(q, kit, F) => Wants(page, kit, F) /\ c.op \notin F
    BY <1>3 DEF Wants, Queue!QueueOps
  <1>7. \A j \in Jobs : Files(q, j) => Files(page, j) /\ ~ReadsFiles(c, j)
    BY <1>4 DEF Files, ReadsFiles
  <1>8. Fewer(q, kit) /\ Ended(c, q, kit)
    BY <1>0, <1>2, <1>5, <1>6, <1>7 DEF Fewer, Ended
  <1> QED BY <1>1, <1>8

LEMMA QueuePageAnswers ==
    ASSUME StuckQueueInv, NEW c \in calls, c.op \in Queue!QueueOps, Queue!Answers(c),
           UNCHANGED <<kit, late>>
    PROVE  StuckQueueInv'
  <1>0. Queue!Stage(c) \in StagesOf(c.op) /\ (Queue!Last(c) => Queue!Stage(c) \in FinalsOf(c.op))
        /\ {"status", "flow", "file"} \subseteq DOMAIN page /\ SameHooks(page) /\ kit' = kit
        /\ Answers(c, kit) /\ \A d \in calls : QueueCall(d)
    BY StageOK, QueueAnswersAll
       DEF SameHooks, PageShape, StuckQueueInv, QueueShape, Queue!QueueOps
  <1>1. CASE Queue!Acted(c)
    <2>1. page' = page /\ Queue!GoesOn(c) /\ Queue!Stage(c) = "act"
      BY <1>1 DEF Queue!Acted
    <2>2. ~Queue!Last(c)
      BY <1>0, <2>1 DEF FinalsOf
    <2>3. Fewer(page, kit)
      BY <1>0, SameHooksWait
    <2> QED BY <1>0, <2>1, <2>2, <2>3, QueueAwaitOver
  <1>2. ASSUME NEW p, SameHooks(p), page' = Queue!Shown(c, p), Queue!GoesOn(c)
        PROVE  StuckQueueInv'
    <2>1. Fewer(p, kit)
      BY <1>2, SameHooksWait
    <2>2. Fewer(Queue!Ended(c, p), kit) /\ Ended(c, Queue!Ended(c, p), kit)
      BY <1>2, EndedRests
    <2>3. CASE Queue!Last(c)
      <3>1. page' = Queue!Ended(c, p)
        BY <1>2, <2>3 DEF Queue!Shown
      <3> QED BY <1>0, <1>2, <2>2, <3>1, QueueAwaitOver
    <2>4. CASE ~Queue!Last(c)
      <3>1. page' = p
        BY <1>2, <2>4 DEF Queue!Shown
      <3> QED BY <1>0, <1>2, <2>1, <2>4, <3>1, QueueAwaitOver
    <2> QED BY <2>3, <2>4
  <1>3. CASE Queue!RefreshQueueConsoleState(c)
    <2>1. PICK p : p = Queue!ApplyGlobalDownloadJobs(c)
      OBVIOUS
    <2>2. DOMAIN p = DOMAIN page /\ p.status = page.status /\ p.flow = page.flow /\ p.file = page.file
      BY <1>0, <2>1 DEF Queue!ApplyGlobalDownloadJobs
    <2>3. SameHooks(p)
      BY <1>0, <2>2 DEF SameHooks, PageShape
    <2> QED BY <1>2, <1>3, <2>1, <2>3 DEF Queue!RefreshQueueConsoleState
  <1>4. CASE Queue!LoadChannelState(c)
    <2>1. PICK p, x, y : /\ p = [page EXCEPT !.ready = x, !.archived = y]
                         /\ page' = Queue!Shown(c, p) /\ Queue!GoesOn(c)
      BY <1>4 DEF Queue!LoadChannelState
    <2>2. DOMAIN p = DOMAIN page /\ p.status = page.status /\ p.flow = page.flow /\ p.file = page.file
      BY <1>0, <2>1
    <2>3. SameHooks(p)
      BY <1>0, <2>2 DEF SameHooks, PageShape
    <2> QED BY <1>2, <2>1, <2>3
  <1>5. CASE Queue!ReadRest(c)
    BY <1>0, <1>2, <1>5 DEF Queue!ReadRest
  <1>6. CASE Queue!Fails(c)
    <2>1. page' = Queue!Failed(c) /\ calls' = calls \ {c}
      BY <1>6 DEF Queue!Fails
    <2> QED BY <1>0, <2>1, FailedRests, QueueCallEnds
  <1> QED BY <1>1, <1>3, <1>4, <1>5, <1>6 DEF Queue!Answers

-----------------------------------------------------------------------------
(* The steps of the kit.                                                   *)

\* A new text, typed or loaded: whatever the kit waits for is forgotten.
LEMMA ReplacedRests ==
    ASSUME StuckQueueInv, NEW ledger, Queue!ReplaceArchiveTxtDraft(ledger)
    PROVE  /\ KitShape(kit') /\ kit'.run = kit.run
           /\ {kit'.status, kit'.stage, kit'.sync, kit'.queue} = {"idle"}
  <1>0. {"status", "stage", "sync", "queue", "run"} \subseteq DOMAIN kit
    BY DEF StuckQueueInv, QueueShape, KitShape
  <1>1. PICK a : a = [kit EXCEPT !.draft = ledger]
    OBVIOUS
  <1>2. DOMAIN a = DOMAIN kit /\ a.run = kit.run
    BY <1>0, <1>1
  <1>3. kit' = [a EXCEPT !.preview = None, !.staged = None, !.sync = "idle", !.queue = "idle",
                         !.stage = "idle", !.status = "idle"]
    BY <1>1 DEF Queue!ReplaceArchiveTxtDraft, Queue!ResetArchiveTxtReviewState
  <1>4. PICK k : k = kit'
    OBVIOUS
  <1>5. /\ DOMAIN k = DOMAIN a /\ k.run = a.run
        /\ k.status = "idle" /\ k.stage = "idle" /\ k.sync = "idle" /\ k.queue = "idle"
    BY <1>0, <1>2, <1>3, <1>4
  <1> QED BY <1>0, <1>2, <1>4, <1>5 DEF KitShape

LEMMA KitBegins ==
    ASSUME StuckQueueInv, NEW op \in Queue!KitOps, NEW act, NEW jobs, NEW p, NEW k,
           Queue!BeginKit(op, act, jobs, p, k), PageShape(p), KitShape(k), p.file = page.file,
           \A F : Wants(p, k, F) => Wants(page, kit, F) \/ op \in F,
           k.stage = "staging" => kit.stage = "staging" \/ op = "stage",
           k.sync = "syncing" => kit.sync = "syncing" \/ op = "sync"
    PROVE  StuckQueueInv'
  <1>1. AwaitsOf(op, Queue!KitAwaits(op)) /\ op \in QueueOps
    BY AwaitsInitially DEF QueueOps
  <1>2. Queue!BeginWith(op, Queue!KitAwaits(op), act, jobs, p) /\ kit' = k
    BY DEF Queue!BeginKit
  <1>3. /\ op = "stage" => Head(Queue!KitAwaits(op)) = "stage"
        /\ op = "sync" => Head(Queue!KitAwaits(op)) = "sync"
    BY DEF Queue!KitAwaits
  <1>4. \A j \in Jobs : Files(p, j) => Files(page, j)
    BY DEF Files
  <1> QED BY <1>1, <1>2, <1>3, <1>4, QueueBegins

LEMMA KitEditing ==
    ASSUME StuckQueueInv,
           \/ \E ledger \in Ledgers : Queue!EditArchiveTxtDraft(ledger)
           \/ Queue!CloseRunDialog
    PROVE  StuckQueueInv'
  <1>0. {"status", "stage", "sync", "queue", "run"} \subseteq DOMAIN kit /\ PageShape(page)
        /\ \A c \in calls : QueueCall(c)
    BY DEF StuckQueueInv, QueueShape, KitShape
  <1>1. ASSUME NEW ledger, Queue!EditArchiveTxtDraft(ledger)
        PROVE  StuckQueueInv'
    <2>1. page' = page /\ calls' = calls /\ Queue!ReplaceArchiveTxtDraft(ledger)
      BY <1>1 DEF Queue!EditArchiveTxtDraft, Queue!Edit
    <2>2. PICK k : k = kit'
      OBVIOUS
    <2>3. /\ KitShape(k) /\ k.run = kit.run
          /\ k.status = "idle" /\ k.stage = "idle" /\ k.sync = "idle" /\ k.queue = "idle"
      BY <2>1, <2>2, ReplacedRests
    <2>4. Fewer(page, k)
      BY <1>0, <2>3 DEF Fewer, Wants
    <2> QED BY <1>0, <2>1, <2>2, <2>4, QueueRests
  <1>2. CASE Queue!CloseRunDialog
    <2>1. page' = page /\ calls' = calls /\ kit' = [kit EXCEPT !.dialog = FALSE]
      BY <1>2 DEF Queue!CloseRunDialog, Queue!vars
    <2>2. PICK k : k = kit'
      OBVIOUS
    <2>3. /\ DOMAIN k = DOMAIN kit /\ k.run = kit.run
          /\ k.status = kit.status /\ k.stage = kit.stage /\ k.sync = kit.sync /\ k.queue = kit.queue
      BY <1>0, <2>1, <2>2
    <2>4. Fewer(page, k)
      BY <1>0, <2>3 DEF Fewer, Wants, KitShape
    <2> QED BY <1>0, <2>1, <2>2, <2>4, QueueRests
  <1> QED BY <1>1, <1>2

LEMMA KitOperatorWaits ==
    ASSUME StuckQueueInv, Queue!KitOperator
    PROVE  StuckQueueInv'
  <1>0. /\ {"status", "stage", "sync", "queue", "run"} \subseteq DOMAIN kit /\ KitShape(kit)
        /\ {"status", "flow", "file"} \subseteq DOMAIN page /\ PageShape(page)
        /\ DOMAIN page.file = Jobs
    BY DEF StuckQueueInv, QueueShape, KitShape, PageShape
  <1>1. ASSUME NEW ledger, Queue!LoadArchiveTxtFile(ledger)
        PROVE  StuckQueueInv'
    <2>1. Queue!BeginKit("loadfile", None, ledger, page, kit) /\ "loadfile" \in Queue!KitOps
      BY <1>1 DEF Queue!LoadArchiveTxtFile, Queue!KitOps
    <2> QED BY <1>0, <2>1, KitBegins
  <1>2. CASE Queue!HandlePreviewArchiveTxt
    <2>1. PICK k : /\ k = [kit EXCEPT !.status = "previewing", !.stage = "idle", !.staged = None,
                                      !.sync = "idle", !.queue = "idle"]
                   /\ Queue!BeginKit("preview", None, kit.draft, page, k)
      BY <1>2 DEF Queue!HandlePreviewArchiveTxt
    <2>2. /\ DOMAIN k = DOMAIN kit /\ k.run = kit.run
          /\ k.status = "previewing" /\ k.stage = "idle" /\ k.sync = "idle" /\ k.queue = "idle"
      BY <1>0, <2>1
    <2>3. KitShape(k) /\ \A F : Wants(page, k, F) => Wants(page, kit, F) \/ "preview" \in F
      BY <1>0, <2>2 DEF KitShape, Wants
    <2>4. "preview" \in Queue!KitOps
      BY DEF Queue!KitOps
    <2> QED BY <1>0, <2>1, <2>2, <2>3, <2>4, KitBegins
  <1>3. CASE Queue!HandleStageArchiveTxt
    <2>1. PICK k : /\ k = [kit EXCEPT !.stage = "staging", !.sync = "idle", !.queue = "idle"]
                   /\ Queue!BeginKit("stage", None, kit.draft, page, k)
      BY <1>3 DEF Queue!HandleStageArchiveTxt
    <2>2. /\ DOMAIN k = DOMAIN kit /\ k.run = kit.run
          /\ k.status = kit.status /\ k.sync = "idle" /\ k.queue = "idle"
      BY <1>0, <2>1
    <2>3. KitShape(k) /\ \A F : Wants(page, k, F) => Wants(page, kit, F) \/ "stage" \in F
      BY <1>0, <2>2 DEF KitShape, Wants
    <2>4. "stage" \in Queue!KitOps
      BY DEF Queue!KitOps
    <2> QED BY <1>0, <2>1, <2>2, <2>3, <2>4, KitBegins
  <1>4. CASE Queue!HandleArchiveTxtOpenQueue
    <2>1. PICK p, x : /\ p = [page EXCEPT !.here = TRUE, !.filter = "launchable", !.narrow = Jobs,
                                          !.selected = x, !.status = "loading"]
                      /\ Queue!BeginKit("openq", None, {}, p, kit)
      BY <1>4 DEF Queue!HandleArchiveTxtOpenQueue
    <2>2. DOMAIN p = DOMAIN page /\ p.status = "loading" /\ p.flow = page.flow /\ p.file = page.file
      BY <1>0, <2>1
    <2>3. PageShape(p) /\ \A F : Wants(p, kit, F) => Wants(page, kit, F) \/ "openq" \in F
      BY <1>0, <2>2 DEF PageShape, Wants
    <2>4. "openq" \in Queue!KitOps
      BY DEF Queue!KitOps
    <2> QED BY <1>0, <2>1, <2>2, <2>3, <2>4, KitBegins
  <1>5. CASE Queue!HandleArchiveTxtPrepareQueue
    <2>1. PICK p, k, x : /\ p = [page EXCEPT !.status = "bulk", !.flow = "bulk"]
                         /\ k = [kit EXCEPT !.queue = "preparing"]
                         /\ Queue!BeginKit("prepare", "queue", x, p, k)
      BY <1>5 DEF Queue!HandleArchiveTxtPrepareQueue
    <2>2. DOMAIN p = DOMAIN page /\ p.status = "bulk" /\ p.flow = "bulk" /\ p.file = page.file
      BY <1>0, <2>1
    <2>3. /\ DOMAIN k = DOMAIN kit /\ k.run = kit.run /\ k.status = kit.status
          /\ k.stage = kit.stage /\ k.sync = kit.sync /\ k.queue = "preparing"
      BY <1>0, <2>1
    <2>4. /\ PageShape(p) /\ KitShape(k)
          /\ \A F : Wants(p, k, F) => Wants(page, kit, F) \/ "prepare" \in F
      BY <1>0, <2>2, <2>3 DEF PageShape, KitShape, Wants
    <2>5. "prepare" \in Queue!KitOps
      BY DEF Queue!KitOps
    <2> QED BY <2>1, <2>2, <2>3, <2>4, <2>5, KitBegins
  <1>6. CASE Queue!HandleArchiveTxtOpenRunConfirm
    <2>1. PICK k : k = [kit EXCEPT !.run = "idle"] /\ Queue!BeginKit("openrun", None, {}, page, k)
      BY <1>6 DEF Queue!HandleArchiveTxtOpenRunConfirm
    <2>2. /\ DOMAIN k = DOMAIN kit /\ k.run = "idle" /\ k.status = kit.status
          /\ k.stage = kit.stage /\ k.sync = kit.sync /\ k.queue = kit.queue
      BY <1>0, <2>1
    <2>3. KitShape(k) /\ \A F : Wants(page, k, F) => Wants(page, kit, F)
      BY <1>0, <2>2 DEF KitShape, Wants
    <2>4. "openrun" \in Queue!KitOps
      BY DEF Queue!KitOps
    <2> QED BY <1>0, <2>1, <2>2, <2>3, <2>4, KitBegins
  <1>7. CASE Queue!HandleArchiveTxtPrepareAndRun
    <2>1. PICK p, k, x : /\ p = [page EXCEPT !.status = "worker", !.flow = "downloading"]
                         /\ k = [kit EXCEPT !.run = "running", !.queue = "preparing"]
                         /\ Queue!BeginKit("runkit", "queue", x, p, k)
      BY <1>7 DEF Queue!HandleArchiveTxtPrepareAndRun
    <2>2. DOMAIN p = DOMAIN page /\ p.status = "worker" /\ p.flow = "downloading" /\ p.file = page.file
      BY <1>0, <2>1
    <2>3. /\ DOMAIN k = DOMAIN kit /\ k.run = "running" /\ k.status = kit.status
          /\ k.stage = kit.stage /\ k.sync = kit.sync /\ k.queue = "preparing"
      BY <1>0, <2>1
    <2>4. /\ PageShape(p) /\ KitShape(k)
          /\ \A F : Wants(p, k, F) => Wants(page, kit, F) \/ "runkit" \in F
      BY <1>0, <2>2, <2>3 DEF PageShape, KitShape, Wants
    <2>5. "runkit" \in Queue!KitOps
      BY DEF Queue!KitOps
    <2> QED BY <2>1, <2>2, <2>3, <2>4, <2>5, KitBegins
  <1>8. CASE Queue!HandleArchiveTxtMetadataSync
    <2>1. PICK p, k : /\ p = [page EXCEPT !.flow = "syncing"] /\ k = [kit EXCEPT !.sync = "syncing"]
                      /\ Queue!BeginKit("sync", None, {}, p, k)
      BY <1>8 DEF Queue!HandleArchiveTxtMetadataSync
    <2>2. DOMAIN p = DOMAIN page /\ p.status = page.status /\ p.flow = "syncing" /\ p.file = page.file
      BY <1>0, <2>1
    <2>3. /\ DOMAIN k = DOMAIN kit /\ k.run = kit.run /\ k.status = kit.status
          /\ k.stage = kit.stage /\ k.queue = kit.queue
      BY <1>0, <2>1
    <2>4. /\ PageShape(p) /\ KitShape(k)
          /\ \A F : Wants(p, k, F) => Wants(page, kit, F) \/ "sync" \in F
      BY <1>0, <2>2, <2>3 DEF PageShape, KitShape, Wants
    <2>5. "sync" \in Queue!KitOps
      BY DEF Queue!KitOps
    <2> QED BY <2>1, <2>2, <2>3, <2>4, <2>5, KitBegins
  <1>9. CASE \/ \E ledger \in Ledgers : Queue!EditArchiveTxtDraft(ledger)
             \/ Queue!CloseRunDialog
    BY <1>9, KitEditing
  <1> QED
    BY <1>1, <1>2, <1>3, <1>4, <1>5, <1>6, <1>7, <1>8, <1>9 DEF Queue!KitOperator

\* What the stage of a handler of the kit says of the handler.
LEMMA KitStage ==
    ASSUME StuckQueueInv, NEW c \in calls, c.op \in Queue!KitOps
    PROVE  /\ Queue!Stage(c) = "file" => c.op = "loadfile"
           /\ Queue!Stage(c) = "preview" => c.op = "preview"
           /\ Queue!Stage(c) = "stage" => c.op = "stage"
           /\ Queue!Stage(c) = "plan" => c.op = "openrun"
           /\ Queue!Stage(c) = "sync" => c.op = "sync" /\ ~Queue!Last(c)
           /\ c.op = "openq" => Queue!Stage(c) = "refresh"
           /\ Queue!Last(c) => /\ Queue!Stage(c) \notin {"act", "files", "follow"}
                               /\ Queue!Stage(c) = "refresh" => c.op = "openq"
                               /\ Queue!Stage(c) = "channel" => c.op \in {"stage", "prepare", "sync"}
  BY StageOK DEF StagesOf, FinalsOf

\* What the handlers of both pages do: a handler of the kit is waited for until it has
\* done more, or was waited for no longer.
LEMMA KitFollows ==
    ASSUME StuckQueueInv, NEW c \in calls, c.op \in Queue!KitOps, Queue!Follows(c)
    PROVE  StuckQueueInv'
  <1>0. {"status", "flow", "file"} \subseteq DOMAIN page /\ SameHooks(page) /\ kit' = kit
    BY DEF SameHooks, PageShape, StuckQueueInv, QueueShape, Queue!Follows
  <1>1. ASSUME NEW p, SameHooks(p), page' = Queue!Shown(c, p), Queue!GoesOn(c),
               Queue!Stage(c) \notin {"stage", "sync"}, Queue!Last(c) => c.op = "stage"
        PROVE  StuckQueueInv'
    <2>1. page' = p
      BY <1>1 DEF Queue!Shown, Queue!Ended, Queue!KitOps
    <2>2. Fewer(p, kit)
      BY <1>1, SameHooksWait
    <2>3. Answers(c, kit)
      BY <1>1 DEF Answers, AtFirst
    <2>4. Queue!Last(c) => Ended(c, p, kit)
      BY <1>1, <2>3 DEF Ended, Wants, ReadsFiles
    <2> QED BY <1>0, <1>1, <2>1, <2>2, <2>3, <2>4, QueueAwaitOver
  <1>2. CASE Queue!Acted(c)
    <2>1. page' = page /\ Queue!GoesOn(c) /\ Queue!Stage(c) = "act" /\ ~Queue!Last(c)
      BY <1>2, KitStage DEF Queue!Acted
    <2>2. page' = Queue!Shown(c, page)
      BY <2>1 DEF Queue!Shown
    <2> QED BY <1>0, <1>1, <2>1, <2>2
  <1>3. CASE Queue!ReadRest(c)
    <2>1. /\ page' = Queue!Shown(c, page) /\ Queue!GoesOn(c)
          /\ Queue!Stage(c) \in {"files", "follow"} /\ ~Queue!Last(c)
      BY <1>3, KitStage DEF Queue!ReadRest
    <2> QED BY <1>0, <1>1, <2>1
  <1>4. CASE c.op # "openq" /\ Queue!RefreshQueueConsoleState(c)
    <2>1. PICK p : /\ p = Queue!ApplyGlobalDownloadJobs(c)
                   /\ page' = Queue!Shown(c, p) /\ Queue!GoesOn(c)
      BY <1>4 DEF Queue!RefreshQueueConsoleState
    <2>2. DOMAIN p = DOMAIN page /\ p.status = page.status /\ p.flow = page.flow /\ p.file = page.file
      BY <1>0, <2>1 DEF Queue!ApplyGlobalDownloadJobs
    <2>3. SameHooks(p)
      BY <1>0, <2>2 DEF SameHooks, PageShape
    <2>4. Queue!Stage(c) = "refresh" /\ ~Queue!Last(c)
      BY <1>4, KitStage DEF Queue!RefreshQueueConsoleState
    <2> QED BY <1>1, <2>1, <2>3, <2>4
  <1>5. CASE c.op \notin {"prepare", "sync"} /\ Queue!LoadChannelState(c)
    <2>1. PICK p, x, y : /\ p = [page EXCEPT !.ready = x, !.archived = y]
                         /\ page' = Queue!Shown(c, p) /\ Queue!GoesOn(c)
      BY <1>5 DEF Queue!LoadChannelState
    <2>2. DOMAIN p = DOMAIN page /\ p.status = page.status /\ p.flow = page.flow /\ p.file = page.file
      BY <1>0, <2>1
    <2>3. SameHooks(p)
      BY <1>0, <2>2 DEF SameHooks, PageShape
    <2>4. Queue!Stage(c) = "channel" /\ (Queue!Last(c) => c.op = "stage")
      BY <1>5, KitStage DEF Queue!LoadChannelState
    <2> QED BY <1>1, <2>1, <2>3, <2>4
  <1> QED BY <1>2, <1>3, <1>4, <1>5 DEF Queue!Follows

\* A handler ends: the hooks it was waited for with say so.
LEMMA KitEnds ==
    ASSUME StuckQueueInv, NEW c \in calls, c.op \in Queue!KitOps,
           \/ Queue!FileRead(c) \/ Queue!PreviewAnswered(c) \/ Queue!RunPlanRead(c)
           \/ Queue!OpenQueueEnds(c) \/ Queue!SyncEnds(c) \/ Queue!KitFails(c)
    PROVE  StuckQueueInv'
  <1>0. /\ {"status", "stage", "sync", "queue", "run"} \subseteq DOMAIN kit
        /\ {"status", "flow", "file"} \subseteq DOMAIN page /\ DOMAIN page.file = Jobs
        /\ \A d \in calls : QueueCall(d)
    BY DEF StuckQueueInv, QueueShape, KitShape, PageShape
  <1>1. ASSUME NEW p, NEW k, p = page', k = kit', Queue!Ends(c),
               DOMAIN p = DOMAIN page, p.file = page.file, KitShape(k),
               \A F : Wants(p, k, F) => Wants(page, kit, F) /\ c.op \notin F,
               k.stage = "staging" => kit.stage = "staging" /\ c.op # "stage",
               k.sync = "syncing" => kit.sync = "syncing" /\ ~AtFirst(c, "sync")
        PROVE  StuckQueueInv'
    <2>1. calls' = calls \ {c}
      BY <1>1 DEF Queue!Ends
    <2>2. Fewer(p, k)
      BY <1>0, <1>1 DEF Fewer, PageShape, Files
    <2>3. Ended(c, p, k)
      BY <1>1 DEF Ended, Answers, AtFirst, ReadsFiles, Queue!KitOps
    <2> QED BY <1>0, <1>1, <2>1, <2>2, <2>3, QueueCallEnds
  <1>2. PICK p, k : p = page' /\ k = kit'
    OBVIOUS
  <1>3. CASE Queue!FileRead(c)
    <2>1. page' = [page EXCEPT !.flow = "idle"] /\ Queue!Ends(c) /\ c.op = "loadfile"
      BY <1>3, KitStage DEF Queue!FileRead
    <2>2. DOMAIN p = DOMAIN page /\ p.status = page.status /\ p.flow = "idle" /\ p.file = page.file
      BY <1>0, <1>2, <2>1
    <2>3. /\ KitShape(k) /\ k.run = kit.run
          /\ k.status = "idle" /\ k.stage = "idle" /\ k.sync = "idle" /\ k.queue = "idle"
      BY <1>2, <1>3, ReplacedRests DEF Queue!FileRead
    <2>4. \A F : Wants(p, k, F) => Wants(page, kit, F) /\ c.op \notin F
      BY <2>1, <2>2, <2>3 DEF Wants
    <2> QED BY <1>1, <1>2, <2>1, <2>2, <2>3, <2>4
  <1>4. CASE Queue!PreviewAnswered(c)
    <2>1. /\ page' = [page EXCEPT !.flow = "idle"] /\ Queue!Ends(c) /\ c.op = "preview"
          /\ \E x : kit' = [kit EXCEPT !.preview = x, !.status = "done"]
      BY <1>4, KitStage DEF Queue!PreviewAnswered
    <2>2. DOMAIN p = DOMAIN page /\ p.status = page.status /\ p.flow = "idle" /\ p.file = page.file
      BY <1>0, <1>2, <2>1
    <2>3. /\ DOMAIN k = DOMAIN kit /\ k.run = kit.run
          /\ k.status = "done" /\ k.stage = kit.stage /\ k.sync = kit.sync /\ k.queue = kit.queue
      BY <1>0, <1>2, <2>1
    <2>4. KitShape(k) /\ \A F : Wants(p, k, F) => Wants(page, kit, F) /\ c.op \notin F
      BY <1>0, <2>1, <2>2, <2>3 DEF KitShape, Wants
    <2>5. Queue!Ends(c) /\ c.op = "preview"
      BY <2>1
    <2> QED BY <1>1, <1>2, <2>2, <2>3, <2>4, <2>5 DEF AtFirst
  <1>5. CASE Queue!RunPlanRead(c)
    <2>1. /\ \E x : page' = [page EXCEPT !.ready = x]
          /\ kit' = [kit EXCEPT !.dialog = TRUE] /\ Queue!Ends(c) /\ c.op = "openrun"
      BY <1>5, KitStage DEF Queue!RunPlanRead
    <2>2. DOMAIN p = DOMAIN page /\ p.status = page.status /\ p.flow = page.flow /\ p.file = page.file
      BY <1>0, <1>2, <2>1
    <2>3. /\ DOMAIN k = DOMAIN kit /\ k.run = kit.run
          /\ k.status = kit.status /\ k.stage = kit.stage /\ k.sync = kit.sync /\ k.queue = kit.queue
      BY <1>0, <1>2, <2>1
    <2>4. KitShape(k) /\ \A F : Wants(p, k, F) => Wants(page, kit, F) /\ c.op \notin F
      BY <1>0, <2>1, <2>2, <2>3 DEF KitShape, Wants
    <2> QED BY <1>1, <1>2, <2>1, <2>2, <2>3, <2>4 DEF AtFirst
  <1>6. CASE Queue!OpenQueueEnds(c)
    <2>1. PICK a : a = Queue!ApplyGlobalDownloadJobs(c) /\ page' = [a EXCEPT !.status = "idle"]
      BY <1>6 DEF Queue!OpenQueueEnds
    <2>2. kit' = kit /\ Queue!Ends(c) /\ c.op = "openq"
      BY <1>6 DEF Queue!OpenQueueEnds
    <2>3. DOMAIN a = DOMAIN page /\ a.flow = page.flow /\ a.file = page.file
      BY <1>0, <2>1 DEF Queue!ApplyGlobalDownloadJobs
    <2>4. DOMAIN p = DOMAIN page /\ p.status = "idle" /\ p.flow = page.flow /\ p.file = page.file
      BY <1>0, <1>2, <2>1, <2>3
    <2>5. KitShape(k) /\ \A F : Wants(p, k, F) => Wants(page, kit, F) /\ c.op \notin F
      BY <1>0, <1>2, <2>2, <2>4 DEF KitShape, Wants
    <2> QED BY <1>1, <1>2, <2>2, <2>4, <2>5 DEF AtFirst
  <1>7. CASE Queue!SyncEnds(c)
    <2>1. PICK x, y, z : page' = [page EXCEPT !.flow = x, !.ready = y, !.archived = z]
                         /\ x \in {"idle", "error"}
      BY <1>7 DEF Queue!SyncEnds
    <2>2. kit' = kit /\ Queue!Ends(c) /\ c.op = "sync" /\ Queue!Stage(c) = "channel"
      BY <1>7 DEF Queue!SyncEnds
    <2>3. /\ DOMAIN p = DOMAIN page /\ p.status = page.status /\ p.flow \in {"idle", "error"}
          /\ p.file = page.file
      BY <1>0, <1>2, <2>1
    <2>4. KitShape(k) /\ \A F : Wants(p, k, F) => Wants(page, kit, F) /\ c.op \notin F
      BY <1>0, <1>2, <2>2, <2>3 DEF KitShape, Wants
    <2> QED BY <1>1, <1>2, <2>2, <2>3, <2>4 DEF AtFirst
  <1>8. CASE Queue!KitFails(c)
    <2>1. /\ page' = IF c.op \in {"openq", "prepare", "runkit"}
                     THEN [page EXCEPT !.status = "error", !.flow = "error"]
                     ELSE [page EXCEPT !.flow = "error"]
          /\ kit' = Queue!KitFailed(c) /\ Queue!Ends(c)
      BY <1>8 DEF Queue!KitFails
    <2>2. /\ DOMAIN p = DOMAIN page /\ p.flow = "error" /\ p.file = page.file
          /\ p.status = IF c.op \in {"openq", "prepare", "runkit"} THEN "error" ELSE page.status
      BY <1>0, <1>2, <2>1
    <2>3. /\ DOMAIN k = DOMAIN kit
          /\ k.status = IF c.op = "preview" THEN "error" ELSE kit.status
          /\ k.stage = IF c.op = "stage" THEN "error" ELSE kit.stage
          /\ k.sync = IF c.op = "sync" THEN "error" ELSE kit.sync
          /\ k.queue = IF c.op \in {"prepare", "runkit"} THEN "error" ELSE kit.queue
          /\ k.run = IF c.op \in {"openrun", "runkit"} THEN "error" ELSE kit.run
      BY <1>0, <1>2, <2>1 DEF Queue!KitFailed
    <2>4. KitShape(k) /\ \A F : Wants(p, k, F) => Wants(page, kit, F) /\ c.op \notin F
      BY <1>0, <2>2, <2>3 DEF KitShape, Wants, Queue!KitOps
    <2> QED BY <1>1, <1>2, <2>1, <2>2, <2>3, <2>4 DEF AtFirst
  <1> QED BY <1>3, <1>4, <1>5, <1>6, <1>7, <1>8

\* A handler ends on the queue page, which loads if the operator was elsewhere.
LEMMA KitArrives ==
    ASSUME StuckQueueInv, NEW c \in calls, Queue!PrepareEnds(c) \/ Queue!RunEndsWell(c)
    PROVE  StuckQueueInv'
  <1>0. /\ {"status", "stage", "sync", "queue", "run"} \subseteq DOMAIN kit
        /\ {"status", "flow", "file"} \subseteq DOMAIN page /\ DOMAIN page.file = Jobs
        /\ \A d \in calls : QueueCall(d)
    BY DEF StuckQueueInv, QueueShape, KitShape, PageShape
  <1>1. Queue!Arrives(c, {}) /\ c.op \in {"prepare", "runkit"}
    BY DEF Queue!PrepareEnds, Queue!RunEndsWell
  <1>2. calls \ {c} \subseteq calls' /\ \A d \in calls' : QueueCall(d)
    BY <1>0, <1>1, LoadIsCall DEF Queue!Arrives
  <1>3. PICK p, k : p = page' /\ k = kit'
    OBVIOUS
  <1>4. ASSUME NEW filter, NEW q, q = Queue!OnQueuePage(c, page, filter)
        PROVE  DOMAIN q = DOMAIN page /\ q.file = page.file
    BY <1>0, <1>4 DEF Queue!OnQueuePage
  <1>5. /\ DOMAIN p = DOMAIN page /\ p.status \in {"idle", "error"} /\ p.flow \in {"idle", "error"}
        /\ p.file = page.file
    <2>1. CASE Queue!PrepareEnds(c)
      <3>1. PICK q, x, y : /\ q = Queue!OnQueuePage(c, page, "queued")
                           /\ page' = [q EXCEPT !.status = "idle", !.flow = "idle", !.ready = x,
                                                !.archived = y]
        BY <2>1 DEF Queue!PrepareEnds
      <3>2. DOMAIN q = DOMAIN page /\ q.file = page.file
        BY <1>4, <3>1
      <3> QED BY <1>0, <1>3, <3>1, <3>2
    <2>2. CASE Queue!RunEndsWell(c)
      <3>1. PICK q, x, y : /\ q = Queue!OnQueuePage(c, page, "all")
                           /\ page' = [q EXCEPT !.status = x, !.flow = x, !.ready = y]
                           /\ x \in {"idle", "error"}
        BY <2>2 DEF Queue!RunEndsWell
      <3>2. DOMAIN q = DOMAIN page /\ q.file = page.file
        BY <1>4, <3>1
      <3> QED BY <1>0, <1>3, <3>1, <3>2
    <2> QED BY <2>1, <2>2
  <1>6. /\ DOMAIN k = DOMAIN kit /\ k.status = kit.status /\ k.stage = kit.stage /\ k.sync = kit.sync
        /\ k.queue \in {"done", "error"}
        /\ k.run = kit.run \/ k.run \in {"done", "error"}
        /\ c.op = "runkit" => k.run \in {"done", "error"}
    <2>1. CASE Queue!PrepareEnds(c)
      <3>1. kit' = [kit EXCEPT !.queue = "done"] /\ c.op = "prepare"
        BY <2>1 DEF Queue!PrepareEnds
      <3> QED BY <1>0, <1>3, <3>1
    <2>2. CASE Queue!RunEndsWell(c)
      <3>1. PICK x : x \in {"done", "error"} /\ kit' = [kit EXCEPT !.run = x, !.queue = x, !.dialog = FALSE]
        BY <2>2 DEF Queue!RunEndsWell
      <3> QED BY <1>0, <1>3, <3>1
    <2> QED BY <2>1, <2>2
  <1>7. \A F : Wants(p, k, F) => Wants(page, kit, F) /\ c.op \notin F
    BY <1>1, <1>5, <1>6 DEF Wants
  <1>8. Fewer(p, k)
    BY <1>0, <1>5, <1>6, <1>7 DEF Fewer, PageShape, KitShape, Files
  <1>9. Ended(c, p, k)
    BY <1>1, <1>7 DEF Ended, Answers, AtFirst, ReadsFiles
  <1> QED BY <1>2, <1>3, <1>8, <1>9, QueueCallEnds

\* A stage or a sync is answered, and its handler goes on.
LEMMA KitGoesOn ==
    ASSUME StuckQueueInv, NEW c \in calls, c.op \in Queue!KitOps,
           Queue!StageAnswered(c) \/ \E status \in {"done", "error"} : Queue!SyncAnswered(c, status)
    PROVE  StuckQueueInv'
  <1>0. /\ {"status", "stage", "sync", "queue", "run"} \subseteq DOMAIN kit
        /\ {"status", "flow", "file"} \subseteq DOMAIN page /\ DOMAIN page.file = Jobs
        /\ QueueCall(c) /\ {"op", "todo", "jobs"} \subseteq DOMAIN c
    BY DEF StuckQueueInv, QueueShape, KitShape, PageShape, QueueCall
  <1>1. PICK p, k : p = page' /\ k = kit'
    OBVIOUS
  <1>2. CASE Queue!StageAnswered(c)
    <2>1. PICK x, y : /\ page' = [page EXCEPT !.flow = "idle"] /\ Queue!GoesOn(c) /\ c.op = "stage"
                      /\ kit' = [kit EXCEPT !.staged = x, !.stage = "done", !.preview = y]
      BY <1>2, KitStage DEF Queue!StageAnswered
    <2>2. DOMAIN p = DOMAIN page /\ p.status = page.status /\ p.flow = "idle" /\ p.file = page.file
      BY <1>0, <1>1, <2>1
    <2>3. /\ DOMAIN k = DOMAIN kit /\ k.run = kit.run
          /\ k.status = kit.status /\ k.stage = "done" /\ k.sync = kit.sync /\ k.queue = kit.queue
      BY <1>0, <1>1, <2>1
    <2>4. Fewer(p, k)
      BY <1>0, <2>2, <2>3 DEF Fewer, PageShape, KitShape, Wants, Files
    <2>5. Answers(c, k)
      BY <2>1, <2>3 DEF Answers, AtFirst
    <2>6. Ended(c, p, k)
      BY <2>1, <2>5 DEF Ended, Wants, ReadsFiles
    <2>7. Queue!GoesOn(c) /\ Fewer(page', kit') /\ Answers(c, kit') /\ Ended(c, page', kit')
      BY <1>1, <2>1, <2>4, <2>5, <2>6
    <2> QED BY <2>7, QueueAwaitOver
  <1>3. ASSUME NEW status \in {"done", "error"}, Queue!SyncAnswered(c, status)
        PROVE  StuckQueueInv'
    <2>1. PICK d, x : /\ d = [c EXCEPT !.todo = Tail(c.todo), !.failed = x] /\ Queue!Becomes(c, d)
                      /\ page' = page /\ kit' = [kit EXCEPT !.sync = status]
      BY <1>3 DEF Queue!SyncAnswered
    <2>2. d.op = c.op /\ d.jobs = c.jobs /\ d.todo = Tail(c.todo) /\ DOMAIN d = DOMAIN c
      BY <1>0, <2>1
    <2>3. ~Queue!Last(c)
      BY <1>3, KitStage DEF Queue!SyncAnswered
    <2>4. QueueCall(d)
      BY <1>0, <2>2, <2>3, AwaitsTail DEF QueueCall, Queue!Last
    <2>5. /\ DOMAIN k = DOMAIN kit /\ k.run = kit.run /\ k.status = kit.status
          /\ k.stage = kit.stage /\ k.sync = status /\ k.queue = kit.queue
      BY <1>0, <1>1, <2>1
    <2>6. Fewer(page, k)
      BY <1>0, <2>5 DEF Fewer, PageShape, KitShape, Wants
    <2>7. Answers(c, k)
      BY <1>3, <2>5 DEF Answers, AtFirst, Queue!SyncAnswered
    <2>8. calls' = (calls \ {c}) \cup {d}
      BY <2>1 DEF Queue!Becomes
    <2> QED BY <1>1, <2>1, <2>2, <2>4, <2>6, <2>7, <2>8, QueueCallGoesOn
  <1> QED BY <1>2, <1>3

-----------------------------------------------------------------------------
(* Every step of the queue page and of the kit.                            *)

LEMMA QueueNeverStuckInit ==
    ASSUME Queue!KitInit
    PROVE  StuckQueueInv
  <1>1. PICK s, h : page = Queue!PageAt(s, h) /\ calls = IF h THEN {Queue!Load} ELSE {}
    BY DEF Queue!KitInit, Queue!Init
  <1>2. PageShape(page) /\ page.status = "idle" /\ page.flow = "idle"
        /\ \A j \in Jobs : ~Files(page, j)
    BY <1>1 DEF Queue!PageAt, PageShape, Files
  <1>3. /\ KitShape(kit) /\ kit.status = "idle" /\ kit.stage = "idle" /\ kit.sync = "idle"
        /\ kit.queue = "idle" /\ kit.run = "idle"
    BY DEF Queue!KitInit, KitShape
  <1>4. \A c \in calls : QueueCall(c)
    BY <1>1, LoadIsCall
  <1> QED BY <1>2, <1>3, <1>4 DEF StuckQueueInv, QueueShape, QueueWaits, Wants

LEMMA QueueNeverStuckStep ==
    ASSUME StuckQueueInv, [Queue!KitNext]_(Queue!kitVars)
    PROVE  StuckQueueInv'
  <1>1. CASE Queue!KitOperator
    BY <1>1, KitOperatorWaits
  <1>2. CASE Queue!Operator /\ UNCHANGED <<kit, late>>
    BY <1>2, QueuePageOperator
  <1>3. CASE Queue!Server /\ UNCHANGED <<kit, late>>
    <2>1. calls' = calls /\ page' = page /\ kit' = kit
      BY <1>3 DEF Queue!Server, Queue!BackgroundTakes, Queue!WorkerSwitched, Queue!RunEnds,
                  Queue!Outside
    <2> QED BY <2>1 DEF StuckQueueInv
  <1>4. ASSUME NEW c \in calls, Queue!Reads(c), UNCHANGED <<kit, late>>
        PROVE  StuckQueueInv'
    BY <1>4, QueueReads
  <1>5. ASSUME NEW c \in calls, c.op \in Queue!QueueOps, Queue!Answers(c), UNCHANGED <<kit, late>>
        PROVE  StuckQueueInv'
    BY <1>5, QueuePageAnswers
  <1>6. ASSUME NEW c \in calls, c.op \in Queue!KitOps, Queue!KitAnswers(c)
        PROVE  StuckQueueInv'
    BY <1>6, KitFollows, KitEnds, KitArrives, KitGoesOn DEF Queue!KitAnswers
  <1>7. CASE UNCHANGED Queue!kitVars
    <2>1. calls' = calls /\ page' = page /\ kit' = kit
      BY <1>7 DEF Queue!kitVars, Queue!vars
    <2> QED BY <2>1 DEF StuckQueueInv
  <1> QED BY <1>1, <1>2, <1>3, <1>4, <1>5, <1>6, <1>7 DEF Queue!KitNext

LEMMA QueueNeverStuckOK ==
    ASSUME StuckQueueInv
    PROVE  Queue!NeverStuck
  <1>1. \A j \in Jobs : Queue!QueueDetailShows(j) = "loading" => Files(page, j)
    BY DEF Queue!QueueDetailShows, Files
  <1>2. \A j \in Jobs : Queue!QueueDetailShows(j) = "loading"
                           => \E c \in calls : c.op = "files" /\ j \in c.jobs
    BY <1>1 DEF StuckQueueInv, QueueWaits, ReadsFiles
  <1>3. \A F : Wants(page, kit, F) => Queue!Busy(F)
    BY DEF StuckQueueInv, QueueWaits, Queue!Busy
  <1>4. /\ page.status = "loading" => Queue!Busy({"refresh", "open", "openq"})
        /\ page.status = "bulk" => Queue!Busy({"bulk", "row", "prepare"})
        /\ page.status = "worker" => Queue!Busy({"run", "runkit"})
        /\ page.flow = "bulk" => Queue!Busy({"rescan", "prepare"})
        /\ page.flow = "downloading" => Queue!Busy({"run", "runkit"})
        /\ page.flow = "syncing" => Queue!Busy({"sync"})
    BY <1>3 DEF Wants
  <1>5. /\ kit.status = "previewing" => Queue!Busy({"preview"})
        /\ kit.queue = "preparing" => Queue!Busy({"prepare", "runkit"})
        /\ kit.run = "running" => Queue!Busy({"runkit"})
    BY <1>3 DEF Wants
  <1>6. /\ kit.stage = "staging" => Queue!Busy({"stage"})
        /\ kit.sync = "syncing" => Queue!Busy({"sync"})
    BY DEF StuckQueueInv, QueueWaits, AtFirst, Queue!Busy
  <1> QED BY <1>2, <1>4, <1>5, <1>6 DEF Queue!NeverStuck

-----------------------------------------------------------------------------
(* The history drawers.                                                    *)

HistoryOps == {"load", "prune", "run", "restart"}
PruneLogs == History!Ticks \cup {"events"}
EventLogs == {"events", "restarts"}

LogsOf(op) ==
    CASE op = "prune" -> PruneLogs
      [] op = "run" -> {"metadata"}
      [] op = "restart" -> {"restarts"}
      [] OTHER -> History!Logs

\* What a handler of the operation does, and after what.
StepsOf(op) ==
    CASE op = "load" -> {"read", "answer"}
      [] op = "prune" -> {"prune", "query", "read", "answer", "timer"}
      [] op = "run" -> {"act", "read", "answer", "channel"}
      [] OTHER -> {"act", "settings", "query", "read", "answer"}

LastOf(op) ==
    CASE op = "prune" -> "timer"
      [] op = "run" -> "channel"
      [] OTHER -> "answer"

After(op, s) ==
    CASE s = "prune" -> "query"
      [] s = "act" -> IF op = "run" THEN "read" ELSE "settings"
      [] s = "settings" -> "query"
      [] s = "query" -> "read"
      [] s = "read" -> "answer"
      [] OTHER -> IF op = "prune" THEN "timer" ELSE "channel"

PathOf(op, t) ==
    /\ t \in Seq(StepsOf(op)) /\ t # <<>>
    /\ t[Len(t)] = LastOf(op)
    /\ \A i \in 1..Len(t) - 1 : t[i] # LastOf(op) /\ t[i + 1] = After(op, t[i])

HistoryCall(c) ==
    /\ {"op", "log", "todo"} \subseteq DOMAIN c
    /\ c.op \in HistoryOps /\ c.log \in LogsOf(c.op) /\ PathOf(c.op, c.todo)

HistoryPage(p) ==
    /\ {"pruning", "loading", "restart", "run"} \subseteq DOMAIN p
    /\ DOMAIN p.pruning = PruneLogs /\ DOMAIN p.loading = EventLogs

Prunes(c, l) == c.op = "prune" /\ c.log = l /\ History!Stage(c) # "timer"
ReadsNow(c, l) == c.log = l /\ History!Stage(c) \in {"read", "answer"}

\* The events load while their rows are read, and no earlier: a handler that reads them
\* after its own request may fail before it asks for them.
HistoryWaits(p, C) ==
    /\ \A l \in PruneLogs : p.pruning[l] = "pruning" => \E c \in C : Prunes(c, l)
    /\ \A l \in EventLogs : p.loading[l] = "loading" => \E c \in C : ReadsNow(c, l)
    /\ p.restart = "requesting" => \E c \in C : c.op = "restart"
    /\ p.run = "running" => \E c \in C : c.op = "run"

HistoryShape(p, C) == HistoryPage(p) /\ \A c \in C : HistoryCall(c)

StuckHistoryInv == HistoryShape(page, calls) /\ HistoryWaits(page, calls)

\* What the page waits for, it waited for in vain from none of the calls that go, or
\* waits for from one that comes.
Covered(p, G, D) ==
    /\ \A l \in PruneLogs : p.pruning[l] = "pruning" =>
          \/ page.pruning[l] = "pruning" /\ \A c \in G : ~Prunes(c, l)
          \/ \E d \in D : Prunes(d, l)
    /\ \A l \in EventLogs : p.loading[l] = "loading" =>
          \/ page.loading[l] = "loading" /\ \A c \in G : ~ReadsNow(c, l)
          \/ \E d \in D : ReadsNow(d, l)
    /\ p.restart = "requesting" =>
          \/ page.restart = "requesting" /\ \A c \in G : c.op # "restart"
          \/ \E d \in D : d.op = "restart"
    /\ p.run = "running" =>
          \/ page.run = "running" /\ \A c \in G : c.op # "run"
          \/ \E d \in D : d.op = "run"

LEMMA HistoryCallsChange ==
    ASSUME StuckHistoryInv, NEW G, NEW D, calls' = (calls \ G) \cup D, \A d \in D : HistoryCall(d),
           HistoryPage(page'), Covered(page', G, D)
    PROVE  StuckHistoryInv'
  <1>1. PICK p, C : p = page' /\ C = calls'
    OBVIOUS
  <1>2. HistoryShape(p, C)
    BY <1>1 DEF StuckHistoryInv, HistoryShape
  <1>3. \A l \in PruneLogs : p.pruning[l] = "pruning" => \E c \in C : Prunes(c, l)
    BY <1>1 DEF StuckHistoryInv, HistoryWaits, Covered
  <1>4. \A l \in EventLogs : p.loading[l] = "loading" => \E c \in C : ReadsNow(c, l)
    BY <1>1 DEF StuckHistoryInv, HistoryWaits, Covered
  <1>5. /\ p.restart = "requesting" => \E c \in C : c.op = "restart"
        /\ p.run = "running" => \E c \in C : c.op = "run"
    BY <1>1 DEF StuckHistoryInv, HistoryWaits, Covered
  <1>6. HistoryWaits(p, C)
    BY <1>3, <1>4, <1>5 DEF HistoryWaits
  <1> QED BY <1>1, <1>2, <1>6 DEF StuckHistoryInv

\* What a call does next.
LEMMA PathHead ==
    ASSUME NEW op, NEW t, PathOf(op, t)
    PROVE  Head(t) \in StepsOf(op) /\ (Len(t) = 1 <=> Head(t) = LastOf(op))
  <1>1. Len(t) \in Nat /\ Len(t) # 0
    BY EmptySeq DEF PathOf
  <1>2. Head(t) = t[1] /\ 1 \in 1..Len(t)
    BY <1>1 DEF PathOf
  <1>3. t[1] \in StepsOf(op)
    BY <1>2 DEF PathOf
  <1>4. CASE Len(t) = 1
    BY <1>2, <1>3, <1>4 DEF PathOf
  <1>5. CASE Len(t) # 1
    <2>1. \A n \in Nat : n # 0 /\ n # 1 => 1 \in 1..n - 1
      OBVIOUS
    <2>2. 1 \in 1..Len(t) - 1
      BY <1>1, <1>5, <2>1
    <2> QED BY <1>2, <1>3, <1>5, <2>2 DEF PathOf
  <1> QED BY <1>4, <1>5

LEMMA PathTail ==
    ASSUME NEW op, NEW t, PathOf(op, t), Len(t) # 1
    PROVE  PathOf(op, Tail(t)) /\ Head(Tail(t)) = After(op, Head(t))
  <1>1. Len(t) \in Nat /\ Len(t) >= 2
    <2>1. Len(t) \in Nat /\ Len(t) # 0
      BY EmptySeq DEF PathOf
    <2>2. \A n \in Nat : n # 0 /\ n # 1 => n >= 2
      OBVIOUS
    <2> QED BY <2>1, <2>2
  <1>2. Tail(t) \in Seq(StepsOf(op)) /\ Len(Tail(t)) = Len(t) - 1
    BY <1>1, HeadTailProperties DEF PathOf
  <1>3. \A i \in 1..Len(t) - 1 : Tail(t)[i] = t[i + 1]
    BY <1>1 DEF PathOf
  <1>4. Len(t) - 1 \in 1..Len(t) - 1 /\ Len(t) - 1 # 0
    BY <1>1
  <1>5. Tail(t) # <<>> /\ Tail(t)[Len(t) - 1] = LastOf(op)
    <2>1. Tail(t) # <<>>
      BY <1>2, <1>4, EmptySeq
    <2>2. Tail(t)[Len(t) - 1] = t[Len(t)]
      BY <1>1, <1>3, <1>4
    <2> QED BY <2>1, <2>2 DEF PathOf
  <1>6. \A i \in 1..Len(Tail(t)) - 1 : /\ Tail(t)[i] # LastOf(op)
                                      /\ Tail(t)[i + 1] = After(op, Tail(t)[i])
    <2>1. TAKE i \in 1..Len(Tail(t)) - 1
    <2>2. i \in 1..Len(t) - 1 /\ i + 1 \in 1..Len(t) - 1
      BY <1>1, <1>2
    <2>3. Tail(t)[i] = t[i + 1] /\ Tail(t)[i + 1] = t[(i + 1) + 1]
      BY <1>3, <2>2
    <2>4. t[i + 1] # LastOf(op) /\ t[(i + 1) + 1] = After(op, t[i + 1])
      BY <2>2 DEF PathOf
    <2> QED BY <2>3, <2>4
  <1>7. Head(Tail(t)) = t[2] /\ Head(t) = t[1]
    BY <1>1, <1>2, <1>3, <1>5 DEF PathOf
  <1>8. t[2] = After(op, t[1])
    <2>1. 1 \in 1..Len(t) - 1 /\ 1 + 1 = 2
      BY <1>1
    <2> QED BY <2>1 DEF PathOf
  <1> QED BY <1>2, <1>5, <1>6, <1>7, <1>8 DEF PathOf

LEMMA PathOfFive ==
    ASSUME NEW op, NEW a, NEW b, NEW c, NEW d, NEW e, StepsOf(op) = {a, b, c, d, e}, LastOf(op) = e,
           e \notin {a, b, c, d}, After(op, a) = b, After(op, b) = c, After(op, c) = d, After(op, d) = e
    PROVE  PathOf(op, <<a, b, c, d, e>>)
  <1>1. PICK t : t = <<a, b, c, d, e>>
    OBVIOUS
  <1>2. t \in Seq(StepsOf(op)) /\ t # <<>> /\ Len(t) = 5
    BY <1>1
  <1>3. t[1] = a /\ t[2] = b /\ t[3] = c /\ t[4] = d /\ t[5] = e
    BY <1>1
  <1>4. \A i \in 1..4 : i = 1 \/ i = 2 \/ i = 3 \/ i = 4
    OBVIOUS
  <1>5. \A i \in 1..4 : t[i] # LastOf(op) /\ t[i + 1] = After(op, t[i])
    BY <1>3, <1>4
  <1>6. Len(t) - 1 = 4
    BY <1>2
  <1> QED BY <1>1, <1>2, <1>3, <1>5, <1>6 DEF PathOf

LEMMA PathOfFour ==
    ASSUME NEW op, NEW a, NEW b, NEW c, NEW d, StepsOf(op) = {a, b, c, d}, LastOf(op) = d,
           d \notin {a, b, c}, After(op, a) = b, After(op, b) = c, After(op, c) = d
    PROVE  PathOf(op, <<a, b, c, d>>)
  <1>1. PICK t : t = <<a, b, c, d>>
    OBVIOUS
  <1>2. t \in Seq(StepsOf(op)) /\ t # <<>> /\ Len(t) = 4
    BY <1>1
  <1>3. t[1] = a /\ t[2] = b /\ t[3] = c /\ t[4] = d
    BY <1>1
  <1>4. \A i \in 1..3 : i = 1 \/ i = 2 \/ i = 3
    OBVIOUS
  <1>5. \A i \in 1..3 : t[i] # LastOf(op) /\ t[i + 1] = After(op, t[i])
    BY <1>3, <1>4
  <1>6. Len(t) - 1 = 3
    BY <1>2
  <1> QED BY <1>1, <1>2, <1>3, <1>5, <1>6 DEF PathOf

LEMMA PathsOfAwaits ==
    ASSUME NEW op \in HistoryOps
    PROVE  /\ PathOf(op, History!Awaits(op))
           /\ op = "load" => Head(History!Awaits(op)) = "read"
           /\ op = "prune" => Head(History!Awaits(op)) = "prune"
  <1>1. CASE op = "load"
    <2>1. History!Awaits(op) = <<"read", "answer">> /\ StepsOf(op) = {"read", "answer"}
          /\ LastOf(op) = "answer" /\ After(op, "read") = "answer"
      BY <1>1 DEF History!Awaits, StepsOf, LastOf, After
    <2>2. PathOf(op, <<"read", "answer">>)
      <3>1. PICK t : t = <<"read", "answer">>
        OBVIOUS
      <3>2. t \in Seq({"read", "answer"}) /\ t # <<>> /\ Len(t) = 2 /\ t[1] = "read" /\ t[2] = "answer"
        BY <3>1
      <3>3. \A i \in 1..1 : t[i] # "answer" /\ t[i + 1] = After(op, t[i])
        BY <2>1, <3>2
      <3> QED BY <2>1, <3>1, <3>2, <3>3 DEF PathOf
    <2> QED BY <1>1, <2>1, <2>2
  <1>2. CASE op = "prune"
    <2>1. /\ History!Awaits(op) = <<"prune", "query", "read", "answer", "timer">>
          /\ StepsOf(op) = {"prune", "query", "read", "answer", "timer"} /\ LastOf(op) = "timer"
          /\ After(op, "prune") = "query" /\ After(op, "query") = "read"
          /\ After(op, "read") = "answer" /\ After(op, "answer") = "timer"
      BY <1>2 DEF History!Awaits, StepsOf, LastOf, After
    <2> QED BY <1>2, <2>1, PathOfFive
  <1>3. CASE op = "run"
    <2>1. /\ History!Awaits(op) = <<"act", "read", "answer", "channel">>
          /\ StepsOf(op) = {"act", "read", "answer", "channel"} /\ LastOf(op) = "channel"
          /\ After(op, "act") = "read" /\ After(op, "read") = "answer"
          /\ After(op, "answer") = "channel"
      BY <1>3 DEF History!Awaits, StepsOf, LastOf, After
    <2> QED BY <1>3, <2>1, PathOfFour
  <1>4. CASE op = "restart"
    <2>1. /\ History!Awaits(op) = <<"act", "settings", "query", "read", "answer">>
          /\ StepsOf(op) = {"act", "settings", "query", "read", "answer"} /\ LastOf(op) = "answer"
          /\ After(op, "act") = "settings" /\ After(op, "settings") = "query"
          /\ After(op, "query") = "read" /\ After(op, "read") = "answer"
      BY <1>4 DEF History!Awaits, StepsOf, LastOf, After
    <2> QED BY <1>4, <2>1, PathOfFive
  <1> QED BY <1>1, <1>2, <1>3, <1>4 DEF HistoryOps

LEMMA OnlyTimer == PathOf("prune", <<"timer">>)
  BY DEF PathOf, StepsOf, LastOf

-----------------------------------------------------------------------------
(* The operator, the server and the page's other reads.                    *)

\* What waits is as it was.
SameWaits(p) ==
    /\ DOMAIN p = DOMAIN page
    /\ p.pruning = page.pruning /\ p.loading = page.loading
    /\ p.restart = page.restart /\ p.run = page.run

LEMMA HistoryBegins ==
    ASSUME StuckHistoryInv, NEW op \in HistoryOps, NEW l \in LogsOf(op), NEW F, NEW p,
           History!Begin(op, l, F, p), HistoryPage(p),
           \A x \in PruneLogs : p.pruning[x] = "pruning" =>
               page.pruning[x] = "pruning" \/ (op = "prune" /\ x = l),
           \A x \in EventLogs : p.loading[x] = "loading" =>
               page.loading[x] = "loading" \/ (op = "load" /\ x = l),
           p.restart = "requesting" => page.restart = "requesting" \/ op = "restart",
           p.run = "running" => page.run = "running" \/ op = "run"
    PROVE  StuckHistoryInv'
  <1>1. PICK d : /\ calls' = calls \cup {d} /\ page' = p
                 /\ {"op", "log", "todo"} \subseteq DOMAIN d /\ d.op = op /\ d.log = l
                 /\ d.todo = History!Awaits(op)
    <2>1. PICK d, slot : /\ calls' = calls \cup {d} /\ page' = p
                         /\ d = [slot |-> slot, op |-> op, log |-> l, filter |-> F, keep |-> p.keep,
                                 todo |-> History!Awaits(op), got |-> {}, failed |-> FALSE]
      BY DEF History!Begin
    <2>2. {"op", "log", "todo"} \subseteq DOMAIN d /\ d.op = op /\ d.log = l
          /\ d.todo = History!Awaits(op)
      BY <2>1
    <2> QED BY <2>1, <2>2
  <1>2. HistoryCall(d)
    BY <1>1, PathsOfAwaits DEF HistoryCall
  <1>3. /\ op = "prune" => Prunes(d, l)
        /\ op = "load" => ReadsNow(d, l)
    BY <1>1, PathsOfAwaits DEF Prunes, ReadsNow, History!Stage
  <1>4. Covered(p, {}, {d})
    BY <1>1, <1>3 DEF Covered
  <1>5. calls' = (calls \ {}) \cup {d} /\ HistoryPage(page') /\ Covered(page', {}, {d})
    BY <1>1, <1>4
  <1> QED BY <1>2, <1>5, HistoryCallsChange

LEMMA HistoryStays ==
    ASSUME StuckHistoryInv, SameWaits(page'), calls' = calls
    PROVE  StuckHistoryInv'
  <1>1. PICK p : p = page'
    OBVIOUS
  <1>2. Covered(p, {}, {}) /\ HistoryPage(p)
    BY <1>1 DEF SameWaits, Covered, StuckHistoryInv, HistoryShape, HistoryPage
  <1>3. calls' = (calls \ {}) \cup {}
    OBVIOUS
  <1> QED BY <1>1, <1>2, <1>3, HistoryCallsChange

\* Rows are asked for.
LEMMA LoadBegins ==
    ASSUME StuckHistoryInv, NEW l \in History!Logs, NEW F, NEW p, History!Begin("load", l, F, p),
           HistoryPage(p), p.pruning = page.pruning,
           \A x \in EventLogs : p.loading[x] = "loading" => page.loading[x] = "loading" \/ x = l,
           p.restart = "requesting" => page.restart = "requesting", p.run = page.run
    PROVE  StuckHistoryInv'
  <1>1. PICK op : op = "load"
    OBVIOUS
  <1>2. op \in HistoryOps /\ l \in LogsOf(op) /\ History!Begin(op, l, F, p)
    BY <1>1 DEF HistoryOps, LogsOf
  <1>3. /\ \A x \in PruneLogs : p.pruning[x] = "pruning" =>
               page.pruning[x] = "pruning" \/ (op = "prune" /\ x = l)
        /\ \A x \in EventLogs : p.loading[x] = "loading" =>
               page.loading[x] = "loading" \/ (op = "load" /\ x = l)
        /\ p.restart = "requesting" => page.restart = "requesting" \/ op = "restart"
        /\ p.run = "running" => page.run = "running" \/ op = "run"
    BY <1>1
  <1> QED BY <1>2, <1>3, HistoryBegins

\* Rows are read into a drawer that does not say that it loads.
LEMMA DrawerReads ==
    ASSUME StuckHistoryInv, NEW l \in History!Logs, NEW F, NEW p, History!Begin("load", l, F, p),
           SameWaits(p)
    PROVE  StuckHistoryInv'
  <1>1. HistoryPage(p)
    BY DEF SameWaits, StuckHistoryInv, HistoryShape, HistoryPage
  <1>2. /\ p.pruning = page.pruning /\ p.loading = page.loading
        /\ p.restart = page.restart /\ p.run = page.run
    BY DEF SameWaits
  <1> QED BY <1>1, <1>2, LoadBegins

\* Events are read, and say so.
LEMMA EventsRead ==
    ASSUME StuckHistoryInv, NEW l \in EventLogs, NEW F, NEW p, History!Begin("load", l, F, p), NEW q,
           p = History!Scoped(q, l, F), DOMAIN q = DOMAIN page, q.pruning = page.pruning,
           q.loading = page.loading, q.restart \in {page.restart, "idle"}, q.run = page.run
    PROVE  StuckHistoryInv'
  <1>0. /\ {"pruning", "loading", "restart", "run"} \subseteq DOMAIN q
        /\ DOMAIN page.pruning = PruneLogs /\ DOMAIN page.loading = EventLogs
    BY DEF StuckHistoryInv, HistoryShape, HistoryPage
  <1>1. /\ DOMAIN p = DOMAIN q /\ p.pruning = q.pruning /\ p.restart = q.restart /\ p.run = q.run
        /\ p.loading = [q.loading EXCEPT ![l] = "loading"]
    BY <1>0 DEF History!Scoped
  <1>2. HistoryPage(p)
    BY <1>0, <1>1 DEF HistoryPage
  <1>3. l \in History!Logs
    BY DEF EventLogs, History!Logs, History!Drawers
  <1>4. \A x \in EventLogs : p.loading[x] = "loading" => page.loading[x] = "loading" \/ x = l
    BY <1>0, <1>1
  <1>5. p.pruning = page.pruning /\ p.run = page.run
        /\ (p.restart = "requesting" => page.restart = "requesting")
    BY <1>1
  <1> QED BY <1>2, <1>3, <1>4, <1>5, LoadBegins

Reading(l) == \E F, p : History!Begin("load", l, F, p) /\ SameWaits(p)

LEMMA DrawerOperator ==
    ASSUME StuckHistoryInv, History!Operator
    PROVE  \/ \E l \in History!Logs : Reading(l)
           \/ \E F : History!LoadEventLog(F) \/ History!OpenEventLog(F)
           \/ History!LoadRuntimeRestartEvents \/ History!HandleOpenRuntimeGuide
           \/ \E l \in History!Ticks : History!HandlePruneTickRows(l)
           \/ History!HandlePruneEventLog \/ History!HandleRequestRuntimeRestart
           \/ History!HandleRunMetadataSchedulerOnce
           \/ SameWaits(page') /\ calls' = calls
  <1>0. /\ {"pruning", "loading", "restart", "run"} \subseteq DOMAIN page
        /\ {"worker", "scheduler", "metadata"} \subseteq History!Logs
    BY DEF StuckHistoryInv, HistoryShape, HistoryPage, History!Logs, History!Drawers, History!Ticks
  <1>1. ASSUME NEW d, History!OpenDrawer(d)
        PROVE  Reading(d)
    <2>1. PICK p, x : /\ p = [page EXCEPT !.open[d] = TRUE, !.rows[d] = x]
                      /\ History!Begin("load", d, page.filter[d], p)
      BY <1>1 DEF History!OpenDrawer
    <2>2. SameWaits(p)
      BY <1>0, <2>1 DEF SameWaits
    <2> QED BY <2>1, <2>2 DEF Reading
  <1>2. ASSUME NEW d, NEW F, History!ChooseFilter(d, F)
        PROVE  Reading(d)
    <2>1. PICK p : p = [page EXCEPT !.filter[d] = F] /\ History!Begin("load", d, F, p)
      BY <1>2 DEF History!ChooseFilter
    <2>2. SameWaits(p)
      BY <1>0, <2>1 DEF SameWaits
    <2> QED BY <2>1, <2>2 DEF Reading
  <1>3. CASE History!HandleOpenWorkerHistory \/ History!HandleOpenSchedulerTicks
             \/ History!HandleOpenMetadataTicks
    BY <1>0, <1>1, <1>3 DEF History!HandleOpenWorkerHistory, History!HandleOpenSchedulerTicks,
                            History!HandleOpenMetadataTicks
  <1>4. CASE \/ \E F \in SUBSET Tags : \/ History!HandleWorkerHistoryFilter(F)
                                       \/ History!HandleSchedulerTickStatus(F)
                                       \/ History!HandleMetadataTickStatus(F)
             \/ \E tag \in Tags : \/ History!HandleSchedulerDurationFilter(tag)
                                  \/ History!HandleMetadataDurationFilter(tag)
             \/ History!HandleResetSchedulerTickFilters \/ History!HandleResetMetadataTickFilters
    BY <1>0, <1>2, <1>4
       DEF History!HandleWorkerHistoryFilter, History!HandleSchedulerTickStatus,
           History!HandleMetadataTickStatus, History!HandleSchedulerDurationFilter,
           History!HandleMetadataDurationFilter, History!HandleResetSchedulerTickFilters,
           History!HandleResetMetadataTickFilters
  <1>5. CASE \/ History!HandleOpenEventLog \/ History!HandleOpenRuntimeRestartEventLog
             \/ History!HandleOpenRuntimeRestartMissionLog \/ History!HandleOpenQueueJobEventLog
             \/ History!HandleRefreshEventLog \/ History!ClearScope
    BY <1>5 DEF History!HandleOpenEventLog, History!HandleOpenRuntimeRestartEventLog,
                History!HandleOpenRuntimeRestartMissionLog, History!HandleOpenQueueJobEventLog,
                History!HandleRefreshEventLog, History!ClearScope
  <1>6. CASE \E keep \in History!Keeps : History!EditKeep(keep)
    <2>1. PICK keep : page' = [page EXCEPT !.keep = keep] /\ calls' = calls
      BY <1>6 DEF History!EditKeep
    <2> QED BY <1>0, <2>1 DEF SameWaits
  <1>7. CASE \E d \in History!Drawers \cup {"guide"} : History!CloseDrawer(d)
    <2>1. PICK d : page' = [page EXCEPT !.open[d] = FALSE] /\ calls' = calls
      BY <1>7 DEF History!CloseDrawer, History!Shows
    <2> QED BY <1>0, <2>1 DEF SameWaits
  <1>8. CASE (\E r \in History!Row("events") : History!OpenEventDetail(r)) \/ History!CloseEventDetail
    <2>1. PICK x : page' = [page EXCEPT !.detail = x] /\ calls' = calls
      BY <1>8 DEF History!OpenEventDetail, History!CloseEventDetail, History!Shows
    <2> QED BY <1>0, <2>1 DEF SameWaits
  <1>9. CASE History!HandleOpenEventDetailTarget
    <2>1. page' = [page EXCEPT !.open["events"] = FALSE, !.detail = {}] /\ calls' = calls
      BY <1>9 DEF History!HandleOpenEventDetailTarget, History!Shows
    <2> QED BY <1>0, <2>1 DEF SameWaits
  <1> QED BY <1>3, <1>4, <1>5, <1>6, <1>7, <1>8, <1>9 DEF History!Operator

LEMMA HistoryOperatorWaits ==
    ASSUME StuckHistoryInv, History!Operator
    PROVE  StuckHistoryInv'
  <1>0. /\ {"pruning", "loading", "restart", "run"} \subseteq DOMAIN page
        /\ DOMAIN page.pruning = PruneLogs /\ DOMAIN page.loading = EventLogs
        /\ "events" \in EventLogs /\ "restarts" \in EventLogs
    BY DEF StuckHistoryInv, HistoryShape, HistoryPage, EventLogs
  <1>1. ASSUME NEW l \in History!Logs, Reading(l)
        PROVE  StuckHistoryInv'
    BY <1>1, DrawerReads DEF Reading
  <1>2. ASSUME NEW F, History!LoadEventLog(F) \/ History!OpenEventLog(F)
        PROVE  StuckHistoryInv'
    <2>1. PICK q : /\ q = page \/ q = [page EXCEPT !.open["events"] = TRUE, !.detail = {}]
                   /\ History!Begin("load", "events", F, History!Scoped(q, "events", F))
      BY <1>2 DEF History!LoadEventLog, History!OpenEventLog
    <2>2. /\ DOMAIN q = DOMAIN page /\ q.pruning = page.pruning /\ q.loading = page.loading
          /\ q.restart = page.restart /\ q.run = page.run
      BY <1>0, <2>1
    <2>3. PICK p : p = History!Scoped(q, "events", F) /\ History!Begin("load", "events", F, p)
      BY <2>1
    <2> QED BY <1>0, <2>2, <2>3, EventsRead
  <1>3. CASE History!LoadRuntimeRestartEvents \/ History!HandleOpenRuntimeGuide
    <2>1. PICK q : /\ q = page \/ q = [page EXCEPT !.open["guide"] = TRUE, !.restart = "idle"]
                   /\ History!LoadRestarts(q)
      BY <1>3 DEF History!LoadRuntimeRestartEvents, History!HandleOpenRuntimeGuide
    <2>2. /\ DOMAIN q = DOMAIN page /\ q.pruning = page.pruning /\ q.loading = page.loading
          /\ q.restart \in {page.restart, "idle"} /\ q.run = page.run
      BY <1>0, <2>1
    <2>3. PICK p : /\ p = History!Scoped(q, "restarts", {Restart})
                   /\ History!Begin("load", "restarts", {Restart}, p)
      BY <2>1 DEF History!LoadRestarts
    <2> QED BY <1>0, <2>2, <2>3, EventsRead
  <1>4. CASE \/ \E l \in History!Ticks : History!HandlePruneTickRows(l)
             \/ History!HandlePruneEventLog
    <2>1. PICK l, F, p : /\ l \in PruneLogs /\ p = [page EXCEPT !.pruning[l] = "pruning"]
                         /\ History!Begin("prune", l, F, p)
      BY <1>4 DEF History!HandlePruneTickRows, History!HandlePruneEventLog, PruneLogs
    <2>2. /\ DOMAIN p = DOMAIN page /\ p.pruning = [page.pruning EXCEPT ![l] = "pruning"]
          /\ p.loading = page.loading /\ p.restart = page.restart /\ p.run = page.run
      BY <1>0, <2>1
    <2>3. HistoryPage(p)
      BY <1>0, <2>2 DEF HistoryPage
    <2>4. "prune" \in HistoryOps /\ l \in LogsOf("prune")
      BY <2>1 DEF HistoryOps, LogsOf
    <2>5. \A x \in PruneLogs : p.pruning[x] = "pruning" => page.pruning[x] = "pruning" \/ x = l
      BY <1>0, <2>2
    <2>6. History!Begin("prune", l, F, p)
      BY <2>1
    <2>7. /\ \A x \in EventLogs : p.loading[x] = "loading" => page.loading[x] = "loading"
          /\ p.restart = "requesting" => page.restart = "requesting"
          /\ p.run = "running" => page.run = "running"
      BY <2>2
    <2> QED BY <2>3, <2>4, <2>5, <2>6, <2>7, HistoryBegins
  <1>5. CASE History!HandleRequestRuntimeRestart
    <2>1. PICK p : /\ p = [page EXCEPT !.restart = "requesting"]
                   /\ History!Begin("restart", "restarts", {Restart}, p)
      BY <1>5 DEF History!HandleRequestRuntimeRestart
    <2>2. /\ DOMAIN p = DOMAIN page /\ p.pruning = page.pruning
          /\ p.loading = page.loading /\ p.run = page.run
      BY <1>0, <2>1
    <2>3. HistoryPage(p)
      BY <1>0, <2>2 DEF HistoryPage
    <2>4. "restart" \in HistoryOps /\ "restarts" \in LogsOf("restart")
      BY DEF HistoryOps, LogsOf
    <2> QED BY <2>1, <2>2, <2>3, <2>4, HistoryBegins
  <1>6. CASE History!HandleRunMetadataSchedulerOnce
    <2>1. PICK p, F : p = [page EXCEPT !.run = "running"] /\ History!Begin("run", "metadata", F, p)
      BY <1>6 DEF History!HandleRunMetadataSchedulerOnce
    <2>2. /\ DOMAIN p = DOMAIN page /\ p.pruning = page.pruning
          /\ p.loading = page.loading /\ p.restart = page.restart
      BY <1>0, <2>1
    <2>3. HistoryPage(p)
      BY <1>0, <2>2 DEF HistoryPage
    <2>4. "run" \in HistoryOps /\ "metadata" \in LogsOf("run")
      BY DEF HistoryOps, LogsOf
    <2> QED BY <2>1, <2>2, <2>3, <2>4, HistoryBegins
  <1>7. CASE SameWaits(page') /\ calls' = calls
    BY <1>7, HistoryStays
  <1> QED BY <1>1, <1>2, <1>3, <1>4, <1>5, <1>6, <1>7, DrawerOperator

LEMMA HistoryServerWaits ==
    ASSUME StuckHistoryInv, NEW d,
           History!SnapshotRead(d) \/ \E tags \in SUBSET History!TagsOf(d) : History!RowAdded(d, tags)
    PROVE  StuckHistoryInv'
  <1>0. {"pruning", "loading", "restart", "run"} \subseteq DOMAIN page
    BY DEF StuckHistoryInv, HistoryShape, HistoryPage
  <1>1. /\ calls' = calls
        /\ \/ page' = page
           \/ \E x : page' = [page EXCEPT !.known[d] = x]
           \/ \E x, y : page' = [page EXCEPT !.known[d] = x, !.rows["restarts"] = y]
    BY DEF History!SnapshotRead, History!RowAdded
  <1>2. SameWaits(page')
    BY <1>0, <1>1 DEF SameWaits
  <1> QED BY <1>1, <1>2, HistoryStays

-----------------------------------------------------------------------------
(* Answers.                                                                *)

LEMMA EventSource == \A l : History!Source(l) = "events" <=> l \in EventLogs
  BY DEF History!Source, EventLogs

\* What a call is, at the stage it has come to.
LEMMA HistoryStage ==
    ASSUME StuckHistoryInv, NEW c \in calls
    PROVE  /\ HistoryCall(c) /\ {"op", "log", "todo"} \subseteq DOMAIN c
           /\ c.op \in HistoryOps /\ c.log \in LogsOf(c.op)
           /\ History!Stage(c) \in StepsOf(c.op)
           /\ Len(c.todo) = 1 <=> History!Stage(c) = LastOf(c.op)
           /\ History!Stage(c) = "timer" => c.op = "prune"
           /\ c.op = "prune" => c.log \in PruneLogs
  <1>1. HistoryCall(c)
    BY DEF StuckHistoryInv, HistoryShape
  <1>2. History!Stage(c) \in StepsOf(c.op) /\ (Len(c.todo) = 1 <=> History!Stage(c) = LastOf(c.op))
    BY <1>1, PathHead DEF HistoryCall, History!Stage
  <1>3. History!Stage(c) = "timer" => c.op = "prune"
    BY <1>1, <1>2 DEF HistoryCall, HistoryOps, StepsOf
  <1> QED BY <1>1, <1>2, <1>3 DEF HistoryCall, LogsOf

\* An await is over: the call goes on to the next, or has ended.
LEMMA HistoryAwaitOver ==
    ASSUME StuckHistoryInv, NEW c \in calls, NEW d, DOMAIN d = DOMAIN c, d.op = c.op, d.log = c.log,
           d.todo = c.todo, History!GoesOn(c, d), HistoryPage(page'),
           \A l \in PruneLogs : page'.pruning[l] = "pruning" =>
               page.pruning[l] = "pruning" /\ (Prunes(c, l) => History!Stage(c) # "answer"),
           \A l \in EventLogs : page'.loading[l] = "loading" =>
               \/ page.loading[l] = "loading" /\ (ReadsNow(c, l) => History!Stage(c) = "read")
               \/ c.log = l /\ History!Stage(c) = "query",
           page'.restart = "requesting" =>
               page.restart = "requesting" /\ (c.op = "restart" => History!Stage(c) # "answer"),
           page'.run = "running" =>
               page.run = "running" /\ (c.op = "run" => History!Stage(c) # "channel")
    PROVE  StuckHistoryInv'
  <1>0. /\ HistoryCall(c) /\ {"op", "log", "todo"} \subseteq DOMAIN c /\ c.op \in HistoryOps
        /\ History!Stage(c) \in StepsOf(c.op)
        /\ Len(c.todo) = 1 <=> History!Stage(c) = LastOf(c.op)
    BY HistoryStage
  <1>1. PICK p, s : p = page' /\ s = History!Stage(c)
    OBVIOUS
  <1>2. CASE Len(c.todo) = 1
    <2>1. calls' = (calls \ {c}) \cup {}
      BY <1>2 DEF History!GoesOn
    <2>2. s = LastOf(c.op)
      BY <1>0, <1>1, <1>2
    <2>3. \A l : ~Prunes(c, l)  \/ s = "answer"
      BY <1>1, <2>2 DEF Prunes, LastOf
    <2>4. /\ c.op = "restart" => s = "answer"
          /\ c.op = "run" => s = "channel"
          /\ s \notin {"read", "query", "prune"}
          /\ c.op = "prune" => s = "timer"
      BY <1>0, <2>2 DEF LastOf, HistoryOps
    <2>5. Covered(p, {c}, {})
      BY <1>1, <2>4 DEF Covered, Prunes
    <2> QED BY <1>1, <2>1, <2>5, HistoryCallsChange
  <1>3. CASE Len(c.todo) # 1
    <2>1. PICK e : e = [d EXCEPT !.todo = Tail(d.todo)]
      OBVIOUS
    <2>2. calls' = (calls \ {c}) \cup {e}
      BY <1>3, <2>1 DEF History!GoesOn
    <2>3. /\ {"op", "log", "todo"} \subseteq DOMAIN e /\ e.op = c.op /\ e.log = c.log
          /\ e.todo = Tail(c.todo)
      BY <1>0, <2>1
    <2>4. PathOf(c.op, Tail(c.todo)) /\ History!Stage(e) = After(c.op, s)
      BY <1>0, <1>1, <1>3, <2>3, PathTail DEF HistoryCall, History!Stage
    <2>5. HistoryCall(e)
      BY <1>0, <2>3, <2>4 DEF HistoryCall
    <2>6. \A l : Prunes(c, l) /\ s # "answer" => Prunes(e, l)
      BY <1>0, <1>1, <2>3, <2>4 DEF Prunes, After, StepsOf
    <2>7. \A l : (ReadsNow(c, l) /\ s = "read") \/ (c.log = l /\ s = "query") => ReadsNow(e, l)
      BY <1>1, <2>3, <2>4 DEF ReadsNow, After
    <2>8. Covered(p, {c}, {e})
      BY <1>1, <2>3, <2>6, <2>7 DEF Covered
    <2> QED BY <1>1, <2>2, <2>5, <2>8, HistoryCallsChange
  <1> QED BY <1>2, <1>3

\* A request of a handler fails: a prune waits for its timer, anything else has ended.
LEMMA HistoryCallOver ==
    ASSUME StuckHistoryInv, NEW c \in calls, HistoryPage(page'), Covered(page', {c}, {}),
           calls' = (calls \ {c}) \cup IF c.op = "prune" THEN {[c EXCEPT !.todo = <<"timer">>]} ELSE {}
    PROVE  StuckHistoryInv'
  <1>0. HistoryCall(c) /\ {"op", "log", "todo"} \subseteq DOMAIN c
    BY HistoryStage
  <1>1. CASE c.op = "prune"
    <2>1. PICK d : d = [c EXCEPT !.todo = <<"timer">>]
      OBVIOUS
    <2>2. DOMAIN d = DOMAIN c /\ d.op = c.op /\ d.log = c.log /\ d.todo = <<"timer">>
      BY <1>0, <2>1
    <2>3. HistoryCall(d)
      BY <1>0, <1>1, <2>2, OnlyTimer DEF HistoryCall
    <2>4. calls' = (calls \ {c}) \cup {d}
      BY <1>1, <2>1
    <2>5. Covered(page', {c}, {d})
      <3>1. PICK p : p = page'
        OBVIOUS
      <3>2. Covered(p, {c}, {})
        BY <3>1
      <3> QED BY <3>1, <3>2 DEF Covered
    <2> QED BY <2>3, <2>4, <2>5, HistoryCallsChange
  <1>2. CASE c.op # "prune"
    <2>1. calls' = (calls \ {c}) \cup {}
      BY <1>2
    <2> QED BY <2>1, HistoryCallsChange
  <1> QED BY <1>1, <1>2

\* The handler's hook when it has had its last answer.
LEMMA HistoryEnded ==
    ASSUME StuckHistoryInv, NEW c \in calls, NEW p, HistoryPage(p), NEW q, q = History!Ended(c, p)
    PROVE  /\ DOMAIN q = DOMAIN p /\ HistoryPage(q) /\ q.loading = p.loading /\ q.run = p.run
           /\ q.restart = IF c.op = "restart" THEN "requested" ELSE p.restart
           /\ \A l \in PruneLogs : q.pruning[l] = IF c.op = "prune" /\ c.log = l THEN "pruned"
                                                  ELSE p.pruning[l]
  <1>0. {"pruning", "loading", "restart", "run"} \subseteq DOMAIN p
        /\ DOMAIN p.pruning = PruneLogs /\ DOMAIN p.loading = EventLogs
    BY DEF HistoryPage
  <1>1. c.op = "prune" => c.log \in PruneLogs
    BY HistoryStage
  <1>2. /\ DOMAIN q = DOMAIN p /\ q.loading = p.loading /\ q.run = p.run
        /\ q.restart = IF c.op = "restart" THEN "requested" ELSE p.restart
        /\ q.pruning = IF c.op = "prune" THEN [p.pruning EXCEPT ![c.log] = "pruned"] ELSE p.pruning
    BY <1>0 DEF History!Ended
  <1> QED BY <1>0, <1>1, <1>2 DEF HistoryPage

LEMMA HistoryGoesOn ==
    ASSUME StuckHistoryInv, NEW c \in calls,
           \/ History!PruneServed(c) \/ History!Acted(c) \/ History!Asks(c) \/ History!ReadServed(c)
    PROVE  StuckHistoryInv'
  <1>0. /\ {"op", "log", "todo"} \subseteq DOMAIN c
        /\ {"pruning", "loading", "restart", "run"} \subseteq DOMAIN page /\ HistoryPage(page)
        /\ DOMAIN page.pruning = PruneLogs /\ DOMAIN page.loading = EventLogs
    BY HistoryStage DEF StuckHistoryInv, HistoryShape, HistoryPage
  <1>1. CASE History!PruneServed(c) \/ History!Acted(c)
    <2>1. History!GoesOn(c, c) /\ page' = page /\ History!Stage(c) \in {"prune", "act"}
      BY <1>1 DEF History!PruneServed, History!Acted
    <2> QED BY <1>0, <2>1, HistoryAwaitOver DEF ReadsNow
  <1>2. CASE History!ReadServed(c)
    <2>1. PICK d, x : d = [c EXCEPT !.got = x] /\ History!GoesOn(c, d) /\ page' = page
                      /\ History!Stage(c) = "read"
      BY <1>2 DEF History!ReadServed
    <2>2. DOMAIN d = DOMAIN c /\ d.op = c.op /\ d.log = c.log /\ d.todo = c.todo
      BY <1>0, <2>1
    <2>3. History!GoesOn(c, d) /\ page' = page /\ History!Stage(c) = "read"
      BY <2>1
    <2> QED BY <1>0, <2>2, <2>3, HistoryAwaitOver
  <1>3. CASE History!Asks(c)
    <2>1. History!GoesOn(c, c) /\ History!Stage(c) \in {"query", "settings"}
      BY <1>3 DEF History!Asks
    <2>2. PICK p : p = page'
      OBVIOUS
    <2>3. /\ DOMAIN p = DOMAIN page /\ p.pruning = page.pruning /\ p.restart = page.restart
          /\ p.run = page.run
          /\ \/ p.loading = page.loading
             \/ /\ p.loading = [page.loading EXCEPT ![c.log] = "loading"]
                /\ History!Stage(c) = "query"
      BY <1>0, <1>3, <2>2 DEF History!Asks, History!Scoped
    <2>4. HistoryPage(p)
      BY <1>0, <2>3 DEF HistoryPage
    <2>5. \A l \in EventLogs : p.loading[l] = "loading" =>
              page.loading[l] = "loading" \/ (c.log = l /\ History!Stage(c) = "query")
      BY <1>0, <2>3
    <2>6. \A l : ~ReadsNow(c, l)
      BY <2>1 DEF ReadsNow
    <2>7. /\ History!Stage(c) # "answer" /\ History!Stage(c) # "channel"
          /\ p.pruning = page.pruning /\ p.restart = page.restart /\ p.run = page.run
      BY <2>1, <2>3
    <2> QED BY <2>1, <2>2, <2>4, <2>5, <2>6, <2>7, HistoryAwaitOver
  <1> QED BY <1>1, <1>2, <1>3

LEMMA HistoryAnswered ==
    ASSUME StuckHistoryInv, NEW c \in calls,
           History!RowsAnswered(c) \/ History!RunDone(c) \/ History!TimerFires(c)
    PROVE  StuckHistoryInv'
  <1>0. /\ {"op", "log", "todo"} \subseteq DOMAIN c
        /\ {"pruning", "loading", "restart", "run"} \subseteq DOMAIN page /\ HistoryPage(page)
        /\ DOMAIN page.pruning = PruneLogs /\ DOMAIN page.loading = EventLogs
    BY HistoryStage DEF StuckHistoryInv, HistoryShape, HistoryPage
  <1>1. PICK p : p = page'
    OBVIOUS
  <1>2. CASE History!RowsAnswered(c)
    <2>1. PICK a : a = [page EXCEPT !.rows[c.log] = c.got]
      OBVIOUS
    <2> DEFINE read == IF History!Source(c.log) = "events"
                       THEN [a EXCEPT !.loading[c.log] = "idle",
                                !.known["events"] = IF c.log = "events" /\ c.filter = {}
                                                    THEN c.got ELSE @]
                       ELSE a
    <2>0. page' = History!Ended(c, read)
      BY <1>2, <2>1 DEF History!RowsAnswered
    <2>10. PICK b : b = read
      OBVIOUS
    <2>11. p = History!Ended(c, b)
      BY <1>1, <2>0, <2>10
    <2> HIDE DEF read
    <2>2. DOMAIN a = DOMAIN page /\ a.pruning = page.pruning /\ a.loading = page.loading
          /\ a.restart = page.restart /\ a.run = page.run
      BY <1>0, <2>1
    <2>3. /\ DOMAIN b = DOMAIN page /\ b.pruning = page.pruning /\ b.restart = page.restart
          /\ b.run = page.run
          /\ b.loading = IF c.log \in EventLogs THEN [page.loading EXCEPT ![c.log] = "idle"]
                         ELSE page.loading
      BY <1>0, <2>10, <2>2, EventSource DEF read
    <2>4. HistoryPage(b)
      BY <1>0, <2>3 DEF HistoryPage
    <2>5. /\ HistoryPage(p) /\ p.loading = b.loading /\ p.run = b.run
          /\ p.restart = IF c.op = "restart" THEN "requested" ELSE b.restart
          /\ \A l \in PruneLogs : p.pruning[l] = IF c.op = "prune" /\ c.log = l THEN "pruned"
                                                 ELSE b.pruning[l]
      BY <2>11, <2>4, HistoryEnded
    <2>6. History!GoesOn(c, c) /\ History!Stage(c) = "answer"
      BY <1>2 DEF History!RowsAnswered
    <2>7. \A l \in PruneLogs : p.pruning[l] = "pruning" => page.pruning[l] = "pruning" /\ ~Prunes(c, l)
      BY <2>3, <2>5 DEF Prunes
    <2>8. \A l \in EventLogs : p.loading[l] = "loading" => page.loading[l] = "loading" /\ ~ReadsNow(c, l)
      BY <1>0, <2>3, <2>5 DEF ReadsNow
    <2>9. /\ p.restart = "requesting" => page.restart = "requesting" /\ c.op # "restart"
          /\ p.run = page.run /\ History!Stage(c) # "channel"
      BY <2>3, <2>5, <2>6
    <2> QED BY <1>1, <2>5, <2>6, <2>7, <2>8, <2>9, HistoryAwaitOver
  <1>3. CASE History!RunDone(c)
    <2>1. page' = [page EXCEPT !.run = "done"]
      BY <1>3 DEF History!RunDone
    <2>2. /\ DOMAIN p = DOMAIN page /\ p.run = "done"
          /\ p.pruning = page.pruning /\ p.loading = page.loading /\ p.restart = page.restart
      BY <1>0, <1>1, <2>1
    <2>3. HistoryPage(p)
      BY <1>0, <2>2 DEF HistoryPage
    <2>4. History!GoesOn(c, c) /\ History!Stage(c) = "channel" /\ \A l : ~ReadsNow(c, l)
      BY <1>3 DEF History!RunDone, ReadsNow
    <2> QED BY <1>1, <2>2, <2>3, <2>4, HistoryAwaitOver
  <1>4. CASE History!TimerFires(c)
    <2>1. page' = [page EXCEPT !.pruning[c.log] = "idle"] /\ c.log \in PruneLogs
      BY <1>4, HistoryStage DEF History!TimerFires
    <2>2. /\ DOMAIN p = DOMAIN page /\ p.run = page.run
          /\ p.pruning = [page.pruning EXCEPT ![c.log] = "idle"]
          /\ p.loading = page.loading /\ p.restart = page.restart
      BY <1>0, <1>1, <2>1
    <2>3. HistoryPage(p) /\ \A l \in PruneLogs : p.pruning[l] = "pruning" => page.pruning[l] = "pruning"
      BY <1>0, <2>2 DEF HistoryPage
    <2>4. History!GoesOn(c, c) /\ History!Stage(c) = "timer" /\ \A l : ~ReadsNow(c, l)
      BY <1>4 DEF History!TimerFires, ReadsNow
    <2>5. p.loading = page.loading /\ p.restart = page.restart /\ p.run = page.run
          /\ History!Stage(c) \notin {"answer", "channel"}
      BY <2>2, <2>4
    <2> QED BY <1>1, <2>3, <2>4, <2>5, HistoryAwaitOver
  <1> QED BY <1>2, <1>3, <1>4

LEMMA HistoryFails ==
    ASSUME StuckHistoryInv, NEW c \in calls, History!EventsFail(c) \/ History!Fails(c)
    PROVE  StuckHistoryInv'
  <1>0. /\ {"op", "log", "todo"} \subseteq DOMAIN c
        /\ {"pruning", "loading", "restart", "run"} \subseteq DOMAIN page /\ HistoryPage(page)
        /\ DOMAIN page.pruning = PruneLogs /\ DOMAIN page.loading = EventLogs
        /\ c.op = "prune" => c.log \in PruneLogs
    BY HistoryStage DEF StuckHistoryInv, HistoryShape, HistoryPage
  <1>1. calls' = (calls \ {c}) \cup IF c.op = "prune" THEN {[c EXCEPT !.todo = <<"timer">>]} ELSE {}
    BY DEF History!EventsFail, History!Fails
  <1>2. PICK p : p = page'
    OBVIOUS
  <1>3. CASE History!EventsFail(c)
    <2>1. PICK a : a = [page EXCEPT !.loading[c.log] = "error"] /\ page' = History!Ended(c, a)
      BY <1>3 DEF History!EventsFail
    <2>2. History!Stage(c) \in {"read", "answer"} /\ c.log \in EventLogs
      BY <1>3, EventSource DEF History!EventsFail
    <2>3. /\ DOMAIN a = DOMAIN page /\ a.pruning = page.pruning /\ a.restart = page.restart
          /\ a.run = page.run /\ a.loading = [page.loading EXCEPT ![c.log] = "error"]
      BY <1>0, <2>1
    <2>4. HistoryPage(a)
      BY <1>0, <2>3 DEF HistoryPage
    <2>8. p = History!Ended(c, a)
      BY <1>2, <2>1
    <2>5. /\ HistoryPage(p) /\ p.loading = a.loading /\ p.run = a.run
          /\ p.restart = IF c.op = "restart" THEN "requested" ELSE a.restart
          /\ \A l \in PruneLogs : p.pruning[l] = IF c.op = "prune" /\ c.log = l THEN "pruned"
                                                 ELSE a.pruning[l]
      BY <2>8, <2>4, HistoryEnded
    <2>6. c.op # "run"
      <3>1. c.op = "run" => c.log = "metadata"
        BY HistoryStage DEF LogsOf
      <3> QED BY <2>2, <3>1 DEF EventLogs
    <2>7. Covered(p, {c}, {})
      BY <1>0, <2>2, <2>3, <2>5, <2>6 DEF Covered, Prunes, ReadsNow
    <2> QED BY <1>1, <1>2, <2>5, <2>7, HistoryCallOver
  <1>4. CASE History!Fails(c)
    <2>1. page' = History!Failed(c)
      BY <1>4 DEF History!Fails
    <2>2. \A l \in EventLogs : ~ReadsNow(c, l)
      BY <1>4, EventSource DEF History!Fails, ReadsNow
    <2>3. /\ DOMAIN p = DOMAIN page /\ p.loading = page.loading
          /\ p.pruning = IF c.op = "prune" THEN [page.pruning EXCEPT ![c.log] = "error"]
                         ELSE page.pruning
          /\ p.restart = IF c.op = "restart" THEN "error" ELSE page.restart
          /\ p.run = IF c.op = "run" THEN "error" ELSE page.run
      BY <1>0, <1>2, <2>1 DEF History!Failed
    <2>4. HistoryPage(p)
      BY <1>0, <2>3 DEF HistoryPage
    <2>5. Covered(p, {c}, {})
      BY <1>0, <2>2, <2>3 DEF Covered, Prunes
    <2> QED BY <1>1, <1>2, <2>4, <2>5, HistoryCallOver
  <1> QED BY <1>3, <1>4

-----------------------------------------------------------------------------
(* Every step of the history.                                              *)

LEMMA HistoryNeverStuckInit ==
    ASSUME History!Init
    PROVE  StuckHistoryInv
  <1>1. PICK rows, known, filter, open :
           page = [rows |-> rows, known |-> known, filter |-> filter, open |-> open, keep |-> 1,
                   detail |-> {}, pruning |-> [l \in History!Ticks \cup {"events"} |-> "idle"],
                   loading |-> [l \in {"events", "restarts"} |-> "idle"],
                   restart |-> "idle", run |-> "idle"]
    BY DEF History!Init
  <1>2. /\ HistoryPage(page) /\ page.restart = "idle" /\ page.run = "idle"
        /\ \A l \in PruneLogs : page.pruning[l] = "idle"
        /\ \A l \in EventLogs : page.loading[l] = "idle"
    BY <1>1 DEF HistoryPage, PruneLogs, EventLogs
  <1>3. calls = {}
    BY DEF History!Init
  <1> QED BY <1>2, <1>3 DEF StuckHistoryInv, HistoryShape, HistoryWaits

LEMMA HistoryNeverStuckStep ==
    ASSUME StuckHistoryInv, [History!Next]_(History!vars)
    PROVE  StuckHistoryInv'
  <1>1. CASE History!Operator
    BY <1>1, HistoryOperatorWaits
  <1>2. CASE \E c \in calls : History!Answers(c)
    BY <1>2, HistoryGoesOn, HistoryAnswered, HistoryFails DEF History!Answers
  <1>3. CASE \E d \in History!Drawers : \/ History!SnapshotRead(d)
                                        \/ \E tags \in SUBSET History!TagsOf(d) : History!RowAdded(d, tags)
    BY <1>3, HistoryServerWaits
  <1>4. CASE UNCHANGED History!vars
    BY <1>4 DEF History!vars, StuckHistoryInv
  <1> QED BY <1>1, <1>2, <1>3, <1>4 DEF History!Next

LEMMA HistoryNeverStuckOK ==
    ASSUME StuckHistoryInv
    PROVE  History!NeverStuck
  <1>1. ASSUME NEW l, NEW c \in calls, ReadsNow(c, l)
        PROVE  c.log = l /\ History!Reading(c)
    <2>1. PathOf(c.op, c.todo) /\ History!Stage(c) \in {"read", "answer"} /\ c.log = l
      BY <1>1 DEF StuckHistoryInv, HistoryShape, HistoryCall, ReadsNow
    <2>2. Len(c.todo) \in Nat /\ Len(c.todo) # 0 /\ DOMAIN c.todo = 1..Len(c.todo)
      BY <2>1, EmptySeq DEF PathOf
    <2>3. c.todo[1] = History!Stage(c)
      BY <2>1, <2>2 DEF PathOf, History!Stage
    <2>4. CASE History!Stage(c) = "answer"
      <3>1. 1 \in DOMAIN c.todo
        BY <2>2
      <3> QED BY <2>1, <2>3, <2>4, <3>1 DEF History!Reading
    <2>5. CASE History!Stage(c) = "read"
      <3>1. Len(c.todo) # 1
        BY <1>1, <2>5, HistoryStage DEF LastOf
      <3>2. Head(Tail(c.todo)) = "answer"
        BY <2>1, <2>5, <3>1, PathTail DEF After, History!Stage
      <3>3. \A n \in Nat : n # 0 /\ n # 1 => 2 \in 1..n /\ 1 \in 1..n - 1 /\ 1 + 1 = 2
        OBVIOUS
      <3>4. 2 \in 1..Len(c.todo) /\ 1 \in 1..Len(c.todo) - 1 /\ 1 + 1 = 2
        BY <2>2, <3>1, <3>3
      <3>5. c.todo[1 + 1] = After(c.op, c.todo[1])
        BY <2>1, <3>4 DEF PathOf
      <3>6. c.todo[2] = "answer"
        BY <2>3, <2>5, <3>4, <3>5 DEF After
      <3> QED BY <2>1, <2>2, <3>4, <3>6 DEF History!Reading
    <2> QED BY <2>1, <2>4, <2>5
  <1>2. \A l \in {"events", "restarts"} : page.loading[l] = "loading" =>
            \E c \in calls : c.log = l /\ History!Reading(c)
    BY <1>1 DEF StuckHistoryInv, HistoryWaits, EventLogs
  <1>3. \A l \in History!Ticks \cup {"events"} : page.pruning[l] = "pruning" =>
            \E c \in calls : c.op = "prune" /\ c.log = l /\ History!Stage(c) # "timer"
    BY DEF StuckHistoryInv, HistoryWaits, PruneLogs, Prunes
  <1>4. /\ page.restart = "requesting" => \E c \in calls : c.op = "restart"
        /\ page.run = "running" => \E c \in calls : c.op = "run"
    BY DEF StuckHistoryInv, HistoryWaits
  <1> QED BY <1>2, <1>3, <1>4 DEF History!NeverStuck

-----------------------------------------------------------------------------
(* Every page.                                                             *)

Areas == {"schedule", "storage", "queue", "history", "library"}

\* What each page keeps while its buttons come back.
ButtonsInv ==
    /\ area \in Areas
    /\ area = "schedule" => ScheduleInv
    /\ area = "storage" => StuckStorageInv
    /\ area = "queue" => StuckQueueInv
    /\ area = "history" => StuckHistoryInv
    /\ area = "library" => StuckLibraryInv

LEMMA ButtonsInit == ASSUME Init PROVE ButtonsInv
  <1>1. CASE area = "schedule" /\ Schedule!Init
    BY <1>1, ScheduleInit DEF ButtonsInv, Areas
  <1>2. CASE area = "storage" /\ Storage!Init
    BY <1>2, StorageNeverStuckInit DEF ButtonsInv, Areas
  <1>3. CASE area = "queue" /\ Queue!KitInit
    BY <1>3, QueueNeverStuckInit DEF ButtonsInv, Areas
  <1>4. CASE area = "history" /\ History!Init
    BY <1>4, HistoryNeverStuckInit DEF ButtonsInv, Areas
  <1>5. CASE area = "library" /\ Library!Init
    BY <1>5, LibraryNeverStuckInit DEF ButtonsInv, Areas
  <1> QED BY <1>1, <1>2, <1>3, <1>4, <1>5 DEF Init

\* A page takes its own steps only.
LEMMA PageSteps ==
    ASSUME [Next]_vars
    PROVE  /\ area' = area
           /\ area = "schedule" => [Schedule!Next]_(Schedule!vars)
           /\ area = "storage" => [Storage!Next]_(Storage!vars)
           /\ area = "queue" => [Queue!KitNext]_(Queue!kitVars)
           /\ area = "history" => [History!Next]_(History!vars)
           /\ area = "library" => [Library!Next]_(Library!vars)
  <1>1. CASE Next
    BY <1>1 DEF Next
  <1>2. CASE UNCHANGED vars
    BY <1>2 DEF vars, Schedule!vars, Storage!vars, Queue!kitVars, Queue!vars, History!vars,
                Library!vars
  <1> QED BY <1>1, <1>2

LEMMA ButtonsStep == ASSUME ButtonsInv, [Next]_vars PROVE ButtonsInv'
  <1>1. area' = area /\ area \in Areas
    BY PageSteps DEF ButtonsInv
  <1>2. CASE area = "schedule"
    <2>1. ScheduleInv'
      BY <1>2, PageSteps, ScheduleStep DEF ButtonsInv
    <2> QED BY <1>1, <1>2, <2>1 DEF ButtonsInv
  <1>3. CASE area = "storage"
    <2>1. StuckStorageInv'
      BY <1>3, PageSteps, StorageNeverStuckStep DEF ButtonsInv
    <2> QED BY <1>1, <1>3, <2>1 DEF ButtonsInv
  <1>4. CASE area = "queue"
    <2>1. StuckQueueInv'
      BY <1>4, PageSteps, QueueNeverStuckStep DEF ButtonsInv
    <2> QED BY <1>1, <1>4, <2>1 DEF ButtonsInv
  <1>5. CASE area = "history"
    <2>1. StuckHistoryInv'
      BY <1>5, PageSteps, HistoryNeverStuckStep DEF ButtonsInv
    <2> QED BY <1>1, <1>5, <2>1 DEF ButtonsInv
  <1>6. CASE area = "library"
    <2>1. StuckLibraryInv'
      BY <1>6, PageSteps, LibraryNeverStuckStep DEF ButtonsInv
    <2> QED BY <1>1, <1>6, <2>1 DEF ButtonsInv
  <1> QED BY <1>1, <1>2, <1>3, <1>4, <1>5, <1>6 DEF Areas

LEMMA ButtonsOK == ASSUME ButtonsInv PROVE NeverStuck
  <1>1. area = "schedule" => Schedule!NeverStuck
    BY DEF ButtonsInv, ScheduleInv
  <1>2. area = "storage" => Storage!NeverStuck
    BY DEF ButtonsInv, StuckStorageInv
  <1>3. area = "queue" => Queue!NeverStuck
    BY QueueNeverStuckOK DEF ButtonsInv
  <1>4. area = "history" => History!NeverStuck
    BY HistoryNeverStuckOK DEF ButtonsInv
  <1>5. area = "library" => Library!NeverStuck
    BY LibraryNeverStuckOK DEF ButtonsInv
  <1> QED BY <1>1, <1>2, <1>3, <1>4, <1>5 DEF ButtonsInv, Areas, NeverStuck

\* On every page, every hook of App.tsx that says that something is under way belongs
\* to a request that is still to be answered, whatever the jobs, rows, folders and
\* channels, however many requests overlap, and whichever fail or answer late: no
\* button stays disabled and no list loads for ever.
THEOREM ButtonsComeBack == Spec => []NeverStuck
  <1>1. Init => ButtonsInv
    BY ButtonsInit
  <1>2. ButtonsInv /\ [Next]_vars => ButtonsInv'
    BY ButtonsStep
  <1>3. ButtonsInv => NeverStuck
    BY ButtonsOK
  <1> QED BY <1>1, <1>2, <1>3, PTL DEF Spec

(***************************************************************************)
(* The sidecars of the storage page                                        *)
(***************************************************************************)

StorageRequest(c) == {"at", "flow"} \subseteq DOMAIN c /\ c.flow \in Storage!Flows \cup {"purge"}

\* A purge that is to be served carries the age of the plan it was shown with.
HonestPurge(c) == c.flow = "purge" /\ c.at = "apply" => c.age = c.item.age

DiskInv == server \in Storage!Disks
CallsInv == \A c \in calls : StorageRequest(c) /\ HonestPurge(c)

SidecarsInv == DiskInv /\ CallsInv /\ Storage!SidecarsKept

LEMMA Bounds ==
    /\ MaxVersions \in Nat /\ Storage!OldestAge \in Ages /\ Storage!OldestAge \in Nat
    /\ 0 \in 0..Storage!OldestAge /\ 0 \in 0..MaxVersions
    /\ Storage!Versions \subseteq 0..MaxVersions /\ 0 \notin Storage!Versions
    /\ \A v \in 0..MaxVersions : v = 0 \/ v \in Storage!Versions
  <1>1. Storage!OldestAge \in Ages /\ Ages \subseteq Nat /\ MaxVersions \in Nat
    BY PagesAssumption DEF Storage!AgesAssumption, Storage!OldestAge
  <1> QED BY <1>1 DEF Storage!Versions

-----------------------------------------------------------------------------
(* What the server does to the disk.                                       *)

LEMMA SameDisk ==
    ASSUME SidecarsInv, UNCHANGED <<server, note>>
    PROVE  DiskInv' /\ Storage!SidecarsKept'
  BY DEF SidecarsInv, DiskInv, Storage!SidecarsKept, Storage!Disks

\* A step that moves sidecars.
LEMMA Moved ==
    ASSUME DiskInv, NEW H \in [Folders -> 0..MaxVersions], NEW W \in SUBSET Storage!Held,
           server' = [server EXCEPT !.home = H, !.held = W]
    PROVE  DiskInv' /\ server'.home = H /\ server'.held = W /\ server'.written = server.written
  BY DEF DiskInv, Storage!Disks

\* Recovery and pruning touch index rows alone.
LEMMA RowsOnly ==
    ASSUME DiskInv, NEW d, d.ok,
           \/ \E f : d = Storage!Recover(f)
           \/ \E f : d = Storage!Prune(f)
    PROVE  /\ d.disk \in Storage!Disks /\ d.disk.home = server.home
           /\ d.disk.written = server.written /\ d.disk.held = server.held
  BY DEF DiskInv, Storage!Disks, Storage!Recover, Storage!Prune, Storage!There

\* What a sidecar was, it is after a quarantine: at its place, or held.
LEMMA QuarantineKeeps ==
    ASSUME SidecarsInv, NEW f, Storage!Quarantine(f).ok,
           server' = Storage!Quarantine(f).disk, note' = note
    PROVE  DiskInv' /\ Storage!SidecarsKept'
  <1> DEFINE h == [folder |-> f, version |-> server.home[f], age |-> 0]
  <1>1. f \in Folders /\ server.home[f] \in 0..MaxVersions /\ h \in Storage!Held
    <2>1. /\ f \in Folders /\ server.home[f] # 0 /\ server.home[f] \in 0..MaxVersions
      BY DEF SidecarsInv, DiskInv, Storage!Disks, Storage!Quarantine, Storage!Scan, Storage!There
    <2> QED BY <2>1, Bounds DEF Storage!Held
  <1>2. server' = [server EXCEPT !.home = [server.home EXCEPT ![f] = 0],
                             !.held = server.held \cup {h}]
    BY DEF Storage!Quarantine, SidecarsInv, DiskInv, Storage!Disks
  <1>3. /\ [server.home EXCEPT ![f] = 0] \in [Folders -> 0..MaxVersions]
        /\ server.held \cup {h} \in SUBSET Storage!Held
    <2> HIDE DEF h
    <2> QED BY <1>1, Bounds DEF SidecarsInv, DiskInv, Storage!Disks
  <1>4. /\ server'.home = [server.home EXCEPT ![f] = 0] /\ server'.held = server.held \cup {h}
        /\ server'.written = server.written /\ DiskInv'
    <2> DEFINE H == [server.home EXCEPT ![f] = 0]
               W == server.held \cup {h}
    <2>1. H \in [Folders -> 0..MaxVersions] /\ W \in SUBSET Storage!Held
          /\ server' = [server EXCEPT !.home = H, !.held = W]
      BY <1>2, <1>3
    <2>2. DiskInv
      BY DEF SidecarsInv
    <2> HIDE DEF H, W
    <2>3. DiskInv' /\ server'.home = H /\ server'.held = W /\ server'.written = server.written
      BY <2>1, <2>2, Moved
    <2> QED BY <2>3 DEF H, W
  <1>5. Storage!SidecarsKept'
    <2> SUFFICES ASSUME NEW g \in Folders, NEW v \in 1..server.written[g]
                 PROVE  \/ server'.home[g] = v
                        \/ \E x \in server'.held : x.folder = g /\ x.version = v
                        \/ \E p \in note : p.file.folder = g /\ p.file.version = v
                                             /\ p.file.age >= p.shown
      BY <1>4 DEF Storage!SidecarsKept
    <2>1. \/ server.home[g] = v
          \/ \E x \in server.held : x.folder = g /\ x.version = v
          \/ \E p \in note : p.file.folder = g /\ p.file.version = v /\ p.file.age >= p.shown
      BY DEF SidecarsInv, Storage!SidecarsKept
    <2>2. server.home \in [Folders -> 0..MaxVersions] /\ h.folder = f /\ h.version = server.home[f]
      BY DEF SidecarsInv, DiskInv, Storage!Disks
    <2>3. h \in server'.held /\ server.held \subseteq server'.held
      BY <1>4
    <2> HIDE DEF h
    <2> QED BY <1>1, <1>4, <2>1, <2>2, <2>3
  <1> QED BY <1>4, <1>5

\* A sidecar that is restored finds its place empty.
LEMMA RestoreKeeps ==
    ASSUME SidecarsInv, NEW h, Storage!Restore(h).ok,
           server' = Storage!Restore(h).disk, note' = note
    PROVE  DiskInv' /\ Storage!SidecarsKept'
  <1> DEFINE rest == {g \in server.held : g.folder # h.folder \/ g.version # h.version}
  <1>1. h.folder \in Folders /\ h.version \in 0..MaxVersions /\ server.home[h.folder] = 0
    BY Bounds DEF SidecarsInv, DiskInv, Storage!Disks, Storage!Restore, Storage!HeldAt,
                  Storage!There, Storage!Held
  <1>2. server' = [server EXCEPT !.home = [server.home EXCEPT ![h.folder] = h.version],
                                 !.held = rest]
    BY DEF Storage!Restore, SidecarsInv, DiskInv, Storage!Disks
  <1>3. /\ [server.home EXCEPT ![h.folder] = h.version] \in [Folders -> 0..MaxVersions]
        /\ rest \in SUBSET Storage!Held
    BY <1>1 DEF SidecarsInv, DiskInv, Storage!Disks
  <1>4. /\ server'.home = [server.home EXCEPT ![h.folder] = h.version] /\ server'.held = rest
        /\ server'.written = server.written /\ DiskInv'
    <2> DEFINE H == [server.home EXCEPT ![h.folder] = h.version]
    <2>1. H \in [Folders -> 0..MaxVersions] /\ server' = [server EXCEPT !.home = H, !.held = rest] /\ DiskInv
      BY <1>2, <1>3 DEF SidecarsInv
    <2> HIDE DEF H, rest
    <2>2. DiskInv' /\ server'.home = H /\ server'.held = rest /\ server'.written = server.written
      BY <1>3, <2>1, Moved
    <2> QED BY <2>2 DEF H
  <1>5. Storage!SidecarsKept'
    <2> SUFFICES ASSUME NEW f \in Folders, NEW v \in 1..server.written[f]
                 PROVE  \/ server'.home[f] = v
                        \/ \E g \in rest : g.folder = f /\ g.version = v
                        \/ \E p \in note : p.file.folder = f /\ p.file.version = v
                                             /\ p.file.age >= p.shown
      BY <1>4 DEF Storage!SidecarsKept
    <2>1. \/ server.home[f] = v
          \/ \E g \in server.held : g.folder = f /\ g.version = v
          \/ \E p \in note : p.file.folder = f /\ p.file.version = v /\ p.file.age >= p.shown
      BY DEF SidecarsInv, Storage!SidecarsKept
    <2>2. server.home \in [Folders -> 0..MaxVersions] /\ server.written[f] \in Nat /\ v # 0
      BY DEF SidecarsInv, DiskInv, Storage!Disks
    <2>3. CASE f = h.folder /\ v = h.version
      BY <1>4, <2>2, <2>3
    <2>4. CASE f # h.folder \/ v # h.version
      BY <1>1, <1>4, <2>1, <2>2, <2>4
    <2> QED BY <2>3, <2>4
  <1> QED BY <1>4, <1>5

\* What a purge deletes is at least as old as its plan said.
LEMMA PurgeKeeps ==
    ASSUME SidecarsInv, NEW c, c.age = c.item.age, server' = Storage!Purge(c.age).disk,
           note' = note \cup {[file |-> h, shown |-> c.item.age] : h \in Storage!OldEnough(c.age)}
    PROVE  DiskInv' /\ Storage!SidecarsKept'
  <1> DEFINE old == Storage!OldEnough(c.age)
  <1>1. server' = [server EXCEPT !.held = server.held \ old]
    BY DEF Storage!Purge, SidecarsInv, DiskInv, Storage!Disks
  <1>2. /\ server'.home = server.home /\ server'.written = server.written
        /\ server'.held = server.held \ old /\ DiskInv'
    <2> HIDE DEF old
    <2> QED BY <1>1 DEF SidecarsInv, DiskInv, Storage!Disks
  <1>3. \A h \in old : h.age >= c.age /\ [file |-> h, shown |-> c.age] \in note'
    BY DEF Storage!OldEnough
  <1>4. note \subseteq note'
    OBVIOUS
  <1>5. Storage!SidecarsKept'
    <2> HIDE DEF old
    <2> SUFFICES ASSUME NEW f \in Folders, NEW v \in 1..server.written[f]
                 PROVE  \/ server.home[f] = v
                        \/ \E g \in server.held \ old : g.folder = f /\ g.version = v
                        \/ \E p \in note' : p.file.folder = f /\ p.file.version = v
                                              /\ p.file.age >= p.shown
      BY <1>2 DEF Storage!SidecarsKept
    <2>1. CASE \E g \in old : g.folder = f /\ g.version = v
      <3>1. PICK g \in old : g.folder = f /\ g.version = v
        BY <2>1
      <3>2. [file |-> g, shown |-> c.age] \in note' /\ g.age >= c.age
        BY <1>3
      <3> QED BY <3>1, <3>2
    <2>2. CASE ~\E g \in old : g.folder = f /\ g.version = v
      BY <1>4, <2>2 DEF SidecarsInv, Storage!SidecarsKept
    <2> QED BY <2>1, <2>2
  <1> QED BY <1>2, <1>5

LEMMA ServedKeeps ==
    ASSUME SidecarsInv, NEW c \in calls, Storage!ApplyServed(c)
    PROVE  DiskInv' /\ Storage!SidecarsKept'
  <1>1. CASE c.flow = "purge"
    <2>1. Storage!Outcome(c) = Storage!Purge(c.age)
      BY <1>1 DEF Storage!Outcome
    <2>2. Storage!Purge(c.age).ok /\ c.age = c.item.age
      BY <1>1 DEF Storage!Purge, Storage!ApplyServed, SidecarsInv, CallsInv, HonestPurge
    <2> QED BY <1>1, <2>1, <2>2, PurgeKeeps DEF Storage!ApplyServed
  <1>2. CASE c.flow # "purge" /\ ~Storage!Outcome(c).ok
    BY <1>2, SameDisk DEF Storage!ApplyServed
  <1>3. CASE c.flow # "purge" /\ Storage!Outcome(c).ok
    <2>1. server' = Storage!Outcome(c).disk /\ note' = note
      BY <1>3 DEF Storage!ApplyServed
    <2>2. CASE c.flow = "orphan"
      BY <1>3, <2>1, <2>2, QuarantineKeeps DEF Storage!Outcome
    <2>3. CASE c.flow = "drawer"
      BY <1>3, <2>1, <2>3, RestoreKeeps DEF Storage!Outcome
    <2>4. CASE c.flow = "drift"
      <3>1. \/ Storage!Outcome(c) = Storage!Recover(c.item.folder)
            \/ Storage!Outcome(c) = Storage!Prune(c.item.folder)
        BY <2>4 DEF Storage!Outcome
      <3>2. /\ server' \in Storage!Disks /\ server'.home = server.home
            /\ server'.written = server.written /\ server'.held = server.held
        BY <1>3, <2>1, <3>1, RowsOnly DEF SidecarsInv
      <3> QED BY <2>1, <3>2 DEF SidecarsInv, DiskInv, Storage!SidecarsKept
    <2> QED BY <1>3, <2>2, <2>3, <2>4 DEF SidecarsInv, CallsInv, StorageRequest, Storage!Flows
  <1> QED BY <1>1, <1>2, <1>3

-----------------------------------------------------------------------------
(* What is under way.                                                      *)

LEMMA BeginKeeps ==
    ASSUME CallsInv, NEW flow \in Storage!Flows \cup {"purge"}, NEW at, NEW item, NEW age,
           flow = "purge" /\ at = "apply" => age = item.age,
           Storage!Begin(flow, at, item, age)
    PROVE  CallsInv' /\ UNCHANGED <<server, note>>
  <1>1. calls' = calls \cup {Storage!Call(flow, at, item, age)} /\ UNCHANGED <<server, note>>
    BY DEF Storage!Begin
  <1>2. StorageRequest(Storage!Call(flow, at, item, age)) /\ HonestPurge(Storage!Call(flow, at, item, age))
    BY DEF Storage!Call, StorageRequest, HonestPurge
  <1> QED BY <1>1, <1>2 DEF CallsInv

LEMMA GoesOnKeeps ==
    ASSUME CallsInv, NEW c, NEW d, Storage!GoesOn(c, d), StorageRequest(d), d.at # "apply"
    PROVE  CallsInv'
  BY DEF CallsInv, Storage!GoesOn, HonestPurge

LEMMA EndsKeeps ==
    ASSUME CallsInv, NEW c, Storage!Ends(c)
    PROVE  CallsInv'
  BY DEF CallsInv, Storage!Ends

LEMMA AnswersKeep ==
    ASSUME CallsInv, NEW c \in calls,
           \/ Storage!PlanServed(c) \/ Storage!PlanAnswered(c)
           \/ Storage!ApplyServed(c) \/ Storage!FollowUp(c)
           \/ Storage!ApplyAnswered(c) \/ Storage!TimerFires(c)
           \/ Storage!ListAnswered(c) \/ Storage!Fails(c)
    PROVE  CallsInv'
  <1>0. StorageRequest(c)
    BY DEF CallsInv
  <1>1. CASE Storage!PlanServed(c)
    <2> DEFINE d == [c EXCEPT !.at = "planned", !.got = Storage!Result(c)]
    <2>1. StorageRequest(d) /\ d.at = "planned"
      BY <1>0 DEF StorageRequest
    <2>2. Storage!GoesOn(c, d)
      BY <1>1 DEF Storage!PlanServed
    <2> QED BY <2>1, <2>2, GoesOnKeeps
  <1>2. CASE Storage!PlanAnswered(c)
    BY <1>2, EndsKeeps DEF Storage!PlanAnswered
  <1>3. CASE Storage!ApplyServed(c)
    <2> DEFINE d == [c EXCEPT !.at = "follow", !.got = Storage!Result(c),
                              !.applied = server' # server]
    <2>1. StorageRequest(d) /\ d.at = "follow"
      BY <1>0 DEF StorageRequest
    <2>2. Storage!GoesOn(c, d)
      BY <1>3 DEF Storage!ApplyServed
    <2> QED BY <2>1, <2>2, GoesOnKeeps
  <1>4. CASE Storage!FollowUp(c)
    <2> DEFINE d == [c EXCEPT !.at = "applied", !.scan = Storage!Scan]
    <2>1. StorageRequest(d) /\ d.at = "applied"
      BY <1>0 DEF StorageRequest
    <2>2. Storage!GoesOn(c, d)
      BY <1>4 DEF Storage!FollowUp
    <2> QED BY <2>1, <2>2, GoesOnKeeps
  <1>5. CASE Storage!ApplyAnswered(c)
    <2> DEFINE d == [c EXCEPT !.at = "timer", !.got = None, !.scan = None]
    <2>1. StorageRequest(d) /\ d.at = "timer"
      BY <1>0 DEF StorageRequest
    <2>2. Storage!GoesOn(c, d) \/ Storage!Ends(c)
      BY <1>5 DEF Storage!ApplyAnswered
    <2> QED BY <2>1, <2>2, GoesOnKeeps, EndsKeeps
  <1>6. CASE Storage!TimerFires(c) \/ Storage!ListAnswered(c) \/ Storage!Fails(c)
    BY <1>6, EndsKeeps DEF Storage!TimerFires, Storage!ListAnswered, Storage!Fails
  <1> QED BY <1>1, <1>2, <1>3, <1>4, <1>5, <1>6

\* What the operator starts or closes touches no disk.
LEMMA OperatorKeeps ==
    ASSUME SidecarsInv, Storage!Operator
    PROVE  CallsInv' /\ UNCHANGED <<server, note>>
  <1>0. CallsInv /\ Storage!Flows \cup {"purge"} = {"drift", "orphan", "drawer", "purge"}
    BY DEF SidecarsInv, Storage!Flows
  <1>1. CASE \E d \in Storage!Drift : Storage!HandlePreviewStorageDrift(d)
    BY <1>0, <1>1, BeginKeeps DEF Storage!HandlePreviewStorageDrift
  <1>2. CASE Storage!HandleApplyStorageDriftPreview
    BY <1>0, <1>2, BeginKeeps DEF Storage!HandleApplyStorageDriftPreview
  <1>3. CASE Storage!CloseDrift \/ Storage!CloseOrphan \/ Storage!CloseDrawer
                                \/ Storage!TypeConfirmation
    BY <1>0, <1>3 DEF Storage!CloseDrift, Storage!CloseOrphan, Storage!CloseDrawer,
                      Storage!TypeConfirmation, CallsInv
  <1>4. CASE \E f \in Folders : Storage!HandlePreviewOrphanQuarantine(f)
    BY <1>0, <1>4, BeginKeeps DEF Storage!HandlePreviewOrphanQuarantine
  <1>5. CASE Storage!HandleApplyOrphanQuarantine
    BY <1>0, <1>5, BeginKeeps DEF Storage!HandleApplyOrphanQuarantine
  <1>6. CASE Storage!HandleOpenStorageQuarantine
    BY <1>0, <1>6, BeginKeeps DEF Storage!HandleOpenStorageQuarantine
  <1>7. CASE \E h \in page.list : Storage!HandlePreviewStorageQuarantineRestore(h)
    BY <1>0, <1>7, BeginKeeps DEF Storage!HandlePreviewStorageQuarantineRestore
  <1>8. CASE Storage!HandleApplyStorageQuarantineRestore
    BY <1>0, <1>8, BeginKeeps DEF Storage!HandleApplyStorageQuarantineRestore
  <1>9. CASE \E a \in Ages : Storage!EditPurgeAge(a)
    BY <1>0, <1>9 DEF Storage!EditPurgeAge, CallsInv
  <1>10. CASE Storage!HandlePreviewStorageQuarantinePurge
    BY <1>0, <1>10, BeginKeeps DEF Storage!HandlePreviewStorageQuarantinePurge
  <1>11. CASE Storage!HandleApplyStorageQuarantinePurge
    BY <1>0, <1>11, BeginKeeps DEF Storage!HandleApplyStorageQuarantinePurge, Storage!PurgeAge
  <1> QED
    BY <1>1, <1>2, <1>3, <1>4, <1>5, <1>6, <1>7, <1>8, <1>9, <1>10, <1>11 DEF Storage!Operator

-----------------------------------------------------------------------------
(* The download folder.                                                    *)

LEMMA SidecarWrittenKeeps ==
    ASSUME SidecarsInv, NEW f \in Folders, Storage!SidecarWritten(f)
    PROVE  DiskInv' /\ Storage!SidecarsKept'
  <1>1. /\ server \in Storage!Disks /\ server.home[f] = 0 /\ note' = note
        /\ server' = [server EXCEPT !.home = [server.home EXCEPT ![f] = server.written[f] + 1],
                                !.written = [server.written EXCEPT ![f] = server.written[f] + 1]]
    BY DEF SidecarsInv, DiskInv, Storage!Disks, Storage!SidecarWritten, Storage!Outside
  <1>2. /\ server'.home = [server.home EXCEPT ![f] = server.written[f] + 1]
        /\ server'.written = [server.written EXCEPT ![f] = server.written[f] + 1]
        /\ server'.held = server.held /\ DiskInv'
    <2> DEFINE H == [server.home EXCEPT ![f] = server.written[f] + 1]
               W == [server.written EXCEPT ![f] = server.written[f] + 1]
    <2>1. H \in [Folders -> 0..MaxVersions] /\ W \in [Folders -> 0..MaxVersions]
          /\ server' = [server EXCEPT !.home = H, !.written = W]
      <3>1. server.written[f] < MaxVersions /\ server.written[f] \in 0..MaxVersions
        BY <1>1 DEF Storage!SidecarWritten, Storage!Disks
      <3>2. server.written[f] + 1 \in 0..MaxVersions
        BY <3>1, Bounds
      <3> QED BY <1>1, <3>2 DEF Storage!Disks
    <2> HIDE DEF H, W
    <2>2. server'.home = H /\ server'.written = W /\ server'.held = server.held /\ DiskInv'
      BY <1>1, <2>1 DEF Storage!Disks, DiskInv
    <2> QED BY <2>2 DEF H, W
  <1>3. Storage!SidecarsKept'
    <2> SUFFICES ASSUME NEW g \in Folders, NEW v \in 1..server'.written[g]
                 PROVE  \/ server'.home[g] = v
                        \/ \E x \in server.held : x.folder = g /\ x.version = v
                        \/ \E p \in note : p.file.folder = g /\ p.file.version = v
                                             /\ p.file.age >= p.shown
      BY <1>1, <1>2 DEF Storage!SidecarsKept
    <2>1. /\ server.home \in [Folders -> 0..MaxVersions] /\ server.written \in [Folders -> 0..MaxVersions]
      BY <1>1 DEF Storage!Disks
    <2>2. CASE g = f /\ v = server.written[f] + 1
      BY <1>2, <2>1, <2>2
    <2>3. CASE ~(g = f /\ v = server.written[f] + 1)
      <3>1. v \in 1..server.written[g] /\ v # 0
        BY <1>2, <2>1, <2>3
      <3>2. server.home[g] = v => server'.home[g] = v
        BY <1>1, <1>2, <2>1, <3>1
      <3> QED BY <3>1, <3>2 DEF SidecarsInv, Storage!SidecarsKept
    <2> QED BY <2>2, <2>3
  <1> QED BY <1>2, <1>3

LEMMA DayPassesKeeps ==
    ASSUME SidecarsInv, Storage!DayPasses
    PROVE  DiskInv' /\ Storage!SidecarsKept'
  <1> DEFINE Older(h) == [h EXCEPT !.age = IF @ < Storage!OldestAge THEN @ + 1 ELSE @]
             W == {Older(h) : h \in server.held}
  <1>1. server \in Storage!Disks /\ server' = [server EXCEPT !.held = W] /\ note' = note
    BY DEF SidecarsInv, DiskInv, Storage!DayPasses, Storage!Outside, Storage!Disks
  <1>2. \A h \in server.held : /\ Older(h) \in Storage!Held /\ Older(h) \in W
                             /\ Older(h).folder = h.folder /\ Older(h).version = h.version
    <2> SUFFICES ASSUME NEW h \in server.held
                 PROVE  /\ Older(h) \in Storage!Held /\ Older(h) \in W
                        /\ Older(h).folder = h.folder /\ Older(h).version = h.version
      OBVIOUS
    <2> DEFINE age == IF h.age < Storage!OldestAge THEN h.age + 1 ELSE h.age
    <2>1. Older(h) = [h EXCEPT !.age = age] /\ Older(h) \in W
      OBVIOUS
    <2>2. h \in Storage!Held /\ age \in 0..Storage!OldestAge
      BY <1>1, Bounds DEF Storage!Disks, Storage!Held
    <2> HIDE DEF age, W
    <2>3. /\ [h EXCEPT !.age = age] \in Storage!Held
          /\ [h EXCEPT !.age = age].folder = h.folder /\ [h EXCEPT !.age = age].version = h.version
      BY <2>2 DEF Storage!Held
    <2> HIDE DEF Older
    <2> QED BY <2>1, <2>3
  <1>3. W \subseteq Storage!Held
    BY <1>2
  <1> HIDE DEF W, Older
  <1>4. /\ server'.home = server.home /\ server'.written = server.written
        /\ server'.held = W /\ DiskInv'
    BY <1>1, <1>3 DEF Storage!Disks, DiskInv
  <1>5. Storage!SidecarsKept'
    BY <1>1, <1>2, <1>4 DEF SidecarsInv, Storage!SidecarsKept
  <1> QED BY <1>4, <1>5

LEMMA FolderKeeps ==
    ASSUME SidecarsInv, Storage!Folder
    PROVE  SidecarsInv'
  <1>1. CallsInv'
    BY DEF SidecarsInv, CallsInv, Storage!Folder, Storage!SidecarWritten, Storage!MediaWritten,
           Storage!MountToggles, Storage!DayPasses,
           Storage!Outside
  <1>2. DiskInv' /\ Storage!SidecarsKept'
    <2>1. CASE \E f \in Folders : Storage!SidecarWritten(f)
      BY <2>1, SidecarWrittenKeeps
    <2>2. CASE \E f \in Folders : Storage!MediaWritten(f)
      <3>1. PICK f \in Folders : Storage!MediaWritten(f)
        BY <2>2
      <3>2. /\ server \in Storage!Disks /\ note' = note
            /\ server' = [server EXCEPT !.media = server.media \cup {f},
                                        !.rows = server.rows \cup {f}]
        BY <3>1 DEF Storage!MediaWritten, Storage!Outside, SidecarsInv, DiskInv, Storage!Disks
      <3> DEFINE M == server.media \cup {f}
                 R == server.rows \cup {f}
      <3>3. M \in SUBSET Folders /\ R \in SUBSET Folders
            /\ server' = [server EXCEPT !.media = M, !.rows = R]
        BY <3>2 DEF Storage!Disks
      <3> HIDE DEF M, R
      <3>4. /\ server' \in Storage!Disks /\ server'.home = server.home
            /\ server'.written = server.written /\ server'.held = server.held
        BY <3>2, <3>3 DEF Storage!Disks
      <3> QED BY <3>2, <3>4 DEF DiskInv, SidecarsInv, Storage!SidecarsKept
    <2>3. CASE Storage!MountToggles
      <3> DEFINE there == ~server.mounted
      <3>1. there \in BOOLEAN /\ server' = [server EXCEPT !.mounted = there] /\ note' = note
        BY <2>3 DEF Storage!MountToggles, Storage!Outside
      <3> HIDE DEF there
      <3>2. /\ server' \in Storage!Disks /\ server'.home = server.home
            /\ server'.written = server.written /\ server'.held = server.held
        BY <3>1 DEF SidecarsInv, DiskInv, Storage!Disks
      <3> QED BY <3>1, <3>2 DEF DiskInv, SidecarsInv, Storage!SidecarsKept
    <2>4. CASE Storage!DayPasses
      BY <2>4, DayPassesKeeps
    <2> QED BY <2>1, <2>2, <2>3, <2>4 DEF Storage!Folder
  <1> QED BY <1>1, <1>2 DEF SidecarsInv

-----------------------------------------------------------------------------
LEMMA SidecarsInit ==
    ASSUME Storage!PlansAssumption, Storage!Init
    PROVE  SidecarsInv
  <1>1. PICK p \in StoragePlans : server = p.disk
    BY DEF Storage!Init
  <1>2. DiskInv /\ Storage!SidecarsKept
    BY <1>1 DEF Storage!PlansAssumption, DiskInv, Storage!SidecarsKept
  <1>3. CallsInv
    BY DEF Storage!Init, CallsInv
  <1> QED BY <1>2, <1>3 DEF SidecarsInv

LEMMA SidecarsStep ==
    ASSUME SidecarsInv, [Storage!Next]_(Storage!vars)
    PROVE  SidecarsInv'
  <1>1. CASE Storage!Operator
    BY <1>1, OperatorKeeps, SameDisk DEF SidecarsInv
  <1>2. CASE Storage!Folder
    BY <1>2, FolderKeeps
  <1>3. CASE Storage!ScanLoaded \/ UNCHANGED Storage!vars
    <2>1. UNCHANGED <<server, calls, note>>
      BY <1>3 DEF Storage!ScanLoaded, Storage!vars
    <2> QED BY <2>1, SameDisk DEF SidecarsInv, CallsInv
  <1>4. CASE \E c \in calls : \/ Storage!PlanServed(c) \/ Storage!PlanAnswered(c)
                             \/ Storage!ApplyServed(c) \/ Storage!FollowUp(c)
                             \/ Storage!ApplyAnswered(c) \/ Storage!TimerFires(c)
                             \/ Storage!ListAnswered(c) \/ Storage!Fails(c)
    <2>1. PICK c \in calls : \/ Storage!PlanServed(c) \/ Storage!PlanAnswered(c)
                             \/ Storage!ApplyServed(c) \/ Storage!FollowUp(c)
                             \/ Storage!ApplyAnswered(c) \/ Storage!TimerFires(c)
                             \/ Storage!ListAnswered(c) \/ Storage!Fails(c)
      BY <1>4
    <2>2. CallsInv'
      BY <2>1, AnswersKeep DEF SidecarsInv
    <2>3. DiskInv' /\ Storage!SidecarsKept'
      <3>1. CASE Storage!ApplyServed(c)
        BY <3>1, ServedKeeps
      <3>2. CASE ~Storage!ApplyServed(c)
        <4>1. UNCHANGED <<server, note>>
          BY <2>1, <3>2 DEF Storage!PlanServed, Storage!PlanAnswered, Storage!FollowUp,
                            Storage!ApplyAnswered, Storage!TimerFires,
                            Storage!ListAnswered, Storage!Fails
        <4> QED BY <4>1, SameDisk
      <3> QED BY <3>1, <3>2
    <2> QED BY <2>2, <2>3 DEF SidecarsInv
  <1> QED BY <1>1, <1>2, <1>3, <1>4 DEF Storage!Next

\* The storage page's part of a state of the console.
StorageInv == area = "storage" => SidecarsInv

\* No flow of the storage page, in any number, order and overlap of dry runs,
\* requests, answers and timers, loses a sidecar a purge did not delete by the age
\* its plan was shown with.
THEOREM SidecarsAreKept == Spec => []SidecarsKept
  <1>1. Init => StorageInv
    BY SidecarsInit, PagesAssumption DEF Init, StorageInv
  <1>2. StorageInv /\ [Next]_vars => StorageInv'
    <2> SUFFICES ASSUME StorageInv, [Next]_vars, area' = "storage"
                 PROVE  SidecarsInv'
      BY DEF StorageInv
    <2>1. SidecarsInv /\ [Storage!Next]_(Storage!vars)
      BY DEF StorageInv, Next, vars, Storage!vars
    <2> QED BY <2>1, SidecarsStep
  <1>3. StorageInv => SidecarsKept
    BY DEF StorageInv, SidecarsInv, SidecarsKept
  <1> QED BY <1>1, <1>2, <1>3, PTL DEF Spec

(***************************************************************************)
(* What the queue page shows                                               *)
(***************************************************************************)

QueuePlans == [ready : BOOLEAN, claimable : SUBSET Jobs]
QueuePage ==
    [job : [Jobs -> Queue!Rows], archived : SUBSET Jobs, plan : QueuePlans,
     selected : SUBSET Jobs, filter : Queue!StatusFilters, narrow : SUBSET Jobs,
     status : {"idle", "loading", "bulk", "worker", "error"},
     flow : {"idle", "bulk", "downloading", "syncing", "error"},
     expanded : Jobs \cup {None}, file : [Jobs -> {"idle", "loading", "error"}],
     files : SUBSET Jobs, here : BOOLEAN, confirm : BOOLEAN, ready : BOOLEAN]
KitHooks ==
    [draft : Ledgers,
     preview : {None} \cup [of : Ledgers, stageable : SUBSET Jobs],
     staged : {None} \cup [of : Ledgers, videos : SUBSET Jobs, jobs : SUBSET Jobs],
     status : {"idle", "previewing", "done", "error"},
     stage : {"idle", "staging", "done", "error"},
     sync : {"idle", "syncing", "done", "error"},
     queue : {"idle", "preparing", "done", "error"},
     run : {"idle", "running", "done", "error"}, dialog : BOOLEAN]

\* What a handler carries and has read.
Carried(c) ==
    /\ DOMAIN c = {"slot", "op", "todo", "act", "jobs", "seen", "plan", "planned", "took", "ready", "failed"}
    /\ c.jobs \in SUBSET Jobs /\ c.ready \in BOOLEAN
    /\ c.op \in {"loadfile", "preview", "stage"} => c.jobs \in Ledgers
    /\ c.seen = None \/ c.seen \in [Jobs -> Queue!Rows]
    /\ c.plan = None \/ c.plan \in QueuePlans

QueueHooks == page \in QueuePage /\ kit \in KitHooks /\ note \in BOOLEAN /\ late \in BOOLEAN
QueueTypes == server \in Queue!Servers /\ QueueHooks /\ \A c \in calls : Carried(c)

\* The instances' cardinality is the library's.
LEMMA QueueFinite ==
    ASSUME NEW S
    PROVE  Queue!IsFiniteSet(S) <=> IsFiniteSet(S)
  BY Zenon DEF Queue!IsFiniteSet, IsFiniteSet

LEMMA QueueCardinality ==
    ASSUME NEW S
    PROVE  Queue!Cardinality(S) = Cardinality(S)
  BY Zenon DEF Queue!Cardinality, Cardinality

LEMMA LedgersAreJobs == Ledgers \subseteq SUBSET Jobs /\ {} \in Ledgers
  BY PagesAssumption DEF Queue!LedgersAssumption

\* The first of the staged jobs are staged jobs.
LEMMA FirstsExist ==
    ASSUME NEW S \in SUBSET Jobs, NEW n \in Nat
    PROVE  \E T \in Queue!Firsts(S, n) : TRUE
  <1>1. IsFiniteSet(S) /\ Cardinality(S) \in Nat
    BY PagesAssumption, QueueFinite, FS_Subset, FS_CardinalityType DEF Queue!JobsAssumption
  <1>2. PICK f : f \in Bijection(1..Cardinality(S), S)
    BY <1>1, FS_CardinalityType DEF ExistsBijection
  <1> DEFINE m == IF Cardinality(S) < n THEN Cardinality(S) ELSE n
             T == {f[i] : i \in 1..m}
  <1>3. m \in Nat /\ m <= Cardinality(S) /\ 1..m \subseteq 1..Cardinality(S)
    BY <1>1
  <1>4. T \subseteq S
    <2> HIDE DEF m
    <2> QED BY <1>2, <1>3 DEF Bijection, Injection, Surjection
  <1>5. [i \in 1..m |-> f[i]] \in Bijection(1..m, T)
    <2> HIDE DEF m
    <2> QED BY <1>2, <1>3 DEF Bijection, Injection, Surjection, IsInjective
  <1>6. Cardinality(T) = m
    <2> HIDE DEF m, T
    <2>1. IsFiniteSet(1..m) /\ Cardinality(1..m) = m
      BY <1>3, FS_Interval
    <2> QED BY <1>5, <2>1, FS_Bijection DEF ExistsBijection
  <1>7. T \in Queue!Firsts(S, n)
    <2> HIDE DEF m
    <2>1. Queue!Cardinality(T) = IF Queue!Cardinality(S) < n THEN Queue!Cardinality(S) ELSE n
      BY <1>6, QueueCardinality DEF m
    <2> HIDE DEF T
    <2> QED BY <1>4, <2>1 DEF Queue!Firsts
  <1> QED BY <1>7

LEMMA RunJobsOK ==
    ASSUME kit \in KitHooks
    PROVE  Queue!ArchiveTxtRunJobIds \in SUBSET Jobs
  <1>1. CASE kit.staged = None
    BY <1>1 DEF Queue!ArchiveTxtRunJobIds
  <1>2. CASE kit.staged # None
    <2>1. kit.staged.jobs \in SUBSET Jobs
      BY <1>2 DEF KitHooks
    <2>2. PassLimit \in Nat
      BY PagesAssumption DEF Queue!PassLimitAssumption
    <2>3. \E T \in Queue!Firsts(kit.staged.jobs, PassLimit) : TRUE
      BY <2>1, <2>2, FirstsExist
    <2>4. Queue!ArchiveTxtRunJobIds \in Queue!Firsts(kit.staged.jobs, PassLimit)
      BY <1>2, <2>3 DEF Queue!ArchiveTxtRunJobIds
    <2> QED BY <2>1, <2>4 DEF Queue!Firsts
  <1> QED BY <1>1, <1>2

LEMMA NewCarries ==
    ASSUME NEW slot, NEW op, NEW todo, NEW act, NEW jobs \in SUBSET Jobs,
           op \in {"loadfile", "preview", "stage"} => jobs \in Ledgers
    PROVE  Carried(Queue!Call(slot, op, todo, act, jobs))
  BY DEF Carried, Queue!Call

LEMMA LoadCarries == Carried(Queue!Load)
  <1>1. {} \in SUBSET Jobs
    OBVIOUS
  <1> QED BY <1>1, NewCarries DEF Queue!Load

\* A handler begins, of the queue page or of the kit.
LEMMA BeginTyped ==
    ASSUME QueueTypes, NEW op, NEW todo, NEW act, NEW jobs \in SUBSET Jobs,
           op \in {"loadfile", "preview", "stage"} => jobs \in Ledgers,
           NEW p \in QueuePage, Queue!BeginWith(op, todo, act, jobs, p),
           kit' \in KitHooks, late' \in BOOLEAN
    PROVE  QueueTypes'
  <1>1. PICK d : d = Queue!Call(Queue!FreeSlot, op, todo, act, jobs)
    OBVIOUS
  <1>2. Carried(d) /\ Carried(Queue!Load)
    BY <1>1, NewCarries, LoadCarries
  <1>3. page' = p /\ server' = server /\ note' \in BOOLEAN
        /\ calls' \subseteq calls \cup {d, Queue!Load}
    BY <1>1 DEF Queue!BeginWith
  <1> QED BY <1>2, <1>3 DEF QueueTypes, QueueHooks

LEMMA EditTyped ==
    ASSUME QueueTypes, page' \in QueuePage, kit' \in KitHooks, late' \in BOOLEAN, note' \in BOOLEAN,
           server' \in Queue!Servers, NEW c, NEW d, Carried(d),
           calls' \subseteq (calls \ {c}) \cup {d, Queue!Load}
    PROVE  QueueTypes'
  BY LoadCarries DEF QueueTypes, QueueHooks

LEMMA StaysTyped ==
    ASSUME QueueTypes, page' \in QueuePage, kit' \in KitHooks, late' \in BOOLEAN, note' \in BOOLEAN,
           server' \in Queue!Servers, calls' \subseteq calls \cup {Queue!Load}
    PROVE  QueueTypes'
  BY LoadCarries DEF QueueTypes, QueueHooks

LEMMA PageOperatorTyped ==
    ASSUME QueueTypes, Queue!Operator, UNCHANGED <<kit, late>>
    PROVE  QueueTypes'
  <1>0. /\ page \in QueuePage /\ kit' \in KitHooks /\ late' \in BOOLEAN /\ server \in Queue!Servers
        /\ note \in BOOLEAN /\ {} \in SUBSET Jobs
    BY DEF QueueTypes, QueueHooks
  <1>1. ASSUME NEW p \in QueuePage, Queue!Edit(p)
        PROVE  QueueTypes'
    BY <1>0, <1>1, StaysTyped DEF Queue!Edit
  <1>2. ASSUME NEW op \in Queue!QueueOps, NEW act, NEW jobs \in SUBSET Jobs, NEW p \in QueuePage,
               Queue!Begin(op, act, jobs, p)
        PROVE  QueueTypes'
    BY <1>0, <1>2, BeginTyped DEF Queue!Begin, Queue!QueueOps
  <1>3. ASSUME NEW j \in Jobs, Queue!HandleToggleQueueConsoleJobSelection(j)
        PROVE  QueueTypes'
    <2>1. PICK S \in SUBSET Jobs : Queue!Edit([page EXCEPT !.selected = S])
      BY <1>0, <1>3 DEF QueuePage, Queue!HandleToggleQueueConsoleJobSelection
    <2>2. [page EXCEPT !.selected = S] \in QueuePage
      BY <1>0 DEF QueuePage
    <2> QED BY <1>1, <2>1, <2>2
  <1>4. CASE Queue!HandleSelectVisibleQueueConsoleJobs
    <2>0. Queue!VisibleQueueConsoleActionableJobs \in SUBSET Jobs
      BY <1>0 DEF QueuePage, Queue!VisibleQueueConsoleActionableJobs, Queue!FilteredQueueConsoleJobs
    <2>1. PICK S \in SUBSET Jobs : Queue!Edit([page EXCEPT !.selected = S])
      BY <1>0, <1>4, <2>0 DEF QueuePage, Queue!HandleSelectVisibleQueueConsoleJobs
    <2>2. [page EXCEPT !.selected = S] \in QueuePage
      BY <1>0 DEF QueuePage
    <2> QED BY <1>1, <2>1, <2>2
  <1>5. ASSUME NEW f \in Queue!StatusFilters, NEW narrow \in SUBSET Jobs
        PROVE  [page EXCEPT !.filter = f, !.narrow = narrow] \in QueuePage
    BY <1>0 DEF QueuePage
  <1>6. CASE \/ Queue!HandleResetQueueConsoleFilters
             \/ \E f \in Queue!StatusFilters : Queue!EditFilter(f, page.narrow)
             \/ \E narrow \in SUBSET Jobs : Queue!EditFilter(page.filter, narrow)
    <2>1. PICK f \in Queue!StatusFilters, narrow \in SUBSET Jobs :
              Queue!Edit([page EXCEPT !.filter = f, !.narrow = narrow])
      <3>1. page.filter \in Queue!StatusFilters /\ page.narrow \in SUBSET Jobs
            /\ "all" \in Queue!StatusFilters /\ Jobs \in SUBSET Jobs
        BY <1>0 DEF QueuePage, Queue!StatusFilters
      <3> QED BY <1>6, <3>1 DEF Queue!HandleResetQueueConsoleFilters, Queue!EditFilter
    <2> QED BY <1>1, <1>5, <2>1
  <1>7. ASSUME NEW j \in Jobs, Queue!HandleToggleQueueConsoleDetails(j)
        PROVE  QueueTypes'
    <2>1. \A e \in Jobs \cup {None} : [page EXCEPT !.expanded = e] \in QueuePage
      BY <1>0 DEF QueuePage
    <2>2. [page EXCEPT !.expanded = j, !.file[j] = "loading"] \in QueuePage
      BY <1>0 DEF QueuePage
    <2>3. "files" \in Queue!QueueOps
      BY DEF Queue!QueueOps
    <2> QED BY <1>1, <1>2, <1>7, <2>1, <2>2, <2>3 DEF Queue!HandleToggleQueueConsoleDetails
  <1>8. ASSUME NEW s \in {"idle", "loading", "bulk", "worker", "error"}
        PROVE  [page EXCEPT !.status = s] \in QueuePage
    BY <1>0 DEF QueuePage
  <1>9. CASE \/ \E act \in Queue!BulkActions : Queue!HandleQueueConsoleBulkAction(act)
             \/ \E j \in Jobs : \E act \in {"retry", "cancel", "stop"} :
                     Queue!HandleQueueConsoleJobAction(j, act)
    <2>1. page.selected \in SUBSET Jobs /\ {"bulk", "row"} \subseteq Queue!QueueOps
      BY <1>0 DEF QueuePage, Queue!QueueOps
    <2>2. ASSUME NEW op \in {"bulk", "row"}, NEW act, NEW jobs \in SUBSET Jobs,
                 Queue!Begin(op, act, jobs, [page EXCEPT !.status = "bulk"])
          PROVE  QueueTypes'
      BY <1>2, <1>8, <2>1, <2>2
    <2>3. CASE \E act \in Queue!BulkActions : Queue!HandleQueueConsoleBulkAction(act)
      BY <2>1, <2>2, <2>3 DEF Queue!HandleQueueConsoleBulkAction
    <2>4. ASSUME NEW j \in Jobs, NEW act, Queue!HandleQueueConsoleJobAction(j, act)
          PROVE  QueueTypes'
      <3>1. {j} \in SUBSET Jobs
        OBVIOUS
      <3> QED BY <2>2, <2>4, <3>1 DEF Queue!HandleQueueConsoleJobAction
    <2> QED BY <1>9, <2>3, <2>4
  <1>10. CASE \/ Queue!HandleOpenQueueConsoleRunConfirm \/ Queue!HandleRefreshQueueConsole
    <2>1. {"open", "refresh"} \subseteq Queue!QueueOps
      BY DEF Queue!QueueOps
    <2>2. \E op \in {"open", "refresh"} : Queue!Begin(op, None, {}, [page EXCEPT !.status = "loading"])
      BY <1>10 DEF Queue!HandleOpenQueueConsoleRunConfirm, Queue!HandleRefreshQueueConsole
    <2> QED BY <1>0, <1>2, <1>8, <2>1, <2>2
  <1>11. CASE Queue!HandleQueueConsoleRunWorker \/ Queue!HandleApplyRescan \/ Queue!QueueEventArrives
    <2>1. /\ [page EXCEPT !.confirm = FALSE, !.status = "worker", !.flow = "downloading"] \in QueuePage
          /\ [page EXCEPT !.flow = "bulk"] \in QueuePage
      BY <1>0 DEF QueuePage
    <2>2. {"run", "rescan", "event"} \subseteq Queue!QueueOps
      BY DEF Queue!QueueOps
    <2>3. CASE Queue!HandleQueueConsoleRunWorker
      BY <1>0, <1>2, <2>1, <2>2, <2>3 DEF Queue!HandleQueueConsoleRunWorker
    <2>4. CASE Queue!HandleApplyRescan
      BY <1>0, <1>2, <2>1, <2>2, <2>4 DEF Queue!HandleApplyRescan
    <2>5. CASE Queue!QueueEventArrives
      BY <1>0, <1>2, <2>2, <2>5 DEF Queue!QueueEventArrives
    <2> QED BY <1>11, <2>3, <2>4, <2>5
  <1>12. CASE Queue!CloseConfirm \/ Queue!GoToQueue \/ Queue!LeaveQueue
    <2>1. /\ [page EXCEPT !.confirm = FALSE] \in QueuePage
          /\ \A h \in BOOLEAN : [page EXCEPT !.here = h] \in QueuePage
      BY <1>0 DEF QueuePage
    <2>2. /\ page' \in QueuePage /\ server' = server /\ note' \in BOOLEAN
          /\ calls' \subseteq calls \cup {Queue!Load}
      BY <1>0, <1>12, <2>1 DEF Queue!CloseConfirm, Queue!GoToQueue, Queue!LeaveQueue
    <2> QED BY <1>0, <2>2, StaysTyped
  <1> QED
    BY <1>3, <1>4, <1>6, <1>7, <1>9, <1>10, <1>11, <1>12 DEF Queue!Operator

LEMMA ServerTyped ==
    ASSUME QueueTypes, Queue!Server, UNCHANGED <<kit, late>>
    PROVE  QueueTypes'
  <1>0. /\ page \in QueuePage /\ kit' \in KitHooks /\ late' \in BOOLEAN /\ server \in Queue!Servers
        /\ note \in BOOLEAN
    BY DEF QueueTypes, QueueHooks
  <1>1. page' = page /\ calls' = calls /\ note' \in BOOLEAN
    BY <1>0 DEF Queue!Server, Queue!BackgroundTakes, Queue!RunEnds, Queue!WorkerSwitched, Queue!Outside
  <1>2. server' \in Queue!Servers
    <2>1. ASSUME NEW j \in Jobs, NEW s \in Queue!Rows, NEW A \in SUBSET Jobs
          PROVE  [server EXCEPT !.job[j] = s, !.archived = A] \in Queue!Servers
      BY <1>0 DEF Queue!Servers
    <2>2. ASSUME NEW j \in Jobs, NEW s \in Queue!Rows
          PROVE  [server EXCEPT !.job[j] = s] \in Queue!Servers
      BY <1>0 DEF Queue!Servers
    <2>3. {"running", "completed", "failed"} \subseteq Queue!Rows
      BY DEF Queue!Rows
    <2>4. CASE \E j \in Jobs : Queue!BackgroundTakes(j)
      BY <2>2, <2>3, <2>4 DEF Queue!BackgroundTakes, Queue!Outside
    <2>5. ASSUME NEW j \in Jobs, NEW s \in {"completed", "failed"}, Queue!RunEnds(j, s)
          PROVE  server' \in Queue!Servers
      <3>1. server.archived \in SUBSET Jobs
        BY <1>0 DEF Queue!Servers
      <3>2. PICK A \in SUBSET Jobs : server' = [server EXCEPT !.job[j] = s, !.archived = A]
        BY <2>5, <3>1 DEF Queue!RunEnds
      <3> QED BY <2>1, <2>3, <3>2
    <2>6. CASE Queue!WorkerSwitched
      <3>1. [server EXCEPT !.ready = ~@] \in Queue!Servers
        BY <1>0 DEF Queue!Servers
      <3> QED BY <2>6, <3>1 DEF Queue!WorkerSwitched, Queue!Outside
    <2> QED BY <2>4, <2>5, <2>6 DEF Queue!Server
  <1> QED BY <1>0, <1>1, <1>2, StaysTyped

\* A call with other fields is typed as well.
LEMMA GoesOnTyped ==
    ASSUME QueueTypes, NEW c \in calls, NEW d, DOMAIN d = DOMAIN c, d.op = c.op, d.jobs = c.jobs,
           d.seen = c.seen \/ d.seen \in [Jobs -> Queue!Rows],
           d.plan = c.plan \/ d.plan \in QueuePlans,
           d.ready = c.ready \/ d.ready \in BOOLEAN
    PROVE  Carried(d)
  BY DEF QueueTypes, Carried

LEMMA PlanTyped ==
    ASSUME server \in Queue!Servers
    PROVE  Queue!Plan \in QueuePlans
  BY DEF Queue!Servers, Queue!Plan, QueuePlans

LEMMA ReadsTyped ==
    ASSUME QueueTypes, NEW c \in calls, Queue!Reads(c), UNCHANGED <<kit, late>>
    PROVE  QueueTypes'
  <1>0. /\ page \in QueuePage /\ kit' \in KitHooks /\ late' \in BOOLEAN /\ server \in Queue!Servers
        /\ note \in BOOLEAN
        /\ DOMAIN c = {"slot", "op", "todo", "act", "jobs", "seen", "plan", "planned", "took", "ready", "failed"}
    BY DEF QueueTypes, QueueHooks, Carried
  <1>1. page' = page /\ note' = note
    BY DEF Queue!Reads, Queue!ReadJobs, Queue!ReadPlan, Queue!PassStarts, Queue!PassOver,
           Queue!PassTakes
  <1>2. ASSUME NEW d, Queue!Becomes(c, d), Carried(d), server' \in Queue!Servers
        PROVE  QueueTypes'
    BY <1>0, <1>1, <1>2, EditTyped DEF Queue!Becomes
  <1>3. CASE Queue!ReadJobs(c)
    <2>1. PICK d : d = [c EXCEPT !.seen = server.job] /\ Queue!Becomes(c, d) /\ server' = server
      BY <1>3 DEF Queue!ReadJobs
    <2>2. /\ DOMAIN d = DOMAIN c /\ d.op = c.op /\ d.jobs = c.jobs /\ d.seen = server.job
          /\ d.plan = c.plan /\ d.ready = c.ready
      BY <1>0, <2>1
    <2>3. server.job \in [Jobs -> Queue!Rows]
      BY <1>0 DEF Queue!Servers
    <2> QED BY <1>0, <1>2, <2>1, <2>2, <2>3, GoesOnTyped
  <1>4. CASE Queue!ReadPlan(c)
    <2>1. PICK d, p : p = Queue!Plan /\ d = [c EXCEPT !.plan = p] /\ Queue!Becomes(c, d) /\ server' = server
      BY <1>4 DEF Queue!ReadPlan
    <2>2. /\ DOMAIN d = DOMAIN c /\ d.op = c.op /\ d.jobs = c.jobs /\ d.plan = p
          /\ d.seen = c.seen /\ d.ready = c.ready
      BY <1>0, <2>1
    <2> QED BY <1>0, <1>2, <2>1, <2>2, PlanTyped, GoesOnTyped
  <1>5. CASE Queue!PassStarts(c)
    <2>1. PICK d, S : d = [c EXCEPT !.todo = Tail(@), !.planned = S] /\ Queue!Becomes(c, d) /\ server' = server
      BY <1>5 DEF Queue!PassStarts
    <2>2. /\ DOMAIN d = DOMAIN c /\ d.op = c.op /\ d.jobs = c.jobs /\ d.plan = c.plan
          /\ d.seen = c.seen /\ d.ready = c.ready
      BY <1>0, <2>1
    <2> QED BY <1>0, <1>2, <2>1, <2>2, GoesOnTyped
  <1>6. CASE Queue!PassOver(c)
    <2>1. PICK d, f : d = [c EXCEPT !.todo = Tail(@), !.ready = server.ready, !.failed = f]
                      /\ Queue!Becomes(c, d) /\ server' = server
      BY <1>6 DEF Queue!PassOver
    <2>2. /\ DOMAIN d = DOMAIN c /\ d.op = c.op /\ d.jobs = c.jobs /\ d.plan = c.plan
          /\ d.seen = c.seen /\ d.ready = server.ready
      BY <1>0, <2>1
    <2>3. server.ready \in BOOLEAN
      BY <1>0 DEF Queue!Servers
    <2> QED BY <1>0, <1>2, <2>1, <2>2, <2>3, GoesOnTyped
  <1>7. ASSUME NEW j \in c.planned, Queue!PassTakes(c, j)
        PROVE  QueueTypes'
    <2>1. PICK d, S : d = [c EXCEPT !.took = S] /\ Queue!Becomes(c, d)
                      /\ server' = [server EXCEPT !.job[j] = "running"]
      BY <1>7 DEF Queue!PassTakes
    <2>2. /\ DOMAIN d = DOMAIN c /\ d.op = c.op /\ d.jobs = c.jobs /\ d.plan = c.plan
          /\ d.seen = c.seen /\ d.ready = c.ready
      BY <1>0, <2>1
    <2>3. server' \in Queue!Servers
      BY <1>0, <2>1 DEF Queue!Servers, Queue!Rows
    <2> QED BY <1>0, <1>2, <2>1, <2>2, <2>3, GoesOnTyped
  <1> QED BY <1>3, <1>4, <1>5, <1>6, <1>7 DEF Queue!Reads

\* What the page becomes with what was read, and when a handler ends or fails.
LEMMA EndedTyped ==
    ASSUME NEW c, Carried(c), NEW p \in QueuePage
    PROVE  Queue!Ended(c, p) \in QueuePage
  <1>1. PICK s \in {"idle", "error"} : s = IF c.failed THEN "error" ELSE "idle"
    OBVIOUS
  <1>2. [p EXCEPT !.status = "idle", !.confirm = TRUE] \in QueuePage
    BY DEF QueuePage
  <1>3. [p EXCEPT !.status = "idle"] \in QueuePage /\ [p EXCEPT !.flow = "idle"] \in QueuePage
    BY DEF QueuePage
  <1>4. [p EXCEPT !.status = s, !.flow = s] \in QueuePage
    BY DEF QueuePage
  <1>5. PICK f : f = [j \in Jobs |-> IF j \in c.jobs THEN "idle" ELSE p.file[j]]
    OBVIOUS
  <1>6. f \in [Jobs -> {"idle", "loading", "error"}] /\ c.jobs \in SUBSET Jobs
    BY <1>5 DEF QueuePage, Carried
  <1>7. [p EXCEPT !.file = f, !.files = p.files \cup c.jobs] \in QueuePage
    BY <1>6 DEF QueuePage
  <1>8. CASE c.op = "run"
    BY <1>1, <1>4, <1>8 DEF Queue!Ended
  <1>9. CASE c.op = "files"
    BY <1>5, <1>7, <1>9 DEF Queue!Ended
  <1>10. CASE c.op \notin {"run", "files"}
    BY <1>2, <1>3, <1>10 DEF Queue!Ended
  <1> QED BY <1>8, <1>9, <1>10

LEMMA FailedTyped ==
    ASSUME NEW c, Carried(c), page \in QueuePage
    PROVE  Queue!Failed(c) \in QueuePage
  <1>1. /\ [page EXCEPT !.flow = "error"] \in QueuePage
        /\ [page EXCEPT !.status = "error", !.flow = "error"] \in QueuePage
    BY DEF QueuePage
  <1>2. PICK f : f = [j \in Jobs |-> IF j \in c.jobs THEN "error" ELSE page.file[j]]
    OBVIOUS
  <1>3. f \in [Jobs -> {"idle", "loading", "error"}]
    BY <1>2 DEF QueuePage
  <1>4. [page EXCEPT !.file = f] \in QueuePage
    BY <1>3 DEF QueuePage
  <1> QED BY <1>1, <1>2, <1>4 DEF Queue!Failed

LEMMA AppliedTyped ==
    ASSUME NEW c, Carried(c), page \in QueuePage, c.seen # None, c.plan # None
    PROVE  Queue!ApplyGlobalDownloadJobs(c) \in QueuePage
  <1>1. PICK S \in SUBSET Jobs :
           Queue!ApplyGlobalDownloadJobs(c) = [page EXCEPT !.job = c.seen, !.plan = c.plan, !.selected = S]
    BY DEF QueuePage, Queue!ApplyGlobalDownloadJobs
  <1>2. c.seen \in [Jobs -> Queue!Rows] /\ c.plan \in QueuePlans
    BY DEF Carried
  <1> QED BY <1>1, <1>2 DEF QueuePage

LEMMA ShownTyped ==
    ASSUME NEW c, Carried(c), NEW p \in QueuePage
    PROVE  Queue!Shown(c, p) \in QueuePage
  BY EndedTyped DEF Queue!Shown

\* A handler goes on or ends.
LEMMA GoesOnKeepsTypes ==
    ASSUME QueueTypes, NEW c \in calls, Queue!GoesOn(c), page' \in QueuePage, kit' \in KitHooks,
           late' \in BOOLEAN, note' \in BOOLEAN, server' \in Queue!Servers
    PROVE  QueueTypes'
  <1>1. PICK d : d = [c EXCEPT !.todo = Tail(@)]
    OBVIOUS
  <1>2. DOMAIN c = {"slot", "op", "todo", "act", "jobs", "seen", "plan", "planned", "took", "ready", "failed"}
    BY DEF QueueTypes, Carried
  <1>3. /\ DOMAIN d = DOMAIN c /\ d.op = c.op /\ d.jobs = c.jobs /\ d.plan = c.plan
        /\ d.seen = c.seen /\ d.ready = c.ready
    BY <1>1, <1>2
  <1>4. Carried(d)
    BY <1>3, GoesOnTyped
  <1>5. calls' \subseteq (calls \ {c}) \cup {d, Queue!Load}
    BY <1>1 DEF Queue!GoesOn
  <1> QED BY <1>4, <1>5, EditTyped

LEMMA EffectTyped ==
    ASSUME server \in Queue!Servers, NEW act, NEW S
    PROVE  Queue!Effect(act, S) \in Queue!Servers
  <1>1. ASSUME NEW from, NEW to \in Queue!Rows
        PROVE  Queue!Rewrite(S, from, to) \in Queue!Servers
    BY DEF Queue!Servers, Queue!Rewrite
  <1>2. {"queued", "cancelled"} \subseteq Queue!Rows
    BY DEF Queue!Rows
  <1> QED BY <1>1, <1>2 DEF Queue!Effect

LEMMA AwaitsTyped ==
    ASSUME QueueTypes, NEW c \in calls, kit' \in KitHooks, late' \in BOOLEAN,
           \/ Queue!Acted(c) \/ Queue!RefreshQueueConsoleState(c) \/ Queue!LoadChannelState(c)
           \/ Queue!ReadRest(c)
    PROVE  QueueTypes'
  <1>0. /\ page \in QueuePage /\ server \in Queue!Servers /\ note \in BOOLEAN /\ Carried(c)
    BY DEF QueueTypes, QueueHooks
  <1>1. CASE Queue!Acted(c)
    BY <1>0, <1>1, EffectTyped, GoesOnKeepsTypes DEF Queue!Acted
  <1>2. CASE Queue!RefreshQueueConsoleState(c)
    <2>1. page' \in QueuePage
      BY <1>0, <1>2, AppliedTyped, ShownTyped DEF Queue!RefreshQueueConsoleState
    <2> QED BY <1>0, <1>2, <2>1, GoesOnKeepsTypes DEF Queue!RefreshQueueConsoleState
  <1>3. CASE Queue!LoadChannelState(c)
    <2>1. [page EXCEPT !.ready = server.ready, !.archived = server.archived] \in QueuePage
      BY <1>0 DEF QueuePage, Queue!Servers
    <2>2. page' \in QueuePage
      BY <1>0, <1>3, <2>1, ShownTyped DEF Queue!LoadChannelState
    <2> QED BY <1>0, <1>3, <2>2, GoesOnKeepsTypes DEF Queue!LoadChannelState
  <1>4. CASE Queue!ReadRest(c)
    BY <1>0, <1>4, ShownTyped, GoesOnKeepsTypes DEF Queue!ReadRest
  <1> QED BY <1>1, <1>2, <1>3, <1>4

LEMMA AnswersTyped ==
    ASSUME QueueTypes, NEW c \in calls, Queue!Answers(c), UNCHANGED <<kit, late>>
    PROVE  QueueTypes'
  <1>0. /\ page \in QueuePage /\ kit' \in KitHooks /\ late' \in BOOLEAN /\ server \in Queue!Servers
        /\ note \in BOOLEAN /\ Carried(c)
    BY DEF QueueTypes, QueueHooks
  <1>1. CASE Queue!Fails(c)
    BY <1>0, <1>1, FailedTyped, StaysTyped DEF Queue!Fails
  <1> QED BY <1>0, <1>1, AwaitsTyped DEF Queue!Answers

-----------------------------------------------------------------------------
(* The kit.                                                                *)

LEMMA KitOperatorTyped ==
    ASSUME QueueTypes, Queue!KitOperator
    PROVE  QueueTypes'
  <1>0. /\ page \in QueuePage /\ kit \in KitHooks /\ late \in BOOLEAN /\ server \in Queue!Servers
        /\ note \in BOOLEAN /\ {} \in SUBSET Jobs /\ Ledgers \subseteq SUBSET Jobs
    BY LedgersAreJobs DEF QueueTypes, QueueHooks
  <1>1. ASSUME NEW op, NEW act, NEW jobs \in SUBSET Jobs, NEW p \in QueuePage, NEW k \in KitHooks,
               op \in {"loadfile", "preview", "stage"} => jobs \in Ledgers,
               Queue!BeginKit(op, act, jobs, p, k)
        PROVE  QueueTypes'
    BY <1>0, <1>1, BeginTyped DEF Queue!BeginKit
  <1>2. ASSUME NEW ledger \in Ledgers, Queue!EditArchiveTxtDraft(ledger)
        PROVE  QueueTypes'
    <2>1. [kit EXCEPT !.draft = ledger] \in KitHooks
      BY <1>0 DEF KitHooks
    <2>2. \A k \in KitHooks : Queue!ResetArchiveTxtReviewState(k) \in KitHooks
      BY DEF KitHooks, Queue!ResetArchiveTxtReviewState
    <2>3. kit' \in KitHooks /\ late' \in BOOLEAN
      BY <1>2, <2>1, <2>2 DEF Queue!EditArchiveTxtDraft, Queue!ReplaceArchiveTxtDraft, Queue!Asking
    <2>4. page' = page /\ server' = server /\ calls' = calls /\ note' = note
      BY <1>2 DEF Queue!EditArchiveTxtDraft, Queue!Edit
    <2> QED BY <1>0, <2>3, <2>4, StaysTyped
  <1>3. ASSUME NEW ledger \in Ledgers, Queue!LoadArchiveTxtFile(ledger)
        PROVE  QueueTypes'
    BY <1>0, <1>1, <1>3 DEF Queue!LoadArchiveTxtFile
  <1>4. CASE Queue!HandlePreviewArchiveTxt
    <2>1. [kit EXCEPT !.status = "previewing", !.stage = "idle", !.staged = None,
                            !.sync = "idle", !.queue = "idle"] \in KitHooks
      BY <1>0 DEF KitHooks
    <2>2. kit.draft \in Ledgers /\ kit.draft \in SUBSET Jobs
      BY <1>0 DEF KitHooks
    <2> QED BY <1>0, <1>1, <1>4, <2>1, <2>2 DEF Queue!HandlePreviewArchiveTxt
  <1>5. CASE Queue!HandleStageArchiveTxt
    <2>1. [kit EXCEPT !.stage = "staging", !.sync = "idle", !.queue = "idle"] \in KitHooks
      BY <1>0 DEF KitHooks
    <2>2. kit.draft \in Ledgers /\ kit.draft \in SUBSET Jobs
      BY <1>0 DEF KitHooks
    <2> QED BY <1>0, <1>1, <1>5, <2>1, <2>2 DEF Queue!HandleStageArchiveTxt
  <1>6. CASE Queue!HandleArchiveTxtOpenQueue
    <2>1. kit.staged.jobs \in SUBSET Jobs
      BY <1>0, <1>6 DEF KitHooks, Queue!HandleArchiveTxtOpenQueue, Queue!QueueHandoffOffers
    <2>2. PICK S \in SUBSET Jobs : S = kit.staged.jobs
      BY <2>1
    <2>3. [page EXCEPT !.here = TRUE, !.filter = "launchable", !.narrow = Jobs,
                       !.selected = S, !.status = "loading"] \in QueuePage
      BY <1>0 DEF QueuePage, Queue!StatusFilters
    <2> QED BY <1>0, <1>1, <1>6, <2>2, <2>3 DEF Queue!HandleArchiveTxtOpenQueue
  <1>7. CASE Queue!HandleArchiveTxtPrepareQueue
    <2>1. [kit EXCEPT !.queue = "preparing"] \in KitHooks
      BY <1>0 DEF KitHooks
    <2>2. [page EXCEPT !.status = "bulk", !.flow = "bulk"] \in QueuePage
      BY <1>0 DEF QueuePage
    <2> QED BY <1>0, <1>1, <1>7, <2>1, <2>2, RunJobsOK DEF Queue!HandleArchiveTxtPrepareQueue
  <1>8. CASE Queue!HandleArchiveTxtOpenRunConfirm
    <2>1. [kit EXCEPT !.run = "idle"] \in KitHooks
      BY <1>0 DEF KitHooks
    <2> QED BY <1>0, <1>1, <1>8, <2>1 DEF Queue!HandleArchiveTxtOpenRunConfirm
  <1>9. CASE Queue!HandleArchiveTxtPrepareAndRun
    <2>1. [kit EXCEPT !.run = "running", !.queue = "preparing"] \in KitHooks
      BY <1>0 DEF KitHooks
    <2>2. [page EXCEPT !.status = "worker", !.flow = "downloading"] \in QueuePage
      BY <1>0 DEF QueuePage
    <2> QED BY <1>0, <1>1, <1>9, <2>1, <2>2, RunJobsOK DEF Queue!HandleArchiveTxtPrepareAndRun
  <1>10. CASE Queue!CloseRunDialog
    <2>1. [kit EXCEPT !.dialog = FALSE] \in KitHooks
      BY <1>0 DEF KitHooks
    <2> QED BY <1>0, <1>10, <2>1, StaysTyped DEF Queue!CloseRunDialog, Queue!vars
  <1>11. CASE Queue!HandleArchiveTxtMetadataSync
    <2>1. [kit EXCEPT !.sync = "syncing"] \in KitHooks /\ [page EXCEPT !.flow = "syncing"] \in QueuePage
      BY <1>0 DEF KitHooks, QueuePage
    <2> QED BY <1>0, <1>1, <1>11, <2>1 DEF Queue!HandleArchiveTxtMetadataSync
  <1> QED
    BY <1>2, <1>3, <1>4, <1>5, <1>6, <1>7, <1>8, <1>9, <1>10, <1>11 DEF Queue!KitOperator

LEMMA KitAnswersTyped ==
    ASSUME QueueTypes, StuckQueueInv, NEW c \in calls, c.op \in Queue!KitOps, Queue!KitAnswers(c)
    PROVE  QueueTypes'
  <1>0. /\ page \in QueuePage /\ kit \in KitHooks /\ late \in BOOLEAN /\ server \in Queue!Servers
        /\ note \in BOOLEAN /\ Carried(c) /\ Ledgers \subseteq SUBSET Jobs
    BY LedgersAreJobs DEF QueueTypes, QueueHooks
  <1>1. Queue!Stage(c) \in StagesOf(c.op)
    BY StageOK
  <1>2. ASSUME NEW p, NEW k, p \in QueuePage, k \in KitHooks, page' = p, kit' = k, server' = server,
               note' \in BOOLEAN, late' \in BOOLEAN,
               \/ Queue!Ends(c) \/ Queue!Arrives(c, {})
        PROVE  QueueTypes'
    BY <1>0, <1>2, StaysTyped DEF Queue!Ends, Queue!Arrives
  <1>3. CASE Queue!Follows(c)
    BY <1>0, <1>3, AwaitsTyped DEF Queue!Follows
  <1>4. CASE Queue!FileRead(c)
    <2>1. c.jobs \in Ledgers
      BY <1>0, <1>1, <1>4 DEF Queue!FileRead, StagesOf, Carried
    <2>2. [kit EXCEPT !.draft = c.jobs] \in KitHooks
      BY <1>0, <2>1 DEF KitHooks
    <2>3. \A k \in KitHooks : Queue!ResetArchiveTxtReviewState(k) \in KitHooks
      BY DEF KitHooks, Queue!ResetArchiveTxtReviewState
    <2>4. kit' \in KitHooks /\ late' \in BOOLEAN
      BY <1>4, <2>2, <2>3 DEF Queue!FileRead, Queue!ReplaceArchiveTxtDraft, Queue!Asking
    <2>5. [page EXCEPT !.flow = "idle"] \in QueuePage
      BY <1>0 DEF QueuePage
    <2> QED BY <1>0, <1>2, <1>4, <2>4, <2>5 DEF Queue!FileRead
  <1>5. CASE Queue!PreviewAnswered(c)
    <2>1. c.jobs \in Ledgers
      BY <1>0, <1>1, <1>5 DEF Queue!PreviewAnswered, StagesOf, Carried
    <2>2. PICK v \in [of : Ledgers, stageable : SUBSET Jobs] : v = Queue!PreviewArchiveTxt(c.jobs)
      BY <1>0, <2>1 DEF Queue!PreviewArchiveTxt
    <2>3. [kit EXCEPT !.preview = v, !.status = "done"] \in KitHooks
      BY <1>0 DEF KitHooks
    <2>4. [page EXCEPT !.flow = "idle"] \in QueuePage
      BY <1>0 DEF QueuePage
    <2> QED BY <1>0, <1>2, <1>5, <2>2, <2>3, <2>4 DEF Queue!PreviewAnswered
  <1>6. CASE Queue!StageAnswered(c)
    <2>1. c.jobs \in Ledgers
      BY <1>0, <1>1, <1>6 DEF Queue!StageAnswered, StagesOf, Carried
    <2>2. PICK v \in [of : Ledgers, stageable : SUBSET Jobs] : v = Queue!PreviewArchiveTxt(c.jobs)
      BY <1>0, <2>1 DEF Queue!PreviewArchiveTxt
    <2>3. PICK w \in [of : Ledgers, videos : SUBSET Jobs, jobs : SUBSET Jobs] :
                w = Queue!StageArchiveTxt(c.jobs)
      BY <1>0, <2>1 DEF Queue!StageArchiveTxt, Queue!StageableJobs
    <2>4. [kit EXCEPT !.staged = w, !.stage = "done", !.preview = v] \in KitHooks
      BY <1>0 DEF KitHooks
    <2>5. [page EXCEPT !.flow = "idle"] \in QueuePage
      BY <1>0 DEF QueuePage
    <2>6. server' \in Queue!Servers
      BY <1>0, <1>6 DEF Queue!StageAnswered, Queue!Servers, Queue!Rows
    <2> QED BY <1>0, <1>6, <2>2, <2>3, <2>4, <2>5, <2>6, GoesOnKeepsTypes DEF Queue!StageAnswered
  <1>7. CASE Queue!RunPlanRead(c)
    <2>1. /\ [page EXCEPT !.ready = server.ready] \in QueuePage
          /\ [kit EXCEPT !.dialog = TRUE] \in KitHooks
      BY <1>0 DEF QueuePage, KitHooks, Queue!Servers
    <2> QED BY <1>0, <1>2, <1>7, <2>1 DEF Queue!RunPlanRead
  <1>8. ASSUME NEW status \in {"done", "error"}, Queue!SyncAnswered(c, status)
        PROVE  QueueTypes'
    <2>1. [kit EXCEPT !.sync = status] \in KitHooks
      BY <1>0 DEF KitHooks
    <2>2. PICK d : d = [c EXCEPT !.todo = Tail(@), !.failed = (status = "error")] /\ Queue!Becomes(c, d)
      BY <1>8 DEF Queue!SyncAnswered
    <2>3. /\ DOMAIN d = DOMAIN c /\ d.op = c.op /\ d.jobs = c.jobs /\ d.plan = c.plan
          /\ d.seen = c.seen /\ d.ready = c.ready
      BY <1>0, <2>2 DEF Carried
    <2>4. Carried(d)
      BY <2>3, GoesOnTyped
    <2> QED BY <1>0, <1>8, <2>1, <2>2, <2>4, EditTyped DEF Queue!SyncAnswered, Queue!Becomes
  <1>9. CASE Queue!OpenQueueEnds(c)
    <2>1. PICK p \in QueuePage : p = Queue!ApplyGlobalDownloadJobs(c)
      BY <1>0, <1>9, AppliedTyped DEF Queue!OpenQueueEnds
    <2>2. [p EXCEPT !.status = "idle"] \in QueuePage
      BY DEF QueuePage
    <2> QED BY <1>0, <1>2, <1>9, <2>1, <2>2 DEF Queue!OpenQueueEnds
  <1>10. ASSUME NEW f \in Queue!StatusFilters
         PROVE  Queue!OnQueuePage(c, page, f) \in QueuePage
    BY <1>0 DEF Queue!OnQueuePage, QueuePage, Carried
  <1>11. CASE Queue!PrepareEnds(c)
    <2>1. PICK p \in QueuePage : p = Queue!OnQueuePage(c, page, "queued")
      BY <1>10 DEF Queue!StatusFilters
    <2>2. [p EXCEPT !.status = "idle", !.flow = "idle", !.ready = server.ready,
                    !.archived = server.archived] \in QueuePage
      BY <1>0 DEF QueuePage, Queue!Servers
    <2>3. [kit EXCEPT !.queue = "done"] \in KitHooks
      BY <1>0 DEF KitHooks
    <2> QED BY <1>0, <1>2, <1>11, <2>1, <2>2, <2>3 DEF Queue!PrepareEnds
  <1>12. CASE Queue!RunEndsWell(c)
    <2>1. PICK p \in QueuePage : p = Queue!OnQueuePage(c, page, "all")
      BY <1>10 DEF Queue!StatusFilters
    <2>2. PICK s \in {"idle", "error"} : s = IF c.failed THEN "error" ELSE "idle"
      OBVIOUS
    <2>3. PICK r \in {"done", "error"} : r = IF c.failed THEN "error" ELSE "done"
      OBVIOUS
    <2>4. c.ready \in BOOLEAN
      BY <1>0 DEF Carried
    <2>5. [p EXCEPT !.status = s, !.flow = s, !.ready = c.ready] \in QueuePage
      BY <2>4 DEF QueuePage
    <2>6. [kit EXCEPT !.run = r, !.queue = r, !.dialog = FALSE] \in KitHooks
      BY <1>0 DEF KitHooks
    <2>7. /\ page' = [p EXCEPT !.status = s, !.flow = s, !.ready = c.ready]
          /\ kit' = [kit EXCEPT !.run = r, !.queue = r, !.dialog = FALSE]
          /\ server' = server /\ note' = FALSE /\ late' = late /\ Queue!Arrives(c, {})
      BY <1>12, <2>1, <2>2, <2>3 DEF Queue!RunEndsWell
    <2> QED BY <1>0, <1>2, <2>5, <2>6, <2>7
  <1>13. CASE Queue!SyncEnds(c)
    <2>1. PICK s \in {"idle", "error"} : s = IF c.failed THEN "error" ELSE "idle"
      OBVIOUS
    <2>2. [page EXCEPT !.flow = s, !.ready = server.ready, !.archived = server.archived] \in QueuePage
      BY <1>0 DEF QueuePage, Queue!Servers
    <2> QED BY <1>0, <1>2, <1>13, <2>1, <2>2 DEF Queue!SyncEnds
  <1>14. CASE Queue!KitFails(c)
    <2>1. /\ [page EXCEPT !.flow = "error"] \in QueuePage
          /\ [page EXCEPT !.status = "error", !.flow = "error"] \in QueuePage
      BY <1>0 DEF QueuePage
    <2>2. Queue!KitFailed(c) \in KitHooks
      BY <1>0 DEF Queue!KitFailed, KitHooks
    <2> QED BY <1>0, <1>2, <1>14, <2>1, <2>2 DEF Queue!KitFails
  <1> QED
    BY <1>3, <1>4, <1>5, <1>6, <1>7, <1>8, <1>9, <1>11, <1>12, <1>13, <1>14 DEF Queue!KitAnswers

-----------------------------------------------------------------------------
LEMMA QueueTypesInit ==
    ASSUME Queue!KitInit
    PROVE  QueueTypes
  <1>1. PICK p \in KitPlans : /\ server = p.server /\ page = Queue!PageAt(p.server, p.here)
                              /\ calls = IF p.here THEN {Queue!Load} ELSE {}
    BY DEF Queue!KitInit, Queue!Init
  <1>2. server \in Queue!Servers /\ p.here \in BOOLEAN
    BY <1>1, PagesAssumption DEF Queue!PlansAssumption
  <1>3. page \in QueuePage
    BY <1>1, <1>2 DEF QueuePage, Queue!PageAt, Queue!Servers, QueuePlans, Queue!Rows, Queue!StatusFilters
  <1>4. \E l \in Ledgers : l # {}
    BY PagesAssumption DEF Queue!LedgersAssumption
  <1>5. kit \in KitHooks
    BY <1>4 DEF Queue!KitInit, KitHooks
  <1> QED BY <1>1, <1>2, <1>3, <1>5, LoadCarries DEF QueueTypes, QueueHooks, Queue!KitInit, Queue!Init

LEMMA QueueTypesStep ==
    ASSUME QueueTypes, StuckQueueInv, [Queue!KitNext]_(Queue!kitVars)
    PROVE  QueueTypes'
  <1>1. CASE UNCHANGED Queue!kitVars
    <2>1. server' = server /\ page' = page /\ calls' = calls /\ note' = note /\ kit' = kit /\ late' = late
      BY <1>1 DEF Queue!kitVars, Queue!vars
    <2> QED BY <2>1 DEF QueueTypes, QueueHooks
  <1> QED
    BY <1>1, KitOperatorTyped, PageOperatorTyped, ServerTyped, ReadsTyped, AnswersTyped,
       KitAnswersTyped DEF Queue!KitNext

LEMMA QueueTypesOK ==
    ASSUME QueueTypes, StuckQueueInv
    PROVE  Queue!TypeOK
  <1>1. \A c \in calls : c.op \in Queue!QueueOps \cup Queue!KitOps /\ c.todo # <<>>
    BY DEF StuckQueueInv, QueueShape, QueueCall, AwaitsOf, QueueOps
  <1>2. /\ server \in Queue!Servers /\ page \in QueuePage /\ kit \in KitHooks
        /\ note \in BOOLEAN /\ late \in BOOLEAN
    BY DEF QueueTypes, QueueHooks
  <1>3. Queue!PageOK
    BY <1>2 DEF Queue!PageOK, QueuePage, QueuePlans
  <1> QED BY <1>1, <1>2, <1>3 DEF Queue!TypeOK, KitHooks

AfterRead == {"channel", "runs"}
ToCome(t) == \E i \in DOMAIN t : t[i] = "refresh"
InOrder(t) ==
    \A i, k \in 1..Len(t) : i < k /\ t[i] \in AfterRead \cup {"refresh"} => t[k] \in AfterRead

UpToDate ==
    /\ page.job = server.job /\ page.plan = Queue!Plan
    /\ \A j \in page.selected : Queue!IsSelectableQueueJob(j)

\* What a handler has read of the server is still so.
Snapshots(c) ==
    IF Queue!Stage(c) = "refresh"
    THEN c.seen \in {None, server.job} /\ c.plan \in {None, Queue!Plan}
    ELSE c.seen = None /\ c.plan = None

Lonely(c) ==
    /\ c.op \notin {"load", "loadfile", "preview", "openrun"}
    /\ InOrder(c.todo)
    /\ IF ToCome(c.todo) THEN Snapshots(c) ELSE Queue!Stage(c) \in AfterRead /\ UpToDate

LoneInv ==
    note => /\ \A c, d \in calls : c = d
            /\ \A c \in calls : Lonely(c)
            /\ calls = {} => UpToDate

LEMMA TailInOrder ==
    ASSUME NEW S, NEW t \in Seq(S), t # <<>>, InOrder(t)
    PROVE  /\ InOrder(Tail(t))
           /\ Head(t) \notin AfterRead \cup {"refresh"} /\ ToCome(t) => ToCome(Tail(t)) /\ Len(t) # 1
           /\ Head(t) \in AfterRead \cup {"refresh"}
                => ~ToCome(Tail(t)) /\ (Len(t) # 1 => Head(Tail(t)) \in AfterRead)
           /\ Head(t) \in AfterRead => ~ToCome(t)
           /\ Head(t) = "refresh" => ToCome(t)
  <1>0. /\ Len(t) \in Nat \ {0} /\ Len(Tail(t)) = Len(t) - 1 /\ Head(t) = t[1]
        /\ Tail(t) \in Seq(S) /\ DOMAIN t = 1..Len(t) /\ DOMAIN Tail(t) = 1..Len(Tail(t))
    OBVIOUS
  <1>00. \A i \in 1..(Len(t) - 1) : Tail(t)[i] = t[i + 1]
    OBVIOUS
  <1>1. /\ Len(t) \in Nat \ {0} /\ Len(Tail(t)) = Len(t) - 1 /\ Head(t) = t[1]
        /\ \A i \in 1..(Len(t) - 1) : Tail(t)[i] = t[i + 1]
        /\ Len(t) # 1 => Head(Tail(t)) = t[2]
    <2>1. Len(t) # 1 => 1 \in 1..(Len(t) - 1) /\ Tail(t) # <<>>
      BY <1>0
    <2>2. Len(t) # 1 => Head(Tail(t)) = Tail(t)[1]
      BY <1>0, <2>1
    <2> QED BY <1>0, <1>00, <2>1, <2>2
  <1>2. PICK u : u = Tail(t)
    OBVIOUS
  <1>3. InOrder(u)
    <2> SUFFICES ASSUME NEW i \in 1..Len(u), NEW k \in 1..Len(u), i < k, u[i] \in AfterRead \cup {"refresh"}
                 PROVE  u[k] \in AfterRead
      BY DEF InOrder
    <2>1. i + 1 \in 1..Len(t) /\ k + 1 \in 1..Len(t) /\ i + 1 < k + 1 /\ u[i] = t[i + 1] /\ u[k] = t[k + 1]
      BY <1>1, <1>2
    <2> QED BY <2>1 DEF InOrder
  <1>4. ASSUME Head(t) \notin AfterRead \cup {"refresh"}, ToCome(t)
        PROVE  ToCome(u) /\ Len(t) # 1
    <2>1. PICK i \in 1..Len(t) : t[i] = "refresh"
      BY <1>0, <1>4 DEF ToCome
    <2>2. i # 1
      BY <1>1, <1>4, <2>1
    <2>3. i - 1 \in 1..Len(u) /\ u[i - 1] = t[i] /\ Len(t) # 1
      BY <1>1, <1>2, <2>2
    <2> QED BY <1>0, <1>2, <2>1, <2>3 DEF ToCome
  <1>5. ASSUME Head(t) \in AfterRead \cup {"refresh"}
        PROVE  /\ ~ToCome(u) /\ (Len(t) # 1 => Head(u) \in AfterRead)
               /\ Head(t) \in AfterRead => ~ToCome(t)
    <2>1. \A k \in 1..Len(t) : k # 1 => t[k] \in AfterRead
      <3> SUFFICES ASSUME NEW k \in 1..Len(t), k # 1
                   PROVE  t[k] \in AfterRead
        OBVIOUS
      <3>1. 1 \in 1..Len(t) /\ 1 < k /\ t[1] \in AfterRead \cup {"refresh"}
        BY <1>1, <1>5
      <3> QED BY <3>1 DEF InOrder
    <2>2. \A i \in 1..Len(u) : i + 1 \in 1..Len(t) /\ i + 1 # 1 /\ u[i] = t[i + 1]
      BY <1>1, <1>2
    <2>3. "refresh" \notin AfterRead
      BY DEF AfterRead
    <2>4. ~ToCome(u)
      BY <1>0, <1>2, <2>1, <2>2, <2>3 DEF ToCome
    <2>5. Len(t) # 1 => Head(u) \in AfterRead
      <3> SUFFICES ASSUME Len(t) # 1
                   PROVE  Head(u) \in AfterRead
        OBVIOUS
      <3>1. 2 \in 1..Len(t) /\ 2 # 1 /\ Head(u) = t[2]
        BY <1>1, <1>2
      <3> QED BY <2>1, <3>1
    <2>6. ASSUME Head(t) \in AfterRead
          PROVE  ~ToCome(t)
      BY <1>0, <1>1, <2>1, <2>3, <2>6 DEF ToCome
    <2> QED BY <2>4, <2>5, <2>6
  <1>6. Head(t) = "refresh" => ToCome(t)
    BY <1>0, <1>1 DEF ToCome
  <1> QED BY <1>2, <1>3, <1>4, <1>5, <1>6

LEMMA AwaitsInOrder ==
    ASSUME NEW op
    PROVE  InOrder(Queue!Awaits(op)) /\ InOrder(Queue!KitAwaits(op))
  <1>1. /\ InOrder(<<"refresh">>) /\ InOrder(<<"files">>) /\ InOrder(<<"file">>)
        /\ InOrder(<<"preview">>) /\ InOrder(<<"plan">>)
    BY DEF InOrder
  <1>2. InOrder(<<"act", "refresh", "channel">>)
    BY DEF InOrder, AfterRead
  <1>3. InOrder(<<"act", "follow", "channel">>)
    BY DEF InOrder, AfterRead
  <1>4. InOrder(<<"start", "pass", "refresh", "channel">>)
    BY DEF InOrder, AfterRead
  <1>5. /\ InOrder(<<"stage", "follow", "refresh", "channel">>)
        /\ InOrder(<<"sync", "follow", "refresh", "channel">>)
    BY DEF InOrder, AfterRead
  <1>6. InOrder(<<"act", "start", "pass", "refresh", "channel", "runs">>)
    BY DEF InOrder, AfterRead
  <1> HIDE DEF InOrder
  <1>7. InOrder(Queue!Awaits(op))
    BY <1>1, <1>2, <1>3, <1>4 DEF Queue!Awaits
  <1>8. InOrder(Queue!KitAwaits(op))
    BY <1>1, <1>2, <1>5, <1>6 DEF Queue!KitAwaits
  <1> QED BY <1>7, <1>8

LEMMA NotToCome ==
    ~ToCome(<<"files">>) /\ ~ToCome(<<"file">>) /\ ~ToCome(<<"preview">>) /\ ~ToCome(<<"plan">>)
  BY DEF ToCome

\* A handler begins: alone, it has read nothing.
LEMMA BeginLone ==
    ASSUME NEW op, NEW todo, NEW act, NEW jobs, NEW p,
           Queue!BeginWith(op, todo, act, jobs, p), InOrder(todo),
           ToCome(todo) => op \notin {"load", "loadfile", "preview", "openrun"}
    PROVE  LoneInv'
  <1> SUFFICES ASSUME note'
               PROVE  /\ \A c, d \in calls' : c = d
                      /\ \A c \in calls' : Lonely(c)'
                      /\ calls' # {}
    BY DEF LoneInv
  <1>1. PICK d : d = Queue!Call(Queue!FreeSlot, op, todo, act, jobs)
    OBVIOUS
  <1>2. calls = {} /\ p.here = page.here /\ ToCome(todo) /\ calls' = {d}
    BY <1>1 DEF Queue!BeginWith, ToCome
  <1>3. d.op = op /\ d.todo = todo /\ d.seen = None /\ d.plan = None
    BY <1>1 DEF Queue!Call
  <1>4. Snapshots(d)'
    BY <1>3 DEF Snapshots
  <1>5. Lonely(d)'
    BY <1>2, <1>3, <1>4 DEF Lonely
  <1> QED BY <1>2, <1>5

\* Nothing begins, ends or is read.
LEMMA LoneStays ==
    ASSUME LoneInv, note' => note /\ calls' = calls, UNCHANGED server, UpToDate => UpToDate'
    PROVE  LoneInv'
  <1> SUFFICES ASSUME note'
               PROVE  /\ \A c, d \in calls : c = d
                      /\ \A c \in calls : Lonely(c)'
                      /\ calls = {} => UpToDate'
    BY DEF LoneInv
  <1>1. \A c : Snapshots(c)' <=> Snapshots(c)
    BY DEF Snapshots, Queue!Plan
  <1>2. \A c : Lonely(c) => Lonely(c)'
    BY <1>1 DEF Lonely, Queue!Stage
  <1> QED BY <1>2 DEF LoneInv

\* The call of a lone handler goes on, ends, or reads.
LEMMA LoneGoesOn ==
    ASSUME LoneInv, note, NEW c \in calls, NEW d, calls' = (calls \ {c}) \cup {d}, Lonely(d)'
    PROVE  LoneInv'
  BY DEF LoneInv

LEMMA LoneEnds ==
    ASSUME LoneInv, note, NEW c \in calls, calls' = calls \ {c}, UpToDate'
    PROVE  LoneInv'
  BY DEF LoneInv

\* What is read later says nothing of what was read.
LEMMA LoneBefore ==
    ASSUME LoneInv, QueueTypes, StuckQueueInv, note, NEW c \in calls,
           Queue!Stage(c) \notin AfterRead \cup {"refresh"}
    PROVE  /\ ToCome(c.todo) /\ ToCome(Tail(c.todo)) /\ InOrder(c.todo) /\ InOrder(Tail(c.todo))
           /\ ~Queue!Last(c) /\ c.seen = None /\ c.plan = None
           /\ c.op \notin {"load", "loadfile", "preview", "openrun"}
  <1>1. Lonely(c) /\ QueueCall(c)
    BY DEF LoneInv, StuckQueueInv, QueueShape
  <1>2. c.todo \in Seq(StagesOf(c.op)) /\ c.todo # <<>>
    BY <1>1 DEF QueueCall, AwaitsOf
  <1>3. ToCome(c.todo) /\ Snapshots(c) /\ InOrder(c.todo)
    BY <1>1 DEF Lonely
  <1>4. ToCome(Tail(c.todo)) /\ InOrder(Tail(c.todo)) /\ Len(c.todo) # 1
    BY <1>2, <1>3, TailInOrder DEF Queue!Stage
  <1> QED BY <1>1, <1>3, <1>4 DEF Snapshots, Queue!Last, Lonely

LEMMA LoneAfter ==
    ASSUME LoneInv, QueueTypes, StuckQueueInv, note, NEW c \in calls,
           Queue!Stage(c) \in AfterRead \cup {"refresh"}
    PROVE  /\ ~ToCome(Tail(c.todo)) /\ InOrder(Tail(c.todo))
           /\ ~Queue!Last(c) => Head(Tail(c.todo)) \in AfterRead
           /\ Queue!Stage(c) \in AfterRead => UpToDate
           /\ Queue!Stage(c) = "refresh" => Snapshots(c) /\ ToCome(c.todo)
           /\ c.op \notin {"load", "loadfile", "preview", "openrun"} /\ InOrder(c.todo)
  <1>1. Lonely(c) /\ QueueCall(c)
    BY DEF LoneInv, StuckQueueInv, QueueShape
  <1>2. c.todo \in Seq(StagesOf(c.op)) /\ c.todo # <<>>
    BY <1>1 DEF QueueCall, AwaitsOf
  <1>3. InOrder(c.todo)
    BY <1>1 DEF Lonely
  <1>4. /\ ~ToCome(Tail(c.todo)) /\ InOrder(Tail(c.todo))
        /\ Len(c.todo) # 1 => Head(Tail(c.todo)) \in AfterRead
        /\ Head(c.todo) \in AfterRead => ~ToCome(c.todo)
        /\ Head(c.todo) = "refresh" => ToCome(c.todo)
    BY <1>2, <1>3, TailInOrder DEF Queue!Stage
  <1> QED BY <1>1, <1>3, <1>4 DEF Queue!Last, Lonely, Queue!Stage

LEMMA LoneEffect ==
    ASSUME LoneInv, QueueTypes, StuckQueueInv, NEW c \in calls, note' => note,
           Queue!Stage(c) \notin AfterRead \cup {"refresh"}, NEW d, d.todo = c.todo \/ d.todo = Tail(c.todo),
           d.op = c.op, d.seen = c.seen, d.plan = c.plan, calls' = (calls \ {c}) \cup {d}
    PROVE  LoneInv'
  <1> SUFFICES ASSUME note'
               PROVE  LoneInv'
    BY DEF LoneInv
  <1>1. /\ ToCome(d.todo) /\ InOrder(d.todo) /\ d.seen = None /\ d.plan = None
        /\ d.op \notin {"load", "loadfile", "preview", "openrun"}
    BY LoneBefore
  <1>2. Lonely(d)'
    BY <1>1 DEF Lonely, Snapshots
  <1> QED BY <1>2, LoneGoesOn

\* The page with the same jobs and plan, and no other selection than of jobs that
\* can be acted on.
SameJobs(p) ==
    /\ p.job = page.job /\ p.plan = page.plan
    /\ \A j \in p.selected : j \in page.selected \/ Queue!IsSelectableQueueJob(j)

LEMMA SameJobsUpToDate ==
    ASSUME SameJobs(page'), UNCHANGED server
    PROVE  UpToDate => UpToDate'
  BY DEF SameJobs, UpToDate, Queue!IsSelectableQueueJob, Queue!Plan

LEMMA LoneShows ==
    ASSUME LoneInv, SameJobs(page'), note' => note /\ calls' = calls, UNCHANGED server
    PROVE  LoneInv'
  BY SameJobsUpToDate, LoneStays

LEMMA LoneBegins ==
    ASSUME NEW op, NEW act, NEW jobs, NEW p, op # "load", Queue!Begin(op, act, jobs, p)
    PROVE  LoneInv'
  <1>1. Queue!BeginWith(op, Queue!Awaits(op), act, jobs, p) /\ InOrder(Queue!Awaits(op))
    BY AwaitsInOrder DEF Queue!Begin
  <1>2. op = "files" => ~ToCome(Queue!Awaits(op))
    BY NotToCome DEF Queue!Awaits
  <1>3. op \in {"loadfile", "preview", "openrun"} => ~ToCome(Queue!Awaits(op))
    <2>1. ~ToCome(<<"act", "follow", "channel">>)
      BY DEF ToCome
    <2> HIDE DEF ToCome
    <2> QED BY <2>1 DEF Queue!Awaits
  <1> QED BY <1>1, <1>3, BeginLone

LEMMA KitLoneBegins ==
    ASSUME NEW op, NEW act, NEW jobs, NEW p, NEW k, op # "load", Queue!BeginKit(op, act, jobs, p, k)
    PROVE  LoneInv'
  <1>1. Queue!BeginWith(op, Queue!KitAwaits(op), act, jobs, p) /\ InOrder(Queue!KitAwaits(op))
    BY AwaitsInOrder DEF Queue!BeginKit
  <1>2. op \in {"loadfile", "preview", "openrun"} => ~ToCome(Queue!KitAwaits(op))
    BY NotToCome DEF Queue!KitAwaits
  <1> QED BY <1>1, <1>2, BeginLone

LEMMA PageOperatorLone ==
    ASSUME LoneInv, QueueTypes, Queue!Operator
    PROVE  LoneInv'
  <1>0. page \in QueuePage /\ SameJobs(page)
    BY DEF QueueTypes, QueueHooks, SameJobs
  <1>1. ASSUME NEW p, SameJobs(p), Queue!Edit(p)
        PROVE  LoneInv'
    BY <1>1, LoneShows DEF Queue!Edit
  <1>2. ASSUME NEW j \in Jobs, Queue!HandleToggleQueueConsoleJobSelection(j)
        PROVE  LoneInv'
    <2>1. Queue!IsSelectableQueueJob(j)
      BY <1>2 DEF Queue!HandleToggleQueueConsoleJobSelection, Queue!QueueConsoleActionableJobs
    <2>2. PICK p, S : /\ p = [page EXCEPT !.selected = S] /\ Queue!Edit(p)
                      /\ S \subseteq page.selected \cup {j}
      BY <1>2 DEF Queue!HandleToggleQueueConsoleJobSelection
    <2>3. p.job = page.job /\ p.plan = page.plan /\ p.selected = S
      BY <1>0, <2>2 DEF QueuePage
    <2>4. SameJobs(p)
      BY <2>1, <2>2, <2>3 DEF SameJobs
    <2> QED BY <1>1, <2>2, <2>4
  <1>3. CASE Queue!HandleSelectVisibleQueueConsoleJobs
    <2>1. \A j \in Queue!VisibleQueueConsoleActionableJobs : Queue!IsSelectableQueueJob(j)
      BY DEF Queue!VisibleQueueConsoleActionableJobs
    <2>2. PICK p, S : /\ p = [page EXCEPT !.selected = S] /\ Queue!Edit(p)
                      /\ S \subseteq page.selected \cup Queue!VisibleQueueConsoleActionableJobs
      BY <1>3 DEF Queue!HandleSelectVisibleQueueConsoleJobs
    <2>3. p.job = page.job /\ p.plan = page.plan /\ p.selected = S
      BY <1>0, <2>2 DEF QueuePage
    <2>4. SameJobs(p)
      BY <2>1, <2>2, <2>3 DEF SameJobs
    <2> QED BY <1>1, <2>2, <2>4
  <1>4. CASE \/ Queue!HandleResetQueueConsoleFilters
             \/ \E f \in Queue!StatusFilters : Queue!EditFilter(f, page.narrow)
             \/ \E narrow \in SUBSET Jobs : Queue!EditFilter(page.filter, narrow)
    <2>1. PICK p, f, narrow : p = [page EXCEPT !.filter = f, !.narrow = narrow] /\ Queue!Edit(p)
      BY <1>4 DEF Queue!HandleResetQueueConsoleFilters, Queue!EditFilter
    <2>2. p.job = page.job /\ p.plan = page.plan /\ p.selected = page.selected
      BY <1>0, <2>1 DEF QueuePage
    <2> QED BY <1>1, <2>1, <2>2 DEF SameJobs
  <1>5. ASSUME NEW j \in Jobs, Queue!HandleToggleQueueConsoleDetails(j)
        PROVE  LoneInv'
    <2>1. \A e : SameJobs([page EXCEPT !.expanded = e])
      BY <1>0 DEF QueuePage, SameJobs
    <2>2. \/ \E e : Queue!Edit([page EXCEPT !.expanded = e])
          \/ \E p : Queue!Begin("files", None, {j}, p)
      BY <1>5 DEF Queue!HandleToggleQueueConsoleDetails
    <2> QED BY <1>1, <2>1, <2>2, LoneBegins
  <1>6. CASE \/ \E act \in Queue!BulkActions : Queue!HandleQueueConsoleBulkAction(act)
             \/ \E j \in Jobs : \E act \in {"retry", "cancel", "stop"} :
                     Queue!HandleQueueConsoleJobAction(j, act)
             \/ Queue!HandleOpenQueueConsoleRunConfirm \/ Queue!HandleRefreshQueueConsole
             \/ Queue!HandleQueueConsoleRunWorker \/ Queue!HandleApplyRescan \/ Queue!QueueEventArrives
    <2>1. \E op, act, jobs, p : op # "load" /\ Queue!Begin(op, act, jobs, p)
      BY <1>6 DEF Queue!HandleQueueConsoleBulkAction, Queue!HandleQueueConsoleJobAction,
                  Queue!HandleOpenQueueConsoleRunConfirm, Queue!HandleRefreshQueueConsole,
                  Queue!HandleQueueConsoleRunWorker, Queue!HandleApplyRescan, Queue!QueueEventArrives
    <2> QED BY <2>1, LoneBegins
  <1>7. CASE Queue!CloseConfirm
    <2>1. SameJobs([page EXCEPT !.confirm = FALSE])
      BY <1>0 DEF QueuePage, SameJobs
    <2> QED BY <1>7, <2>1, LoneShows DEF Queue!CloseConfirm
  <1>8. CASE Queue!GoToQueue
    BY <1>8 DEF Queue!GoToQueue, LoneInv
  <1>9. CASE Queue!LeaveQueue
    <2>1. SameJobs([page EXCEPT !.here = FALSE])
      BY <1>0 DEF QueuePage, SameJobs
    <2>2. note => \A c \in calls : c.op # "load"
      BY DEF LoneInv, Lonely
    <2>3. note' => note /\ calls' = calls
      BY <1>9, <2>2 DEF Queue!LeaveQueue
    <2> QED BY <1>9, <2>1, <2>3, LoneShows DEF Queue!LeaveQueue
  <1> QED
    BY <1>2, <1>3, <1>4, <1>5, <1>6, <1>7, <1>8, <1>9 DEF Queue!Operator

LEMMA ServerLone ==
    ASSUME LoneInv, QueueTypes, StuckQueueInv, Queue!Server
    PROVE  LoneInv'
  <1>1. CASE (\E j \in Jobs : Queue!BackgroundTakes(j)) \/ Queue!WorkerSwitched
    BY <1>1 DEF Queue!BackgroundTakes, Queue!WorkerSwitched, Queue!Outside, LoneInv
  <1>2. ASSUME NEW j, NEW s, Queue!RunEnds(j, s), note'
        PROVE  LoneInv'
    <2>1. PICK c \in calls : note /\ Queue!Stage(c) = "pass" /\ calls' = calls
      BY <1>2 DEF Queue!RunEnds
    <2>2. calls' = (calls \ {c}) \cup {c} /\ Queue!Stage(c) \notin AfterRead \cup {"refresh"}
      BY <2>1 DEF AfterRead
    <2> QED BY <2>1, <2>2, LoneEffect
  <1>3. ~note' => LoneInv'
    BY DEF LoneInv
  <1> QED BY <1>1, <1>2, <1>3 DEF Queue!Server

LEMMA ReadsLone ==
    ASSUME LoneInv, QueueTypes, StuckQueueInv, NEW c \in calls, Queue!Reads(c)
    PROVE  LoneInv'
  <1>0. DOMAIN c = {"slot", "op", "todo", "act", "jobs", "seen", "plan", "planned", "took", "ready", "failed"}
    BY DEF QueueTypes, Carried
  <1>1. note' = note /\ page' = page
    BY DEF Queue!Reads, Queue!ReadJobs, Queue!ReadPlan, Queue!PassStarts, Queue!PassOver,
           Queue!PassTakes
  <1>2. ASSUME NEW d, Queue!Becomes(c, d), d.todo = c.todo, d.op = c.op, UNCHANGED server,
               d.seen \in {c.seen, server.job}, d.plan \in {c.plan, Queue!Plan},
               Queue!Stage(c) = "refresh"
        PROVE  LoneInv'
    <2> SUFFICES ASSUME note
                 PROVE  LoneInv'
      BY <1>1 DEF LoneInv
    <2>1. /\ Snapshots(c) /\ ToCome(c.todo) /\ InOrder(c.todo)
          /\ c.op \notin {"load", "loadfile", "preview", "openrun"}
      BY <1>2, LoneAfter
    <2>2. Queue!Stage(d) = "refresh" /\ Queue!Plan' = Queue!Plan
      BY <1>2 DEF Queue!Stage, Queue!Plan
    <2>3. Snapshots(d)'
      BY <1>2, <2>1, <2>2 DEF Snapshots, Queue!Stage
    <2>4. Lonely(d)'
      BY <1>2, <2>1, <2>3 DEF Lonely
    <2> QED BY <1>2, <2>4, LoneGoesOn DEF Queue!Becomes
  <1>3. ASSUME NEW d, Queue!Becomes(c, d), d.todo = c.todo \/ d.todo = Tail(c.todo), d.op = c.op,
               d.seen = c.seen, d.plan = c.plan, Queue!Stage(c) \in {"start", "pass"}
        PROVE  LoneInv'
    <2>1. Queue!Stage(c) \notin AfterRead \cup {"refresh"}
      BY <1>3 DEF AfterRead
    <2> QED BY <1>1, <1>3, <2>1, LoneEffect DEF Queue!Becomes
  <1>4. CASE Queue!ReadJobs(c)
    <2>1. PICK d : d = [c EXCEPT !.seen = server.job] /\ Queue!Becomes(c, d)
      BY <1>4 DEF Queue!ReadJobs
    <2>2. d.todo = c.todo /\ d.op = c.op /\ d.seen = server.job /\ d.plan = c.plan
      BY <1>0, <2>1
    <2> QED BY <1>2, <1>4, <2>1, <2>2 DEF Queue!ReadJobs
  <1>5. CASE Queue!ReadPlan(c)
    <2>1. PICK d, p : p = Queue!Plan /\ d = [c EXCEPT !.plan = p] /\ Queue!Becomes(c, d)
      BY <1>5 DEF Queue!ReadPlan
    <2>2. d.todo = c.todo /\ d.op = c.op /\ d.seen = c.seen /\ d.plan = p
      BY <1>0, <2>1
    <2> QED BY <1>2, <1>5, <2>1, <2>2 DEF Queue!ReadPlan
  <1>6. CASE Queue!PassStarts(c)
    <2>1. PICK d, S : d = [c EXCEPT !.todo = Tail(c.todo), !.planned = S] /\ Queue!Becomes(c, d)
      BY <1>6 DEF Queue!PassStarts
    <2>2. d.todo = Tail(c.todo) /\ d.op = c.op /\ d.seen = c.seen /\ d.plan = c.plan
      BY <1>0, <2>1
    <2> QED BY <1>3, <1>6, <2>1, <2>2 DEF Queue!PassStarts
  <1>7. CASE Queue!PassOver(c)
    <2>1. PICK d, r, f : d = [c EXCEPT !.todo = Tail(c.todo), !.ready = r, !.failed = f]
                         /\ Queue!Becomes(c, d)
      BY <1>7 DEF Queue!PassOver
    <2>2. d.todo = Tail(c.todo) /\ d.op = c.op /\ d.seen = c.seen /\ d.plan = c.plan
      BY <1>0, <2>1
    <2> QED BY <1>3, <1>7, <2>1, <2>2 DEF Queue!PassOver
  <1>8. ASSUME NEW j \in c.planned, Queue!PassTakes(c, j)
        PROVE  LoneInv'
    <2>1. PICK d, S : d = [c EXCEPT !.took = S] /\ Queue!Becomes(c, d)
      BY <1>8 DEF Queue!PassTakes
    <2>2. d.todo = c.todo /\ d.op = c.op /\ d.seen = c.seen /\ d.plan = c.plan
      BY <1>0, <2>1
    <2> QED BY <1>3, <1>8, <2>1, <2>2 DEF Queue!PassTakes
  <1> QED BY <1>4, <1>5, <1>6, <1>7, <1>8 DEF Queue!Reads

\* The refresh is over, or a read after it: the handler goes on or ends.
LEMMA LoneRead ==
    ASSUME LoneInv, QueueTypes, StuckQueueInv, note' => note, NEW c \in calls,
           Queue!Stage(c) \in AfterRead \cup {"refresh"}, Queue!GoesOn(c), note => UpToDate'
    PROVE  LoneInv'
  <1> SUFFICES ASSUME note, note'
               PROVE  LoneInv'
    BY DEF LoneInv
  <1>1. CASE Queue!Last(c)
    <2>1. calls' = calls \ {c}
      BY <1>1 DEF Queue!GoesOn
    <2> QED BY <2>1, LoneEnds
  <1>2. CASE ~Queue!Last(c)
    <2>1. PICK d : d = [c EXCEPT !.todo = Tail(c.todo)]
      OBVIOUS
    <2>2. calls' = (calls \ {c}) \cup {d}
      BY <1>2, <2>1 DEF Queue!GoesOn
    <2>3. d.todo = Tail(c.todo) /\ d.op = c.op
      BY <2>1 DEF QueueTypes, Carried
    <2>4. /\ ~ToCome(d.todo) /\ InOrder(d.todo) /\ Queue!Stage(d) \in AfterRead
          /\ c.op \notin {"load", "loadfile", "preview", "openrun"}
      BY <1>2, <2>3, LoneAfter DEF Queue!Stage
    <2>5. Lonely(d)'
      BY <2>3, <2>4 DEF Lonely, Queue!Stage
    <2> QED BY <2>2, <2>5, LoneGoesOn
  <1> QED BY <1>1, <1>2

LEMMA ShownSame ==
    ASSUME NEW c, NEW p \in QueuePage
    PROVE  /\ Queue!Shown(c, p).job = p.job /\ Queue!Shown(c, p).plan = p.plan
           /\ Queue!Shown(c, p).selected = p.selected
  BY DEF Queue!Shown, Queue!Ended, QueuePage

LEMMA AppliedUpToDate ==
    ASSUME LoneInv, QueueTypes, StuckQueueInv, note, NEW c \in calls, UNCHANGED server,
           Queue!Stage(c) = "refresh", c.seen # None, c.plan # None,
           page'.job = Queue!ApplyGlobalDownloadJobs(c).job,
           page'.plan = Queue!ApplyGlobalDownloadJobs(c).plan,
           page'.selected = Queue!ApplyGlobalDownloadJobs(c).selected
    PROVE  UpToDate'
  <1>1. Snapshots(c) /\ c.op # "load"
    BY LoneAfter
  <1>2. c.seen = server.job /\ c.plan = Queue!Plan
    BY <1>1 DEF Snapshots
  <1>3. page \in QueuePage
    BY DEF QueueTypes, QueueHooks
  <1>4. PICK S : /\ S = {j \in page.selected : c.seen[j] \in Queue!Selectable}
                 /\ Queue!ApplyGlobalDownloadJobs(c) = [page EXCEPT !.job = c.seen, !.plan = c.plan, !.selected = S]
    BY <1>1 DEF Queue!ApplyGlobalDownloadJobs
  <1>5. page'.job = c.seen /\ page'.plan = c.plan /\ page'.selected = S
    BY <1>3, <1>4 DEF QueuePage
  <1> QED BY <1>2, <1>4, <1>5 DEF UpToDate, Queue!IsSelectableQueueJob, Queue!Plan

LEMMA AwaitsLone ==
    ASSUME LoneInv, QueueTypes, StuckQueueInv, NEW c \in calls,
           \/ Queue!Acted(c) \/ Queue!RefreshQueueConsoleState(c) \/ Queue!LoadChannelState(c)
           \/ Queue!ReadRest(c)
    PROVE  LoneInv'
  <1>0. page \in QueuePage /\ server \in Queue!Servers /\ Carried(c)
    BY DEF QueueTypes, QueueHooks
  <1>1. note' = note
    BY DEF Queue!Acted, Queue!RefreshQueueConsoleState, Queue!LoadChannelState, Queue!ReadRest
  <1> SUFFICES ASSUME note
               PROVE  LoneInv'
    BY <1>1 DEF LoneInv
  <1>2. ASSUME Queue!Stage(c) \notin AfterRead \cup {"refresh"}, Queue!GoesOn(c)
        PROVE  LoneInv'
    <2>1. ~Queue!Last(c)
      BY <1>2, LoneBefore
    <2>2. PICK d : d = [c EXCEPT !.todo = Tail(c.todo)]
      OBVIOUS
    <2>3. calls' = (calls \ {c}) \cup {d}
      BY <1>2, <2>1, <2>2 DEF Queue!GoesOn
    <2>4. d.todo = Tail(c.todo) /\ d.op = c.op /\ d.seen = c.seen /\ d.plan = c.plan
      BY <1>0, <2>2 DEF Carried
    <2> QED BY <1>1, <1>2, <2>3, <2>4, LoneEffect
  <1>3. CASE Queue!Acted(c)
    BY <1>2, <1>3 DEF Queue!Acted, AfterRead
  <1>4. CASE Queue!ReadRest(c)
    BY <1>2, <1>4 DEF Queue!ReadRest, AfterRead
  <1>5. CASE Queue!RefreshQueueConsoleState(c)
    <2>1. PICK p \in QueuePage : p = Queue!ApplyGlobalDownloadJobs(c) /\ page' = Queue!Shown(c, p)
      BY <1>0, <1>5, AppliedTyped DEF Queue!RefreshQueueConsoleState
    <2>2. page'.job = p.job /\ page'.plan = p.plan /\ page'.selected = p.selected
      BY <2>1, ShownSame
    <2>3. UpToDate'
      BY <1>5, <2>1, <2>2, AppliedUpToDate DEF Queue!RefreshQueueConsoleState
    <2> QED BY <1>1, <1>5, <2>3, LoneRead DEF Queue!RefreshQueueConsoleState
  <1>6. CASE Queue!LoadChannelState(c)
    <2>1. PICK p : p = [page EXCEPT !.ready = server.ready, !.archived = server.archived]
                   /\ page' = Queue!Shown(c, p)
      BY <1>6 DEF Queue!LoadChannelState
    <2>2. p \in QueuePage /\ p.job = page.job /\ p.plan = page.plan /\ p.selected = page.selected
      BY <1>0, <2>1 DEF QueuePage, Queue!Servers
    <2>3. SameJobs(page')
      BY <2>1, <2>2, ShownSame DEF SameJobs
    <2>4. Queue!Stage(c) \in AfterRead /\ server' = server /\ Queue!GoesOn(c)
      BY <1>6 DEF Queue!LoadChannelState, AfterRead
    <2>5. UpToDate'
      BY <2>3, <2>4, SameJobsUpToDate, LoneAfter
    <2> QED BY <1>1, <2>4, <2>5, LoneRead
  <1> QED BY <1>3, <1>4, <1>5, <1>6

LEMMA AnswersLone ==
    ASSUME LoneInv, QueueTypes, StuckQueueInv, NEW c \in calls, Queue!Answers(c)
    PROVE  LoneInv'
  <1>1. CASE Queue!Fails(c)
    BY <1>1 DEF Queue!Fails, LoneInv
  <1> QED BY <1>1, AwaitsLone DEF Queue!Answers

LEMMA KitOperatorLone ==
    ASSUME LoneInv, QueueTypes, Queue!KitOperator
    PROVE  LoneInv'
  <1>0. SameJobs(page)
    BY DEF SameJobs
  <1>1. ASSUME NEW ledger \in Ledgers, Queue!EditArchiveTxtDraft(ledger)
        PROVE  LoneInv'
    <2>1. page' = page /\ server' = server /\ calls' = calls /\ note' = note
      BY <1>1 DEF Queue!EditArchiveTxtDraft, Queue!Edit
    <2> QED BY <1>0, <2>1, LoneShows
  <1>2. CASE Queue!CloseRunDialog
    <2>1. page' = page /\ server' = server /\ calls' = calls /\ note' = note
      BY <1>2 DEF Queue!CloseRunDialog, Queue!vars
    <2> QED BY <1>0, <2>1, LoneShows
  <1>3. CASE \/ \E ledger \in Ledgers : Queue!LoadArchiveTxtFile(ledger)
             \/ Queue!HandlePreviewArchiveTxt \/ Queue!HandleStageArchiveTxt
             \/ Queue!HandleArchiveTxtOpenQueue \/ Queue!HandleArchiveTxtPrepareQueue
             \/ Queue!HandleArchiveTxtOpenRunConfirm \/ Queue!HandleArchiveTxtPrepareAndRun
             \/ Queue!HandleArchiveTxtMetadataSync
    <2>1. \E op, act, jobs, p, k : op # "load" /\ Queue!BeginKit(op, act, jobs, p, k)
      BY <1>3 DEF Queue!LoadArchiveTxtFile, Queue!HandlePreviewArchiveTxt, Queue!HandleStageArchiveTxt,
                  Queue!HandleArchiveTxtOpenQueue, Queue!HandleArchiveTxtPrepareQueue,
                  Queue!HandleArchiveTxtOpenRunConfirm, Queue!HandleArchiveTxtPrepareAndRun,
                  Queue!HandleArchiveTxtMetadataSync
    <2> QED BY <2>1, KitLoneBegins
  <1> QED BY <1>1, <1>2, <1>3 DEF Queue!KitOperator

LEMMA KitAnswersLone ==
    ASSUME LoneInv, QueueTypes, StuckQueueInv, NEW c \in calls, c.op \in Queue!KitOps,
           Queue!KitAnswers(c)
    PROVE  LoneInv'
  <1> SUFFICES ASSUME note, note'
               PROVE  LoneInv'
    BY DEF LoneInv, QueueTypes, QueueHooks, Queue!KitAnswers, Queue!Follows, Queue!Acted, Queue!ReadRest,
           Queue!RefreshQueueConsoleState, Queue!LoadChannelState, Queue!FileRead,
           Queue!PreviewAnswered, Queue!StageAnswered, Queue!RunPlanRead, Queue!SyncAnswered,
           Queue!OpenQueueEnds, Queue!PrepareEnds, Queue!RunEndsWell, Queue!SyncEnds, Queue!KitFails
  <1>0. page \in QueuePage /\ server \in Queue!Servers /\ Carried(c)
    BY DEF QueueTypes, QueueHooks
  <1>1. Queue!Stage(c) \in StagesOf(c.op)
    BY StageOK
  <1>2. CASE Queue!Follows(c)
    BY <1>2, AwaitsLone DEF Queue!Follows
  <1>3. CASE Queue!FileRead(c) \/ Queue!PreviewAnswered(c) \/ Queue!RunPlanRead(c)
    <2>1. Queue!Stage(c) \in {"file", "preview", "plan"}
      BY <1>3 DEF Queue!FileRead, Queue!PreviewAnswered, Queue!RunPlanRead
    <2>2. c.op \in {"loadfile", "preview", "openrun"}
      BY <1>1, <2>1 DEF StagesOf, Queue!KitOps
    <2>3. Lonely(c)
      BY DEF LoneInv
    <2> QED BY <2>2, <2>3 DEF Lonely
  <1>4. ASSUME NEW d, d.todo = c.todo \/ d.todo = Tail(c.todo), d.op = c.op, d.seen = c.seen,
               d.plan = c.plan, calls' = (calls \ {c}) \cup {d}, Queue!Stage(c) \in {"stage", "sync"}
        PROVE  LoneInv'
    BY <1>4, LoneEffect DEF AfterRead
  <1>5. CASE Queue!StageAnswered(c)
    <2>1. ~Queue!Last(c) /\ Queue!Stage(c) = "stage" /\ Queue!GoesOn(c)
      BY <1>5, LoneBefore DEF Queue!StageAnswered, AfterRead
    <2>2. PICK d : d = [c EXCEPT !.todo = Tail(c.todo)]
      OBVIOUS
    <2>3. calls' = (calls \ {c}) \cup {d}
      BY <2>1, <2>2 DEF Queue!GoesOn
    <2>4. d.todo = Tail(c.todo) /\ d.op = c.op /\ d.seen = c.seen /\ d.plan = c.plan
      BY <1>0, <2>2 DEF Carried
    <2> QED BY <1>4, <2>1, <2>3, <2>4
  <1>6. ASSUME NEW status, Queue!SyncAnswered(c, status)
        PROVE  LoneInv'
    <2>1. PICK d, f : d = [c EXCEPT !.todo = Tail(c.todo), !.failed = f] /\ Queue!Becomes(c, d)
                      /\ Queue!Stage(c) = "sync"
      BY <1>6 DEF Queue!SyncAnswered
    <2>2. d.todo = Tail(c.todo) /\ d.op = c.op /\ d.seen = c.seen /\ d.plan = c.plan
      BY <1>0, <2>1 DEF Carried
    <2> QED BY <1>4, <2>1, <2>2 DEF Queue!Becomes
  <1>7. CASE Queue!OpenQueueEnds(c)
    <2>1. Queue!Stage(c) = "refresh"
      BY <1>1, <1>7 DEF Queue!OpenQueueEnds, StagesOf
    <2>2. PICK p \in QueuePage : p = Queue!ApplyGlobalDownloadJobs(c) /\ page' = [p EXCEPT !.status = "idle"]
      BY <1>0, <1>7, AppliedTyped DEF Queue!OpenQueueEnds
    <2>3. page'.job = p.job /\ page'.plan = p.plan /\ page'.selected = p.selected
      BY <2>2 DEF QueuePage
    <2>4. UpToDate'
      BY <1>7, <2>1, <2>2, <2>3, AppliedUpToDate DEF Queue!OpenQueueEnds
    <2> QED BY <1>7, <2>4, LoneEnds DEF Queue!OpenQueueEnds, Queue!Ends
  <1>8. CASE Queue!SyncEnds(c)
    <2>1. PICK f : page' = [page EXCEPT !.flow = f, !.ready = server.ready, !.archived = server.archived]
      BY <1>8 DEF Queue!SyncEnds
    <2>2. SameJobs(page')
      BY <1>0, <2>1 DEF QueuePage, SameJobs
    <2>3. UpToDate'
      BY <1>8, <2>2, SameJobsUpToDate, LoneAfter DEF Queue!SyncEnds, AfterRead
    <2> QED BY <1>8, <2>3, LoneEnds DEF Queue!SyncEnds, Queue!Ends
  <1>9. CASE Queue!PrepareEnds(c) \/ Queue!RunEndsWell(c) \/ Queue!KitFails(c)
    BY <1>9 DEF Queue!PrepareEnds, Queue!RunEndsWell, Queue!KitFails
  <1> QED BY <1>2, <1>3, <1>5, <1>6, <1>7, <1>8, <1>9 DEF Queue!KitAnswers

LEMMA LoneInit ==
    ASSUME Queue!KitInit
    PROVE  LoneInv
  BY DEF Queue!KitInit, Queue!Init, LoneInv

LEMMA LoneStep ==
    ASSUME LoneInv, QueueTypes, StuckQueueInv, [Queue!KitNext]_(Queue!kitVars)
    PROVE  LoneInv'
  <1>1. CASE UNCHANGED Queue!kitVars
    <2>1. server' = server /\ page' = page /\ calls' = calls /\ note' = note
      BY <1>1 DEF Queue!kitVars, Queue!vars
    <2>2. SameJobs(page')
      BY <2>1 DEF SameJobs
    <2> QED BY <2>1, <2>2, LoneShows
  <1> QED
    BY <1>1, KitOperatorLone, PageOperatorLone, ServerLone, ReadsLone, AnswersLone,
       KitAnswersLone DEF Queue!KitNext

LEMMA QueueSettled == ASSUME LoneInv PROVE Queue!Settled
  BY DEF LoneInv, UpToDate, Queue!Settled

=============================================================================
