-------------------------- MODULE Scheduler_proofs --------------------------
(***************************************************************************)
(* While settings requests come one at a time a scheduler never has two    *)
(* loops, and the setting tells the truth whenever no request is open, for *)
(* any number of starts, stops, crashes and restarts.  The invariant has   *)
(* two parts: what holds always (BaseInv, UsedInv), and what holds until   *)
(* requests overlap: a live task is the one the handle names, who awaits a *)
(* task awaits that one (InTurn), and the handle is there and healthy as   *)
(* the setting and the open request say (Applied).                         *)
(***************************************************************************)
EXTENDS Scheduler, TLAPS

\* The live task is the handle's, and so is the one that is awaited.
HandleNamesLoop == \A t \in Tasks : Live(t) => handle = t
AwaitedIsHandle == \A p \in Callers : caller[p] = "stopping" => handle = awaited[p]

\* Requests are open only while the process is up, its shutdown only while it
\* stops, and a process that is gone has no task.
RequestsWhileUp == api # "up" => \A p \in Patches : caller[p] = "idle"
ShutdownWhileStopping == caller[Lifespan] # "idle" => api = "stopping"
GoneHasNoTask == api \in {"stopped", "crashed"} => \A t \in Tasks : ~Live(t)

\* At most one request is open.
OneOpen == \A p, q \in Patches : caller[p] # "idle" /\ caller[q] # "idle" => p = q

BaseInv ==
    /\ TypeOK
    /\ RequestsWhileUp
    /\ ShutdownWhileStopping
    /\ GoneHasNoTask

InTurn == HandleNamesLoop /\ AwaitedIsHandle /\ OneOpen

LoopInv == BaseInv /\ (~overlapped => InTurn)

\* The handle and the set events are of tasks that were created.
HandleUsed == handle # None => task[handle] # "none"
EventsUsed == \A t \in evSet : task[t] # "none"
UsedInv == HandleUsed /\ EventsUsed

\* The handle's task is one that nobody has told to stop.
Healthy == handle # None => /\ task[handle] \in {"fresh", "open", "pass", "close", "wait"}
                            /\ handle \notin evSet

\* What the setting, the handle and the open request say of each other: only a
\* request that switches off stops a task, and one that is late has done nothing.
Applied ==
    api = "up" =>
        /\ (\A p \in Callers : caller[p] # "stopping") => Healthy
        /\ (\E p \in Callers : caller[p] = "stopping") => ~enabled
        /\ (\A p \in Callers : caller[p] = "idle") => (enabled <=> handle # None)

SettingInv == LoopInv /\ UsedInv /\ (~overlapped => Applied)

-----------------------------------------------------------------------------
(* What holds always.                                                      *)

\* The first state has no request, and the loop the setting asks for.
LEMMA LoopInit == Init => LoopInv
  BY SchedulerAssumption DEF Init, LoopInv, BaseInv, InTurn, TypeOK, TaskStep, Callers, Live,
     HandleNamesLoop, AwaitedIsHandle, OneOpen, RequestsWhileUp, ShutdownWhileStopping, GoneHasNoTask

\* Nothing runs once the event loop is gone.
LEMMA HaltedEnds ==
    ASSUME TypeOK, task' = Halted
    PROVE  task' \in [Tasks -> TaskStep] /\ \A t \in Tasks : ~Live(t)'
  BY DEF TypeOK, TaskStep, Halted, Live

\* A start leaves the types as they are.
LEMMA StartTypes ==
    ASSUME TypeOK, Start
    PROVE  handle' \in Tasks \cup {None} /\ task' \in [Tasks -> TaskStep]
  BY DEF Start, TypeOK, TaskStep, Unused

\* A stop changes its caller and the handle's task, nothing else.
LEMMA StopTypes ==
    ASSUME TypeOK, NEW p \in Callers, BeginStop(p), caller[p] # "stopping"
    PROVE  /\ evSet' \subseteq Tasks
           /\ handle' \in Tasks \cup {None}
           /\ task' \in [Tasks -> TaskStep]
           /\ caller' \in [Callers -> {"idle", "late", "stopping"}]
           /\ awaited' \in [Callers -> Tasks \cup {None}]
           /\ \A q \in Callers : caller'[q] = "stopping" <=> awaited'[q] # None
           /\ \A q \in Callers : q # p => caller'[q] = caller[q]
  <1>1. handle \in Tasks /\ task[handle] \in TaskStep
    BY DEF TypeOK, BeginStop
  <1>2. Cancelled(task[handle]) \in TaskStep
    BY <1>1 DEF Cancelled, InTick, TaskStep
  <1> QED
    BY <1>1, <1>2, SchedulerAssumption, SMTT(30) DEF TypeOK, BeginStop

\* What a request does at its turn leaves what holds always.
LEMMA DecideBase ==
    ASSUME BaseInv, api = "up", api' = api, enabled' \in BOOLEAN, overlapped' \in BOOLEAN,
           NEW p \in Patches, caller[p] # "stopping", Decide(p)
    PROVE  BaseInv'
  <1>1. p \in Callers /\ p # Lifespan /\ Lifespan \in Callers
    BY SchedulerAssumption DEF Callers
  <1>2. caller[Lifespan] = "idle" /\ awaited[p] = None
    BY <1>1 DEF BaseInv, TypeOK, ShutdownWhileStopping
  <1>3. CASE enabled'
    BY <1>1, <1>2, <1>3, StartTypes, SMTT(30) DEF Decide, BaseInv, TypeOK, RequestsWhileUp, ShutdownWhileStopping, GoneHasNoTask
  <1>4. CASE ~enabled' /\ handle = None
    BY <1>1, <1>2, <1>4, SMTT(30) DEF Decide, BaseInv, TypeOK, RequestsWhileUp, ShutdownWhileStopping, GoneHasNoTask
  <1>5. CASE ~enabled' /\ handle # None
    <2>1. BeginStop(p)
      BY <1>5 DEF Decide
    <2> HIDE DEF BeginStop
    <2>2. caller'[Lifespan] = "idle"
      BY <2>1, <1>1, <1>2, StopTypes DEF BaseInv
    <2> QED
      BY <2>1, <2>2, <1>1, StopTypes DEF BaseInv, TypeOK, RequestsWhileUp, ShutdownWhileStopping, GoneHasNoTask
  <1> QED
    BY <1>3, <1>4, <1>5

\* Every step leaves what holds always.
LEMMA BaseStep == BaseInv /\ [Next]_vars => BaseInv'
  <1> SUFFICES ASSUME BaseInv, [Next]_vars PROVE BaseInv'
    OBVIOUS
  <1> USE DEF BaseInv
  <1>0. Lifespan \in Callers /\ Patches \subseteq Callers /\ Lifespan \notin Patches
    BY SchedulerAssumption DEF Callers
  <1>1. ASSUME NEW p \in Patches, NEW on \in BOOLEAN, Patch(p, on) PROVE BaseInv'
    <2>1. /\ api = "up" /\ api' = api /\ caller[p] = "idle"
          /\ enabled' \in BOOLEAN /\ overlapped' \in BOOLEAN
      BY <1>1 DEF Patch, TypeOK
    <2>2. CASE Decide(p)
      BY <2>1, <2>2, DecideBase
    <2>3. CASE caller' = [caller EXCEPT ![p] = "late"] /\ UNCHANGED <<handle, evSet, task, awaited>>
      BY <2>1, <2>3, <1>0, SMTT(30) DEF TypeOK, Live, RequestsWhileUp, ShutdownWhileStopping, GoneHasNoTask
    <2> QED
      BY <1>1, <2>2, <2>3 DEF Patch
  <1>2. ASSUME NEW p \in Patches, LateDecide(p) PROVE BaseInv'
    <2>1. caller[p] = "late" /\ enabled' = enabled /\ overlapped' = overlapped /\ Decide(p) /\ api' = api
      BY <1>2 DEF LateDecide
    <2>2. api = "up" /\ enabled' \in BOOLEAN /\ overlapped' \in BOOLEAN /\ caller[p] # "stopping"
      BY <2>1 DEF TypeOK, RequestsWhileUp
    <2> QED
      BY <2>1, <2>2, DecideBase
  <1>3. ASSUME NEW t \in Tasks, TaskRun(t) PROVE BaseInv'
    <2>1. Live(t)
      BY <1>3 DEF TaskRun, LoopHead, OpenTick, EndPass, CloseTick, Unwind, Live
    <2>2. PICK step \in TaskStep : Move(t, step)
      BY <1>3 DEF TaskRun, LoopHead, OpenTick, EndPass, CloseTick, Unwind, Delay, TaskStep
    <2>3. api \notin {"stopped", "crashed"}
      BY <2>1 DEF GoneHasNoTask
    <2> QED
      BY <2>2, <2>3 DEF Move, TypeOK, RequestsWhileUp, ShutdownWhileStopping, GoneHasNoTask
  <1>4. ASSUME NEW t \in Tasks, EndStop(t) PROVE BaseInv'
    <2> DEFINE woken == {p \in Callers : caller[p] = "stopping" /\ awaited[p] = t}
    <2>1. /\ caller' = [q \in Callers |-> IF q \in woken THEN "idle" ELSE caller[q]]
          /\ awaited' = [q \in Callers |-> IF q \in woken THEN None ELSE awaited[q]]
          /\ handle' = None
          /\ UNCHANGED <<enabled, evSet, overlapped>>
      BY <1>4 DEF EndStop
    <2>2. \/ Lifespan \in woken /\ api' = "stopped" /\ task' = Halted
          \/ Lifespan \notin woken /\ UNCHANGED <<api, task>>
      BY <1>4 DEF EndStop
    <2>3. Lifespan \in woken => api = "stopping"
      BY <1>0 DEF ShutdownWhileStopping
    <2> HIDE DEF woken
    <2>4. TypeOK'
      BY <2>1, <2>2, HaltedEnds, SMTT(30) DEF TypeOK
    <2>5. GoneHasNoTask'
      BY <2>2, HaltedEnds, SMTT(30) DEF GoneHasNoTask, Live
    <2>6. RequestsWhileUp' /\ ShutdownWhileStopping'
      BY <2>1, <2>2, <2>3, <1>0 DEF RequestsWhileUp, ShutdownWhileStopping
    <2> QED
      BY <2>4, <2>5, <2>6
  <1>5. ASSUME Shutdown PROVE BaseInv'
    <2>1. CASE handle = None \/ task[handle] = "ended"
      <3>1. api' = "stopped" /\ task' = Halted /\ handle' = None /\ UNCHANGED <<evSet, caller, awaited, enabled, overlapped>>
        BY <1>5, <2>1 DEF Shutdown
      <3>2. \A p \in Callers : caller[p] = "idle"
        BY <1>5 DEF Shutdown
      <3> QED
        BY <3>1, <3>2, <1>0, HaltedEnds DEF TypeOK, RequestsWhileUp, ShutdownWhileStopping, GoneHasNoTask
    <2>2. CASE ~(handle = None \/ task[handle] = "ended")
      <3>1. api' = "stopping" /\ BeginStop(Lifespan) /\ UNCHANGED <<enabled, overlapped>>
        BY <1>5, <2>2 DEF Shutdown
      <3>2. \A p \in Callers : caller[p] = "idle"
        BY <1>5 DEF Shutdown
      <3> HIDE DEF BeginStop
      <3> QED
        BY <3>1, <3>2, <1>0, StopTypes DEF TypeOK, RequestsWhileUp, ShutdownWhileStopping, GoneHasNoTask
    <2> QED
      BY <2>1, <2>2
  <1>6. ASSUME Crash PROVE BaseInv'
    BY <1>6, <1>0, HaltedEnds DEF Crash, TypeOK, RequestsWhileUp, ShutdownWhileStopping, GoneHasNoTask
  <1>7. ASSUME Restart PROVE BaseInv'
    <2>1. handle' \in Tasks \cup {None} /\ task' \in [Tasks -> TaskStep]
      BY <1>7, SMTT(30) DEF Restart, TypeOK, TaskStep, Unused
    <2>2. \A p \in Callers : caller[p] = "idle"
      BY <1>7, <1>0 DEF Restart, TypeOK, RequestsWhileUp, ShutdownWhileStopping, Callers
    <2> QED
      BY <1>7, <2>1, <2>2, <1>0 DEF Restart, TypeOK, RequestsWhileUp, ShutdownWhileStopping, GoneHasNoTask
  <1>8. CASE UNCHANGED vars
    BY <1>8 DEF vars, TypeOK, Live, RequestsWhileUp, ShutdownWhileStopping, GoneHasNoTask
  <1> QED
    BY <1>1, <1>2, <1>3, <1>4, <1>5, <1>6, <1>7, <1>8 DEF Next

-----------------------------------------------------------------------------
(* What holds until requests overlap.                                      *)

\* A start leaves one live task, the handle's.
LEMMA StartNames ==
    ASSUME BaseInv, HandleNamesLoop, Start
    PROVE  HandleNamesLoop' /\ (handle # None => handle' = handle)
  BY SchedulerAssumption DEF Start, BaseInv, TypeOK, TaskStep, Live, HandleNamesLoop, Unused

\* A stop cancels the handle's task and waits for that one, unless it has ended.
LEMMA StopNames ==
    ASSUME BaseInv, HandleNamesLoop, NEW p \in Callers, BeginStop(p),
           \A q \in Callers : q # p => caller[q] # "stopping"
    PROVE  HandleNamesLoop' /\ AwaitedIsHandle'
  <1>1. handle \in Tasks /\ task[handle] \in TaskStep
    BY DEF BaseInv, TypeOK, BeginStop
  <1>2. task[handle] = "ended" => Cancelled(task[handle]) = "ended"
    BY DEF Cancelled, InTick
  <1>3. \A t \in Tasks : Live(t)' => handle = t /\ task[handle] # "ended"
    BY <1>1, <1>2, SMTT(20) DEF BaseInv, TypeOK, BeginStop, Live, HandleNamesLoop
  <1> QED
    BY <1>1, <1>3, SchedulerAssumption, SMTT(30)
       DEF BaseInv, TypeOK, BeginStop, HandleNamesLoop, AwaitedIsHandle

\* A request that is alone leaves the handle naming the loop.
LEMMA DecideNames ==
    ASSUME BaseInv, InTurn, api = "up", NEW p \in Patches, caller[p] # "stopping", Decide(p),
           \A q \in Patches : q # p => caller[q] = "idle"
    PROVE  InTurn'
  <1>1. p \in Callers
    BY DEF Callers
  <1>2. \A q \in Callers : q # p => caller[q] = "idle"
    BY DEF Callers, BaseInv, ShutdownWhileStopping
  <1>3. \A q \in Patches : q # p => caller'[q] = "idle"
    BY <1>1, <1>2 DEF Decide, BeginStop, BaseInv, TypeOK, Callers
  <1>4. OneOpen'
    BY <1>3 DEF OneOpen
  <1>5. CASE enabled'
    <2>1. \A q \in Callers : caller'[q] = "idle"
      BY <1>1, <1>2, <1>5 DEF Decide, BaseInv, TypeOK
    <2> QED
      BY <2>1, <1>4, <1>5, StartNames DEF Decide, InTurn, AwaitedIsHandle
  <1>6. CASE ~enabled' /\ handle = None
    <2>1. \A q \in Callers : caller'[q] = "idle"
      BY <1>1, <1>2, <1>6 DEF Decide, BaseInv, TypeOK
    <2> QED
      BY <2>1, <1>4, <1>6 DEF Decide, InTurn, AwaitedIsHandle, HandleNamesLoop, Live
  <1>7. CASE ~enabled' /\ handle # None
    <2>1. BeginStop(p)
      BY <1>7 DEF Decide
    <2>2. \A q \in Callers : q # p => caller[q] # "stopping"
      BY <1>2
    <2> HIDE DEF BeginStop
    <2> QED
      BY <2>1, <2>2, <1>1, <1>4, StopNames DEF InTurn
  <1> QED
    BY <1>5, <1>6, <1>7

\* A new process has one task at most, the handle's, and no request.
LEMMA RestartNames ==
    ASSUME BaseInv, Restart
    PROVE  InTurn'
  <1>1. \A t \in Tasks : ~Live(t)
    BY DEF Restart, BaseInv, GoneHasNoTask
  <1>2. HandleNamesLoop'
    BY <1>1, SMTT(30) DEF Restart, BaseInv, TypeOK, TaskStep, Live, HandleNamesLoop, Unused
  <1>3. \A q \in Callers : caller'[q] = "idle"
    BY DEF Restart, BaseInv, RequestsWhileUp, ShutdownWhileStopping, Callers
  <1> QED
    BY <1>2, <1>3 DEF InTurn, AwaitedIsHandle, OneOpen, Callers

\* Only a restart forgets that requests have overlapped.
LEMMA NeverForgotten == [Next]_vars /\ ~Restart /\ overlapped => overlapped'
  BY DEF Next, vars, Patch, LateDecide, TaskRun, LoopHead, OpenTick, EndPass, CloseTick, Unwind,
     Delay, Move, EndStop, Shutdown, Crash

\* A step leaves the handle naming the loop, unless requests overlap in it.
LEMMA TurnStep == BaseInv /\ InTurn /\ [Next]_vars /\ ~overlapped' => InTurn'
  <1> SUFFICES ASSUME BaseInv, InTurn, [Next]_vars, ~overlapped' PROVE InTurn'
    OBVIOUS
  <1>0. Lifespan \in Callers /\ Patches \subseteq Callers /\ Lifespan \notin Patches
    BY SchedulerAssumption DEF Callers
  <1>1. ASSUME NEW p \in Patches, NEW on \in BOOLEAN, Patch(p, on) PROVE InTurn'
    <2>1. api = "up" /\ caller[p] = "idle" /\ \A q \in Patches : q # p => caller[q] = "idle"
      BY <1>1 DEF Patch
    <2>2. CASE Decide(p)
      BY <2>1, <2>2, DecideNames
    <2>3. CASE caller' = [caller EXCEPT ![p] = "late"] /\ UNCHANGED <<handle, evSet, task, awaited>>
      <3>1. \A q \in Callers : caller'[q] = "stopping" => caller[q] = "stopping"
        BY <2>1, <2>3, <1>0 DEF BaseInv, TypeOK
      <3>2. \A q \in Patches : q # p => caller'[q] = "idle"
        BY <2>1, <2>3, <1>0 DEF BaseInv, TypeOK
      <3> QED
        BY <2>3, <3>1, <3>2 DEF InTurn, Live, HandleNamesLoop, AwaitedIsHandle, OneOpen
    <2> QED
      BY <1>1, <2>2, <2>3 DEF Patch
  <1>2. ASSUME NEW p \in Patches, LateDecide(p) PROVE InTurn'
    <2>1. caller[p] = "late" /\ Decide(p)
      BY <1>2 DEF LateDecide
    <2>2. api = "up" /\ \A q \in Patches : q # p => caller[q] = "idle"
      BY <2>1 DEF BaseInv, RequestsWhileUp, InTurn, OneOpen
    <2> QED
      BY <2>1, <2>2, DecideNames
  <1>3. ASSUME NEW t \in Tasks, TaskRun(t) PROVE InTurn'
    <2>1. Live(t)
      BY <1>3 DEF TaskRun, LoopHead, OpenTick, EndPass, CloseTick, Unwind, Live
    <2>2. PICK step \in TaskStep : Move(t, step)
      BY <1>3 DEF TaskRun, LoopHead, OpenTick, EndPass, CloseTick, Unwind, Delay, TaskStep
    <2>3. HandleNamesLoop'
      BY <2>1, <2>2, SMTT(20) DEF Move, BaseInv, TypeOK, InTurn, Live, HandleNamesLoop
    <2> QED
      BY <2>2, <2>3 DEF Move, InTurn, AwaitedIsHandle, OneOpen
  <1>4. ASSUME NEW t \in Tasks, EndStop(t) PROVE InTurn'
    <2> DEFINE woken == {p \in Callers : caller[p] = "stopping" /\ awaited[p] = t}
    <2>1. PICK p \in Callers : caller[p] = "stopping" /\ awaited[p] = t
      BY <1>4 DEF EndStop
    <2>2. handle = t /\ task[t] = "ended"
      BY <1>4, <2>1 DEF EndStop, InTurn, AwaitedIsHandle
    <2>3. \A u \in Tasks : ~Live(u)
      BY <2>2 DEF Live, InTurn, HandleNamesLoop
    <2>4. \A u \in Tasks : ~Live(u)'
      BY <1>4, <2>3, HaltedEnds, SMTT(20) DEF EndStop, BaseInv, Live
    <2>5. caller' = [q \in Callers |-> IF q \in woken THEN "idle" ELSE caller[q]]
      BY <1>4 DEF EndStop
    <2>6. \A q \in Callers : caller'[q] # "stopping" /\ (caller'[q] # "idle" => caller[q] # "idle")
      BY <2>2, <2>5 DEF InTurn, AwaitedIsHandle
    <2> QED
      BY <2>4, <2>6, <1>0 DEF InTurn, HandleNamesLoop, AwaitedIsHandle, OneOpen
  <1>5. ASSUME Shutdown PROVE InTurn'
    <2>1. \A q \in Callers : caller[q] = "idle"
      BY <1>5 DEF Shutdown
    <2>2. CASE handle = None \/ task[handle] = "ended"
      BY <1>5, <1>0, <2>1, <2>2, HaltedEnds DEF Shutdown, BaseInv, InTurn, HandleNamesLoop, AwaitedIsHandle, OneOpen
    <2>3. CASE ~(handle = None \/ task[handle] = "ended")
      <3>1. BeginStop(Lifespan)
        BY <1>5, <2>3 DEF Shutdown
      <3>2. OneOpen'
        <4>1. \A q \in Patches : caller'[q] = "idle"
          BY <3>1, <2>1, <1>0, StopTypes DEF BaseInv
        <4> QED
          BY <4>1 DEF OneOpen
      <3> HIDE DEF BeginStop
      <3> QED
        BY <3>1, <3>2, <2>1, <1>0, StopNames DEF InTurn
    <2> QED
      BY <2>2, <2>3
  <1>6. ASSUME Crash PROVE InTurn'
    BY <1>6, <1>0, HaltedEnds DEF Crash, BaseInv, InTurn, HandleNamesLoop, AwaitedIsHandle, OneOpen
  <1>7. CASE UNCHANGED vars
    BY <1>7 DEF vars, InTurn, Live, HandleNamesLoop, AwaitedIsHandle, OneOpen
  <1>8. ASSUME Restart PROVE InTurn'
    BY <1>8, RestartNames
  <1> QED
    BY <1>1, <1>2, <1>3, <1>4, <1>5, <1>6, <1>7, <1>8 DEF Next

\* Every step keeps the invariant.
LEMMA LoopStep == LoopInv /\ [Next]_vars => LoopInv'
  <1> SUFFICES ASSUME LoopInv, [Next]_vars PROVE LoopInv'
    OBVIOUS
  <1>1. BaseInv'
    BY BaseStep DEF LoopInv
  <1>2. ASSUME ~overlapped' PROVE InTurn'
    <2>1. CASE Restart
      BY <2>1, RestartNames DEF LoopInv
    <2>2. CASE ~Restart
      <3>1. overlapped => overlapped'
        BY <2>2, NeverForgotten
      <3> QED
        BY <3>1, <1>2, TurnStep DEF LoopInv
    <2> QED
      BY <2>1, <2>2
  <1> QED
    BY <1>1, <1>2 DEF LoopInv

-----------------------------------------------------------------------------
(* The setting tells the truth.                                            *)

LEMMA SettingInit == Init => UsedInv /\ Applied
  BY SchedulerAssumption DEF Init, UsedInv, HandleUsed, EventsUsed, Applied, Healthy, Callers

\* A task that was created stays created.
LEMMA HaltedUsed ==
    ASSUME TypeOK, task' = Halted
    PROVE  \A t \in Tasks : task[t] # "none" => task'[t] # "none"
  BY DEF TypeOK, TaskStep, Halted, Live

LEMMA CancelledUsed ==
    ASSUME NEW step \in TaskStep, step # "none"
    PROVE  Cancelled(step) # "none"
  BY DEF Cancelled, InTick, TaskStep

LEMMA StopUsed ==
    ASSUME TypeOK, UsedInv, NEW p \in Callers, BeginStop(p)
    PROVE  UsedInv'
  <1>1. handle \in Tasks /\ task[handle] \in TaskStep /\ task[handle] # "none"
    BY DEF BeginStop, TypeOK, UsedInv, HandleUsed
  <1>2. Cancelled(task[handle]) # "none"
    BY <1>1, CancelledUsed
  <1>3. task' = [task EXCEPT ![handle] = Cancelled(task[handle])]
    BY DEF BeginStop
  <1>4. \A t \in Tasks : task[t] # "none" => task'[t] # "none"
    BY <1>1, <1>2, <1>3 DEF TypeOK
  <1>5. evSet' = evSet \cup {handle} /\ handle' \in {handle, None}
    BY DEF BeginStop
  <1> QED
    BY <1>1, <1>4, <1>5 DEF UsedInv, HandleUsed, EventsUsed, TypeOK

LEMMA StartUsed ==
    ASSUME TypeOK, UsedInv, Start, evSet' = evSet
    PROVE  UsedInv'
  BY SchedulerAssumption DEF Start, TypeOK, TaskStep, UsedInv, HandleUsed, EventsUsed, Unused

LEMMA DecideUsed ==
    ASSUME TypeOK, UsedInv, NEW p \in Patches, Decide(p)
    PROVE  UsedInv'
  <1>1. p \in Callers
    BY DEF Callers
  <1>2. CASE enabled'
    BY <1>2, StartUsed DEF Decide
  <1>3. CASE ~enabled' /\ handle = None
    BY <1>3 DEF Decide, UsedInv, HandleUsed, EventsUsed
  <1>4. CASE ~enabled' /\ handle # None
    BY <1>1, <1>4, StopUsed DEF Decide
  <1> QED
    BY <1>2, <1>3, <1>4

LEMMA UsedStep == TypeOK /\ UsedInv /\ [Next]_vars => UsedInv'
  <1> SUFFICES ASSUME TypeOK, UsedInv, [Next]_vars PROVE UsedInv'
    OBVIOUS
  <1>1. ASSUME NEW p \in Patches, NEW on \in BOOLEAN, Patch(p, on) PROVE UsedInv'
    <2>1. CASE Decide(p)
      BY <2>1, DecideUsed
    <2>2. CASE UNCHANGED <<handle, evSet, task, awaited>>
      BY <2>2 DEF UsedInv, HandleUsed, EventsUsed
    <2> QED
      BY <1>1, <2>1, <2>2 DEF Patch
  <1>2. ASSUME NEW p \in Patches, LateDecide(p) PROVE UsedInv'
    BY <1>2, DecideUsed DEF LateDecide
  <1>3. ASSUME NEW t \in Tasks, TaskRun(t) PROVE UsedInv'
    <2>1. PICK step \in TaskStep \ {"none"} : Move(t, step)
      BY <1>3 DEF TaskRun, LoopHead, OpenTick, EndPass, CloseTick, Unwind, Delay, TaskStep
    <2> QED
      BY <2>1, SMTT(20) DEF Move, TypeOK, UsedInv, HandleUsed, EventsUsed
  <1>4. ASSUME NEW t \in Tasks, EndStop(t) PROVE UsedInv'
    BY <1>4, HaltedUsed DEF EndStop, TypeOK, UsedInv, HandleUsed, EventsUsed
  <1>5. ASSUME Shutdown PROVE UsedInv'
    <2>1. CASE handle = None \/ task[handle] = "ended"
      BY <1>5, <2>1, HaltedUsed DEF Shutdown, TypeOK, UsedInv, HandleUsed, EventsUsed
    <2>2. CASE ~(handle = None \/ task[handle] = "ended")
      BY <1>5, <2>2, StopUsed DEF Shutdown, Callers
    <2> QED
      BY <2>1, <2>2
  <1>6. ASSUME Crash PROVE UsedInv'
    BY <1>6, HaltedUsed DEF Crash, TypeOK, UsedInv, HandleUsed, EventsUsed
  <1>7. ASSUME Restart PROVE UsedInv'
    BY <1>7, SchedulerAssumption DEF Restart, TypeOK, TaskStep, UsedInv, HandleUsed, EventsUsed, Unused
  <1>8. CASE UNCHANGED vars
    BY <1>8 DEF vars, UsedInv, HandleUsed, EventsUsed
  <1> QED
    BY <1>1, <1>2, <1>3, <1>4, <1>5, <1>6, <1>7, <1>8 DEF Next

\* A request that is alone applies the setting: it starts a task, lets the
\* healthy one run, finds none to stop, or stops the one there is.
LEMMA DecideApplies ==
    ASSUME BaseInv, UsedInv, Applied, api = "up", api' = api, NEW p \in Patches,
           caller[p] # "stopping", Decide(p), \A q \in Patches : q # p => caller[q] = "idle"
    PROVE  Applied'
  <1>1. p \in Callers /\ caller \in [Callers -> {"idle", "late", "stopping"}]
    BY DEF Callers, BaseInv, TypeOK
  <1>2. \A q \in Callers : q # p => caller[q] = "idle"
    BY DEF Callers, BaseInv, ShutdownWhileStopping
  <1>3. Healthy
    BY <1>2 DEF Applied
  <1>4. CASE enabled'
    <2>1. \A q \in Callers : caller'[q] = "idle"
      BY <1>1, <1>2, <1>4 DEF Decide
    <2>2. handle' # None /\ Healthy'
      <3>1. CASE handle # None
        BY <1>3, <1>4, <3>1 DEF Decide, Start, Healthy
      <3>2. CASE handle = None
        <4>1. PICK t \in Unused : handle' = t /\ task' = [task EXCEPT ![t] = "fresh"]
          BY <1>4, <3>2 DEF Decide, Start
        <4>2. t \in Tasks /\ t \notin evSet /\ t # None
          BY <4>1, SchedulerAssumption DEF Unused, UsedInv, EventsUsed
        <4>3. task'[t] = "fresh" /\ evSet' = evSet
          BY <1>4, <4>1, <4>2 DEF Decide, BaseInv, TypeOK
        <4> QED
          BY <4>1, <4>2, <4>3 DEF Healthy
      <3> QED
        BY <3>1, <3>2
    <2> QED
      BY <1>4, <2>1, <2>2 DEF Applied
  <1>5. CASE ~enabled' /\ handle = None
    <2>1. \A q \in Callers : caller'[q] = "idle"
      BY <1>1, <1>2, <1>5 DEF Decide
    <2> QED
      BY <1>5, <2>1 DEF Decide, Applied, Healthy
  <1>6. CASE ~enabled' /\ handle # None
    <2>1. task[handle] # "ended" /\ BeginStop(p)
      BY <1>3, <1>6 DEF Decide, Healthy
    <2>2. caller'[p] = "stopping"
      BY <1>1, <2>1 DEF BeginStop
    <2> QED
      BY <1>1, <1>6, <2>2 DEF Applied
  <1> QED
    BY <1>4, <1>5, <1>6

LEMMA RestartApplies ==
    ASSUME BaseInv, UsedInv, Restart
    PROVE  Applied'
  <1>1. \A q \in Callers : caller'[q] = "idle"
    BY DEF Restart, BaseInv, RequestsWhileUp, ShutdownWhileStopping, Callers
  <1>2. Healthy' /\ (enabled' <=> handle' # None)
    BY SchedulerAssumption DEF Restart, BaseInv, TypeOK, UsedInv, EventsUsed, Unused, Healthy
  <1> QED
    BY <1>1, <1>2 DEF Applied

\* A step leaves the setting applied, unless requests overlap in it.
LEMMA AppliedStep == BaseInv /\ InTurn /\ UsedInv /\ Applied /\ [Next]_vars /\ ~overlapped' => Applied'
  <1> SUFFICES ASSUME BaseInv, InTurn, UsedInv, Applied, [Next]_vars, ~overlapped' PROVE Applied'
    OBVIOUS
  <1>0. Lifespan \in Callers /\ Patches \subseteq Callers /\ caller \in [Callers -> {"idle", "late", "stopping"}]
    BY DEF Callers, BaseInv, TypeOK
  <1>1. ASSUME NEW p \in Patches, NEW on \in BOOLEAN, Patch(p, on) PROVE Applied'
    <2>1. api = "up" /\ api' = api /\ caller[p] = "idle" /\ \A q \in Patches : q # p => caller[q] = "idle"
      BY <1>1 DEF Patch
    <2>2. CASE Decide(p)
      BY <2>1, <2>2, DecideApplies
    <2>3. CASE caller' = [caller EXCEPT ![p] = "late"] /\ UNCHANGED <<handle, evSet, task, awaited>>
      <3>1. \A q \in Callers : caller[q] # "stopping"
        BY <2>1 DEF Callers, BaseInv, ShutdownWhileStopping
      <3>2. caller'[p] = "late" /\ \A q \in Callers : caller'[q] # "stopping"
        BY <2>3, <3>1, <1>0
      <3> QED
        BY <2>1, <2>3, <3>1, <3>2, <1>0 DEF Applied, Healthy
    <2> QED
      BY <1>1, <2>2, <2>3 DEF Patch
  <1>2. ASSUME NEW p \in Patches, LateDecide(p) PROVE Applied'
    <2>1. caller[p] = "late" /\ Decide(p) /\ api' = api
      BY <1>2 DEF LateDecide
    <2>2. api = "up" /\ \A q \in Patches : q # p => caller[q] = "idle"
      BY <2>1 DEF BaseInv, RequestsWhileUp, InTurn, OneOpen
    <2> QED
      BY <2>1, <2>2, DecideApplies
  <1>3. ASSUME NEW t \in Tasks, TaskRun(t) PROVE Applied'
    <2>1. handle = t /\ t # None
      BY <1>3, SchedulerAssumption DEF TaskRun, LoopHead, OpenTick, EndPass, CloseTick, Unwind, Live,
         InTurn, HandleNamesLoop
    <2>2. UNCHANGED <<api, enabled, handle, evSet, caller, awaited, overlapped>>
      BY <1>3 DEF TaskRun, LoopHead, OpenTick, EndPass, CloseTick, Unwind, Delay, Move
    <2>3. ASSUME Healthy PROVE Healthy'
      <3>1. PICK step \in {"open", "pass", "close", "wait"} : Move(t, step)
        BY <1>3, <2>1, <2>3 DEF TaskRun, LoopHead, OpenTick, EndPass, CloseTick, Unwind, Delay, Healthy
      <3> QED
        BY <2>1, <2>3, <3>1 DEF Move, Healthy, BaseInv, TypeOK
    <2> QED
      BY <2>2, <2>3 DEF Applied
  <1>4. ASSUME NEW t \in Tasks, EndStop(t) PROVE Applied'
    <2>1. PICK p \in Callers : caller[p] = "stopping" /\ awaited[p] = t
      BY <1>4 DEF EndStop
    <2>2. CASE api = "up"
      <3>1. p \in Patches
        BY <2>1, <2>2 DEF Callers, BaseInv, ShutdownWhileStopping
      <3>2. \A q \in Callers : q # p => caller[q] = "idle"
        BY <2>1, <2>2, <3>1 DEF Callers, BaseInv, ShutdownWhileStopping, InTurn, OneOpen
      <3>3. handle' = None /\ ~enabled' /\ \A q \in Callers : caller'[q] = "idle"
        BY <1>4, <2>1, <2>2, <3>2 DEF EndStop, Applied
      <3> QED
        BY <3>3 DEF Applied, Healthy
    <2>3. CASE api # "up"
      BY <1>4, <2>3 DEF EndStop, Applied
    <2> QED
      BY <2>2, <2>3
  <1>5. ASSUME Shutdown PROVE Applied'
    BY <1>5 DEF Shutdown, Applied
  <1>6. ASSUME Crash PROVE Applied'
    BY <1>6 DEF Crash, Applied
  <1>7. ASSUME Restart PROVE Applied'
    BY <1>7, RestartApplies
  <1>8. CASE UNCHANGED vars
    BY <1>8 DEF vars, Applied, Healthy
  <1> QED
    BY <1>1, <1>2, <1>3, <1>4, <1>5, <1>6, <1>7, <1>8 DEF Next

\* Every step keeps the whole invariant.
LEMMA SettingStep == SettingInv /\ [Next]_vars => SettingInv'
  <1> SUFFICES ASSUME SettingInv, [Next]_vars PROVE SettingInv'
    OBVIOUS
  <1>1. LoopInv'
    BY LoopStep DEF SettingInv
  <1>2. UsedInv'
    BY UsedStep DEF SettingInv, LoopInv, BaseInv
  <1>3. ASSUME ~overlapped' PROVE Applied'
    <2>1. CASE Restart
      BY <2>1, RestartApplies DEF SettingInv, LoopInv
    <2>2. CASE ~Restart
      <3>1. ~overlapped
        BY <2>2, <1>3, NeverForgotten
      <3> QED
        BY <3>1, <1>3, AppliedStep DEF SettingInv, LoopInv
    <2> QED
      BY <2>1, <2>2
  <1> QED
    BY <1>1, <1>2, <1>3 DEF SettingInv

-----------------------------------------------------------------------------
(* The theorems.                                                           *)

\* Every variable keeps its type, and a request that waits in stop() is one that
\* knows the task it waits for.
THEOREM TypesHold == Spec => []TypeOK
  <1>1. LoopInv => TypeOK
    BY DEF LoopInv, BaseInv
  <1> QED
    BY <1>1, LoopInit, LoopStep, PTL DEF Spec

\* start() sees the handle and stop() waits before it clears it: while settings
\* requests come one at a time, there is never a second loop.
THEOREM LoopIsSingle == Spec => []SingleLoop
  <1>1. LoopInv => SingleLoop
    BY DEF LoopInv, InTurn, HandleNamesLoop, SingleLoop
  <1> QED
    BY <1>1, LoopInit, LoopStep, PTL DEF Spec

\* Whenever no request is open the loop of an enabled scheduler is running and
\* one that is off has none: start() and stop() leave the handle as the setting
\* says, and a restart applies what was saved.
THEOREM SettingTellsTruth == Spec => []SettingApplies
  <1>1. SettingInv => SettingApplies
    <2> SUFFICES ASSUME SettingInv, ~overlapped, api = "up", \A p \in Callers : caller[p] = "idle"
                 PROVE  enabled <=> \E t \in Tasks : Live(t) /\ task[t] \notin {"unwind", "dying"}
      BY DEF SettingApplies
    <2>1. Healthy /\ (enabled <=> handle # None)
      BY DEF SettingInv, Applied
    <2>2. ASSUME enabled PROVE \E t \in Tasks : Live(t) /\ task[t] \notin {"unwind", "dying"}
      BY <2>1, <2>2 DEF Healthy, Live, SettingInv, LoopInv, BaseInv, TypeOK
    <2>3. ASSUME NEW t \in Tasks, Live(t) PROVE enabled
      BY <2>1, <2>3, SchedulerAssumption DEF SettingInv, LoopInv, InTurn, HandleNamesLoop
    <2> QED
      BY <2>2, <2>3
  <1> QED
    BY <1>1, LoopInit, SettingInit, SettingStep, PTL DEF Spec, SettingInv
=============================================================================
