----------------------------- MODULE Scheduler -----------------------------
(***************************************************************************)
(* The life of one in-process scheduler: its asyncio task, the handle and  *)
(* the stop event the scheduler object keeps of it, and the settings       *)
(* requests that switch it on and off                                      *)
(* (backend/app/services/download_scheduler.py, metadata_scheduler.py,     *)
(* runtime_settings.py, main.py).  The two schedulers have the same code   *)
(* here, but a request reaches the metadata scheduler only after it has    *)
(* awaited the stop() of the download scheduler (Kind).                    *)
(*                                                                         *)
(* start() runs to its end at once.  stop() awaits the task it cancelled,  *)
(* and other requests run meanwhile.                                       *)
(***************************************************************************)
EXTENDS Naturals, FiniteSets

CONSTANTS
    Tasks,      \* asyncio tasks ever created: the bound on the starts
    Patches,    \* PATCH settings/runtime requests that can be open at one time
    Lifespan,   \* the application's shutdown, which calls stop() as well
    None,       \* no task
    Kind        \* "download" or "metadata"

ASSUME SchedulerAssumption ==
    /\ None \notin Tasks
    /\ Lifespan \notin Patches
    /\ Kind \in {"download", "metadata"}

VARIABLES
    api,      \* "up", "stopping", "stopped", "crashed"
    enabled,  \* settings.*_scheduler_enabled, saved in the managed env file too
    handle,   \* _task; the event in _stop_event was made together with it
    evSet,    \* the tasks whose stop event is set
    task,     \* where a task is
    caller,   \* where a request, or the shutdown, is
    awaited,  \* the task its stop() awaits
    overlapped \* whether a request has begun beside another in this process

vars == <<api, enabled, handle, evSet, task, caller, awaited, overlapped>>

Callers == Patches \cup {Lifespan}
TaskStep == {"none", "fresh", "open", "pass", "close", "wait", "unwind", "dying", "ended"}
InTick == {"open", "pass", "close"}

Live(t) == task[t] \notin {"none", "ended"}
Unused == {t \in Tasks : task[t] = "none"}

\* Where tasks are when the event loop is gone.
Halted == [t \in Tasks |-> IF Live(t) THEN "ended" ELSE task[t]]

Init ==
    /\ api = "up"
    /\ enabled \in BOOLEAN
    /\ IF enabled THEN \E t \in Tasks : /\ handle = t
                                        /\ task = [u \in Tasks |-> IF u = t THEN "fresh" ELSE "none"]
       ELSE /\ handle = None
            /\ task = [t \in Tasks |-> "none"]
    /\ evSet = {}
    /\ caller = [p \in Callers |-> "idle"]
    /\ awaited = [p \in Callers |-> None]
    /\ overlapped = FALSE

-----------------------------------------------------------------------------
(* start() and stop().                                                     *)

\* A second start() does nothing while there is a handle.
Start ==
    IF handle # None THEN UNCHANGED <<handle, task>>
    ELSE \E t \in Unused : /\ handle' = t
                           /\ task' = [task EXCEPT ![t] = "fresh"]

\* Task.cancel() is thrown into the task at its await; a task that has not begun
\* never does.  In a tick the handlers of the pass and of the tick run first, and
\* a second cancellation finds the task in them.
Cancelled(step) ==
    CASE step \in InTick -> "unwind"
      [] step \in {"fresh", "wait"} -> "dying"
      [] OTHER -> step

\* Mutant: stop() relies on the cancellation alone.
BeginStopCancels(p) ==
    /\ handle # None
    /\ task' = [task EXCEPT ![handle] = Cancelled(@)]
    /\ IF task[handle] = "ended"
       THEN /\ handle' = None
            /\ caller' = [caller EXCEPT ![p] = "idle"]
            /\ UNCHANGED awaited
       ELSE /\ caller' = [caller EXCEPT ![p] = "stopping"]
            /\ awaited' = [awaited EXCEPT ![p] = handle]
            /\ UNCHANGED handle
    /\ UNCHANGED evSet

\* stop() up to its await; a task that has ended already is not waited for.
BeginStop(p) ==
    /\ handle # None
    /\ evSet' = evSet \cup {handle}
    /\ task' = [task EXCEPT ![handle] = Cancelled(@)]
    /\ IF task[handle] = "ended"
       THEN /\ handle' = None
            /\ caller' = [caller EXCEPT ![p] = "idle"]
            /\ UNCHANGED awaited
       ELSE /\ caller' = [caller EXCEPT ![p] = "stopping"]
            /\ awaited' = [awaited EXCEPT ![p] = handle]
            /\ UNCHANGED handle

\* Mutant: stop() returns without waiting for the task.
EndStopEarly(t) ==
    LET woken == {p \in Callers : caller[p] = "stopping" /\ awaited[p] = t} IN
    /\ woken # {}
    /\ handle' = None
    /\ caller' = [p \in Callers |-> IF p \in woken THEN "idle" ELSE caller[p]]
    /\ awaited' = [p \in Callers |-> IF p \in woken THEN None ELSE awaited[p]]
    /\ api' = IF Lifespan \in woken THEN "stopped" ELSE api
    /\ UNCHANGED <<enabled, evSet, task, overlapped>>

\* Mutant: stop() leaves the handle in place.
EndStopKeepsHandle(t) ==
    LET woken == {p \in Callers : caller[p] = "stopping" /\ awaited[p] = t} IN
    /\ task[t] = "ended"
    /\ woken # {}
    /\ caller' = [p \in Callers |-> IF p \in woken THEN "idle" ELSE caller[p]]
    /\ awaited' = [p \in Callers |-> IF p \in woken THEN None ELSE awaited[p]]
    /\ api' = IF Lifespan \in woken THEN "stopped" ELSE api
    /\ UNCHANGED <<enabled, handle, evSet, task, overlapped>>

\* Mutant: a caller forgets to clear what it awaited.
EndStopForgets(t) ==
    LET woken == {p \in Callers : caller[p] = "stopping" /\ awaited[p] = t} IN
    /\ task[t] = "ended"
    /\ woken # {}
    /\ handle' = None
    /\ caller' = [p \in Callers |-> IF p \in woken THEN "idle" ELSE caller[p]]
    /\ api' = IF Lifespan \in woken THEN "stopped" ELSE api
    /\ UNCHANGED <<enabled, evSet, task, awaited, overlapped>>

\* stop() after its await clears the handle, whichever task that names by now.
\* All who await one task are woken together.
EndStop(t) ==
    LET woken == {p \in Callers : caller[p] = "stopping" /\ awaited[p] = t} IN
    /\ task[t] = "ended"
    /\ woken # {}
    /\ handle' = None
    /\ caller' = [p \in Callers |-> IF p \in woken THEN "idle" ELSE caller[p]]
    /\ awaited' = [p \in Callers |-> IF p \in woken THEN None ELSE awaited[p]]
    /\ IF Lifespan \in woken
       THEN /\ api' = "stopped"
            /\ task' = Halted
       ELSE UNCHANGED <<api, task>>
    /\ UNCHANGED <<enabled, evSet, overlapped>>

-----------------------------------------------------------------------------
(* The requests and the process.                                           *)

\* Mutant: a request that switches the scheduler off only saves the setting.
DecideSaves(p) ==
    /\ IF enabled' THEN Start ELSE UNCHANGED <<handle, task>>
    /\ caller' = [caller EXCEPT ![p] = "idle"]
    /\ UNCHANGED <<evSet, awaited>>

\* What a request does to this scheduler: it goes by the setting of that moment.
Decide(p) ==
    IF enabled' THEN /\ Start
                     /\ caller' = [caller EXCEPT ![p] = "idle"]
                     /\ UNCHANGED <<evSet, awaited>>
    ELSE IF handle = None THEN /\ caller' = [caller EXCEPT ![p] = "idle"]
                               /\ UNCHANGED <<handle, evSet, task, awaited>>
    ELSE BeginStop(p)

\* The setting is changed before anything is awaited; a request may find itself
\* waiting for the other scheduler before it gets to this one.
Patch(p, on) ==
    /\ api = "up"
    /\ caller[p] = "idle"
    /\ overlapped' = (overlapped \/ \E q \in Patches \ {p} : caller[q] # "idle")
    /\ enabled' = on
    /\ \/ Decide(p)
       \/ /\ Kind = "metadata"
          /\ caller' = [caller EXCEPT ![p] = "late"]
          /\ UNCHANGED <<handle, evSet, task, awaited>>
    /\ UNCHANGED api

LateDecide(p) ==
    /\ caller[p] = "late"
    /\ enabled' = enabled
    /\ Decide(p)
    /\ UNCHANGED <<api, overlapped>>

\* Shutdown begins when no request is open.  With no task to wait for, the event
\* loop ends at once, and what it still runs ends with it.
Shutdown ==
    /\ api = "up"
    /\ \A p \in Callers : caller[p] = "idle"
    /\ IF handle = None \/ task[handle] = "ended"
       THEN /\ api' = "stopped"
            /\ task' = Halted
            /\ handle' = None
            /\ UNCHANGED <<evSet, caller, awaited>>
       ELSE /\ api' = "stopping"
            /\ BeginStop(Lifespan)
    /\ UNCHANGED <<enabled, overlapped>>

Crash ==
    /\ api \in {"up", "stopping"}
    /\ api' = "crashed"
    /\ task' = Halted
    /\ caller' = [p \in Callers |-> "idle"]
    /\ awaited' = [p \in Callers |-> None]
    /\ UNCHANGED <<enabled, handle, evSet, overlapped>>

\* Mutant: the saved setting is not applied at startup.
RestartOff ==
    /\ api \in {"stopped", "crashed"}
    /\ api' = "up"
    /\ handle' = None
    /\ overlapped' = FALSE
    /\ UNCHANGED <<enabled, evSet, task, caller, awaited>>

\* A new process: no handle, the saved setting is applied, start() is called.
Restart ==
    /\ api \in {"stopped", "crashed"}
    /\ api' = "up"
    /\ IF enabled THEN \E t \in Unused : /\ handle' = t
                                         /\ task' = [task EXCEPT ![t] = "fresh"]
       ELSE /\ handle' = None
            /\ UNCHANGED task
    /\ overlapped' = FALSE
    /\ UNCHANGED <<enabled, evSet, caller, awaited>>

-----------------------------------------------------------------------------
(* The loop of _run() and the awaits of one tick.                          *)

Move(t, step) ==
    /\ task' = [task EXCEPT ![t] = step]
    /\ UNCHANGED <<api, enabled, handle, evSet, caller, awaited, overlapped>>

\* The head of the loop reads _stop_event of the object.  Without one the task
\* dies of an assertion or an AttributeError, with a set one it leaves the loop.
LoopHead(t) ==
    /\ task[t] \in {"fresh", "wait"}
    /\ Move(t, IF handle = None \/ handle \in evSet THEN "ended" ELSE "open")

\* The delay between two ticks is a wait for the event, read anew.
Delay(t) == Move(t, IF handle = None THEN "ended" ELSE "wait")

\* The tick's row is written; the pass follows unless its switch is off.
OpenTick(t) ==
    /\ task[t] = "open"
    /\ \/ Move(t, "pass")
       \/ Delay(t)

\* The pass returns or raises.
EndPass(t) ==
    /\ task[t] = "pass"
    /\ \/ Move(t, "close")
       \/ Delay(t)

\* The outcome is written; what is raised on the way, the loop catches.
CloseTick(t) ==
    /\ task[t] = "close"
    /\ Delay(t)

\* A cancelled task ends when its handlers have run.  An exception that one of
\* them raises takes the cancellation's place: the loop catches it and goes on.
Unwind(t) ==
    \/ /\ task[t] \in {"unwind", "dying"}
       /\ Move(t, "ended")
    \/ /\ task[t] = "unwind"
       /\ Delay(t)

TaskRun(t) == LoopHead(t) \/ OpenTick(t) \/ EndPass(t) \/ CloseTick(t) \/ Unwind(t)

Next ==
    \/ \E p \in Patches, on \in BOOLEAN : Patch(p, on)
    \/ \E p \in Patches : LateDecide(p)
    \/ \E t \in Tasks : TaskRun(t) \/ EndStop(t)
    \/ Shutdown
    \/ Crash
    \/ Restart

Spec == Init /\ [][Next]_vars

\* The event loop runs every ready task and wakes every waiter; the pass a tick
\* awaits ends (its transfers have timeouts).
FairSpec ==
    /\ Spec
    /\ \A t \in Tasks : WF_vars(TaskRun(t)) /\ WF_vars(EndStop(t))
    /\ \A p \in Patches : WF_vars(LateDecide(p))

-----------------------------------------------------------------------------
(* Properties.                                                             *)

TypeOK ==
    /\ api \in {"up", "stopping", "stopped", "crashed"}
    /\ enabled \in BOOLEAN
    /\ overlapped \in BOOLEAN
    /\ handle \in Tasks \cup {None}
    /\ evSet \subseteq Tasks
    /\ task \in [Tasks -> TaskStep]
    /\ caller \in [Callers -> {"idle", "late", "stopping"}]
    /\ awaited \in [Callers -> Tasks \cup {None}]
    /\ \A p \in Callers : caller[p] = "stopping" <=> awaited[p] # None

\* There is never more than one loop: two would run two passes of the worker
\* side by side in every interval (start() looks at _task, stop() waits before
\* it clears it), as long as settings requests come one at a time.
SingleLoop == ~overlapped => \A t, u \in Tasks : Live(t) /\ Live(u) => t = u

\* Once no request is open the setting tells the truth: the loop of an enabled
\* scheduler is running, and one that is off has none (PATCH settings/runtime
\* applies its changes at once; a restart applies the saved ones).  Overlapping
\* requests can lose a start: start() finds the handle that a stop is to clear.
SettingApplies ==
    ~overlapped /\ api = "up" /\ (\A p \in Callers : caller[p] = "idle")
        => (enabled <=> \E t \in Tasks : Live(t) /\ task[t] \notin {"unwind", "dying"})

\* Every request and the shutdown get their answer: stop() does not wait for
\* ever for the task it cancelled, also when the cancellation is lost to an
\* exception of a handler: the loop that goes on finds its event set.  The one
\* way out is that another request's stop() has cleared the handle and a loop has
\* been started since: the loop that goes on then reads that loop's event.
Replaced(p) == handle \notin {None, awaited[p]}
StopReturns ==
    \A p \in Callers : caller[p] = "stopping" ~> (caller[p] = "idle" \/ Replaced(p))

\* A scheduler that is switched off for good falls silent, also when overlapping
\* requests have left a loop that no handle names: such a loop reads the event
\* of the object, and finds it set or gone.
OffFallsSilent ==
    <>[](api = "up" /\ ~enabled) => <>[](\A t \in Tasks : task[t] \notin InTick)

\* A scheduler that stays on in a process that stays up keeps ticking.
KeepsTicking ==
    <>[](api = "up" /\ enabled /\ ~overlapped /\ \A p \in Callers : caller[p] = "idle")
        => []<>(\E t \in Tasks : task[t] = "open")
=============================================================================
