---------------------------- MODULE EventStream ----------------------------
(***************************************************************************)
(* The event stream from the API process to one browser console: the event *)
(* bus with its history and its replay (backend/app/services/event_bus.py, *)
(* routers/events.py), the client that reconnects                          *)
(* (frontend/src/api/event-stream.ts), and what the console makes of it    *)
(* (frontend/src/App.tsx): an event arms a reload of the dashboard, and so *)
(* does a connection that returns.                                         *)
(*                                                                         *)
(* Events are numbered as they are published, and each of them stands for  *)
(* a change that the dashboard shows.                                      *)
(***************************************************************************)
EXTENDS Integers, SequencesExt

CONSTANTS
    Conns,        \* connections that exist at one time
    ReplayLimit,  \* the events of the history that a new connection is sent
    None,         \* no connection, no answer, no dashboard
    Plans         \* what may go wrong in a behaviour, with the bounds on the events ever
                  \* published and on the dashboard requests under way at one time

\* "stop": the API process stops or dies; "early": also before the console was
\* ever connected; "break": connections break; "slow": sends time out; "token":
\* the token is refused; "overtake": answers arrive in another order.
FaultKinds == {"stop", "early", "break", "slow", "token", "overtake"}

ASSUME StreamAssumption ==
    /\ Plans \subseteq [faults : SUBSET FaultKinds, events : Nat, asks : Nat \ {0}]
    /\ ReplayLimit \in Nat \ {0}
    /\ None \notin Conns \cup Int
    /\ Conns # {}

VARIABLES
    plan,       \* what may go wrong in this behaviour, and its bounds
    up,         \* whether the API process is up
    published,  \* the number of events so far: the state of the archive
    since,      \* the events of earlier processes, which the history has lost
    joining,    \* accepted, but not yet one of the clients
    clients,    \* _clients
    base,       \* the events published before it became a client
    rest,       \* what is left of its replay
    lane,       \* sends that wait for its lock, the holder first
    sent,       \* the frames sent on a connection
    link,       \* the connection: "none", "dialing", "accepted", "refused", "closed"
    socket,     \* the client's current connection
    phase,      \* its readyState and those of its predecessors
    handled,    \* how many frames have arrived
    timer,      \* whether a reconnection is due
    everOpen,   \* connectedBefore
    blocked,    \* authBlocked
    due,        \* whether a reload of the dashboard is due
    asks,       \* the dashboard requests under way, in the order they were made
    view,       \* the state that the dashboard shows
    missed      \* history: the last answer failed, or was none of the newest; nothing
                \* brings a reload then, before the next event does

bus == <<plan, up, published, since, joining, clients, base, rest, lane>>
client == <<socket, phase, timer, everOpen, blocked>>
console == <<due, asks, view, missed>>
vars == <<bus, sent, link, handled, client, console>>

\* A request; stale, once its answer may be older than what the page has to show.
Ask(kind) == [kind |-> kind, got |-> None, stale |-> FALSE]
Outdate(requests) == [i \in DOMAIN requests |-> [requests[i] EXCEPT !.stale = TRUE]]

\* The console has just been loaded: loadDashboard() and connect() have been called.
Init ==
    /\ plan \in Plans
    /\ up \in IF "early" \in plan.faults THEN BOOLEAN ELSE {TRUE}
    /\ published = 0
    /\ since = 0
    /\ joining = {}
    /\ clients = {}
    /\ base = [s \in Conns |-> 0]
    /\ rest = [s \in Conns |-> <<>>]
    /\ lane = [s \in Conns |-> <<>>]
    /\ sent = [s \in Conns |-> <<>>]
    /\ handled = [s \in Conns |-> 0]
    /\ socket = CHOOSE s \in Conns : TRUE
    /\ link = [s \in Conns |-> IF s = socket THEN "dialing" ELSE "none"]
    /\ phase = [s \in Conns |-> IF s = socket THEN "connecting" ELSE "none"]
    /\ timer = FALSE
    /\ everOpen = FALSE
    /\ blocked = FALSE
    /\ due = FALSE
    /\ asks = <<Ask("load")>>
    /\ view = None
    /\ missed = FALSE

-----------------------------------------------------------------------------
(* The event bus.                                                          *)

\* Mutant: a client whose socket is busy is passed over.
PublishToIdle ==
    /\ up
    /\ published < plan.events
    /\ published' = published + 1
    /\ lane' = [s \in Conns |-> IF s \in clients /\ lane[s] = <<>> THEN <<published'>> ELSE lane[s]]
    /\ UNCHANGED <<plan, up, since, joining, clients, base, rest, sent, link, handled, client, console>>

\* The event joins the history, and the sends of every client of that moment.
Publish ==
    /\ up
    /\ published < plan.events
    /\ published' = published + 1
    /\ lane' = [s \in Conns |-> IF s \in clients THEN Append(lane[s], published') ELSE lane[s]]
    /\ UNCHANGED <<plan, up, since, joining, clients, base, rest, sent, link, handled, client, console>>

\* The history of this process, the newest first, as far as it is replayed.
Oldest(n) == IF n - ReplayLimit > since THEN n - ReplayLimit + 1 ELSE since + 1
Replay == [i \in 1..(published - Oldest(published) + 1) |-> published + 1 - i]

Accept(s) ==
    /\ up
    /\ link[s] = "dialing"
    /\ link' = [link EXCEPT ![s] = "accepted"]
    /\ joining' = joining \cup {s}
    /\ UNCHANGED <<plan, up, published, since, clients, base, rest, lane, sent, handled, client, console>>

Refuse(s) ==
    /\ up
    /\ "token" \in plan.faults
    /\ link[s] = "dialing"
    /\ link' = [link EXCEPT ![s] = "refused"]
    /\ UNCHANGED <<bus, sent, handled, client, console>>

\* connect() after its await: a client, and the first event of the replay.
Register(s) ==
    /\ s \in joining
    /\ joining' = joining \ {s}
    /\ clients' = clients \cup {s}
    /\ base' = [base EXCEPT ![s] = published]
    /\ lane' = [lane EXCEPT ![s] = SubSeq(Replay, 1, IF Replay = <<>> THEN 0 ELSE 1)]
    /\ rest' = [rest EXCEPT ![s] = SubSeq(Replay, 2, Len(Replay))]
    /\ UNCHANGED <<plan, up, published, since, sent, link, handled, client, console>>

\* Mutant: a send does not wait for the lock.
SendAny(s) ==
    /\ lane[s] # <<>>
    /\ link[s] = "accepted"
    /\ \E i \in DOMAIN lane[s] :
        LET replayed == lane[s][i] <= base[s] /\ rest[s] # <<>> IN
        /\ sent' = [sent EXCEPT ![s] = Append(@, lane[s][i])]
        /\ lane' = [lane EXCEPT ![s] = IF replayed THEN Append(RemoveAt(@, i), Head(rest[s])) ELSE RemoveAt(@, i)]
        /\ rest' = [rest EXCEPT ![s] = IF replayed THEN Tail(@) ELSE @]
    /\ UNCHANGED <<plan, up, published, since, joining, clients, base, link, handled, client, console>>

\* The holder of the lock has sent its event; the replay queues up for its next.
Send(s) ==
    LET replayed == Head(lane[s]) <= base[s] /\ rest[s] # <<>> IN
    /\ lane[s] # <<>>
    /\ link[s] = "accepted"
    /\ sent' = [sent EXCEPT ![s] = Append(@, Head(lane[s]))]
    /\ lane' = [lane EXCEPT ![s] = IF replayed THEN Append(Tail(@), Head(rest[s])) ELSE Tail(@)]
    /\ rest' = [rest EXCEPT ![s] = IF replayed THEN Tail(@) ELSE @]
    /\ UNCHANGED <<plan, up, published, since, joining, clients, base, link, handled, client, console>>

\* disconnect() and close(): who waits for the lock sends nothing any more.
Disconnect(s) ==
    /\ clients' = clients \ {s}
    /\ lane' = [lane EXCEPT ![s] = <<>>]
    /\ rest' = [rest EXCEPT ![s] = <<>>]
    /\ link' = [link EXCEPT ![s] = "closed"]
    /\ UNCHANGED <<plan, up, published, since, joining, base, handled, client, console>>

\* A send, or its wait for the lock, takes too long; the frame of the holder
\* may still go out.
TimeOut(s) ==
    /\ "slow" \in plan.faults
    /\ s \in clients
    /\ lane[s] # <<>>
    /\ link[s] = "accepted"
    /\ sent' \in {sent, [sent EXCEPT ![s] = Append(@, Head(lane[s]))]}
    /\ Disconnect(s)

\* The server notices that the connection is gone.
Notice(s) ==
    /\ s \in clients
    /\ link[s] = "closed"
    /\ Disconnect(s)
    /\ UNCHANGED sent

Break(s) ==
    /\ "break" \in plan.faults
    /\ link[s] \in {"dialing", "accepted"}
    /\ link' = [link EXCEPT ![s] = "closed"]
    /\ UNCHANGED <<bus, sent, handled, client, console>>

\* The process stops or is killed, and with it the history and every connection.  To a
\* console that was never connected that means what it had not yet asked for.
Stop ==
    /\ up
    /\ "stop" \in plan.faults
    /\ everOpen \/ "early" \in plan.faults
    /\ up' = FALSE
    /\ since' = published
    /\ joining' = {}
    /\ clients' = {}
    /\ lane' = [s \in Conns |-> <<>>]
    /\ rest' = [s \in Conns |-> <<>>]
    /\ link' = [s \in Conns |-> IF link[s] = "none" THEN "none" ELSE "closed"]
    /\ asks' = IF everOpen THEN asks ELSE Outdate(asks)
    /\ missed' = (missed \/ ~everOpen)
    /\ UNCHANGED <<plan, published, base, sent, handled, client, due, view>>

Start ==
    /\ ~up
    /\ up' = TRUE
    /\ UNCHANGED <<plan, published, since, joining, clients, base, rest, lane, sent, link, handled, client, console>>

-----------------------------------------------------------------------------
(* The client.                                                             *)

\* connect(): the timer is cleared, and a new connection (free ones are
\* alike) is the current one.
Dial ==
    /\ \E s \in Conns : link[s] = "none"
    /\ ~blocked
    /\ socket' = CHOOSE s \in Conns : link[s] = "none"
    /\ link' = [link EXCEPT ![socket'] = "dialing"]
    /\ phase' = [phase EXCEPT ![socket'] = "connecting"]
    /\ timer' = FALSE
    /\ UNCHANGED <<bus, sent, handled, everOpen, blocked, console>>

Retry == timer /\ Dial

\* The browser comes online or the page is looked at again.
Reconnect == (socket # None => phase[socket] = "closing") /\ Dial


\* onopen: a connection that returns calls loadDashboard() again.
Opened(s) ==
    /\ phase[s] = "connecting"
    /\ link[s] = "accepted"
    /\ phase' = [phase EXCEPT ![s] = "open"]
    /\ IF socket = s /\ everOpen
       THEN Len(asks) < plan.asks /\ asks' = Append(asks, Ask("load"))
       ELSE UNCHANGED asks
    /\ IF socket = s THEN everOpen' = TRUE ELSE UNCHANGED everOpen
    /\ UNCHANGED <<bus, sent, link, handled, socket, timer, blocked, due, view, missed>>

\* onmessage, for the current connection: a reload is due.
Message(s) ==
    /\ phase[s] \in {"open", "closing"}
    /\ handled[s] < Len(sent[s])
    /\ handled' = [handled EXCEPT ![s] = @ + 1]
    /\ due' = (due \/ socket = s)
    /\ UNCHANGED <<bus, sent, link, client, asks, view, missed>>

Closing(s) ==
    /\ phase[s] = "open"
    /\ link[s] = "closed"
    /\ phase' = [phase EXCEPT ![s] = "closing"]
    /\ UNCHANGED <<bus, sent, link, handled, socket, timer, everOpen, blocked, console>>

\* Mutant: only a connection that was open is replaced.
ClosedOnlyRetriesOpen(s) ==
    /\ phase[s] # "none"
    /\ link[s] \in {"closed", "refused"}
    /\ phase' = [phase EXCEPT ![s] = "none"]
    /\ IF socket = s
       THEN /\ socket' = None
            /\ timer' = (phase[s] # "connecting")
            /\ UNCHANGED blocked
       ELSE UNCHANGED <<socket, blocked, timer>>
    /\ UNCHANGED <<bus, sent, link, handled, everOpen, console>>

\* onclose, or the connection could not be made: what has not arrived is lost.
\* A refusal blocks the client if its code gets through: the server refuses
\* before it accepts, and that may reach a browser as a mere failure.
Closed(s) ==
    /\ phase[s] # "none"
    /\ link[s] \in {"closed", "refused"}
    /\ phase' = [phase EXCEPT ![s] = "none"]
    /\ IF socket = s
       THEN /\ socket' = None
            /\ blocked' \in IF link[s] = "refused" THEN BOOLEAN ELSE {blocked}
            /\ timer' = ~blocked'
       ELSE UNCHANGED <<socket, blocked, timer>>
    /\ UNCHANGED <<bus, sent, link, handled, everOpen, console>>

\* No handshake while the process is down.
Unanswered(s) ==
    /\ ~up
    /\ link[s] = "dialing"
    /\ link' = [link EXCEPT ![s] = "closed"]
    /\ UNCHANGED <<bus, sent, handled, client, console>>

\* Mutant: the next connection inherits the count of its predecessor.
ForgetBadly(s) ==
    /\ link[s] \in {"closed", "refused"}
    /\ phase[s] = "none"
    /\ s \notin clients \cup joining
    /\ link' = [link EXCEPT ![s] = "none"]
    /\ sent' = [sent EXCEPT ![s] = <<>>]
    /\ base' = [base EXCEPT ![s] = 0]
    /\ UNCHANGED <<plan, up, published, since, joining, clients, rest, lane, handled, client, console>>

\* Both sides are through with a connection.
Forget(s) ==
    /\ link[s] \in {"closed", "refused"}
    /\ phase[s] = "none"
    /\ s \notin clients \cup joining
    /\ link' = [link EXCEPT ![s] = "none"]
    /\ sent' = [sent EXCEPT ![s] = <<>>]
    /\ handled' = [handled EXCEPT ![s] = 0]
    /\ base' = [base EXCEPT ![s] = 0]
    /\ UNCHANGED <<plan, up, published, since, joining, clients, rest, lane, client, console>>

-----------------------------------------------------------------------------
(* The console.                                                            *)

\* The reload that an event has made due, half a second after the last event.
Refresh ==
    /\ due
    /\ Len(asks) < plan.asks
    /\ due' = FALSE
    /\ asks' = Append(asks, Ask("refresh"))
    /\ UNCHANGED <<bus, sent, link, handled, client, view, missed>>

\* A request is answered with the state of that moment, or fails, be it that only one
\* of the requests it consists of does.
Answer(i) ==
    /\ i \in DOMAIN asks
    /\ asks[i].got = None
    /\ \E got \in {-1} \cup (IF up THEN {published} ELSE {}) :
          asks' = [asks EXCEPT ![i].got = got]
    /\ UNCHANGED <<bus, sent, link, handled, client, due, view, missed>>

\* The answer is taken; a load that fails leaves no dashboard, and a refresh that
\* fails what was there.  Neither is tried again.
Take(i) ==
    /\ i \in DOMAIN asks
    /\ asks[i].got # None
    /\ i = 1 \/ "overtake" \in plan.faults
    /\ asks' = Outdate(SubSeq(asks, 1, i - 1)) \o SubSeq(asks, i + 1, Len(asks))
    /\ view' = IF asks[i].got >= 0 THEN asks[i].got
               ELSE IF asks[i].kind = "load" THEN None ELSE view
    /\ missed' = IF asks[i].got = -1 /\ asks[i].kind = "refresh" /\ asks[i].stale THEN missed
                 ELSE asks[i].got = -1 \/ asks[i].stale
    /\ UNCHANGED <<bus, sent, link, handled, client, due>>

Disturb == Stop \/ \E s \in Conns : Break(s) \/ TimeOut(s) \/ Refuse(s)

Next ==
    \/ Publish
    \/ \E s \in Conns : Accept(s) \/ Register(s) \/ Send(s) \/ Notice(s)
    \/ \E s \in Conns : Opened(s) \/ Message(s) \/ Closing(s) \/ Closed(s) \/ Unanswered(s) \/ Forget(s)
    \/ Retry \/ Reconnect \/ Start
    \/ Refresh
    \/ \E i \in DOMAIN asks : Answer(i) \/ Take(i)
    \/ Disturb

Spec == Init /\ [][Next]_vars

\* Both ends run what is ready, requests are answered, the process is restarted,
\* and from some time on nothing goes wrong.
FairSpec ==
    /\ Spec
    /\ \A s \in Conns :
        /\ WF_vars(Accept(s)) /\ WF_vars(Register(s)) /\ WF_vars(Send(s)) /\ WF_vars(Notice(s))
        /\ WF_vars(Opened(s)) /\ WF_vars(Message(s)) /\ WF_vars(Closed(s))
        /\ WF_vars(Unanswered(s)) /\ WF_vars(Forget(s))
    /\ WF_vars(Start) /\ WF_vars(Retry) /\ WF_vars(Refresh)
    /\ \A i \in 1..Max({p.asks : p \in Plans}) : WF_vars(Answer(i)) /\ WF_vars(Take(i))
    /\ <>[][~Disturb]_vars

-----------------------------------------------------------------------------
(* Properties.                                                             *)

TypeOK ==
    /\ plan \in Plans /\ up \in BOOLEAN
    /\ published \in 0..plan.events /\ since \in 0..published
    /\ joining \subseteq Conns /\ clients \subseteq Conns \ joining
    /\ base \in [Conns -> 0..plan.events]
    /\ {rest, lane, sent} \subseteq [Conns -> Seq(1..plan.events)]
    /\ link \in [Conns -> {"none", "dialing", "accepted", "refused", "closed"}]
    /\ socket \in Conns \cup {None}
    /\ phase \in [Conns -> {"none", "connecting", "open", "closing"}]
    /\ handled \in [Conns -> Nat] /\ \A s \in Conns : handled[s] <= Len(sent[s])
    /\ timer \in BOOLEAN /\ everOpen \in BOOLEAN /\ blocked \in BOOLEAN /\ due \in BOOLEAN
    /\ asks \in Seq([kind : {"load", "refresh"}, got : (-1)..plan.events \cup {None},
                     stale : BOOLEAN])
    /\ Len(asks) <= plan.asks
    /\ view \in 0..plan.events \cup {None} /\ missed \in BOOLEAN

\* A client gets what was replayed and what was published since, each event once
\* and none left out: connect() adds it and reads the history in one go.
EachOnce ==
    \A s \in clients :
        LET all == sent[s] \o lane[s] \o rest[s] IN
        link[s] = "accepted" =>
            /\ ToSet(all) = Oldest(base[s])..published
            /\ Len(all) = Cardinality(ToSet(all))

\* Events published since it became a client reach it in the order of their
\* publication, however its replay is mixed with them (the lock is fair).
LiveInOrder ==
    \A s \in Conns : \A i, j \in DOMAIN sent[s] :
        i < j /\ sent[s][i] > base[s] /\ sent[s][j] > base[s] => sent[s][i] < sent[s][j]

Live == socket # None /\ phase[socket] = "open" /\ socket \in clients

\* A client that was not told that its token is wrong is connected in the end,
\* and stays so, whatever its sockets and timers went through.
BackOnline == <>[](blocked \/ Live)

=============================================================================
