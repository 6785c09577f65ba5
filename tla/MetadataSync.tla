---------------------------- MODULE MetadataSync ----------------------------
(***************************************************************************)
(* The ticks of the metadata scheduler (backend/app/services/              *)
(* metadata_scheduler.py) and the syncs of single channels                 *)
(* (channel_sync.py): which channels a tick takes, how they fail, what one *)
(* failure does to the others, and the one transaction a tick commits.     *)
(*                                                                         *)
(* SQLite gives its write lock to one transaction: a sync takes it with    *)
(* the insert of its job row and keeps it while it probes the source.      *)
(***************************************************************************)
EXTENDS Naturals, SequencesExt

CONSTANTS
    Channels,  \* active channels
    Broken,    \* their source cannot be probed: rescan:// channels, say
    Clashing,  \* their handle now leads to a channel of another row: external_id is unique
    Ticks,     \* the scheduler's ticks, and those of POST sync/scheduler/run-once
    Requests,  \* POST channels/{id}/sync
    Limit,     \* settings.metadata_sync_scheduler_limit
    None       \* nobody

ASSUME SyncAssumption ==
    /\ IsFiniteSet(Channels)
    /\ Broken \subseteq Channels
    /\ Clashing \subseteq Channels \ Broken
    /\ Ticks \cap Requests = {}
    /\ Limit \in 1..20
    /\ None \notin Ticks \cup Requests

Actors == Ticks \cup Requests

VARIABLES
    order,   \* the channels by last_synced_at, the oldest first
    due,     \* channels whose sync interval is over
    odd,     \* channels with a sync job that is left running
    lock,    \* who writes
    at,      \* where a tick or request is
    took,    \* the due channels it took
    todo,    \* the channels it has yet to sync
    done,    \* those it has synced, in its transaction
    raised,  \* those whose sync raised, their job rows still running
    failed,  \* whether one of its syncs failed
    lost,    \* whether a database error has ended its transaction
    row      \* status of the row of its last tick

session == <<took, todo, done, raised, failed, lost>>
stored == <<order, due, odd>>
vars == <<stored, lock, at, session, row>>

Orders == {s \in [1..Cardinality(Channels) -> Channels] : ToSet(s) = Channels}

Init ==
    /\ order \in Orders
    /\ due = {}
    /\ odd = {}
    /\ lock = None
    /\ at = [a \in Actors |-> "idle"]
    /\ took = [a \in Actors |-> {}]
    /\ todo = [a \in Actors |-> <<>>]
    /\ done = [a \in Actors |-> <<>>]
    /\ raised = [a \in Actors |-> {}]
    /\ failed = [a \in Actors |-> FALSE]
    /\ lost = [a \in Actors |-> FALSE]
    /\ row = [a \in Actors |-> "none"]

Elapse(c) ==
    /\ c \notin due
    /\ due' = due \cup {c}
    /\ UNCHANGED <<order, odd, lock, at, session, row>>

\* The session of an actor is closed; what it has not committed is undone.
Leave(a) ==
    /\ at' = [at EXCEPT ![a] = "idle"]
    /\ took' = [took EXCEPT ![a] = {}]
    /\ todo' = [todo EXCEPT ![a] = <<>>]
    /\ done' = [done EXCEPT ![a] = <<>>]
    /\ raised' = [raised EXCEPT ![a] = {}]
    /\ failed' = [failed EXCEPT ![a] = FALSE]
    /\ lost' = [lost EXCEPT ![a] = FALSE]
    /\ lock' = IF lock = a THEN None ELSE lock

\* Mutant: a failed statement does not end the transaction for the tick.
LoseNothing(a) ==
    /\ todo' = [todo EXCEPT ![a] = <<>>]
    /\ lost' = [lost EXCEPT ![a] = TRUE]
    /\ failed' = [failed EXCEPT ![a] = TRUE]
    /\ at' = [at EXCEPT ![a] = "next"]
    /\ lock' = IF lock = a THEN None ELSE lock
    /\ UNCHANGED <<stored, took, done, raised, row>>

\* A failed statement ends the transaction: what it held is undone and every
\* later use of the session raises as well, so the other channels fail too.
Lose(a) ==
    /\ todo' = [todo EXCEPT ![a] = <<>>]
    /\ done' = [done EXCEPT ![a] = <<>>]
    /\ raised' = [raised EXCEPT ![a] = {}]
    /\ failed' = [failed EXCEPT ![a] = TRUE]
    /\ lost' = [lost EXCEPT ![a] = TRUE]
    /\ at' = [at EXCEPT ![a] = "next"]
    /\ lock' = IF lock = a THEN None ELSE lock
    /\ UNCHANGED <<stored, took, row>>

-----------------------------------------------------------------------------
(* A tick opens, and a request.                                            *)

\* The row of the tick is committed first.
Begin(a) ==
    /\ a \in Ticks
    /\ at[a] = "idle"
    /\ lock = None
    /\ at' = [at EXCEPT ![a] = "find"]
    /\ row' = [row EXCEPT ![a] = "running"]
    /\ UNCHANGED <<stored, lock, session>>

\* The elements of s that are in S, in their order: SelectSeq, by rank instead of by
\* recursion, which the proofs could not look into.
Kept(s, S) ==
    LET places == {i \in DOMAIN s : s[i] \in S}
        Rank(i) == Cardinality({j \in places : j <= i})
    IN  [k \in 1..Cardinality(places) |-> s[CHOOSE i \in places : Rank(i) = k]]

\* The due channels, the longest not synced first, as many as the limit lets through.
FindDueSyncChannels ==
    LET waiting == Kept(order, due) IN
    SubSeq(waiting, 1, IF Len(waiting) < Limit THEN Len(waiting) ELSE Limit)

Find(a) ==
    /\ at[a] = "find"
    /\ \/ /\ FindDueSyncChannels = <<>>
          /\ lock = None
          /\ row' = [row EXCEPT ![a] = "skipped"]
          /\ Leave(a)
          /\ UNCHANGED stored
       \/ /\ FindDueSyncChannels = <<>>
          /\ lock # None
          /\ Lose(a)
       \/ /\ FindDueSyncChannels # <<>>
          /\ took' = [took EXCEPT ![a] = ToSet(FindDueSyncChannels)]
          /\ todo' = [todo EXCEPT ![a] = FindDueSyncChannels]
          /\ at' = [at EXCEPT ![a] = "next"]
          /\ UNCHANGED <<stored, lock, done, raised, failed, lost, row>>

SyncChannel(r, c) ==
    /\ r \in Requests
    /\ at[r] = "idle"
    /\ todo' = [todo EXCEPT ![r] = <<c>>]
    /\ at' = [at EXCEPT ![r] = "next"]
    /\ UNCHANGED <<stored, lock, took, done, raised, failed, lost, row>>

-----------------------------------------------------------------------------
(* The sync of one channel.                                                *)

\* The insert of the job row takes the lock.
RunChannelSync(a) ==
    /\ at[a] = "next"
    /\ todo[a] # <<>>
    /\ lock \in {None, a}
    /\ lock' = a
    /\ at' = [at EXCEPT ![a] = "probe"]
    /\ UNCHANGED <<stored, session, row>>

\* The lock is somebody else's for longer than the driver waits.
LockedOut(a) ==
    /\ at[a] = "next"
    /\ todo[a] # <<>>
    /\ lock \notin {None, a}
    /\ Lose(a)

Advance(a) ==
    /\ todo' = [todo EXCEPT ![a] = Tail(@)]
    /\ at' = [at EXCEPT ![a] = "next"]
    /\ UNCHANGED <<stored, lock, took, lost, row>>

Synced(a) ==
    /\ at[a] = "probe"
    /\ Head(todo[a]) \notin Broken \cup Clashing
    /\ done' = [done EXCEPT ![a] = Append(@, Head(todo[a]))]
    /\ Advance(a)
    /\ UNCHANGED <<raised, failed>>

\* A probe that fails leaves a failed job.
ProbeFails(a) ==
    /\ at[a] = "probe"
    /\ Head(todo[a]) \notin Broken
    /\ failed' = [failed EXCEPT ![a] = TRUE]
    /\ Advance(a)
    /\ UNCHANGED <<done, raised>>

\* Any other exception leaves the job row as it is; the tick goes on to the next
\* channel, a request ends and is rolled back.
SyncRaises(a) ==
    /\ at[a] = "probe"
    /\ Head(todo[a]) \in Broken
    /\ IF a \in Ticks
       THEN /\ raised' = [raised EXCEPT ![a] = @ \cup {Head(todo[a])}]
            /\ failed' = [failed EXCEPT ![a] = TRUE]
            /\ Advance(a)
            /\ UNCHANGED done
       ELSE /\ Leave(a)
            /\ UNCHANGED <<stored, row>>

\* The probe is written and breaks a constraint (channels.external_id is unique).
SyncClashes(a) ==
    /\ at[a] = "probe"
    /\ Head(todo[a]) \in Clashing
    /\ Lose(a)

-----------------------------------------------------------------------------
(* The end of a tick or request.                                           *)

\* Mutant: the row says completed when one channel was synced.
OutcomeLenient(a) == IF failed[a] /\ done[a] = <<>> THEN "failed" ELSE "completed"

Outcome(a) == IF failed[a] THEN "failed" ELSE "completed"

\* Mutant: a synced channel keeps its old place as well.
CommitTwice(a) ==
    /\ at[a] = "next"
    /\ todo[a] = <<>>
    /\ ~lost[a]
    /\ order' = order \o done[a]
    /\ due' = due \ ToSet(done[a])
    /\ odd' = odd \cup raised[a]
    /\ row' = IF a \in Ticks THEN [row EXCEPT ![a] = Outcome(a)] ELSE row
    /\ Leave(a)

\* All the syncs of a tick and its row are committed at once.
Commit(a) ==
    /\ at[a] = "next"
    /\ todo[a] = <<>>
    /\ ~lost[a]
    /\ order' = Kept(order, Channels \ ToSet(done[a])) \o done[a]
    /\ due' = due \ ToSet(done[a])
    /\ odd' = odd \cup raised[a]
    /\ row' = IF a \in Ticks THEN [row EXCEPT ![a] = Outcome(a)] ELSE row
    /\ Leave(a)

\* After a database error the row is marked in a transaction of its own, if that
\* gets the lock.
MarkFailed(a) ==
    /\ at[a] = "next"
    /\ lost[a]
    /\ row' = IF a \in Ticks /\ lock = None THEN [row EXCEPT ![a] = "failed"] ELSE row
    /\ Leave(a)
    /\ UNCHANGED stored

\* The task is cancelled: no handler of the tick catches that.
Cut(a) ==
    /\ at[a] # "idle"
    /\ Leave(a)
    /\ UNCHANGED <<stored, row>>

Step(a) ==
    \/ Begin(a) \/ Find(a)
    \/ RunChannelSync(a) \/ LockedOut(a)
    \/ Synced(a) \/ ProbeFails(a) \/ SyncRaises(a) \/ SyncClashes(a)
    \/ Commit(a) \/ MarkFailed(a)

Next ==
    \/ \E c \in Channels : Elapse(c)
    \/ \E r \in Requests, c \in Channels : SyncChannel(r, c)
    \/ \E a \in Actors : Step(a) \/ Cut(a)

Spec == Init /\ [][Next]_vars

\* The scheduler keeps ticking and is left alone from some time on; a probe that
\* can succeed, and a wait for the lock that can, do so in the end.
FairSpec ==
    /\ Spec
    /\ \A a \in Actors : WF_vars(Step(a))
    /\ \A a \in Ticks : SF_vars(RunChannelSync(a))
    /\ \A a \in Ticks, c \in Channels : SF_vars(Synced(a) /\ Head(todo[a]) = c)
    /\ <>[][\A a \in Actors : ~Cut(a)]_vars

-----------------------------------------------------------------------------
(* Properties.                                                             *)

TypeOK ==
    /\ order \in Orders
    /\ due \subseteq Channels
    /\ odd \subseteq Broken
    /\ lock \in Actors \cup {None}
    /\ at \in [Actors -> {"idle", "find", "next", "probe"}]
    /\ took \in [Actors -> SUBSET Channels]
    /\ todo \in [Actors -> Seq(Channels)]
    /\ done \in [Actors -> Seq(Channels)]
    /\ raised \in [Actors -> SUBSET Broken]
    /\ failed \in [Actors -> BOOLEAN]
    /\ lost \in [Actors -> BOOLEAN]
    /\ row \in [Actors -> {"none", "running", "completed", "failed", "skipped"}]

\* A tick that reports completed has synced every channel it took.
CompletedMeansFresh ==
    [][\A a \in Ticks : row[a] = "running" /\ row'[a] = "completed" => took[a] \cap due' = {}]_vars

\* Syncs do not overlap, not even of different ticks and requests: whoever has
\* results that are not committed, or is about to have some, holds the lock.
SyncsSerialised ==
    \A a \in Actors : at[a] = "probe" \/ done[a] # <<>> \/ raised[a] # {} => lock = a

\* Every channel that can be synced is synced again when it is due: a bad channel
\* does not block the rest (the comment on the handler in the tick).
EveryChannelSynced == \A c \in Channels \ (Broken \cup Clashing) : c \in due ~> c \notin due
=============================================================================
