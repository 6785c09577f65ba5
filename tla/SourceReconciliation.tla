------------------------ MODULE SourceReconciliation ------------------------
(***************************************************************************)
(* Preservation Watch: what one channel's index says of the source state   *)
(* of its videos, given listings that are capped, empty after an outage,   *)
(* without dates or counts, and applied later than they were made          *)
(* (backend/app/services/source_reconciliation.py, channel_registration.py *)
(* and ytdlp_probe.py).                                                    *)
(*                                                                         *)
(* The source (which uploads it lists, when they were published) is the    *)
(* environment.  A refresh probes it and applies the answer in one write   *)
(* transaction: a sync, or a registration of the channel that exists.      *)
(***************************************************************************)
EXTENDS Integers, FiniteSetsExt

CONSTANTS
    Videos,   \* uploads
    Syncs,    \* refreshes that can be under way at one time
    None,     \* no time, no answer
    Cap,      \* settings.channel_probe_video_limit
    Confirm,  \* settings.preservation_confirm_hours
    Hours,    \* the bound on the clock
    Counted,  \* whether playlist_count comes with a listing: a subset of BOOLEAN
    Ties      \* whether two uploads can have the same publication time

ASSUME SourceAssumption ==
    /\ None \notin Int
    /\ None \notin [ids : SUBSET Videos, dated : SUBSET Videos, count : Nat, listed : SUBSET Videos, at : Nat]
    /\ Cap \in Nat \ {0}
    /\ Confirm \in Nat
    /\ Hours \in Nat
    /\ Counted \subseteq BOOLEAN
    /\ Ties \in BOOLEAN
    /\ IsFiniteSet(Videos)

VARIABLES
    now,       \* the clock, in hours
    listed,    \* uploads the source lists
    published, \* when an upload was first listed, None before
    indexed,   \* videos with a row
    state,     \* source_state of a row
    seen,      \* last_seen_in_source_at
    removedAt, \* removed_detected_at
    dated,     \* rows with a published_at
    probe      \* the answer a refresh has in hand

source == <<listed, published>>
rows == <<indexed, state, seen, removedAt, dated>>
vars == <<now, source, rows, probe>>

Answer == [ids : SUBSET Videos, dated : SUBSET Videos, count : Nat, listed : SUBSET Videos, at : Nat]

Init ==
    /\ now = 0
    /\ listed = {}
    /\ published = [v \in Videos |-> None]
    /\ indexed = {}
    /\ state = [v \in Videos |-> "available"]
    /\ seen = [v \in Videos |-> None]
    /\ removedAt = [v \in Videos |-> None]
    /\ dated = {}
    /\ probe = [s \in Syncs |-> None]

-----------------------------------------------------------------------------
(* The source and the clock.                                               *)

Publish(v) ==
    /\ published[v] = None
    /\ ~Ties => \A u \in Videos : published[u] # now
    /\ published' = [published EXCEPT ![v] = now]
    /\ listed' = listed \cup {v}
    /\ UNCHANGED <<now, rows, probe>>

Unlist(v) ==
    /\ v \in listed
    /\ listed' = listed \ {v}
    /\ UNCHANGED <<now, published, rows, probe>>

Relist(v) ==
    /\ published[v] # None
    /\ v \notin listed
    /\ listed' = listed \cup {v}
    /\ UNCHANGED <<now, published, rows, probe>>

\* A probe is timed out after a minute or two: an answer in hand is less than
\* an hour old, though the clock may strike in between.
Tick ==
    /\ now < Hours
    /\ \A s \in Syncs : probe[s] # None => probe[s].at = now
    /\ now' = now + 1
    /\ UNCHANGED <<source, rows, probe>>

\* Mutant: an imported row has no sighting.
ImportUnseen(v) ==
    /\ v \notin indexed
    /\ indexed' = indexed \cup {v}
    /\ UNCHANGED <<now, source, state, seen, removedAt, dated, probe>>

\* archive.txt names an upload that was never listed here: a row without a date.
Import(v) ==
    /\ v \notin indexed
    /\ indexed' = indexed \cup {v}
    /\ state' = [state EXCEPT ![v] = "available"]
    /\ seen' = [seen EXCEPT ![v] = now]
    /\ UNCHANGED <<now, source, removedAt, dated, probe>>

-----------------------------------------------------------------------------
(* A refresh.                                                              *)

\* The newest uploads of the listing, as many as the cap lets through.
Newest(R) ==
    /\ R \subseteq listed
    /\ Cardinality(R) = IF Cardinality(listed) <= Cap THEN Cardinality(listed) ELSE Cap
    /\ \A r \in R, u \in listed \ R : published[r] >= published[u]

\* A probe that fails changes nothing, so only answers are steps.  The flat
\* listing dates some of its entries; without a playlist_count the entries
\* themselves are counted.
Probe(s) ==
    /\ probe[s] = None
    /\ \E R \in SUBSET listed : \E D \in SUBSET R, counted \in Counted :
        /\ Newest(R)
        /\ probe' = [probe EXCEPT ![s] =
             [ids |-> R, dated |-> D, listed |-> listed, at |-> now,
              count |-> IF counted THEN Cardinality(listed) ELSE Cardinality(R)]]
    /\ UNCHANGED <<now, source, rows>>

\* An outage looks like a channel without videos.
ProbeEmpty(s) ==
    /\ probe[s] = None
    /\ probe' = [probe EXCEPT ![s] = [ids |-> {}, dated |-> {}, listed |-> listed, at |-> now, count |-> 0]]
    /\ UNCHANGED <<now, source, rows>>

\* The listing is all there is, as far as the answer tells.
Complete(a) == Cardinality(a.ids) >= a.count

\* Mutant: only a complete listing tells of an absence.
WithinCompleteListing(a, v) == Complete(a)

\* Absence from a capped listing tells only of uploads as new as its oldest date.
WithinCoveredWindow(a, v) ==
    \/ Complete(a)
    \/ /\ a.dated # {}
       /\ v \in dated
       /\ \E d \in a.dated : published[v] >= published[d]

\* Mutant: an empty answer is taken at its word.
GoneAfterOutage(a) ==
    {v \in indexed \ a.ids : /\ state[v] = "available"
                             /\ WithinCoveredWindow(a, v)
                             /\ now - seen[v] >= Confirm}

\* Rows an answer proves to be gone: absent, judged by it, and unseen for long.
Gone(a) ==
    {v \in indexed \ a.ids : /\ a.ids # {}
                             /\ state[v] = "available"
                             /\ WithinCoveredWindow(a, v)
                             /\ now - seen[v] >= Confirm}

\* Mutant: a video that is back keeps the date of its removal.
ApplyKeepsMark(s) ==
    LET a == probe[s]
        gone == Gone(a) IN
    /\ a # None
    /\ indexed' = indexed \cup a.ids
    /\ dated' = dated \cup a.dated
    /\ state' = [v \in Videos |-> IF v \in a.ids THEN "available" ELSE IF v \in gone THEN "removed" ELSE state[v]]
    /\ seen' = [v \in Videos |-> IF v \in a.ids THEN now ELSE seen[v]]
    /\ removedAt' = [v \in Videos |-> IF v \in gone THEN now ELSE removedAt[v]]
    /\ probe' = [probe EXCEPT ![s] = None]
    /\ UNCHANGED <<now, source>>

\* The rows of the answer are upserted, then the others are judged: one
\* transaction, whose first write comes before its first read of the rows.
Apply(s) ==
    LET a == probe[s]
        gone == Gone(a) IN
    /\ a # None
    /\ indexed' = indexed \cup a.ids
    /\ dated' = dated \cup a.dated
    /\ state' = [v \in Videos |-> IF v \in a.ids THEN "available" ELSE IF v \in gone THEN "removed" ELSE state[v]]
    /\ seen' = [v \in Videos |-> IF v \in a.ids THEN now ELSE seen[v]]
    /\ removedAt' = [v \in Videos |-> IF v \in a.ids THEN None ELSE IF v \in gone THEN now ELSE removedAt[v]]
    /\ probe' = [probe EXCEPT ![s] = None]
    /\ UNCHANGED <<now, source>>

Next ==
    \/ \E v \in Videos : Publish(v) \/ Unlist(v) \/ Relist(v) \/ Import(v)
    \/ Tick
    \/ \E s \in Syncs : Probe(s) \/ ProbeEmpty(s) \/ Apply(s)

Spec == Init /\ [][Next]_vars

\* The clock runs, and the source answers again and again: outages and failures
\* do not take every refresh.
Fairness ==
    /\ WF_vars(Tick)
    /\ SF_vars(\E s \in Syncs : Probe(s))
    /\ \A s \in Syncs : WF_vars(Apply(s))

FairSpec == Spec /\ Fairness

-----------------------------------------------------------------------------
(* Properties.                                                             *)

TypeOK ==
    /\ now \in 0..Hours
    /\ listed \subseteq Videos
    /\ published \in [Videos -> 0..Hours \cup {None}]
    /\ indexed \subseteq Videos
    /\ state \in [Videos -> {"available", "removed"}]
    /\ seen \in [Videos -> 0..Hours \cup {None}]
    /\ removedAt \in [Videos -> 0..Hours \cup {None}]
    /\ dated \subseteq indexed
    /\ probe \in [Syncs -> Answer \cup {None}]
    /\ \A v \in indexed : seen[v] # None
    /\ \A s \in Syncs : probe[s] # None => probe[s].dated \subseteq probe[s].ids

\* A removal is founded: the row carries its date exactly while it is removed,
\* and by then the video had not been seen for the confirmation time, in
\* whichever order overlapping refreshes were applied.
RemovalFounded ==
    \A v \in indexed :
        /\ state[v] = "removed" <=> removedAt[v] # None
        /\ state[v] = "removed" => removedAt[v] - seen[v] >= Confirm

\* The cap cut uploads off an answer that came without a count to tell it by.
Uncounted(a) == a.ids # {} /\ a.count < Cardinality(a.listed)

\* The upload has the publication time of one that the answer dates.
Tied(a, v) == \E d \in a.dated : published[d] = published[v]

\* An outage or a capped listing does not make a video removed that the source
\* listed when it was asked (the module docstring's promise).  It takes a cut
\* that nothing told of, or one between two uploads of the same time.
ListedNeverRemoved ==
    [][\A v \in indexed : state[v] = "available" /\ state'[v] = "removed" =>
        \E s \in Syncs : /\ probe[s] # None
                         /\ probe'[s] = None
                         /\ \/ v \notin probe[s].listed
                            \/ Uncounted(probe[s])
                            \/ Tied(probe[s], v)]_vars

\* Uploads new enough for the cap to let them through.
WithinCap == {v \in listed : Cardinality({u \in listed : published[u] >= published[v]}) <= Cap}

\* An answer in hand that an upload is missing from, though it dates one that is
\* not newer.
Passed(v) ==
    /\ v \in dated
    /\ \E s \in Syncs :
         /\ probe[s] # None
         /\ v \notin probe[s].ids
         /\ \E d \in probe[s].dated : published[v] >= published[d]

\* The index catches up with a source that settles.  What is gone for good and
\* unseen for the confirmation time is recorded as removed, if the listings fit
\* the cap or reach as far back as the upload again and again: an upload beyond
\* the window of a capped listing is left as it was.  What is back for good,
\* within the cap, is available again.
IndexCatchesUp ==
    \A v \in Videos :
        /\ /\ <>[](v \in indexed \ listed /\ listed # {} /\ seen[v] + Confirm <= Hours)
           /\ \/ <>[](Cardinality(listed) <= Cap)
              \/ []<>Passed(v)
           => <>[](state[v] = "removed")
        /\ <>[](v \in WithinCap) => <>[](v \in indexed /\ state[v] = "available")
=============================================================================
