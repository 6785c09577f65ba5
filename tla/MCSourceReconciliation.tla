----------------------- MODULE MCSourceReconciliation -----------------------
(***************************************************************************)
(* Preservation Watch on two plans, since together they are beyond TLC.    *)
(* "overlap" has two refreshes and two uploads of different times.         *)
(* "window" has one refresh at a time and three uploads, as many as it     *)
(* takes for a capped listing to have a window that an upload is missing   *)
(* from, while the newest is returned and another is cut off; one upload   *)
(* goes, for good, none is imported, and every answer has its count.       *)
(* In both the uploads are named in the order in which they are published, *)
(* none of them in the last hour, which leaves no time to confirm a loss.  *)
(***************************************************************************)
EXTENDS SourceReconciliation

VARIABLE plan

CONSTANTS v1, v2, v3, s1

Earlier == [v \in Videos |-> CASE v = v1 -> {} [] v = v2 -> {v1} [] OTHER -> {v1, v2}]

NamedInOrder ==
    \A v \in Videos : published'[v] # None => \A u \in Earlier[v] : published'[u] # None

Missing == {v \in Videos : published[v] # None} \ listed

Planned ==
    /\ NamedInOrder
    /\ \A v \in Videos : published'[v] # Hours
    /\ \/ /\ plan = "overlap"
          /\ published'[v3] = None
          /\ v3 \notin indexed'
          /\ published'[v1] = published'[v2] => published'[v1] = None
       \/ /\ plan = "window"
          /\ \A s \in Syncs \ {s1} : probe'[s] = None
          /\ \A v \in indexed' : published'[v] # None
          /\ probe'[s1] # None => probe'[s1].count = Cardinality(probe'[s1].listed)
          /\ Missing \subseteq Missing'
          /\ Cardinality(Missing') <= 1

PlannedInit == Init /\ plan \in {"overlap", "window"}
PlannedNext == Next /\ Planned /\ UNCHANGED plan

PlannedSpec == PlannedInit /\ [][PlannedNext]_<<vars, plan>> /\ Fairness
=============================================================================
