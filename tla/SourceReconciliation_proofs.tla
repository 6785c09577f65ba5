-------------------- MODULE SourceReconciliation_proofs --------------------
(***************************************************************************)
(* Two promises of Preservation Watch, for every number of uploads and of  *)
(* overlapping refreshes: a removal is founded on an absence of the        *)
(* confirmation time, and no outage and no cap makes a listed video        *)
(* removed, but for a cut that nothing tells of or that parts equal times. *)
(***************************************************************************)
EXTENDS SourceReconciliation, FiniteSetTheorems, TLAPS

\* A row that does not exist yet carries no removal.
NoRowNoMark == \A v \in Videos \ indexed : state[v] = "available" /\ removedAt[v] = None

FoundedInv == TypeOK /\ NoRowNoMark /\ RemovalFounded

\* An answer in hand holds the newest of what was listed, and tells when it is
\* not all of it; the publication times it is judged by have not changed since.
AnswerHolds(a) ==
    \/ a.ids = {}
    \/ /\ a.ids \subseteq a.listed
       /\ Complete(a) => a.ids = a.listed \/ Uncounted(a)
       /\ a.dated \subseteq a.ids
       /\ \A u \in a.listed : published[u] # None
       /\ \A r \in a.ids, u \in a.listed \ a.ids : published[r] >= published[u]

AnswersHold == \A s \in Syncs : probe[s] # None => AnswerHolds(probe[s])
ListedIsPublished == \A v \in listed : published[v] # None

ListingInv ==
    /\ TypeOK
    /\ AnswersHold
    /\ ListedIsPublished

-----------------------------------------------------------------------------
(* Types.                                                                  *)

LEMMA TypeInit == Init => TypeOK
  BY SourceAssumption DEF Init, TypeOK

\* An answer a probe gives has the type of an answer.
LEMMA ProbeType ==
    ASSUME TypeOK, NEW s \in Syncs, Probe(s) \/ ProbeEmpty(s)
    PROVE  /\ probe' \in [Syncs -> Answer \cup {None}]
           /\ \A t \in Syncs : probe'[t] # None => probe'[t].dated \subseteq probe'[t].ids
           /\ UNCHANGED <<now, source, rows>>
  <1>1. CASE Probe(s)
    <2>1. PICK R \in SUBSET listed : \E D \in SUBSET R, counted \in Counted :
            /\ Newest(R)
            /\ probe' = [probe EXCEPT ![s] =
                 [ids |-> R, dated |-> D, listed |-> listed, at |-> now,
                  count |-> IF counted THEN Cardinality(listed) ELSE Cardinality(R)]]
      BY <1>1 DEF Probe
    <2>2. PICK D \in SUBSET R, counted \in Counted :
            probe' = [probe EXCEPT ![s] =
                 [ids |-> R, dated |-> D, listed |-> listed, at |-> now,
                  count |-> IF counted THEN Cardinality(listed) ELSE Cardinality(R)]]
      BY <2>1
    <2>3. IsFiniteSet(R) /\ IsFiniteSet(listed)
      BY FS_Subset, SourceAssumption DEF TypeOK
    <2>4. Cardinality(R) \in Nat /\ Cardinality(listed) \in Nat
      BY <2>3, FS_CardinalityType
    <2>5. now \in Nat /\ R \in SUBSET Videos /\ D \in SUBSET Videos /\ listed \in SUBSET Videos
      BY SourceAssumption DEF TypeOK
    <2> DEFINE n == IF counted THEN Cardinality(listed) ELSE Cardinality(R)
    <2>6. n \in Nat
      BY <2>4
    <2> HIDE DEF n
    <2>7. [ids |-> R, dated |-> D, listed |-> listed, at |-> now, count |-> n] \in Answer
      BY <2>5, <2>6 DEF Answer
    <2>8. probe' = [probe EXCEPT ![s] = [ids |-> R, dated |-> D, listed |-> listed, at |-> now, count |-> n]]
      BY <2>2 DEF n
    <2>9. probe' \in [Syncs -> Answer \cup {None}]
      BY <2>7, <2>8 DEF TypeOK
    <2>10. \A t \in Syncs : probe'[t] # None => probe'[t].dated \subseteq probe'[t].ids
      BY <2>5, <2>8 DEF TypeOK
    <2> QED
      BY <2>9, <2>10, <1>1 DEF Probe
  <1>2. CASE ProbeEmpty(s)
    <2>1. [ids |-> {}, dated |-> {}, listed |-> listed, at |-> now, count |-> 0] \in Answer
      BY SourceAssumption DEF TypeOK, Answer
    <2> QED
      BY <2>1, <1>2 DEF ProbeEmpty, TypeOK
  <1> QED
    BY <1>1, <1>2

\* What Apply writes has the types of the rows.
LEMMA ApplyType ==
    ASSUME TypeOK, NEW s \in Syncs, Apply(s)
    PROVE  TypeOK'
  <1>1. probe[s] \in Answer
    BY DEF Apply, TypeOK
  <1>2. probe[s].ids \subseteq Videos /\ probe[s].dated \subseteq probe[s].ids
    BY <1>1 DEF Answer, Apply, TypeOK
  <1>3. now \in 0..Hours /\ now # None
    BY SourceAssumption DEF TypeOK
  <1>4. /\ state' \in [Videos -> {"available", "removed"}]
        /\ seen' \in [Videos -> 0..Hours \cup {None}]
        /\ removedAt' \in [Videos -> 0..Hours \cup {None}]
        /\ \A v \in indexed' : seen'[v] # None
    BY <1>2, <1>3 DEF Apply, TypeOK
  <1>5. probe' \in [Syncs -> Answer \cup {None}] /\ dated' \subseteq indexed' /\ indexed' \subseteq Videos
    BY <1>2 DEF Apply, TypeOK
  <1>6. \A t \in Syncs : probe'[t] # None => probe'[t].dated \subseteq probe'[t].ids
    BY DEF Apply, TypeOK
  <1> QED
    BY <1>4, <1>5, <1>6 DEF Apply, TypeOK, source

LEMMA TypeStep == TypeOK /\ [Next]_vars => TypeOK'
  <1> SUFFICES ASSUME TypeOK, [Next]_vars PROVE TypeOK'
    OBVIOUS
  <1>1. ASSUME NEW v \in Videos, Publish(v) \/ Unlist(v) \/ Relist(v) \/ Import(v) PROVE TypeOK'
    BY <1>1, SourceAssumption DEF Publish, Unlist, Relist, Import, TypeOK, rows, source
  <1>2. CASE Tick
    BY <1>2, SourceAssumption DEF Tick, TypeOK, rows, source
  <1>3. ASSUME NEW s \in Syncs, Probe(s) \/ ProbeEmpty(s) PROVE TypeOK'
    BY <1>3, ProbeType DEF TypeOK, rows, source
  <1>4. ASSUME NEW s \in Syncs, Apply(s) PROVE TypeOK'
    BY <1>4, ApplyType
  <1>5. CASE UNCHANGED vars
    BY <1>5 DEF vars, TypeOK, rows, source
  <1> QED
    BY <1>1, <1>2, <1>3, <1>4, <1>5 DEF Next

\* Rows, clock and answers keep their types; a row that exists has been seen, and
\* an answer dates only uploads it lists.
THEOREM TypesHold == Spec => []TypeOK
  BY TypeInit, TypeStep, PTL DEF Spec

-----------------------------------------------------------------------------
(* A removal is founded.                                                   *)

LEMMA FoundedStep == FoundedInv /\ [Next]_vars => FoundedInv'
  <1> SUFFICES ASSUME FoundedInv, [Next]_vars PROVE FoundedInv'
    OBVIOUS
  <1>1. TypeOK'
    BY TypeStep DEF FoundedInv
  <1>2. ASSUME NEW v \in Videos, Import(v) PROVE FoundedInv'
    <2>1. removedAt[v] = None /\ state' = [state EXCEPT ![v] = "available"]
          /\ indexed' = indexed \cup {v} /\ seen' = [seen EXCEPT ![v] = now] /\ removedAt' = removedAt
      BY <1>2 DEF Import, FoundedInv, NoRowNoMark
    <2>2. NoRowNoMark'
      BY <2>1 DEF FoundedInv, NoRowNoMark, TypeOK
    <2>3. RemovalFounded'
      BY <2>1, <1>2 DEF Import, FoundedInv, RemovalFounded, TypeOK
    <2> QED
      BY <1>1, <2>2, <2>3 DEF FoundedInv
  <1>3. ASSUME NEW s \in Syncs, Apply(s) PROVE FoundedInv'
    <2> DEFINE a == probe[s]
               gone == Gone(a)
    <2>1. gone \subseteq indexed /\ \A v \in gone : v \notin a.ids /\ now - seen[v] >= Confirm
      BY DEF Gone
    <2>2. /\ indexed' = indexed \cup a.ids
          /\ state' = [v \in Videos |-> IF v \in a.ids THEN "available" ELSE IF v \in gone THEN "removed" ELSE state[v]]
          /\ seen' = [v \in Videos |-> IF v \in a.ids THEN now ELSE seen[v]]
          /\ removedAt' = [v \in Videos |-> IF v \in a.ids THEN None ELSE IF v \in gone THEN now ELSE removedAt[v]]
      BY <1>3 DEF Apply
    <2>3. now # None
      BY SourceAssumption DEF FoundedInv, TypeOK
    <2> HIDE DEF a, gone
    <2>4. NoRowNoMark'
      BY <2>1, <2>2 DEF FoundedInv, NoRowNoMark
    <2>5. indexed \subseteq Videos
      BY DEF FoundedInv, TypeOK
    <2>6. ASSUME NEW v \in indexed'
          PROVE  /\ state'[v] = "removed" <=> removedAt'[v] # None
                 /\ state'[v] = "removed" => removedAt'[v] - seen'[v] >= Confirm
      <3>0. v \in Videos
        BY <1>1, <2>6 DEF TypeOK
      <3>1. CASE v \in a.ids
        BY <3>0, <3>1, <2>2
      <3>2. CASE v \in gone
        BY <3>0, <3>2, <2>1, <2>2, <2>3
      <3>3. CASE v \notin a.ids /\ v \notin gone
        BY <3>0, <3>3, <2>2 DEF FoundedInv, RemovalFounded
      <3> QED
        BY <3>1, <3>2, <3>3
    <2>7. RemovalFounded'
      BY <2>6 DEF RemovalFounded
    <2> QED
      BY <1>1, <2>4, <2>7 DEF FoundedInv
  <1>4. CASE UNCHANGED rows
    BY <1>1, <1>4 DEF FoundedInv, NoRowNoMark, RemovalFounded, rows
  <1>5. ASSUME NEW v \in Videos, Publish(v) \/ Unlist(v) \/ Relist(v) PROVE UNCHANGED rows
    BY <1>5 DEF Publish, Unlist, Relist
  <1>6. ASSUME NEW s \in Syncs, Probe(s) \/ ProbeEmpty(s) PROVE UNCHANGED rows
    BY <1>6 DEF Probe, ProbeEmpty
  <1>7. CASE Tick
    BY <1>4, <1>7 DEF Tick
  <1>8. CASE UNCHANGED vars
    BY <1>4, <1>8 DEF vars
  <1> QED
    BY <1>2, <1>3, <1>4, <1>5, <1>6, <1>7, <1>8 DEF Next

\* In every execution a removed row dates from an absence of the confirmation
\* time, whatever overlaps, outages, caps and missing counts there were.
THEOREM RemovalsFounded == Spec => []RemovalFounded
  <1>1. Init => FoundedInv
    BY TypeInit DEF Init, FoundedInv, NoRowNoMark, RemovalFounded
  <1>2. FoundedInv => RemovalFounded
    BY DEF FoundedInv
  <1> QED
    BY <1>1, <1>2, FoundedStep, PTL DEF Spec

-----------------------------------------------------------------------------
(* A listed video is not made removed.                                     *)

\* What a probe returns holds of the source at that moment.
LEMMA ProbeHolds ==
    ASSUME ListingInv, NEW s \in Syncs, Probe(s)
    PROVE  AnswersHold'
  <1>1. PICK R \in SUBSET listed : \E D \in SUBSET R, counted \in Counted :
            /\ Newest(R)
            /\ probe' = [probe EXCEPT ![s] =
                 [ids |-> R, dated |-> D, listed |-> listed, at |-> now,
                  count |-> IF counted THEN Cardinality(listed) ELSE Cardinality(R)]]
    BY DEF Probe
  <1>2. PICK D \in SUBSET R, counted \in Counted :
            probe' = [probe EXCEPT ![s] =
                 [ids |-> R, dated |-> D, listed |-> listed, at |-> now,
                  count |-> IF counted THEN Cardinality(listed) ELSE Cardinality(R)]]
    BY <1>1
  <1> DEFINE n == IF counted THEN Cardinality(listed) ELSE Cardinality(R)
             a == [ids |-> R, dated |-> D, listed |-> listed, at |-> now, count |-> n]
  <1>3. probe' = [probe EXCEPT ![s] = a]
    BY <1>2
  <1>4. IsFiniteSet(listed)
    BY FS_Subset, SourceAssumption DEF ListingInv, TypeOK
  <1>5. IsFiniteSet(R) /\ Cardinality(R) \in Nat /\ Cardinality(listed) \in Nat
    BY <1>4, FS_Subset, FS_CardinalityType
  <1>6. Cardinality(R) >= Cardinality(listed) => R = listed
    BY <1>4, <1>5, FS_Subset
  <1>7. \A r \in R, u \in listed \ R : published[r] >= published[u]
    BY <1>1 DEF Newest
  <1>8. AnswerHolds(a)
    <2>1. CASE R = {}
      BY <2>1 DEF AnswerHolds
    <2>2. CASE R # {}
      <3>1. Cardinality(R) < Cardinality(listed) => n = Cardinality(listed) \/ n < Cardinality(listed)
        OBVIOUS
      <3>2. Cardinality(R) >= n => R = listed \/ n < Cardinality(listed)
        BY <1>5, <1>6, <3>1
      <3> HIDE DEF n
      <3>3. Complete(a) => a.ids = a.listed \/ Uncounted(a)
        BY <2>2, <3>2 DEF Complete, Uncounted
      <3> QED
        BY <3>3, <1>7 DEF AnswerHolds, ListingInv, ListedIsPublished
    <2> QED
      BY <2>1, <2>2
  <1>9. published' = published
    BY DEF Probe, source
  <1>10. \A b : AnswerHolds(b)' <=> AnswerHolds(b)
    BY <1>9 DEF AnswerHolds, Complete, Uncounted
  <1> HIDE DEF a
  <1>11. \A t \in Syncs : probe'[t] = (IF t = s THEN a ELSE probe[t])
    BY <1>3 DEF ListingInv, TypeOK
  <1> QED
    BY <1>8, <1>9, <1>11 DEF ListingInv, AnswersHold, AnswerHolds, Complete, Uncounted

LEMMA ListingStep == ListingInv /\ [Next]_vars => ListingInv'
  <1> SUFFICES ASSUME ListingInv, [Next]_vars PROVE ListingInv'
    OBVIOUS
  <1>1. TypeOK'
    BY TypeStep DEF ListingInv
  <1>2. ASSUME NEW v \in Videos, Publish(v) PROVE ListingInv'
    <2>1. published[v] = None /\ published' = [published EXCEPT ![v] = now] /\ listed' = listed \cup {v} /\ probe' = probe
      BY <1>2 DEF Publish
    <2>3. now # None
      BY SourceAssumption DEF ListingInv, TypeOK
    <2>4. \A u \in Videos : published[u] # None => published'[u] = published[u]
      BY <2>1 DEF ListingInv, TypeOK
    <2>5. AnswersHold'
      <3> SUFFICES ASSUME NEW s \in Syncs, probe[s] # None PROVE AnswerHolds(probe[s])'
        BY <2>1 DEF AnswersHold
      <3>1. AnswerHolds(probe[s]) /\ probe[s] \in Answer
        BY DEF ListingInv, AnswersHold, TypeOK
      <3>2. probe[s].listed \subseteq Videos
        BY <3>1 DEF Answer
      <3> QED
        BY <3>1, <3>2, <2>1, <2>3, <2>4 DEF AnswerHolds, Complete, Uncounted
    <2>6. ListedIsPublished'
      BY <2>1, <2>3, <2>4 DEF ListingInv, ListedIsPublished, TypeOK
    <2> QED
      BY <1>1, <2>5, <2>6 DEF ListingInv
  <1>3. ASSUME NEW v \in Videos, Unlist(v) \/ Relist(v) PROVE ListingInv'
    BY <1>1, <1>3 DEF Unlist, Relist, ListingInv, AnswersHold, AnswerHolds, Complete, Uncounted, ListedIsPublished
  <1>4. ASSUME NEW s \in Syncs, Probe(s) PROVE ListingInv'
    <2>1. AnswersHold'
      BY <1>4, ProbeHolds
    <2> QED
      BY <1>1, <1>4, <2>1 DEF Probe, source, ListingInv, ListedIsPublished
  <1>5. ASSUME NEW s \in Syncs, ProbeEmpty(s) PROVE ListingInv'
    <2>1. UNCHANGED source
      BY <1>5 DEF ProbeEmpty
    <2>2. \A t \in Syncs : probe'[t] = probe[t] \/ probe'[t].ids = {}
      BY <1>5 DEF ProbeEmpty, ListingInv, TypeOK
    <2>3. AnswersHold'
      BY <2>1, <2>2 DEF source, ListingInv, AnswersHold, AnswerHolds, Complete, Uncounted
    <2> QED
      BY <1>1, <2>1, <2>3 DEF source, ListingInv, ListedIsPublished
  <1>6. ASSUME NEW s \in Syncs, Apply(s) PROVE ListingInv'
    <2>1. UNCHANGED source /\ probe' = [probe EXCEPT ![s] = None]
      BY <1>6 DEF Apply
    <2>2. \A t \in Syncs : probe'[t] = probe[t] \/ probe'[t] = None
      BY <2>1 DEF ListingInv, TypeOK
    <2>3. AnswersHold'
      BY <2>1, <2>2 DEF source, ListingInv, AnswersHold, AnswerHolds, Complete, Uncounted
    <2> QED
      BY <1>1, <2>1, <2>3 DEF source, ListingInv, ListedIsPublished
  <1>7. ASSUME NEW v \in Videos, Import(v) PROVE ListingInv'
    BY <1>1, <1>7 DEF Import, source, ListingInv, AnswersHold, AnswerHolds, Complete, Uncounted, ListedIsPublished
  <1>8. CASE Tick
    BY <1>1, <1>8 DEF Tick, source, ListingInv, AnswersHold, AnswerHolds, Complete, Uncounted, ListedIsPublished
  <1>9. CASE UNCHANGED vars
    BY <1>1, <1>9 DEF vars, source, ListingInv, AnswersHold, AnswerHolds, Complete, Uncounted, ListedIsPublished
  <1> QED
    BY <1>2, <1>3, <1>4, <1>5, <1>6, <1>7, <1>8, <1>9 DEF Next

\* What an answer judges to be gone was not listed when it was asked for, or was
\* cut off by the cap where the answer does not show it.
LEMMA GoneWasUnlisted ==
    ASSUME ListingInv, NEW s \in Syncs, probe[s] # None, NEW v \in Gone(probe[s])
    PROVE  v \notin probe[s].listed \/ Uncounted(probe[s]) \/ Tied(probe[s], v)
  <1> DEFINE a == probe[s]
  <1>1. a \in Answer /\ AnswerHolds(a) /\ a.ids # {} /\ v \notin a.ids /\ v \in Videos /\ WithinCoveredWindow(a, v)
    BY DEF ListingInv, TypeOK, AnswersHold, Gone
  <1>2. CASE Complete(a)
    BY <1>1, <1>2 DEF AnswerHolds
  <1>3. CASE ~Complete(a)
    <2> SUFFICES ASSUME v \in a.listed PROVE Tied(a, v)
      OBVIOUS
    <2>1. PICK d \in a.dated : published[v] >= published[d]
      BY <1>1, <1>3 DEF WithinCoveredWindow
    <2>2. d \in a.ids /\ published[d] >= published[v] /\ published[v] # None /\ published[d] # None
      BY <1>1, <2>1 DEF AnswerHolds
    <2>3. d \in Videos
      BY <1>1, <2>2 DEF Answer
    <2>4. published[d] \in Int /\ published[v] \in Int
      BY <1>1, <2>2, <2>3 DEF ListingInv, TypeOK
    <2> QED
      BY <2>1, <2>2, <2>4 DEF Tied
  <1> QED
    BY <1>2, <1>3

\* Neither an outage nor a capped listing nor an answer applied late makes a
\* video removed that the source listed when it was asked; what does is a cap on
\* a listing without a count, or one that parts two uploads of the same time.
THEOREM ListedStaysAvailable == Spec => ListedNeverRemoved
  <1>1. Init => ListingInv
    BY TypeInit DEF Init, ListingInv, AnswersHold, ListedIsPublished
  <1>2. ListingInv /\ [Next]_vars => ListingInv'
    BY ListingStep
  <1>3. ListingInv /\ [Next]_vars =>
          [\A v \in indexed : state[v] = "available" /\ state'[v] = "removed" =>
             \E s \in Syncs : /\ probe[s] # None
                              /\ probe'[s] = None
                              /\ \/ v \notin probe[s].listed
                                 \/ Uncounted(probe[s])
                                 \/ Tied(probe[s], v)]_vars
    <2> SUFFICES ASSUME ListingInv, Next, NEW v \in indexed, state[v] = "available", state'[v] = "removed"
                 PROVE  \E s \in Syncs : /\ probe[s] # None
                                        /\ probe'[s] = None
                                        /\ \/ v \notin probe[s].listed
                                           \/ Uncounted(probe[s])
                                           \/ Tied(probe[s], v)
      OBVIOUS
    <2>0. v \in Videos
      BY DEF ListingInv, TypeOK
    <2>1. \A u \in Videos : ~Publish(u) /\ ~Unlist(u) /\ ~Relist(u)
      BY DEF Publish, Unlist, Relist, rows
    <2>2. \A u \in Videos : ~Import(u)
      BY <2>0 DEF Import, ListingInv, TypeOK
    <2>3. ~Tick /\ \A s \in Syncs : ~Probe(s) /\ ~ProbeEmpty(s)
      BY DEF Tick, Probe, ProbeEmpty, rows
    <2>4. PICK s \in Syncs : Apply(s)
      BY <2>1, <2>2, <2>3 DEF Next
    <2>5. probe[s] # None /\ probe'[s] = None
      BY <2>4 DEF Apply, ListingInv, TypeOK
    <2>6. v \in Gone(probe[s])
      BY <2>0, <2>4 DEF Apply
    <2> QED
      BY <2>5, <2>6, GoneWasUnlisted
  <1> QED
    BY <1>1, <1>2, <1>3, PTL DEF Spec, ListedNeverRemoved
=============================================================================
