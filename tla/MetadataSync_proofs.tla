------------------------ MODULE MetadataSync_proofs ------------------------
(***************************************************************************)
(* Syncs never overlap, for any number of ticks, requests and channels.    *)
(* The lock alone does not say so: an actor gives it back in several       *)
(* places, and each of them must drop its uncommitted results too.         *)
(*                                                                         *)
(* A tick that reports completed has synced every channel it took: unless  *)
(* one of its syncs has failed, what it took is what it has synced and     *)
(* what it has yet to sync.  That the committed channels move to the end   *)
(* of the order, each to one place, is part of TypeOK and rests on Kept    *)
(* losing none and doubling none.                                          *)
(***************************************************************************)
EXTENDS MetadataSync, SequenceTheorems, FiniteSetTheorems, TLAPS

\* The state of an actor is there for every actor.
Shape ==
    /\ at = [a \in Actors |-> at[a]]
    /\ todo = [a \in Actors |-> todo[a]]
    /\ done = [a \in Actors |-> done[a]]
    /\ raised = [a \in Actors |-> raised[a]]
    /\ lost = [a \in Actors |-> lost[a]]

\* An actor that has nothing open is at none of its syncs.
IdleIsClean == \A a \in Actors : at[a] \in {"idle", "find"} => done[a] = <<>> /\ raised[a] = {}

LockInv == Shape /\ IdleIsClean /\ SyncsSerialised

-----------------------------------------------------------------------------
(* Giving the lock back.                                                   *)

\* An actor that leaves has nothing uncommitted, and takes nobody else's lock.
LEMMA LeaveKeeps ==
    ASSUME LockInv, NEW a \in Actors, Leave(a)
    PROVE  LockInv'
  <1>1. /\ at'[a] = "idle" /\ done'[a] = <<>> /\ raised'[a] = {}
        /\ Shape'
    BY DEF LockInv, Shape, Leave
  <1>2. \A b \in Actors : b # a => at'[b] = at[b] /\ done'[b] = done[b] /\ raised'[b] = raised[b]
    BY DEF LockInv, Shape, Leave
  <1>3. \A b \in Actors : b # a /\ lock = b => lock' = b
    BY DEF Leave
  <1> QED
    BY <1>1, <1>2, <1>3 DEF LockInv, IdleIsClean, SyncsSerialised

\* A transaction that is lost leaves nothing uncommitted either.
LEMMA LoseKeeps ==
    ASSUME LockInv, NEW a \in Actors, Lose(a)
    PROVE  LockInv'
  <1>1. /\ at'[a] = "next" /\ done'[a] = <<>> /\ raised'[a] = {}
        /\ Shape'
    BY DEF LockInv, Shape, Lose
  <1>2. \A b \in Actors : b # a => at'[b] = at[b] /\ done'[b] = done[b] /\ raised'[b] = raised[b]
    BY DEF LockInv, Shape, Lose
  <1>3. \A b \in Actors : b # a /\ lock = b => lock' = b
    BY DEF Lose
  <1> QED
    BY <1>1, <1>2, <1>3 DEF LockInv, IdleIsClean, SyncsSerialised

\* Whoever has probed keeps the lock and goes on.
LEMMA AdvanceKeeps ==
    ASSUME LockInv, NEW a \in Actors, at[a] = "probe", Advance(a),
           done' = [done EXCEPT ![a] = done'[a]], raised' = [raised EXCEPT ![a] = raised'[a]]
    PROVE  LockInv'
  <1>1. lock = a /\ lock' = a
    BY DEF LockInv, SyncsSerialised, Advance
  <1>2. Shape' /\ at'[a] = "next"
    BY DEF LockInv, Shape, Advance
  <1>3. \A b \in Actors : b # a => at'[b] = at[b] /\ done'[b] = done[b] /\ raised'[b] = raised[b]
    BY DEF LockInv, Shape, Advance
  <1> QED
    BY <1>1, <1>2, <1>3 DEF LockInv, IdleIsClean, SyncsSerialised

-----------------------------------------------------------------------------
(* The inductive step.                                                     *)

LEMMA LockInit == Init => LockInv
  BY SyncAssumption DEF Init, LockInv, Shape, IdleIsClean, SyncsSerialised

\* The steps that open a tick or request and its syncs.
LEMMA OpenKeeps ==
    ASSUME LockInv, NEW a \in Actors,
           \/ Begin(a)
           \/ Find(a)
           \/ RunChannelSync(a)
           \/ \E c \in Channels : SyncChannel(a, c)
    PROVE  LockInv'
  <1>1. CASE Begin(a)
    BY <1>1 DEF Begin, stored, session, LockInv, Shape, IdleIsClean, SyncsSerialised
  <1>2. CASE Find(a) /\ FindDueSyncChannels = <<>>
    BY <1>2, LeaveKeeps, LoseKeeps DEF Find
  <1>3. CASE Find(a) /\ FindDueSyncChannels # <<>>
    <2>1. /\ at[a] = "find" /\ at' = [at EXCEPT ![a] = "next"]
          /\ todo' = [todo EXCEPT ![a] = todo'[a]]
          /\ UNCHANGED <<lock, done, raised, lost>>
      BY <1>3 DEF Find, LockInv, Shape
    <2> QED
      BY <2>1 DEF LockInv, Shape, IdleIsClean, SyncsSerialised
  <1>4. CASE RunChannelSync(a)
    <2>1. /\ at' = [at EXCEPT ![a] = "probe"] /\ lock \in {None, a} /\ lock' = a
          /\ UNCHANGED <<todo, done, raised, lost>>
      BY <1>4 DEF RunChannelSync, session
    <2>2. \A b \in Actors : b # a => lock # b
      BY <2>1, SyncAssumption DEF Actors
    <2> QED
      BY <2>1, <2>2 DEF LockInv, Shape, IdleIsClean, SyncsSerialised
  <1>5. ASSUME NEW c \in Channels, SyncChannel(a, c) PROVE LockInv'
    <2>1. /\ at[a] = "idle" /\ at' = [at EXCEPT ![a] = "next"]
          /\ todo' = [todo EXCEPT ![a] = <<c>>]
          /\ UNCHANGED <<lock, done, raised, lost>>
      BY <1>5 DEF SyncChannel
    <2> QED
      BY <2>1 DEF LockInv, Shape, IdleIsClean, SyncsSerialised
  <1> QED
    BY <1>1, <1>2, <1>3, <1>4, <1>5

\* The ends of a sync.
LEMMA SyncKeeps ==
    ASSUME LockInv, NEW a \in Actors,
           LockedOut(a) \/ Synced(a) \/ ProbeFails(a) \/ SyncRaises(a) \/ SyncClashes(a)
    PROVE  LockInv'
  <1>1. CASE LockedOut(a) \/ SyncClashes(a)
    BY <1>1, LoseKeeps DEF LockedOut, SyncClashes
  <1>2. CASE Synced(a)
    <2>1. /\ at[a] = "probe" /\ Advance(a)
          /\ done' = [done EXCEPT ![a] = done'[a]] /\ raised' = [raised EXCEPT ![a] = raised'[a]]
      BY <1>2 DEF Synced, LockInv, Shape
    <2> QED
      BY <2>1, AdvanceKeeps
  <1>3. CASE ProbeFails(a)
    <2>1. /\ at[a] = "probe" /\ Advance(a)
          /\ done' = [done EXCEPT ![a] = done'[a]] /\ raised' = [raised EXCEPT ![a] = raised'[a]]
      BY <1>3 DEF ProbeFails, LockInv, Shape
    <2> QED
      BY <2>1, AdvanceKeeps
  <1>4. CASE SyncRaises(a) /\ a \in Ticks
    <2>1. /\ at[a] = "probe" /\ Advance(a)
          /\ done' = [done EXCEPT ![a] = done'[a]] /\ raised' = [raised EXCEPT ![a] = raised'[a]]
      BY <1>4 DEF SyncRaises, LockInv, Shape
    <2> QED
      BY <2>1, AdvanceKeeps
  <1>5. CASE SyncRaises(a) /\ a \notin Ticks
    BY <1>5, LeaveKeeps DEF SyncRaises
  <1> QED
    BY <1>1, <1>2, <1>3, <1>4, <1>5

\* Every step of the specification keeps the invariant.
LEMMA LockStep == LockInv /\ [Next]_vars => LockInv'
  <1> SUFFICES ASSUME LockInv, [Next]_vars PROVE LockInv'
    OBVIOUS
  <1>1. ASSUME NEW c \in Channels, Elapse(c) PROVE LockInv'
    BY <1>1 DEF Elapse, session, LockInv, Shape, IdleIsClean, SyncsSerialised
  <1>2. ASSUME NEW r \in Requests, NEW c \in Channels, SyncChannel(r, c) PROVE LockInv'
    BY <1>2, OpenKeeps DEF Actors
  <1>3. ASSUME NEW a \in Actors, Step(a) PROVE LockInv'
    <2>1. CASE Commit(a) \/ MarkFailed(a)
      BY <2>1, LeaveKeeps DEF Commit, MarkFailed
    <2> QED
      BY <1>3, <2>1, OpenKeeps, SyncKeeps DEF Step
  <1>4. ASSUME NEW a \in Actors, Cut(a) PROVE LockInv'
    BY <1>4, LeaveKeeps DEF Cut
  <1>5. CASE UNCHANGED vars
    BY <1>5 DEF vars, session, LockInv, Shape, IdleIsClean, SyncsSerialised
  <1> QED
    BY <1>1, <1>2, <1>3, <1>4, <1>5 DEF Next

-----------------------------------------------------------------------------
(* The theorem.                                                            *)

\* Whatever ticks and requests overlap, fail or are cancelled, whoever has synced
\* something and not committed it is the one that holds the lock.
THEOREM SyncsNeverOverlap == Spec => []SyncsSerialised
  <1>1. LockInv => SyncsSerialised
    BY DEF LockInv
  <1> QED
    BY <1>1, LockInit, LockStep, PTL DEF Spec
-----------------------------------------------------------------------------
(* Sequences without repetitions.                                          *)

Distinct(q) == \A i, j \in DOMAIN q : q[i] = q[j] => i = j

\* In a finite set of places, every rank is that of one place.
LEMMA Ranks ==
    ASSUME NEW n \in Nat, NEW I \in SUBSET (1..n)
    PROVE  /\ Cardinality(I) \in Nat
           /\ \A i \in I : Cardinality({j \in I : j <= i}) \in 1..Cardinality(I)
           /\ \A i, k \in I : i < k => Cardinality({j \in I : j <= i}) < Cardinality({j \in I : j <= k})
           /\ \A r \in 1..Cardinality(I) : \E i \in I : Cardinality({j \in I : j <= i}) = r
  <1> DEFINE Up(i) == {j \in I : j <= i}
             rank == [i \in I |-> Cardinality(Up(i))]
  <1>1. IsFiniteSet(1..n)
    BY FS_Interval
  <1>2. IsFiniteSet(I)
    BY <1>1, FS_Subset
  <1>3. Cardinality(I) \in Nat
    BY <1>2, FS_CardinalityType
  <1>4. \A i \in I : IsFiniteSet(Up(i)) /\ Cardinality(Up(i)) <= Cardinality(I)
    BY <1>2, FS_Subset
  <1>5. \A i \in I : Cardinality(Up(i)) \in Nat
    BY <1>4, FS_CardinalityType
  <1>6. \A i \in I : Cardinality(Up(i)) # 0
    <2>1. \A i \in I : i \in Up(i)
      OBVIOUS
    <2> QED BY <1>4, <2>1, FS_EmptySet
  <1>7. \A i \in I : Cardinality(Up(i)) \in 1..Cardinality(I)
    BY <1>3, <1>4, <1>5, <1>6
  <1>8. ASSUME NEW i \in I, NEW k \in I, i < k
        PROVE  Cardinality(Up(i)) < Cardinality(Up(k))
    <2>0. i \in Int /\ k \in Int /\ I \subseteq Int
      OBVIOUS
    <2>1. \A j \in I : j <= i => j <= k
      BY <1>8, <2>0
    <2>2. k <= k /\ ~(k <= i)
      BY <1>8, <2>0
    <2>3. Up(i) \in SUBSET Up(k) /\ k \in Up(k) /\ k \notin Up(i)
      BY <2>1, <2>2
    <2>4. Cardinality(Up(i)) <= Cardinality(Up(k)) /\ Cardinality(Up(k)) # Cardinality(Up(i))
      BY <1>4, <2>3, FS_Subset
    <2> QED BY <1>5, <2>4
  <1>9. \A r \in 1..Cardinality(I) : \E i \in I : Cardinality(Up(i)) = r
    <2>1. rank \in [I -> 1..Cardinality(I)]
      BY <1>7
    <2>2. \A i, k \in I : rank[i] = rank[k] => i = k
      <3>1. \A i \in I : rank[i] = Cardinality(Up(i))
        OBVIOUS
      <3> HIDE DEF rank, Up
      <3> QED BY <1>5, <1>8, <3>1
    <2>3. rank \in Injection(I, 1..Cardinality(I))
      BY <2>1, <2>2 DEF Injection, IsInjective
    <2>4. IsFiniteSet(1..Cardinality(I)) /\ Cardinality(1..Cardinality(I)) = Cardinality(I)
      BY <1>3, FS_Interval
    <2>5. rank \in Surjection(I, 1..Cardinality(I))
      BY <2>3, <2>4, FS_Injection
    <2> QED BY <2>5 DEF Surjection
  <1> QED
    BY <1>3, <1>7, <1>8, <1>9

\* Kept has the elements of s in S, and repeats none that s does not.
LEMMA KeptElements ==
    ASSUME NEW C, NEW s \in Seq(C), NEW S
    PROVE  /\ Kept(s, S) \in Seq(C)
           /\ ToSet(Kept(s, S)) = ToSet(s) \cap S
           /\ Distinct(s) => Distinct(Kept(s, S))
  <1> DEFINE I == {i \in DOMAIN s : s[i] \in S}
             Rank(i) == Cardinality({j \in I : j <= i})
             Place(k) == CHOOSE i \in I : Rank(i) = k
             K == Kept(s, S)
             n == Cardinality(I)
  <1>1. Len(s) \in Nat /\ DOMAIN s = 1..Len(s) /\ s \in [1..Len(s) -> C]
    BY LenProperties
  <1>2. I \in SUBSET (1..Len(s))
    BY <1>1
  <1>3. /\ n \in Nat
        /\ \A i \in I : Rank(i) \in 1..n
        /\ \A i, k \in I : i < k => Rank(i) < Rank(k)
        /\ \A k \in 1..n : \E i \in I : Rank(i) = k
    BY <1>1, <1>2, Ranks
  <1>4. K = [k \in 1..n |-> s[Place(k)]]
    BY DEF Kept
  <1>5. \A k \in 1..n : Place(k) \in I /\ Rank(Place(k)) = k
    BY <1>3
  <1>6. \A i \in I : Place(Rank(i)) = i
    <2>1. \A i \in I : i \in Int
      BY <1>2
    <2> HIDE DEF Rank, Place
    <2> QED BY <1>3, <1>5, <2>1
  <1>7. \A i \in I : i \in 1..Len(s) /\ s[i] \in S /\ s[i] \in C
    BY <1>1
  <1>i. \A i \in DOMAIN s : s[i] \in S => i \in I
    OBVIOUS
  <1> HIDE DEF I, Rank, Place, K, n
  <1>8. K \in Seq(C)
    <2>1. K \in [1..n -> C]
      BY <1>4, <1>5, <1>7
    <2> QED BY <1>3, <2>1
  <1>9. DOMAIN K = 1..n /\ \A k \in 1..n : K[k] = s[Place(k)]
    BY <1>4
  <1>10. ToSet(K) = ToSet(s) \cap S
    <2>1. ASSUME NEW x \in ToSet(K)
          PROVE  x \in ToSet(s) \cap S
      BY <1>1, <1>5, <1>7, <1>9, <2>1 DEF ToSet
    <2>2. ASSUME NEW x \in ToSet(s), x \in S
          PROVE  x \in ToSet(K)
      <3>1. PICK i \in DOMAIN s : s[i] = x
        BY DEF ToSet
      <3>2. i \in I
        BY <1>i, <2>2, <3>1
      <3>3. Rank(i) \in 1..n /\ Place(Rank(i)) = i
        BY <1>3, <1>6, <3>2
      <3> QED BY <1>9, <3>1, <3>3 DEF ToSet
    <2> QED BY <2>1, <2>2
  <1>11. Distinct(s) => Distinct(K)
    <2>1. SUFFICES ASSUME Distinct(s), NEW i \in 1..n, NEW j \in 1..n, K[i] = K[j]
                   PROVE  i = j
      BY <1>9 DEF Distinct
    <2>2. Place(i) = Place(j)
      BY <1>1, <1>5, <1>7, <1>9, <2>1 DEF Distinct
    <2> QED BY <1>5, <2>2
  <1> QED
    BY <1>8, <1>10, <1>11 DEF K

\* Every element once: as many as there are.
LEMMA DistinctLength ==
    ASSUME NEW C, NEW q \in Seq(C), Distinct(q), ToSet(q) = C
    PROVE  Len(q) = Cardinality(C) /\ q \in [1..Cardinality(C) -> C]
  <1>1. Len(q) \in Nat /\ DOMAIN q = 1..Len(q) /\ q \in [1..Len(q) -> C]
    BY LenProperties
  <1>2. q \in Injection(1..Len(q), C)
    BY <1>1 DEF Injection, IsInjective, Distinct
  <1>3. q \in Surjection(1..Len(q), C)
    BY <1>1 DEF Surjection, ToSet
  <1>4. ExistsBijection(1..Len(q), C)
    BY <1>2, <1>3 DEF ExistsBijection, Bijection
  <1>5. Cardinality(C) = Len(q)
    BY <1>1, <1>4, FS_CountingElements
  <1> QED
    BY <1>1, <1>5

LEMMA OrderDistinct ==
    ASSUME NEW o \in Orders
    PROVE  o \in Seq(Channels) /\ ToSet(o) = Channels /\ Distinct(o)
  <1> DEFINE n == Cardinality(Channels)
  <1>1. IsFiniteSet(Channels) /\ n \in Nat
    BY SyncAssumption, FS_CardinalityType
  <1>2. o \in [1..n -> Channels] /\ ToSet(o) = Channels
    BY DEF Orders
  <1>3. IsFiniteSet(1..n) /\ Cardinality(1..n) = n
    BY <1>1, FS_Interval
  <1>4. o \in Surjection(1..n, Channels)
    BY <1>2 DEF Surjection, ToSet
  <1>5. o \in Injection(1..n, Channels)
    BY <1>3, <1>4, FS_SurjSameCardinalityImpliesInj
  <1> QED
    BY <1>1, <1>2, <1>5 DEF Injection, IsInjective, Distinct

\* Two sequences without repetitions and without a common element.
LEMMA ConcatDistinct ==
    ASSUME NEW C, NEW p \in Seq(C), NEW q \in Seq(C), Distinct(p), Distinct(q),
           ToSet(p) \cap ToSet(q) = {}
    PROVE  /\ p \o q \in Seq(C)
           /\ Distinct(p \o q)
           /\ ToSet(p \o q) = ToSet(p) \cup ToSet(q)
  <1> DEFINE a == Len(p)
             b == Len(q)
             r == p \o q
  <1>1. a \in Nat /\ DOMAIN p = 1..a /\ b \in Nat /\ DOMAIN q = 1..b
    BY LenProperties
  <1>2. /\ r \in Seq(C) /\ Len(r) = a + b
        /\ \A i \in 1..a + b : r[i] = IF i <= a THEN p[i] ELSE q[i - a]
    BY ConcatProperties
  <1>3. DOMAIN r = 1..a + b
    BY <1>2, LenProperties
  <1> HIDE DEF a, b, r
  <1>4. \A i \in 1..a + b : IF i <= a THEN i \in 1..a /\ r[i] = p[i] ELSE i - a \in 1..b /\ r[i] = q[i - a]
    BY <1>1, <1>2
  <1>5. \A i \in 1..a : i \in 1..a + b /\ r[i] = p[i]
    BY <1>1, <1>2
  <1>6. \A i \in 1..b : i + a \in 1..a + b /\ r[i + a] = q[i]
    <2>1. \A i \in 1..b : i + a \in 1..a + b /\ ~(i + a <= a) /\ (i + a) - a = i
      BY <1>1
    <2> QED BY <1>2, <2>1
  <1>7. ToSet(r) = ToSet(p) \cup ToSet(q)
    <2>1. ASSUME NEW x \in ToSet(r) PROVE x \in ToSet(p) \cup ToSet(q)
      BY <1>1, <1>3, <1>4 DEF ToSet
    <2>2. ASSUME NEW x \in ToSet(p) PROVE x \in ToSet(r)
      BY <1>1, <1>3, <1>5 DEF ToSet
    <2>3. ASSUME NEW x \in ToSet(q) PROVE x \in ToSet(r)
      BY <1>1, <1>3, <1>6 DEF ToSet
    <2> QED BY <2>1, <2>2, <2>3
  <1>8. Distinct(r)
    <2>1. SUFFICES ASSUME NEW i \in 1..a + b, NEW j \in 1..a + b, r[i] = r[j]
                   PROVE  i = j
      BY <1>3 DEF Distinct
    <2>2. CASE i <= a /\ j <= a
      BY <1>1, <1>4, <2>1, <2>2 DEF Distinct
    <2>3. CASE ~(i <= a) /\ ~(j <= a)
      <3>1. i - a \in 1..b /\ j - a \in 1..b /\ q[i - a] = q[j - a]
        BY <1>4, <2>1, <2>3
      <3>2. i - a = j - a
        BY <1>1, <3>1 DEF Distinct
      <3> QED BY <1>1, <3>2
    <2>4. CASE i <= a /\ ~(j <= a)
      <3>1. p[i] \in ToSet(p) /\ q[j - a] \in ToSet(q) /\ p[i] = q[j - a]
        BY <1>1, <1>4, <2>1, <2>4 DEF ToSet
      <3> QED BY <3>1
    <2>5. CASE ~(i <= a) /\ j <= a
      <3>1. p[j] \in ToSet(p) /\ q[i - a] \in ToSet(q) /\ p[j] = q[i - a]
        BY <1>1, <1>4, <2>1, <2>5 DEF ToSet
      <3> QED BY <3>1
    <2> QED BY <2>2, <2>3, <2>4, <2>5
  <1> QED
    BY <1>2, <1>7, <1>8 DEF r

\* The committed channels go to the end, each to one place.
LEMMA Reordered ==
    ASSUME order \in Orders, NEW d \in Seq(Channels), Distinct(d)
    PROVE  Kept(order, Channels \ ToSet(d)) \o d \in Orders
  <1> DEFINE k == Kept(order, Channels \ ToSet(d))
             o == k \o d
  <1>1. order \in Seq(Channels) /\ ToSet(order) = Channels /\ Distinct(order)
    BY OrderDistinct
  <1>2. k \in Seq(Channels) /\ ToSet(k) = Channels \ ToSet(d) /\ Distinct(k)
    BY <1>1, KeptElements
  <1>3. ToSet(d) \subseteq Channels
    BY LenProperties DEF ToSet
  <1> HIDE DEF k
  <1>4. o \in Seq(Channels) /\ Distinct(o) /\ ToSet(o) = ToSet(k) \cup ToSet(d)
    BY <1>2, ConcatDistinct
  <1>5. ToSet(o) = Channels
    BY <1>2, <1>3, <1>4
  <1> HIDE DEF o
  <1>6. o \in [1..Cardinality(Channels) -> Channels]
    BY <1>4, <1>5, DistinctLength
  <1>7. o \in Orders
    BY <1>5, <1>6 DEF Orders
  <1> QED
    BY <1>7 DEF o, k

-----------------------------------------------------------------------------
(* What a tick has taken, has synced and has yet to sync.                  *)

\* An actor at a sync has a channel for it; who is at none has synced nothing; no
\* channel is synced twice in one transaction; and unless one of its syncs has
\* failed, what a tick took is what it has synced and what it has yet to sync.
Course(a) ==
    /\ at[a] = "probe" => todo[a] # <<>>
    /\ at[a] \in {"idle", "find"} => done[a] = <<>>
    /\ Distinct(todo[a]) /\ Distinct(done[a])
    /\ ToSet(todo[a]) \cap ToSet(done[a]) = {}
    /\ a \in Ticks /\ at[a] \in {"next", "probe"} /\ ~failed[a]
         => took[a] \subseteq ToSet(done[a]) \cup ToSet(todo[a])

SyncInv == TypeOK /\ \A a \in Actors : Course(a)

\* The rows and the row of a's tick stay, or are written by the step.
StoredOK ==
    /\ order \in Orders
    /\ due \subseteq Channels
    /\ odd \subseteq Broken
    /\ row \in [Actors -> {"none", "running", "completed", "failed", "skipped"}]

SessionOK ==
    /\ lock \in Actors \cup {None}
    /\ at \in [Actors -> {"idle", "find", "next", "probe"}]
    /\ took \in [Actors -> SUBSET Channels]
    /\ todo \in [Actors -> Seq(Channels)]
    /\ done \in [Actors -> Seq(Channels)]
    /\ raised \in [Actors -> SUBSET Broken]
    /\ failed \in [Actors -> BOOLEAN]
    /\ lost \in [Actors -> BOOLEAN]

LEMMA TypeParts == TypeOK <=> StoredOK /\ SessionOK
  BY DEF TypeOK, StoredOK, SessionOK

LEMMA Nothing == ToSet(<<>>) = {} /\ Distinct(<<>>) /\ <<>> \in Seq(Channels)
  BY DEF ToSet, Distinct

\* A step of a that touches no session but its own keeps everybody else's course.
LEMMA OthersCourse ==
    ASSUME SyncInv, NEW a \in Actors, SessionOK', Course(a)',
           \A b \in Actors \ {a} : /\ at'[b] = at[b] /\ took'[b] = took[b] /\ todo'[b] = todo[b]
                                   /\ done'[b] = done[b] /\ failed'[b] = failed[b]
    PROVE  SessionOK' /\ \A b \in Actors : Course(b)'
  BY DEF SyncInv, Course

LEMMA LeaveCourse ==
    ASSUME SyncInv, NEW a \in Actors, Leave(a)
    PROVE  SessionOK' /\ \A b \in Actors : Course(b)'
  <1>0. SessionOK
    BY TypeParts DEF SyncInv
  <1>1. SessionOK'
    BY <1>0, Nothing DEF SessionOK, Leave
  <1>2. at'[a] = "idle" /\ todo'[a] = <<>> /\ done'[a] = <<>>
    BY <1>0 DEF SessionOK, Leave
  <1>3. Course(a)'
    BY <1>2, Nothing DEF Course
  <1>4. \A b \in Actors \ {a} : /\ at'[b] = at[b] /\ took'[b] = took[b] /\ todo'[b] = todo[b]
                                /\ done'[b] = done[b] /\ failed'[b] = failed[b]
    BY <1>0 DEF SessionOK, Leave
  <1> QED
    BY <1>1, <1>3, <1>4, OthersCourse

LEMMA LoseCourse ==
    ASSUME SyncInv, NEW a \in Actors, Lose(a)
    PROVE  SessionOK' /\ \A b \in Actors : Course(b)'
  <1>0. SessionOK
    BY TypeParts DEF SyncInv
  <1>1. SessionOK'
    BY <1>0, Nothing DEF SessionOK, Lose
  <1>2. at'[a] = "next" /\ todo'[a] = <<>> /\ done'[a] = <<>> /\ failed'[a] = TRUE
    BY <1>0 DEF SessionOK, Lose
  <1>3. Course(a)'
    BY <1>2, Nothing DEF Course
  <1>4. \A b \in Actors \ {a} : /\ at'[b] = at[b] /\ took'[b] = took[b] /\ todo'[b] = todo[b]
                                /\ done'[b] = done[b] /\ failed'[b] = failed[b]
    BY <1>0 DEF SessionOK, Lose
  <1> QED
    BY <1>1, <1>3, <1>4, OthersCourse

\* The first of the channels left, and the rest.
LEMMA HeadRest ==
    ASSUME NEW q \in Seq(Channels), q # <<>>, Distinct(q)
    PROVE  /\ Head(q) \in Channels /\ Tail(q) \in Seq(Channels)
           /\ Distinct(Tail(q))
           /\ ToSet(q) = {Head(q)} \cup ToSet(Tail(q))
           /\ Head(q) \notin ToSet(Tail(q))
  <1> DEFINE n == Len(q)
             t == Tail(q)
             h == Head(q)
  <1>1. /\ h \in Channels /\ t \in Seq(Channels) /\ Len(t) = n - 1
        /\ \A i \in 1..Len(t) : t[i] = q[i + 1]
    BY HeadTailProperties
  <1>2. n \in Nat \ {0} /\ DOMAIN q = 1..n
    BY EmptySeq, LenProperties
  <1>3. DOMAIN t = 1..n - 1
    BY <1>1, LenProperties
  <1>4. h = q[1]
    OBVIOUS
  <1> HIDE DEF n, t, h
  <1>5. \A i \in 1..n - 1 : i + 1 \in 1..n /\ t[i] = q[i + 1] /\ i + 1 # 1
    BY <1>1, <1>2
  <1>6. \A i \in 1..n : i = 1 \/ (i - 1 \in 1..n - 1 /\ t[i - 1] = q[i])
    <2>1. \A i \in 1..n : i = 1 \/ (i - 1 \in 1..n - 1 /\ (i - 1) + 1 = i)
      BY <1>2
    <2> QED BY <1>5, <2>1
  <1>7. 1 \in 1..n
    BY <1>2
  <1>8. Distinct(t)
    <2>1. SUFFICES ASSUME NEW i \in 1..n - 1, NEW j \in 1..n - 1, t[i] = t[j]
                   PROVE  i = j
      BY <1>3 DEF Distinct
    <2>2. i + 1 = j + 1
      BY <1>2, <1>5, <2>1 DEF Distinct
    <2> QED BY <2>2
  <1>9. ToSet(q) = {h} \cup ToSet(t)
    <2>1. ASSUME NEW x \in ToSet(q) PROVE x \in {h} \cup ToSet(t)
      <3>1. PICK i \in 1..n : x = q[i]
        BY <1>2 DEF ToSet
      <3>2. CASE i = 1
        BY <1>4, <3>1, <3>2
      <3>3. CASE i # 1
        BY <1>3, <1>6, <3>1, <3>3 DEF ToSet
      <3> QED BY <3>2, <3>3
    <2>2. ASSUME NEW x \in ToSet(t) PROVE x \in ToSet(q)
      BY <1>2, <1>3, <1>5 DEF ToSet
    <2>3. h \in ToSet(q)
      BY <1>2, <1>4, <1>7 DEF ToSet
    <2> QED BY <2>1, <2>2, <2>3
  <1>10. h \notin ToSet(t)
    BY <1>2, <1>3, <1>4, <1>5, <1>7 DEF Distinct, ToSet
  <1> QED
    BY <1>1, <1>8, <1>9, <1>10 DEF t, h

LEMMA OneMore ==
    ASSUME NEW q \in Seq(Channels), NEW e \in Channels, Distinct(q), e \notin ToSet(q)
    PROVE  /\ Append(q, e) \in Seq(Channels)
           /\ Distinct(Append(q, e))
           /\ ToSet(Append(q, e)) = ToSet(q) \cup {e}
  <1> DEFINE u == <<e>>
             v == q \o u
  <1>1. u \in Seq(Channels) /\ ToSet(u) = {e} /\ Distinct(u)
    BY DEF ToSet, Distinct
  <1>2. Append(q, e) = v
    OBVIOUS
  <1> HIDE DEF u
  <1>3. ToSet(q) \cap ToSet(u) = {}
    BY <1>1
  <1>4. v \in Seq(Channels) /\ Distinct(v) /\ ToSet(v) = ToSet(q) \cup ToSet(u)
    BY <1>1, <1>3, ConcatDistinct
  <1> HIDE DEF v
  <1> QED
    BY <1>1, <1>2, <1>4

\* A channel is through: it is synced, or its sync failed.
LEMMA AdvanceCourse ==
    ASSUME SyncInv, NEW a \in Actors, at[a] = "probe", Advance(a), NEW h, h = Head(todo[a]),
           \/ done' = [done EXCEPT ![a] = Append(@, h)] /\ UNCHANGED <<raised, failed>>
           \/ /\ UNCHANGED done
              /\ failed' = [failed EXCEPT ![a] = TRUE]
              /\ UNCHANGED raised \/ (h \in Broken /\ raised' = [raised EXCEPT ![a] = @ \cup {h}])
    PROVE  SessionOK' /\ \A b \in Actors : Course(b)'
  <1>0. SessionOK /\ Course(a)
    BY TypeParts DEF SyncInv
  <1>1. todo[a] \in Seq(Channels) /\ done[a] \in Seq(Channels) /\ todo[a] # <<>>
    BY <1>0 DEF SessionOK, Course
  <1> DEFINE t == Tail(todo[a])
  <1>2. /\ h \in Channels /\ t \in Seq(Channels) /\ Distinct(t)
        /\ ToSet(todo[a]) = {h} \cup ToSet(t) /\ h \notin ToSet(t)
    BY <1>0, <1>1, HeadRest DEF Course
  <1>3. at' = [at EXCEPT ![a] = "next"] /\ todo' = [todo EXCEPT ![a] = t] /\ UNCHANGED <<lock, took, lost>>
    BY DEF Advance
  <1> HIDE DEF t
  <1>4. todo'[a] = t /\ at'[a] = "next" /\ took'[a] = took[a]
    BY <1>0, <1>3 DEF SessionOK
  <1>5. \A b \in Actors \ {a} : /\ at'[b] = at[b] /\ took'[b] = took[b] /\ todo'[b] = todo[b]
                                /\ done'[b] = done[b] /\ failed'[b] = failed[b]
    BY <1>0, <1>3 DEF SessionOK
  <1>6. CASE done' = [done EXCEPT ![a] = Append(@, h)] /\ UNCHANGED <<raised, failed>>
    <2> DEFINE d == Append(done[a], h)
    <2>1. d \in Seq(Channels) /\ Distinct(d) /\ ToSet(d) = ToSet(done[a]) \cup {h}
      BY <1>0, <1>1, <1>2, OneMore DEF Course
    <2>2. done' = [done EXCEPT ![a] = d]
      BY <1>6
    <2> HIDE DEF d
    <2>3. SessionOK'
      BY <1>0, <1>2, <1>3, <1>6, <2>1, <2>2 DEF SessionOK
    <2>4. done'[a] = d /\ failed'[a] = failed[a]
      BY <1>0, <1>6, <2>2 DEF SessionOK
    <2>5. Course(a)'
      BY <1>0, <1>2, <1>4, <2>1, <2>4 DEF Course
    <2> QED
      BY <1>5, <2>3, <2>5, OthersCourse
  <1>7. CASE /\ UNCHANGED done
             /\ failed' = [failed EXCEPT ![a] = TRUE]
             /\ UNCHANGED raised \/ (h \in Broken /\ raised' = [raised EXCEPT ![a] = @ \cup {h}])
    <2>1. raised' \in [Actors -> SUBSET Broken]
      <3>1. raised \in [Actors -> SUBSET Broken]
        BY <1>0 DEF SessionOK
      <3>2. CASE UNCHANGED raised
        BY <3>1, <3>2
      <3>3. CASE h \in Broken /\ raised' = [raised EXCEPT ![a] = @ \cup {h}]
        BY <3>1, <3>3
      <3> QED BY <1>7, <3>2, <3>3
    <2>2. SessionOK'
      BY <1>0, <1>2, <1>3, <1>7, <2>1 DEF SessionOK
    <2>3. done'[a] = done[a] /\ failed'[a] = TRUE
      BY <1>0, <1>7 DEF SessionOK
    <2>4. Course(a)'
      BY <1>0, <1>2, <1>4, <2>3 DEF Course
    <2> QED
      BY <1>5, <2>2, <2>4, OthersCourse
  <1> QED
    BY <1>6, <1>7

\* The due channels are taken, each once.
LEMMA DueDistinct ==
    ASSUME order \in Orders, due \subseteq Channels
    PROVE  FindDueSyncChannels \in Seq(Channels) /\ Distinct(FindDueSyncChannels)
  <1> DEFINE w == Kept(order, due)
             n == IF Len(w) < Limit THEN Len(w) ELSE Limit
             f == SubSeq(w, 1, n)
  <1>1. w \in Seq(Channels) /\ Distinct(w)
    BY OrderDistinct, KeptElements
  <1>2. Len(w) \in Nat /\ DOMAIN w = 1..Len(w) /\ w \in [1..Len(w) -> Channels]
    BY <1>1, LenProperties
  <1> HIDE DEF w
  <1>3. n \in Nat /\ n <= Len(w)
    BY <1>2, SyncAssumption
  <1> HIDE DEF n
  <1>4. \A i \in 1..n : i \in 1..Len(w) /\ w[i] \in Channels
    BY <1>2, <1>3
  <1>5. 1 \in Int /\ n \in Int
    BY <1>3
  <1>6. /\ f \in Seq(Channels) /\ Len(f) = IF 1 <= n THEN n - 1 + 1 ELSE 0
        /\ \A i \in 1..n - 1 + 1 : f[i] = w[1 + i - 1]
    BY <1>4, <1>5, SubSeqProperties
  <1> HIDE DEF f
  <1>7. Len(f) = n /\ \A i \in 1..n : f[i] = w[i]
    <2>1. n - 1 + 1 = n /\ \A i \in 1..n : 1 + i - 1 = i
      BY <1>3
    <2>2. (IF 1 <= n THEN n ELSE 0) = n
      BY <1>3
    <2> QED BY <1>6, <2>1, <2>2
  <1>8. DOMAIN f = 1..n
    BY <1>6, <1>7, LenProperties
  <1>9. Distinct(f)
    BY <1>1, <1>2, <1>4, <1>7, <1>8 DEF Distinct
  <1> QED
    BY <1>6, <1>9 DEF FindDueSyncChannels, f, n, w

LEMMA FindCourse ==
    ASSUME SyncInv, NEW a \in Actors, Find(a)
    PROVE  /\ SessionOK' /\ \A b \in Actors : Course(b)'
           /\ UNCHANGED stored
           /\ row' = row \/ row' = [row EXCEPT ![a] = "skipped"]
  <1>0. SessionOK /\ StoredOK /\ Course(a)
    BY TypeParts DEF SyncInv
  <1>1. CASE FindDueSyncChannels = <<>>
    BY <1>1, LeaveCourse, LoseCourse DEF Find, Lose
  <1>2. CASE FindDueSyncChannels # <<>>
    <2> DEFINE f == FindDueSyncChannels
    <2>1. /\ at[a] = "find"
          /\ took' = [took EXCEPT ![a] = ToSet(f)]
          /\ todo' = [todo EXCEPT ![a] = f]
          /\ at' = [at EXCEPT ![a] = "next"]
          /\ UNCHANGED <<stored, lock, done, raised, failed, lost, row>>
      BY <1>2 DEF Find
    <2>2. f \in Seq(Channels) /\ Distinct(f)
      BY <1>0, DueDistinct DEF StoredOK
    <2>3. ToSet(f) \subseteq Channels
      BY <2>2, LenProperties DEF ToSet
    <2> HIDE DEF f
    <2>4. SessionOK'
      BY <1>0, <2>1, <2>2, <2>3 DEF SessionOK
    <2>5. /\ at'[a] = "next" /\ took'[a] = ToSet(f) /\ todo'[a] = f
          /\ done'[a] = <<>> /\ failed'[a] = failed[a]
      BY <1>0, <2>1 DEF SessionOK, Course
    <2>6. Course(a)'
      BY <2>2, <2>5, Nothing DEF Course
    <2>7. \A b \in Actors \ {a} : /\ at'[b] = at[b] /\ took'[b] = took[b] /\ todo'[b] = todo[b]
                                  /\ done'[b] = done[b] /\ failed'[b] = failed[b]
      BY <1>0, <2>1 DEF SessionOK
    <2> QED
      BY <2>1, <2>4, <2>6, <2>7, OthersCourse
  <1> QED
    BY <1>1, <1>2

LEMMA RequestCourse ==
    ASSUME SyncInv, NEW a \in Requests, NEW c \in Channels, SyncChannel(a, c)
    PROVE  SessionOK' /\ \A b \in Actors : Course(b)'
  <1>a. a \in Actors
    BY DEF Actors
  <1>0. SessionOK /\ Course(a)
    BY <1>a, TypeParts DEF SyncInv
  <1> DEFINE q == <<c>>
  <1>1. q \in Seq(Channels) /\ Distinct(q)
    BY DEF Distinct
  <1>2. /\ at[a] = "idle"
        /\ todo' = [todo EXCEPT ![a] = q]
        /\ at' = [at EXCEPT ![a] = "next"]
        /\ UNCHANGED <<lock, took, done, raised, failed, lost>>
    BY DEF SyncChannel
  <1> HIDE DEF q
  <1>3. SessionOK'
    BY <1>a, <1>0, <1>1, <1>2 DEF SessionOK
  <1>4. at'[a] = "next" /\ todo'[a] = q /\ done'[a] = <<>>
    BY <1>a, <1>0, <1>2 DEF SessionOK, Course
  <1>5. Course(a)'
    BY <1>1, <1>4, Nothing, SyncAssumption DEF Course
  <1>6. \A b \in Actors \ {a} : /\ at'[b] = at[b] /\ took'[b] = took[b] /\ todo'[b] = todo[b]
                                /\ done'[b] = done[b] /\ failed'[b] = failed[b]
    BY <1>a, <1>0, <1>2 DEF SessionOK
  <1> QED
    BY <1>a, <1>3, <1>5, <1>6, OthersCourse

\* The steps that open a session or take the lock change only where an actor is.
LEMMA BeginCourse ==
    ASSUME SyncInv, NEW a \in Actors, Begin(a) \/ RunChannelSync(a)
    PROVE  SessionOK' /\ \A b \in Actors : Course(b)'
  <1>0. SessionOK /\ Course(a)
    BY TypeParts DEF SyncInv
  <1>1. /\ \/ at[a] = "idle" /\ at' = [at EXCEPT ![a] = "find"]
           \/ at[a] = "next" /\ todo[a] # <<>> /\ at' = [at EXCEPT ![a] = "probe"]
        /\ lock' \in {lock, a}
        /\ UNCHANGED session
    BY DEF Begin, RunChannelSync
  <1>2. SessionOK'
    BY <1>0, <1>1 DEF SessionOK, session
  <1>3. Course(a)'
    BY <1>0, <1>1 DEF SessionOK, Course, session
  <1>4. \A b \in Actors \ {a} : /\ at'[b] = at[b] /\ took'[b] = took[b] /\ todo'[b] = todo[b]
                                /\ done'[b] = done[b] /\ failed'[b] = failed[b]
    BY <1>0, <1>1 DEF SessionOK, session
  <1> QED
    BY <1>2, <1>3, <1>4, OthersCourse

LEMMA CommitCourse ==
    ASSUME SyncInv, NEW a \in Actors, Commit(a)
    PROVE  SyncInv'
  <1>0. SessionOK /\ StoredOK /\ Course(a)
    BY TypeParts DEF SyncInv
  <1>1. SessionOK' /\ \A b \in Actors : Course(b)'
    BY LeaveCourse DEF Commit
  <1>2. order' \in Orders
    <2>1. done[a] \in Seq(Channels) /\ Distinct(done[a])
      BY <1>0 DEF SessionOK, Course
    <2> QED
      BY <1>0, <2>1, Reordered DEF StoredOK, Commit
  <1>3. odd' \subseteq Broken /\ due' \subseteq Channels
    BY <1>0 DEF StoredOK, SessionOK, Commit
  <1>4. row' \in [Actors -> {"none", "running", "completed", "failed", "skipped"}]
    BY <1>0 DEF StoredOK, Commit, Outcome
  <1>5. StoredOK'
    BY <1>2, <1>3, <1>4 DEF StoredOK
  <1>6. TypeOK'
    BY <1>1, <1>5, TypeParts DEF TypeOK, StoredOK, SessionOK
  <1> QED
    BY <1>1, <1>6 DEF SyncInv

LEMMA SyncStep == SyncInv /\ [Next]_vars => SyncInv'
  <1> SUFFICES ASSUME SyncInv, [Next]_vars PROVE SyncInv'
    OBVIOUS
  <1>0. SessionOK /\ StoredOK
    BY TypeParts DEF SyncInv
  <1>t. ASSUME StoredOK', SessionOK', \A b \in Actors : Course(b)'
        PROVE  SyncInv'
    BY <1>t DEF TypeOK, StoredOK, SessionOK, SyncInv
  <1>1. ASSUME NEW c \in Channels, Elapse(c) PROVE SyncInv'
    <2>1. StoredOK'
      BY <1>0, <1>1 DEF Elapse, StoredOK
    <2>2. SessionOK' /\ \A b \in Actors : Course(b)'
      BY <1>0, <1>1 DEF Elapse, session, SessionOK, SyncInv, Course
    <2> QED BY <1>t, <2>1, <2>2
  <1>2. ASSUME NEW r \in Requests, NEW c \in Channels, SyncChannel(r, c) PROVE SyncInv'
    <2>1. StoredOK'
      BY <1>0, <1>2 DEF SyncChannel, stored, StoredOK
    <2> QED BY <1>2, <1>t, <2>1, RequestCourse
  <1>3. ASSUME NEW a \in Actors, Step(a) \/ Cut(a), ~Commit(a) PROVE SyncInv'
    <2>1. StoredOK'
      <3>1. UNCHANGED stored
        BY <1>3, FindCourse DEF Step, Begin, RunChannelSync, LockedOut, Synced, ProbeFails, SyncRaises,
                    SyncClashes, MarkFailed, Cut, Advance, Lose
      <3>2. row' \in [Actors -> {"none", "running", "completed", "failed", "skipped"}]
        <4>1. row \in [Actors -> {"none", "running", "completed", "failed", "skipped"}]
          BY <1>0 DEF StoredOK
        <4> QED
          BY <1>3, <4>1, FindCourse DEF Step, Begin, RunChannelSync, LockedOut, Synced, ProbeFails, SyncRaises,
                      SyncClashes, MarkFailed, Cut, Advance, Lose
      <3> QED BY <1>0, <3>1, <3>2 DEF StoredOK, stored
    <2>2. SessionOK' /\ \A b \in Actors : Course(b)'
      <3>1. CASE Begin(a) \/ RunChannelSync(a)
        BY <3>1, BeginCourse
      <3>2. CASE Find(a)
        BY <3>2, FindCourse
      <3>3. CASE LockedOut(a) \/ SyncClashes(a)
        BY <3>3, LoseCourse DEF LockedOut, SyncClashes
      <3>4. CASE Synced(a)
        BY <3>4, AdvanceCourse DEF Synced
      <3>5. CASE ProbeFails(a)
        BY <3>5, AdvanceCourse DEF ProbeFails
      <3>6. CASE SyncRaises(a) /\ a \in Ticks
        BY <3>6, AdvanceCourse DEF SyncRaises
      <3>7. CASE SyncRaises(a) /\ a \notin Ticks
        BY <3>7, LeaveCourse DEF SyncRaises
      <3>8. CASE MarkFailed(a) \/ Cut(a)
        BY <3>8, LeaveCourse DEF MarkFailed, Cut
      <3> QED
        BY <1>3, <3>1, <3>2, <3>3, <3>4, <3>5, <3>6, <3>7, <3>8 DEF Step
    <2> QED BY <1>t, <2>1, <2>2
  <1>4. ASSUME NEW a \in Actors, Commit(a) PROVE SyncInv'
    BY <1>4, CommitCourse
  <1>5. CASE UNCHANGED vars
    BY <1>5 DEF vars, stored, session, SyncInv, TypeOK, Course
  <1> QED
    BY <1>1, <1>2, <1>3, <1>4, <1>5 DEF Next, Step

LEMMA SyncInit == Init => SyncInv
  BY Nothing DEF Init, SyncInv, TypeOK, Course

(***************************************************************************)
(* The types, and with them that a commit loses no channel from the order  *)
(* and gives none two places.                                              *)
(***************************************************************************)
THEOREM TypesHold == Spec => []TypeOK
  <1>1. SyncInv => TypeOK
    BY DEF SyncInv
  <1> QED
    BY <1>1, SyncInit, SyncStep, PTL DEF Spec

\* The action of CompletedMeansFresh.
Fresh == \A a \in Ticks : row[a] = "running" /\ row'[a] = "completed" => took[a] \cap due' = {}

LEMMA FreshStep ==
    ASSUME SyncInv, Next
    PROVE  Fresh
  <1> SUFFICES ASSUME NEW a \in Ticks, row[a] = "running", row'[a] = "completed"
               PROVE  took[a] \cap due' = {}
    BY DEF Fresh
  <1>a. a \in Actors
    BY DEF Actors
  <1>0. SessionOK /\ StoredOK /\ Course(a)
    BY <1>a, TypeParts DEF SyncInv
  <1>1. Commit(a)
    <2>1. row \in [Actors -> {"none", "running", "completed", "failed", "skipped"}]
      BY <1>0 DEF StoredOK
    <2>2. ASSUME NEW b \in Actors, Find(b) PROVE FALSE
      BY <1>a, <2>1, <2>2, FindCourse
    <2>3. PICK b \in Actors : Step(b) \/ Cut(b)
      BY DEF Next, Elapse, SyncChannel
    <2>4. Commit(b) /\ a = b
      BY <1>a, <2>1, <2>2, <2>3 DEF Step, Begin, RunChannelSync, LockedOut, Synced, ProbeFails, SyncRaises,
                  SyncClashes, MarkFailed, Cut, Advance, Lose, Commit
    <2> QED BY <2>4
  <1>2. ~failed[a]
    BY <1>a, <1>0, <1>1 DEF Commit, Outcome, StoredOK, SessionOK
  <1>3. took[a] \subseteq ToSet(done[a])
    BY <1>0, <1>1, <1>2, Nothing DEF Commit, Course
  <1> QED
    BY <1>1, <1>3 DEF Commit

(***************************************************************************)
(* Whatever ticks and requests overlap, fail, lose their transaction or    *)
(* are cancelled, a tick's row says "completed" only in the commit that    *)
(* takes every channel of the tick out of the due ones.                    *)
(***************************************************************************)
THEOREM CompletedIsFresh == Spec => CompletedMeansFresh
  <1>1. SyncInv /\ [Next]_vars => [Fresh]_vars
    BY FreshStep
  <1>2. [][Fresh]_vars => CompletedMeansFresh
    BY PTL DEF CompletedMeansFresh, Fresh
  <1> QED
    BY <1>1, <1>2, SyncInit, SyncStep, PTL DEF Spec
=============================================================================
