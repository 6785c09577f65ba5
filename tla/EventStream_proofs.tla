-------------------------- MODULE EventStream_proofs --------------------------
(***************************************************************************)
(* What a client is promised of the frames on its connection, for any      *)
(* number of connections, any replay limit and any plan of faults: the     *)
(* frames sent, the sends that wait for its lock and what is left of its   *)
(* replay are together the history at its registration and everything      *)
(* since, each event once (Whole), and the live ones among them keep the   *)
(* order of their publication (Ordered).                                   *)
(***************************************************************************)
EXTENDS EventStream, SequenceTheorems, FiniteSetTheorems, TLAPS

\* The live events, those after b, rise along q; those of q come before those of r.
Rising(q, b) == \A i, j \in DOMAIN q : i < j /\ q[i] > b /\ q[j] > b => q[i] < q[j]
Before(q, r, b) == \A x \in ToSet(q), y \in ToSet(r) : x > b /\ y > b => x < y

\* A connection that nobody has accepted is no client and has carried nothing,
\* and one that joins has carried nothing either.
Unaccepted(s) == link[s] \in {"none", "dialing", "refused"}
FreshIsClean ==
    \A s \in Conns : /\ Unaccepted(s) => s \notin clients \cup joining
                     /\ Unaccepted(s) \/ s \in joining => sent[s] = <<>>

\* Who is no client has nothing waiting.
OutsideIsClean == \A s \in Conns \ clients : lane[s] = <<>> /\ rest[s] = <<>>

\* A frame is of an event that was published, one of the replay of one published
\* before the registration.
Numbered ==
    \A s \in Conns : /\ base[s] \in 0..published
                     /\ ToSet(sent[s]) \subseteq 1..published
                     /\ ToSet(lane[s]) \subseteq 1..published
                     /\ ToSet(rest[s]) \subseteq 1..base[s]

Ordered ==
    \A s \in Conns : /\ Rising(sent[s], base[s])
                     /\ Rising(lane[s], base[s])
                     /\ Before(sent[s], lane[s], base[s])

\* Everything a client is due, each event once.
Whole ==
    \A s \in clients :
        /\ since <= base[s]
        /\ ToSet(sent[s]) \cup ToSet(lane[s]) \cup ToSet(rest[s]) = Oldest(base[s])..published
        /\ Len(sent[s]) + Len(lane[s]) + Len(rest[s]) = published - Oldest(base[s]) + 1

StreamInv == TypeOK /\ FreshIsClean /\ OutsideIsClean /\ Numbered /\ Ordered /\ Whole

-----------------------------------------------------------------------------
(* Elements of sequences.                                                  *)

LEMMA EmptyElements == ToSet(<<>>) = {}
  BY DEF ToSet

\* One more element at the end.
LEMMA AppendElements ==
    ASSUME NEW S, NEW q \in Seq(S), NEW e \in S
    PROVE  ToSet(Append(q, e)) = ToSet(q) \cup {e}
  <1>1. /\ Append(q, e) \in Seq(S) /\ Len(Append(q, e)) = Len(q) + 1 /\ Len(q) \in Nat
        /\ \A i \in 1..Len(q) : Append(q, e)[i] = q[i]
        /\ Append(q, e)[Len(q) + 1] = e
    BY AppendProperties, LenProperties
  <1>2. DOMAIN Append(q, e) = 1..(Len(q) + 1) /\ DOMAIN q = 1..Len(q)
    BY <1>1, LenProperties
  <1> QED
    BY <1>1, <1>2 DEF ToSet

\* A sequence is its head and its tail.
LEMMA HeadTailElements ==
    ASSUME NEW S, NEW q \in Seq(S), q # <<>>
    PROVE  ToSet(q) = {Head(q)} \cup ToSet(Tail(q)) /\ Head(q) = q[1]
  <1>1. /\ Tail(q) \in Seq(S) /\ Len(Tail(q)) = Len(q) - 1
        /\ \A i \in 1..Len(Tail(q)) : Tail(q)[i] = q[i + 1]
    BY HeadTailProperties
  <1>2. Len(q) \in Nat \ {0} /\ DOMAIN q = 1..Len(q) /\ DOMAIN Tail(q) = 1..(Len(q) - 1)
    BY <1>1, LenProperties, EmptySeq
  <1>3. Head(q) = q[1]
    BY <1>2
  <1>4. \A i \in 2..Len(q) : i - 1 \in DOMAIN Tail(q) /\ Tail(q)[i - 1] = q[i]
    BY <1>1, <1>2
  <1>5. ASSUME NEW i \in DOMAIN q PROVE q[i] \in {Head(q)} \cup ToSet(Tail(q))
    <2>1. i = 1 \/ i \in 2..Len(q)
      BY <1>2
    <2>2. ASSUME i \in 2..Len(q) PROVE Tail(q)[i - 1] \in ToSet(Tail(q))
      BY <1>4, <2>2 DEF ToSet
    <2> QED
      BY <1>3, <1>4, <2>1, <2>2
  <1>6. \A i \in DOMAIN Tail(q) : i + 1 \in DOMAIN q /\ Tail(q)[i] = q[i + 1]
    BY <1>1, <1>2
  <1>7. 1 \in DOMAIN q
    BY <1>2
  <1> QED
    BY <1>3, <1>5, <1>6, <1>7 DEF ToSet

LEMMA ConcatElements ==
    ASSUME NEW S, NEW q \in Seq(S), NEW r \in Seq(S)
    PROVE  ToSet(q \o r) = ToSet(q) \cup ToSet(r)
  <1>1. /\ q \o r \in Seq(S) /\ Len(q \o r) = Len(q) + Len(r) /\ Len(q) \in Nat /\ Len(r) \in Nat
        /\ \A i \in 1..(Len(q) + Len(r)) : (q \o r)[i] = IF i <= Len(q) THEN q[i] ELSE r[i - Len(q)]
    BY ConcatProperties, LenProperties
  <1>2. DOMAIN (q \o r) = 1..(Len(q) + Len(r)) /\ DOMAIN q = 1..Len(q) /\ DOMAIN r = 1..Len(r)
    BY <1>1, LenProperties
  <1>3. \A j \in 1..Len(r) : /\ Len(q) + j \in 1..(Len(q) + Len(r))
                             /\ (q \o r)[Len(q) + j] = r[j]
    BY <1>1
  <1>4. \A i \in 1..Len(q) : i \in 1..(Len(q) + Len(r)) /\ (q \o r)[i] = q[i]
    BY <1>1
  <1>5. \A i \in 1..(Len(q) + Len(r)) : (q \o r)[i] \in ToSet(q) \cup ToSet(r)
    <2> SUFFICES ASSUME NEW i \in 1..(Len(q) + Len(r)) PROVE (q \o r)[i] \in ToSet(q) \cup ToSet(r)
      OBVIOUS
    <2>1. CASE i <= Len(q)
      BY <1>1, <1>2, <2>1 DEF ToSet
    <2>2. CASE ~(i <= Len(q))
      <3>1. i - Len(q) \in 1..Len(r) /\ (q \o r)[i] = r[i - Len(q)]
        BY <1>1, <2>2
      <3> QED
        BY <3>1, <1>2 DEF ToSet
    <2> QED
      BY <2>1, <2>2
  <1>6. ToSet(q \o r) \subseteq ToSet(q) \cup ToSet(r)
    BY <1>2, <1>5 DEF ToSet
  <1>7. ToSet(q) \subseteq ToSet(q \o r)
    BY <1>2, <1>4 DEF ToSet
  <1>8. ToSet(r) \subseteq ToSet(q \o r)
    BY <1>2, <1>3 DEF ToSet
  <1> QED
    BY <1>6, <1>7, <1>8

\* One element goes from the head of r to the end of q.
LEMMA MoveHead ==
    ASSUME NEW q \in Seq(Int), NEW r \in Seq(Int), r # <<>>
    PROVE  /\ Head(r) \in Int /\ Tail(r) \in Seq(Int) /\ Append(q, Head(r)) \in Seq(Int)
           /\ ToSet(r) = {Head(r)} \cup ToSet(Tail(r))
           /\ ToSet(Append(q, Head(r))) = ToSet(q) \cup {Head(r)}
           /\ Len(Tail(r)) = Len(r) - 1
           /\ Len(Append(q, Head(r))) = Len(q) + 1
  <1>1. Head(r) \in Int /\ Tail(r) \in Seq(Int) /\ Len(Tail(r)) = Len(r) - 1
    BY HeadTailProperties
  <1>2. ToSet(r) = {Head(r)} \cup ToSet(Tail(r))
    BY HeadTailElements
  <1>3. Append(q, Head(r)) \in Seq(Int) /\ Len(Append(q, Head(r))) = Len(q) + 1
    BY <1>1, AppendProperties
  <1>4. ToSet(Append(q, Head(r))) = ToSet(q) \cup {Head(r)}
    BY <1>1, AppendElements
  <1> QED
    BY <1>1, <1>2, <1>3, <1>4

LEMMA ElementsTyped ==
    ASSUME NEW S, NEW q \in Seq(S)
    PROVE  ToSet(q) \subseteq S /\ \A i \in DOMAIN q : q[i] \in ToSet(q)
  BY LenProperties, ElementOfSeq DEF ToSet

-----------------------------------------------------------------------------
(* Order along sequences.                                                  *)

LEMMA RisingAppend ==
    ASSUME NEW q \in Seq(Int), NEW e \in Int, NEW b \in Int, Rising(q, b),
           \A x \in ToSet(q) : x > b /\ e > b => x < e
    PROVE  Rising(Append(q, e), b)
  <1>1. /\ Append(q, e) \in Seq(Int) /\ Len(Append(q, e)) = Len(q) + 1 /\ Len(q) \in Nat
        /\ \A i \in 1..Len(q) : Append(q, e)[i] = q[i]
        /\ Append(q, e)[Len(q) + 1] = e
    BY AppendProperties, LenProperties
  <1>2. DOMAIN Append(q, e) = 1..(Len(q) + 1) /\ DOMAIN q = 1..Len(q)
    BY <1>1, LenProperties
  <1>3. \A i \in 1..Len(q) : q[i] \in ToSet(q)
    BY <1>2 DEF ToSet
  <1> QED
    BY <1>1, <1>2, <1>3 DEF Rising

LEMMA RisingTail ==
    ASSUME NEW q \in Seq(Int), NEW b \in Int, q # <<>>, Rising(q, b)
    PROVE  Rising(Tail(q), b) /\ \A y \in ToSet(Tail(q)) : Head(q) > b /\ y > b => Head(q) < y
  <1>1. /\ Tail(q) \in Seq(Int) /\ Len(Tail(q)) = Len(q) - 1
        /\ \A i \in 1..Len(Tail(q)) : Tail(q)[i] = q[i + 1]
    BY HeadTailProperties
  <1>2. Len(q) \in Nat \ {0} /\ DOMAIN q = 1..Len(q) /\ DOMAIN Tail(q) = 1..(Len(q) - 1)
    BY <1>1, LenProperties, EmptySeq
  <1>3. Head(q) = q[1]
    BY HeadTailElements
  <1>4. \A i \in DOMAIN Tail(q) : i + 1 \in DOMAIN q /\ 1 < i + 1 /\ 1 \in DOMAIN q /\ Tail(q)[i] = q[i + 1]
    BY <1>1, <1>2
  <1>5. Rising(Tail(q), b)
    BY <1>2, <1>4 DEF Rising
  <1>6. \A i \in DOMAIN Tail(q) : Head(q) > b /\ Tail(q)[i] > b => Head(q) < Tail(q)[i]
    BY <1>2, <1>3, <1>4 DEF Rising
  <1> QED
    BY <1>5, <1>6 DEF ToSet

LEMMA RisingEmpty == ASSUME NEW b PROVE Rising(<<>>, b)
  BY DEF Rising

\* A frame that is sent keeps the order of what is sent and of what is left.
LEMMA OrderSend ==
    ASSUME NEW q \in Seq(Int), NEW r \in Seq(Int), NEW b \in Int, r # <<>>,
           Rising(q, b), Rising(r, b), Before(q, r, b)
    PROVE  /\ Rising(Append(q, Head(r)), b)
           /\ Rising(Tail(r), b)
           /\ Before(Append(q, Head(r)), Tail(r), b)
  <1>1. Head(r) \in Int /\ Tail(r) \in Seq(Int)
    BY HeadTailProperties
  <1>2. ToSet(r) = {Head(r)} \cup ToSet(Tail(r)) /\ ToSet(Append(q, Head(r))) = ToSet(q) \cup {Head(r)}
    BY <1>1, HeadTailElements, AppendElements
  <1>3. Rising(Tail(r), b) /\ \A y \in ToSet(Tail(r)) : Head(r) > b /\ y > b => Head(r) < y
    BY RisingTail
  <1>4. Rising(Append(q, Head(r)), b)
    BY <1>1, <1>2, RisingAppend DEF Before
  <1> QED
    BY <1>2, <1>3, <1>4 DEF Before
-----------------------------------------------------------------------------
(* Types.                                                                  *)

Frame == 1..plan.events

AskType == [kind : {"load", "refresh"}, got : (-1)..plan.events \cup {None}, stale : BOOLEAN]

LEMMA PlanType ==
    ASSUME TypeOK
    PROVE  /\ plan.events \in Nat /\ plan.asks \in Nat \ {0}
           /\ published \in Nat /\ published <= plan.events
           /\ since \in Nat /\ since <= published
  BY StreamAssumption DEF TypeOK

LEMMA TypeInit == Init => TypeOK
  <1> SUFFICES ASSUME Init PROVE TypeOK
    OBVIOUS
  <1>1. plan.events \in Nat /\ plan.asks \in Nat \ {0} /\ plan \in Plans
    BY StreamAssumption DEF Init
  <1>2. socket \in Conns
    BY StreamAssumption DEF Init
  <1>3. /\ Ask("load") \in AskType
        /\ Len(asks) = 1
    BY DEF Init, Ask, AskType
  <1>4. \A s \in Conns : <<>> \in Seq(Frame) /\ sent[s] = <<>>
    BY DEF Init
  <1>5. {rest, lane, sent} \subseteq [Conns -> Seq(Frame)]
    BY <1>4 DEF Init
  <1>6. handled \in [Conns -> Nat] /\ \A s \in Conns : handled[s] <= Len(sent[s])
    BY <1>4 DEF Init
  <1>7. asks \in Seq(AskType)
    BY <1>3 DEF Init
  <1>8. Len(asks) <= plan.asks
    BY <1>1, <1>3
  <1>11. up \in BOOLEAN
    BY Zenon DEF Init
  <1>9. /\ link \in [Conns -> {"none", "dialing", "accepted", "refused", "closed"}]
        /\ phase \in [Conns -> {"none", "connecting", "open", "closing"}]
    BY DEF Init
  <1>10. /\ published \in 0..plan.events /\ since \in 0..published
         /\ base \in [Conns -> 0..plan.events]
         /\ joining \subseteq Conns /\ clients \subseteq Conns \ joining
    BY <1>1 DEF Init
  <1> QED
    BY <1>1, <1>2, <1>5, <1>6, <1>7, <1>8, <1>9, <1>10, <1>11 DEF Init, TypeOK, Frame, AskType

\* What the bus may write.
BusType ==
    /\ up \in BOOLEAN
    /\ published \in 0..plan.events /\ since \in 0..published
    /\ joining \subseteq Conns /\ clients \subseteq Conns \ joining
    /\ base \in [Conns -> 0..plan.events]
    /\ {rest, lane, sent} \subseteq [Conns -> Seq(Frame)]
    /\ link \in [Conns -> {"none", "dialing", "accepted", "refused", "closed"}]
    /\ handled \in [Conns -> Nat] /\ \A s \in Conns : handled[s] <= Len(sent[s])

\* A frame that goes out leaves room for what has arrived.
LEMMA SentType ==
    ASSUME TypeOK, NEW s \in Conns, lane[s] # <<>>, handled' = handled,
           sent' = [sent EXCEPT ![s] = Append(sent[s], Head(lane[s]))]
    PROVE  sent' \in [Conns -> Seq(Frame)] /\ \A c \in Conns : handled'[c] <= Len(sent'[c])
  <1>1. Head(lane[s]) \in Frame /\ sent[s] \in Seq(Frame)
    BY HeadTailProperties DEF TypeOK, Frame
  <1>2. Append(sent[s], Head(lane[s])) \in Seq(Frame)
    BY <1>1, AppendProperties
  <1>3. Len(Append(sent[s], Head(lane[s]))) = Len(sent[s]) + 1 /\ Len(sent[s]) \in Nat
    BY <1>1, AppendProperties, LenProperties
  <1>4. sent' \in [Conns -> Seq(Frame)]
    BY <1>2 DEF TypeOK, Frame
  <1>5. handled \in [Conns -> Nat] /\ \A c \in Conns : handled[c] <= Len(sent[c])
    BY DEF TypeOK
  <1>6. \A c \in Conns : c # s => sent'[c] = sent[c]
    BY DEF TypeOK
  <1>7. sent'[s] = Append(sent[s], Head(lane[s]))
    BY DEF TypeOK
  <1>8. handled[s] \in Nat /\ handled[s] <= Len(sent'[s])
    BY <1>3, <1>5, <1>7
  <1> QED
    BY <1>4, <1>5, <1>6, <1>8

LEMMA OldestRange ==
    ASSUME NEW n \in Nat, since \in 0..n
    PROVE  Oldest(n) \in 1..(n + 1)
  BY StreamAssumption DEF Oldest

\* The replay is the history of this process, as far as the limit reaches.
LEMMA ReplayIs ==
    ASSUME TypeOK
    PROVE  /\ Replay \in Seq(1..published)
           /\ Len(Replay) = published - Oldest(published) + 1
           /\ ToSet(Replay) = Oldest(published)..published
  <1> DEFINE n == published - Oldest(published) + 1
  <1>1. published \in Nat /\ Oldest(published) \in 1..(published + 1) /\ n \in Nat /\ n <= published
    BY PlanType, OldestRange
  <1>2. \A i \in 1..n : published + 1 - i \in Oldest(published)..published
    BY <1>1
  <1>3. \A e \in Oldest(published)..published :
            published + 1 - e \in 1..n /\ published + 1 - (published + 1 - e) = e
    BY <1>1
  <1>4. Replay = [i \in 1..n |-> published + 1 - i]
    BY DEF Replay
  <1> HIDE DEF n
  <1>5. \A i \in 1..n : published + 1 - i \in 1..published
    BY <1>1, <1>2
  <1>6. Replay \in [1..n -> 1..published]
    BY <1>4, <1>5
  <1>7. Replay \in Seq(1..published)
    BY <1>1, <1>6
  <1>8. Len(Replay) = n /\ DOMAIN Replay = 1..n
    BY <1>1, <1>6, <1>7
  <1>9. ToSet(Replay) = {Replay[i] : i \in 1..n}
    BY <1>8 DEF ToSet
  <1>10. ToSet(Replay) \subseteq Oldest(published)..published
    BY <1>2, <1>4, <1>9
  <1>11. ASSUME NEW e \in Oldest(published)..published PROVE e \in ToSet(Replay)
    BY <1>3, <1>4, <1>9
  <1> QED
    BY <1>7, <1>8, <1>10, <1>11 DEF n

\* A registration splits the replay into its first event and the others.
LEMMA ReplaySplit ==
    ASSUME TypeOK
    PROVE  LET first == SubSeq(Replay, 1, IF Replay = <<>> THEN 0 ELSE 1)
               others == SubSeq(Replay, 2, Len(Replay))
           IN  /\ first \in Seq(1..published)
               /\ others \in Seq(1..published)
               /\ ToSet(first) \cup ToSet(others) = ToSet(Replay)
               /\ Len(first) + Len(others) = Len(Replay)
  <1> DEFINE first == SubSeq(Replay, 1, IF Replay = <<>> THEN 0 ELSE 1)
             others == SubSeq(Replay, 2, Len(Replay))
  <1>1. Replay \in Seq(1..published) /\ Len(Replay) \in Nat
    BY ReplayIs, LenProperties
  <1>2. CASE Replay = <<>>
    <2>1. first = <<>> /\ others = <<>>
      BY <1>2, SubSeqEmpty
    <2> HIDE DEF first, others
    <2>2. <<>> \in Seq(1..published) /\ Len(<<>>) = 0
      BY EmptySeq
    <2>3. ToSet(first) \cup ToSet(others) = ToSet(Replay) /\ Len(first) + Len(others) = Len(Replay)
      BY <1>2, <2>1, <2>2, EmptyElements
    <2> QED
      BY <2>1, <2>2, <2>3 DEF first, others
  <1>3. CASE Replay # <<>>
    <2>1. Len(Replay) \in Nat \ {0} /\ DOMAIN Replay = 1..Len(Replay)
      BY <1>1, <1>3, EmptySeq, LenProperties
    <2>2. others = Tail(Replay)
      BY <1>1, <1>3, TailIsSubSeq
    <2>3. others \in Seq(1..published) /\ Len(others) = Len(Replay) - 1
      BY <1>1, <1>3, <2>2, HeadTailProperties
    <2>4. \A i \in 1..1 : Replay[i] \in 1..published
      <3>1. 1 \in 1..Len(Replay)
        BY <2>1
      <3>2. Replay[1] \in 1..published
        BY <1>1, <3>1, ElementOfSeq
      <3> QED
        BY <3>2
    <2>5. first \in Seq(1..published) /\ Len(first) = 1 /\ \A i \in 1..1 : first[i] = Replay[i]
      <3>1. first = SubSeq(Replay, 1, 1)
        BY <1>3
      <3> HIDE DEF first
      <3>2. /\ SubSeq(Replay, 1, 1) \in Seq(1..published)
            /\ Len(SubSeq(Replay, 1, 1)) = IF 1 <= 1 THEN 1 - 1 + 1 ELSE 0
            /\ \A i \in 1..(1 - 1 + 1) : SubSeq(Replay, 1, 1)[i] = Replay[1 + i - 1]
        BY <2>4, SubSeqProperties
      <3> QED
        BY <3>1, <3>2
    <2> HIDE DEF first, others
    <2>6. DOMAIN first = 1..1
      BY <2>5, LenProperties
    <2>7. ToSet(first) = {Head(Replay)}
      <3>1. Head(Replay) = Replay[1]
        BY <1>1, <1>3, HeadTailElements
      <3> QED
        BY <2>5, <2>6, <3>1 DEF ToSet
    <2>8. ToSet(Replay) = {Head(Replay)} \cup ToSet(others)
      BY <1>1, <1>3, <2>2, HeadTailElements
    <2>9. Len(first) + Len(others) = Len(Replay)
      BY <2>1, <2>3, <2>5
    <2>10. first \in Seq(1..published) /\ ToSet(first) \cup ToSet(others) = ToSet(Replay)
      BY <2>5, <2>7, <2>8
    <2> QED
      BY <2>3, <2>9, <2>10 DEF first, others
  <1> QED
    BY <1>2, <1>3
\* The types in two parts: what the two ends of the connections have, and what
\* the client and its console have.
ClientType ==
    /\ plan \in Plans
    /\ socket \in Conns \cup {None}
    /\ phase \in [Conns -> {"none", "connecting", "open", "closing"}]
    /\ timer \in BOOLEAN /\ everOpen \in BOOLEAN /\ blocked \in BOOLEAN /\ due \in BOOLEAN
    /\ asks \in Seq(AskType)
    /\ Len(asks) <= plan.asks
    /\ view \in 0..plan.events \cup {None} /\ missed \in BOOLEAN

LEMMA TypeParts == TypeOK <=> BusType /\ ClientType
  BY DEF TypeOK, BusType, ClientType, Frame, AskType

\* The steps of the server and of the network.
LEMMA BusTypeStep ==
    ASSUME TypeOK, FreshIsClean, UNCHANGED plan,
           \/ Publish \/ Stop \/ Start
           \/ \E s \in Conns : \/ Accept(s) \/ Register(s) \/ Send(s) \/ Notice(s) \/ Unanswered(s) \/ Forget(s)
                               \/ Break(s) \/ TimeOut(s) \/ Refuse(s)
    PROVE  BusType'
  <1>0. /\ plan.events \in Nat /\ published \in Nat /\ published <= plan.events /\ since \in 0..published
        /\ <<>> \in Seq(Frame) /\ Frame' = Frame
    BY PlanType, EmptySeq DEF Frame
  <1> USE DEF BusType
  <1>b. BusType
    BY TypeParts
  <1>1. CASE Publish
    <2>1. published' \in Frame /\ published' = published + 1 /\ published' \in 0..plan.events
      BY <1>0, <1>1 DEF Publish, Frame
    <2>2. \A s \in Conns : Append(lane[s], published') \in Seq(Frame)
      BY <1>b, <2>1, AppendProperties
    <2>3. lane' \in [Conns -> Seq(Frame)]
      BY <1>1, <1>b, <2>2 DEF Publish
    <2> QED
      BY <1>0, <1>1, <1>b, <2>1, <2>3 DEF Publish, client, console
  <1>2. CASE Stop
    <2>1. /\ up' = FALSE /\ since' = published /\ joining' = {} /\ clients' = {}
          /\ lane' = [s \in Conns |-> <<>>] /\ rest' = [s \in Conns |-> <<>>]
          /\ UNCHANGED <<published, base, sent, handled>>
          /\ link' = [s \in Conns |-> IF link[s] = "none" THEN "none" ELSE "closed"]
      BY <1>2 DEF Stop
    <2>2. lane' \in [Conns -> Seq(Frame)] /\ rest' \in [Conns -> Seq(Frame)]
      BY <1>0, <2>1
    <2>3. link' \in [Conns -> {"none", "dialing", "accepted", "refused", "closed"}]
      BY <2>1
    <2>4. up' \in BOOLEAN
      BY <2>1
    <2>5. published' \in 0..plan.events' /\ since' \in 0..published'
      BY <1>0, <2>1
    <2>6. /\ base' \in [Conns -> 0..plan'.events] /\ sent' \in [Conns -> Seq(Frame')]
          /\ handled' \in [Conns -> Nat] /\ \A s \in Conns : handled'[s] <= Len(sent'[s])
      BY <1>0, <1>b, <2>1
    <2> QED
      BY <1>0, <2>1, <2>2, <2>3, <2>4, <2>5, <2>6
  <1>3. CASE Start
    BY <1>0, <1>3, <1>b DEF Start, client, console
  <1>4. ASSUME NEW s \in Conns, Accept(s) PROVE BusType'
    <2>1. s \notin clients
      BY <1>4 DEF Accept, FreshIsClean, Unaccepted
    <2> QED
      BY <1>0, <1>4, <1>b, <2>1 DEF Accept, client, console
  <1>5. ASSUME NEW s \in Conns, Register(s) PROVE BusType'
    <2> DEFINE first == SubSeq(Replay, 1, IF Replay = <<>> THEN 0 ELSE 1)
               others == SubSeq(Replay, 2, Len(Replay))
    <2>1. first \in Seq(1..published) /\ others \in Seq(1..published)
      BY ReplaySplit
    <2>2. lane' = [lane EXCEPT ![s] = first] /\ rest' = [rest EXCEPT ![s] = others]
      BY <1>5 DEF Register
    <2> HIDE DEF first, others
    <2>3. 1..published \subseteq Frame
      BY <1>0 DEF Frame
    <2>4. first \in Seq(Frame) /\ others \in Seq(Frame)
      BY <2>1, <2>3, SeqMonotonic
    <2> QED
      BY <1>0, <1>5, <1>b, <2>2, <2>4 DEF Register, client, console
  <1>6. ASSUME NEW s \in Conns, Send(s) PROVE BusType'
    <2> DEFINE replayed == Head(lane[s]) <= base[s] /\ rest[s] # <<>>
    <2>1. lane[s] \in Seq(Frame) /\ lane[s] # <<>> /\ rest[s] \in Seq(Frame)
      BY <1>6, <1>b DEF Send
    <2>2. Tail(lane[s]) \in Seq(Frame) /\ Head(lane[s]) \in Frame
      BY <2>1, HeadTailProperties
    <2>3. rest[s] # <<>> => Tail(rest[s]) \in Seq(Frame) /\ Head(rest[s]) \in Frame
      BY <2>1, HeadTailProperties
    <2>4. rest[s] # <<>> => Append(Tail(lane[s]), Head(rest[s])) \in Seq(Frame)
      BY <2>2, <2>3, AppendProperties
    <2>5. /\ lane' = [lane EXCEPT ![s] = IF replayed THEN Append(Tail(lane[s]), Head(rest[s])) ELSE Tail(lane[s])]
          /\ rest' = [rest EXCEPT ![s] = IF replayed THEN Tail(rest[s]) ELSE rest[s]]
          /\ sent' = [sent EXCEPT ![s] = Append(sent[s], Head(lane[s]))]
          /\ UNCHANGED <<up, published, since, joining, clients, base, link, handled>>
      BY <1>6 DEF Send, client, console
    <2>6. replayed => rest[s] # <<>>
      OBVIOUS
    <2> HIDE DEF replayed
    <2>7. lane' \in [Conns -> Seq(Frame)] /\ rest' \in [Conns -> Seq(Frame)]
      BY <1>b, <2>1, <2>2, <2>3, <2>4, <2>5, <2>6
    <2>8. sent' \in [Conns -> Seq(Frame)] /\ \A c \in Conns : handled'[c] <= Len(sent'[c])
      BY <2>1, <2>5, SentType
    <2> QED
      BY <1>0, <1>b, <2>5, <2>7, <2>8
  <1>7. ASSUME NEW s \in Conns, Disconnect(s), \/ sent' = sent
                                               \/ /\ lane[s] # <<>>
                                                  /\ sent' = [sent EXCEPT ![s] = Append(sent[s], Head(lane[s]))]
        PROVE  BusType'
    <2>1. sent' \in [Conns -> Seq(Frame)] /\ \A c \in Conns : handled'[c] <= Len(sent'[c])
      BY <1>7, <1>b, SentType DEF Disconnect
    <2>2. /\ lane' = [lane EXCEPT ![s] = <<>>] /\ rest' = [rest EXCEPT ![s] = <<>>]
          /\ link' = [link EXCEPT ![s] = "closed"] /\ clients' = clients \ {s}
          /\ UNCHANGED <<up, published, since, joining, base, handled>>
      BY <1>7 DEF Disconnect
    <2>3. lane' \in [Conns -> Seq(Frame)] /\ rest' \in [Conns -> Seq(Frame)]
      BY <1>0, <1>b, <2>2
    <2>4. link' \in [Conns -> {"none", "dialing", "accepted", "refused", "closed"}]
      BY <1>b, <2>2
    <2> QED
      BY <1>0, <1>b, <2>1, <2>2, <2>3, <2>4
  <1>8. ASSUME NEW s \in Conns, Notice(s) \/ TimeOut(s) PROVE BusType'
    BY <1>7, <1>8 DEF Notice, TimeOut
  <1>9. ASSUME NEW s \in Conns, Unanswered(s) \/ Break(s) \/ Refuse(s) PROVE BusType'
    <2>1. /\ UNCHANGED <<up, published, since, joining, clients, base, rest, lane, sent, handled>>
          /\ link' \in {[link EXCEPT ![s] = "closed"], [link EXCEPT ![s] = "refused"]}
      BY <1>9 DEF Unanswered, Break, Refuse, bus
    <2>2. link' \in [Conns -> {"none", "dialing", "accepted", "refused", "closed"}]
      BY <1>b, <2>1
    <2> QED
      BY <1>0, <1>b, <2>1, <2>2
  <1>10. ASSUME NEW s \in Conns, Forget(s) PROVE BusType'
    <2>1. sent' = [sent EXCEPT ![s] = <<>>] /\ handled' = [handled EXCEPT ![s] = 0]
      BY <1>10 DEF Forget
    <2>2. handled' \in [Conns -> Nat]
      BY <1>b, <2>1
    <2>3. ASSUME NEW c \in Conns PROVE handled'[c] <= Len(sent'[c])
      <3>1. CASE c = s
        <4>1. sent'[c] = <<>> /\ handled'[c] = 0
          BY <1>b, <2>1, <3>1
        <4> QED
          BY <4>1
      <3>2. CASE c # s
        BY <1>b, <2>1, <3>2
      <3> QED
        BY <3>1, <3>2
    <2> QED
      BY <1>0, <1>10, <1>b, <2>1, <2>2, <2>3 DEF Forget, client, console
  <1> QED
    BY <1>1, <1>2, <1>3, <1>4, <1>5, <1>6, <1>8, <1>9, <1>10
\* What comes before an element of a sequence, and what after.
LEMMA CutType ==
    ASSUME NEW S, NEW q \in Seq(S), NEW i \in 1..Len(q)
    PROVE  /\ SubSeq(q, 1, i - 1) \in Seq(S) /\ Len(SubSeq(q, 1, i - 1)) = i - 1
           /\ SubSeq(q, i + 1, Len(q)) \in Seq(S) /\ Len(SubSeq(q, i + 1, Len(q))) = Len(q) - i
  <1>1. Len(q) \in Nat \ {0} /\ i \in Int /\ i \in 1..Len(q)
    BY LenProperties
  <1>2. \A j \in 1..Len(q) : q[j] \in S
    BY ElementOfSeq
  <1>3. \A j \in 1..(i - 1) : q[j] \in S
    BY <1>1, <1>2
  <1>4. \A j \in (i + 1)..Len(q) : q[j] \in S
    BY <1>1, <1>2
  <1> DEFINE before == SubSeq(q, 1, i - 1)
             after == SubSeq(q, i + 1, Len(q))
  <1>5. before \in Seq(S) /\ Len(before) = i - 1
    <2>1. before \in Seq(S) /\ Len(before) = IF 1 <= i - 1 THEN i - 1 - 1 + 1 ELSE 0
      BY <1>1, <1>3, SubSeqProperties
    <2> QED
      BY <1>1, <2>1
  <1>6. after \in Seq(S) /\ Len(after) = Len(q) - i
    <2>1. after \in Seq(S) /\ Len(after) = IF i + 1 <= Len(q) THEN Len(q) - (i + 1) + 1 ELSE 0
      BY <1>1, <1>4, SubSeqProperties
    <2> QED
      BY <1>1, <2>1
  <1> QED
    BY <1>5, <1>6

\* Requests stay requests when they become stale.
LEMMA OutdateType ==
    ASSUME NEW q \in Seq(AskType)
    PROVE  Outdate(q) \in Seq(AskType) /\ Len(Outdate(q)) = Len(q)
  <1>1. Len(q) \in Nat /\ DOMAIN q = 1..Len(q) /\ \A i \in 1..Len(q) : q[i] \in AskType
    BY LenProperties, ElementOfSeq
  <1>2. \A i \in 1..Len(q) : [q[i] EXCEPT !.stale = TRUE] \in AskType
    BY <1>1 DEF AskType
  <1>3. Outdate(q) = [i \in 1..Len(q) |-> [q[i] EXCEPT !.stale = TRUE]]
    BY <1>1 DEF Outdate
  <1> HIDE DEF AskType
  <1>4. Outdate(q) \in [1..Len(q) -> AskType]
    BY <1>2, <1>3
  <1>5. Outdate(q) \in Seq(AskType)
    BY <1>1, <1>4
  <1>6. DOMAIN Outdate(q) = 1..Len(q)
    BY <1>3
  <1> QED
    BY <1>1, <1>5, <1>6, LenProperties

\* A request that is made: there is room for it.
LEMMA AskedType ==
    ASSUME ClientType, NEW kind \in {"load", "refresh"}, Len(asks) < plan.asks, plan.asks \in Nat,
           asks' = Append(asks, Ask(kind)), plan' = plan
    PROVE  asks' \in Seq(AskType') /\ Len(asks') <= plan'.asks
  <1>1. Ask(kind) \in AskType /\ AskType' = AskType /\ asks \in Seq(AskType)
    BY DEF Ask, AskType, ClientType
  <1>2. Append(asks, Ask(kind)) \in Seq(AskType) /\ Len(Append(asks, Ask(kind))) = Len(asks) + 1 /\ Len(asks) \in Nat
    BY <1>1, AppendProperties, LenProperties
  <1> QED
    BY <1>1, <1>2

\* The steps of the client and its console.
LEMMA ClientTypeStep ==
    ASSUME TypeOK,
           \/ Retry \/ Reconnect \/ Refresh
           \/ \E s \in Conns : Opened(s) \/ Closing(s) \/ Closed(s)
           \/ \E i \in DOMAIN asks : Answer(i) \/ Take(i)
    PROVE  ClientType' /\ UNCHANGED plan
  <1>0. /\ plan.events \in Nat /\ published \in 0..plan.events /\ plan.asks \in Nat
        /\ ClientType /\ socket \in Conns \cup {None}
    BY PlanType, TypeParts DEF ClientType
  <1> USE DEF ClientType
  <1>1. CASE Retry \/ Reconnect
    <2>1. socket' \in Conns
      BY <1>1 DEF Retry, Reconnect, Dial
    <2>2. /\ phase' = [phase EXCEPT ![socket'] = "connecting"] /\ timer' = FALSE
          /\ UNCHANGED <<plan, everOpen, blocked, due, asks, view, missed>>
      BY <1>1 DEF Retry, Reconnect, Dial, bus, console
    <2> QED
      BY <1>0, <2>1, <2>2 DEF AskType
  <1>2. CASE Refresh
    <2>1. UNCHANGED <<plan, socket, phase, timer, everOpen, blocked, view, missed>> /\ due' = FALSE
      BY <1>2 DEF Refresh, bus, client
    <2>2. asks' \in Seq(AskType') /\ Len(asks') <= plan'.asks
      BY <1>0, <1>2, <2>1, AskedType DEF Refresh
    <2> QED
      BY <1>0, <2>1, <2>2 DEF AskType
  <1>3. ASSUME NEW s \in Conns, Opened(s) PROVE ClientType' /\ UNCHANGED plan
    <2>1. /\ UNCHANGED <<plan, socket, timer, blocked, due, view, missed>>
          /\ phase' = [phase EXCEPT ![s] = "open"]
      BY <1>3 DEF Opened, bus
    <2>2. everOpen' \in BOOLEAN
      BY <1>0, <1>3 DEF Opened
    <2>3. asks' \in Seq(AskType') /\ Len(asks') <= plan'.asks
      <3>1. CASE asks' = asks
        BY <1>0, <2>1, <3>1 DEF AskType
      <3>2. CASE asks' # asks
        <4>1. Len(asks) < plan.asks /\ asks' = Append(asks, Ask("load"))
          BY <1>3, <3>2 DEF Opened
        <4> QED
          BY <1>0, <2>1, <4>1, AskedType
      <3> QED
        BY <3>1, <3>2
    <2> QED
      BY <1>0, <2>1, <2>2, <2>3 DEF AskType
  <1>4. ASSUME NEW s \in Conns, Closing(s) PROVE ClientType' /\ UNCHANGED plan
    BY <1>0, <1>4 DEF Closing, bus, console, AskType
  <1>5. ASSUME NEW s \in Conns, Closed(s) PROVE ClientType' /\ UNCHANGED plan
    <2>1. /\ UNCHANGED <<plan, everOpen, due, asks, view, missed>>
          /\ phase' = [phase EXCEPT ![s] = "none"]
          /\ socket' \in {socket, None}
      BY <1>5 DEF Closed, bus, console
    <2>2. CASE socket = s
      <3>1. blocked' \in BOOLEAN
        BY <1>0, <1>5, <2>2, Zenon DEF Closed
      <3>2. timer' = ~blocked'
        BY <1>5, <2>2 DEF Closed
      <3> QED
        BY <1>0, <2>1, <3>1, <3>2 DEF AskType
    <2>3. CASE socket # s
      BY <1>0, <1>5, <2>1, <2>3 DEF Closed, AskType
    <2> QED
      BY <2>2, <2>3
  <1>6. ASSUME NEW i \in DOMAIN asks, Answer(i) PROVE ClientType' /\ UNCHANGED plan
    <2>1. UNCHANGED <<plan, client, due, view, missed>>
      BY <1>6 DEF Answer, bus
    <2>3. PICK got \in {-1} \cup (IF up THEN {published} ELSE {}) :
              asks' = [asks EXCEPT ![i] = [asks[i] EXCEPT !.got = got]]
      BY <1>6 DEF Answer
    <2>2. got \in (-1)..plan.events
      BY <1>0, <2>3
    <2>4. asks \in Seq(AskType) /\ i \in 1..Len(asks)
      BY <1>0, LenProperties DEF AskType
    <2>5. asks[i] \in AskType
      BY <2>4, ElementOfSeq
    <2>6. [asks[i] EXCEPT !.got = got] \in AskType
      BY <2>2, <2>5 DEF AskType
    <2>7. asks' \in Seq(AskType) /\ Len(asks') = Len(asks)
      BY <2>3, <2>4, <2>6, ExceptSeq
    <2> QED
      BY <1>0, <2>1, <2>7 DEF AskType, client
  <1>7. ASSUME NEW i \in DOMAIN asks, Take(i) PROVE ClientType' /\ UNCHANGED plan
    <2>1. UNCHANGED <<plan, client, due>>
      BY <1>7 DEF Take, bus
    <2>4. asks \in Seq(AskType) /\ i \in 1..Len(asks)
      BY <1>0, LenProperties DEF AskType
    <2>5. asks[i] \in AskType /\ asks[i].got # None
      BY <1>7, <2>4, ElementOfSeq DEF Take
    <2>6. asks[i].got \in (-1)..plan.events
      BY <2>5 DEF AskType
    <2>7. view' \in 0..plan.events \cup {None}
      <3>1. view' = IF asks[i].got >= 0 THEN asks[i].got
                    ELSE IF asks[i].kind = "load" THEN None ELSE view
        BY <1>7 DEF Take
      <3> QED
        BY <1>0, <2>6, <3>1
    <2>8. asks' \in Seq(AskType) /\ Len(asks') = Len(asks) - 1
      <3> DEFINE before == SubSeq(asks, 1, i - 1)
                 after == SubSeq(asks, i + 1, Len(asks))
      <3>1. asks' = Outdate(before) \o after
        BY <1>7 DEF Take
      <3>2. /\ before \in Seq(AskType) /\ Len(before) = i - 1
            /\ after \in Seq(AskType) /\ Len(after) = Len(asks) - i
        BY <2>4, CutType
      <3> HIDE DEF before, after
      <3>3. Outdate(before) \in Seq(AskType) /\ Len(Outdate(before)) = i - 1
        BY <3>2, OutdateType
      <3> DEFINE stale == Outdate(before)
      <3> HIDE DEF stale
      <3>4. stale \o after \in Seq(AskType) /\ Len(stale \o after) = Len(stale) + Len(after)
        BY <3>2, <3>3, ConcatProperties DEF stale
      <3>5. Len(asks) \in Nat
        BY <2>4, LenProperties
      <3> QED
        BY <2>4, <3>1, <3>2, <3>3, <3>4, <3>5 DEF stale
    <2>10. missed' \in BOOLEAN
      BY <1>0, <1>7, Zenon DEF Take
    <2>9. Len(asks) \in Nat /\ Len(asks) <= plan.asks
      BY <1>0, <2>4, LenProperties
    <2> QED
      BY <1>0, <2>1, <2>7, <2>8, <2>9, <2>10 DEF AskType, client
  <1> QED
    BY <1>1, <1>2, <1>3, <1>4, <1>5, <1>6, <1>7
LEMMA TypeStep == TypeOK /\ FreshIsClean /\ [Next]_vars => TypeOK'
  <1> SUFFICES ASSUME TypeOK, FreshIsClean, [Next]_vars PROVE TypeOK'
    OBVIOUS
  <1>0. BusType /\ ClientType /\ plan.events \in Nat /\ published \in 0..plan.events
    BY TypeParts, PlanType
  <1>1. ASSUME Publish \/ Stop \/ Start
               \/ \E s \in Conns : \/ Accept(s) \/ Register(s) \/ Send(s) \/ Notice(s) \/ Unanswered(s)
                                   \/ Forget(s) \/ Break(s) \/ TimeOut(s) \/ Refuse(s)
        PROVE  TypeOK'
    <2>1. UNCHANGED <<plan, client, due, view>>
      BY <1>1 DEF Publish, Stop, Start, Accept, Register, Send, Notice, Disconnect, Unanswered, Forget, Break,
         TimeOut, Refuse, bus, console
    <2>a. /\ asks' = asks \/ asks' = Outdate(asks)
          /\ missed' = missed \/ missed' = (missed \/ ~everOpen)
      BY <1>1 DEF Publish, Stop, Start, Accept, Register, Send, Notice, Disconnect, Unanswered, Forget, Break,
         TimeOut, Refuse, bus, console
    <2>b. asks' \in Seq(AskType) /\ Len(asks') = Len(asks)
      BY <1>0, <2>a, OutdateType DEF ClientType
    <2>c. missed' \in BOOLEAN
      BY <1>0, <2>a, Zenon DEF ClientType
    <2>2. BusType'
      BY <1>1, <2>1, BusTypeStep
    <2>3. ClientType'
      BY <1>0, <2>1, <2>b, <2>c DEF ClientType, client, AskType
    <2> QED
      BY <2>2, <2>3, TypeParts DEF TypeOK, BusType, ClientType, Frame, AskType
  <1>2. ASSUME \/ Retry \/ Reconnect \/ Refresh
               \/ \E s \in Conns : Opened(s) \/ Closing(s) \/ Closed(s)
               \/ \E i \in DOMAIN asks : Answer(i) \/ Take(i)
        PROVE  TypeOK'
    <2>1. UNCHANGED <<bus, sent, handled>>
      BY <1>2 DEF Retry, Reconnect, Dial, Refresh, Opened, Closing, Closed, Answer, Take
    <2>2. ClientType'
      BY <1>2, ClientTypeStep
    <2>3. link' = link \/ (socket' \in Conns /\ link' = [link EXCEPT ![socket'] = "dialing"])
      BY <1>2 DEF Retry, Reconnect, Dial, Refresh, Opened, Closing, Closed, Answer, Take
    <2>4. link' \in [Conns -> {"none", "dialing", "accepted", "refused", "closed"}]
      BY <1>0, <2>3 DEF BusType
    <2>5. BusType'
      BY <1>0, <2>1, <2>4 DEF BusType, bus, Frame
    <2> QED
      BY <2>2, <2>5 DEF TypeOK, BusType, ClientType, Frame, AskType
  <1>3. ASSUME NEW s \in Conns, Message(s) PROVE TypeOK'
    <2>1. UNCHANGED <<bus, sent, link, client, asks, view, missed>> /\ handled[s] < Len(sent[s])
          /\ handled' = [handled EXCEPT ![s] = handled[s] + 1]
      BY <1>3 DEF Message
    <2>2. handled[s] \in Nat /\ sent[s] \in Seq(Frame)
      BY <1>0 DEF BusType
    <2>3. Len(sent[s]) \in Nat
      BY <2>2, LenProperties
    <2>4. handled' \in [Conns -> Nat] /\ \A c \in Conns : handled'[c] <= Len(sent'[c])
      BY <1>0, <2>1, <2>2, <2>3 DEF BusType
    <2>5. due' \in BOOLEAN
      BY <1>3 DEF Message
    <2>6. BusType'
      BY <1>0, <2>1, <2>4 DEF BusType, bus, Frame
    <2>7. ClientType'
      BY <1>0, <2>1, <2>5 DEF ClientType, bus, client, AskType
    <2> QED
      BY <2>6, <2>7 DEF TypeOK, BusType, ClientType, Frame, AskType
  <1>4. CASE UNCHANGED vars
    <2>1. BusType' /\ ClientType'
      BY <1>0, <1>4 DEF BusType, ClientType, vars, bus, client, console, Frame, AskType
    <2> QED
      BY <2>1 DEF TypeOK, BusType, ClientType, Frame, AskType
  <1> QED
    BY <1>1, <1>2, <1>3, <1>4 DEF Next, Disturb
-----------------------------------------------------------------------------
(* What a client is due.                                                   *)

StreamParts == FreshIsClean /\ OutsideIsClean /\ Numbered /\ Ordered /\ Whole

\* Sequences of frames are sequences of numbers.
LEMMA FrameSeqs ==
    ASSUME TypeOK, NEW s \in Conns
    PROVE  /\ sent[s] \in Seq(Frame) /\ lane[s] \in Seq(Frame) /\ rest[s] \in Seq(Frame)
           /\ sent[s] \in Seq(Int) /\ lane[s] \in Seq(Int) /\ rest[s] \in Seq(Int)
           /\ base[s] \in Nat
           /\ Len(sent[s]) \in Nat /\ Len(lane[s]) \in Nat /\ Len(rest[s]) \in Nat
  <1>1. sent[s] \in Seq(Frame) /\ lane[s] \in Seq(Frame) /\ rest[s] \in Seq(Frame) /\ base[s] \in Nat
    BY PlanType DEF TypeOK, Frame
  <1>2. Frame \subseteq Int
    BY PlanType DEF Frame
  <1> QED
    BY <1>1, <1>2, SeqMonotonic, LenProperties

\* Only the step of one connection, s: what holds of the others still holds.
OthersSame(s) ==
    \A c \in Conns \ {s} : /\ sent'[c] = sent[c] /\ lane'[c] = lane[c] /\ rest'[c] = rest[c]
                           /\ base'[c] = base[c] /\ link'[c] = link[c]
                           /\ (c \in joining' <=> c \in joining) /\ (c \in clients' <=> c \in clients)

\* What is promised of one connection.
PartsOf(s) ==
    /\ Unaccepted(s) => s \notin clients \cup joining
    /\ Unaccepted(s) \/ s \in joining => sent[s] = <<>>
    /\ s \notin clients => lane[s] = <<>> /\ rest[s] = <<>>
    /\ base[s] \in 0..published
    /\ ToSet(sent[s]) \subseteq 1..published
    /\ ToSet(lane[s]) \subseteq 1..published
    /\ ToSet(rest[s]) \subseteq 1..base[s]
    /\ Rising(sent[s], base[s]) /\ Rising(lane[s], base[s]) /\ Before(sent[s], lane[s], base[s])
    /\ s \in clients =>
        /\ since <= base[s]
        /\ ToSet(sent[s]) \cup ToSet(lane[s]) \cup ToSet(rest[s]) = Oldest(base[s])..published
        /\ Len(sent[s]) + Len(lane[s]) + Len(rest[s]) = published - Oldest(base[s]) + 1

LEMMA PartsTogether ==
    ASSUME clients \subseteq Conns
    PROVE  StreamParts <=> \A s \in Conns : PartsOf(s)
  BY DEF StreamParts, PartsOf, FreshIsClean, OutsideIsClean, Numbered, Ordered, Whole

\* A step of one connection leaves the parts of the others.
LEMMA OthersKeep ==
    ASSUME NEW s \in Conns, OthersSame(s), UNCHANGED <<published, since>>,
           NEW c \in Conns, c # s, PartsOf(c)
    PROVE  PartsOf(c)'
  BY DEF OthersSame, PartsOf, Unaccepted, Oldest

LEMMA PartsInit == Init => StreamParts
  <1> SUFFICES ASSUME Init PROVE StreamParts
    OBVIOUS
  <1>1. \A s \in Conns : /\ sent[s] = <<>> /\ lane[s] = <<>> /\ rest[s] = <<>> /\ base[s] = 0
                         /\ s \notin clients /\ s \notin joining
    BY DEF Init
  <1>2. \A s \in Conns : Rising(<<>>, base[s]) /\ ToSet(<<>>) = {}
    BY RisingEmpty, EmptyElements
  <1>3. published = 0 /\ clients = {}
    BY DEF Init
  <1> QED
    BY <1>1, <1>2, <1>3 DEF StreamParts, FreshIsClean, OutsideIsClean, Numbered, Ordered, Before, Whole

\* An event is published: it is the newest, and every client will be sent it.
LEMMA PublishKeeps ==
    ASSUME TypeOK, NEW s \in Conns, PartsOf(s), Publish
    PROVE  PartsOf(s)'
  <1> DEFINE n == published + 1
  <1>1. /\ published' = n /\ UNCHANGED <<since, joining, clients, base, rest, sent, link>>
        /\ lane'[s] = IF s \in clients THEN Append(lane[s], n) ELSE lane[s]
    BY DEF Publish
  <1>2. published \in Nat /\ n \in Int /\ since \in 0..published
    BY PlanType
  <1>3. /\ lane[s] \in Seq(Int) /\ sent[s] \in Seq(Int) /\ rest[s] \in Seq(Int) /\ base[s] \in Nat
        /\ Len(sent[s]) \in Nat /\ Len(lane[s]) \in Nat /\ Len(rest[s]) \in Nat
    BY FrameSeqs
  <1>4. /\ ToSet(Append(lane[s], n)) = ToSet(lane[s]) \cup {n}
        /\ Len(Append(lane[s], n)) = Len(lane[s]) + 1
    <2> HIDE DEF n
    <2>1. ToSet(Append(lane[s], n)) = ToSet(lane[s]) \cup {n}
      BY <1>2, <1>3, AppendElements
    <2>2. Len(Append(lane[s], n)) = Len(lane[s]) + 1
      BY <1>2, <1>3, AppendProperties
    <2> QED
      BY <2>1, <2>2
  <1>5. \A x \in ToSet(sent[s]) \cup ToSet(lane[s]) : x \in Int /\ x < n
    BY <1>2 DEF PartsOf
  <1>6. Rising(Append(lane[s], n), base[s])
    BY <1>2, <1>3, <1>5, RisingAppend DEF PartsOf
  <1>7. Before(sent[s], Append(lane[s], n), base[s])
    BY <1>4, <1>5 DEF PartsOf, Before
  <1>8. ASSUME s \in clients PROVE Oldest(base[s]) \in 1..n
    <2>1. base[s] <= published /\ since \in 0..base[s]
      BY <1>2, <1>3, <1>8 DEF PartsOf
    <2>2. Oldest(base[s]) \in 1..(base[s] + 1)
      BY <1>3, <2>1, OldestRange
    <2> QED
      BY <1>2, <1>3, <2>1, <2>2
  <1>9. ASSUME s \in clients
        PROVE  /\ ToSet(sent[s]) \cup (ToSet(lane[s]) \cup {n}) \cup ToSet(rest[s]) = Oldest(base[s])..n
               /\ Len(sent[s]) + (Len(lane[s]) + 1) + Len(rest[s]) = n - Oldest(base[s]) + 1
    <2> DEFINE m == Oldest(base[s])
    <2>1. m \in 1..n
      BY <1>8, <1>9
    <2>2. /\ ToSet(sent[s]) \cup ToSet(lane[s]) \cup ToSet(rest[s]) = m..published
          /\ Len(sent[s]) + Len(lane[s]) + Len(rest[s]) = published - m + 1
      BY <1>9 DEF PartsOf
    <2> HIDE DEF m
    <2>3. m..n = (m..published) \cup {n}
      BY <1>2, <2>1
    <2>4. Len(sent[s]) + (Len(lane[s]) + 1) + Len(rest[s]) = n - m + 1
      <3> DEFINE a == Len(sent[s])
                 b == Len(lane[s])
                 c == Len(rest[s])
      <3>0. a \in Int /\ b \in Int /\ c \in Int
        BY <1>3
      <3>1. a + b + c = published - m + 1
        BY <2>2
      <3>2. m \in Int /\ published \in Int
        BY <1>2, <2>1
      <3> HIDE DEF a, b, c
      <3>3. a + (b + 1) + c = n - m + 1
        BY <3>0, <3>1, <3>2
      <3> QED
        BY <3>3 DEF a, b, c
    <2>5. ToSet(sent[s]) \cup (ToSet(lane[s]) \cup {n}) \cup ToSet(rest[s]) = m..n
      BY <2>2, <2>3
    <2> QED
      BY <2>4, <2>5 DEF m
  <1> HIDE DEF n
  <1>10. \A S : S \subseteq 1..published => S \subseteq 1..n
    BY <1>2 DEF n
  <1>11. n \in 1..n /\ base[s] \in 0..n
    BY <1>2 DEF n, PartsOf
  <1>12. CASE s \in clients
    <2>1. lane'[s] = Append(lane[s], n)
      BY <1>1, <1>12
    <2> QED
      BY <1>1, <1>4, <1>6, <1>7, <1>9, <1>10, <1>11, <1>12, <2>1 DEF PartsOf, Unaccepted, Oldest
  <1>13. CASE s \notin clients
    BY <1>1, <1>10, <1>11, <1>13 DEF PartsOf, Unaccepted
  <1> QED
    BY <1>12, <1>13
\* A registration: the history is the replay, and nothing is live yet.
LEMMA RegisterKeeps ==
    ASSUME TypeOK, NEW s \in Conns, PartsOf(s), Register(s)
    PROVE  PartsOf(s)' /\ OthersSame(s)
  <1> DEFINE first == SubSeq(Replay, 1, IF Replay = <<>> THEN 0 ELSE 1)
             others == SubSeq(Replay, 2, Len(Replay))
  <1>1. /\ joining' = joining \ {s} /\ clients' = clients \cup {s}
        /\ base' = [base EXCEPT ![s] = published]
        /\ lane' = [lane EXCEPT ![s] = first] /\ rest' = [rest EXCEPT ![s] = others]
        /\ UNCHANGED <<published, since, sent, link>>
    BY DEF Register
  <1>2. /\ first \in Seq(1..published) /\ others \in Seq(1..published)
        /\ ToSet(first) \cup ToSet(others) = ToSet(Replay)
        /\ Len(first) + Len(others) = Len(Replay)
    BY ReplaySplit
  <1>3. ToSet(Replay) = Oldest(published)..published /\ Len(Replay) = published - Oldest(published) + 1
    BY ReplayIs
  <1> HIDE DEF first, others
  <1>4. /\ base'[s] = published /\ lane'[s] = first /\ rest'[s] = others
        /\ OthersSame(s)
    BY <1>1 DEF TypeOK, OthersSame
  <1>5. published \in Nat /\ since <= published
    BY PlanType
  <1>6. s \in joining /\ sent[s] = <<>> /\ ToSet(<<>>) = {} /\ ~Unaccepted(s)
    BY EmptyElements DEF Register, PartsOf
  <1>7. ToSet(first) \subseteq 1..published /\ ToSet(others) \subseteq 1..published
    BY <1>2, ElementsTyped
  <1>8. Rising(first, published)
    <2>1. \A i \in DOMAIN first : first[i] \in 1..published
      BY <1>2, <1>7, ElementsTyped
    <2> QED
      BY <1>5, <2>1 DEF Rising
  <1>9. Rising(<<>>, published) /\ Before(<<>>, first, published)
    BY <1>6, RisingEmpty DEF Before
  <1>10. Len(<<>>) + Len(first) + Len(others) = published - Oldest(published) + 1
    <2>1. Len(<<>>) = 0 /\ Len(first) \in Nat
      BY <1>2, LenProperties
    <2> QED
      BY <1>2, <1>3, <2>1
  <1>11. Oldest(published)' = Oldest(published)
    BY <1>1 DEF Oldest
  <1>12. /\ ToSet(sent'[s]) \cup ToSet(lane'[s]) \cup ToSet(rest'[s]) = Oldest(base'[s])..published
         /\ Len(sent'[s]) + Len(lane'[s]) + Len(rest'[s]) = published - Oldest(base'[s]) + 1
    BY <1>1, <1>2, <1>3, <1>4, <1>6, <1>10
  <1>13. Oldest(base[s])' = Oldest(base'[s])
    BY <1>1 DEF Oldest
  <1>14. published \in 0..published
    BY <1>5
  <1> QED
    BY <1>1, <1>4, <1>5, <1>6, <1>7, <1>8, <1>9, <1>12, <1>13, <1>14 DEF PartsOf, Unaccepted

\* The holder of the lock has sent: its frame moves on, a replayed one makes
\* room for the next of the replay.
LEMMA SendKeeps ==
    ASSUME TypeOK, NEW s \in Conns, PartsOf(s), Send(s)
    PROVE  PartsOf(s)' /\ OthersSame(s)
  <1> DEFINE head == Head(lane[s])
             replayed == head <= base[s] /\ rest[s] # <<>>
             lane2 == IF replayed THEN Append(Tail(lane[s]), Head(rest[s])) ELSE Tail(lane[s])
             rest2 == IF replayed THEN Tail(rest[s]) ELSE rest[s]
             sent2 == Append(sent[s], head)
  <1>1. /\ lane[s] # <<>> /\ link[s] = "accepted"
        /\ sent' = [sent EXCEPT ![s] = sent2]
        /\ lane' = [lane EXCEPT ![s] = lane2]
        /\ rest' = [rest EXCEPT ![s] = rest2]
        /\ UNCHANGED <<published, since, joining, clients, base, link>>
    BY DEF Send
  <1>2. /\ lane[s] \in Seq(Int) /\ sent[s] \in Seq(Int) /\ rest[s] \in Seq(Int) /\ base[s] \in Nat
        /\ Len(sent[s]) \in Nat /\ Len(lane[s]) \in Nat /\ Len(rest[s]) \in Nat
    BY FrameSeqs
  <1>3. /\ head \in Int /\ Tail(lane[s]) \in Seq(Int) /\ Len(Tail(lane[s])) = Len(lane[s]) - 1
        /\ ToSet(lane[s]) = {head} \cup ToSet(Tail(lane[s]))
        /\ ToSet(sent2) = ToSet(sent[s]) \cup {head} /\ Len(sent2) = Len(sent[s]) + 1
    BY <1>1, <1>2, MoveHead
  <1>5. Rising(sent2, base[s]) /\ Rising(Tail(lane[s]), base[s]) /\ Before(sent2, Tail(lane[s]), base[s])
    BY <1>1, <1>2, OrderSend DEF PartsOf
  <1>6. ASSUME rest[s] # <<>>
        PROVE  /\ Head(rest[s]) \in Int /\ Tail(rest[s]) \in Seq(Int) /\ Len(Tail(rest[s])) = Len(rest[s]) - 1
               /\ ToSet(rest[s]) = {Head(rest[s])} \cup ToSet(Tail(rest[s]))
               /\ ToSet(Append(Tail(lane[s]), Head(rest[s]))) = ToSet(Tail(lane[s])) \cup {Head(rest[s])}
               /\ Len(Append(Tail(lane[s]), Head(rest[s]))) = Len(lane[s])
               /\ Head(rest[s]) <= base[s]
    <2>1. /\ Head(rest[s]) \in Int /\ Tail(rest[s]) \in Seq(Int) /\ Len(Tail(rest[s])) = Len(rest[s]) - 1
          /\ ToSet(rest[s]) = {Head(rest[s])} \cup ToSet(Tail(rest[s]))
          /\ ToSet(Append(Tail(lane[s]), Head(rest[s]))) = ToSet(Tail(lane[s])) \cup {Head(rest[s])}
          /\ Len(Append(Tail(lane[s]), Head(rest[s]))) = Len(Tail(lane[s])) + 1
      BY <1>2, <1>3, <1>6, MoveHead
    <2>2. Len(Tail(lane[s])) + 1 = Len(lane[s])
      BY <1>2, <1>3
    <2>3. Head(rest[s]) \in 1..base[s]
      BY <2>1 DEF PartsOf
    <2> QED
      BY <1>2, <2>1, <2>2, <2>3
  <1>7. /\ Rising(lane2, base[s]) /\ Before(sent2, lane2, base[s])
        /\ ToSet(lane2) \cup ToSet(rest2) = ToSet(Tail(lane[s])) \cup ToSet(rest[s])
        /\ ToSet(rest2) \subseteq ToSet(rest[s])
        /\ ToSet(lane2) \subseteq ToSet(lane[s]) \cup ToSet(rest[s])
        /\ Len(lane2) + Len(rest2) = Len(lane[s]) - 1 + Len(rest[s])
    <2>1. CASE replayed
      <3>1. lane2 = Append(Tail(lane[s]), Head(rest[s])) /\ rest2 = Tail(rest[s]) /\ rest[s] # <<>>
        BY <2>1
      <3>2. Rising(lane2, base[s])
        <4>1. \A x \in ToSet(Tail(lane[s])) : x > base[s] /\ Head(rest[s]) > base[s] => x < Head(rest[s])
          BY <1>2, <1>6, <3>1
        <4>2. Tail(lane[s]) \in Seq(Int) /\ Head(rest[s]) \in Int /\ base[s] \in Int /\ Rising(Tail(lane[s]), base[s])
          BY <1>2, <1>3, <1>5, <1>6, <3>1
        <4> QED
          BY <3>1, <4>1, <4>2, RisingAppend
      <3>3. Before(sent2, lane2, base[s])
        BY <1>2, <1>5, <1>6, <3>1 DEF Before
      <3> HIDE DEF lane2, rest2, sent2, replayed
      <3>4. Len(lane2) + Len(rest2) = Len(lane[s]) - 1 + Len(rest[s])
        <4>1. Len(lane2) = Len(lane[s]) /\ Len(rest2) = Len(rest[s]) - 1 /\ Len(lane[s]) \in Int /\ Len(rest[s]) \in Int
          BY <1>2, <1>6, <3>1
        <4> QED
          BY <4>1
      <3>5. /\ ToSet(lane2) = ToSet(Tail(lane[s])) \cup {Head(rest[s])}
            /\ ToSet(rest[s]) = {Head(rest[s])} \cup ToSet(rest2)
            /\ ToSet(Tail(lane[s])) \subseteq ToSet(lane[s])
        BY <1>3, <1>6, <3>1
      <3> QED
        BY <3>2, <3>3, <3>4, <3>5
    <2>2. CASE ~replayed
      <3>1. lane2 = Tail(lane[s]) /\ rest2 = rest[s]
        BY <2>2
      <3> HIDE DEF lane2, rest2, sent2, replayed
      <3> QED
        BY <1>2, <1>3, <1>5, <3>1
    <2> QED
      BY <2>1, <2>2
  <1> HIDE DEF lane2, rest2, sent2, replayed
  <1>8. lane'[s] = lane2 /\ rest'[s] = rest2 /\ sent'[s] = sent2 /\ base'[s] = base[s] /\ OthersSame(s)
    BY <1>1 DEF TypeOK, OthersSame
  <1>9. s \in clients
    BY <1>1 DEF PartsOf
  <1>10. /\ ToSet(sent2) \cup ToSet(lane2) \cup ToSet(rest2) = ToSet(sent[s]) \cup ToSet(lane[s]) \cup ToSet(rest[s])
         /\ Len(sent2) + Len(lane2) + Len(rest2) = Len(sent[s]) + Len(lane[s]) + Len(rest[s])
    <2>1. ToSet(sent2) \cup ToSet(lane2) \cup ToSet(rest2) = ToSet(sent[s]) \cup ToSet(lane[s]) \cup ToSet(rest[s])
      BY <1>3, <1>7
    <2>2. lane2 \in Seq(Int) /\ rest2 \in Seq(Int)
      <3>1. rest[s] # <<>> => Append(Tail(lane[s]), Head(rest[s])) \in Seq(Int) /\ Tail(rest[s]) \in Seq(Int)
        BY <1>2, <1>3, MoveHead
      <3> QED
        BY <1>2, <1>3, <3>1 DEF lane2, rest2, replayed
    <2>3. Len(lane2) \in Int /\ Len(rest2) \in Int
      BY <2>2, LenProperties
    <2> DEFINE a == Len(sent[s])
               b == Len(lane[s])
               c == Len(rest[s])
               d == Len(lane2)
               e == Len(rest2)
    <2>4. a \in Int /\ b \in Int /\ c \in Int /\ d \in Int /\ e \in Int
      BY <1>2, <2>3
    <2>8. d + e = b - 1 + c
      BY <1>7
    <2> HIDE DEF a, b, c, d, e
    <2>5. (a + 1) + d + e = a + b + c
      BY <2>4, <2>8
    <2>6. Len(sent2) = a + 1
      BY <1>3 DEF a
    <2>7. Len(sent2) + Len(lane2) + Len(rest2) = Len(sent[s]) + Len(lane[s]) + Len(rest[s])
      BY <2>5, <2>6 DEF a, b, c, d, e
    <2> QED
      BY <2>1, <2>7
  <1>11. Oldest(base[s])' = Oldest(base[s])
    BY <1>1, <1>8 DEF Oldest
  <1>12. /\ ToSet(sent2) \subseteq 1..published /\ ToSet(lane2) \subseteq 1..published
         /\ ToSet(rest2) \subseteq 1..base[s]
    BY <1>2, <1>3, <1>7, PlanType DEF PartsOf
  <1>13. ~Unaccepted(s) /\ s \notin joining
    BY <1>1, <1>9 DEF Unaccepted, TypeOK
  <1> QED
    BY <1>1, <1>5, <1>7, <1>8, <1>9, <1>10, <1>11, <1>12, <1>13 DEF PartsOf, Unaccepted
\* A client that is dropped has nothing waiting; one frame may still go out.
LEMMA DisconnectKeeps ==
    ASSUME TypeOK, NEW s \in Conns, PartsOf(s), Disconnect(s), s \in clients,
           \/ sent' = sent
           \/ /\ lane[s] # <<>>
              /\ sent' = [sent EXCEPT ![s] = Append(sent[s], Head(lane[s]))]
    PROVE  PartsOf(s)' /\ OthersSame(s)
  <1>1. /\ clients' = clients \ {s}
        /\ lane' = [lane EXCEPT ![s] = <<>>] /\ rest' = [rest EXCEPT ![s] = <<>>]
        /\ link' = [link EXCEPT ![s] = "closed"]
        /\ UNCHANGED <<published, since, joining, base>>
    BY DEF Disconnect
  <1>2. /\ lane'[s] = <<>> /\ rest'[s] = <<>> /\ base'[s] = base[s] /\ link'[s] = "closed"
        /\ OthersSame(s)
    BY <1>1 DEF TypeOK, OthersSame
  <1>3. /\ lane[s] \in Seq(Int) /\ sent[s] \in Seq(Int) /\ base[s] \in Nat
    BY FrameSeqs
  <1>4. ToSet(sent'[s]) \subseteq 1..published /\ Rising(sent'[s], base[s])
    <2>1. CASE sent' = sent
      BY <2>1 DEF PartsOf
    <2>2. CASE lane[s] # <<>> /\ sent' = [sent EXCEPT ![s] = Append(sent[s], Head(lane[s]))]
      <3>1. sent'[s] = Append(sent[s], Head(lane[s]))
        BY <2>2 DEF TypeOK
      <3>2. /\ ToSet(lane[s]) = {Head(lane[s])} \cup ToSet(Tail(lane[s]))
            /\ ToSet(Append(sent[s], Head(lane[s]))) = ToSet(sent[s]) \cup {Head(lane[s])}
        BY <1>3, <2>2, MoveHead
      <3>3. Rising(Append(sent[s], Head(lane[s])), base[s])
        BY <1>3, <2>2, OrderSend DEF PartsOf
      <3> QED
        BY <3>1, <3>2, <3>3 DEF PartsOf
    <2> QED
      BY <2>1, <2>2
  <1>5. ToSet(<<>>) = {} /\ Rising(<<>>, base[s]) /\ Before(sent'[s], <<>>, base[s])
    BY EmptyElements, RisingEmpty DEF Before
  <1>6. s \notin joining
    BY DEF TypeOK
  <1> QED
    BY <1>1, <1>2, <1>4, <1>5, <1>6 DEF PartsOf, Unaccepted

\* The process is gone: there are no clients any more.
LEMMA StopKeeps ==
    ASSUME TypeOK, NEW s \in Conns, PartsOf(s), Stop
    PROVE  PartsOf(s)'
  <1>1. /\ joining' = {} /\ clients' = {}
        /\ lane'[s] = <<>> /\ rest'[s] = <<>>
        /\ link'[s] = (IF link[s] = "none" THEN "none" ELSE "closed")
        /\ UNCHANGED <<published, base, sent>>
    BY DEF Stop
  <1>2. ToSet(<<>>) = {} /\ Rising(<<>>, base[s]) /\ Before(sent[s], <<>>, base[s])
    BY EmptyElements, RisingEmpty DEF Before
  <1> QED
    BY <1>1, <1>2 DEF PartsOf, Unaccepted

\* A connection that both sides have forgotten is as it was at first.
LEMMA ForgetKeeps ==
    ASSUME TypeOK, NEW s \in Conns, PartsOf(s), Forget(s)
    PROVE  PartsOf(s)' /\ OthersSame(s)
  <1>1. /\ s \notin clients \cup joining
        /\ sent' = [sent EXCEPT ![s] = <<>>] /\ base' = [base EXCEPT ![s] = 0]
        /\ link' = [link EXCEPT ![s] = "none"]
        /\ UNCHANGED <<published, since, joining, clients, rest, lane>>
    BY DEF Forget
  <1>2. sent'[s] = <<>> /\ base'[s] = 0 /\ OthersSame(s)
    BY <1>1 DEF TypeOK, OthersSame
  <1>3. lane[s] = <<>> /\ rest[s] = <<>>
    BY <1>1 DEF PartsOf
  <1>4. ToSet(<<>>) = {} /\ Rising(<<>>, 0) /\ Before(<<>>, <<>>, 0)
    BY EmptyElements, RisingEmpty DEF Before
  <1>5. 0 \in 0..published
    BY PlanType
  <1> QED
    BY <1>1, <1>2, <1>3, <1>4, <1>5 DEF PartsOf

\* A step that only moves the handshake or the state of a connection on.
LEMMA LinkKeeps ==
    ASSUME NEW s \in Conns, PartsOf(s),
           UNCHANGED <<published, since, clients, base, rest, lane, sent>>,
           Unaccepted(s)' => Unaccepted(s),
           \/ s \in joining' <=> s \in joining
           \/ Unaccepted(s) /\ ~Unaccepted(s)'
    PROVE  PartsOf(s)'
  BY DEF PartsOf, Oldest

LEMMA PartsStep == TypeOK /\ StreamParts /\ [Next]_vars => StreamParts'
  <1> SUFFICES ASSUME TypeOK, StreamParts, [Next]_vars PROVE StreamParts'
    OBVIOUS
  <1>0. /\ \A s \in Conns : PartsOf(s)
        /\ link \in [Conns -> {"none", "dialing", "accepted", "refused", "closed"}]
    BY PartsTogether DEF TypeOK
  <1>t. clients' \subseteq Conns
    BY TypeStep DEF StreamParts, TypeOK
  <1>1. ASSUME \A c \in Conns : PartsOf(c)' PROVE StreamParts'
    BY <1>1, <1>t DEF StreamParts, PartsOf, FreshIsClean, OutsideIsClean, Numbered, Ordered, Whole
  <1>2. ASSUME NEW s \in Conns, PartsOf(s)' /\ OthersSame(s), UNCHANGED <<published, since>> PROVE StreamParts'
    <2>1. ASSUME NEW c \in Conns, c # s PROVE PartsOf(c)'
      BY <1>0, <1>2, <2>1, OthersKeep
    <2> QED
      BY <1>1, <1>2, <2>1
  <1>3. CASE Publish
    BY <1>0, <1>1, <1>3, PublishKeeps
  <1>4. ASSUME NEW s \in Conns, Register(s) PROVE StreamParts'
    BY <1>0, <1>2, <1>4, RegisterKeeps DEF Register
  <1>5. ASSUME NEW s \in Conns, Send(s) PROVE StreamParts'
    BY <1>0, <1>2, <1>5, SendKeeps DEF Send
  <1>6. ASSUME NEW s \in Conns, Notice(s) \/ TimeOut(s) PROVE StreamParts'
    <2>1. Disconnect(s) /\ s \in clients
      BY <1>6 DEF Notice, TimeOut
    <2>2. \/ sent' = sent
          \/ /\ lane[s] # <<>>
             /\ sent' = [sent EXCEPT ![s] = Append(sent[s], Head(lane[s]))]
      BY <1>6 DEF Notice, TimeOut
    <2>3. UNCHANGED <<published, since>>
      BY <2>1 DEF Disconnect
    <2> QED
      BY <1>0, <1>2, <2>1, <2>2, <2>3, DisconnectKeeps
  <1>7. CASE Stop
    BY <1>0, <1>1, <1>7, StopKeeps
  <1>8. ASSUME NEW s \in Conns, Forget(s) PROVE StreamParts'
    BY <1>0, <1>2, <1>8, ForgetKeeps DEF Forget
  <1>9. ASSUME NEW s \in Conns, Accept(s) PROVE StreamParts'
    <2>1. UNCHANGED <<published, since, clients, base, rest, lane, sent>>
      BY <1>9 DEF Accept
    <2>2. /\ link[s] = "dialing" /\ link' = [link EXCEPT ![s] = "accepted"] /\ joining' = joining \cup {s}
      BY <1>9 DEF Accept
    <2>3. ASSUME NEW c \in Conns PROVE PartsOf(c)'
      <3>1. CASE c = s
        <4>1. Unaccepted(c) /\ ~Unaccepted(c)'
          BY <1>0, <2>2, <3>1 DEF Unaccepted
        <4> QED
          BY <1>0, <2>1, <4>1, LinkKeeps
      <3>2. CASE c # s
        <4>1. (Unaccepted(c)' => Unaccepted(c)) /\ (c \in joining' <=> c \in joining)
          BY <1>0, <2>2, <3>2 DEF Unaccepted
        <4> QED
          BY <1>0, <2>1, <4>1, LinkKeeps
      <3> QED
        BY <3>1, <3>2
    <2> QED
      BY <1>1, <2>3
  <1>10. ASSUME UNCHANGED <<published, since, joining, clients, base, rest, lane, sent>>,
                \A c \in Conns : Unaccepted(c)' => Unaccepted(c)
         PROVE  StreamParts'
    <2>1. ASSUME NEW c \in Conns PROVE PartsOf(c)'
      BY <1>0, <1>10, LinkKeeps
    <2> QED
      BY <1>1, <2>1
  <1>11. ASSUME NEW s \in Conns, Refuse(s) \/ Break(s) \/ Unanswered(s) PROVE StreamParts'
    <2>1. UNCHANGED <<published, since, joining, clients, base, rest, lane, sent>>
      BY <1>11 DEF Refuse, Break, Unanswered, bus
    <2>2. \A c \in Conns : Unaccepted(c)' => Unaccepted(c)
      BY <1>0, <1>11 DEF Refuse, Break, Unanswered, Unaccepted
    <2> QED
      BY <1>10, <2>1, <2>2
  <1>12. CASE Retry \/ Reconnect
    <2>1. UNCHANGED <<published, since, joining, clients, base, rest, lane, sent>>
      BY <1>12 DEF Retry, Reconnect, Dial, bus
    <2>2. socket' \in Conns /\ link[socket'] = "none" /\ link' = [link EXCEPT ![socket'] = "dialing"]
      BY <1>12 DEF Retry, Reconnect, Dial
    <2>3. \A c \in Conns : Unaccepted(c)' => Unaccepted(c)
      BY <1>0, <2>2 DEF Unaccepted
    <2> QED
      BY <1>10, <2>1, <2>3
  <1>13. ASSUME UNCHANGED <<published, since, joining, clients, base, rest, lane, sent, link>> PROVE StreamParts'
    BY <1>10, <1>13 DEF Unaccepted
  <1>14. CASE Start
    BY <1>13, <1>14 DEF Start
  <1>15. ASSUME NEW s \in Conns, Opened(s) \/ Message(s) \/ Closing(s) \/ Closed(s) PROVE StreamParts'
    BY <1>13, <1>15 DEF Opened, Message, Closing, Closed, bus
  <1>16. CASE Refresh \/ \E i \in DOMAIN asks : Answer(i) \/ Take(i)
    BY <1>13, <1>16 DEF Refresh, Answer, Take, bus
  <1>17. CASE UNCHANGED vars
    BY <1>13, <1>17 DEF vars, bus
  <1> QED
    BY <1>3, <1>4, <1>5, <1>6, <1>7, <1>8, <1>9, <1>11, <1>12, <1>14, <1>15, <1>16, <1>17 DEF Next, Disturb

LEMMA StreamStep == StreamInv /\ [Next]_vars => StreamInv'
  BY TypeStep, PartsStep DEF StreamInv, StreamParts

LEMMA StreamInit == Init => StreamInv
  BY TypeInit, PartsInit DEF StreamInv, StreamParts

-----------------------------------------------------------------------------
(* The theorems.                                                           *)

\* Every variable of the server, the network and the client keeps its type: a
\* client is never among those that join, and no more frames have arrived on a
\* connection than were sent.
THEOREM TypesHold == Spec => []TypeOK
  <1>1. StreamInv => TypeOK
    BY DEF StreamInv
  <1> QED
    BY <1>1, StreamInit, StreamStep, PTL DEF Spec

\* A client is sent what was replayed and what was published since its
\* registration, each event once and none left out, whatever breaks, is slow or
\* restarts: connect() adds it and reads the history in one go.
THEOREM NothingLostNorTwice == Spec => []EachOnce
  <1>1. StreamInv => EachOnce
    <2> SUFFICES ASSUME StreamInv, NEW s \in clients
                 PROVE  LET all == sent[s] \o lane[s] \o rest[s] IN
                        /\ ToSet(all) = Oldest(base[s])..published
                        /\ Len(all) = Cardinality(ToSet(all))
      BY DEF EachOnce
    <2> DEFINE all == sent[s] \o lane[s] \o rest[s]
    <2>1. TypeOK /\ s \in Conns
      BY DEF StreamInv, TypeOK
    <2>2. /\ since <= base[s] /\ base[s] \in 0..published
          /\ ToSet(sent[s]) \cup ToSet(lane[s]) \cup ToSet(rest[s]) = Oldest(base[s])..published
          /\ Len(sent[s]) + Len(lane[s]) + Len(rest[s]) = published - Oldest(base[s]) + 1
      BY <2>1 DEF StreamInv, Whole, Numbered
    <2>3. sent[s] \in Seq(Int) /\ lane[s] \in Seq(Int) /\ rest[s] \in Seq(Int)
      BY <2>1, FrameSeqs
    <2>4. /\ sent[s] \o lane[s] \in Seq(Int)
          /\ Len(sent[s] \o lane[s]) = Len(sent[s]) + Len(lane[s])
          /\ ToSet(sent[s] \o lane[s]) = ToSet(sent[s]) \cup ToSet(lane[s])
      BY <2>3, ConcatProperties, ConcatElements
    <2>5. /\ Len(all) = Len(sent[s] \o lane[s]) + Len(rest[s])
          /\ ToSet(all) = ToSet(sent[s] \o lane[s]) \cup ToSet(rest[s])
      <3> DEFINE front == sent[s] \o lane[s]
      <3>1. front \in Seq(Int) /\ rest[s] \in Seq(Int)
        BY <2>3, <2>4
      <3> HIDE DEF front
      <3>2. Len(front \o rest[s]) = Len(front) + Len(rest[s])
        BY <3>1, ConcatProperties
      <3>3. ToSet(front \o rest[s]) = ToSet(front) \cup ToSet(rest[s])
        BY <3>1, ConcatElements
      <3> QED
        BY <3>2, <3>3 DEF front
    <2>6. ToSet(all) = Oldest(base[s])..published /\ Len(all) = published - Oldest(base[s]) + 1
      BY <2>2, <2>4, <2>5
    <2>7. published \in Nat /\ Oldest(base[s]) \in 1..(published + 1)
      <3>1. published \in Nat /\ since \in Nat
        BY <2>1, PlanType
      <3>2. base[s] \in Nat /\ since \in 0..base[s]
        BY <2>2, <3>1
      <3>3. Oldest(base[s]) \in 1..(base[s] + 1)
        BY <3>2, OldestRange
      <3> QED
        BY <2>2, <3>1, <3>2, <3>3
    <2>8. Cardinality(Oldest(base[s])..published) = published - Oldest(base[s]) + 1
      <3> DEFINE a == Oldest(base[s])
      <3>1. a \in Int /\ published \in Int /\ a <= published + 1
        BY <2>7
      <3> HIDE DEF a
      <3>2. Cardinality(a..published) = IF a > published THEN 0 ELSE published - a + 1
        BY <3>1, FS_Interval
      <3>3. Cardinality(a..published) = published - a + 1
        BY <3>1, <3>2
      <3> QED
        BY <3>3 DEF a
    <2> QED
      BY <2>6, <2>8
  <1> QED
    BY <1>1, StreamInit, StreamStep, PTL DEF Spec

\* What is published after its registration reaches a client in the order of its
\* publication: the replay queues for the lock one event at a time, and every
\* send takes its place behind those that wait.
THEOREM LiveOrderKept == Spec => []LiveInOrder
  <1>1. StreamInv => LiveInOrder
    BY DEF StreamInv, Ordered, Rising, LiveInOrder
  <1> QED
    BY <1>1, StreamInit, StreamStep, PTL DEF Spec
=============================================================================
