--------------------------- MODULE Timelines_proofs ---------------------------
(***************************************************************************)
(* Proofs about TimelinePush, and about MCTimelines, where it runs beside  *)
(* PmsTimeline: for any number of controllers and addresses, any limits of *)
(* the two lists and any number of requests and changes.                   *)
(*                                                                         *)
(* PushTypeOK is not inductive: that a count of failures stays below three *)
(* rests on how the counts of one registration relate (DropInv).  What an  *)
(* endpoint is told of its command ids rests on an order between the       *)
(* controller table, the list of subscribers, the copy the push thread     *)
(* works through and what was posted (CommandInv).                         *)
(***************************************************************************)
EXTENDS MCTimelines, PmsTimeline_proofs

\* Every failure counted on a subscriber but one was of a post to its own
\* registration; while the post of an earlier one is under way, every one.
Earned(s) == s.own <= s.failures /\ s.failures <= s.own + 1
Restarted(s) == push.pc = "posting" /\ push.stale /\ Head(push.batch).id = s.id
DropInv ==
    /\ \A i \in 1..Len(subscribers) :
         /\ Earned(subscribers[i])
         /\ Restarted(subscribers[i]) => subscribers[i].failures = subscribers[i].own
    /\ spared >= 2

PushInv == PushTypeOK /\ DropInv

-----------------------------------------------------------------------------
(* Lists.                                                                  *)

\* Every entry of p is an entry of q, and two of p are two of q.
From(p, q) ==
    \E f \in [1..Len(p) -> 1..Len(q)] :
      /\ \A i, j \in 1..Len(p) : f[i] = f[j] => i = j
      /\ \A i \in 1..Len(p) : p[i] = q[f[i]]

(* A function on 1..n is a list of length n. *)
LEMMA ListOf ==
    ASSUME NEW S, NEW n \in Nat, NEW p \in [1..n -> S]
    PROVE  p \in Seq(S) /\ Len(p) = n
OBVIOUS

(* A list is drawn from itself. *)
LEMMA FromSelf ==
    ASSUME NEW S, NEW q \in Seq(S)
    PROVE  From(q, q)
<1> DEFINE f == [i \in 1..Len(q) |-> i]
<1>1. f \in [1..Len(q) -> 1..Len(q)]
  OBVIOUS
<1> QED
  BY <1>1 DEF From

(* What is drawn from a list of different ids has different ids. *)
LEMMA FromDistinct ==
    ASSUME NEW p, NEW q, From(p, q), Distinct(q)
    PROVE  Distinct(p)
BY DEF From, Distinct

(* What is drawn from a list has only entries of that list. *)
LEMMA FromEntries ==
    ASSUME NEW p, NEW q, From(p, q), NEW i \in 1..Len(p)
    PROVE  \E j \in 1..Len(q) : p[i] = q[j]
BY DEF From

(* The list without its oldest entry. *)
LEMMA FromTail ==
    ASSUME NEW S, NEW q \in Seq(S), q # <<>>
    PROVE  /\ From(Tail(q), q)
           /\ Tail(q) \in Seq(S) /\ Len(Tail(q)) = Len(q) - 1 /\ Len(q) \in Nat \ {0}
<1>1. /\ Tail(q) \in Seq(S) /\ Len(Tail(q)) = Len(q) - 1
      /\ \A i \in 1..Len(Tail(q)) : Tail(q)[i] = q[i + 1]
  BY HeadTailProperties
<1>2. Len(q) \in Nat \ {0}
  BY EmptySeq
<1> DEFINE f == [i \in 1..Len(Tail(q)) |-> i + 1]
<1>3. f \in [1..Len(Tail(q)) -> 1..Len(q)]
  BY <1>1, <1>2
<1>4. \A i, j \in 1..Len(Tail(q)) : f[i] = f[j] => i = j
  BY <1>1, <1>2
<1>5. \A i \in 1..Len(Tail(q)) : Tail(q)[i] = q[f[i]]
  BY <1>1
<1> HIDE DEF f
<1>6. From(Tail(q), q)
  BY <1>3, <1>4, <1>5 DEF From
<1> QED
  BY <1>1, <1>2, <1>6

(* The list without its i-th entry. *)
LEMMA FromRemoveAt ==
    ASSUME NEW S, NEW q \in Seq(S), NEW i \in 1..Len(q)
    PROVE  /\ From(RemoveAt(q, i), q)
           /\ RemoveAt(q, i) \in Seq(S) /\ Len(RemoveAt(q, i)) = Len(q) - 1
           /\ Len(q) \in Nat \ {0}
<1>1. RemoveAt(q, i) = Without(q, i)
  BY DEF RemoveAt, Without
<1>2. /\ Without(q, i) \in Seq(S) /\ Len(Without(q, i)) = Len(q) - 1
      /\ \A j \in 1..(Len(q) - 1) : Without(q, i)[j] = q[IF j < i THEN j ELSE j + 1]
  BY WithoutOne
<1>3. Len(q) \in Nat \ {0}
  BY LenProperties
<1> DEFINE f == [j \in 1..(Len(q) - 1) |-> IF j < i THEN j ELSE j + 1]
<1>4. f \in [1..(Len(q) - 1) -> 1..Len(q)]
  BY <1>3
<1>5. \A j, k \in 1..(Len(q) - 1) : f[j] = f[k] => j = k
  BY <1>3
<1>6. \A j \in 1..(Len(q) - 1) : Without(q, i)[j] = q[f[j]]
  BY <1>2
<1> HIDE DEF f
<1>7. From(Without(q, i), q)
  BY <1>2, <1>4, <1>5, <1>6 DEF From
<1> QED
  BY <1>1, <1>2, <1>3, <1>7

(* The entries of a set of places, in their order. *)
LEMMA FromPlaces ==
    ASSUME NEW S, NEW q \in Seq(S), NEW kept \in SUBSET (1..Len(q)),
           NEW f \in [1..Cardinality(kept) -> kept],
           \A i, j \in DOMAIN f : i < j => f[i] < f[j],
           NEW p, p = [i \in DOMAIN f |-> q[f[i]]]
    PROVE  From(p, q) /\ p \in Seq(S) /\ Len(p) \in Nat /\ Len(p) <= Len(q)
<1>1. Len(q) \in Nat /\ \A i \in 1..Len(q) : q[i] \in S
  BY LenProperties, ElementOfSeq
<1>2. Cardinality(kept) \in Nat /\ Cardinality(kept) <= Len(q)
  <2>1. IsFiniteSet(1..Len(q)) /\ Cardinality(1..Len(q)) = IF 1 > Len(q) THEN 0 ELSE Len(q) - 1 + 1
    BY <1>1, FS_Interval
  <2>2. Cardinality(1..Len(q)) = Len(q)
    BY <1>1, <2>1
  <2>3. IsFiniteSet(kept) /\ Cardinality(kept) <= Cardinality(1..Len(q))
    BY <2>1, FS_Subset
  <2>4. Cardinality(kept) \in Nat
    BY <2>3, FS_CardinalityType
  <2> QED
    BY <2>2, <2>3, <2>4
<1> DEFINE n == Cardinality(kept)
<1> HIDE DEF n
<1>3. DOMAIN f = 1..n /\ f \in [1..n -> 1..Len(q)]
  BY DEF n
<1>4. p \in Seq(S) /\ Len(p) = n
  <2>1. n \in Nat
    BY <1>2 DEF n
  <2>2. p = [i \in 1..n |-> q[f[i]]] /\ \A i \in 1..n : q[f[i]] \in S
    BY <1>1, <1>3
  <2>3. p \in [1..n -> S]
    BY <2>2
  <2> QED
    BY <2>1, <2>3, ListOf
<1>5. \A i, j \in 1..n : f[i] = f[j] => i = j
  <2> SUFFICES ASSUME NEW i \in 1..n, NEW j \in 1..n, f[i] = f[j], i # j PROVE FALSE
    OBVIOUS
  <2>1. i < j \/ j < i
    BY <1>2 DEF n
  <2>2. f[i] \in 1..Len(q) /\ f[j] \in 1..Len(q)
    BY <1>3
  <2>3. f[i] < f[j] \/ f[j] < f[i]
    BY <1>3, <2>1
  <2> QED
    BY <1>1, <2>2, <2>3
<1>6. From(p, q)
  BY <1>3, <1>4, <1>5 DEF From
<1> QED
  BY <1>2, <1>4, <1>6 DEF n

(* A list with one entry more. *)
LEMMA OneMore ==
    ASSUME NEW S, NEW q \in Seq(S), NEW e \in S
    PROVE  /\ Append(q, e) \in Seq(S) /\ Len(Append(q, e)) = Len(q) + 1 /\ Len(q) \in Nat
           /\ \A i \in 1..Len(q) : Append(q, e)[i] = q[i]
           /\ Append(q, e)[Len(q) + 1] = e
<1>1. Len(q) \in Nat
  BY LenProperties
<1> QED
  BY <1>1, AppendProperties

-----------------------------------------------------------------------------
(* updateTimelineCommand.                                                  *)

\* A list of controllers knows each of them once.
Sole(list) ==
    \A i, j \in 1..Len(list) : IsController(list[i], list[j].id, list[j].host) => i = j

(* What is drawn from a list that knows a controller once does so too. *)
LEMMA FromSole ==
    ASSUME NEW p, NEW q, From(p, q), Sole(q)
    PROVE  Sole(p)
BY DEF From, Sole

(* The command id a request leaves its controller at is not below the one it *)
(* came with, nor below the one the table had.                               *)
LEMMA EffectiveFacts ==
    ASSUME ListsType, NEW r \in HttpRequests
    PROVE  /\ Effective(r) \in 0..MaxCommand
           /\ Effective(r) >= r.commandId
           /\ Known(r) = {} => Effective(r) = r.commandId
           /\ \A i \in Known(r) : controllers[i].commandId <= Effective(r)
           /\ \A i \in Known(r) : r.commandId = 0 => controllers[i].commandId = Effective(r)
           /\ Known(r) \subseteq 1..Len(controllers)
<1>1. r.id \in Ids \cup {NoId} /\ r.host \in Hosts /\ r.commandId \in 0..MaxCommand
  BY DEF HttpRequests
<1>2. \A i \in 1..Len(controllers) : controllers[i] \in Controllers
  BY ElementOfSeq DEF ListsType
<1>3. \A i \in 1..Len(controllers) : controllers[i].commandId \in 0..MaxCommand
  BY <1>2 DEF Controllers
<1>4. Known(r) \subseteq 1..Len(controllers)
  BY DEF Known
<1>5. CASE Known(r) = {}
  BY <1>1, <1>4, <1>5, PushAssumption DEF Effective
<1>6. CASE Known(r) # {}
  <2> DEFINE k == CHOOSE i \in Known(r) : TRUE
  <2>1. k \in Known(r)
    BY <1>6
  <2>2. Effective(r) = IF r.commandId >= controllers[k].commandId THEN r.commandId
                       ELSE controllers[k].commandId
    BY <1>6 DEF Effective, commandIsNewerOrEqual
  <2> HIDE DEF k
  <2>3. ASSUME NEW i \in Known(r) PROVE i = k
    <3>1. IsController(controllers[i], r.id, r.host) /\ IsController(controllers[k], r.id, r.host)
      BY <2>1 DEF Known
    <3>2. IsController(controllers[i], controllers[k].id, controllers[k].host)
      BY <3>1 DEF IsController
    <3> QED
      BY <1>4, <2>1, <3>2 DEF ListsType
  <2>4. controllers[k].commandId \in 0..MaxCommand
    BY <1>3, <1>4, <2>1
  <2>5. /\ Effective(r) \in 0..MaxCommand /\ Effective(r) >= r.commandId
        /\ controllers[k].commandId <= Effective(r)
        /\ r.commandId = 0 => controllers[k].commandId = Effective(r)
    BY <1>1, <2>2, <2>4, PushAssumption
  <2> QED
    BY <1>4, <1>6, <2>3, <2>5
<1> QED
  BY <1>5, <1>6

(* The controller table stays in bounds and knows each controller once. *)
LEMMA TableType ==
    ASSUME ListsType, NEW r \in HttpRequests, r.commandId # 0, updateTimelineCommand(r)
    PROVE  controllers' \in Seq(Controllers) /\ Len(controllers') <= kMaxControllers /\ Sole(controllers')
<1> DEFINE entry == [id |-> r.id, host |-> r.host, commandId |-> r.commandId]
           room == IF Len(controllers) >= kMaxControllers THEN Tail(controllers) ELSE controllers
<1>1. r.id \in Ids \cup {NoId} /\ r.host \in Hosts /\ r.commandId \in 0..MaxCommand
  BY DEF HttpRequests
<1>2. controllers \in Seq(Controllers) /\ Len(controllers) <= kMaxControllers /\ Sole(controllers)
  BY DEF ListsType, Sole
<1>3. Len(controllers) \in Nat /\ \A i \in 1..Len(controllers) : controllers[i] \in Controllers
  BY <1>2, LenProperties, ElementOfSeq
<1>4. entry \in Controllers
  BY <1>1 DEF Controllers
<1>5. CASE Known(r) # {}
  <2> DEFINE g == [i \in 1..Len(controllers) |->
                     IF i \in Known(r)
                     THEN [controllers[i] EXCEPT !.commandId = Effective(r)] ELSE controllers[i]]
  <2>1. controllers' = g
    BY <1>5 DEF updateTimelineCommand
  <2>2. ASSUME NEW i \in 1..Len(controllers)
        PROVE  g[i] \in Controllers /\ g[i].id = controllers[i].id /\ g[i].host = controllers[i].host
    BY <1>3, EffectiveFacts DEF Controllers
  <2>3. g \in [1..Len(controllers) -> Controllers]
    BY <2>2
  <2> HIDE DEF g
  <2>4. g \in Seq(Controllers) /\ Len(g) = Len(controllers)
    BY <1>3, <2>3, ListOf
  <2>5. Sole(g)
    BY <1>2, <2>2, <2>4 DEF Sole, IsController
  <2> QED
    BY <1>2, <2>1, <2>4, <2>5
<1>6. CASE Known(r) = {}
  <2>1. controllers' = Append(room, entry)
    BY <1>6 DEF updateTimelineCommand
  <2>2. /\ room \in Seq(Controllers) /\ Len(room) < kMaxControllers /\ From(room, controllers)
        /\ Len(room) \in Nat
    <3>1. CASE Len(controllers) >= kMaxControllers
      <4>1. controllers # <<>>
        BY <1>2, <3>1, PushAssumption, EmptySeq
      <4> QED
        BY <1>2, <1>3, <3>1, <4>1, FromTail, PushAssumption
    <3>2. CASE ~(Len(controllers) >= kMaxControllers)
      BY <1>2, <1>3, <3>2, FromSelf, PushAssumption
    <3> QED
      BY <3>1, <3>2
  <2> HIDE DEF room, entry
  <2>3. /\ Append(room, entry) \in Seq(Controllers) /\ Len(Append(room, entry)) = Len(room) + 1
        /\ \A i \in 1..Len(room) : Append(room, entry)[i] = room[i]
        /\ Append(room, entry)[Len(room) + 1] = entry
    BY <1>4, <2>2, OneMore
  <2>4. ASSUME NEW i \in 1..Len(room)
        PROVE  /\ ~IsController(room[i], entry.id, entry.host)
               /\ ~IsController(entry, room[i].id, room[i].host)
    <3>1. PICK j \in 1..Len(controllers) : room[i] = controllers[j]
      BY <2>2, FromEntries
    <3>2. ~IsController(controllers[j], r.id, r.host)
      BY <1>6 DEF Known
    <3> QED
      BY <3>1, <3>2 DEF IsController, entry
  <2>5. Sole(room)
    BY <1>2, <2>2, FromSole
  <2>6. Sole(Append(room, entry))
    <3> SUFFICES ASSUME NEW i \in 1..(Len(room) + 1), NEW j \in 1..(Len(room) + 1), i # j
                 PROVE  ~IsController(Append(room, entry)[i], Append(room, entry)[j].id,
                                      Append(room, entry)[j].host)
      BY <2>3 DEF Sole
    <3>1. CASE i = Len(room) + 1
      <4>1. j \in 1..Len(room)
        BY <2>2, <3>1
      <4> QED
        BY <2>3, <2>4, <3>1, <4>1
    <3>2. CASE j = Len(room) + 1
      <4>1. i \in 1..Len(room)
        BY <2>2, <3>2
      <4> QED
        BY <2>3, <2>4, <3>2, <4>1
    <3>3. CASE i # Len(room) + 1 /\ j # Len(room) + 1
      <4>1. i \in 1..Len(room) /\ j \in 1..Len(room)
        BY <2>2, <3>3
      <4> QED
        BY <2>3, <2>5, <4>1 DEF Sole
    <3> QED
      BY <3>1, <3>2, <3>3
  <2> QED
    BY <2>1, <2>2, <2>3, <2>6, PushAssumption
<1> QED
  BY <1>5, <1>6

(* A request changes nothing of a subscriber but its command id. *)
LEMMA ListUpdated ==
    ASSUME ListsType, mixed \in BOOLEAN, NEW r \in HttpRequests, updateTimelineCommand(r)
    PROVE  /\ ListsType' /\ mixed' \in BOOLEAN
           /\ Len(subscribers') = Len(subscribers)
           /\ \A i \in 1..Len(subscribers) :
                /\ subscribers'[i].id = subscribers[i].id
                /\ subscribers'[i].failures = subscribers[i].failures
                /\ subscribers'[i].own = subscribers[i].own
                /\ subscribers'[i].commandId =
                     IF r.commandId # 0 /\ IsAddressed(subscribers[i], r.id, r.host)
                     THEN Effective(r) ELSE subscribers[i].commandId
<1>1. CASE r.commandId = 0
  <2>1. UNCHANGED <<controllers, subscribers, mixed>>
    BY <1>1 DEF updateTimelineCommand
  <2> QED
    BY <1>1, <2>1 DEF ListsType, IsController, Distinct
<1>2. CASE r.commandId # 0
  <2> DEFINE g == [i \in 1..Len(subscribers) |->
                     IF IsAddressed(subscribers[i], r.id, r.host)
                     THEN [subscribers[i] EXCEPT !.commandId = Effective(r)] ELSE subscribers[i]]
  <2>1. subscribers' = g
    BY <1>2 DEF updateTimelineCommand
  <2>2. mixed' \in BOOLEAN
    BY <1>2 DEF updateTimelineCommand
  <2>3. /\ subscribers \in Seq(Subscribers) /\ Len(subscribers) <= kMaxSubscribers
        /\ Distinct(subscribers)
    BY DEF ListsType
  <2>4. Len(subscribers) \in Nat /\ \A i \in 1..Len(subscribers) : subscribers[i] \in Subscribers
    BY <2>3, LenProperties, ElementOfSeq
  <2>5. ASSUME NEW i \in 1..Len(subscribers)
        PROVE  /\ g[i] \in Subscribers
               /\ g[i].id = subscribers[i].id
               /\ g[i].failures = subscribers[i].failures
               /\ g[i].own = subscribers[i].own
               /\ g[i].commandId = IF IsAddressed(subscribers[i], r.id, r.host)
                                   THEN Effective(r) ELSE subscribers[i].commandId
    BY <2>4, EffectiveFacts DEF Subscribers
  <2>6. g \in [1..Len(subscribers) -> Subscribers]
    BY <2>5
  <2> HIDE DEF g
  <2>7. g \in Seq(Subscribers) /\ Len(g) = Len(subscribers)
    BY <2>4, <2>6, ListOf
  <2>8. Distinct(g)
    BY <2>3, <2>5, <2>7 DEF Distinct
  <2>9. ListsType'
    <3>1. controllers' \in Seq(Controllers) /\ Len(controllers') <= kMaxControllers /\ Sole(controllers')
      BY <1>2, TableType
    <3> QED
      BY <2>1, <2>3, <2>7, <2>8, <3>1 DEF ListsType, Sole, IsController
  <2> QED
    BY <1>2, <2>1, <2>2, <2>5, <2>7, <2>9
<1> QED
  BY <1>1, <1>2

-----------------------------------------------------------------------------
(* subscribeTimeline, unsubscribeTimeline and the end of a post.           *)

(* A subscriber is enrolled once, and the others are as they were. *)
LEMMA EnrolledFacts ==
    ASSUME ListsType, NEW s \in Subscribers, subscribers' = Enrolled(s), UNCHANGED controllers
    PROVE  /\ ListsType'
           /\ \A i \in 1..Len(subscribers') :
                \/ subscribers'[i] = s
                \/ \E j \in 1..Len(subscribers) : subscribers'[i] = subscribers[j] /\ subscribers[j].id # s.id
<1>1. /\ subscribers \in Seq(Subscribers) /\ Len(subscribers) <= kMaxSubscribers
      /\ Distinct(subscribers)
  BY DEF ListsType
<1>2. Len(subscribers) \in Nat /\ \A i \in 1..Len(subscribers) : subscribers[i] \in Subscribers
  BY <1>1, LenProperties, ElementOfSeq
<1>3. ASSUME subscribers' \in Seq(Subscribers), Len(subscribers') <= kMaxSubscribers,
             Distinct(subscribers')
      PROVE  ListsType'
  BY <1>3 DEF ListsType, IsController
<1>4. CASE \E i \in 1..Len(subscribers) : subscribers[i].id = s.id
  <2> DEFINE g == [i \in 1..Len(subscribers) |->
                     IF subscribers[i].id = s.id THEN s ELSE subscribers[i]]
  <2>1. subscribers' = g
    BY <1>4 DEF Enrolled
  <2>2. g \in [1..Len(subscribers) -> Subscribers]
    BY <1>2
  <2>3. g \in Seq(Subscribers) /\ Len(g) = Len(subscribers)
    BY <1>2, <2>2, ListOf
  <2>4. Distinct(g)
    BY <1>1, <2>3 DEF Distinct
  <2> QED
    BY <1>1, <1>3, <2>1, <2>3, <2>4
<1>5. CASE ~\E i \in 1..Len(subscribers) : subscribers[i].id = s.id
  <2> DEFINE room == IF Len(subscribers) >= kMaxSubscribers THEN Tail(subscribers) ELSE subscribers
  <2>1. subscribers' = Append(room, s)
    BY <1>5 DEF Enrolled
  <2>2. /\ room \in Seq(Subscribers) /\ Len(room) < kMaxSubscribers /\ From(room, subscribers)
        /\ Len(room) \in Nat
    <3>1. CASE Len(subscribers) >= kMaxSubscribers
      <4>1. subscribers # <<>>
        BY <1>1, <3>1, PushAssumption, EmptySeq
      <4> QED
        BY <1>1, <1>2, <3>1, <4>1, FromTail, PushAssumption
    <3>2. CASE ~(Len(subscribers) >= kMaxSubscribers)
      BY <1>1, <1>2, <3>2, FromSelf, PushAssumption
    <3> QED
      BY <3>1, <3>2
  <2> HIDE DEF room
  <2>3. /\ Append(room, s) \in Seq(Subscribers) /\ Len(Append(room, s)) = Len(room) + 1
        /\ \A i \in 1..Len(room) : Append(room, s)[i] = room[i]
        /\ Append(room, s)[Len(room) + 1] = s
    BY <2>2, OneMore
  <2>4. ASSUME NEW i \in 1..Len(room)
        PROVE  \E j \in 1..Len(subscribers) : room[i] = subscribers[j] /\ subscribers[j].id # s.id
    BY <1>5, <2>2, FromEntries
  <2>5. ASSUME NEW i \in 1..(Len(room) + 1)
        PROVE  i = Len(room) + 1 \/ i \in 1..Len(room)
    BY <2>2
  <2>6. Distinct(room)
    BY <1>1, <2>2, FromDistinct
  <2>7. Distinct(Append(room, s))
    <3> SUFFICES ASSUME NEW i \in 1..(Len(room) + 1), NEW j \in 1..(Len(room) + 1),
                        Append(room, s)[i].id = Append(room, s)[j].id
                 PROVE  i = j
      BY <2>3 DEF Distinct
    <3> QED
      BY <2>3, <2>4, <2>5, <2>6 DEF Distinct
  <2>8. Len(Append(room, s)) <= kMaxSubscribers
    BY <2>2, <2>3, PushAssumption
  <2>9. ListsType'
    BY <1>3, <2>1, <2>3, <2>7, <2>8
  <2> QED
    BY <2>1, <2>3, <2>4, <2>5, <2>9
<1> QED
  BY <1>4, <1>5

(* After unsubscribeTimeline every subscriber left is one there was. *)
LEMMA UnsubscribeFacts ==
    ASSUME ListsType, Unsubscribe
    PROVE  /\ ListsType'
           /\ \A i \in 1..Len(subscribers') :
                \E j \in 1..Len(subscribers) : subscribers'[i] = subscribers[j]
<1> DEFINE kept == {i \in 1..Len(subscribers) : ~IsAddressed(subscribers[i], http.id, http.host)}
<1>1. /\ subscribers \in Seq(Subscribers) /\ Len(subscribers) <= kMaxSubscribers
      /\ Distinct(subscribers)
  BY DEF ListsType
<1>2. PICK f \in [1..Cardinality(kept) -> kept] :
        /\ \A i, j \in DOMAIN f : i < j => f[i] < f[j]
        /\ subscribers' = [i \in DOMAIN f |-> subscribers[f[i]]]
  BY DEF Unsubscribe
<1>3. kept \in SUBSET (1..Len(subscribers))
  OBVIOUS
<1> HIDE DEF kept
<1>4. /\ From(subscribers', subscribers) /\ subscribers' \in Seq(Subscribers)
      /\ Len(subscribers') \in Nat /\ Len(subscribers') <= Len(subscribers)
  BY <1>1, <1>2, <1>3, FromPlaces
<1>5. Distinct(subscribers')
  BY <1>1, <1>4, FromDistinct
<1>6. Len(subscribers') <= kMaxSubscribers
  <2>1. Len(subscribers) \in Nat
    BY <1>1, LenProperties
  <2> QED
    BY <1>1, <1>4, <2>1, PushAssumption
<1>7. UNCHANGED controllers
  BY DEF Unsubscribe
<1> QED
  BY <1>4, <1>5, <1>6, <1>7, FromEntries DEF ListsType, IsController

(* A post that ended in time, or did not, leaves the counts of its subscriber *)
(* in their relation; the third failure drops it with two of its own.         *)
LEMMA CountedFacts ==
    ASSUME PushInv, push.pc = "posting", NEW ok \in BOOLEAN, NEW i \in 1..Len(subscribers),
           subscribers[i].id = Head(push.batch).id
    PROVE  LET s == Counted(subscribers[i], ok)
           IN  /\ s.id = subscribers[i].id /\ s.host = subscribers[i].host
               /\ s.commandId = subscribers[i].commandId
               /\ Earned(s) /\ s.own \in 0..3
               /\ s.failures >= 3 => s.own >= 2
               /\ ~(s.failures >= 3) => s \in Subscribers
<1>1. subscribers[i] \in Subscribers
  BY ElementOfSeq DEF PushInv, PushTypeOK, ListsType
<1>2. subscribers[i].failures \in 0..2 /\ subscribers[i].own \in 0..2
  BY <1>1 DEF Subscribers
<1>3. /\ subscribers[i].own <= subscribers[i].failures
      /\ subscribers[i].failures <= subscribers[i].own + 1
      /\ push.stale => subscribers[i].failures = subscribers[i].own
  BY DEF PushInv, DropInv, Earned, Restarted
<1>4. push.stale \in BOOLEAN
  BY DEF PushInv, PushTypeOK, PushType
<1>5. CASE ok
  <2>1. Counted(subscribers[i], ok) = [subscribers[i] EXCEPT !.failures = 0, !.own = 0]
    BY <1>5 DEF Counted
  <2>2. /\ Counted(subscribers[i], ok).failures = 0 /\ Counted(subscribers[i], ok).own = 0
        /\ Counted(subscribers[i], ok).id = subscribers[i].id
        /\ Counted(subscribers[i], ok).host = subscribers[i].host
        /\ Counted(subscribers[i], ok).commandId = subscribers[i].commandId
    BY <1>1, <2>1 DEF Subscribers
  <2>3. 0 \in 0..2 /\ 0 \in 0..3 /\ 0 <= 0 /\ 0 <= 0 + 1 /\ ~(0 >= 3)
    OBVIOUS
  <2>4. Counted(subscribers[i], ok) \in Subscribers
    BY <1>1, <2>1, <2>3 DEF Subscribers
  <2> QED
    BY <2>2, <2>3, <2>4 DEF Earned
<1>6. CASE ~ok
  <2> DEFINE f == subscribers[i].failures + 1
             o == IF push.stale THEN subscribers[i].own ELSE subscribers[i].own + 1
  <2>1. Counted(subscribers[i], ok) = [subscribers[i] EXCEPT !.failures = f, !.own = o]
    BY <1>1, <1>6 DEF Counted, Subscribers
  <2>2. f \in 0..3 /\ o \in 0..3 /\ o <= f /\ f <= o + 1 /\ (f >= 3 => o >= 2)
    BY <1>2, <1>3, <1>4
  <2>3. ~(f >= 3) => f \in 0..2 /\ o \in 0..2
    BY <2>2
  <2> HIDE DEF f, o
  <2>4. /\ Counted(subscribers[i], ok).failures = f /\ Counted(subscribers[i], ok).own = o
        /\ Counted(subscribers[i], ok).id = subscribers[i].id
        /\ Counted(subscribers[i], ok).host = subscribers[i].host
        /\ Counted(subscribers[i], ok).commandId = subscribers[i].commandId
    BY <1>1, <2>1 DEF Subscribers
  <2>5. ~(f >= 3) => Counted(subscribers[i], ok) \in Subscribers
    BY <1>1, <2>1, <2>3 DEF Subscribers
  <2> QED
    BY <2>2, <2>4, <2>5 DEF Earned
<1> QED
  BY <1>5, <1>6

(* After a post every subscriber is one there was, its counts apart. *)
LEMMA PostEndsFacts ==
    ASSUME PushInv, NEW ok \in BOOLEAN, PostEnds(ok)
    PROVE  /\ ListsType' /\ spared' \in 0..3 /\ spared' >= 2
           /\ \A i \in 1..Len(subscribers') :
                /\ Earned(subscribers'[i])
                /\ \E j \in 1..Len(subscribers) :
                     /\ subscribers'[i].id = subscribers[j].id
                     /\ subscribers'[i].commandId = subscribers[j].commandId
<1> DEFINE b == Head(push.batch)
           mine == {i \in 1..Len(subscribers) : subscribers[i].id = b.id /\ subscribers[i].host = b.host}
<1>1. /\ subscribers \in Seq(Subscribers) /\ Len(subscribers) <= kMaxSubscribers
      /\ Distinct(subscribers) /\ spared \in 0..3 /\ spared >= 2
  BY DEF PushInv, DropInv, PushTypeOK, ListsType, HistoryTypes
<1>2. Len(subscribers) \in Nat /\ \A i \in 1..Len(subscribers) : subscribers[i] \in Subscribers
  BY <1>1, LenProperties, ElementOfSeq
<1>3. \A i \in 1..Len(subscribers) : Earned(subscribers[i])
  BY DEF PushInv, DropInv
<1>4. ASSUME subscribers' \in Seq(Subscribers), Len(subscribers') <= kMaxSubscribers,
             Distinct(subscribers')
      PROVE  ListsType'
  BY <1>4 DEF PostEnds, PushInv, PushTypeOK, ListsType, IsController
<1>5. push.pc = "posting"
  BY DEF PostEnds
<1>6. CASE mine = {} /\ UNCHANGED <<subscribers, spared>>
  BY <1>1, <1>3, <1>4, <1>6
<1>7. ASSUME NEW i \in mine, Counted(subscribers[i], ok).failures >= 3,
             subscribers' = RemoveAt(subscribers, i),
             spared' = IF Counted(subscribers[i], ok).own < spared THEN Counted(subscribers[i], ok).own
                       ELSE spared
      PROVE  /\ ListsType' /\ spared' \in 0..3 /\ spared' >= 2
             /\ \A k \in 1..Len(subscribers') :
                  /\ Earned(subscribers'[k])
                  /\ \E j \in 1..Len(subscribers) :
                       /\ subscribers'[k].id = subscribers[j].id
                       /\ subscribers'[k].commandId = subscribers[j].commandId
  <2>1. i \in 1..Len(subscribers) /\ subscribers[i].id = Head(push.batch).id
    OBVIOUS
  <2>2. Counted(subscribers[i], ok).own \in 0..3 /\ Counted(subscribers[i], ok).own >= 2
    BY <1>5, <1>7, <2>1, CountedFacts
  <2>3. spared' \in 0..3 /\ spared' >= 2
    BY <1>1, <1>7, <2>2
  <2>4. /\ From(subscribers', subscribers) /\ subscribers' \in Seq(Subscribers)
        /\ Len(subscribers') = Len(subscribers) - 1
    BY <1>1, <1>7, <2>1, FromRemoveAt
  <2>5. Distinct(subscribers')
    BY <1>1, <2>4, FromDistinct
  <2>6. Len(subscribers') <= kMaxSubscribers
    BY <1>1, <1>2, <2>4, PushAssumption
  <2>7. ListsType'
    BY <1>4, <2>4, <2>5, <2>6
  <2>8. \A k \in 1..Len(subscribers') : \E j \in 1..Len(subscribers) : subscribers'[k] = subscribers[j]
    BY <2>4, FromEntries
  <2> QED
    BY <1>3, <2>3, <2>7, <2>8
<1>8. ASSUME NEW i \in mine, ~(Counted(subscribers[i], ok).failures >= 3),
             subscribers' = [subscribers EXCEPT ![i] = Counted(subscribers[i], ok)], UNCHANGED spared
      PROVE  /\ ListsType' /\ spared' \in 0..3 /\ spared' >= 2
             /\ \A k \in 1..Len(subscribers') :
                  /\ Earned(subscribers'[k])
                  /\ \E j \in 1..Len(subscribers) :
                       /\ subscribers'[k].id = subscribers[j].id
                       /\ subscribers'[k].commandId = subscribers[j].commandId
  <2> DEFINE s == Counted(subscribers[i], ok)
  <2>1. i \in 1..Len(subscribers) /\ subscribers[i].id = Head(push.batch).id
    OBVIOUS
  <2>2. s \in Subscribers /\ Earned(s) /\ s.id = subscribers[i].id /\ s.commandId = subscribers[i].commandId
    BY <1>5, <1>8, <2>1, CountedFacts
  <2>3. subscribers' = [subscribers EXCEPT ![i] = s]
    BY <1>8
  <2> HIDE DEF s
  <2>4. /\ subscribers' \in Seq(Subscribers) /\ Len(subscribers') = Len(subscribers)
        /\ \A k \in 1..Len(subscribers) : subscribers'[k] = IF k = i THEN s ELSE subscribers[k]
    BY <1>1, <2>1, <2>2, <2>3, ExceptSeq
  <2>5. Distinct(subscribers')
    BY <1>1, <2>2, <2>4 DEF Distinct
  <2>6. ListsType'
    BY <1>1, <1>4, <2>4, <2>5
  <2> QED
    BY <1>1, <1>3, <1>8, <2>1, <2>2, <2>4, <2>6
<1> QED
  BY <1>6, <1>7, <1>8 DEF PostEnds

-----------------------------------------------------------------------------
(* The push thread, the threads that call it, and the type invariant.      *)

Lists == <<subscribers, controllers>>

(* Lists that are left alone keep their shape. *)
LEMMA ListsFrame ==
    ASSUME ListsType, UNCHANGED Lists
    PROVE  ListsType'
BY DEF ListsType, Lists, Distinct, IsController

(* What counts against a subscriber changes only with the list and the post. *)
LEMMA DropFrame ==
    ASSUME DropInv, UNCHANGED <<subscribers, spared>>,
           push'.pc = "posting" => push' = push \/ push'.stale = FALSE
    PROVE  DropInv'
BY DEF DropInv, Earned, Restarted

(* requestTimelinePush sets the flags, and wakes the push thread if it waits. *)
LEMMA RequestedFacts ==
    ASSUME PushType, NEW immediate \in BOOLEAN, pushFlags \in [pending : BOOLEAN, immediate : BOOLEAN],
           requestTimelinePush(immediate)
    PROVE  /\ PushType' /\ pushFlags' \in [pending : BOOLEAN, immediate : BOOLEAN]
           /\ push'.batch = push.batch
           /\ push'.pc = "posting" => push' = push
           /\ push'.pc # "parking"
           /\ push'.pc = "waiting" => FALSE
<1>1. pushFlags' \in [pending : BOOLEAN, immediate : BOOLEAN]
  BY DEF requestTimelinePush
<1>2. CASE push.pc = "waiting"
  <2>1. push' = [push EXCEPT !.pc = "check"]
    BY <1>2 DEF requestTimelinePush
  <2> QED
    BY <1>1, <2>1 DEF PushType, Distinct
<1>3. CASE push.pc # "waiting"
  <2>1. push' = push /\ push.pc # "parking"
    BY <1>3 DEF requestTimelinePush
  <2> QED
    BY <1>1, <1>3, <2>1 DEF PushType, Distinct
<1> QED
  BY <1>2, <1>3

(* A step of the push thread that holds no copy of the list. *)
LEMMA EmptyHanded ==
    ASSUME NEW pc \in {"check", "parking", "waiting", "pace", "copy", "next", "done"},
           push' = PushAt(pc)
    PROVE  PushType' /\ push'.pc = pc /\ push'.batch = <<>>
<1>1. <<>> \in Seq(Subscribers) /\ Len(<<>>) = 0
  BY EmptySeq
<1>2. push'.pc = pc /\ push'.batch = <<>> /\ push'.stale = FALSE
  BY DEF PushAt
<1>3. Distinct(<<>>)
  BY <1>1 DEF Distinct
<1> QED
  BY <1>1, <1>2, <1>3 DEF PushType, PushAt

(* A step of a thread other than the HTTP handlers and the posts. *)
LEMMA PushFrame ==
    ASSUME PushInv, UNCHANGED <<subscribers, controllers, spared, posted, lastCommand, mixed>>,
           SessionType', PushType', HttpType', pushMissed' \in BOOLEAN,
           push'.pc = "posting" => push' = push
    PROVE  PushInv'
<1>1. ListsType'
  BY ListsFrame DEF PushInv, PushTypeOK, Lists
<1>2. HistoryTypes'
  BY DEF PushInv, PushTypeOK, HistoryTypes
<1>3. DropInv'
  BY DropFrame DEF PushInv
<1> QED
  BY <1>1, <1>2, <1>3 DEF PushInv, PushTypeOK

(* The subscriber a request names. *)
LEMMA SubscriberType ==
    ASSUME HttpType, http.pc = "subscribe"
    PROVE  /\ SubscriberOf(http) \in Subscribers
           /\ SubscriberOf(http).failures = 0 /\ SubscriberOf(http).own = 0
           /\ SubscriberOf(http).commandId = http.commandId
           /\ http.id \in Ids \cup {NoId} /\ http.host \in Hosts /\ http.commandId \in 0..MaxCommand
<1>1. http.id \in Ids \cup {NoId} /\ http.host \in Hosts /\ http.commandId \in 0..MaxCommand
  BY DEF HttpType
<1>2. 0 \in 0..2
  OBVIOUS
<1> QED
  BY <1>1, <1>2 DEF SubscriberOf, Subscribers, Endpoints

(* subscribeTimeline: a registration starts without failures, also while a *)
(* post to the endpoint's former one is under way.                         *)
LEMMA SubscribeStep ==
    ASSUME PushInv, Subscribe
    PROVE  PushInv'
<1> DEFINE s == SubscriberOf(http)
<1>1. /\ s \in Subscribers /\ s.failures = 0 /\ s.own = 0
  BY SubscriberType DEF Subscribe, PushInv, PushTypeOK
<1> HIDE DEF s
<1>2. /\ ListsType'
      /\ \A i \in 1..Len(subscribers') :
           \/ subscribers'[i] = s
           \/ \E j \in 1..Len(subscribers) : subscribers'[i] = subscribers[j] /\ subscribers[j].id # s.id
  BY <1>1, EnrolledFacts DEF Subscribe, s, PushInv, PushTypeOK
<1>3. push' = IF push.pc = "posting" /\ Head(push.batch).id = s.id THEN [push EXCEPT !.stale = TRUE]
              ELSE push
  BY DEF Subscribe, s
<1>4. PushType' /\ push'.pc = push.pc /\ push'.batch = push.batch
  BY <1>3 DEF PushInv, PushTypeOK, PushType, Distinct
<1>5. push'.stale => push.stale \/ Head(push.batch).id = s.id
  BY <1>3
<1>6. HttpType' /\ SessionType' /\ HistoryTypes'
  BY DEF Subscribe, PushInv, PushTypeOK, HttpType, SessionType, HistoryTypes, history
<1>7. DropInv'
  <2> SUFFICES ASSUME NEW i \in 1..Len(subscribers')
               PROVE  /\ Earned(subscribers'[i])
                      /\ (push'.pc = "posting" /\ push'.stale /\ Head(push'.batch).id = subscribers'[i].id
                            => subscribers'[i].failures = subscribers'[i].own)
    BY DEF DropInv, Earned, Restarted, Subscribe, history, PushInv
  <2>1. CASE subscribers'[i] = s
    <3>1. 0 <= 0 /\ 0 <= 0 + 1
      OBVIOUS
    <3> QED
      BY <1>1, <2>1, <3>1 DEF Earned
  <2>2. CASE \E j \in 1..Len(subscribers) : subscribers'[i] = subscribers[j] /\ subscribers[j].id # s.id
    BY <1>4, <1>5, <2>2 DEF PushInv, DropInv, Restarted
  <2> QED
    BY <1>2, <2>1, <2>2
<1> QED
  BY <1>2, <1>4, <1>6, <1>7 DEF PushInv, PushTypeOK

(* A request is read: the command ids change and the handler is chosen. *)
LEMMA HttpRequestStep ==
    ASSUME PushInv, NEW r \in HttpRequests, HttpRequest(r)
    PROVE  PushInv'
<1>1. /\ ListsType' /\ mixed' \in BOOLEAN
      /\ Len(subscribers') = Len(subscribers)
      /\ \A i \in 1..Len(subscribers) :
           /\ subscribers'[i].id = subscribers[i].id
           /\ subscribers'[i].failures = subscribers[i].failures
           /\ subscribers'[i].own = subscribers[i].own
  BY ListUpdated DEF HttpRequest, PushInv, PushTypeOK, HistoryTypes
<1>2. HttpType'
  <2>1. CASE r.op = "other"
    BY <2>1 DEF HttpRequest, PushInv, PushTypeOK, HttpType
  <2>2. CASE r.op # "other"
    <3>1. r.op \in {"subscribe", "unsubscribe"} /\ r.id \in Ids \cup {NoId} /\ r.host \in Hosts
      BY <2>2 DEF HttpRequests
    <3>2. Effective(r) \in 0..MaxCommand
      BY EffectiveFacts DEF PushInv, PushTypeOK
    <3>3. http' = [pc |-> r.op, id |-> r.id, host |-> r.host, commandId |-> Effective(r)]
      BY <2>2 DEF HttpRequest
    <3> QED
      BY <3>1, <3>2, <3>3 DEF HttpType
  <2> QED
    BY <2>1, <2>2
<1>3. requests' \in 0..MaxRequests
  BY PushAssumption DEF HttpRequest, PushInv, PushTypeOK, SessionType
<1>4. SessionType' /\ PushType' /\ HistoryTypes'
  BY <1>1, <1>3 DEF HttpRequest, PushInv, PushTypeOK, SessionType, PushType, HistoryTypes, Distinct
<1>5. DropInv'
  BY <1>1 DEF HttpRequest, PushInv, DropInv, Earned, Restarted
<1> QED
  BY <1>1, <1>2, <1>4, <1>5 DEF PushInv, PushTypeOK

(* unsubscribeTimeline. *)
LEMMA UnsubscribeStep ==
    ASSUME PushInv, Unsubscribe
    PROVE  PushInv'
<1>1. /\ ListsType'
      /\ \A i \in 1..Len(subscribers') :
           \E j \in 1..Len(subscribers) : subscribers'[i] = subscribers[j]
  BY UnsubscribeFacts DEF PushInv, PushTypeOK
<1>2. SessionType' /\ HttpType' /\ PushType' /\ HistoryTypes'
  BY DEF Unsubscribe, PushInv, PushTypeOK, SessionType, HttpType, PushType, HistoryTypes, history,
         Distinct
<1>3. spared' = spared /\ push' = push
  BY DEF Unsubscribe, history
<1>4. DropInv'
  BY <1>1, <1>3 DEF PushInv, DropInv, Earned, Restarted
<1> QED
  BY <1>1, <1>2, <1>4 DEF PushInv, PushTypeOK

(* The push thread copies the list, and posts to one entry of the copy. *)
LEMMA PostStep ==
    ASSUME PushInv, PushCopy \/ PostBegins \/ \E ok \in BOOLEAN : PostEnds(ok)
    PROVE  PushInv'
<1>1. /\ PushType /\ ListsType /\ HistoryTypes /\ SessionType /\ HttpType
  BY DEF PushInv, PushTypeOK
<1>2. CASE PushCopy
  <2>1. push' = [pc |-> "next", batch |-> subscribers, stale |-> FALSE]
    BY <1>2 DEF PushCopy
  <2>2. PushType'
    BY <1>1, <2>1 DEF PushType, ListsType, Distinct
  <2>3. SessionType' /\ HttpType' /\ pushMissed' \in BOOLEAN
    BY <1>1, <1>2 DEF PushCopy, SessionType, HttpType, HistoryTypes, history
  <2> QED
    BY <1>2, <2>1, <2>2, <2>3, PushFrame DEF PushCopy, history
<1>3. CASE PostBegins
  <2>1. push' = [pc |-> "posting", batch |-> push.batch, stale |-> FALSE] /\ push.batch # <<>>
    BY <1>3 DEF PostBegins
  <2>2. PushType'
    BY <1>1, <2>1 DEF PushType, Distinct
  <2>3. Head(push.batch) \in Subscribers
    BY <1>1, <2>1, HeadTailProperties DEF PushType
  <2>4. Head(push.batch).id \in Endpoints /\ Head(push.batch).commandId \in 0..MaxCommand
    BY <2>3 DEF Subscribers
  <2>5. version \in -1..MaxChanges
    BY <1>1 DEF SessionType
  <2>6. HistoryTypes'
    BY <1>1, <1>3, <2>4, <2>5 DEF PostBegins, HistoryTypes
  <2>7. SessionType' /\ HttpType' /\ UNCHANGED Lists
    BY <1>1, <1>3 DEF PostBegins, SessionType, HttpType, Lists
  <2>8. ListsType'
    BY <1>1, <2>7, ListsFrame
  <2>9. DropInv'
    BY <1>3, <2>1, DropFrame DEF PushInv, PostBegins
  <2> QED
    BY <2>2, <2>6, <2>7, <2>8, <2>9 DEF PushInv, PushTypeOK
<1>4. ASSUME NEW ok \in BOOLEAN, PostEnds(ok)
      PROVE  PushInv'
  <2>1. /\ ListsType' /\ spared' \in 0..3 /\ spared' >= 2
        /\ \A i \in 1..Len(subscribers') : Earned(subscribers'[i])
    BY <1>4, PostEndsFacts
  <2>2. push' = [pc |-> "next", batch |-> Tail(push.batch), stale |-> FALSE] /\ push.batch # <<>>
    BY <1>1, <1>4 DEF PostEnds, PushType
  <2>3. From(Tail(push.batch), push.batch) /\ Tail(push.batch) \in Seq(Subscribers)
    BY <1>1, <2>2, FromTail DEF PushType
  <2>4. Distinct(Tail(push.batch))
    BY <1>1, <2>3, FromDistinct DEF PushType
  <2>5. PushType'
    BY <2>2, <2>3, <2>4 DEF PushType
  <2>6. SessionType' /\ HttpType' /\ HistoryTypes'
    BY <1>1, <1>4, <2>1 DEF PostEnds, SessionType, HttpType, HistoryTypes
  <2>7. push'.pc # "posting"
    BY <2>2
  <2>8. DropInv'
    BY <2>1, <2>7 DEF DropInv, Earned, Restarted
  <2> QED
    BY <2>1, <2>5, <2>6, <2>8 DEF PushInv, PushTypeOK
<1> QED
  BY <1>2, <1>3, <1>4

(* Every step of the daemon's push keeps the shape of its state and the *)
(* relation of the failure counts.                                      *)
LEMMA PushStep ==
    ASSUME PushInv, [PushNext]_pushVars
    PROVE  PushInv'
<1>1. /\ PushType /\ ListsType /\ HistoryTypes /\ SessionType /\ HttpType
  BY DEF PushInv, PushTypeOK
<1>2. ASSUME NEW immediate \in BOOLEAN, SessionChanges(immediate)
      PROVE  PushInv'
  <2>1. version' \in 0..MaxChanges
    BY <1>1, <1>2, PushAssumption DEF SessionChanges, SessionType
  <2>2. SessionType'
    BY <1>1, <1>2, <2>1 DEF SessionChanges, SessionType
  <2>3. PushType' /\ HttpType' /\ pushMissed' \in BOOLEAN
    BY <1>1, <1>2 DEF SessionChanges, PushType, Distinct, HttpType, HistoryTypes, history
  <2> QED
    BY <1>2, <2>2, <2>3, PushFrame DEF SessionChanges, history
<1>3. CASE SessionPushes
  <2>1. /\ PushType' /\ pushFlags' \in [pending : BOOLEAN, immediate : BOOLEAN]
        /\ push'.pc = "posting" => push' = push
    BY <1>1, <1>3, RequestedFacts DEF SessionPushes, SessionType
  <2>2. SessionType' /\ HttpType' /\ pushMissed' \in BOOLEAN
    BY <1>1, <1>3, <2>1 DEF SessionPushes, SessionType, HttpType, HistoryTypes, history
  <2> QED
    BY <1>3, <2>1, <2>2, PushFrame DEF SessionPushes, history
<1>4. ASSUME NEW r \in HttpRequests, HttpRequest(r)
      PROVE  PushInv'
  BY <1>4, HttpRequestStep
<1>5. CASE Subscribe
  BY <1>5, SubscribeStep
<1>6. CASE SubscribePushes
  <2>1. /\ PushType' /\ pushFlags' \in [pending : BOOLEAN, immediate : BOOLEAN]
        /\ push'.pc = "posting" => push' = push
    BY <1>1, <1>6, RequestedFacts DEF SubscribePushes, SessionType
  <2>2. SessionType' /\ HttpType' /\ pushMissed' \in BOOLEAN
    BY <1>1, <1>6, <2>1 DEF SubscribePushes, SessionType, HttpType, HistoryTypes, history
  <2> QED
    BY <1>6, <2>1, <2>2, PushFrame DEF SubscribePushes, history
<1>7. CASE Unsubscribe
  BY <1>7, UnsubscribeStep
<1>8. CASE HttpEnds \/ StopClears \/ StopJoined \/ SecondPasses
  <2>1. SessionType' /\ PushType' /\ HttpType' /\ pushMissed' \in BOOLEAN
    <3>1. UNCHANGED <<version, requests, pushFlags, player, push, pushMissed>>
      BY <1>8 DEF HttpEnds, StopClears, StopJoined, SecondPasses, history
    <3>2. periodic' = periodic \/ periodic' = TRUE
      BY <1>8 DEF HttpEnds, StopClears, StopJoined, SecondPasses
    <3>3. ending' = ending \/ ending' \in {"cleared", "returned"}
      BY <1>8 DEF HttpEnds, StopClears, StopJoined, SecondPasses
    <3>4. http' = http \/ http' = [pc |-> "done"]
      BY <1>8 DEF HttpEnds, StopClears, StopJoined, SecondPasses
    <3>5. PushType' /\ pushMissed' \in BOOLEAN
      BY <1>1, <3>1 DEF PushType, Distinct, HistoryTypes
    <3>6. HttpType'
      BY <1>1, <3>4 DEF HttpType
    <3>7. periodic' \in BOOLEAN /\ ending' \in {"no", "cleared", "notified", "returned"}
      BY <1>1, <3>2, <3>3 DEF SessionType
    <3>8. SessionType'
      BY <1>1, <3>1, <3>7 DEF SessionType
    <3> QED
      BY <3>5, <3>6, <3>8
  <2>2. push' = push /\ UNCHANGED <<subscribers, controllers, spared, posted, lastCommand, mixed>>
    BY <1>8 DEF HttpEnds, StopClears, StopJoined, SecondPasses, history
  <2> QED
    BY <2>1, <2>2, PushFrame
<1>9. CASE PushCheck \/ PushPark \/ PushPaced \/ PushStopped \/ RoundEnds
  <2>1. \E pc \in {"check", "parking", "waiting", "pace", "copy", "next", "done"} : push' = PushAt(pc)
    BY <1>9 DEF PushCheck, PushPark, PushPaced, PushStopped, RoundEnds
  <2>2. PushType' /\ push'.pc # "posting"
    BY <2>1, EmptyHanded
  <2>3. UNCHANGED <<http, version, requests, player, ending, history, subscribers, controllers>>
    BY <1>9 DEF PushCheck, PushPark, PushPaced, PushStopped, RoundEnds
  <2>4. pushFlags' \in [pending : BOOLEAN, immediate : BOOLEAN] /\ periodic' \in BOOLEAN
    <3>1. pushFlags' = pushFlags \/ pushFlags' = [pending |-> FALSE, immediate |-> FALSE]
      BY <1>9 DEF PushCheck, PushPark, PushPaced, PushStopped, RoundEnds
    <3>2. periodic' = periodic \/ periodic' = FALSE
      BY <1>9 DEF PushCheck, PushPark, PushPaced, PushStopped, RoundEnds
    <3>3. pushFlags' \in [pending : BOOLEAN, immediate : BOOLEAN]
      <4>1. [pending |-> FALSE, immediate |-> FALSE] \in [pending : BOOLEAN, immediate : BOOLEAN]
        OBVIOUS
      <4>2. pushFlags \in [pending : BOOLEAN, immediate : BOOLEAN]
        BY <1>1 DEF SessionType
      <4> QED
        BY <3>1, <4>1, <4>2
    <3>4. periodic' \in BOOLEAN
      BY <1>1, <3>2 DEF SessionType
    <3> QED
      BY <3>3, <3>4
  <2>5. SessionType' /\ HttpType' /\ pushMissed' \in BOOLEAN
    BY <1>1, <2>3, <2>4 DEF SessionType, HttpType, HistoryTypes, history
  <2> QED
    BY <2>2, <2>3, <2>5, PushFrame DEF history
<1>10. CASE PushCopy \/ PostBegins \/ \E ok \in BOOLEAN : PostEnds(ok)
  BY <1>10, PostStep
<1>11. CASE StopNotifies
  <2>1. PushType' /\ (push'.pc = "posting" => push' = push)
    <3>1. CASE push.pc = "waiting"
      BY <1>11, <3>1, EmptyHanded DEF StopNotifies
    <3>2. CASE push.pc # "waiting"
      BY <1>1, <1>11, <3>2 DEF StopNotifies, PushType, Distinct
    <3> QED
      BY <3>1, <3>2
  <2>2. SessionType' /\ HttpType' /\ pushMissed' \in BOOLEAN
    BY <1>1, <1>11 DEF StopNotifies, SessionType, HttpType, HistoryTypes
  <2> QED
    BY <1>11, <2>1, <2>2, PushFrame DEF StopNotifies
<1>12. CASE UNCHANGED pushVars
  <2>1. SessionType' /\ PushType' /\ HttpType' /\ pushMissed' \in BOOLEAN
    BY <1>1, <1>12 DEF pushVars, SessionType, PushType, Distinct, HttpType, HistoryTypes
  <2> QED
    BY <1>12, <2>1, PushFrame DEF pushVars
<1> QED
  BY <1>2, <1>3, <1>4, <1>5, <1>6, <1>7, <1>8, <1>9, <1>10, <1>11, <1>12 DEF PushNext

(* The push starts with empty lists. *)
LEMMA PushInitInv == PushInit => PushInv
<1> SUFFICES ASSUME PushInit PROVE PushInv
  OBVIOUS
<1>1. <<>> \in Seq(Subscribers) /\ <<>> \in Seq(Controllers) /\ Len(<<>>) = 0
  BY EmptySeq
<1>2. /\ 0 \in 0..MaxChanges /\ 0 \in 0..MaxRequests /\ 0 \in 0..MaxCommand /\ -1 \in -1..MaxChanges
      /\ 3 \in 0..3 /\ 3 >= 2 /\ 0 <= kMaxSubscribers /\ 0 <= kMaxControllers
      /\ \A i \in 1..0 : FALSE
  BY PushAssumption
<1>3. SessionType /\ HttpType /\ HistoryTypes
  BY <1>2 DEF PushInit, SessionType, HttpType, HistoryTypes
<1>4. ListsType
  BY <1>1, <1>2 DEF PushInit, ListsType, Distinct
<1>5. PushType
  BY <1>1, <1>2 DEF PushInit, PushType, Distinct
<1>6. DropInv
  BY <1>1, <1>2 DEF PushInit, DropInv
<1> QED
  BY <1>3, <1>4, <1>5, <1>6 DEF PushInv, PushTypeOK

\* The push without its fairness: what safety rests on.
PushSafety == PushInit /\ [][PushNext]_pushVars

(* The shape of the push's state and the relation of the failure counts hold *)
(* in every reachable state.                                                 *)
LEMMA PushInvariant == PushSafety => []PushInv
<1>1. PushInit => PushInv
  BY PushInitInv
<1>2. PushInv /\ [PushNext]_pushVars => PushInv'
  BY PushStep
<1> QED
  BY <1>1, <1>2, PTL DEF PushSafety

(* timelinePushLoop drops a subscriber that failed three times in a row only *)
(* if at least two of the failures were of posts to that registration: a     *)
(* controller that subscribes anew while a post to its former registration   *)
(* is timing out is never dropped for that one and fewer than two of its own.*)
THEOREM DroppedOnItsOwn == PushSpec => []DropEarned
<1>1. PushInv => DropEarned
  BY DEF PushInv, DropInv, DropEarned
<1> QED
  BY <1>1, PushInvariant, PTL DEF PushSpec, PushSafety

-----------------------------------------------------------------------------
(* The order of command ids.                                               *)

\* v is no newer than what the controller table has of endpoint e.
Held(e, v) == v = 0 \/ \E c \in 1..Len(controllers) :
                          controllers[c].id = e /\ v <= controllers[c].commandId

\* An entry of the list, or of the copy, is between what its endpoint was posted
\* and what the table has of it.
Between(s) == Held(s.id, s.commandId) /\ lastCommand[s.id] <= s.commandId

TableNamed == \A c \in 1..Len(controllers) : controllers[c].id # NoId
PostedHeld == \A e \in Endpoints : Held(e, lastCommand[e])
ListBetween == \A i \in 1..Len(subscribers) : Between(subscribers[i])
CopyBetween == \A j \in 1..Len(push.batch) : Between(push.batch[j])
CopyBehind ==
    \A j \in 1..Len(push.batch) : \A i \in 1..Len(subscribers) :
      subscribers[i].id = push.batch[j].id => push.batch[j].commandId <= subscribers[i].commandId
RequestNewest ==
    http.pc = "subscribe" =>
      /\ Held(SubscriberOf(http).id, http.commandId)
      /\ \A c \in 1..Len(controllers) :
           controllers[c].id = SubscriberOf(http).id => controllers[c].commandId <= http.commandId

CommandInv ==
    ~mixed => /\ TableNamed /\ PostedHeld /\ ListBetween /\ CopyBetween /\ CopyBehind
              /\ RequestNewest

(* Numbers of the lists. *)
LEMMA CommandTypes ==
    ASSUME PushTypeOK
    PROVE  /\ Len(controllers) \in Nat /\ Len(subscribers) \in Nat /\ Len(push.batch) \in Nat
           /\ \A c \in 1..Len(controllers) :
                controllers[c].commandId \in Nat /\ controllers[c].id \in Ids \cup {NoId}
           /\ \A i \in 1..Len(subscribers) :
                subscribers[i].commandId \in Nat /\ subscribers[i].id \in Endpoints
           /\ \A j \in 1..Len(push.batch) :
                push.batch[j].commandId \in Nat /\ push.batch[j].id \in Endpoints
           /\ \A e \in Endpoints : lastCommand[e] \in Nat
<1>1. /\ controllers \in Seq(Controllers) /\ subscribers \in Seq(Subscribers)
      /\ push.batch \in Seq(Subscribers)
  BY DEF PushTypeOK, ListsType, PushType
<1>2. /\ Len(controllers) \in Nat /\ Len(subscribers) \in Nat /\ Len(push.batch) \in Nat
      /\ \A c \in 1..Len(controllers) : controllers[c] \in Controllers
      /\ \A i \in 1..Len(subscribers) : subscribers[i] \in Subscribers
      /\ \A j \in 1..Len(push.batch) : push.batch[j] \in Subscribers
  BY <1>1, LenProperties, ElementOfSeq
<1>3. 0..MaxCommand \subseteq Nat
  OBVIOUS
<1>4. \A s \in Subscribers : s.commandId \in Nat /\ s.id \in Endpoints
  BY <1>3 DEF Subscribers
<1>5. \A c \in Controllers : c.commandId \in Nat /\ c.id \in Ids \cup {NoId}
  BY <1>3 DEF Controllers
<1>6. \A e \in Endpoints : lastCommand[e] \in Nat
  BY <1>3 DEF PushTypeOK, HistoryTypes
<1> QED
  BY <1>2, <1>4, <1>5, <1>6

(* A step that adds no command id to the lists, the table or the posts. *)
LEMMA CommandFrame ==
    ASSUME CommandInv, UNCHANGED <<controllers, lastCommand, mixed>>,
           \A i \in 1..Len(subscribers') : \E j \in 1..Len(subscribers) :
             subscribers'[i].id = subscribers[j].id
             /\ subscribers'[i].commandId = subscribers[j].commandId,
           \A i \in 1..Len(push'.batch) : \E j \in 1..Len(push.batch) : push'.batch[i] = push.batch[j],
           http' = http \/ http'.pc # "subscribe"
    PROVE  CommandInv'
<1> SUFFICES ASSUME ~mixed
             PROVE  (/\ TableNamed /\ PostedHeld /\ ListBetween /\ CopyBetween /\ CopyBehind
                     /\ RequestNewest)'
  BY DEF CommandInv
<1>1. TableNamed /\ PostedHeld /\ ListBetween /\ CopyBetween /\ CopyBehind /\ RequestNewest
  BY DEF CommandInv
<1>2. TableNamed' /\ PostedHeld'
  BY <1>1 DEF TableNamed, PostedHeld, Held
<1>3. ListBetween'
  <2> SUFFICES ASSUME NEW i \in 1..Len(subscribers') PROVE Between(subscribers[i])'
    BY DEF ListBetween
  <2>1. PICK j \in 1..Len(subscribers) : /\ subscribers'[i].id = subscribers[j].id
                                         /\ subscribers'[i].commandId = subscribers[j].commandId
    OBVIOUS
  <2>2. Between(subscribers[j])
    BY <1>1 DEF ListBetween
  <2> QED
    BY <2>1, <2>2 DEF Between, Held
<1>4. CopyBetween'
  <2> SUFFICES ASSUME NEW i \in 1..Len(push'.batch) PROVE Between(push.batch[i])'
    BY DEF CopyBetween
  <2>1. PICK j \in 1..Len(push.batch) : push'.batch[i] = push.batch[j]
    OBVIOUS
  <2>2. Between(push.batch[j])
    BY <1>1 DEF CopyBetween
  <2> QED
    BY <2>1, <2>2 DEF Between, Held
<1>5. CopyBehind'
  BY <1>1 DEF CopyBehind
<1>6. RequestNewest'
  BY <1>1 DEF RequestNewest, Held, SubscriberOf
<1> QED
  BY <1>2, <1>3, <1>4, <1>5, <1>6

(* A request moves its controller forward in the table, and with it every *)
(* subscriber it addresses.                                               *)
LEMMA TableForward ==
    ASSUME PushTypeOK, NEW r \in HttpRequests, r.commandId # 0, updateTimelineCommand(r), ~mixed',
           TableNamed
    PROVE  /\ r.id \in Ids /\ TableNamed'
           /\ \A e : \A v \in Nat : Held(e, v) => Held(e, v)'
           /\ \A v \in Nat : v <= Effective(r) => Held(r.id, v)'
           /\ \A c \in 1..Len(controllers') :
                controllers'[c].id = r.id => controllers'[c].commandId <= Effective(r)
           /\ \A v \in Nat : Held(r.id, v) => v <= Effective(r)
<1> DEFINE entry == [id |-> r.id, host |-> r.host, commandId |-> r.commandId]
<1>1. /\ mixed' = (mixed \/ (Known(r) = {} /\ Len(controllers) >= kMaxControllers) \/ r.id = NoId)
  BY DEF updateTimelineCommand
<1>2. r.id # NoId /\ (Known(r) = {} => ~(Len(controllers) >= kMaxControllers))
  BY <1>1
<1>3. r.id \in Ids /\ r.commandId \in Nat
  BY <1>2 DEF HttpRequests
<1>4. /\ Effective(r) \in Nat /\ Effective(r) >= r.commandId
      /\ Known(r) = {} => Effective(r) = r.commandId
      /\ \A i \in Known(r) : controllers[i].commandId <= Effective(r)
      /\ Known(r) \subseteq 1..Len(controllers)
  BY EffectiveFacts DEF PushTypeOK
<1>5. \A c \in 1..Len(controllers) : c \in Known(r) <=> controllers[c].id = r.id
  BY <1>2 DEF Known, IsController
<1>6. \A v \in Nat : Held(r.id, v) => v <= Effective(r)
  <2> SUFFICES ASSUME NEW v \in Nat, Held(r.id, v) PROVE v <= Effective(r)
    OBVIOUS
  <2>1. CASE v = 0
    BY <1>4, <2>1
  <2>2. CASE \E c \in 1..Len(controllers) : controllers[c].id = r.id /\ v <= controllers[c].commandId
    <3>1. PICK c \in 1..Len(controllers) : controllers[c].id = r.id /\ v <= controllers[c].commandId
      BY <2>2
    <3>2. controllers[c].commandId \in Nat /\ controllers[c].commandId <= Effective(r)
      BY <1>4, <1>5, <3>1, CommandTypes
    <3> QED
      BY <1>4, <3>1, <3>2
  <2> QED
    BY <2>1, <2>2 DEF Held
<1>7. CASE Known(r) # {}
  <2> DEFINE g == [i \in 1..Len(controllers) |->
                     IF i \in Known(r)
                     THEN [controllers[i] EXCEPT !.commandId = Effective(r)] ELSE controllers[i]]
  <2>1. controllers' = g
    BY <1>7 DEF updateTimelineCommand
  <2>2. /\ controllers \in Seq(Controllers) /\ Len(controllers) \in Nat
        /\ \A c \in 1..Len(controllers) : controllers[c] \in Controllers
    BY LenProperties, ElementOfSeq DEF PushTypeOK, ListsType
  <2>3. ASSUME NEW c \in 1..Len(controllers)
        PROVE  /\ g[c] \in Controllers /\ g[c].id = controllers[c].id
               /\ g[c].commandId = IF c \in Known(r) THEN Effective(r) ELSE controllers[c].commandId
    BY <2>2, EffectiveFacts DEF Controllers, PushTypeOK
  <2>4. g \in [1..Len(controllers) -> Controllers]
    BY <2>3
  <2> HIDE DEF g
  <2>5. Len(controllers') = Len(controllers)
    BY <2>1, <2>2, <2>4, ListOf
  <2>6. ASSUME NEW c \in 1..Len(controllers)
        PROVE  controllers'[c].id = controllers[c].id /\ controllers[c].commandId <= controllers'[c].commandId
    BY <1>4, <2>1, <2>3, CommandTypes
  <2>7. TableNamed'
    BY <2>5, <2>6 DEF TableNamed
  <2>8. ASSUME NEW e, NEW v \in Nat, Held(e, v)
        PROVE  Held(e, v)'
    <3>1. CASE v = 0
      BY <3>1 DEF Held
    <3>2. ASSUME NEW c \in 1..Len(controllers), controllers[c].id = e, v <= controllers[c].commandId
          PROVE  Held(e, v)'
      <4>1. controllers[c].commandId \in Nat /\ controllers'[c].commandId \in Nat
        BY <1>4, <2>1, <2>3, CommandTypes
      <4>2. v <= controllers'[c].commandId /\ controllers'[c].id = e
        BY <2>6, <3>2, <4>1
      <4> QED
        BY <2>5, <4>2 DEF Held
    <3> QED
      BY <2>8, <3>1, <3>2 DEF Held
  <2>9. ASSUME NEW v \in Nat, v <= Effective(r) PROVE Held(r.id, v)'
    <3>1. PICK c \in Known(r) : TRUE
      BY <1>7
    <3>2. c \in 1..Len(controllers) /\ controllers'[c].commandId = Effective(r) /\ controllers'[c].id = r.id
      BY <1>4, <1>5, <2>1, <2>3
    <3> QED
      BY <2>5, <2>9, <3>2 DEF Held
  <2>10. ASSUME NEW c \in 1..Len(controllers'), controllers'[c].id = r.id
         PROVE  controllers'[c].commandId <= Effective(r)
    BY <1>4, <1>5, <2>1, <2>3, <2>5, <2>10
  <2> QED
    BY <1>3, <1>6, <2>7, <2>8, <2>9, <2>10
<1>8. CASE Known(r) = {}
  <2>1. controllers' = Append(controllers, entry)
    BY <1>2, <1>8 DEF updateTimelineCommand
  <2>2. entry \in Controllers
    BY DEF HttpRequests, Controllers
  <2>3. entry.id = r.id /\ entry.commandId = r.commandId
    OBVIOUS
  <2> HIDE DEF entry
  <2>4. /\ Len(controllers') = Len(controllers) + 1 /\ Len(controllers) \in Nat
        /\ \A i \in 1..Len(controllers) : controllers'[i] = controllers[i]
        /\ controllers'[Len(controllers) + 1] = entry
    BY <2>1, <2>2, OneMore DEF PushTypeOK, ListsType
  <2>5. ASSUME NEW c \in 1..Len(controllers')
        PROVE  c \in 1..Len(controllers) \/ c = Len(controllers) + 1
    BY <2>4
  <2>6. 1..Len(controllers) \subseteq 1..Len(controllers') /\ Len(controllers) + 1 \in 1..Len(controllers')
    BY <2>4
  <2>7. TableNamed'
    BY <1>2, <2>3, <2>4, <2>5 DEF TableNamed
  <2>8. ASSUME NEW e, NEW v \in Nat, Held(e, v)
        PROVE  Held(e, v)'
    BY <2>4, <2>6, <2>8 DEF Held
  <2>9. ASSUME NEW v \in Nat, v <= Effective(r) PROVE Held(r.id, v)'
    <3>1. v <= entry.commandId
      BY <1>4, <1>8, <2>3, <2>9
    <3> QED
      BY <2>3, <2>4, <2>6, <3>1 DEF Held
  <2>10. ASSUME NEW c \in 1..Len(controllers'), controllers'[c].id = r.id
         PROVE  controllers'[c].commandId <= Effective(r)
    <3>1. c = Len(controllers) + 1
      BY <1>5, <1>8, <2>4, <2>5, <2>10
    <3> QED
      BY <1>3, <1>4, <1>8, <2>3, <2>4, <3>1
  <2> QED
    BY <1>3, <1>6, <2>7, <2>8, <2>9, <2>10
<1> QED
  BY <1>7, <1>8

(* The request a controller is subscribed for carries the newest command id *)
(* that the table has of it.                                                *)
LEMMA RequestIsNewest ==
    ASSUME PushTypeOK, CommandInv, NEW r \in HttpRequests, HttpRequest(r), ~mixed, ~mixed'
    PROVE  RequestNewest'
<1> SUFFICES ASSUME http'.pc = "subscribe"
             PROVE  /\ Held(SubscriberOf(http).id, http.commandId)'
                    /\ \A c \in 1..Len(controllers') :
                         controllers'[c].id = SubscriberOf(http').id
                            => controllers'[c].commandId <= http'.commandId
  BY DEF RequestNewest
<1>1. TableNamed
  BY DEF CommandInv
<1>2. http' = [pc |-> r.op, id |-> r.id, host |-> r.host, commandId |-> Effective(r)]
  BY DEF HttpRequest
<1>3. /\ http'.commandId = Effective(r)
      /\ SubscriberOf(http').id = IF r.id = NoId THEN r.host ELSE r.id
  BY <1>2 DEF SubscriberOf
<1>4. /\ Effective(r) \in Nat /\ Known(r) \subseteq 1..Len(controllers)
      /\ Known(r) = {} => Effective(r) = r.commandId
      /\ \A i \in Known(r) : r.commandId = 0 => controllers[i].commandId = Effective(r)
  BY EffectiveFacts DEF PushTypeOK
<1>5. CASE r.commandId = 0
  <2>1. controllers' = controllers
    BY <1>5 DEF HttpRequest, updateTimelineCommand
  <2>2. CASE Known(r) = {}
    <3>1. \A c \in 1..Len(controllers) : controllers[c].id # (IF r.id = NoId THEN r.host ELSE r.id)
      <4>1. CASE r.id = NoId
        <5>1. r.host \in Hosts
          BY DEF HttpRequests
        <5> QED
          BY <4>1, <5>1, CommandTypes, PushAssumption
      <4>2. CASE r.id # NoId
        BY <2>2, <4>2 DEF Known, IsController
      <4> QED
        BY <4>1, <4>2
    <3>2. http'.commandId = 0
      BY <1>3, <1>4, <1>5, <2>2
    <3> QED
      BY <1>3, <2>1, <3>1, <3>2 DEF Held
  <2>3. CASE Known(r) # {}
    <3>1. r.id # NoId
      BY <1>1, <2>3 DEF Known, IsController, TableNamed
    <3>2. \A c \in 1..Len(controllers) : c \in Known(r) <=> controllers[c].id = r.id
      BY <3>1 DEF Known, IsController
    <3>3. PICK c \in Known(r) : TRUE
      BY <2>3
    <3>4. c \in 1..Len(controllers) /\ controllers[c].id = r.id /\ controllers[c].commandId = Effective(r)
      BY <1>4, <1>5, <3>2
    <3>5. Effective(r) <= Effective(r)
      BY <1>4
    <3>6. Held(SubscriberOf(http).id, http.commandId)'
      BY <1>3, <2>1, <3>1, <3>4, <3>5 DEF Held
    <3>7. \A k \in 1..Len(controllers) : controllers[k].id = r.id => controllers[k].commandId = Effective(r)
      BY <1>4, <1>5, <3>2
    <3> QED
      BY <1>3, <2>1, <3>1, <3>5, <3>6, <3>7
  <2> QED
    BY <2>2, <2>3
<1>6. CASE r.commandId # 0
  <2>1. /\ r.id \in Ids
        /\ \A v \in Nat : v <= Effective(r) => Held(r.id, v)'
        /\ \A c \in 1..Len(controllers') :
             controllers'[c].id = r.id => controllers'[c].commandId <= Effective(r)
    BY <1>1, <1>6, TableForward DEF HttpRequest
  <2>2. r.id # NoId
    BY <2>1, PushAssumption
  <2> DEFINE E == Effective(r)
  <2>3. PICK v \in Nat : v = E
    BY <1>4
  <2>4. Held(r.id, v)' /\ v = http'.commandId
    BY <1>3, <1>4, <2>1, <2>3
  <2>5. Held(SubscriberOf(http).id, http.commandId)'
    BY <1>3, <2>2, <2>4 DEF Held
  <2> QED
    BY <1>3, <2>1, <2>2, <2>5
<1> QED
  BY <1>5, <1>6

(* A request keeps the order of the command ids. *)
LEMMA CommandRequest ==
    ASSUME PushTypeOK, CommandInv, NEW r \in HttpRequests, HttpRequest(r)
    PROVE  CommandInv'
<1> SUFFICES ASSUME ~mixed'
             PROVE  (/\ TableNamed /\ PostedHeld /\ ListBetween /\ CopyBetween /\ CopyBehind
                     /\ RequestNewest)'
  BY DEF CommandInv
<1>1. ~mixed
  BY DEF HttpRequest, updateTimelineCommand
<1>2. TableNamed /\ PostedHeld /\ ListBetween /\ CopyBetween /\ CopyBehind
  BY <1>1 DEF CommandInv
<1>3. RequestNewest'
  BY <1>1, RequestIsNewest
<1>4. UNCHANGED <<lastCommand, push>>
  BY DEF HttpRequest
<1>5. CASE r.commandId = 0
  <2>1. UNCHANGED <<controllers, subscribers>>
    BY <1>5 DEF HttpRequest, updateTimelineCommand
  <2>2. TableNamed' /\ PostedHeld'
    BY <1>2, <1>4, <2>1 DEF TableNamed, PostedHeld, Held
  <2>3. ListBetween' /\ CopyBetween' /\ CopyBehind'
    BY <1>2, <1>4, <2>1 DEF ListBetween, CopyBetween, CopyBehind, Between, Held
  <2> QED
    BY <1>3, <2>2, <2>3
<1>6. CASE r.commandId # 0
  <2>1. /\ r.id \in Ids /\ TableNamed'
        /\ \A e : \A v \in Nat : Held(e, v) => Held(e, v)'
        /\ \A v \in Nat : v <= Effective(r) => Held(r.id, v)'
        /\ \A v \in Nat : Held(r.id, v) => v <= Effective(r)
    BY <1>1, <1>2, <1>6, TableForward DEF HttpRequest
  <2>2. r.id # NoId
    BY <2>1, PushAssumption
  <2>3. Effective(r) \in Nat
    BY EffectiveFacts DEF PushTypeOK
  <2>4. /\ Len(subscribers') = Len(subscribers)
        /\ \A i \in 1..Len(subscribers) :
             /\ subscribers'[i].id = subscribers[i].id
             /\ subscribers'[i].commandId = IF subscribers[i].id = r.id THEN Effective(r)
                                            ELSE subscribers[i].commandId
    BY <1>6, <2>2, ListUpdated DEF HttpRequest, PushTypeOK, HistoryTypes, IsAddressed
  <2>5. PostedHeld'
    BY <1>2, <1>4, <2>1, CommandTypes DEF PostedHeld
  <2>6. ListBetween'
    <3> SUFFICES ASSUME NEW i \in 1..Len(subscribers) PROVE Between(subscribers[i])'
      BY <2>4 DEF ListBetween
    <3>1. subscribers[i].commandId \in Nat /\ subscribers[i].id \in Endpoints
          /\ lastCommand[subscribers[i].id] \in Nat
      BY CommandTypes
    <3>2. Between(subscribers[i])
      BY <1>2 DEF ListBetween
    <3>3. CASE subscribers[i].id = r.id
      <4>1. subscribers'[i].id = r.id /\ subscribers'[i].commandId = Effective(r)
        BY <2>4, <3>3
      <4>2. lastCommand[r.id] <= Effective(r)
        BY <1>2, <2>1, <3>1, <3>3 DEF PostedHeld
      <4>3. PICK v \in Nat : v = Effective(r)
        BY <2>3
      <4>4. Held(r.id, v)'
        BY <2>1, <2>3, <4>3
      <4> QED
        BY <1>4, <4>1, <4>2, <4>3, <4>4 DEF Between, Held
    <3>4. CASE subscribers[i].id # r.id
      <4>1. subscribers'[i].id = subscribers[i].id /\ subscribers'[i].commandId = subscribers[i].commandId
        BY <2>4, <3>4
      <4>2. PICK e, v : e = subscribers[i].id /\ v = subscribers[i].commandId
        OBVIOUS
      <4>3. Held(e, v)'
        BY <2>1, <3>1, <3>2, <4>2 DEF Between
      <4> QED
        BY <1>4, <3>2, <4>1, <4>2, <4>3 DEF Between, Held
    <3> QED
      BY <3>3, <3>4
  <2>7. CopyBetween'
    <3> SUFFICES ASSUME NEW j \in 1..Len(push.batch) PROVE Between(push.batch[j])'
      BY <1>4 DEF CopyBetween
    <3>1. Between(push.batch[j]) /\ push.batch[j].commandId \in Nat
      BY <1>2, CommandTypes DEF CopyBetween
    <3>2. PICK e, v : e = push.batch[j].id /\ v = push.batch[j].commandId
      OBVIOUS
    <3>3. Held(e, v)'
      BY <2>1, <3>1, <3>2 DEF Between
    <3> QED
      BY <1>4, <3>1, <3>2, <3>3 DEF Between, Held
  <2>8. CopyBehind'
    <3> SUFFICES ASSUME NEW j \in 1..Len(push.batch), NEW i \in 1..Len(subscribers),
                        subscribers[i].id = push.batch[j].id
                 PROVE  push.batch[j].commandId <= subscribers'[i].commandId
      BY <1>4, <2>4 DEF CopyBehind
    <3>1. Between(push.batch[j]) /\ push.batch[j].commandId \in Nat
      BY <1>2, CommandTypes DEF CopyBetween
    <3>2. CASE subscribers[i].id = r.id
      BY <2>1, <2>4, <3>1, <3>2 DEF Between
    <3>3. CASE subscribers[i].id # r.id
      BY <1>2, <2>4, <3>3 DEF CopyBehind
    <3> QED
      BY <3>2, <3>3
  <2> QED
    BY <1>3, <2>1, <2>5, <2>6, <2>7, <2>8
<1> QED
  BY <1>5, <1>6

(* A new registration is at the newest command id of its controller. *)
LEMMA CommandSubscribe ==
    ASSUME PushTypeOK, CommandInv, Subscribe
    PROVE  CommandInv'
<1> DEFINE s == SubscriberOf(http)
<1> SUFFICES ASSUME ~mixed'
             PROVE  (/\ TableNamed /\ PostedHeld /\ ListBetween /\ CopyBetween /\ CopyBehind
                     /\ RequestNewest)'
  BY DEF CommandInv
<1>1. UNCHANGED <<controllers, lastCommand, mixed>> /\ http'.pc # "subscribe" /\ push'.batch = push.batch
  BY DEF Subscribe, history, PushTypeOK, PushType
<1>2. /\ TableNamed /\ PostedHeld /\ ListBetween /\ CopyBetween /\ CopyBehind
      /\ Held(s.id, http.commandId)
      /\ \A c \in 1..Len(controllers) : controllers[c].id = s.id => controllers[c].commandId <= http.commandId
  BY <1>1 DEF CommandInv, RequestNewest, Subscribe
<1>3. s \in Subscribers /\ s.commandId = http.commandId /\ http.commandId \in Nat /\ s.id \in Endpoints
  BY SubscriberType DEF Subscribe, PushTypeOK, Subscribers
<1>4. \A i \in 1..Len(subscribers') :
        \/ subscribers'[i] = s
        \/ \E j \in 1..Len(subscribers) : subscribers'[i] = subscribers[j] /\ subscribers[j].id # s.id
  BY <1>3, EnrolledFacts DEF Subscribe, PushTypeOK
<1> HIDE DEF s
<1>5. ASSUME NEW v \in Nat, Held(s.id, v) PROVE v <= s.commandId
  <2>1. CASE v = 0
    BY <1>3, <2>1
  <2>2. ASSUME NEW c \in 1..Len(controllers), controllers[c].id = s.id, v <= controllers[c].commandId
        PROVE  v <= s.commandId
    <3>1. controllers[c].commandId \in Nat /\ controllers[c].commandId <= s.commandId
      BY <1>2, <1>3, <2>2, CommandTypes
    <3> QED
      BY <1>3, <2>2, <3>1
  <2> QED
    BY <1>5, <2>1, <2>2 DEF Held
<1>6. TableNamed' /\ PostedHeld'
  BY <1>1, <1>2 DEF TableNamed, PostedHeld, Held
<1>7. Between(s)
  <2>1. lastCommand[s.id] \in Nat /\ Held(s.id, lastCommand[s.id])
    BY <1>2, <1>3, CommandTypes DEF PostedHeld
  <2> QED
    BY <1>2, <1>3, <1>5, <2>1 DEF Between
<1>8. ListBetween'
  <2> SUFFICES ASSUME NEW i \in 1..Len(subscribers') PROVE Between(subscribers[i])'
    BY DEF ListBetween
  <2>1. Between(subscribers'[i])
    BY <1>2, <1>4, <1>7 DEF ListBetween
  <2> QED
    BY <1>1, <2>1 DEF Between, Held
<1>9. CopyBetween'
  BY <1>1, <1>2 DEF CopyBetween, Between, Held
<1>10. CopyBehind'
  <2> SUFFICES ASSUME NEW j \in 1..Len(push.batch), NEW i \in 1..Len(subscribers'),
                      subscribers'[i].id = push.batch[j].id
               PROVE  push.batch[j].commandId <= subscribers'[i].commandId
    BY <1>1 DEF CopyBehind
  <2>1. CASE subscribers'[i] = s
    <3>1. Held(push.batch[j].id, push.batch[j].commandId) /\ push.batch[j].commandId \in Nat
      BY <1>2, CommandTypes DEF CopyBetween, Between
    <3> QED
      BY <1>5, <2>1, <3>1
  <2>2. CASE \E k \in 1..Len(subscribers) : subscribers'[i] = subscribers[k]
    BY <1>2, <2>2 DEF CopyBehind
  <2> QED
    BY <1>4, <2>1, <2>2
<1>11. RequestNewest'
  BY <1>1 DEF RequestNewest
<1> QED
  BY <1>6, <1>8, <1>9, <1>10, <1>11

(* What is posted is what the copy has, and the list is no older. *)
LEMMA CommandPost ==
    ASSUME PushTypeOK, CommandInv, PostBegins
    PROVE  CommandInv' /\ (~mixed => \A e \in Endpoints : lastCommand'[e] >= lastCommand[e])
<1> DEFINE s == Head(push.batch)
<1>1. /\ push.batch # <<>> /\ push'.batch = push.batch
      /\ lastCommand' = [lastCommand EXCEPT ![s.id] = s.commandId]
      /\ UNCHANGED <<controllers, subscribers, http, mixed>>
  BY DEF PostBegins
<1>2. Len(push.batch) \in Nat \ {0} /\ s = push.batch[1]
  BY <1>1, EmptySeq, HeadTailProperties DEF PushTypeOK, PushType
<1>3. 1 \in 1..Len(push.batch)
  BY <1>2
<1>4. s.commandId \in Nat /\ s.id \in Endpoints
  BY <1>2, <1>3, CommandTypes
<1> HIDE DEF s
<1>5. \A e \in Endpoints : lastCommand'[e] = IF e = s.id THEN s.commandId ELSE lastCommand[e]
  BY <1>1 DEF PushTypeOK, HistoryTypes
<1>6. \A e \in Endpoints : lastCommand[e] >= lastCommand[e]
  BY CommandTypes
<1> SUFFICES ASSUME ~mixed
             PROVE  /\ (/\ TableNamed /\ PostedHeld /\ ListBetween /\ CopyBetween /\ CopyBehind
                        /\ RequestNewest)'
                    /\ \A e \in Endpoints : lastCommand'[e] >= lastCommand[e]
  BY <1>1 DEF CommandInv
<1>7. TableNamed /\ PostedHeld /\ ListBetween /\ CopyBetween /\ CopyBehind /\ RequestNewest
  BY DEF CommandInv
<1>8. Between(s)
  BY <1>2, <1>3, <1>7 DEF CopyBetween
<1>9. \A e \in Endpoints : lastCommand'[e] >= lastCommand[e]
  BY <1>4, <1>5, <1>6, <1>8, CommandTypes DEF Between
<1>10. TableNamed'
  BY <1>1, <1>7 DEF TableNamed
<1>11. PostedHeld'
  BY <1>1, <1>5, <1>7, <1>8 DEF PostedHeld, Between, Held
<1>12. ListBetween'
  <2> SUFFICES ASSUME NEW i \in 1..Len(subscribers) PROVE Between(subscribers[i])'
    BY <1>1 DEF ListBetween
  <2>1. /\ Between(subscribers[i]) /\ subscribers[i].id \in Endpoints
        /\ (subscribers[i].id = s.id => s.commandId <= subscribers[i].commandId)
    BY <1>2, <1>3, <1>7, CommandTypes DEF ListBetween, CopyBehind
  <2>2. lastCommand'[subscribers[i].id] <= subscribers[i].commandId
    BY <1>5, <2>1 DEF Between
  <2> QED
    BY <1>1, <2>1, <2>2 DEF Between, Held
<1>13. CopyBetween'
  <2> SUFFICES ASSUME NEW j \in 1..Len(push.batch) PROVE Between(push.batch[j])'
    BY <1>1 DEF CopyBetween
  <2>1. Between(push.batch[j]) /\ push.batch[j].id \in Endpoints /\ push.batch[j].commandId \in Nat
    BY <1>7, CommandTypes DEF CopyBetween
  <2>2. push.batch[j].id = s.id => push.batch[j] = s
    BY <1>2, <1>3 DEF PushTypeOK, PushType, Distinct
  <2>3. lastCommand'[push.batch[j].id] <= push.batch[j].commandId
    BY <1>4, <1>5, <2>1, <2>2 DEF Between
  <2> QED
    BY <1>1, <2>1, <2>3 DEF Between, Held
<1>14. CopyBehind' /\ RequestNewest'
  BY <1>1, <1>7 DEF CopyBehind, RequestNewest, Held, SubscriberOf
<1> QED
  BY <1>9, <1>10, <1>11, <1>12, <1>13, <1>14

(* The copy is the list. *)
LEMMA CommandCopy ==
    ASSUME PushTypeOK, CommandInv, PushCopy
    PROVE  CommandInv'
<1>1. /\ push'.batch = subscribers
      /\ UNCHANGED <<controllers, subscribers, http, lastCommand, mixed>>
  BY DEF PushCopy, history
<1> SUFFICES ASSUME ~mixed
             PROVE  (/\ TableNamed /\ PostedHeld /\ ListBetween /\ CopyBetween /\ CopyBehind
                     /\ RequestNewest)'
  BY <1>1 DEF CommandInv
<1>2. TableNamed /\ PostedHeld /\ ListBetween /\ RequestNewest
  BY DEF CommandInv
<1>3. TableNamed' /\ PostedHeld' /\ RequestNewest'
  BY <1>1, <1>2 DEF TableNamed, PostedHeld, RequestNewest, Held, SubscriberOf
<1>4. ListBetween' /\ CopyBetween'
  BY <1>1, <1>2 DEF ListBetween, CopyBetween, Between, Held
<1>5. CopyBehind'
  <2> SUFFICES ASSUME NEW j \in 1..Len(subscribers), NEW i \in 1..Len(subscribers),
                      subscribers[i].id = subscribers[j].id
               PROVE  subscribers[j].commandId <= subscribers[i].commandId
    BY <1>1 DEF CopyBehind
  <2>1. i = j
    BY DEF PushTypeOK, ListsType, Distinct
  <2> QED
    BY <2>1, CommandTypes
<1> QED
  BY <1>3, <1>4, <1>5

\* The command ids posted to an endpoint go forward in a step.
Forward == \A e \in Endpoints : lastCommand'[e] >= lastCommand[e] \/ mixed

(* Every step keeps the order, and posts no older command id. *)
LEMMA CommandStep ==
    ASSUME PushInv, CommandInv, [PushNext]_pushVars
    PROVE  CommandInv' /\ Forward
<1>1. PushTypeOK /\ PushType
  BY DEF PushInv, PushTypeOK
<1>2. \A e \in Endpoints : lastCommand[e] >= lastCommand[e]
  BY <1>1, CommandTypes
<1>3. ASSUME UNCHANGED lastCommand PROVE Forward
  BY <1>2, <1>3 DEF Forward
<1>4. ASSUME UNCHANGED <<subscribers, controllers, lastCommand, mixed>>,
             push'.batch = push.batch \/ push'.batch = <<>>, http' = http \/ http'.pc # "subscribe"
      PROVE  CommandInv' /\ Forward
  <2>1. \A i \in 1..Len(push'.batch) : \E j \in 1..Len(push.batch) : push'.batch[i] = push.batch[j]
    <3>1. Len(<<>>) = 0 /\ 1..0 = {}
      BY EmptySeq
    <3> QED
      BY <1>4, <3>1
  <2>2. CommandInv'
    BY <1>4, <2>1, CommandFrame
  <2> QED
    BY <1>3, <1>4, <2>2
<1>5. ASSUME NEW r \in HttpRequests, HttpRequest(r) PROVE CommandInv' /\ Forward
  BY <1>1, <1>3, <1>5, CommandRequest DEF HttpRequest
<1>6. CASE Subscribe
  BY <1>1, <1>3, <1>6, CommandSubscribe DEF Subscribe, history
<1>7. CASE Unsubscribe
  <2>1. \A i \in 1..Len(subscribers') : \E j \in 1..Len(subscribers) : subscribers'[i] = subscribers[j]
    BY <1>1, <1>7, UnsubscribeFacts DEF PushTypeOK
  <2>2. UNCHANGED <<controllers, lastCommand, mixed, push>> /\ http'.pc # "subscribe"
    BY <1>7 DEF Unsubscribe, history
  <2>3. CommandInv'
    BY <2>1, <2>2, CommandFrame
  <2> QED
    BY <1>3, <2>2, <2>3
<1>8. CASE PushCopy
  BY <1>1, <1>3, <1>8, CommandCopy DEF PushCopy, history
<1>9. CASE PostBegins
  BY <1>1, <1>9, CommandPost DEF Forward
<1>10. ASSUME NEW ok \in BOOLEAN, PostEnds(ok) PROVE CommandInv' /\ Forward
  <2>1. \A i \in 1..Len(subscribers') : \E j \in 1..Len(subscribers) :
          subscribers'[i].id = subscribers[j].id /\ subscribers'[i].commandId = subscribers[j].commandId
    BY <1>10, PostEndsFacts
  <2>2. UNCHANGED <<controllers, lastCommand, mixed, http>> /\ push'.batch = Tail(push.batch)
        /\ push.batch # <<>>
    BY <1>1, <1>10 DEF PostEnds, PushType
  <2>3. \A i \in 1..Len(push'.batch) : \E j \in 1..Len(push.batch) : push'.batch[i] = push.batch[j]
    BY <1>1, <2>2, FromTail, FromEntries DEF PushType
  <2>4. CommandInv'
    BY <2>1, <2>2, <2>3, CommandFrame
  <2> QED
    BY <1>3, <2>2, <2>4
<1>11. CASE (\E immediate \in BOOLEAN : SessionChanges(immediate)) \/ HttpEnds \/ SecondPasses
            \/ StopClears \/ StopJoined \/ UNCHANGED pushVars
  BY <1>4, <1>11 DEF SessionChanges, HttpEnds, SecondPasses, StopClears, StopJoined, history, pushVars
<1>12. CASE SessionPushes \/ SubscribePushes
  <2>1. push'.batch = push.batch
    BY <1>1, <1>12 DEF SessionPushes, SubscribePushes, requestTimelinePush, PushType
  <2>2. http' = http \/ http'.pc # "subscribe"
    <3>1. CASE SessionPushes
      BY <3>1 DEF SessionPushes
    <3>2. CASE SubscribePushes
      BY <3>2 DEF SubscribePushes
    <3> QED
      BY <1>12, <3>1, <3>2
  <2>3. UNCHANGED <<subscribers, controllers, lastCommand, mixed>>
    BY <1>12 DEF SessionPushes, SubscribePushes, history
  <2> QED
    BY <1>4, <2>1, <2>2, <2>3
<1>13. CASE PushCheck \/ PushPark \/ PushPaced \/ PushStopped \/ RoundEnds
  <2>1. push'.batch = <<>>
    BY <1>13 DEF PushCheck, PushPark, PushPaced, PushStopped, RoundEnds, PushAt
  <2> QED
    BY <1>4, <1>13, <2>1 DEF PushCheck, PushPark, PushPaced, PushStopped, RoundEnds, history
<1>14. CASE StopNotifies
  <2>1. push'.batch = push.batch \/ push'.batch = <<>>
    BY <1>14 DEF StopNotifies, PushAt
  <2> QED
    BY <1>4, <1>14, <2>1 DEF StopNotifies
<1> QED
  BY <1>5, <1>6, <1>7, <1>8, <1>9, <1>10, <1>11, <1>12, <1>13, <1>14 DEF PushNext

(* The order of the command ids holds in every reachable state. *)
LEMMA CommandInvariant == PushSafety => []CommandInv
<1>1. PushInit => CommandInv
  <2> SUFFICES ASSUME PushInit PROVE CommandInv
    OBVIOUS
  <2>1. Len(<<>>) = 0 /\ 1..0 = {}
    BY EmptySeq
  <2>2. /\ subscribers = <<>> /\ controllers = <<>> /\ push.batch = <<>> /\ http.pc = "idle"
        /\ \A e \in Endpoints : lastCommand[e] = 0
    BY DEF PushInit
  <2> QED
    BY <2>1, <2>2 DEF CommandInv, TableNamed, PostedHeld, ListBetween, CopyBetween, CopyBehind,
                      RequestNewest, Held
<1>2. PushInv /\ CommandInv /\ [PushNext]_pushVars => CommandInv'
  BY CommandStep
<1> QED
  BY <1>1, <1>2, PushInvariant, PTL DEF PushSafety

(* The command ids posted to one endpoint never go back, whatever requests    *)
(* updateTimelineCommand handles between the copy of the list and the posts   *)
(* from it, as long as the controller table had nobody to forget and every    *)
(* request with a command id carried a client identifier.                     *)
THEOREM CommandsGoForward == PushSpec => CommandForward
<1>1. PushInv /\ CommandInv /\ [PushNext]_pushVars
        => [\A e \in Endpoints : lastCommand'[e] >= lastCommand[e] \/ mixed]_pushVars
  BY CommandStep DEF Forward
<1> QED
  BY <1>1, PushInvariant, CommandInvariant, PTL DEF CommandForward, PushSpec, PushSafety

-----------------------------------------------------------------------------
(* Companion::stop, and the two reporters together.                        *)

\* A push thread that is about to wait when the notification comes has missed it.
WakeInv == push.pc \in {"parking", "waiting"} /\ ending \in {"notified", "returned"} => pushMissed

(* The loop parks only while the companion runs, and the notification wakes *)
(* whoever waits.                                                           *)
LEMMA WakeInvariant == PushSafety => []WakeInv
<1>1. PushInit => WakeInv
  BY DEF PushInit, WakeInv
<1>2. PushInv /\ WakeInv /\ [PushNext]_pushVars => WakeInv'
  <2> SUFFICES ASSUME PushInv, WakeInv, [PushNext]_pushVars PROVE WakeInv'
    OBVIOUS
  <2>1. PushType /\ SessionType
    BY DEF PushInv, PushTypeOK
  <2>2. CASE (\E immediate \in BOOLEAN : SessionChanges(immediate)) \/ HttpEnds \/ SecondPasses
             \/ StopClears \/ StopJoined \/ (\E r \in HttpRequests : HttpRequest(r)) \/ Unsubscribe
             \/ UNCHANGED pushVars
    BY <2>2 DEF SessionChanges, HttpEnds, SecondPasses, StopClears, StopJoined, HttpRequest, Unsubscribe,
                history, pushVars, WakeInv
  <2>3. CASE Subscribe
    <3>1. push'.pc = push.pc
      BY <2>1, <2>3 DEF Subscribe, PushType
    <3> QED
      BY <2>3, <3>1 DEF Subscribe, history, WakeInv
  <2>4. CASE SessionPushes \/ SubscribePushes
    <3>1. push'.pc \notin {"parking", "waiting"}
      BY <2>1, <2>4, RequestedFacts DEF SessionPushes, SubscribePushes, SessionType
    <3> QED
      BY <3>1 DEF WakeInv
  <2>5. CASE PushCheck
    BY <2>5 DEF PushCheck, PushAt, running, WakeInv
  <2>6. CASE PushPark
    BY <2>6 DEF PushPark, PushAt, history, WakeInv
  <2>7. CASE PushPaced \/ PushStopped \/ PushCopy \/ PostBegins \/ RoundEnds
             \/ \E ok \in BOOLEAN : PostEnds(ok)
    <3>1. push'.pc \notin {"parking", "waiting"}
      BY <2>7 DEF PushPaced, PushStopped, PushCopy, PostBegins, RoundEnds, PostEnds, PushAt
    <3> QED
      BY <3>1 DEF WakeInv
  <2>8. CASE StopNotifies
    BY <2>8 DEF StopNotifies, PushAt, WakeInv
  <2> QED
    BY <2>2, <2>3, <2>4, <2>5, <2>6, <2>7, <2>8 DEF PushNext
<1> QED
  BY <1>1, <1>2, PushInvariant, PTL DEF PushSafety

(* Side by side each reporter does what it does alone. *)
LEMMA ReportersApart == TimelinesSpec => Spec /\ PushSafety
<1>1. TimelinesInit => Init /\ PushInit
  BY DEF TimelinesInit
<1>2. [TimelinesNext]_timelineVars => [Next]_vars /\ [PushNext]_pushVars
  BY DEF TimelinesNext, ToServer, ToControllers, timelineVars
<1> QED
  BY <1>1, <1>2, PTL DEF TimelinesSpec, Spec, PushSafety

(* The queue of the PMS reporter keeps to kMaxQueue, the lists of the push to *)
(* kMaxSubscribers and kMaxControllers with nobody in them twice, no count of *)
(* failures reaches three, and every thread is at one of its steps.           *)
THEOREM TimelinesTypeCorrect == TimelinesSpec => []TimelinesTypeOK
<1>1. PushInv /\ TypeOK => TimelinesTypeOK
  BY DEF PushInv, TimelinesTypeOK
<1> QED
  BY <1>1, ReportersApart, TypeCorrect, PushInvariant, PTL

(* On the way out stopAndFlush joins a worker that has sent what was queued   *)
(* before it left, and Companion::stop never joins a push thread that sleeps, *)
(* except one its notification reached between the predicate and the wait.    *)
THEOREM TimelinesEndClean == TimelinesSpec => []EndsClean
<1>1. WakeInv => StopWakes
  BY DEF WakeInv, StopWakes
<1>2. FlushDrains /\ StopWakes => EndsClean
  BY DEF EndsClean
<1> QED
  BY <1>1, <1>2, ReportersApart, WorkerDrains, WakeInvariant, PTL
=============================================================================
