------------------------- MODULE PmsTimeline_proofs -------------------------
(***************************************************************************)
(* Proofs about PmsTimeline, for any number of callers, tokens, sessions   *)
(* and reports and any length of the queue.                                *)
(*                                                                         *)
(* That the server hears of the end of a session exactly once is a count   *)
(* over three places and a history.  It is not inductive: the invariant    *)
(* says instead in which ONE of them the "stopped" of a session is, and    *)
(* the count follows.                                                      *)
(***************************************************************************)
EXTENDS PmsTimeline, FiniteSetTheorems, FunctionTheorems, SequenceTheorems,
        WellFoundedInduction, TLAPS

\* Where the "stopped" of session s is not, and where it is alone.
NotHeld(s)    == \A c \in Callers : ~StopOf(s, held[c])
HeldOnce(s)   == \E c \in Callers : \A d \in Callers : StopOf(s, held[d]) <=> d = c
NotQueued(s)  == \A i \in 1..Len(queue) : ~StopOf(s, queue[i])
QueuedOnce(s) == \E i \in 1..Len(queue) : \A j \in 1..Len(queue) : StopOf(s, queue[j]) <=> j = i
InFlight(s)   == StopOf(s, flight)

Nowhere(s) == NotHeld(s) /\ NotQueued(s) /\ ~InFlight(s) /\ stopsSent[s] = 0
InOnePlace(s) ==
    \/ HeldOnce(s) /\ NotQueued(s) /\ ~InFlight(s) /\ stopsSent[s] = 0
    \/ NotHeld(s) /\ QueuedOnce(s) /\ ~InFlight(s) /\ stopsSent[s] = 0
    \/ NotHeld(s) /\ NotQueued(s) /\ InFlight(s) /\ stopsSent[s] = 0
    \/ NotHeld(s) /\ NotQueued(s) /\ ~InFlight(s) /\ stopsSent[s] = 1

Sessions == 1..MaxSessions
StopPlaces ==
    /\ \A s \in Sessions : IF s \in ended \ dropped THEN InOnePlace(s) ELSE Nowhere(s)
    /\ dropped \subseteq ended

\* A session ends once: the active one has not ended, and none of the future has.
EndsInOrder ==
    /\ ended \subseteq 1..session
    /\ active => session \in Sessions \ ended

StopInv == TypeOK /\ EndsInOrder /\ StopPlaces

-----------------------------------------------------------------------------
(* The queue.                                                              *)

(* A set of natural numbers has a least element. *)
LEMMA LeastNatural ==
    ASSUME NEW T \in SUBSET Nat, T # {}
    PROVE  \E n \in T : \A m \in T : n <= m
<1> DEFINE F == {0..n : n \in T}
<1>1. F # {} /\ F \subseteq FiniteSubsetsOf(Nat)
  <2>1. ASSUME NEW n \in T PROVE 0..n \subseteq Nat /\ IsFiniteSet(0..n)
    BY FS_Interval
  <2> QED
    BY <2>1 DEF FiniteSubsetsOf
<1>2. PICK X \in F : \A Y \in F : <<Y, X>> \notin StrictSubsetOrdering(Nat)
  <2> HIDE DEF F
  <2> QED
    BY <1>1, FS_StrictSubsetOrderingWellFounded, WFMin
<1>3. PICK n \in T : X = 0..n
  OBVIOUS
<1>4. ASSUME NEW m \in T, m < n PROVE FALSE
  <2>1. 0..m \in F /\ 0..m \subseteq 0..n /\ n \in 0..n /\ n \notin 0..m
    BY <1>4
  <2>2. <<0..m, 0..n>> \in StrictSubsetOrdering(Nat)
    BY <2>1 DEF StrictSubsetOrdering
  <2> QED
    BY <1>2, <1>3, <2>1, <2>2
<1> QED
  BY <1>4

(* A queue without its i-th request. *)
LEMMA WithoutOne ==
    ASSUME NEW S, NEW q \in Seq(S), NEW i \in 1..Len(q)
    PROVE  /\ Without(q, i) \in Seq(S) /\ Len(Without(q, i)) = Len(q) - 1
           /\ \A j \in 1..(Len(q) - 1) : Without(q, i)[j] = q[IF j < i THEN j ELSE j + 1]
<1> DEFINE a == SubSeq(q, 1, i - 1)
           b == SubSeq(q, i + 1, Len(q))
<1>1. Len(q) \in Nat /\ \A j \in 1..Len(q) : q[j] \in S
  BY LenProperties, ElementOfSeq
<1>2. a \in Seq(S) /\ Len(a) = i - 1 /\ \A j \in 1..(i - 1) : a[j] = q[j]
  BY <1>1, SubSeqProperties
<1>3. b \in Seq(S) /\ Len(b) = Len(q) - i /\ \A j \in 1..(Len(q) - i) : b[j] = q[i + j]
  BY <1>1, SubSeqProperties
<1> HIDE DEF a, b
<1>4. a \o b \in Seq(S) /\ Len(a \o b) = Len(q) - 1
  <2>1. a \o b \in Seq(S) /\ Len(a \o b) = Len(a) + Len(b)
    BY <1>2, <1>3, ConcatProperties
  <2> QED
    BY <1>1, <1>2, <1>3, <2>1
<1>5. ASSUME NEW j \in 1..(Len(q) - 1) PROVE (a \o b)[j] = q[IF j < i THEN j ELSE j + 1]
  <2>1. (a \o b)[j] = IF j <= i - 1 THEN a[j] ELSE b[j - (i - 1)]
    BY <1>1, <1>2, <1>3, ConcatProperties
  <2>2. CASE j < i
    BY <1>1, <1>2, <2>1, <2>2
  <2>3. CASE ~(j < i)
    <3>1. j - (i - 1) \in 1..(Len(q) - i) /\ i + (j - (i - 1)) = j + 1
      BY <1>1, <2>3
    <3> QED
      BY <1>1, <1>3, <2>1, <2>3, <3>1
  <2> QED
    BY <2>2, <2>3
<1> QED
  BY <1>4, <1>5 DEF Without, a, b

(* The request that makes room is in the queue, and is a "stopped" only if *)
(* they all are.                                                           *)
LEMMA RoomMade ==
    ASSUME queue \in Seq(Requests), queue # <<>>
    PROVE  /\ MakeRoom \in 1..Len(queue)
           /\ queue[MakeRoom].state = "stopped" =>
                 \A i \in 1..Len(queue) : queue[i].state = "stopped"
<1> DEFINE lesser == {i \in 1..Len(queue) : queue[i].state # "stopped"}
<1>1. Len(queue) \in Nat \ {0}
  BY EmptySeq
<1>2. CASE lesser = {}
  BY <1>1, <1>2 DEF MakeRoom
<1>3. CASE lesser # {}
  <2>1. \E i \in lesser : \A j \in lesser : i <= j
    <3>1. lesser \in SUBSET Nat
      BY <1>1
    <3> HIDE DEF lesser
    <3> QED
      BY <1>3, <3>1, LeastNatural
  <2>2. MakeRoom \in lesser
    BY <1>3, <2>1 DEF MakeRoom
  <2> QED
    BY <2>2
<1> QED
  BY <1>2, <1>3

(* What Enqueue leaves of the old queue: everything, or everything but the *)
(* k-th request, whose session is given up if it was a "stopped".          *)
Room == IF QueueFull THEN Without(queue, MakeRoom) ELSE queue
Given == IF QueueFull /\ queue[MakeRoom].state = "stopped" THEN {queue[MakeRoom].session} ELSE {}

LEMMA RoomFacts ==
    ASSUME TypeOK
    PROVE  \E k \in 1..(Len(queue) + 1) :
              /\ Room \in Seq(Requests) /\ Len(Room) \in Nat /\ Len(Room) < kMaxQueue
              /\ Len(Room) = IF k <= Len(queue) THEN Len(queue) - 1 ELSE Len(queue)
              /\ \A j \in 1..Len(Room) : Room[j] = queue[IF j < k THEN j ELSE j + 1]
              /\ Given = IF k <= Len(queue) /\ queue[k].state = "stopped"
                         THEN {queue[k].session} ELSE {}
              /\ Given # {} => /\ Len(queue) = kMaxQueue
                               /\ \A i \in 1..Len(queue) : queue[i].state = "stopped"
<1>1. queue \in Seq(Requests) /\ Len(queue) \in Nat /\ Len(queue) <= kMaxQueue /\ kMaxQueue \in Nat \ {0}
  BY QueueAssumption, LenProperties DEF TypeOK, QueueType
<1>2. CASE QueueFull
  <2>1. Len(queue) = kMaxQueue /\ queue # <<>>
    BY <1>1, <1>2, EmptySeq DEF QueueFull
  <2>2. /\ MakeRoom \in 1..Len(queue)
        /\ queue[MakeRoom].state = "stopped" =>
              \A i \in 1..Len(queue) : queue[i].state = "stopped"
    BY <1>1, <2>1, RoomMade
  <2>3. /\ Room \in Seq(Requests) /\ Len(Room) = Len(queue) - 1
        /\ \A j \in 1..(Len(queue) - 1) : Room[j] = queue[IF j < MakeRoom THEN j ELSE j + 1]
    BY <1>1, <1>2, <2>2, WithoutOne DEF Room
  <2>4. Given = IF queue[MakeRoom].state = "stopped" THEN {queue[MakeRoom].session} ELSE {}
    BY <1>2 DEF Given
  <2> HIDE DEF Room, Given
  <2>5. MakeRoom \in 1..(Len(queue) + 1) /\ MakeRoom <= Len(queue)
    BY <1>1, <2>2
  <2> USE <2>5
  <2> WITNESS MakeRoom \in 1..(Len(queue) + 1)
  <2>6. Len(Room) \in Nat /\ Len(Room) < kMaxQueue
    BY <1>1, <2>1, <2>3
  <2>7. \A j \in 1..Len(Room) : Room[j] = queue[IF j < MakeRoom THEN j ELSE j + 1]
    BY <2>3
  <2> QED
    BY <2>1, <2>2, <2>3, <2>4, <2>5, <2>6, <2>7
<1>3. CASE ~QueueFull
  <2>1. Room = queue /\ Given = {} /\ Len(queue) < kMaxQueue
    BY <1>1, <1>3 DEF Room, Given, QueueFull
  <2>2. Len(queue) + 1 \in 1..(Len(queue) + 1) /\ ~(Len(queue) + 1 <= Len(queue))
    BY <1>1
  <2>3. \A j \in 1..Len(queue) : j < Len(queue) + 1
    BY <1>1
  <2> QED
    BY <1>1, <2>1, <2>2, <2>3
<1> QED
  BY <1>2, <1>3

-----------------------------------------------------------------------------
(* Types.                                                                  *)

(* A request that Build makes is a request, and is not NoRequest. *)
LEMMA RequestType ==
    /\ NoRequest \notin Requests
    /\ \A s \in Sessions, st \in LiveStates \cup {"stopped"}, tok \in Tokens, l \in BOOLEAN :
          [session |-> s, state |-> st, token |-> tok, late |-> l] \in Requests
BY RequestAssumption DEF Requests, Sessions

(* Build leaves the callers and what they hold well typed. *)
LEMMA BuildType ==
    ASSUME TypeOK, NEW c \in Callers, NEW s \in Sessions, NEW st \in LiveStates \cup {"stopped"},
           NEW tok \in Tokens, Build(c, s, st, tok)
    PROVE  CallsType'
<1> DEFINE r == [session |-> s, state |-> st, token |-> tok, late |-> FALSE]
<1>1. r \in Requests /\ r # NoRequest
  BY RequestType
<1>2. held' = [held EXCEPT ![c] = r] /\ caller' = [caller EXCEPT ![c] = "built"]
  BY DEF Build
<1> HIDE DEF r
<1> QED
  BY <1>1, <1>2 DEF TypeOK, CallsType

(* The numbers a step may count on. *)
LEMMA Numbers ==
    ASSUME TypeOK, EndsInOrder
    PROVE  /\ MaxSessions \in Nat /\ MaxReports \in Nat /\ kMaxQueue \in Nat
           /\ session \in Nat /\ session <= MaxSessions /\ reports \in Nat
           /\ session + 1 \notin ended
           /\ active => session \in Sessions /\ session \notin ended
           /\ session < MaxSessions => session + 1 \in Sessions
<1>1. MaxSessions \in Nat /\ MaxReports \in Nat /\ kMaxQueue \in Nat
  BY BoundAssumption, QueueAssumption
<1>2. session \in Nat /\ session <= MaxSessions
  <2>1. session \in 0..MaxSessions
    BY DEF TypeOK, GuardedType
  <2> QED
    BY <1>1, <2>1
<1>3. reports \in Nat
  BY <1>1 DEF TypeOK, HistoryType
<1>4. session + 1 \notin 1..session /\ (session < MaxSessions => session + 1 \in 1..MaxSessions)
  BY <1>1, <1>2
<1> QED
  BY <1>1, <1>2, <1>3, <1>4 DEF EndsInOrder, Sessions

(* Every step leaves the reporter well typed and its sessions in order. *)
LEMMA TypeStep ==
    ASSUME TypeOK, EndsInOrder, [Next]_vars
    PROVE  TypeOK' /\ EndsInOrder'
<1>0. GuardedType /\ QueueType /\ CallsType /\ WorkerType /\ HistoryType
  BY DEF TypeOK
<1>1. ASSUME NEW c \in Callers, NEW tok \in Tokens, BeginSession(c, tok)
      PROVE  TypeOK' /\ EndsInOrder'
  <2>1. session' = session + 1 /\ session' \in Sessions /\ session' \notin ended /\ token' \in Tokens
    BY <1>1, Numbers DEF BeginSession
  <2>2. ended' = ended /\ ended \subseteq 1..session'
    <3>1. 1..session \subseteq 1..(session + 1)
      BY Numbers
    <3> QED
      BY <1>1, <2>1, <3>1 DEF BeginSession, EndsInOrder
  <2>3. CallsType' /\ active' \in BOOLEAN /\ lastSentState' \in {"buffering", ""}
    <3>1. CASE active' = TRUE /\ lastSentState' = "buffering" /\ Build(c, session + 1, "buffering", tok)
      BY <2>1, <3>1, BuildType DEF LiveStates
    <3>2. CASE active' = FALSE /\ lastSentState' = "" /\ UNCHANGED calls
      BY <1>0, <3>2 DEF CallsType, calls
    <3> QED
      BY <1>1, <3>1, <3>2 DEF BeginSession
  <2>4. GuardedType'
    <3>1. session' \in 0..MaxSessions
      BY <2>1, Numbers DEF Sessions
    <3> QED
      BY <2>1, <2>3, <3>1 DEF GuardedType, LiveStates
  <2>5. QueueType' /\ WorkerType' /\ HistoryType'
    BY <1>0, <1>1 DEF BeginSession, QueueType, WorkerType, HistoryType
  <2> QED
    BY <2>1, <2>2, <2>3, <2>4, <2>5 DEF TypeOK, EndsInOrder
<1>2. ASSUME NEW c \in Callers, NEW st \in LiveStates, ReportState(c, st)
      PROVE  TypeOK' /\ EndsInOrder'
  <2>1. session \in Sessions /\ token \in Tokens
    BY <1>0, <1>2, Numbers DEF ReportState, GuardedType
  <2>2. CallsType'
    BY <1>2, <2>1, BuildType DEF ReportState
  <2>3. GuardedType' /\ EndsInOrder'
    BY <1>0, <1>2 DEF ReportState, GuardedType, EndsInOrder
  <2>4. HistoryType'
    <3>1. reports' \in 0..MaxReports
      BY <1>2, Numbers DEF ReportState
    <3> QED
      BY <1>0, <1>2, <3>1 DEF ReportState, HistoryType
  <2>5. QueueType' /\ WorkerType'
    BY <1>0, <1>2 DEF ReportState, QueueType, WorkerType
  <2> QED
    BY <2>2, <2>3, <2>4, <2>5 DEF TypeOK
<1>3. ASSUME NEW c \in Callers, EndSession(c)
      PROVE  TypeOK' /\ EndsInOrder'
  <2>1. session \in Sessions /\ token \in Tokens
    BY <1>0, <1>3, Numbers DEF EndSession, GuardedType
  <2>2. CallsType'
    BY <1>3, <2>1, BuildType DEF EndSession
  <2>3. GuardedType' /\ QueueType' /\ WorkerType'
    BY <1>0, <1>3 DEF EndSession, GuardedType, QueueType, WorkerType
  <2>4. session \in 1..session
    BY <2>1, Numbers DEF Sessions
  <2>5. HistoryType' /\ EndsInOrder'
    BY <1>0, <1>3, <2>1, <2>4 DEF EndSession, HistoryType, EndsInOrder, Sessions
  <2> QED
    BY <2>2, <2>3, <2>5 DEF TypeOK
<1>4. ASSUME NEW c \in Callers, Enqueue(c)
      PROVE  TypeOK' /\ EndsInOrder'
  <2>1. /\ queue' = Append(Room, [held[c] EXCEPT !.late = (worker = "done")])
        /\ dropped' = dropped \cup Given
    BY <1>4 DEF Enqueue, Room, Given
  <2>2. held[c] \in Requests /\ [held[c] EXCEPT !.late = (worker = "done")] \in Requests
    <3>1. held[c] \in Requests
      BY <1>0, <1>4 DEF Enqueue, CallsType
    <3>2. (worker = "done") \in BOOLEAN
      OBVIOUS
    <3> QED
      BY <3>1, <3>2 DEF Requests
  <2>3. QueueType'
    <3>1. Room \in Seq(Requests) /\ Len(Room) \in Nat /\ Len(Room) < kMaxQueue
      BY RoomFacts
    <3> QED
      BY <2>1, <2>2, <3>1, AppendProperties, QueueAssumption DEF QueueType
  <2>4. Given \subseteq 1..MaxSessions
    <3>1. \A i \in 1..Len(queue) : queue[i] \in Requests
      BY <1>0, ElementOfSeq DEF QueueType
    <3>2. \A i \in 1..Len(queue) : queue[i].session \in 1..MaxSessions
      BY <3>1 DEF Requests
    <3> QED
      BY <3>2, RoomFacts
  <2>5. CallsType'
    BY <1>0, <1>4 DEF Enqueue, CallsType
  <2>6. GuardedType' /\ WorkerType' /\ HistoryType' /\ EndsInOrder'
    BY <1>0, <1>4, <2>1, <2>4 DEF Enqueue, GuardedType, WorkerType, HistoryType, EndsInOrder, guarded
  <2> QED
    BY <2>3, <2>5, <2>6 DEF TypeOK
<1>5. ASSUME NEW c \in Callers, NotifyQueued(c)
      PROVE  TypeOK' /\ EndsInOrder'
  <2>1. CallsType'
    BY <1>0, <1>5 DEF NotifyQueued, CallsType
  <2>2. WorkerType'
    BY <1>0, <1>5 DEF NotifyQueued, notify_one, WorkerType
  <2> QED
    BY <1>0, <1>5, <2>1, <2>2 DEF NotifyQueued, TypeOK, GuardedType, QueueType, HistoryType, EndsInOrder, guarded
<1>6. ASSUME NEW tok \in Tokens, UpdateToken(tok)
      PROVE  TypeOK' /\ EndsInOrder'
  <2>1. reports' \in 0..MaxReports
    BY <1>6, Numbers DEF UpdateToken
  <2>2. GuardedType' /\ HistoryType' /\ EndsInOrder'
    BY <1>0, <1>6, <2>1 DEF UpdateToken, GuardedType, HistoryType, EndsInOrder
  <2>3. QueueType' /\ CallsType' /\ WorkerType'
    BY <1>0, <1>6 DEF UpdateToken, QueueType, CallsType, WorkerType, calls
  <2> QED
    BY <2>2, <2>3 DEF TypeOK
<1>7. CASE WorkerCheck
  <2>1. QueueType' /\ WorkerType'
    <3>1. CASE queue # <<>>
      <4>1. Head(queue) \in Requests /\ Tail(queue) \in Seq(Requests) /\ Len(Tail(queue)) = Len(queue) - 1
        BY <1>0, <3>1, HeadTailProperties DEF QueueType
      <4>2. QueueType'
        BY <1>0, <1>7, <3>1, <4>1, LenProperties, QueueAssumption DEF WorkerCheck, QueueType
      <4>3. WorkerType'
        BY <1>0, <1>7, <3>1, <4>1, RequestType DEF WorkerCheck, WorkerType
      <4> QED
        BY <4>2, <4>3
    <3>2. CASE queue = <<>>
      BY <1>0, <1>7, <3>2 DEF WorkerCheck, QueueType, WorkerType
    <3> QED
      BY <3>1, <3>2
  <2>2. GuardedType' /\ CallsType' /\ HistoryType' /\ EndsInOrder'
    BY <1>0, <1>7 DEF WorkerCheck, GuardedType, CallsType, HistoryType, EndsInOrder, guarded, calls
  <2> QED
    BY <2>1, <2>2 DEF TypeOK
<1>8. CASE WorkerSend
  <2>1. flight.session \in 1..MaxSessions
    <3>1. flight \in Requests
      BY <1>0, <1>8 DEF WorkerSend, WorkerType
    <3> QED
      BY <3>1 DEF Requests
  <2>2. stopsSent' \in [1..MaxSessions -> Nat]
    BY <1>0, <1>8, <2>1 DEF WorkerSend, HistoryType
  <2>3. HistoryType'
    BY <1>0, <1>8, <2>2 DEF WorkerSend, HistoryType
  <2>4. GuardedType' /\ QueueType' /\ CallsType' /\ WorkerType' /\ EndsInOrder'
    BY <1>0, <1>8 DEF WorkerSend, GuardedType, QueueType, CallsType, WorkerType, EndsInOrder, guarded, calls
  <2> QED
    BY <2>3, <2>4 DEF TypeOK
<1>9. CASE StopAndFlush
  BY <1>0, <1>9 DEF StopAndFlush, TypeOK, GuardedType, QueueType, CallsType, WorkerType, HistoryType,
                    EndsInOrder, guarded, calls
<1>10. CASE FlushNotify
  BY <1>0, <1>10 DEF FlushNotify, notify_one, TypeOK, GuardedType, QueueType, CallsType, WorkerType,
                     HistoryType, EndsInOrder, guarded, calls
<1>11. CASE FlushJoin
  BY <1>0, <1>11 DEF FlushJoin, TypeOK, GuardedType, QueueType, CallsType, WorkerType, HistoryType,
                     EndsInOrder, guarded, calls
<1>12. CASE UNCHANGED vars
  BY <1>0, <1>12 DEF vars, TypeOK, GuardedType, QueueType, CallsType, WorkerType, HistoryType,
                     EndsInOrder, guarded, calls
<1> QED
  BY <1>1, <1>2, <1>3, <1>4, <1>5, <1>6, <1>7, <1>8, <1>9, <1>10, <1>11, <1>12 DEF Next, Call

-----------------------------------------------------------------------------
(* Where the "stopped" of a session is.                                    *)

(* A step that moves no "stopped" leaves them in their places. *)
LEMMA Unmoved ==
    ASSUME StopPlaces, UNCHANGED <<queue, flight, stopsSent, ended, dropped>>,
           \A s \in Sessions, d \in Callers : StopOf(s, held'[d]) <=> StopOf(s, held[d])
    PROVE  StopPlaces'
<1>1. \A s \in Sessions : /\ NotHeld(s)' <=> NotHeld(s)
                          /\ HeldOnce(s)' <=> HeldOnce(s)
                          /\ NotQueued(s)' <=> NotQueued(s)
                          /\ QueuedOnce(s)' <=> QueuedOnce(s)
                          /\ InFlight(s)' <=> InFlight(s)
                          /\ stopsSent'[s] = stopsSent[s]
  BY DEF NotHeld, HeldOnce, NotQueued, QueuedOnce, InFlight
<1> QED
  BY <1>1 DEF StopPlaces, Nowhere, InOnePlace

(* Building a request that is not a "stopped" moves none. *)
LEMMA LiveBuild ==
    ASSUME TypeOK, NEW c \in Callers, caller[c] = "idle", NEW n, NEW st \in LiveStates, NEW tok,
           Build(c, n, st, tok)
    PROVE  \A s \in Sessions, d \in Callers : StopOf(s, held'[d]) <=> StopOf(s, held[d])
<1>1. held[c] = NoRequest /\ held \in [Callers -> Requests \cup {NoRequest}]
  BY DEF TypeOK, CallsType
<1>2. held'[c].state # "stopped" /\ \A d \in Callers : d # c => held'[d] = held[d]
  BY <1>1 DEF Build, LiveStates
<1> QED
  BY <1>1, <1>2 DEF StopOf

(* endSession builds the one "stopped" of its session. *)
LEMMA EndPlaces ==
    ASSUME StopInv, NEW c \in Callers, EndSession(c)
    PROVE  StopPlaces'
<1>0. TypeOK /\ EndsInOrder /\ StopPlaces
  BY DEF StopInv
<1>1. session \in Sessions /\ session \notin ended /\ session \notin dropped
  BY <1>0, Numbers DEF EndSession, StopPlaces
<1>2. /\ held[c] = NoRequest /\ held \in [Callers -> Requests \cup {NoRequest}]
      /\ UNCHANGED <<queue, flight, stopsSent, dropped>> /\ ended' = ended \cup {session}
  BY <1>0 DEF EndSession, TypeOK, CallsType
<1>3. /\ StopOf(session, held'[c]) /\ \A s \in Sessions : StopOf(s, held'[c]) => s = session
      /\ \A d \in Callers : d # c => held'[d] = held[d]
  <2>1. [session |-> session, state |-> "stopped", token |-> token, late |-> FALSE] # NoRequest
    BY <1>0, <1>1, RequestType DEF TypeOK, GuardedType
  <2> QED
    BY <1>2, <2>1 DEF EndSession, Build, StopOf
<1>4. ASSUME NEW s \in Sessions
      PROVE  IF s \in ended' \ dropped' THEN InOnePlace(s)' ELSE Nowhere(s)'
  <2>1. /\ NotQueued(s)' <=> NotQueued(s)
        /\ QueuedOnce(s)' <=> QueuedOnce(s)
        /\ InFlight(s)' <=> InFlight(s)
        /\ stopsSent'[s] = stopsSent[s]
    BY <1>2 DEF NotQueued, QueuedOnce, InFlight
  <2>2. CASE s = session
    <3>1. Nowhere(s)
      BY <1>0, <1>1, <2>2 DEF StopPlaces
    <3>2. \A d \in Callers : StopOf(s, held'[d]) <=> d = c
      BY <1>3, <2>2, <3>1 DEF Nowhere, NotHeld
    <3>3. HeldOnce(s)'
      BY <3>2 DEF HeldOnce
    <3> QED
      BY <1>1, <1>2, <2>1, <2>2, <3>1, <3>3 DEF Nowhere, InOnePlace
  <2>3. CASE s # session
    <3>1. \A d \in Callers : StopOf(s, held'[d]) <=> StopOf(s, held[d])
      BY <1>2, <1>3, <2>3 DEF StopOf
    <3>2. (NotHeld(s)' <=> NotHeld(s)) /\ (HeldOnce(s)' <=> HeldOnce(s))
      BY <3>1 DEF NotHeld, HeldOnce
    <3> QED
      BY <1>0, <1>2, <2>1, <2>3, <3>2 DEF StopPlaces, Nowhere, InOnePlace
  <2> QED
    BY <2>2, <2>3
<1> QED
  BY <1>0, <1>2, <1>4 DEF StopPlaces

(* enqueue moves the request of its caller to the end of the queue; the    *)
(* request that made room, if a "stopped", is now nowhere.                 *)
LEMMA EnqueuePlaces ==
    ASSUME StopInv, NEW c \in Callers, Enqueue(c)
    PROVE  StopPlaces'
<1>0. TypeOK /\ EndsInOrder /\ StopPlaces /\ QueueType /\ CallsType
  BY DEF StopInv, TypeOK
<1> DEFINE r == [held[c] EXCEPT !.late = (worker = "done")]
           n == Len(Room)
<1>1. /\ queue' = Append(Room, r) /\ dropped' = dropped \cup Given
      /\ held' = [held EXCEPT ![c] = NoRequest] /\ UNCHANGED <<flight, stopsSent, ended>>
  BY DEF Enqueue, Room, Given
<1>2. /\ held[c] \in Requests /\ r \in Requests
      /\ \A s \in Sessions : StopOf(s, r) <=> StopOf(s, held[c])
  <2>1. held[c] \in Requests
    BY <1>0 DEF Enqueue, CallsType
  <2>2. (worker = "done") \in BOOLEAN
    OBVIOUS
  <2>3. r \in Requests /\ r.session = held[c].session /\ r.state = held[c].state
    BY <2>1, <2>2 DEF Requests
  <2> HIDE DEF r
  <2> QED
    BY <2>1, <2>3, RequestType DEF StopOf
<1>3. PICK k \in 1..(Len(queue) + 1) :
        /\ Room \in Seq(Requests) /\ Len(Room) \in Nat
        /\ Len(Room) = IF k <= Len(queue) THEN Len(queue) - 1 ELSE Len(queue)
        /\ \A j \in 1..Len(Room) : Room[j] = queue[IF j < k THEN j ELSE j + 1]
        /\ Given = IF k <= Len(queue) /\ queue[k].state = "stopped" THEN {queue[k].session} ELSE {}
  BY <1>0, RoomFacts
<1>4. Len(queue) \in Nat /\ \A i \in 1..Len(queue) : queue[i] \in Requests
  BY <1>0, LenProperties, ElementOfSeq DEF QueueType
<1>5. /\ Len(queue') = n + 1 /\ queue'[n + 1] = r
      /\ \A j \in 1..n : queue'[j] = queue[IF j < k THEN j ELSE j + 1]
  BY <1>1, <1>2, <1>3, AppendProperties
<1> HIDE DEF r, n
<1>6. n \in Nat /\ n = IF k <= Len(queue) THEN Len(queue) - 1 ELSE Len(queue)
  BY <1>3 DEF n
<1>7. \A d \in Callers : held'[d] = IF d = c THEN NoRequest ELSE held[d]
  BY <1>0, <1>1 DEF CallsType
<1>8. ASSUME NEW s \in Sessions
      PROVE  IF s \in ended' \ dropped' THEN InOnePlace(s)' ELSE Nowhere(s)'
  <2>0. IF s \in ended \ dropped THEN InOnePlace(s) ELSE Nowhere(s)
    BY <1>0 DEF StopPlaces
  <2>1. (InFlight(s)' <=> InFlight(s)) /\ stopsSent'[s] = stopsSent[s]
    BY <1>1 DEF InFlight
  <2>2. \A d \in Callers : StopOf(s, held'[d]) <=> d # c /\ StopOf(s, held[d])
    BY <1>7 DEF StopOf
  <2>3. s \in Given <=> k <= Len(queue) /\ StopOf(s, queue[k])
    BY <1>3, <1>4, RequestType DEF StopOf
  <2>4. CASE StopOf(s, held[c])
    <3>1. ~NotHeld(s)
      BY <2>4 DEF NotHeld
    <3>2. s \in ended \ dropped /\ HeldOnce(s) /\ NotQueued(s) /\ ~InFlight(s) /\ stopsSent[s] = 0
      BY <2>0, <3>1 DEF InOnePlace, Nowhere
    <3>3. NotHeld(s)'
      BY <2>2, <2>4, <3>2 DEF NotHeld, HeldOnce
    <3>4. s \notin Given
      BY <1>4, <2>3, <3>2 DEF NotQueued
    <3>5. ASSUME NEW j \in 1..Len(queue') PROVE StopOf(s, queue'[j]) <=> j = n + 1
      <4>1. CASE j = n + 1
        BY <1>2, <1>5, <2>4, <4>1
      <4>2. CASE j # n + 1
        <5>1. j \in 1..n /\ (IF j < k THEN j ELSE j + 1) \in 1..Len(queue)
          BY <1>4, <1>5, <1>6, <4>2
        <5> QED
          BY <1>5, <3>2, <4>2, <5>1 DEF NotQueued
      <4> QED
        BY <4>1, <4>2
    <3>6. n + 1 \in 1..Len(queue')
      BY <1>5, <1>6
    <3>7. QueuedOnce(s)'
      BY <3>5, <3>6 DEF QueuedOnce
    <3> QED
      BY <1>1, <2>1, <3>2, <3>3, <3>4, <3>7 DEF InOnePlace
  <2>5. CASE ~StopOf(s, held[c])
    <3>1. (NotHeld(s)' <=> NotHeld(s)) /\ (HeldOnce(s)' <=> HeldOnce(s))
      <4>1. \A d \in Callers : StopOf(s, held'[d]) <=> StopOf(s, held[d])
        BY <2>2, <2>5
      <4> QED
        BY <4>1 DEF NotHeld, HeldOnce
    <3>2. \A j \in 1..Len(queue') : StopOf(s, queue'[j]) <=>
              j \in 1..n /\ StopOf(s, queue[IF j < k THEN j ELSE j + 1])
      <4>1. ASSUME NEW j \in 1..Len(queue')
            PROVE  StopOf(s, queue'[j]) <=> j \in 1..n /\ StopOf(s, queue[IF j < k THEN j ELSE j + 1])
        <5>1. CASE j = n + 1
          BY <1>2, <1>5, <1>6, <2>5, <5>1
        <5>2. CASE j # n + 1
          <6>1. j \in 1..n
            BY <1>5, <1>6, <5>2
          <6> QED
            BY <1>5, <6>1
        <5> QED
          BY <5>1, <5>2
      <4> QED
        BY <4>1
    <3>3. NotQueued(s) => NotQueued(s)'
      <4>1. \A j \in 1..n : (IF j < k THEN j ELSE j + 1) \in 1..Len(queue)
        BY <1>4, <1>6
      <4> QED
        BY <3>2, <4>1 DEF NotQueued
    <3>4. ASSUME QueuedOnce(s), s \in Given PROVE NotQueued(s)'
      <4>1. PICK i \in 1..Len(queue) : \A j \in 1..Len(queue) : StopOf(s, queue[j]) <=> j = i
        BY <3>4 DEF QueuedOnce
      <4>2. i = k /\ k \in 1..Len(queue)
        BY <1>4, <2>3, <3>4, <4>1
      <4>3. \A j \in 1..n : /\ (IF j < k THEN j ELSE j + 1) \in 1..Len(queue)
                            /\ (IF j < k THEN j ELSE j + 1) # k
        BY <1>4, <1>6
      <4> QED
        BY <3>2, <4>1, <4>2, <4>3 DEF NotQueued
    <3>5. ASSUME QueuedOnce(s), s \notin Given PROVE QueuedOnce(s)'
      <4>1. PICK i \in 1..Len(queue) : \A j \in 1..Len(queue) : StopOf(s, queue[j]) <=> j = i
        BY <3>5 DEF QueuedOnce
      <4>2. i # k
        BY <1>4, <2>3, <3>5, <4>1
      <4> DEFINE m == IF i < k THEN i ELSE i - 1
      <4>3. m \in 1..n /\ m \in 1..Len(queue')
        BY <1>4, <1>5, <1>6, <4>2
      <4>4. \A j \in 1..n : /\ (IF j < k THEN j ELSE j + 1) \in 1..Len(queue)
                            /\ (IF j < k THEN j ELSE j + 1) = i <=> j = m
        BY <1>4, <1>6, <4>2
      <4> HIDE DEF m
      <4>5. \A j \in 1..Len(queue') : StopOf(s, queue'[j]) <=> j = m
        BY <3>2, <4>1, <4>3, <4>4
      <4> QED
        BY <4>3, <4>5 DEF QueuedOnce
    <3>6. s \in Given => QueuedOnce(s) /\ s \in ended \ dropped /\ ~NotQueued(s)
      BY <1>3, <1>4, <2>0, <2>3 DEF InOnePlace, Nowhere, NotQueued
    <3> QED
      BY <1>1, <2>0, <2>1, <3>1, <3>3, <3>4, <3>5, <3>6 DEF InOnePlace, Nowhere
  <2> QED
    BY <2>4, <2>5
<1>9. Given \subseteq ended
  <2>1. ASSUME NEW s \in Given PROVE s \in ended
    <3>1. k <= Len(queue) /\ k \in 1..Len(queue) /\ s = queue[k].session /\ StopOf(s, queue[k])
      BY <1>3, <1>4, RequestType DEF StopOf
    <3>2. s \in Sessions
      BY <1>4, <3>1 DEF Requests, Sessions
    <3> QED
      BY <1>0, <3>1, <3>2 DEF StopPlaces, Nowhere, NotQueued
  <2> QED
    BY <2>1
<1> QED
  BY <1>0, <1>1, <1>8, <1>9 DEF StopPlaces

(* The worker takes the front of the queue. *)
LEMMA TakePlaces ==
    ASSUME StopInv, WorkerCheck
    PROVE  StopPlaces'
<1>0. TypeOK /\ StopPlaces /\ QueueType /\ WorkerType
  BY DEF StopInv, TypeOK
<1>1. CASE queue = <<>>
  BY <1>0, <1>1, Unmoved DEF WorkerCheck, calls
<1>2. CASE queue # <<>>
  <2>1. /\ queue' = Tail(queue) /\ flight' = queue[1] /\ flight = NoRequest
        /\ UNCHANGED <<held, stopsSent, ended, dropped>>
    BY <1>0, <1>2 DEF WorkerCheck, WorkerType, QueueType, calls
  <2>2. /\ Len(queue) \in Nat \ {0} /\ Len(queue') = Len(queue) - 1
        /\ \A j \in 1..(Len(queue) - 1) : queue'[j] = queue[j + 1]
    BY <1>0, <1>2, <2>1, HeadTailProperties, EmptySeq DEF QueueType
  <2>3. ASSUME NEW s \in Sessions
        PROVE  IF s \in ended' \ dropped' THEN InOnePlace(s)' ELSE Nowhere(s)'
    <3>0. IF s \in ended \ dropped THEN InOnePlace(s) ELSE Nowhere(s)
      BY <1>0 DEF StopPlaces
    <3>1. /\ NotHeld(s)' <=> NotHeld(s)
          /\ HeldOnce(s)' <=> HeldOnce(s)
          /\ stopsSent'[s] = stopsSent[s]
      BY <2>1 DEF NotHeld, HeldOnce
    <3>2. ~InFlight(s) /\ (InFlight(s)' <=> StopOf(s, queue[1]))
      BY <2>1 DEF InFlight, StopOf
    <3>3. \A j \in 1..Len(queue') : j + 1 \in 1..Len(queue) /\ j + 1 # 1
      BY <2>2
    <3>4. NotQueued(s) => NotQueued(s)' /\ ~InFlight(s)'
      <4>1. 1 \in 1..Len(queue)
        BY <2>2
      <4> QED
        BY <2>2, <3>2, <3>3, <4>1 DEF NotQueued
    <3>5. ASSUME QueuedOnce(s), InFlight(s)' PROVE NotQueued(s)'
      <4>1. \A j \in 1..Len(queue) : StopOf(s, queue[j]) <=> j = 1
        BY <2>2, <3>2, <3>5 DEF QueuedOnce
      <4> QED
        BY <2>2, <3>3, <4>1 DEF NotQueued
    <3>6. ASSUME QueuedOnce(s), ~InFlight(s)' PROVE QueuedOnce(s)'
      <4>1. PICK i \in 1..Len(queue) : \A j \in 1..Len(queue) : StopOf(s, queue[j]) <=> j = i
        BY <3>6 DEF QueuedOnce
      <4>2. i - 1 \in 1..Len(queue')
        BY <2>2, <3>2, <3>6, <4>1
      <4>3. \A j \in 1..Len(queue') : j + 1 = i <=> j = i - 1
        BY <2>2
      <4>4. \A j \in 1..Len(queue') : StopOf(s, queue'[j]) <=> j = i - 1
        BY <2>2, <3>3, <4>1, <4>3
      <4> QED
        BY <4>2, <4>4 DEF QueuedOnce
    <3> QED
      BY <2>1, <3>0, <3>1, <3>2, <3>4, <3>5, <3>6 DEF InOnePlace, Nowhere
  <2> QED
    BY <1>0, <2>1, <2>3 DEF StopPlaces
<1> QED
  BY <1>1, <1>2

(* The worker has sent what it took. *)
LEMMA SendPlaces ==
    ASSUME StopInv, WorkerSend
    PROVE  StopPlaces'
<1>0. TypeOK /\ StopPlaces /\ WorkerType /\ HistoryType
  BY DEF StopInv, TypeOK
<1>1. /\ UNCHANGED <<queue, held, ended, dropped>> /\ flight' = NoRequest
      /\ flight \in Requests /\ flight # NoRequest
  BY <1>0 DEF WorkerSend, WorkerType, calls
<1>2. ASSUME NEW s \in Sessions
      PROVE  stopsSent'[s] = IF StopOf(s, flight) THEN stopsSent[s] + 1 ELSE stopsSent[s]
  BY <1>0, <1>1 DEF WorkerSend, HistoryType, StopOf, Requests, Sessions
<1>3. ASSUME NEW s \in Sessions
      PROVE  IF s \in ended' \ dropped' THEN InOnePlace(s)' ELSE Nowhere(s)'
  <2>0. IF s \in ended \ dropped THEN InOnePlace(s) ELSE Nowhere(s)
    BY <1>0 DEF StopPlaces
  <2>1. /\ NotHeld(s)' <=> NotHeld(s)
        /\ HeldOnce(s)' <=> HeldOnce(s)
        /\ NotQueued(s)' <=> NotQueued(s)
        /\ QueuedOnce(s)' <=> QueuedOnce(s)
        /\ ~InFlight(s)'
    BY <1>1 DEF NotHeld, HeldOnce, NotQueued, QueuedOnce, InFlight, StopOf
  <2>2. CASE InFlight(s)
    <3>1. stopsSent'[s] = stopsSent[s] + 1
      BY <1>2, <2>2 DEF InFlight
    <3> QED
      BY <1>1, <2>0, <2>1, <2>2, <3>1 DEF InOnePlace, Nowhere
  <2>3. CASE ~InFlight(s)
    <3>1. stopsSent'[s] = stopsSent[s]
      BY <1>2, <2>3 DEF InFlight
    <3> QED
      BY <1>1, <2>0, <2>1, <2>3, <3>1 DEF InOnePlace, Nowhere
  <2> QED
    BY <2>2, <2>3
<1> QED
  BY <1>0, <1>1, <1>3 DEF StopPlaces

(* Every step keeps the invariant. *)
LEMMA StopStep ==
    ASSUME StopInv, [Next]_vars
    PROVE  StopInv'
<1>0. TypeOK /\ EndsInOrder /\ StopPlaces
  BY DEF StopInv
<1>1. ASSUME NEW c \in Callers, NEW tok \in Tokens, BeginSession(c, tok) PROVE StopPlaces'
  <2>1. \A s \in Sessions, d \in Callers : StopOf(s, held'[d]) <=> StopOf(s, held[d])
    <3>1. CASE Build(c, session + 1, "buffering", tok)
      BY <1>0, <1>1, <3>1, LiveBuild DEF BeginSession, LiveStates
    <3>2. CASE UNCHANGED calls
      BY <3>2 DEF calls
    <3> QED
      BY <1>1, <3>1, <3>2 DEF BeginSession
  <2> QED
    BY <1>0, <1>1, <2>1, Unmoved DEF BeginSession
<1>2. ASSUME NEW c \in Callers, NEW st \in LiveStates, ReportState(c, st) PROVE StopPlaces'
  <2>1. \A s \in Sessions, d \in Callers : StopOf(s, held'[d]) <=> StopOf(s, held[d])
    BY <1>0, <1>2, LiveBuild DEF ReportState
  <2> QED
    BY <1>0, <1>2, <2>1, Unmoved DEF ReportState
<1>3. ASSUME NEW c \in Callers, NotifyQueued(c) PROVE StopPlaces'
  BY <1>0, <1>3, Unmoved DEF NotifyQueued
<1>4. ASSUME NEW tok \in Tokens, UpdateToken(tok) PROVE StopPlaces'
  BY <1>0, <1>4, Unmoved DEF UpdateToken, calls
<1>5. ASSUME StopAndFlush \/ FlushNotify \/ FlushJoin \/ UNCHANGED vars PROVE StopPlaces'
  <2>1. UNCHANGED <<queue, flight, stopsSent, ended, dropped, held>>
    BY <1>5 DEF StopAndFlush, FlushNotify, FlushJoin, vars, calls
  <2> QED
    BY <1>0, <2>1, Unmoved
<1>6. ASSUME \E c \in Callers : EndSession(c) \/ Enqueue(c) PROVE StopPlaces'
  BY <1>6, EndPlaces, EnqueuePlaces
<1>7. ASSUME WorkerCheck \/ WorkerSend PROVE StopPlaces'
  BY <1>7, TakePlaces, SendPlaces
<1>8. StopPlaces'
  BY <1>1, <1>2, <1>3, <1>4, <1>5, <1>6, <1>7 DEF Next, Call
<1> QED
  BY <1>0, <1>8, TypeStep DEF StopInv

LEMMA StopInit == Init => StopInv
<1> SUFFICES ASSUME Init PROVE StopInv
  OBVIOUS
<1>1. TypeOK
  <2>1. token \in Tokens
    BY TokenAssumption DEF Init
  <2>2. 0 \in 0..MaxSessions /\ 0 \in 0..MaxReports
    BY BoundAssumption
  <2>3. queue \in Seq(Requests) /\ Len(queue) <= kMaxQueue
    <3>1. queue = <<>> /\ <<>> \in Seq(Requests) /\ Len(<<>>) = 0
      BY EmptySeq DEF Init
    <3> QED
      BY <3>1, QueueAssumption
  <2> QED
    BY <2>1, <2>2, <2>3
    DEF Init, TypeOK, GuardedType, QueueType, CallsType, WorkerType, HistoryType, LiveStates
<1>2. EndsInOrder
  BY DEF Init, EndsInOrder
<1>3. StopPlaces
  <2>1. /\ \A c \in Callers : held[c] = NoRequest
        /\ Len(queue) = 0 /\ flight = NoRequest /\ ended = {} /\ dropped = {}
        /\ \A s \in Sessions : stopsSent[s] = 0
    BY DEF Init, Sessions
  <2>2. 1..Len(queue) = {}
    BY <2>1
  <2> QED
    BY <2>1, <2>2 DEF StopPlaces, Nowhere, NotHeld, NotQueued, InFlight, StopOf
<1> QED
  BY <1>1, <1>2, <1>3 DEF StopInv

LEMMA StopInvariant == Spec => []StopInv
BY StopInit, StopStep, PTL DEF Spec

-----------------------------------------------------------------------------
(* The theorems.                                                           *)

(* The reporter, its callers and its worker keep to their types, whatever  *)
(* threads call and however their calls overlap: the queue never exceeds   *)
(* kMaxQueue, and a request is held exactly between the sections of a call.*)
THEOREM TypeCorrect == Spec => []TypeOK
<1>1. StopInv => TypeOK
  BY DEF StopInv
<1> QED
  BY <1>1, StopInvariant, PTL

(* A singleton has one element and an empty set none. *)
LEMMA CountOne ==
    ASSUME NEW S, NEW T \in SUBSET S
    PROVE  /\ (\A x \in S : x \notin T) => Cardinality(T) = 0
           /\ (\E y \in S : \A x \in S : x \in T <=> x = y) => Cardinality(T) = 1
<1>1. ASSUME \A x \in S : x \notin T PROVE Cardinality(T) = 0
  <2>1. T = {}
    BY <1>1
  <2> QED
    BY <2>1, FS_EmptySet
<1>2. ASSUME NEW y \in S, \A x \in S : x \in T <=> x = y PROVE Cardinality(T) = 1
  <2>1. T = {y}
    BY <1>2
  <2> QED
    BY <2>1, FS_Singleton
<1> QED
  BY <1>1, <1>2

(* The count of OneStop is one where the "stopped" is in one place, and    *)
(* nought where it is nowhere.                                             *)
LEMMA CountStops ==
    ASSUME NEW s \in Sessions
    PROVE  /\ Nowhere(s) => StopsOf(s) = 0
           /\ InOnePlace(s) => StopsOf(s) = 1
<1> DEFINE H == {c \in Callers : StopOf(s, held[c])}
           Q == {i \in 1..Len(queue) : StopOf(s, queue[i])}
<1>1. (NotHeld(s) => Cardinality(H) = 0) /\ (HeldOnce(s) => Cardinality(H) = 1)
  <2>1. H \in SUBSET Callers /\ \A c \in Callers : c \in H <=> StopOf(s, held[c])
    OBVIOUS
  <2> HIDE DEF H
  <2> QED
    BY <2>1, CountOne DEF NotHeld, HeldOnce
<1>2. (NotQueued(s) => Cardinality(Q) = 0) /\ (QueuedOnce(s) => Cardinality(Q) = 1)
  <2> DEFINE D == 1..Len(queue)
  <2>1. Q \in SUBSET D /\ \A i \in D : i \in Q <=> StopOf(s, queue[i])
    OBVIOUS
  <2>2. /\ NotQueued(s) <=> \A i \in D : ~StopOf(s, queue[i])
        /\ QueuedOnce(s) <=> \E i \in D : \A j \in D : StopOf(s, queue[j]) <=> j = i
    BY DEF NotQueued, QueuedOnce
  <2> HIDE DEF Q, D
  <2> QED
    BY <2>1, <2>2, CountOne
<1>3. StopsOf(s) = Cardinality(H) + Cardinality(Q) + (IF InFlight(s) THEN 1 ELSE 0) + stopsSent[s]
  BY DEF StopsOf, InFlight
<1> HIDE DEF H, Q
<1> QED
  BY <1>1, <1>2, <1>3 DEF Nowhere, InOnePlace

(* The server hears of the end of a session exactly once unless the queue  *)
(* overflowed with "stopped" reports, for any number of threads that call  *)
(* endSession and at any length of the queue.                              *)
THEOREM StopReportedOnce == Spec => []OneStop
<1>1. StopInv => OneStop
  <2> SUFFICES ASSUME StopInv, NEW s \in ended
               PROVE  StopsOf(s) = IF s \in dropped THEN 0 ELSE 1
    BY DEF OneStop
  <2>1. s \in Sessions
    BY DEF StopInv, TypeOK, HistoryType, Sessions
  <2> QED
    BY <2>1, CountStops DEF StopInv, StopPlaces
<1> QED
  BY <1>1, StopInvariant, PTL

(* A session that has ended is not reported on again, whoever calls: every *)
(* request a step builds is of a session that has not ended.               *)
THEOREM EndedStaysSilent == Spec => EndedIsSilent
<1> DEFINE Silent == \A c \in Callers : held'[c] # held[c] /\ held'[c] # NoRequest
                                          => held'[c].session \notin ended
<1>1. StopInv /\ [Next]_vars => [Silent]_vars
  <2> SUFFICES ASSUME StopInv, Next, NEW c \in Callers, held'[c] # held[c], held'[c] # NoRequest
               PROVE  held'[c].session \notin ended
    OBVIOUS
  <2>0. TypeOK /\ EndsInOrder /\ held \in [Callers -> Requests \cup {NoRequest}]
    BY DEF StopInv, TypeOK, CallsType
  <2>1. ASSUME NEW d \in Callers, NEW n, NEW st, NEW tok, Build(d, n, st, tok), n \notin ended
        PROVE  held'[c].session \notin ended
    BY <2>0, <2>1 DEF Build
  <2>2. ASSUME NEW d \in Callers, Call(d) PROVE held'[c].session \notin ended
    <3>1. ASSUME NEW tok \in Tokens, BeginSession(d, tok) PROVE held'[c].session \notin ended
      BY <2>0, <2>1, <3>1, Numbers DEF BeginSession, calls
    <3>2. ASSUME NEW st \in LiveStates, ReportState(d, st) PROVE held'[c].session \notin ended
      BY <2>0, <2>1, <3>2, Numbers DEF ReportState
    <3>3. CASE EndSession(d)
      BY <2>0, <2>1, <3>3, Numbers DEF EndSession
    <3> QED
      BY <2>2, <3>1, <3>2, <3>3 DEF Call
  <2>3. ASSUME NEW d \in Callers, Enqueue(d) PROVE FALSE
    BY <2>0, <2>3 DEF Enqueue
  <2>4. ASSUME NEW d \in Callers, NotifyQueued(d) PROVE FALSE
    BY <2>4 DEF NotifyQueued
  <2>5. ASSUME NEW tok \in Tokens, UpdateToken(tok) PROVE FALSE
    BY <2>5 DEF UpdateToken, calls
  <2>6. CASE WorkerCheck \/ WorkerSend \/ StopAndFlush \/ FlushNotify \/ FlushJoin
    BY <2>6 DEF WorkerCheck, WorkerSend, StopAndFlush, FlushNotify, FlushJoin, calls
  <2> QED
    BY <2>2, <2>3, <2>4, <2>5, <2>6 DEF Next
<1> QED
  BY <1>1, StopInvariant, PTL DEF Spec, EndedIsSilent

(* stopAndFlush joins a worker that has sent everything queued before it   *)
(* left: what is in the queue of a worker that is gone came after it.      *)
THEOREM WorkerDrains == Spec => []FlushDrains
<1>1. Init => FlushDrains
  BY DEF Init, FlushDrains
<1>2. StopInv /\ FlushDrains /\ [Next]_vars => FlushDrains'
  <2> SUFFICES ASSUME StopInv, FlushDrains, [Next]_vars, worker' = "done"
               PROVE  \A i \in 1..Len(queue') : queue'[i].late
    BY DEF FlushDrains
  <2>0. TypeOK /\ QueueType /\ CallsType
    BY DEF StopInv, TypeOK
  <2>1. ASSUME NEW c \in Callers, Enqueue(c) PROVE \A i \in 1..Len(queue') : queue'[i].late
    <3> DEFINE r == [held[c] EXCEPT !.late = (worker = "done")]
    <3>1. queue' = Append(Room, r) /\ worker = "done"
      BY <2>1 DEF Enqueue, Room
    <3>2. \A i \in 1..Len(queue) : queue[i].late
      BY <3>1 DEF FlushDrains
    <3>3. r \in Requests /\ r.late
      <4>1. held[c] \in Requests
        BY <2>0, <2>1 DEF Enqueue, CallsType
      <4> QED
        BY <3>1, <4>1 DEF Requests
    <3> HIDE DEF r
    <3>4. PICK k \in 1..(Len(queue) + 1) :
            /\ Room \in Seq(Requests) /\ Len(Room) \in Nat
            /\ Len(Room) = IF k <= Len(queue) THEN Len(queue) - 1 ELSE Len(queue)
            /\ \A j \in 1..Len(Room) : Room[j] = queue[IF j < k THEN j ELSE j + 1]
      BY <2>0, RoomFacts
    <3>5. Len(queue) \in Nat
      BY <2>0, LenProperties DEF QueueType
    <3>6. \A j \in 1..Len(Room) : (IF j < k THEN j ELSE j + 1) \in 1..Len(queue)
      BY <3>4, <3>5
    <3>7. /\ Len(queue') = Len(Room) + 1 /\ queue'[Len(Room) + 1] = r
          /\ \A j \in 1..Len(Room) : queue'[j] = Room[j]
      BY <3>1, <3>3, <3>4, AppendProperties
    <3>8. \A j \in 1..Len(queue') : j \in 1..Len(Room) \/ j = Len(Room) + 1
      BY <3>4, <3>7
    <3> QED
      BY <3>2, <3>3, <3>4, <3>6, <3>7, <3>8
  <2>2. CASE WorkerCheck
    BY <2>2 DEF WorkerCheck
  <2>3. ASSUME UNCHANGED <<queue, worker>> PROVE \A i \in 1..Len(queue') : queue'[i].late
    BY <2>3 DEF FlushDrains
  <2>4. ASSUME NEW c \in Callers, NotifyQueued(c) PROVE UNCHANGED <<queue, worker>>
    BY <2>4 DEF NotifyQueued, notify_one
  <2>5. ASSUME NEW c \in Callers, Call(c) PROVE UNCHANGED <<queue, worker>>
    BY <2>5 DEF Call, BeginSession, ReportState, EndSession
  <2>6. ASSUME NEW tok \in Tokens, UpdateToken(tok) PROVE UNCHANGED <<queue, worker>>
    BY <2>6 DEF UpdateToken
  <2>7. CASE WorkerSend
    BY <2>7 DEF WorkerSend
  <2>8. ASSUME StopAndFlush \/ FlushNotify \/ FlushJoin \/ UNCHANGED vars
        PROVE  UNCHANGED <<queue, worker>>
    BY <2>8 DEF StopAndFlush, FlushNotify, notify_one, FlushJoin, vars
  <2> QED
    BY <2>1, <2>2, <2>3, <2>4, <2>5, <2>6, <2>7, <2>8 DEF Next
<1> QED
  BY <1>1, <1>2, StopInvariant, PTL DEF Spec

(* A full queue of "stopped" reports is of as many sessions that ended. *)
LEMMA FullOfStops ==
    ASSUME StopInv, \A i \in 1..Len(queue) : queue[i].state = "stopped"
    PROVE  Len(queue) <= Cardinality(ended)
<1> DEFINE D == 1..Len(queue)
           f == [i \in D |-> queue[i].session]
<1>0. Len(queue) \in Nat /\ \A i \in D : queue[i] \in Requests
  BY LenProperties, ElementOfSeq DEF StopInv, TypeOK, QueueType
<1>1. \A i \in D : queue[i].session \in Sessions /\ StopOf(queue[i].session, queue[i])
  BY <1>0, RequestType DEF StopOf, Requests, Sessions
<1>2. \A i \in D : queue[i].session \in ended /\ QueuedOnce(queue[i].session)
  <2> SUFFICES ASSUME NEW i \in D PROVE queue[i].session \in ended /\ QueuedOnce(queue[i].session)
    OBVIOUS
  <2>1. ~NotQueued(queue[i].session)
    BY <1>1 DEF NotQueued
  <2> QED
    BY <1>1, <2>1 DEF StopInv, StopPlaces, Nowhere, InOnePlace
<1>3. \A i, j \in D : queue[i].session = queue[j].session => i = j
  BY <1>1, <1>2 DEF QueuedOnce
<1>4. f \in Injection(D, ended)
  <2>1. f \in [D -> ended] /\ \A i, j \in D : f[i] = f[j] => i = j
    BY <1>2, <1>3
  <2> HIDE DEF f, D
  <2> QED
    BY <2>1, Fun_IsInj
<1>5. IsFiniteSet(ended)
  <2>1. ended \subseteq 1..MaxSessions /\ IsFiniteSet(1..MaxSessions)
    BY BoundAssumption, FS_Interval DEF StopInv, TypeOK, HistoryType
  <2> QED
    BY <2>1, FS_Subset
<1>6. Cardinality(D) = Len(queue)
  <2>1. Cardinality(1..Len(queue)) = IF 1 > Len(queue) THEN 0 ELSE Len(queue) - 1 + 1
    BY <1>0, FS_Interval
  <2> QED
    BY <1>0, <2>1
<1> HIDE DEF f, D
<1> QED
  BY <1>4, <1>5, <1>6, FS_Injection

(* The end of a session is displaced only from a queue that is full of     *)
(* ends, at any kMaxQueue: when one was dropped, at least as many sessions *)
(* as the queue holds had ended.                                           *)
THEOREM OnlyStopsDisplaceStops == Spec => []StopsDisplaceStops
<1>1. Init => StopsDisplaceStops
  BY DEF Init, StopsDisplaceStops
<1>2. StopInv /\ StopsDisplaceStops /\ [Next]_vars => StopsDisplaceStops'
  <2> SUFFICES ASSUME StopInv, StopsDisplaceStops, [Next]_vars PROVE StopsDisplaceStops'
    OBVIOUS
  <2>0. TypeOK /\ IsFiniteSet(ended)
    <3>1. ended \subseteq 1..MaxSessions /\ IsFiniteSet(1..MaxSessions)
      BY BoundAssumption, FS_Interval DEF StopInv, TypeOK, HistoryType
    <3> QED
      BY <3>1, FS_Subset DEF StopInv
  <2>1. ASSUME NEW c \in Callers, Enqueue(c) PROVE StopsDisplaceStops'
    <3>1. dropped' = dropped \cup Given /\ ended' = ended
      BY <2>1 DEF Enqueue, Given
    <3>2. CASE Given = {}
      BY <3>1, <3>2 DEF StopsDisplaceStops
    <3>3. CASE Given # {}
      <4>1. Len(queue) = kMaxQueue /\ \A i \in 1..Len(queue) : queue[i].state = "stopped"
        BY <2>0, <3>3, RoomFacts
      <4>2. kMaxQueue <= Cardinality(ended)
        BY <4>1, FullOfStops
      <4> QED
        BY <2>0, <3>1, <4>2, QueueAssumption, FS_CardinalityType DEF StopsDisplaceStops
    <3> QED
      BY <3>2, <3>3
  <2>2. ASSUME NEW c \in Callers, EndSession(c) PROVE StopsDisplaceStops'
    <3>1. dropped' = dropped /\ ended' = ended \cup {session}
      BY <2>2 DEF EndSession
    <3>2. Cardinality(ended) \in Nat /\ Cardinality(ended') \in Nat /\ Cardinality(ended) <= Cardinality(ended')
      BY <2>0, <3>1, FS_AddElement, FS_CardinalityType
    <3> QED
      BY <3>1, <3>2, QueueAssumption DEF StopsDisplaceStops
  <2>3. ASSUME UNCHANGED <<dropped, ended>> PROVE StopsDisplaceStops'
    BY <2>3 DEF StopsDisplaceStops
  <2>4. ASSUME NEW c \in Callers, NotifyQueued(c) \/ (Call(c) /\ ~EndSession(c))
        PROVE  UNCHANGED <<dropped, ended>>
    BY <2>4 DEF NotifyQueued, Call, BeginSession, ReportState
  <2>5. ASSUME NEW tok \in Tokens, UpdateToken(tok) PROVE UNCHANGED <<dropped, ended>>
    BY <2>5 DEF UpdateToken
  <2>6. ASSUME WorkerCheck \/ WorkerSend \/ StopAndFlush \/ FlushNotify \/ FlushJoin \/ UNCHANGED vars
        PROVE  UNCHANGED <<dropped, ended>>
    BY <2>6 DEF WorkerCheck, WorkerSend, StopAndFlush, FlushNotify, FlushJoin, vars
  <2> QED
    BY <2>1, <2>2, <2>3, <2>4, <2>5, <2>6 DEF Next
<1> QED
  BY <1>1, <1>2, StopInvariant, PTL DEF Spec
=============================================================================
