---------------------------- MODULE PmsTimeline ----------------------------
(***************************************************************************)
(* PmsTimelineReporter of arm/misterplexd/pms_timeline.cpp: it tells the   *)
(* Plex server what the active title does.  Any thread of the daemon may   *)
(* call beginSession, reportState, endSession and updateToken; one worker  *)
(* thread sends the requests; main() calls stopAndFlush on its way out.    *)
(*                                                                         *)
(* A call is two sections of mu_: the request is built in the first and    *)
(* queued in the second, and cv_ is notified after that, outside mu_.      *)
(* Other calls, and the worker, may run between any two of these.          *)
(*                                                                         *)
(* Sessions are numbered in the order of beginSession.  Of a request only  *)
(* its session, its state and its token are kept.  Whether kPlayingCadence *)
(* has passed since the last "playing" is a free choice.                   *)
(***************************************************************************)
EXTENDS Integers, Sequences, FiniteSets

CONSTANTS
    Callers,        \* threads that report
    Tokens,         \* auth tokens that casts supply
    NoRequest,      \* a caller or the worker has no request in hand
    kMaxQueue,      \* 4 in the code
    MaxSessions,    \* bound on beginSession
    MaxReports      \* bound on the calls of reportState and updateToken

ASSUME QueueAssumption == kMaxQueue \in Nat \ {0}
ASSUME TokenAssumption == Tokens # {}
ASSUME BoundAssumption == MaxSessions \in Nat /\ MaxReports \in Nat

LiveStates == {"buffering", "playing", "paused"}
Requests == [session : 1..MaxSessions, state : LiveStates \cup {"stopped"}, token : Tokens,
             late : BOOLEAN]     \* history: it was queued after the worker had left

ASSUME RequestAssumption == NoRequest \notin Requests

VARIABLES
    active, session, token, lastSentState,   \* guarded by mu_
    queue, stopping,                         \* guarded by mu_
    caller,      \* where each caller is in its call
    held,        \* the request it has built and not yet queued
    worker,      \* "check" the queue, "wait" on cv_, "send", or "done"
    flight,      \* the request the worker is sending
    flush,       \* main(): "idle", "notify", "join", "returned"
    reports,     \* calls so far
    stopsSent,   \* history: how many "stopped" of each session the sink has had
    ended,       \* history: sessions whose "stopped" was built
    dropped      \* history: sessions whose "stopped" was displaced

guarded == <<active, session, token, lastSentState>>
calls   == <<caller, held>>
vars    == <<guarded, queue, stopping, calls, worker, flight, flush, reports, stopsSent,
             ended, dropped>>

-----------------------------------------------------------------------------
(* The first section of a call.                                            *)

Build(c, s, st, tok) ==
    /\ held' = [held EXCEPT ![c] = [session |-> s, state |-> st, token |-> tok, late |-> FALSE]]
    /\ caller' = [caller EXCEPT ![c] = "built"]

\* A session that the server can be told of; one that lacks a token, a rating
\* key or a base URL leaves the reporter inactive.
BeginSession(c, tok) ==
    /\ caller[c] = "idle" /\ session < MaxSessions
    /\ session' = session + 1
    /\ token' = tok
    /\ \/ /\ active' = TRUE
          /\ lastSentState' = "buffering"
          /\ Build(c, session + 1, "buffering", tok)
       \/ /\ active' = FALSE
          /\ lastSentState' = ""
          /\ UNCHANGED calls
    /\ UNCHANGED <<queue, stopping, worker, flight, flush, reports, stopsSent, ended, dropped>>

shouldSendLocked(st) == st # lastSentState \/ st = "playing"

ReportState(c, st) ==
    /\ caller[c] = "idle" /\ reports < MaxReports
    /\ active /\ shouldSendLocked(st)
    /\ reports' = reports + 1
    /\ lastSentState' = st
    /\ Build(c, session, st, token)
    /\ UNCHANGED <<active, session, token, queue, stopping, worker, flight, flush, stopsSent, ended,
                   dropped>>

EndSessionStaysActive(c) ==
    /\ caller[c] = "idle"
    /\ active
    /\ lastSentState' = "stopped"
    /\ Build(c, session, "stopped", token)
    /\ ended' = ended \cup {session}
    /\ UNCHANGED <<active, session, token, queue, stopping, worker, flight, flush, reports, stopsSent,
                   dropped>>

EndSession(c) ==
    /\ caller[c] = "idle"
    /\ active
    /\ active' = FALSE
    /\ lastSentState' = "stopped"
    /\ Build(c, session, "stopped", token)
    /\ ended' = ended \cup {session}
    /\ UNCHANGED <<session, token, queue, stopping, worker, flight, flush, reports, stopsSent,
                   dropped>>

UpdateToken(tok) ==
    /\ reports < MaxReports
    /\ active /\ token # tok
    /\ token' = tok
    /\ reports' = reports + 1
    /\ UNCHANGED <<active, session, lastSentState, queue, stopping, calls, worker, flight, flush,
                   stopsSent, ended, dropped>>

-----------------------------------------------------------------------------
(* enqueue: the second section, and the notification after it.             *)

\* The oldest request that is not a "stopped" makes room, else the oldest.
MakeRoomFront == 1
MakeRoom ==
    LET lesser == {i \in 1..Len(queue) : queue[i].state # "stopped"}
    IN  IF lesser = {} THEN 1 ELSE CHOOSE i \in lesser : \A j \in lesser : i <= j

Without(q, i) == SubSeq(q, 1, i - 1) \o SubSeq(q, i + 1, Len(q))

QueueFull == Len(queue) >= kMaxQueue

Enqueue(c) ==
    LET room == IF QueueFull THEN Without(queue, MakeRoom) ELSE queue
        out  == IF QueueFull /\ queue[MakeRoom].state = "stopped"
                THEN {queue[MakeRoom].session} ELSE {}
    IN  /\ caller[c] = "built"
        /\ queue' = Append(room, [held[c] EXCEPT !.late = (worker = "done")])
        /\ dropped' = dropped \cup out
        /\ held' = [held EXCEPT ![c] = NoRequest]
        /\ caller' = [caller EXCEPT ![c] = "notify"]
        /\ UNCHANGED <<guarded, stopping, worker, flight, flush, reports, stopsSent, ended>>

\* cv_.notify_one wakes the worker if it waits; a notification is not kept.
notifyNobody == UNCHANGED worker
notify_one == worker' = IF worker = "wait" THEN "check" ELSE worker

NotifyQueued(c) ==
    /\ caller[c] = "notify"
    /\ notify_one
    /\ caller' = [caller EXCEPT ![c] = "idle"]
    /\ UNCHANGED <<guarded, queue, stopping, held, flight, flush, reports, stopsSent, ended, dropped>>

-----------------------------------------------------------------------------
(* workerLoop and stopAndFlush.                                            *)

\* cv_.wait's predicate is tested under mu_: the worker goes to sleep, takes
\* the front of the queue, or leaves once the queue is empty.
WorkerLeavesEarly ==
    /\ worker = "check"
    /\ IF stopping
       THEN worker' = "done" /\ UNCHANGED <<queue, flight>>
       ELSE IF queue # <<>>
       THEN /\ flight' = Head(queue) /\ queue' = Tail(queue) /\ worker' = "send"
       ELSE worker' = "wait" /\ UNCHANGED <<queue, flight>>
    /\ UNCHANGED <<guarded, stopping, calls, flush, reports, stopsSent, ended, dropped>>

WorkerCheck ==
    /\ worker = "check"
    /\ IF queue # <<>>
       THEN /\ flight' = Head(queue)
            /\ queue' = Tail(queue)
            /\ worker' = "send"
       ELSE /\ worker' = IF stopping THEN "done" ELSE "wait"
            /\ UNCHANGED <<queue, flight>>
    /\ UNCHANGED <<guarded, stopping, calls, flush, reports, stopsSent, ended, dropped>>

\* A failed HTTP request is logged and not tried again.
WorkerSend ==
    /\ worker = "send"
    /\ stopsSent' = IF flight.state = "stopped"
                    THEN [stopsSent EXCEPT ![flight.session] = @ + 1] ELSE stopsSent
    /\ flight' = NoRequest
    /\ worker' = "check"
    /\ UNCHANGED <<guarded, queue, stopping, calls, flush, reports, ended, dropped>>

StopAndFlush ==
    /\ flush = "idle"
    /\ stopping' = TRUE
    /\ flush' = "notify"
    /\ UNCHANGED <<guarded, queue, calls, worker, flight, reports, stopsSent, ended, dropped>>

FlushForgetsNotify ==
    /\ flush = "notify"
    /\ flush' = "join"
    /\ UNCHANGED <<guarded, queue, stopping, calls, worker, flight, reports, stopsSent, ended, dropped>>

FlushNotify ==
    /\ flush = "notify"
    /\ notify_one
    /\ flush' = "join"
    /\ UNCHANGED <<guarded, queue, stopping, calls, flight, reports, stopsSent, ended, dropped>>

FlushJoin ==
    /\ flush = "join" /\ worker = "done"
    /\ flush' = "returned"
    /\ UNCHANGED <<guarded, queue, stopping, calls, worker, flight, reports, stopsSent, ended, dropped>>

-----------------------------------------------------------------------------

Init ==
    /\ active = FALSE /\ session = 0 /\ token = (CHOOSE t \in Tokens : TRUE) /\ lastSentState = ""
    /\ queue = <<>> /\ stopping = FALSE
    /\ caller = [c \in Callers |-> "idle"]
    /\ held = [c \in Callers |-> NoRequest]
    /\ worker = "check" /\ flight = NoRequest /\ flush = "idle"
    /\ reports = 0 /\ stopsSent = [s \in 1..MaxSessions |-> 0]
    /\ ended = {} /\ dropped = {}

Call(c) ==
    \/ \E tok \in Tokens : BeginSession(c, tok)
    \/ \E st \in LiveStates : ReportState(c, st)
    \/ EndSession(c)

Next ==
    \/ \E c \in Callers : Call(c) \/ Enqueue(c) \/ NotifyQueued(c)
    \/ \E tok \in Tokens : UpdateToken(tok)
    \/ WorkerCheck \/ WorkerSend
    \/ StopAndFlush \/ FlushNotify \/ FlushJoin

Spec == Init /\ [][Next]_vars

\* A call that has begun returns, the worker runs when it can, and main() goes
\* on once it has begun to flush.  Nobody is obliged to call.
FairSpec ==
    /\ Spec
    /\ \A c \in Callers : WF_vars(Enqueue(c) \/ NotifyQueued(c))
    /\ WF_vars(WorkerCheck \/ WorkerSend)
    /\ WF_vars(FlushNotify \/ FlushJoin)

-----------------------------------------------------------------------------
(* Properties.                                                             *)

GuardedType ==
    /\ active \in BOOLEAN /\ session \in 0..MaxSessions /\ token \in Tokens
    /\ lastSentState \in LiveStates \cup {"stopped", ""}
QueueType == queue \in Seq(Requests) /\ Len(queue) <= kMaxQueue
CallsType ==
    /\ caller \in [Callers -> {"idle", "built", "notify"}]
    /\ held \in [Callers -> Requests \cup {NoRequest}]
    /\ \A c \in Callers : caller[c] = "built" <=> held[c] # NoRequest
WorkerType ==
    /\ worker \in {"check", "wait", "send", "done"}
    /\ flight \in Requests \cup {NoRequest}
    /\ worker = "send" <=> flight # NoRequest
    /\ flush \in {"idle", "notify", "join", "returned"} /\ stopping \in BOOLEAN
HistoryType ==
    /\ reports \in 0..MaxReports
    /\ stopsSent \in [1..MaxSessions -> Nat]
    /\ ended \subseteq 1..MaxSessions /\ dropped \subseteq 1..MaxSessions

\* The shape of the reporter, its callers and its worker: the queue keeps to
\* kMaxQueue, and a request is held exactly between the two sections of a call.
TypeOK == GuardedType /\ QueueType /\ CallsType /\ WorkerType /\ HistoryType

\* Where the "stopped" reports of session s are now.
StopOf(s, r) == r # NoRequest /\ r.session = s /\ r.state = "stopped"
StopsOf(s) ==
    Cardinality({c \in Callers : StopOf(s, held[c])})
    + Cardinality({i \in 1..Len(queue) : StopOf(s, queue[i])})
    + (IF StopOf(s, flight) THEN 1 ELSE 0)
    + stopsSent[s]

\* The server hears of the end of a session exactly once, unless the queue
\* overflowed with "stopped" reports: endSession is called by whichever of
\* stop, EOF and a failed start comes first, and again by the others.
OneStop == \A s \in ended : StopsOf(s) = IF s \in dropped THEN 0 ELSE 1

\* A session that has ended is not reported on again: no request is built for
\* it, whoever calls (late progress of the old media thread included).
EndedIsSilent ==
    [][\A c \in Callers : held'[c] # held[c] /\ held'[c] # NoRequest
          => held'[c].session \notin ended]_vars

\* The end of a session is displaced only from a queue that is full of ends: a
\* report of progress never pushes it out while there is progress to push out.
StopsDisplaceStops == dropped # {} => Cardinality(ended) >= kMaxQueue

\* stopAndFlush joins a worker that has sent everything queued before it left.
FlushDrains == worker = "done" => \A i \in 1..Len(queue) : queue[i].late

\* Whatever is queued is sent: no wakeup of the worker is lost.
QueueDrains == []<>(queue = <<>> \/ worker = "done")

\* stopAndFlush returns.
FlushReturns == flush = "notify" ~> flush = "returned"
=============================================================================
