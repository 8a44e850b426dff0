----------------------------- MODULE TimelinePush -----------------------------
(***************************************************************************)
(* The push thread of arm/misterplexd/companion.cpp: it posts the timeline *)
(* to the controllers that subscribed.  Three threads meet here: the HTTP  *)
(* thread, which subscribes controllers and notes their command ids; a     *)
(* player thread, which changes the session and asks for a push; and the   *)
(* push thread, which copies the subscriber list and posts without a lock. *)
(* main() ends the three with Companion::stop.                             *)
(*                                                                         *)
(* The session is its version number: what a post shows is the version     *)
(* timelineXml read.  A controller has one callback port, so that host and *)
(* id name an endpoint.  The flags of requestTimelinePush and its notify   *)
(* are one step: a push thread that looks in between sees the flags.       *)
(* Command ids are numbers; 0 is the empty string and the "0" that stands  *)
(* for it.  Each thread takes its locks one at a time.                     *)
(***************************************************************************)
EXTENDS Integers, SequencesExt

CONSTANTS
    Ids, NoId,           \* client identifiers, and a request that carries none
    Hosts,               \* peer addresses
    kMaxSubscribers,     \* 8 in the code
    kMaxControllers,     \* 16 in the code
    MaxCommand,          \* command ids are 1..MaxCommand
    MaxRequests,         \* bound on HTTP requests
    MaxChanges,          \* bound on changes of the session
    MaxEvents            \* bound on both together

ASSUME PushAssumption ==
    /\ NoId \notin Ids /\ Hosts \cap (Ids \cup {NoId}) = {}
    /\ kMaxSubscribers \in Nat \ {0} /\ kMaxControllers \in Nat \ {0}
    /\ MaxCommand \in Nat /\ MaxRequests \in Nat /\ MaxChanges \in Nat /\ MaxEvents \in Nat

Endpoints == Ids \cup Hosts      \* a subscriber without an id is named by its address

VARIABLES
    version,      \* of the session, under mu_
    pushFlags,        \* timelinePushPending_, timelinePushImmediate_
    periodic,     \* nextPeriodic has passed
    subscribers,  \* subscribers_, oldest first
    controllers,  \* controllerCommands_, oldest first
    http,         \* the HTTP thread: what it does next, and for which request
    player,       \* the player thread: "idle", or the push it is about to ask for
    push,         \* the push thread, and the copies it has still to post
    ending,     \* main(): "no", "cleared", "notified", "returned"
    requests,     \* HTTP requests so far
    posted,        \* history: the version each endpoint was last posted
    lastCommand,  \* history: the command id each endpoint was last posted
    mixed,        \* history: a controller's id was forgotten, or shared by its host
    spared,       \* history: the fewest failures of its own that dropped a subscriber
    pushMissed        \* history: notify_all came between the predicate and the wait

pushVars == <<version, pushFlags, periodic, subscribers, controllers, http, player, push, ending,
              requests, posted, lastCommand, mixed, spared, pushMissed>>
history  == <<posted, lastCommand, mixed, spared, pushMissed>>

Subscribers == [id : Endpoints, host : Hosts, commandId : 0..MaxCommand, failures : 0..2,
                own : 0..2]      \* history: failed posts begun since it registered
Controllers == [id : Ids \cup {NoId}, host : Hosts, commandId : 0..MaxCommand]
HttpRequests == [id : Ids \cup {NoId}, host : Hosts, commandId : 0..MaxCommand,
             op : {"subscribe", "unsubscribe", "other"}]

running == ending = "no"

PushInit ==
    /\ version = 0 /\ periodic = TRUE /\ player = "idle" /\ ending = "no" /\ requests = 0
    /\ pushFlags = [pending |-> FALSE, immediate |-> FALSE]
    /\ subscribers = <<>> /\ controllers = <<>>
    /\ http = [pc |-> "idle"]
    /\ push = [pc |-> "check", batch |-> <<>>, stale |-> FALSE]
    /\ posted = [e \in Endpoints |-> -1] /\ lastCommand = [e \in Endpoints |-> 0]
    /\ mixed = FALSE /\ spared = 3 /\ pushMissed = FALSE

-----------------------------------------------------------------------------
(* Asking for a push.                                                      *)

\* The push thread holds timelinePushMu_ from its predicate to its wait.
\* requestTimelinePush sets the flags under that mutex and notifies.
requestTimelinePush(immediate) ==
    /\ push.pc # "parking"
    /\ pushFlags' = [pending |-> TRUE, immediate |-> pushFlags.immediate \/ immediate]
    /\ push' = IF push.pc = "waiting" THEN [push EXCEPT !.pc = "check"] ELSE push

\* The session changes under mu_; the push is asked for after the unlock.  A
\* change of state asks for an immediate one, progress for a periodic one.
SessionChanges(immediate) ==
    /\ player = "idle" /\ version < MaxChanges /\ version + requests < MaxEvents
    /\ version' = version + 1
    /\ player' = IF immediate THEN "immediate" ELSE "periodic"
    /\ UNCHANGED <<pushFlags, periodic, subscribers, controllers, http, push, ending, requests,
                   history>>

SessionPushes ==
    /\ player # "idle"
    /\ requestTimelinePush(player = "immediate")
    /\ player' = "idle"
    /\ UNCHANGED <<version, periodic, subscribers, controllers, http, ending, requests, history>>

-----------------------------------------------------------------------------
(* The HTTP thread.                                                        *)

IsController(c, id, host) == IF id # NoId THEN c.id = id ELSE c.id = NoId /\ c.host = host
IsAddressed(s, id, host) == IF id # NoId THEN s.id = id ELSE s.host = host

commandIsNewerOrEqual(candidate, current) == candidate >= current

\* Where the controller's entry is; there is at most one.
Known(r) == {i \in 1..Len(controllers) : IsController(controllers[i], r.id, r.host)}

\* The command id the controller is at after this request.
EffectiveAsSent(r) == r.commandId
Effective(r) ==
    LET at == controllers[CHOOSE i \in Known(r) : TRUE].commandId
    IN  IF Known(r) = {} \/ commandIsNewerOrEqual(r.commandId, at) THEN r.commandId ELSE at

\* updateTimelineCommand; an empty id changes nothing.
updateTimelineCommand(r) ==
    LET known == Known(r) # {}
        entry == [id |-> r.id, host |-> r.host, commandId |-> r.commandId]
        full  == Len(controllers) >= kMaxControllers
    IN  IF r.commandId = 0 THEN UNCHANGED <<controllers, subscribers, mixed>> ELSE
        /\ controllers' =
             IF known
             THEN [i \in 1..Len(controllers) |->
                     IF i \in Known(r)
                     THEN [controllers[i] EXCEPT !.commandId = Effective(r)] ELSE controllers[i]]
             ELSE Append(IF full THEN Tail(controllers) ELSE controllers, entry)
        /\ subscribers' = [i \in 1..Len(subscribers) |->
             IF IsAddressed(subscribers[i], r.id, r.host)
             THEN [subscribers[i] EXCEPT !.commandId = Effective(r)] ELSE subscribers[i]]
        /\ mixed' = (mixed \/ (~known /\ full) \/ r.id = NoId)

\* A request is read: timelineCommandFor, then the handler of its path.
HttpRequest(r) ==
    /\ http.pc = "idle" /\ running /\ requests < MaxRequests
    /\ version + requests < MaxEvents
    /\ requests' = requests + 1
    /\ updateTimelineCommand(r)
    /\ http' = IF r.op = "other" THEN http
               ELSE [pc |-> r.op, id |-> r.id, host |-> r.host, commandId |-> Effective(r)]
    /\ UNCHANGED <<version, pushFlags, periodic, player, push, ending, posted, lastCommand, spared,
                   pushMissed>>

\* subscribeTimeline: a known id is replaced in place, a new one may evict the oldest.
SubscriberOf(r) ==
    [id |-> IF r.id = NoId THEN r.host ELSE r.id, host |-> r.host, commandId |-> r.commandId,
     failures |-> 0, own |-> 0]

EnrolledAnyway(s) ==
    IF \E i \in 1..Len(subscribers) : subscribers[i].id = s.id
    THEN [i \in 1..Len(subscribers) |-> IF subscribers[i].id = s.id THEN s ELSE subscribers[i]]
    ELSE Append(subscribers, s)

EnrolledKeepsFailures(s) ==
    IF \E i \in 1..Len(subscribers) : subscribers[i].id = s.id
    THEN [i \in 1..Len(subscribers) |->
            IF subscribers[i].id = s.id THEN [s EXCEPT !.failures = subscribers[i].failures] ELSE subscribers[i]]
    ELSE Append(IF Len(subscribers) >= kMaxSubscribers THEN Tail(subscribers) ELSE subscribers, s)

Enrolled(s) ==
    IF \E i \in 1..Len(subscribers) : subscribers[i].id = s.id
    THEN [i \in 1..Len(subscribers) |-> IF subscribers[i].id = s.id THEN s ELSE subscribers[i]]
    ELSE Append(IF Len(subscribers) >= kMaxSubscribers THEN Tail(subscribers) ELSE subscribers, s)

SubscribeSilently ==
    /\ http.pc = "subscribe"
    /\ subscribers' = Enrolled(SubscriberOf(http))
    /\ http' = [pc |-> "idle"]
    /\ UNCHANGED <<version, pushFlags, periodic, controllers, player, push, ending, requests, history>>

Subscribe ==
    /\ http.pc = "subscribe"
    /\ subscribers' = Enrolled(SubscriberOf(http))
    /\ http' = [pc |-> "push"]
    /\ push' = IF push.pc = "posting" /\ Head(push.batch).id = SubscriberOf(http).id
               THEN [push EXCEPT !.stale = TRUE] ELSE push
    /\ UNCHANGED <<version, pushFlags, periodic, controllers, player, ending, requests, history>>

SubscribePushes ==
    /\ http.pc = "push"
    /\ requestTimelinePush(TRUE)
    /\ http' = [pc |-> "idle"]
    /\ UNCHANGED <<version, periodic, subscribers, controllers, player, ending, requests, history>>

\* unsubscribeTimeline: the others stay, in their order.
Unsubscribe ==
    /\ http.pc = "unsubscribe"
    /\ LET kept == {i \in 1..Len(subscribers) : ~IsAddressed(subscribers[i], http.id, http.host)}
       IN  \E f \in [1..Cardinality(kept) -> kept] :
             /\ \A i, j \in DOMAIN f : i < j => f[i] < f[j]
             /\ subscribers' = [i \in DOMAIN f |-> subscribers[f[i]]]
    /\ http' = [pc |-> "idle"]
    /\ UNCHANGED <<version, pushFlags, periodic, controllers, player, push, ending, requests, history>>

HttpEnds ==
    /\ http.pc = "idle" /\ ~running
    /\ http' = [pc |-> "done"]
    /\ UNCHANGED <<version, pushFlags, periodic, subscribers, controllers, player, push, ending,
                   requests, history>>

-----------------------------------------------------------------------------
(* timelinePushLoop.                                                       *)

PushAt(pc) == [pc |-> pc, batch |-> <<>>, stale |-> FALSE]

\* The head of the loop and the predicate of the first wait.
PushCheck ==
    /\ push.pc = "check"
    /\ push' = PushAt(IF ~running THEN "done" ELSE IF pushFlags.pending THEN "pace" ELSE "parking")
    /\ UNCHANGED <<version, pushFlags, periodic, subscribers, controllers, http, player, ending,
                   requests, history>>

\* The predicate was false: the wait gives the mutex up.
PushPark ==
    /\ push.pc = "parking"
    /\ push' = PushAt("waiting")
    /\ UNCHANGED <<version, pushFlags, periodic, subscribers, controllers, http, player, ending,
                   requests, history>>

\* The timed wait: an immediate request or the second since the last round.
PushPaced ==
    /\ push.pc = "pace" /\ (pushFlags.immediate \/ periodic)
    /\ pushFlags' = [pending |-> FALSE, immediate |-> FALSE]
    /\ push' = PushAt("copy")
    /\ UNCHANGED <<version, periodic, subscribers, controllers, http, player, ending, requests,
                   history>>

PushStopped ==
    /\ push.pc = "pace" /\ ~pushFlags.immediate /\ ~periodic /\ ~running
    /\ push' = PushAt("done")
    /\ UNCHANGED <<version, pushFlags, periodic, subscribers, controllers, http, player, ending,
                   requests, history>>

SecondPasses ==
    /\ ~periodic
    /\ periodic' = TRUE
    /\ UNCHANGED <<version, pushFlags, subscribers, controllers, http, player, push, ending, requests,
                   history>>

PushCopy ==
    /\ push.pc = "copy"
    /\ push' = [pc |-> "next", batch |-> subscribers, stale |-> FALSE]
    /\ UNCHANGED <<version, pushFlags, periodic, subscribers, controllers, http, player, ending,
                   requests, history>>

\* timelineXml is read under mu_ and the post begins.
PostBegins ==
    /\ push.pc = "next" /\ push.batch # <<>>
    /\ LET s == Head(push.batch)
       IN  /\ posted' = [posted EXCEPT ![s.id] = version]
           /\ lastCommand' = [lastCommand EXCEPT ![s.id] = s.commandId]
    /\ push' = [pc |-> "posting", batch |-> push.batch, stale |-> FALSE]
    /\ UNCHANGED <<version, pushFlags, periodic, subscribers, controllers, http, player, ending,
                   requests, mixed, spared, pushMissed>>

\* The answer, the refusal or the timeout, counted on whoever holds the endpoint now.
Counted(s, ok) ==
    IF ok THEN [s EXCEPT !.failures = 0, !.own = 0]
    ELSE [s EXCEPT !.failures = @ + 1, !.own = IF push.stale THEN @ ELSE @ + 1]

PostEnds(ok) ==
    /\ push.pc = "posting"
    /\ push' = [pc |-> "next", batch |-> Tail(push.batch), stale |-> FALSE]
    /\ LET b    == Head(push.batch)
           mine == {i \in 1..Len(subscribers) : subscribers[i].id = b.id /\ subscribers[i].host = b.host}
           now(i) == Counted(subscribers[i], ok)
       IN  \/ mine = {} /\ UNCHANGED <<subscribers, spared>>
           \/ \E i \in mine :
                IF now(i).failures >= 3
                THEN /\ subscribers' = RemoveAt(subscribers, i)
                     /\ spared' = IF now(i).own < spared THEN now(i).own ELSE spared
                ELSE subscribers' = [subscribers EXCEPT ![i] = now(i)] /\ UNCHANGED spared
    /\ UNCHANGED <<version, pushFlags, periodic, controllers, http, player, ending, requests, posted,
                   lastCommand, mixed, pushMissed>>

RoundEnds ==
    /\ push.pc = "next" /\ push.batch = <<>>
    /\ periodic' = FALSE
    /\ push' = PushAt("check")
    /\ UNCHANGED <<version, pushFlags, subscribers, controllers, http, player, ending, requests,
                   history>>

-----------------------------------------------------------------------------
(* Companion::stop.                                                        *)

StopClears ==
    /\ ending = "no"
    /\ ending' = "cleared"
    /\ UNCHANGED <<version, pushFlags, periodic, subscribers, controllers, http, player, push, requests,
                   history>>

\* notify_all, without timelinePushMu_: a thread that is about to wait misses it.
StopNotifies ==
    /\ ending = "cleared"
    /\ ending' = "notified"
    /\ push' = IF push.pc = "waiting" THEN PushAt("check") ELSE push
    /\ pushMissed' = (push.pc = "parking")
    /\ UNCHANGED <<version, pushFlags, periodic, subscribers, controllers, http, player, requests,
                   posted, lastCommand, mixed, spared>>

StopJoined ==
    /\ ending = "notified" /\ http.pc = "done" /\ push.pc = "done"
    /\ ending' = "returned"
    /\ UNCHANGED <<version, pushFlags, periodic, subscribers, controllers, http, player, push, requests,
                   history>>

-----------------------------------------------------------------------------

PushNext ==
    \/ \E imm \in BOOLEAN : SessionChanges(imm)
    \/ SessionPushes
    \/ \E r \in HttpRequests : HttpRequest(r)
    \/ Subscribe \/ SubscribePushes \/ Unsubscribe \/ HttpEnds
    \/ PushCheck \/ PushPark \/ PushPaced \/ PushStopped \/ SecondPasses \/ PushCopy \/ PostBegins
    \/ \E ok \in BOOLEAN : PostEnds(ok)
    \/ RoundEnds
    \/ StopClears \/ StopNotifies \/ StopJoined

\* Threads that can run do; a post ends within its timeouts and a second passes.
\* Nothing says that a request or a stop arrives.
PushFair ==
    \/ SessionPushes \/ Subscribe \/ SubscribePushes \/ Unsubscribe \/ HttpEnds
    \/ PushCheck \/ PushPark \/ PushPaced \/ PushStopped \/ SecondPasses \/ PushCopy \/ PostBegins
    \/ \E ok \in BOOLEAN : PostEnds(ok)
    \/ RoundEnds \/ StopNotifies \/ StopJoined

PushSpec == PushInit /\ [][PushNext]_pushVars /\ WF_pushVars(PushFair)

-----------------------------------------------------------------------------
(* Properties.                                                             *)

\* The lists keep to their limits and name nobody twice, the threads keep to their
\* steps; no count of failures reaches three.
SessionType ==
    /\ version \in 0..MaxChanges /\ requests \in 0..MaxRequests
    /\ pushFlags \in [pending : BOOLEAN, immediate : BOOLEAN] /\ periodic \in BOOLEAN
    /\ player \in {"idle", "immediate", "periodic"}
    /\ ending \in {"no", "cleared", "notified", "returned"}
Distinct(list) == \A i, j \in 1..Len(list) : list[i].id = list[j].id => i = j
ListsType ==
    /\ subscribers \in Seq(Subscribers) /\ controllers \in Seq(Controllers)
    /\ Len(subscribers) <= kMaxSubscribers /\ Len(controllers) <= kMaxControllers
    /\ Distinct(subscribers)
    /\ \A i, j \in 1..Len(controllers) :
         IsController(controllers[i], controllers[j].id, controllers[j].host) => i = j
HttpType ==
    http \in [pc : {"idle", "push", "done"}]
             \cup [pc : {"subscribe", "unsubscribe"}, id : Ids \cup {NoId}, host : Hosts,
                   commandId : 0..MaxCommand]
PushType ==
    /\ push \in [pc : {"check", "parking", "waiting", "pace", "copy", "next", "posting", "done"},
                 batch : Seq(Subscribers), stale : BOOLEAN]
    /\ push.pc = "posting" => push.batch # <<>>
    /\ Distinct(push.batch)
HistoryTypes ==
    /\ posted \in [Endpoints -> -1..MaxChanges] /\ lastCommand \in [Endpoints -> 0..MaxCommand]
    /\ mixed \in BOOLEAN /\ spared \in 0..3 /\ pushMissed \in BOOLEAN
PushTypeOK == SessionType /\ ListsType /\ HttpType /\ PushType /\ HistoryTypes

\* A subscriber is dropped after three failures in a row, of which at most one
\* was of a post that began before it subscribed (it is counted on the new
\* registration, which has the same endpoint).
DropEarned == spared >= 2

\* The command ids an endpoint is posted only go forward, unless the controller
\* table had to forget one or a request without a client identifier, which
\* speaks for every subscriber of its host, came from there.
CommandForward == [][\A e \in Endpoints : lastCommand'[e] >= lastCommand[e] \/ mixed]_pushVars

\* A push that was asked for is not lost: while the companion runs, every
\* subscriber is in the end posted the session as it is at the end, however the
\* request fell between the copy of the list, the posts and the wait.
LastVersionShown ==
    <>[](running => \A i \in 1..Len(subscribers) : posted[subscribers[i].id] = version)

\* Companion::stop joins a push thread that sleeps only if its notification fell
\* between the predicate and the wait (stop does not take timelinePushMu_).
StopWakes == push.pc = "waiting" /\ ending \in {"notified", "returned"} => pushMissed
=============================================================================
