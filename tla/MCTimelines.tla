------------------------------ MODULE MCTimelines ------------------------------
(***************************************************************************)
(* The two reports of what is playing, in one run: to the Plex server      *)
(* (PmsTimeline) and to the controllers that subscribed (TimelinePush).    *)
(* They share nothing but the session they report, so a behaviour is one   *)
(* of the two and the other stands still in its initial state.             *)
(***************************************************************************)
EXTENDS PmsTimeline, TimelinePush

VARIABLE reporter

timelineVars == <<reporter, vars, pushVars>>

ToServer(A)      == reporter = "server" /\ A /\ UNCHANGED <<reporter, pushVars>>
ToControllers(A) == reporter = "controllers" /\ A /\ UNCHANGED <<reporter, vars>>

TimelinesInit == reporter \in {"server", "controllers"} /\ Init /\ PushInit
TimelinesNext == ToServer(Next) \/ ToControllers(PushNext)

\* The fairness of FairSpec and of PushSpec.
TimelinesSpec ==
    /\ TimelinesInit /\ [][TimelinesNext]_timelineVars
    /\ \A c \in Callers : WF_timelineVars(ToServer(Enqueue(c) \/ NotifyQueued(c)))
    /\ WF_timelineVars(ToServer(WorkerCheck \/ WorkerSend))
    /\ WF_timelineVars(ToServer(FlushNotify \/ FlushJoin))
    /\ WF_timelineVars(ToControllers(PushFair))

--------------------------------------------------------------------------------
\* The states of the two reporters are of the shape their modules give them.
TimelinesTypeOK == TypeOK /\ PushTypeOK

\* On the way out main() joins a worker that has sent what was queued, and a push
\* thread that its notification woke unless it fell before the wait.
EndsClean == FlushDrains /\ StopWakes
================================================================================
