----------------------------- MODULE Companion -----------------------------
(***************************************************************************)
(* The session state that arm/misterplexd/companion.cpp keeps under mu_:   *)
(* what the Plex controllers see of this player.  Every operator is one    *)
(* critical section of Companion::mu_, as a function from the record       *)
(* before it to the record after it, so that a module which interleaves    *)
(* threads can make each of them one atomic step.                          *)
(*                                                                         *)
(* Media keys are model values.  Of the pending* and server* identity      *)
(* fields only pendingKey_ is kept: the others are always written with it  *)
(* and no decision reads them.  Times are in ticks: the three thresholds   *)
(* of the code are constants.  requestTimelinePush, which the operators    *)
(* end with in the code, only sets the two flags of the push thread.       *)
(***************************************************************************)
EXTENDS Integers

CONSTANTS
    Keys,        \* media keys a controller can cast
    NoKey,       \* the empty std::string of a PlayRequest or of pendingKey_
    Catchup,     \* kScrubCatchupMs, 2000 ms
    Advance      \* kScrubAdvanceMs, 400 ms

ASSUME NoKeyAssumption == NoKey \notin Keys
ASSUME ThresholdAssumption == Catchup \in Nat /\ Advance \in Nat /\ Advance < Catchup

States == {"stopped", "buffering", "playing", "paused"}

Companions ==
    [state         : States,
     timeMs        : Nat,
     durationMs    : Nat,                \* 0 = not known
     scrubTargetMs : Nat \cup {-1},      \* -1 = no hold
     wantPlay      : BOOLEAN,
     prePlayHold   : BOOLEAN,
     castBound     : BOOLEAN,
     pendingKey    : Keys \cup {NoKey}]

InitCompanion ==
    [state |-> "stopped", timeMs |-> 0, durationMs |-> 0, scrubTargetMs |-> -1,
     wantPlay |-> FALSE, prePlayHold |-> FALSE, castBound |-> FALSE,
     pendingKey |-> NoKey]

-----------------------------------------------------------------------------

Live == {"playing", "paused", "buffering"}

\* A time, kept inside a duration when the duration is known.
Clamp(t, d) == IF d > 0 /\ t > d THEN d ELSE t

\* Late progress of a torn-down session, after clearMedia().
IgnoredAfterStop(c, st) == ~c.wantPlay /\ c.prePlayHold /\ st \in Live

\* A seek, a step or a cast has planted a target that progress is held to.
Held(c, st) == c.wantPlay /\ c.scrubTargetMs >= 0 /\ st \in Live

\* Progress that far behind the plant is the old demux, or a restart at 0.
FarBehindIgnored(c, t) == FALSE
FarBehind(c, t) == t + Catchup < c.scrubTargetMs

\* Progress past the plant by kScrubAdvanceMs, or far ahead of it.
ReleasesHold(c, t) ==
    \/ t > c.scrubTargetMs + Catchup
    \/ t >= c.scrubTargetMs + Advance

\* Companion::setState.
setState(c, st, timeMs, durationMs) ==
    LET t   == IF durationMs > 0 /\ timeMs > durationMs
               THEN durationMs ELSE Clamp(timeMs, c.durationMs)
        dur == IF durationMs > 0 THEN durationMs ELSE c.durationMs
    IN  IF IgnoredAfterStop(c, st) THEN c
        ELSE IF st = "stopped" /\ c.wantPlay
          THEN [c EXCEPT !.state = st, !.durationMs = dur]
        ELSE IF Held(c, st) /\ st = "buffering"
          THEN [c EXCEPT !.state = st, !.durationMs = dur, !.timeMs = c.scrubTargetMs]
        ELSE IF Held(c, st) /\ FarBehind(c, t)
          THEN [c EXCEPT !.state = st, !.durationMs = dur]
        ELSE [c EXCEPT !.scrubTargetMs = IF Held(c, st) /\ ReleasesHold(c, t) THEN -1 ELSE @,
                       !.state = st,
                       !.durationMs = dur,
                       !.timeMs = Clamp(t, dur),
                       !.wantPlay = @ \/ st \in Live]

\* Companion::acceptsPlayRequest.
acceptsStopped(c, key) == c.pendingKey = NoKey \/ key = NoKey \/ c.pendingKey = key

acceptsPlayRequest(c, key) ==
    c.wantPlay /\ (c.pendingKey = NoKey \/ key = NoKey \/ c.pendingKey = key)

\* Companion::bindMedia.  It refuses exactly the requests acceptsPlayRequest refuses.
bindMedia(c, key, durationMs) ==
    LET held == c.scrubTargetMs >= 0
        plant == IF held THEN Clamp(c.scrubTargetMs, durationMs) ELSE -1
    IN  [c EXCEPT !.pendingKey = key,
                  !.durationMs = durationMs,
                  !.scrubTargetMs = plant,
                  !.timeMs = IF held THEN plant ELSE Clamp(@, durationMs),
                  !.wantPlay = TRUE,
                  !.prePlayHold = FALSE]

\* Companion::seedPlaybackPosition.
seedPlaybackPosition(c, timeMs, durationMs) ==
    LET dur == IF durationMs > 0 THEN durationMs ELSE c.durationMs
        t   == Clamp(timeMs, dur)
    IN  [c EXCEPT !.durationMs = dur, !.timeMs = t, !.scrubTargetMs = t,
                  !.state = IF c.wantPlay /\ @ = "stopped" THEN "buffering" ELSE @]

\* Companion::stagePlay, and what the playMedia handler plants before its ACK.
stagePlayKeepsKey(c, key, offsetMs) ==
    [c EXCEPT !.wantPlay = TRUE, !.prePlayHold = FALSE, !.castBound = TRUE,
              !.state = "buffering", !.durationMs = 0, !.timeMs = offsetMs,
              !.scrubTargetMs = offsetMs]

stagePlay(c, key, offsetMs) ==
    [c EXCEPT !.wantPlay = TRUE, !.prePlayHold = FALSE, !.castBound = TRUE,
              !.state = "buffering", !.durationMs = 0, !.timeMs = offsetMs,
              !.scrubTargetMs = offsetMs, !.pendingKey = key]

\* Companion::clearMedia.
clearMedia(c) ==
    [c EXCEPT !.pendingKey = NoKey, !.wantPlay = FALSE, !.state = "stopped",
              !.timeMs = 0, !.durationMs = 0, !.scrubTargetMs = -1,
              !.prePlayHold = @ \/ c.castBound]

-----------------------------------------------------------------------------
(* The critical sections of the HTTP handlers.                             *)

\* Every /player/ request marks this player as the cast target.
bindCast(c) == [c EXCEPT !.castBound = TRUE]

\* The plant of seekTo, of stepForward/stepBack and of skipPrevious.
plantSeek(c, ms, d) ==
    [c EXCEPT !.scrubTargetMs = ms, !.timeMs = ms, !.state = "buffering",
              !.durationMs = IF d > 0 THEN d ELSE @, !.wantPlay = TRUE]

\* /player/timeline/poll.
pollTimeline(c) == [c EXCEPT !.castBound = TRUE, !.prePlayHold = @ \/ ~c.wantPlay]

\* /player/mirror: stages an identity unless a cast is live.
mirror(c, key) ==
    IF c.wantPlay /\ c.state \in Live
    THEN bindCast(c)
    ELSE [c EXCEPT !.pendingKey = IF key = NoKey THEN @ ELSE key,
                   !.durationMs = 0, !.prePlayHold = TRUE, !.wantPlay = FALSE,
                   !.state = "stopped", !.castBound = TRUE]

\* /player/timeline/unsubscribe by the last subscriber.
dropCast(c) == [c EXCEPT !.castBound = FALSE, !.prePlayHold = @ /\ c.wantPlay]

\* What Companion::timelineXml reports to every poller and subscriber.
timelineXml(c) ==
    LET idleHold == ~c.wantPlay /\ (c.prePlayHold \/ c.castBound)
                    /\ c.state \in {"stopped", "buffering"}
        shown == IF (c.wantPlay /\ c.state = "stopped") \/ idleHold
                 THEN "buffering" ELSE c.state
        active == c.wantPlay /\ (shown \in Live \/ c.pendingKey # NoKey)
    IN  [state    |-> shown,
         location |-> IF active THEN "fullScreenVideo" ELSE "navigation",
         time     |-> IF active THEN c.timeMs ELSE 0,
         duration |-> IF active THEN c.durationMs ELSE 0,
         key      |-> IF active THEN c.pendingKey ELSE NoKey]
=============================================================================
