--------------------------------- MODULE AvLock ---------------------------------
(***************************************************************************)
(* The audio pump and the present loop of one session in                   *)
(* arm/misterplexd/media_player.cpp, which wait for each other: the pump   *)
(* holds audio back until the pictures have caught up, and the present     *)
(* loop ("strict", 240p and 480p) holds a picture until its time is heard. *)
(* At 720p ("live") pictures do not wait.  At the end of the stream the    *)
(* play thread joins the pump before it reports "ended".                   *)
(*                                                                         *)
(* Time is in milliseconds, in steps of Chunk.  The session is not paused, *)
(* stopped or sought, and the decoder may be slow.  The rate servo, which  *)
(* bends the pace by at most one percent, is not kept; the depth it steers *)
(* to, which is also the prefill, is Target.                               *)
(***************************************************************************)
EXTENDS Integers, FiniteSetsExt

CONSTANTS
    Chunk,         \* one write, 20 ms
    Period,        \* of a picture
    Target,        \* kFeedTargetBytes, 100 ms
    DropMs,        \* resyncDropMs_, 80
    Lead,          \* presentLeadMs_, 0
    Slacks,        \* audioHoldSlackMs_ the session finds: 80, or what the last 720p one left
    Depths,        \* of {"known", "unknown"}: whether the driver tells its depth
    AvModes,       \* of {"strict", "live"}
    MaxPictures,   \* pictures of the stream
    Tails,         \* by how much the audio track outlasts the pictures
    Reanchor       \* how far behind the pump gives its debt up, 1000 in the code

ASSUME AvAssumption ==
    /\ Chunk \in Nat \ {0} /\ Period \in Nat \ {0} /\ MaxPictures \in Nat \ {0}
    /\ Target \in Nat /\ DropMs \in Nat /\ Lead \in Nat /\ Reanchor \in Nat
    /\ Slacks \subseteq Int /\ Tails \subseteq Nat
    /\ AvModes \subseteq {"strict", "live"} /\ Depths \subseteq {"known", "unknown"}

VARIABLES
    avMode, slack, depth, tail,
    written,    \* audioBytes_
    queued,     \* what the driver has still to play
    sampled,    \* audioQueuedBytes_, -1 for unknown
    chunks,     \* chunkIndex, modulo 4
    behind,     \* now - audioDue
    pump,       \* "read", "hold", "paced", "done"
    shownCount, \* presentCount_
    picture,    \* the picture the present loop works on
    drops,      \* dropRun
    present,    \* "decode", "pace", "eof"
    avSession     \* "playing", "joining", "ended"

avVars == <<avMode, slack, depth, tail, written, queued, sampled, chunks, behind, pump, shownCount,
            picture, drops, present, avSession>>
regime == <<avMode, slack, depth, tail>>

AvInit ==
    /\ avMode \in AvModes /\ slack \in Slacks /\ depth \in Depths /\ tail \in Tails
    /\ written = 0 /\ queued = 0 /\ sampled = -1 /\ chunks = 0 /\ behind = 0
    /\ pump = "read" /\ shownCount = 0 /\ picture = 1 /\ drops = 0
    /\ present = "decode" /\ avSession = "playing"

-----------------------------------------------------------------------------
(* The clocks.                                                             *)

audioActive == pump # "done"

\* audibleClockUs: what was handed over less what the last sample found queued.
audible == Max({0, written - IF sampled >= 0 THEN sampled ELSE 0})

frameContentUs(n) == n * Period

avDecide(drift) ==
    IF DropMs > 0 /\ drift > DropMs /\ drops < 1 THEN "drop"
    ELSE IF drift + Lead < 0 THEN "hold" ELSE "present"

\* The driver plays; the schedule falls behind.
Tick ==
    /\ avSession # "ended"
    /\ queued' = Max({0, queued - Chunk})
    /\ behind' = Min({behind + Chunk, Reanchor + 2 * Chunk})   \* bound: as good as any more
    /\ UNCHANGED <<regime, written, sampled, chunks, pump, shownCount, picture, drops, present,
                   avSession>>

-----------------------------------------------------------------------------
(* audioPump.                                                              *)

TrackLength == MaxPictures * Period + tail

\* A chunk is read and written; the last one may be short.
PumpWrites ==
    /\ pump = "read" /\ written < TrackLength
    /\ LET n == Min({Chunk, TrackLength - written})
       IN  written' = written + n /\ queued' = queued + n
    /\ pump' = "hold"
    /\ UNCHANGED <<regime, sampled, chunks, behind, shownCount, picture, drops, present, avSession>>

\* Heard audio is held to presented pictures; before the first one it is free.
HoldOver == shownCount <= 0 \/ written <= shownCount * Period + slack

\* The first chunk anchors the schedule Target ago; a long debt is given up.
PumpReleased ==
    /\ pump = "hold" /\ HoldOver
    /\ LET n   == IF written % Chunk = 0 THEN Chunk ELSE written % Chunk
           due == (IF written <= Chunk THEN Target ELSE behind) - n
       IN  behind' = IF due > Reanchor THEN 0 ELSE due
    /\ pump' = "paced"
    /\ UNCHANGED <<regime, written, queued, sampled, chunks, shownCount, picture, drops, present,
                   avSession>>

\* Once the chunk is due the depth is sampled, every fourth time, and smoothed.
PumpSamples ==
    /\ pump = "paced" /\ behind >= 0
    /\ sampled' = IF chunks # 0 THEN sampled
                  ELSE IF depth = "unknown" THEN -1
                  ELSE IF sampled < 0 THEN queued ELSE (sampled * 3 + queued) \div 4
    /\ chunks' = (chunks + 1) % 4
    /\ pump' = "read"
    /\ UNCHANGED <<regime, written, queued, behind, shownCount, picture, drops, present, avSession>>

\* The end of the track, or of what the killed decoder left in the pipe.
PumpEnds ==
    /\ pump = "read" /\ (written >= TrackLength \/ avSession = "joining")
    /\ pump' = "done"
    /\ UNCHANGED <<regime, written, queued, sampled, chunks, behind, shownCount, picture, drops,
                   present, avSession>>

-----------------------------------------------------------------------------
(* The present loop.                                                       *)

PictureDecoded ==
    /\ present = "decode" /\ picture <= MaxPictures
    /\ present' = "pace"
    /\ UNCHANGED <<regime, written, queued, sampled, chunks, behind, pump, shownCount, picture,
                   drops, avSession>>

\* When the pump is gone the wall clock decides, in time for every picture.
Decision == IF avMode = "live" \/ ~audioActive THEN "present"
            ELSE avDecide(audible - frameContentUs(picture))

PicturePaced ==
    /\ present = "pace" /\ Decision # "hold"
    /\ shownCount' = IF Decision = "present" THEN shownCount + 1 ELSE shownCount
    /\ drops' = IF Decision = "present" THEN 0 ELSE drops + 1
    /\ picture' = picture + 1
    /\ present' = IF picture = MaxPictures THEN "eof" ELSE "decode"
    /\ UNCHANGED <<regime, written, queued, sampled, chunks, behind, pump, avSession>>

\* killChildren and the join of the audio thread, then the report.
JoinPump ==
    /\ present = "eof" /\ avSession = "playing"
    /\ avSession' = "joining"
    /\ UNCHANGED <<regime, written, queued, sampled, chunks, behind, pump, shownCount, picture,
                   drops, present>>

ReportEnded ==
    /\ avSession = "joining" /\ pump = "done"
    /\ avSession' = "ended"
    /\ UNCHANGED <<regime, written, queued, sampled, chunks, behind, pump, shownCount, picture,
                   drops, present>>

AvNext ==
    \/ Tick \/ PumpWrites \/ PumpReleased \/ PumpSamples \/ PumpEnds
    \/ PictureDecoded \/ PicturePaced \/ JoinPump \/ ReportEnded

PumpStep == PumpWrites \/ PumpReleased \/ PumpSamples \/ PumpEnds
PlayStep == PictureDecoded \/ PicturePaced \/ JoinPump \/ ReportEnded

\* Both threads run, time passes and the decoder delivers.
AvSpec ==
    /\ AvInit /\ [][AvNext]_avVars
    /\ WF_avVars(Tick) /\ WF_avVars(PumpStep) /\ WF_avVars(PlayStep)

-----------------------------------------------------------------------------
(* Properties.                                                             *)

\* Of the shape the code gives them; dropRun never exceeds its limit of one.
AvTypeOK ==
    /\ written \in 0..TrackLength /\ queued \in 0..written /\ sampled \in -1..written
    /\ shownCount \in 0..MaxPictures /\ picture \in 1..(MaxPictures + 1)
    /\ drops \in 0..1 /\ behind \in -Chunk..(Reanchor + 2 * Chunk)

\* What the slack has to make up for: the picture that waits, every picture that
\* was dropped, the depth the clock subtracts; and at the end the longer track.
SlackTooShort ==
    LET dropped == picture - 1 - shownCount
    IN  \/ slack + Lead < Period * (1 + dropped) + Max({0, sampled})
        \/ present = "eof" /\ slack < TrackLength - shownCount * Period

\* Neither thread can go on, and no time that passes will change that: the pump
\* holds, and the present loop holds a picture or waits to join the pump.
Stuck ==
    /\ pump = "hold" /\ ~HoldOver
    /\ (present = "pace" /\ Decision = "hold") \/ avSession = "joining"

\* The pump and the present loop wait for each other, and the report for a pump
\* that holds, only if the slack is shorter than what it has to make up for.
StuckIsShortSlack == Stuck => SlackTooShort

\* A session whose stream ends reports that it ended.
SessionFinishes == <>(avSession = "ended")
================================================================================
