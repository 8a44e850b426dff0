------------------------------- MODULE MCThreads -------------------------------
(***************************************************************************)
(* Five groups of threads of the player in one run: the present pipeline   *)
(* (PresentPipeline), the serial present loop (SerialPresent), the audio   *)
(* pump and the pictures (AvLock), the player's workers (MediaWorkers),    *)
(* and a session's threads and child processes (DemuxSession).  Each       *)
(* module has all that its group shares, so a behaviour is one of the five *)
(* and the others stand still in their initial states.                     *)
(***************************************************************************)
EXTENDS PresentPipeline, SerialPresent, AvLock, MediaWorkers, DemuxSession

VARIABLE group

threadVars == <<group, pipeVars, serialVars, avVars, workerVars, demuxVars>>

\* The hold slack a session finds: the default, and what a 720p session left.
MCSlacks == {80, -110}

\* The sessions: every source and every mode, the switches varied where the code
\* looks at them.
MCPlayed ==
    {c \in Configs :
        /\ c.timed => c.skipRgb
        /\ c.kind \in {"pattern", "universal"} \/ c.mode = "fb0" \/ c.lab \/ c.refused \/ ~c.claims \/ ~c.truth
             => ~c.stream /\ ~c.wide
        /\ c.mode = "both" => ~c.skipRgb /\ (c.stream <=> c.inproc)
        /\ c.wide => c.device /\ (c.stream => c.inproc /\ c.kind = "direct")
        /\ c.skipRgb => ~c.wide
        /\ c.lab => c.kind = "file" /\ c.mode = "fpga" /\ ~c.device
        /\ c.refused => c.kind = "file" /\ ~c.lab /\ ~c.device}

Resting(g, initial) == group # g => initial

ThreadsInit ==
    /\ group \in {"pipe", "serial", "av", "workers", "demux"}
    /\ PipeInit /\ SerialInit /\ AvInit /\ WorkersInit /\ DemuxInit
    /\ Resting("pipe", mode = "strict")
    /\ Resting("serial", format = "i420")
    /\ Resting("av", avMode = "strict" /\ slack = 80 /\ depth = "known")
    /\ Resting("demux", dcfg = CHOOSE c \in Played : TRUE)

Piping(A) ==
    group = "pipe" /\ A /\ UNCHANGED <<group, serialVars, avVars, workerVars, demuxVars>>
Looping(A) ==
    group = "serial" /\ A /\ UNCHANGED <<group, pipeVars, avVars, workerVars, demuxVars>>
Pacing(A) ==
    group = "av" /\ A /\ UNCHANGED <<group, pipeVars, serialVars, workerVars, demuxVars>>
Working(A) ==
    group = "workers" /\ A /\ UNCHANGED <<group, pipeVars, serialVars, avVars, demuxVars>>
Demuxing(A) ==
    group = "demux" /\ A /\ UNCHANGED <<group, pipeVars, serialVars, avVars, workerVars>>

ThreadsNext ==
    \/ Piping(PipeNext) \/ Looping(SerialNext)
    \/ Pacing(AvNext) \/ Working(WorkersNext) \/ Demuxing(DemuxNext)

ThreadsSpec == ThreadsInit /\ [][ThreadsNext]_threadVars

--------------------------------------------------------------------------------
\* The states of the five groups are of the shape their modules give them.
ThreadsTypeOK ==
    CASE group = "pipe" -> PipeTypeOK [] group = "serial" -> SerialTypeOK
      [] group = "av" -> AvTypeOK
      [] group = "workers" -> WorkersTypeOK [] group = "demux" -> DemuxTypeOK

\* No picture is lost, swapped, mixed or shown in another's place on its way to
\* the screen, and none is taken for the end of the title: in either present loop,
\* but for the cases the two modules name.
FramesKept == PresentsItsFrame /\ EndedMeansHandled /\ TurnsAreWhole /\ ShortIsTheEnd

\* Nobody waits for a sleeper that nothing will wake, the mutexes and the joins
\* never close a circle, and a session that is not over can go on: see the four
\* modules for what is left.
NoStrandedWait == SleeperIsMissed /\ StuckIsShortSlack /\ NoCircle /\ KnownWaits

\* The same, asked of the steps themselves: of the calls and workers of the player
\* who waits for nothing has a step to take, and so has a session that is not over,
\* but for its two waits.
EveryWaitIsKnown == ReadyGoes /\ SessionGoes
================================================================================
