---------------------------- MODULE PlaySession ----------------------------
(***************************************************************************)
(* The play session of misterplexd: the one HTTP thread of companion.cpp,  *)
(* the detached threads main.cpp starts for playMedia, seek, queue steps   *)
(* and live resolution changes (all of them run doPlay), the media thread  *)
(* of media_player.cpp with its progress callbacks, and the input thread.  *)
(*                                                                         *)
(* A step is one critical section: the atomic playGen and the mutexes      *)
(* playHandoffMu, seekMu, sessionMu, Companion::mu_ and                    *)
(* MediaPlayer::lifeMu_ decide where a thread can be interrupted.          *)
(***************************************************************************)
EXTENDS Companion, FiniteSets

CONSTANTS
    Threads,        \* slots for detached threads
    None,           \* no thread
    LibraryKeys,    \* keys that seek by resolving again; others seek in the player
    Durations,      \* Durations[k]: what a resolve of k may find
    ViewOffset,     \* ViewOffset[k]: the server's continue-watching position
    NextItem,       \* NextItem[k], PrevItem[k]: neighbours in k's play queue
    PrevItem,
    AutoNext,       \* AUTO_NEXT of the configuration
    RestartAfter,   \* kRestartThresholdMs, 3000 ms
    Offsets,        \* positions controllers ask for
    Commands,       \* the HTTP commands controllers send
    Inputs,         \* the local controls in use
    MaxCommands,    \* bound on HTTP commands
    MaxInputs       \* bound on local control events

ASSUME SessionAssumption ==
    /\ None \notin Threads
    /\ LibraryKeys \subseteq Keys
    /\ Durations \in [Keys -> SUBSET (Nat \ {0})]
    /\ ViewOffset \in [Keys -> Nat]
    /\ NextItem \in [Keys -> Keys \cup {NoKey}]
    /\ PrevItem \in [Keys -> Keys \cup {NoKey}]
    /\ AutoNext \in BOOLEAN
    /\ RestartAfter \in Nat
    /\ Offsets \subseteq Nat
    /\ MaxCommands \in Nat /\ MaxInputs \in Nat

VARIABLES
    comp,               \* the Companion record
    playGen,            \* the monotonic play generation
    playHandoffMu,      \* the thread that holds it, or None
    seekMu, seekGen,
    lastPlay,           \* the session bind: key and offset
    autoNextInFlight,
    player,             \* MediaPlayer: thread running, URL, clock
    pms,                \* the key of the active PMS timeline session
    http,               \* where the HTTP thread is, and what it has read
    input,              \* where the input thread is, and what it has read
    pc, task,           \* the detached threads
    commands, inputs,   \* events so far
    stopped,            \* history: a stop was answered and nothing was cast since
    settled             \* history: the generation that last started a demux, or failed to

locks   == <<playGen, playHandoffMu, seekMu, seekGen>>
session == <<lastPlay, autoNextInFlight>>
history == <<stopped, settled>>
vars    == <<comp, locks, session, player, pms, http, input, pc, task,
             commands, inputs, history>>

-----------------------------------------------------------------------------
Times == Nat
AnyKey == Keys \cup {NoKey}

NoTask == [kind |-> "none", key |-> NoKey, off |-> 0, present |-> TRUE, gen |-> 0,
           dur |-> 0, start |-> 0, seekGen |-> 0, overtaken |-> FALSE]

QueueSteps == {"next", "prev", "auto"}
Kinds == QueueSteps \cup {"none", "play", "seek", "osd"}

Tasks == [kind : Kinds, key : AnyKey, off : Times, present : BOOLEAN, gen : Nat,
          dur : Times, start : Times, seekGen : Nat,
          overtaken : BOOLEAN]     \* history: a newer cast came after it was detached

IdleHttp == [pc |-> "idle", key |-> NoKey, ms |-> 0, dur |-> 0, present |-> TRUE,
             gen |-> 0, st |-> "paused"]

IdleInput == [pc |-> "idle", url |-> NoKey, ms |-> 0, dur |-> 0]

NoPlay == [key |-> NoKey, off |-> 0]

\* MediaPlayer between sessions: stop() drops the URL and zeroes the clock.
StoppedPlayer == [run |-> FALSE, phase |-> "playing", url |-> NoKey, pos |-> 0, dur |-> 0,
                  paused |-> FALSE]

\* The phases of doPlay during which FpgaWorkerHandoff has parked the input
\* and OSD threads; and those in which the caller holds playHandoffMu.
SuspendedPcs == {"layout", "bind", "startAt", "seed", "buffering", "commit", "begin", "play"}
HandoffPcs   == {"stop", "suspend"} \cup SuspendedPcs
Pcs == HandoffPcs \cup {"free", "plant", "enter", "resolve", "seekWait", "seekMs",
                        "seekPlay", "stepRead", "stepFetch", "stepPlant", "stepReturn",
                        "autoStop"}

HttpPcs == {"idle", "plant", "ctlState", "ctlPlayer", "stopPlayer", "stopForget",
            "seekPlant", "prevCall", "prevPlant"}

\* What the threads and the session hold between their sections.
PlayBinds   == [key : AnyKey, off : Times]
Players     == [run : BOOLEAN, phase : {"new", "buffering", "playing"}, url : AnyKey,
                pos : Times, dur : Times, paused : BOOLEAN]
HttpStates  == [pc : HttpPcs, key : AnyKey, ms : Times, dur : Times, present : BOOLEAN,
                gen : Nat, st : {"playing", "paused"}]
InputStates == [pc : {"idle", "seekPlay"}, url : AnyKey, ms : Times, dur : Times]

workersSuspended == \E w \in Threads : pc[w] \in SuspendedPcs

-----------------------------------------------------------------------------
(* MediaPlayer::play and stop, each one section of lifeMu_, with the        *)
(* progress callback they run: setProgress's lambda in main.cpp.            *)

playerPlay(url, pos, dur) ==
    player' = [run |-> TRUE, phase |-> "new", url |-> url, pos |-> pos, dur |-> dur,
               paused |-> FALSE]

\* stop() joins the media thread, reports "stopped" and then drops the URL.
playerStopSilent ==
    /\ player' = StoppedPlayer
    /\ comp' = setState(comp, "stopped", player.pos, player.dur)
    /\ UNCHANGED pms

playerStop ==
    /\ player' = StoppedPlayer
    /\ comp' = setState(comp, "stopped", player.pos, player.dur)
    /\ pms' = NoKey

\* History only: the live threads that a new cast makes stale.
Overtaken ==
    [w \in Threads |-> IF pc[w] = "free" THEN task[w]
                      ELSE [task[w] EXCEPT !.overtaken = TRUE]]

\* A detached thread starts in a free slot.
Spawn(w, at, t) ==
    /\ pc[w] = "free"
    /\ pc' = [pc EXCEPT ![w] = at]
    /\ task' = [task EXCEPT ![w] = t]

\* seekAsync: number the seek, and leave the restart to a detached thread.
seekAsync(w, ms) ==
    /\ seekGen' = seekGen + 1
    /\ Spawn(w, "seekWait",
             [NoTask EXCEPT !.kind = "seek", !.off = ms, !.seekGen = seekGen + 1])

\* doPlay, or a seek, returns: its lock guards and its RAII objects unwind.  A
\* queue step still has to clear autoNextInFlight; the other threads are over.
Finish(w) ==
    /\ pc' = [pc EXCEPT ![w] = IF task[w].kind \in QueueSteps THEN "stepReturn" ELSE "free"]
    /\ task' = [task EXCEPT ![w] = NoTask]
    /\ playHandoffMu' = IF playHandoffMu = w THEN None ELSE playHandoffMu
    /\ seekMu' = IF seekMu = w THEN None ELSE seekMu
    /\ UNCHANGED autoNextInFlight

Goto(w, at) == pc' = [pc EXCEPT ![w] = at]

\* playGen only moves inside a section of playHandoffMu.
TakeGenerationUnlocked == playGen' = playGen + 1
TakeGeneration == playHandoffMu = None /\ playGen' = playGen + 1

-----------------------------------------------------------------------------
(* The HTTP thread: Companion::httpLoop answers one request at a time.      *)

Receive(cmd) ==
    /\ cmd \in Commands
    /\ http.pc = "idle"
    /\ commands < MaxCommands
    /\ commands' = commands + 1

\* playMedia takes its generation before anything is published...
PlayMediaQueued(key, off, present) ==
    /\ Receive("playMedia")
    /\ TakeGeneration
    /\ http' = [IdleHttp EXCEPT !.pc = "plant", !.key = key, !.ms = off,
                                !.present = present, !.gen = playGen + 1]
    /\ comp' = bindCast(comp)
    /\ task' = Overtaken
    /\ stopped' = FALSE
    /\ UNCHANGED <<playHandoffMu, seekMu, seekGen, session, player, pms, input, pc,
                   inputs, settled>>

\* ...then plants the scrubber, answers, and detaches the play thread.
PlayMediaPlant(w) ==
    /\ http.pc = "plant"
    /\ comp' = stagePlay(comp, http.key, http.ms)
    /\ Spawn(w, "plant", [NoTask EXCEPT !.kind = "play", !.key = http.key, !.off = http.ms,
                                        !.present = http.present, !.gen = http.gen])
    /\ http' = IdleHttp
    /\ UNCHANGED <<locks, session, player, pms, input, commands, inputs, history>>

\* pause and play (resume): read the clock, then set the state, then the player.
Control(st) ==
    /\ Receive(st)
    /\ comp' = bindCast(comp)
    /\ http' = IF comp.wantPlay
               THEN [IdleHttp EXCEPT !.pc = "ctlState", !.ms = comp.timeMs,
                                     !.dur = comp.durationMs, !.st = st]
               ELSE IdleHttp
    /\ UNCHANGED <<locks, session, player, pms, input, pc, task, inputs, history>>

ControlState ==
    /\ http.pc = "ctlState"
    /\ comp' = setState(comp, http.st, http.ms, http.dur)
    /\ http' = [http EXCEPT !.pc = "ctlPlayer"]
    /\ UNCHANGED <<locks, session, player, pms, input, pc, task, commands, inputs, history>>

ControlPlayer ==
    /\ http.pc = "ctlPlayer"
    /\ player' = [player EXCEPT !.paused = (http.st = "paused")]
    /\ comp' = setState(comp, http.st, player.pos, player.dur)
    /\ http' = IdleHttp
    /\ UNCHANGED <<locks, session, pms, input, pc, task, commands, inputs, history>>

\* stop: drop the bind, then take the generation and stop the player under
\* playHandoffMu, then forget the session.
StopClear ==
    /\ Receive("stop")
    /\ comp' = clearMedia(bindCast(comp))
    /\ http' = [IdleHttp EXCEPT !.pc = "stopPlayer"]
    /\ UNCHANGED <<locks, session, player, pms, input, pc, task, inputs, history>>

StopPlayerKeepsDemux ==
    /\ http.pc = "stopPlayer"
    /\ TakeGeneration
    /\ http' = [http EXCEPT !.pc = "stopForget"]
    /\ UNCHANGED <<comp, playHandoffMu, seekMu, seekGen, session, player, pms, input, pc, task,
                   commands, inputs, history>>

StopPlayer ==
    /\ http.pc = "stopPlayer"
    /\ TakeGeneration
    /\ playerStop
    /\ http' = [http EXCEPT !.pc = "stopForget"]
    /\ UNCHANGED <<playHandoffMu, seekMu, seekGen, session, input, pc, task, commands,
                   inputs, history>>

StopForget ==
    /\ http.pc = "stopForget"
    /\ lastPlay' = NoPlay
    /\ stopped' = TRUE
    /\ http' = IdleHttp
    /\ UNCHANGED <<comp, locks, autoNextInFlight, player, pms, input, pc, task, commands,
                   inputs, settled>>

\* seekTo: read and clamp under one lock, plant under another.
Seek(offset) ==
    LET ms == Clamp(offset, comp.durationMs)
    IN  /\ Receive("seek")
        /\ comp' = bindCast(comp)
        /\ http' = IF comp.wantPlay /\ ms # comp.timeMs
                   THEN [IdleHttp EXCEPT !.pc = "seekPlant", !.ms = ms,
                                         !.dur = comp.durationMs]
                   ELSE IdleHttp
        /\ UNCHANGED <<locks, session, player, pms, input, pc, task, inputs, history>>

SeekPlant(w) ==
    /\ http.pc = "seekPlant"
    /\ comp' = plantSeek(comp, http.ms, http.dur)
    /\ seekAsync(w, http.ms)
    /\ http' = IdleHttp
    /\ UNCHANGED <<playGen, playHandoffMu, seekMu, session, player, pms, input, commands,
                   inputs, history>>

\* stepForward and stepBack read, clamp and plant under one lock.
Step(w, delta) ==
    LET sum == comp.timeMs + delta
        ms  == Clamp(IF sum < 0 THEN 0 ELSE sum, comp.durationMs)
    IN  /\ Receive("step")
        /\ comp.wantPlay /\ ms # comp.timeMs
        /\ comp' = plantSeek(bindCast(comp), ms, comp.durationMs)
        /\ seekAsync(w, ms)
        /\ UNCHANGED <<playGen, playHandoffMu, seekMu, session, player, pms, http, input,
                       inputs, history>>

\* A step, a skip or a stray command that has nothing to do is only answered:
\* nothing is cast, the clock is at the boundary, or a queue step is under way.
Acknowledged ==
    /\ \/ Receive("step") /\ (comp.wantPlay => comp.timeMs \in {0, comp.durationMs})
       \/ Receive("skipNext") /\ (comp.wantPlay => autoNextInFlight)
       \/ Receive("skipPrevious") /\ ~comp.wantPlay
    /\ comp' = bindCast(comp)
    /\ UNCHANGED <<locks, session, player, pms, http, input, pc, task, inputs, history>>

\* skipNext: one queue step at a time.
SkipNext(w) ==
    /\ Receive("skipNext")
    /\ comp.wantPlay /\ ~autoNextInFlight
    /\ comp' = bindCast(comp)
    /\ autoNextInFlight' = TRUE
    /\ Spawn(w, "stepRead", [NoTask EXCEPT !.kind = "next"])
    /\ UNCHANGED <<locks, lastPlay, player, pms, http, input, inputs, history>>

\* skipPrevious: the handler branches on the clock before 0 is planted.
SkipPrevious ==
    /\ Receive("skipPrevious")
    /\ comp.wantPlay
    /\ comp' = bindCast(comp)
    /\ http' = [IdleHttp EXCEPT !.pc = "prevCall", !.ms = comp.timeMs,
                                !.dur = comp.durationMs]
    /\ UNCHANGED <<locks, session, player, pms, input, pc, task, inputs, history>>

SkipPreviousCall ==
    /\ http.pc = "prevCall"
    /\ \/ /\ comp.timeMs > RestartAfter
          /\ \E w \in Threads : seekAsync(w, 0)
          /\ UNCHANGED autoNextInFlight
       \/ /\ comp.timeMs <= RestartAfter /\ ~autoNextInFlight
          /\ autoNextInFlight' = TRUE
          /\ \E w \in Threads :
                Spawn(w, "stepRead", [NoTask EXCEPT !.kind = "prev", !.start = comp.timeMs])
          /\ UNCHANGED seekGen
       \/ /\ comp.timeMs <= RestartAfter /\ autoNextInFlight
          /\ UNCHANGED <<seekGen, autoNextInFlight, pc, task>>
    /\ http' = [http EXCEPT !.pc = "prevPlant"]
    /\ UNCHANGED <<comp, playGen, playHandoffMu, seekMu, lastPlay, player, pms, input,
                   commands, inputs, history>>

SkipPreviousPlant ==
    /\ http.pc = "prevPlant"
    /\ comp' = IF http.ms # 0 THEN plantSeek(comp, 0, http.dur) ELSE comp
    /\ http' = IdleHttp
    /\ UNCHANGED <<locks, session, player, pms, input, pc, task, commands, inputs, history>>

\* Requests that only touch the companion record.
Poll ==
    /\ Receive("poll")
    /\ comp' = pollTimeline(comp)
    /\ UNCHANGED <<locks, session, player, pms, http, input, pc, task, inputs, history>>

Mirror(key) ==
    /\ Receive("mirror")
    /\ comp' = mirror(comp, key)
    /\ UNCHANGED <<locks, session, player, pms, http, input, pc, task, inputs, history>>

Unsubscribe ==
    /\ Receive("unsubscribe")
    /\ comp' = dropCast(comp)
    /\ UNCHANGED <<locks, session, player, pms, http, input, pc, task, inputs, history>>

-----------------------------------------------------------------------------
(* doPlay, from main.cpp, run by every detached thread that starts a title. *)

\* setPlay's lambda plants the session bind from the detached thread.
PlayPlant(w) ==
    /\ pc[w] = "plant"
    /\ lastPlay' = [key |-> task[w].key, off |-> task[w].off]
    /\ Goto(w, "enter")
    /\ UNCHANGED <<comp, locks, autoNextInFlight, player, pms, http, input, task, commands,
                   inputs, history>>

\* No newer request has taken a generation.
CurrentAlways(w) == TRUE
Current(w) == task[w].gen = playGen

\* A request that playMedia did not number takes a new generation.
DoPlayEnter(w) ==
    /\ pc[w] = "enter"
    /\ IF task[w].gen = 0
       THEN TakeGeneration /\ task' = [task EXCEPT ![w].gen = playGen + 1]
       ELSE UNCHANGED <<playGen, task>>
    /\ Goto(w, "resolve")
    /\ UNCHANGED <<comp, playHandoffMu, seekMu, seekGen, session, player, pms, http, input,
                   commands, inputs, history>>

\* The network resolve is over: superseded requests return, here and at the
\* two earlier checks of playGen, which nothing but a return depends on.
DoPlayAcceptRetries(w) ==
    /\ pc[w] = "resolve"
    /\ playHandoffMu = None
    /\ IF Current(w) /\ acceptsPlayRequest(comp, task[w].key)
       THEN playHandoffMu' = w /\ Goto(w, "stop")
       ELSE UNCHANGED <<playHandoffMu, pc>>
    /\ UNCHANGED <<comp, playGen, seekGen, seekMu, session, task, player, pms, http, input,
                   commands, inputs, history>>

DoPlayAcceptKeepsLock(w) ==
    /\ pc[w] = "resolve"
    /\ playHandoffMu \in {None, w}
    /\ playHandoffMu' = w
    /\ IF Current(w) /\ acceptsPlayRequest(comp, task[w].key)
       THEN Goto(w, "stop") ELSE UNCHANGED pc
    /\ UNCHANGED <<comp, playGen, seekGen, seekMu, session, task, player, pms, http, input,
                   commands, inputs, history>>

DoPlayAccept(w) ==
    /\ pc[w] = "resolve"
    /\ playHandoffMu = None
    /\ IF Current(w) /\ acceptsPlayRequest(comp, task[w].key)
       THEN /\ playHandoffMu' = w
            /\ Goto(w, "stop")
            /\ \E d \in Durations[task[w].key] : task' = [task EXCEPT ![w].dur = d]
            /\ UNCHANGED <<seekMu, autoNextInFlight>>
       ELSE Finish(w)
    /\ UNCHANGED <<comp, playGen, seekGen, lastPlay, player, pms, http, input, commands,
                   inputs, history>>

DoPlayStopSkipped(w) ==
    /\ pc[w] = "stop"
    /\ Goto(w, "suspend")
    /\ UNCHANGED <<comp, player, pms, locks, session, http, input, task, commands, inputs,
                   history>>

DoPlayStop(w) ==
    /\ pc[w] = "stop"
    /\ playerStop
    /\ Goto(w, "suspend")
    /\ UNCHANGED <<locks, session, http, input, task, commands, inputs, history>>

\* FpgaWorkerHandoff's constructor joins the input thread.
DoPlaySuspend(w) ==
    /\ pc[w] = "suspend"
    /\ input.pc = "idle"
    /\ Goto(w, "layout")
    /\ UNCHANGED <<comp, locks, session, player, pms, http, input, task, commands, inputs,
                   history>>

\* closedStopPlay: report the failed start everywhere and forget the session.
closedStopPlayKeepsPms(w, timeMs) ==
    /\ comp' = setState(comp, "stopped", timeMs, task[w].dur)
    /\ lastPlay' = NoPlay
    /\ settled' = task[w].gen
    /\ Finish(w)
    /\ UNCHANGED pms

closedStopPlay(w, timeMs) ==
    /\ comp' = setState(comp, "stopped", timeMs, task[w].dur)
    /\ pms' = NoKey
    /\ lastPlay' = NoPlay
    /\ settled' = task[w].gen
    /\ Finish(w)

\* setDecodeSize and setSourceAspect remap the shared DDR; the core may not ACK.
DoPlayLayout(w) ==
    /\ pc[w] = "layout"
    /\ \/ /\ Goto(w, "bind")
          /\ UNCHANGED <<comp, pms, playHandoffMu, seekMu, session, task, settled>>
       \/ closedStopPlay(w, task[w].off)
    /\ UNCHANGED <<playGen, seekGen, player, http, input, commands, inputs, stopped>>

DoPlayBind(w) ==
    /\ pc[w] = "bind"
    /\ IF Current(w) /\ acceptsPlayRequest(comp, task[w].key)
       THEN /\ comp' = bindMedia(comp, task[w].key, task[w].dur)
            /\ Goto(w, "startAt")
            /\ UNCHANGED <<playHandoffMu, seekMu, autoNextInFlight, task>>
       ELSE Finish(w) /\ UNCHANGED comp
    /\ UNCHANGED <<playGen, seekGen, lastPlay, player, pms, http, input, commands, inputs,
                   history>>

\* A scrub that moved the timeline during the resolve wins over the request;
\* else the request's own offset, or the server's when the cast had none.
startAt(w) ==
    LET off == IF ~task[w].present /\ ViewOffset[task[w].key] > 0
               THEN ViewOffset[task[w].key] ELSE task[w].off
    IN  Clamp(IF comp.timeMs # task[w].off THEN comp.timeMs ELSE off, task[w].dur)

DoPlayStartAt(w) ==
    /\ pc[w] = "startAt"
    /\ IF Current(w) /\ comp.wantPlay
       THEN /\ task' = [task EXCEPT ![w].start = startAt(w)]
            /\ Goto(w, "seed")
            /\ UNCHANGED <<playHandoffMu, seekMu, autoNextInFlight>>
       ELSE Finish(w)
    /\ UNCHANGED <<comp, playGen, seekGen, lastPlay, player, pms, http, input, commands,
                   inputs, history>>

DoPlaySeed(w) ==
    /\ pc[w] = "seed"
    /\ comp' = seedPlaybackPosition(comp, task[w].start, task[w].dur)
    /\ Goto(w, "buffering")
    /\ UNCHANGED <<locks, session, player, pms, http, input, task, commands, inputs, history>>

DoPlayBuffering(w) ==
    /\ pc[w] = "buffering"
    /\ comp' = setState(comp, "buffering", task[w].start, task[w].dur)
    /\ Goto(w, "commit")
    /\ UNCHANGED <<locks, session, player, pms, http, input, task, commands, inputs, history>>

\* The last gate, in the section of sessionMu that commits the session bind.
DoPlayCommit(w) ==
    /\ pc[w] = "commit"
    /\ IF Current(w) /\ comp.wantPlay
       THEN /\ lastPlay' = [key |-> task[w].key, off |-> task[w].off]
            /\ Goto(w, "begin")
            /\ UNCHANGED <<playHandoffMu, seekMu, autoNextInFlight, task>>
       ELSE Finish(w) /\ UNCHANGED lastPlay
    /\ UNCHANGED <<comp, playGen, seekGen, player, pms, http, input, commands, inputs,
                   history>>

\* pmsTimeline.beginSession: the server is told of the title before it starts.
DoPlayBegin(w) ==
    /\ pc[w] = "begin"
    /\ pms' = task[w].key
    /\ Goto(w, "play")
    /\ UNCHANGED <<comp, locks, session, player, http, input, task, commands, inputs, history>>

\* player.play may fail to open the screen: the session it was begun for ends.
DoPlayPlay(w) ==
    /\ pc[w] = "play"
    /\ \/ /\ playerPlay(task[w].key, task[w].start, task[w].dur)
          /\ settled' = task[w].gen
          /\ Finish(w)
          /\ UNCHANGED <<comp, pms, lastPlay>>
       \/ /\ closedStopPlay(w, task[w].start)
          /\ UNCHANGED player
    /\ UNCHANGED <<playGen, seekGen, http, input, commands, inputs, stopped>>

-----------------------------------------------------------------------------
(* The detached threads of seekAsync, tryQueueStep and the progress lambda. *)

\* One seek at a time; a seek that a newer one overtook is dropped.
SeekStart(w) ==
    /\ pc[w] = "seekWait"
    /\ seekMu = None
    /\ IF task[w].seekGen # seekGen
       THEN Finish(w)
       ELSE /\ seekMu' = w
            /\ task' = [task EXCEPT ![w].key = lastPlay.key]
            /\ Goto(w, IF lastPlay.key \in LibraryKeys THEN "enter" ELSE "seekMs")
            /\ UNCHANGED <<playHandoffMu, autoNextInFlight>>
    /\ UNCHANGED <<comp, playGen, seekGen, lastPlay, player, pms, http, input, commands,
                   inputs, history>>

\* MediaPlayer::seekMs: read the session URL under mu_, restart after it.
noSeek(ms) == player.url = NoKey \/ (player.run /\ player.pos = Clamp(ms, player.dur))

SeekMsRead(w) ==
    /\ pc[w] = "seekMs"
    /\ IF noSeek(task[w].off)
       THEN Finish(w)
       ELSE /\ task' = [task EXCEPT ![w].key = player.url, ![w].dur = player.dur,
                                    ![w].start = Clamp(task[w].off, player.dur)]
            /\ Goto(w, "seekPlay")
            /\ UNCHANGED <<playHandoffMu, seekMu, autoNextInFlight>>
    /\ UNCHANGED <<comp, playGen, seekGen, lastPlay, player, pms, http, input, commands,
                   inputs, history>>

SeekMsPlay(w) ==
    /\ pc[w] = "seekPlay"
    /\ comp' = setState(comp, "buffering", task[w].start, task[w].dur)
    /\ playerPlay(task[w].key, task[w].start, task[w].dur)
    /\ Finish(w)
    /\ UNCHANGED <<playGen, seekGen, lastPlay, pms, http, input, commands, inputs, history>>

\* tryQueueStep that does not advance: no queue, a failed fetch, the queue's end.
NoQueueStep(w) ==
    CASE task[w].kind = "auto" ->
            /\ Goto(w, "stepReturn")
            /\ UNCHANGED <<comp, seekGen, task, playHandoffMu, seekMu, autoNextInFlight>>
      [] task[w].kind = "next" ->
            /\ Finish(w)
            /\ UNCHANGED <<comp, seekGen>>
      [] task[w].kind = "prev" ->
            LET t   == task[w].start
                now == comp.timeMs
                drift == IF now > t THEN now - t ELSE t - now
            IN  IF t > 0 /\ ~(drift > RestartAfter /\ now > RestartAfter)
                THEN \* the restart at 0 takes over this thread's slot
                     /\ seekGen' = seekGen + 1
                     /\ task' = [task EXCEPT ![w] = [NoTask EXCEPT !.kind = "seek",
                                     !.seekGen = seekGen + 1]]
                     /\ Goto(w, "seekWait")
                     /\ autoNextInFlight' = FALSE
                     /\ UNCHANGED <<comp, playHandoffMu, seekMu>>
                ELSE Finish(w) /\ UNCHANGED <<comp, seekGen>>

StepRead(w) ==
    /\ pc[w] = "stepRead"
    /\ IF lastPlay.key # NoKey /\ (task[w].kind = "auto" => AutoNext)
       THEN /\ task' = [task EXCEPT ![w].key = lastPlay.key]
            /\ Goto(w, "stepFetch")
            /\ UNCHANGED <<comp, seekGen, playHandoffMu, seekMu, autoNextInFlight>>
       ELSE NoQueueStep(w)
    /\ UNCHANGED <<playGen, lastPlay, player, pms, http, input, commands, inputs, history>>

Neighbour(w) == IF task[w].kind = "prev" THEN PrevItem[task[w].key] ELSE NextItem[task[w].key]

\* The queue is fetched: stage the neighbour, whatever happened meanwhile.
StepFetched(w) ==
    /\ pc[w] = "stepFetch"
    /\ \/ /\ Neighbour(w) # NoKey
          /\ comp' = stagePlay(comp, Neighbour(w), 0)
          /\ task' = [task EXCEPT ![w].key = Neighbour(w), ![w].off = 0]
          /\ Goto(w, "stepPlant")
          /\ UNCHANGED <<seekGen, playHandoffMu, seekMu, autoNextInFlight>>
       \/ NoQueueStep(w)
    /\ UNCHANGED <<playGen, lastPlay, player, pms, http, input, commands, inputs, history>>

StepPlant(w) ==
    /\ pc[w] = "stepPlant"
    /\ lastPlay' = [key |-> task[w].key, off |-> 0]
    /\ Goto(w, "enter")
    /\ UNCHANGED <<comp, locks, autoNextInFlight, player, pms, http, input, task, commands,
                   inputs, history>>

\* The flag of the queue steps is cleared last; only an auto-next that did not
\* advance has something left to say.
StepReturn(w) ==
    /\ pc[w] = "stepReturn"
    /\ autoNextInFlight' = FALSE
    /\ IF task[w].kind = "auto"
       THEN Goto(w, "autoStop") /\ UNCHANGED task
       ELSE Goto(w, "free") /\ task' = [task EXCEPT ![w] = NoTask]
    /\ UNCHANGED <<comp, locks, lastPlay, player, pms, http, input, commands, inputs, history>>

AutoStop(w) ==
    /\ pc[w] = "autoStop"
    /\ comp' = setState(comp, "stopped", task[w].start, task[w].dur)
    /\ Goto(w, "free")
    /\ task' = [task EXCEPT ![w] = NoTask]
    /\ UNCHANGED <<locks, session, player, pms, http, input, commands, inputs, history>>

-----------------------------------------------------------------------------
(* The media thread: threadMain and its progress reports.                  *)

\* It reports buffering and then playing at its start position...
MediaBegins ==
    /\ player.run /\ player.phase # "playing"
    /\ LET st == IF player.phase = "new" THEN "buffering" ELSE "playing"
       IN  /\ player' = [player EXCEPT !.phase = st]
           /\ comp' = setState(comp, st, player.pos, player.dur)
    /\ UNCHANGED <<locks, session, pms, http, input, pc, task, commands, inputs, history>>

\* ...and then its clock as it advances.
MediaProgress ==
    /\ player.run /\ player.phase = "playing" /\ ~player.paused
    /\ player.pos < player.dur
    /\ player' = [player EXCEPT !.pos = @ + 1]
    /\ comp' = setState(comp, "playing", player.pos + 1, player.dur)
    /\ UNCHANGED <<locks, session, pms, http, input, pc, task, commands, inputs, history>>

\* What the progress lambda tells the companion of "ended".
EndedForwarded == "ended"
EndedState == IF autoNextInFlight THEN "stopped" ELSE "buffering"

\* The end of a title that showed something: advance the queue, once.
MediaEnded ==
    /\ player.run /\ player.phase = "playing" /\ ~player.paused
    /\ player' = [player EXCEPT !.run = FALSE]
    /\ pms' = NoKey
    /\ comp' = setState(comp, EndedState, player.pos, player.dur)
    /\ IF autoNextInFlight
       THEN UNCHANGED <<autoNextInFlight, pc, task>>
       ELSE /\ autoNextInFlight' = TRUE
            /\ \E w \in Threads :
                  Spawn(w, "stepRead", [NoTask EXCEPT !.kind = "auto", !.start = player.pos,
                                                      !.dur = player.dur])
    /\ UNCHANGED <<locks, lastPlay, http, input, commands, inputs, history>>

\* The end of a title that showed nothing, or whose transport failed.
MediaAborted ==
    /\ player.run /\ player.phase = "playing" /\ ~player.paused
    /\ player' = [player EXCEPT !.run = FALSE]
    /\ pms' = NoKey
    /\ \E at \in {0, player.pos} : comp' = setState(comp, "stopped", at, player.dur)
    /\ UNCHANGED <<locks, session, http, input, pc, task, commands, inputs, history>>

\* A pipe, a fork or a decoder that cannot be had: threadMain returns at once.
MediaUnstarted ==
    /\ player.run /\ player.phase = "buffering"
    /\ player' = [player EXCEPT !.run = FALSE]
    /\ UNCHANGED <<comp, locks, session, pms, http, input, pc, task, commands, inputs, history>>

-----------------------------------------------------------------------------
(* The input thread and the OSD thread, parked while a handoff is under way. *)

LocalEvent(kind) ==
    /\ kind \in Inputs
    /\ inputs < MaxInputs
    /\ ~workersSuspended
    /\ inputs' = inputs + 1

\* Keyboard or joystick stop: straight into MediaPlayer::stop.
InputStop ==
    /\ LocalEvent("stop")
    /\ input.pc = "idle" /\ player.run
    /\ playerStop
    /\ UNCHANGED <<locks, session, http, input, pc, task, commands, history>>

\* Play/pause: MediaPlayer::pause or resume, with their progress report.
InputPlayPause ==
    /\ LocalEvent("pause")
    /\ input.pc = "idle" /\ player.run
    /\ player' = [player EXCEPT !.paused = ~@]
    /\ comp' = setState(comp, IF player.paused THEN "playing" ELSE "paused",
                        player.pos, player.dur)
    /\ UNCHANGED <<locks, session, pms, http, input, pc, task, commands, history>>

\* Skip forward or back: MediaPlayer::seekMs on the input thread.
InputSeekRead(ms) ==
    /\ LocalEvent("seek")
    /\ input.pc = "idle" /\ player.run /\ ~noSeek(ms)
    /\ input' = [pc |-> "seekPlay", url |-> player.url, ms |-> Clamp(ms, player.dur),
                 dur |-> player.dur]
    /\ UNCHANGED <<comp, locks, session, player, pms, http, pc, task, commands, history>>

InputSeekPlay ==
    /\ input.pc = "seekPlay"
    /\ comp' = setState(comp, "buffering", input.ms, input.dur)
    /\ playerPlay(input.url, input.ms, input.dur)
    /\ input' = IdleInput
    /\ UNCHANGED <<locks, session, pms, http, pc, task, commands, inputs, history>>

\* A content resolution picked in the OSD restarts the title where it is.
ContentResolutionChanged(w) ==
    /\ LocalEvent("osd")
    /\ player.run /\ lastPlay.key # NoKey
    /\ Spawn(w, "enter", [NoTask EXCEPT !.kind = "osd", !.key = lastPlay.key,
                              !.off = IF player.pos > 0 THEN player.pos ELSE lastPlay.off])
    /\ UNCHANGED <<comp, locks, session, player, pms, http, input, commands, history>>

-----------------------------------------------------------------------------

Init ==
    /\ comp = InitCompanion
    /\ playGen = 0 /\ playHandoffMu = None
    /\ seekMu = None /\ seekGen = 0
    /\ lastPlay = NoPlay
    /\ autoNextInFlight = FALSE
    /\ player = StoppedPlayer
    /\ pms = NoKey
    /\ http = IdleHttp
    /\ input = IdleInput
    /\ pc = [w \in Threads |-> "free"]
    /\ task = [w \in Threads |-> NoTask]
    /\ commands = 0 /\ inputs = 0
    /\ stopped = FALSE /\ settled = 0

HttpThread ==
    \/ \E key \in Keys :
          \/ \E off \in Offsets : PlayMediaQueued(key, off, TRUE)
          \/ ViewOffset[key] > 0 /\ PlayMediaQueued(key, 0, FALSE)
          \/ Mirror(key)
    \/ \E w \in Threads :
          \/ PlayMediaPlant(w) \/ SeekPlant(w) \/ SkipNext(w)
          \/ \E delta \in {-1, 1} : Step(w, delta)
    \/ \E st \in {"playing", "paused"} : Control(st)
    \/ ControlState \/ ControlPlayer
    \/ StopClear \/ StopPlayer \/ StopForget
    \/ \E off \in Offsets : Seek(off)
    \/ SkipPrevious \/ SkipPreviousCall \/ SkipPreviousPlant
    \/ Poll \/ Unsubscribe \/ Acknowledged

DoPlay(w) ==
    \/ DoPlayEnter(w) \/ DoPlayAccept(w) \/ DoPlayStop(w) \/ DoPlaySuspend(w)
    \/ DoPlayLayout(w) \/ DoPlayBind(w) \/ DoPlayStartAt(w) \/ DoPlaySeed(w)
    \/ DoPlayBuffering(w) \/ DoPlayCommit(w) \/ DoPlayBegin(w) \/ DoPlayPlay(w)

Detached(w) ==
    \/ PlayPlant(w) \/ DoPlay(w)
    \/ SeekStart(w) \/ SeekMsRead(w) \/ SeekMsPlay(w)
    \/ StepRead(w) \/ StepFetched(w) \/ StepPlant(w) \/ StepReturn(w) \/ AutoStop(w)

MediaThread ==
    MediaBegins \/ MediaProgress \/ MediaEnded \/ MediaAborted \/ MediaUnstarted

LocalControls ==
    \/ InputStop \/ InputPlayPause \/ InputSeekPlay
    \/ \E ms \in Offsets : InputSeekRead(ms)
    \/ \E w \in Threads : ContentResolutionChanged(w)

\* Nothing is under way: the daemon waits for the next request.
Waiting ==
    /\ http.pc = "idle" /\ input.pc = "idle" /\ commands = MaxCommands
    /\ \A w \in Threads : pc[w] = "free"
    /\ ~player.run \/ player.paused
    /\ UNCHANGED vars

Next ==
    \/ HttpThread
    \/ \E w \in Threads : Detached(w)
    \/ MediaThread
    \/ LocalControls
    \/ Waiting

Spec == Init /\ [][Next]_vars

\* Every thread that can run does run: the scheduler is fair to each of them,
\* and no thread keeps a mutex without returning.  Nothing is assumed of the
\* controllers, of the local controls or of how long a title plays.
FairSpec ==
    /\ Spec
    /\ WF_vars(\E w \in Threads : PlayMediaPlant(w) \/ SeekPlant(w))
    /\ WF_vars(ControlState \/ ControlPlayer \/ StopPlayer \/ StopForget)
    /\ WF_vars(SkipPreviousCall \/ SkipPreviousPlant)
    /\ \A w \in Threads : WF_vars(Detached(w))
    /\ WF_vars(InputSeekPlay)

-----------------------------------------------------------------------------
(* Properties.                                                             *)

Quiet == /\ http.pc = "idle" /\ input.pc = "idle"
         /\ \A w \in Threads : pc[w] = "free"

\* Every thread leaves the session in a state the others can read: a known
\* timeline state, a clock that is not negative, a mutex with one owner.
TypeOK ==
    /\ comp \in Companions
    /\ playGen \in Nat /\ seekGen \in Nat
    /\ playHandoffMu \in Threads \cup {None} /\ seekMu \in Threads \cup {None}
    /\ lastPlay \in PlayBinds
    /\ autoNextInFlight \in BOOLEAN
    /\ player \in Players
    /\ pms \in AnyKey
    /\ http \in HttpStates
    /\ input \in InputStates
    /\ pc \in [Threads -> Pcs]
    /\ task \in [Threads -> Tasks]
    /\ commands \in 0..MaxCommands /\ inputs \in 0..MaxInputs
    /\ stopped \in BOOLEAN /\ settled \in Nat

\* Between its acceptance and its end a doPlay owns playHandoffMu and the
\* newest generation: nothing can supersede it half way (main.cpp, "must never
\* race an active presenter or a newer request").
HandoffOwnsNewest ==
    \A w \in Threads : pc[w] \in HandoffPcs =>
        playHandoffMu = w /\ task[w].gen = playGen

\* Demuxes start, or fail closed, in the order of their generations, whatever
\* the order in which the resolves finish (playGen, "out-of-order bind race").
StartsInOrder == [][settled' # settled => settled' > settled]_vars

\* The DDR layout is remapped only while no demux presents into it.
LayoutExclusive == \A w \in Threads : pc[w] = "layout" => ~player.run

\* Once stop has been answered, only a new cast starts the player or arms the
\* timeline again (setStop, "a late playMedia cannot restart demux after stop").
StopSticks == stopped => ~player.run /\ ~comp.wantPlay

\* doPlay begins the session of the PMS timeline before player.play and ends it
\* when that fails: the server is told of a title only while it is loaded in
\* the player or about to start, no session outlives its title, and whatever
\* stops or ends meanwhile, a title about to start finds its own session open
\* and no other demux running that would report into it.
ReportedTitle ==
    /\ pms \notin {NoKey, player.url} => \E w \in Threads : pc[w] = "play"
    /\ \A w \in Threads : pc[w] = "play" => pms = task[w].key /\ ~player.run

\* With nothing under way, the timeline names the title that is running.
TimelineTitle == Quiet /\ player.run => timelineXml(comp).key = player.url

\* With nothing under way, the newest generation is the one that started a
\* demux, or reported that it could not, unless a stop took it: no cast is lost.
NewestSettles == Quiet => stopped \/ settled = playGen

\* While a plant holds the scrubber, the thumb never shows more than
\* kScrubCatchupMs behind it (setState, "so the Web thumb does not rewind").
ThumbNearPlant ==
    comp.wantPlay /\ comp.scrubTargetMs >= 0 => comp.timeMs + Catchup >= comp.scrubTargetMs

\* A held scrubber that buffers shows the plant itself (setState, "pin time to
\* the plant").
BufferingShowsPlant ==
    comp.wantPlay /\ comp.scrubTargetMs >= 0 /\ comp.state = "buffering"
    => comp.timeMs = comp.scrubTargetMs

\* A scrub that was planted is kept on the screen until playback reaches it,
\* whatever the player's late progress reports say.
PlantHonoured == ThumbNearPlant /\ BufferingShowsPlant

\* Every HTTP request is answered: stop, pause and playMedia wait for locks
\* that every other thread gives back.
RequestsAnswered == []<>(http.pc = "idle")

\* Every detached thread returns, and gives back its mutexes and its flag.
ThreadsReturn == \A w \in Threads : []<>(pc[w] = "free")

\* A thread detached before the newest cast does not take a generation above
\* that cast's (companion.hpp, "an older thread can never promote itself later").
NoPromotion ==
    \A w \in Threads :
        pc[w] = "resolve" /\ task[w].gen = playGen => ~task[w].overtaken

\* A play that failed closed does not leave the timeline on a full-screen title.
ClosedStopIdles ==
    Quiet /\ ~player.run /\ lastPlay = NoPlay => timelineXml(comp).location = "navigation"
=============================================================================
