------------------------------ MODULE MediaWorkers ------------------------------
(***************************************************************************)
(* The threads of MediaPlayer in arm/misterplexd/media_player.cpp and the  *)
(* calls that start, stop and join them: the play thread with its decoder  *)
(* process, and three workers, the idle painter, the OSD poll and the      *)
(* input poll.  Calls come from the companion's threads, from the detached *)
(* play threads of main() and from the input poll itself.                  *)
(*                                                                         *)
(* A call is the list of its steps; a step that takes a mutex or joins a   *)
(* thread waits for it.  The decoder processes of a session (FFmpeg, its   *)
(* audio sibling, the stream demuxer) are one.  A session ends when it is  *)
(* told to, or by itself.                                                  *)
(***************************************************************************)
EXTENDS Integers, Sequences

CONSTANTS
    Callers,    \* threads that call the player, besides the input poll
    Calls,      \* what they call: names of Program
    MaxCalled   \* bound on calls

ASSUME WorkersAssumption ==
    /\ MaxCalled \in Nat /\ {"idle", "osd", "input", "nobody"} \cap Callers = {}
    /\ Calls \subseteq {"seek", "stop", "castStop", "cast", "castFail", "shutdown", "pause", "resume"}

Workers == {"idle", "osd", "input"}
Agents  == Callers \cup {"input"}
Nobody  == "nobody"
Mutexes == {"life", "pause", "handoff"}

VARIABLES
    todo,      \* per agent, the steps of its call that are left
    mu,        \* who holds lifeMu_, pauseControlMu_ and main()'s playHandoffMu
    workerMu,  \* and idleMu_, osdMu_, inputMu_
    run,       \* idleRun_, osdRun_, inputRun_
    thread,    \* per worker: "none", "check", "paint", "call", "exited"
    session,   \* thr_: "none", "fork", "publish", "play", "kill", "paint", "raise", "exited"
    child,     \* the decoder: alive, frozen by SIGSTOP, its pid published
    stop, playing, paused, shuttingDown,
    url,       \* currentUrl_ names something a seek can restart
    called,
    stale,     \* history: idle paints since the session began
    crossed,   \* history: a pause or resume overlapped the start of a session
    terminate, \* history: a std::thread was assigned or dropped while joinable
    orphan,    \* history: a session began while a decoder was alive
    late       \* history: a play ran after shutdown() had begun

workerVars == <<todo, mu, workerMu, run, thread, session, child, stop, playing, paused,
                shuttingDown, url, called, stale, crossed, terminate, orphan, late>>

-----------------------------------------------------------------------------
(* The calls.                                                              *)

Do(names) == [i \in 1..Len(names) |-> <<names[i]>>]
Retiring(w) == <<<<"retire", w>>>>
Raising(w)  == <<<<"raise", w>>>>
Locked(m, steps) == <<<<"lock", m>>>> \o steps \o <<<<"unlock", m>>>>

Play     == Retiring("idle") \o Locked("life", Do(<<"tell", "kill", "join", "begin">>))
Stop     == Locked("life", Do(<<"tell", "kill", "join", "settle", "forget">>) \o Retiring("osd")
                \o Retiring("idle") \o Do(<<"paint">>) \o Raising("idle") \o Raising("osd"))
Suspend  == Retiring("input") \o Retiring("osd") \o Retiring("idle")
Shutdown == Do(<<"latch">>) \o Locked("life", Do(<<"tell", "kill", "join", "settle">>)) \o Suspend
            \o Do(<<"gone">>)

PauseUnlocked == Do(<<"hold", "freeze">>)
Pause    == Locked("pause", Do(<<"hold", "freeze">>))
Resume   == Locked("pause", Do(<<"release", "thaw">>))

\* A cast stops the player and starts it again inside FpgaWorkerHandoff, which
\* resumes the workers without the idle painter when playback started, and with
\* it when nothing did.
Program(call) ==
    CASE call = "seek"     -> Do(<<"look">>) \o Play
      [] call = "stop"     -> Stop
      [] call = "castStop" -> Locked("handoff", Stop)
      [] call = "cast"     -> Locked("handoff", Stop \o Suspend \o Play \o Raising("input") \o Raising("osd"))
      [] call = "castFail" -> Locked("handoff", Stop \o Suspend \o Do(<<"paint">>) \o Raising("idle")
                                                 \o Raising("input") \o Raising("osd"))
      [] call = "shutdown" -> Stop \o Shutdown
      [] call = "pause"    -> Pause
      [] call = "resume"   -> Resume

WorkersInit ==
    /\ todo = [a \in Agents |-> <<>>]
    /\ mu = [m \in Mutexes |-> Nobody] /\ workerMu = [w \in Workers |-> Nobody]
    /\ run = [w \in Workers |-> TRUE] /\ thread = [w \in Workers |-> "check"]
    /\ session = "none" /\ child = [alive |-> FALSE, frozen |-> FALSE, known |-> FALSE]
    /\ stop = FALSE /\ playing = FALSE /\ paused = FALSE /\ shuttingDown = FALSE
    /\ url = FALSE /\ called = 0 /\ stale = 0
    /\ crossed = FALSE /\ terminate = FALSE /\ orphan = FALSE /\ late = FALSE

Called(a, call) ==
    /\ todo[a] = <<>> /\ called < MaxCalled
    /\ called' = called + 1
    /\ todo' = [todo EXCEPT ![a] = Program(call)]

Begun(c) == c \in Callers /\ \E call \in Calls : Called(c, call)
            /\ UNCHANGED <<mu, workerMu, run, thread, session, child, stop, playing,
                           paused, shuttingDown, stale, crossed, terminate, orphan, url, late>>

-----------------------------------------------------------------------------
(* Steps.                                                                  *)

At(a, step) == Head(todo[a]) = <<step>>
Advance(a) == todo' = [todo EXCEPT ![a] = Tail(@)]

\* killChildren reaches the processes whose pid is published, stopped or not.
Reaped(c) == IF c.known THEN [alive |-> FALSE, frozen |-> FALSE, known |-> FALSE] ELSE c

Finished == {"none", "exited"}

Lock(a, m) ==
    /\ \/ Head(todo[a]) = <<"lock", m>> /\ mu[m] = Nobody /\ mu' = [mu EXCEPT ![m] = a]
       \/ Head(todo[a]) = <<"unlock", m>> /\ mu' = [mu EXCEPT ![m] = Nobody]
    /\ Advance(a)
    /\ UNCHANGED <<workerMu, run, thread, session, child, stop, playing, paused, shuttingDown, called,
                   stale, crossed, terminate, orphan, url, late>>

Tell(a) ==
    /\ At(a, "tell")
    /\ stop' = TRUE /\ Advance(a)
    /\ UNCHANGED <<mu, workerMu, run, thread, session, child, playing, paused, shuttingDown, called,
                   stale, crossed, terminate, orphan, url, late>>

Kill(a) ==
    /\ At(a, "kill")
    /\ child' = Reaped(child) /\ Advance(a)
    /\ UNCHANGED <<mu, workerMu, run, thread, session, stop, playing, paused,
                   shuttingDown, called, stale, crossed, terminate, orphan, url, late>>

Join(a) ==
    /\ At(a, "join") /\ session \in Finished
    /\ session' = "none" /\ Advance(a)
    /\ UNCHANGED <<mu, workerMu, run, thread, child, stop, playing, paused,
                   shuttingDown, called, stale, crossed, terminate, orphan, url, late>>

\* play(): the flags are set up for a new session and its thread is made.
Begin(a) ==
    /\ At(a, "begin")
    /\ session' = "fork" /\ stop' = FALSE /\ paused' = FALSE /\ playing' = TRUE
    /\ stale' = 0
    /\ terminate' = (terminate \/ session # "none")
    /\ orphan' = (orphan \/ child.alive)
    /\ crossed' = (crossed \/ mu["pause"] # Nobody)
    /\ Advance(a)
    /\ url' = TRUE /\ late' = (late \/ shuttingDown)
    /\ UNCHANGED <<mu, workerMu, run, thread, child, shuttingDown, called>>

\* Or the screen cannot be had: play() returns false, and a cast then resumes the
\* workers with the idle painter.
BeginFails(a) ==
    /\ At(a, "begin")
    /\ todo' = [todo EXCEPT ![a] =
         IF mu["handoff"] = a THEN <<@[2]>> \o Do(<<"paint">>) \o Raising("idle") \o Tail(Tail(@))
         ELSE Tail(@)]
    /\ UNCHANGED <<mu, workerMu, run, thread, session, child, stop, playing, paused,
                   shuttingDown, called, stale, crossed, terminate, orphan, url, late>>

Settle(a) ==
    /\ At(a, "settle")
    /\ playing' = FALSE /\ paused' = FALSE
    /\ crossed' = (crossed \/ mu["pause"] # Nobody)
    /\ Advance(a)
    /\ UNCHANGED <<mu, workerMu, run, thread, session, child, stop, shuttingDown,
                   called, stale, terminate, orphan, url, late>>

\* stop() forgets what was playing; a seek without one returns at once, and so does
\* one to where the session is.
Look(a) ==
    /\ \/ At(a, "forget") /\ url' = FALSE /\ Advance(a)
       \/ At(a, "look") /\ url /\ UNCHANGED url /\ Advance(a)
       \/ /\ At(a, "look") /\ (~url \/ (playing /\ ~stop)) /\ UNCHANGED url
          /\ todo' = [todo EXCEPT ![a] = <<>>]
    /\ UNCHANGED <<mu, workerMu, run, thread, session, child, stop, playing, paused,
                   shuttingDown, called, stale, crossed, terminate, orphan, late>>

Latch(a) ==
    /\ At(a, "latch")
    /\ shuttingDown' = TRUE /\ Advance(a)
    /\ UNCHANGED <<mu, workerMu, run, thread, session, child, stop, playing, paused,
                   called, stale, crossed, terminate, orphan, url, late>>

\* ~MediaPlayer: a std::thread that is still joinable ends the process.
Gone(a) ==
    /\ At(a, "gone")
    /\ terminate' = (terminate \/ session # "none" \/ \E w \in Workers : thread[w] # "none")
    /\ Advance(a)
    /\ UNCHANGED <<mu, workerMu, run, thread, session, child, stop, playing, paused,
                   shuttingDown, called, stale, crossed, orphan, url, late>>

\* stopIdle, stopOsdPoll, stopInputPoll: under the worker's mutex, told and joined.
Retire(a, w) ==
    /\ Head(todo[a]) = <<"retire", w>> /\ workerMu[w] = Nobody /\ a # w
    /\ workerMu' = [workerMu EXCEPT ![w] = a]
    /\ run' = [run EXCEPT ![w] = FALSE]
    /\ todo' = [todo EXCEPT ![a] = <<<<"joined", w>>>> \o Tail(@)]
    /\ UNCHANGED <<mu, thread, session, child, stop, playing, paused, shuttingDown,
                   called, stale, crossed, terminate, orphan, url, late>>

Retired(a, w) ==
    /\ Head(todo[a]) = <<"joined", w>> /\ thread[w] \in Finished
    /\ thread' = [thread EXCEPT ![w] = "none"]
    /\ workerMu' = [workerMu EXCEPT ![w] = Nobody]
    /\ Advance(a)
    /\ UNCHANGED <<mu, run, session, child, stop, playing, paused, shuttingDown,
                   called, stale, crossed, terminate, orphan, url, late>>

\* startIdle, startOsdPoll, startInputPoll, once they have the mutex.
Raised(w) ==
    \/ (shuttingDown \/ run[w]) /\ UNCHANGED <<run, thread, terminate>>
    \/ /\ ~shuttingDown /\ ~run[w] /\ thread[w] \in Finished
       /\ run' = [run EXCEPT ![w] = TRUE]
       /\ thread' = [thread EXCEPT ![w] = "check"]
       /\ UNCHANGED terminate

Raise(a, w) ==
    /\ Head(todo[a]) = <<"raise", w>> /\ workerMu[w] = Nobody
    /\ Raised(w) /\ Advance(a)
    /\ UNCHANGED <<mu, workerMu, session, child, stop, playing, paused, shuttingDown,
                   called, stale, crossed, orphan, url, late>>

\* pause() and resume(): the flag, then the signal to whoever is the child by then.
Pausing(a) ==
    /\ \/ /\ At(a, "hold") \/ At(a, "release")
          /\ paused' = At(a, "hold") /\ UNCHANGED child
       \/ /\ At(a, "freeze") \/ At(a, "thaw")
          /\ child' = IF child.known THEN [child EXCEPT !.frozen = At(a, "freeze")] ELSE child
          /\ UNCHANGED paused
    /\ Advance(a)
    /\ UNCHANGED <<mu, workerMu, run, thread, session, stop, playing, shuttingDown, called, stale,
                   crossed, terminate, orphan, url, late>>

\* paintIdle: the idle picture goes to the screen, unless the mode is "last" or no
\* bank is to be had; it does not look at playing_.
paintIdle == stale' \in {stale, IF playing THEN stale + 1 ELSE stale}

PaintNow(a) ==
    /\ At(a, "paint") /\ Advance(a)
    /\ paintIdle
    /\ UNCHANGED <<mu, workerMu, run, thread, session, child, stop, playing, paused,
                   shuttingDown, called, crossed, terminate, orphan, url, late>>

Step(a) ==
    /\ todo[a] # <<>>
    /\ \/ \E m \in Mutexes : Lock(a, m)
       \/ Tell(a) \/ Kill(a) \/ Join(a) \/ Begin(a) \/ BeginFails(a) \/ Settle(a) \/ Look(a) \/ Latch(a) \/ Gone(a)
       \/ \E w \in Workers : Retire(a, w) \/ Retired(a, w) \/ Raise(a, w)
       \/ Pausing(a) \/ PaintNow(a)

-----------------------------------------------------------------------------
(* The play thread.                                                        *)

Session(from, to) == session = from /\ session' = to

\* The decoder is forked, and its pid published, in two steps; or it cannot be
\* had, and the thread returns at once.
SessionForks ==
    /\ Session("fork", "publish")
    /\ child' = [alive |-> TRUE, frozen |-> FALSE, known |-> FALSE]
    /\ UNCHANGED <<todo, mu, workerMu, run, thread, stop, playing, paused,
                   shuttingDown, called, stale, crossed, terminate, orphan, url, late>>

SessionFails ==
    /\ Session("fork", "exited")
    /\ playing' = FALSE /\ child' = Reaped(child)
    /\ UNCHANGED <<todo, mu, workerMu, run, thread, stop, paused, shuttingDown, called,
                   stale, crossed, terminate, orphan, url, late>>

SessionPublishes ==
    /\ Session("publish", "play")
    /\ child' = [child EXCEPT !.known = TRUE]
    /\ UNCHANGED <<todo, mu, workerMu, run, thread, stop, playing, paused,
                   shuttingDown, called, stale, crossed, terminate, orphan, url, late>>

\* Told to stop, or the end of the stream, which a paused session does not reach.
SessionLeaves ==
    /\ Session("play", "kill") /\ (stop \/ ~paused)
    /\ UNCHANGED <<todo, mu, workerMu, run, thread, child, stop, playing, paused,
                   shuttingDown, called, stale, crossed, terminate, orphan, url, late>>

SessionKills ==
    /\ Session("kill", "paint")
    /\ child' = Reaped(child) /\ playing' = FALSE
    /\ UNCHANGED <<todo, mu, workerMu, run, thread, stop, paused, shuttingDown, called,
                   stale, crossed, terminate, orphan, url, late>>

SessionPaints ==
    /\ Session("paint", "raise")
    /\ UNCHANGED <<todo, mu, workerMu, run, thread, child, stop, playing, paused,
                   shuttingDown, called, stale, crossed, terminate, orphan, url, late>>

SessionRaisesIdle ==
    /\ Session("raise", "exited") /\ workerMu["idle"] = Nobody
    /\ Raised("idle")
    /\ UNCHANGED <<todo, mu, workerMu, child, stop, playing, paused, shuttingDown,
                   called, stale, crossed, orphan, url, late>>

SessionStep == SessionForks \/ SessionFails \/ SessionPublishes \/ SessionKills \/ SessionPaints
               \/ SessionRaisesIdle \/ (stop /\ SessionLeaves)

-----------------------------------------------------------------------------
(* The workers.                                                            *)

\* The idle painter, and the OSD poll when the menu changed, look at playing_
\* and paint after; neither looks again.
WorkerPaintsAlways(w) ==
    /\ thread[w] = "check"
    /\ \/ ~run[w] /\ thread' = [thread EXCEPT ![w] = "exited"]
       \/ run[w] /\ w # "input" /\ thread' = [thread EXCEPT ![w] = "paint"]
    /\ UNCHANGED <<todo, mu, workerMu, run, session, child, stop, playing, paused,
                   shuttingDown, called, stale, crossed, terminate, orphan, url, late>>
WorkerChecks(w) ==
    /\ thread[w] = "check"
    /\ \/ ~run[w] /\ thread' = [thread EXCEPT ![w] = "exited"]
       \/ run[w] /\ ~playing /\ w # "input" /\ thread' = [thread EXCEPT ![w] = "paint"]
    /\ UNCHANGED <<todo, mu, workerMu, run, session, child, stop, playing, paused,
                   shuttingDown, called, stale, crossed, terminate, orphan, url, late>>

WorkerPaints(w) ==
    /\ thread[w] = "paint"
    /\ thread' = [thread EXCEPT ![w] = "check"]
    /\ paintIdle
    /\ UNCHANGED <<todo, mu, workerMu, run, session, child, stop, playing, paused,
                   shuttingDown, called, crossed, terminate, orphan, url, late>>

\* dispatchPlaybackInput: the input poll makes the call itself, in a session only.
MappedCommands == {"stop", "seek", IF paused THEN "resume" ELSE "pause"}

InputCallsPlayer ==
    /\ thread["input"] = "check" /\ run["input"] /\ playing
    /\ \E call \in MappedCommands : Called("input", call)
    /\ thread' = [thread EXCEPT !["input"] = "call"]
    /\ UNCHANGED <<mu, workerMu, run, session, child, stop, playing, paused,
                   shuttingDown, stale, crossed, terminate, orphan, url, late>>

InputReturns ==
    /\ thread["input"] = "call" /\ todo["input"] = <<>>
    /\ thread' = [thread EXCEPT !["input"] = "check"]
    /\ UNCHANGED <<todo, mu, workerMu, run, session, child, stop, playing, paused,
                   shuttingDown, called, stale, crossed, terminate, orphan, url, late>>

WorkersNext ==
    \/ \E c \in Callers : Begun(c)
    \/ \E a \in Agents : Step(a)
    \/ SessionForks \/ SessionFails \/ SessionPublishes \/ SessionLeaves \/ SessionKills
    \/ SessionPaints \/ SessionRaisesIdle
    \/ \E w \in Workers : WorkerChecks(w) \/ WorkerPaints(w)
    \/ InputCallsPlayer \/ InputReturns

WorkersSpec == WorkersInit /\ [][WorkersNext]_workerVars

-----------------------------------------------------------------------------
(* Properties.                                                             *)

\* The shape of the state of the mutexes, threads and the decoder process.
WorkersTypeOK ==
    /\ mu \in [Mutexes -> Agents \cup {Nobody}]
    /\ thread \in [Workers -> {"none", "check", "paint", "call", "exited"}]
    /\ session \in {"none", "fork", "publish", "play", "kill", "paint", "raise", "exited"}
    /\ child \in [alive : BOOLEAN, frozen : BOOLEAN, known : BOOLEAN]
    /\ stale \in Nat

\* Sessions and workers are started and joined one at a time: no thread object
\* is assigned while joinable, a decoder never outlives the session it was made
\* for, even if it was forked after stop() had looked for its pid.  A play that
\* comes after shutdown() has begun is the exception: play() does not look.
SessionsApart == ~orphan /\ (terminate => late)

\* Between sessions the screen belongs to the idle painter, in a session to the
\* video: of the three that paint, the idle painter, the OSD poll and a cast
\* that failed, each can still land one paint in a session, never a second.
IdleYields == stale <= 3

\* The decoder is stopped while playback is not paused only if a pause ran
\* across the start or the end of a session.
FrozenMeansPaused ==
    child.frozen /\ mu["pause"] = Nobody => paused \/ crossed

\* What the next step of a call waits for: a mutex, a worker's mutex, or a thread
\* that has not ended; and what a session, an input call that is done and a worker
\* that is told to stop wait for.
Startable(w) == workerMu[w] = Nobody /\ (shuttingDown \/ run[w] \/ thread[w] \in Finished)
Ready(a) ==
    LET step == Head(todo[a])
    IN  /\ step[1] = "lock" => mu[step[2]] = Nobody
        /\ step[1] = "join" => session \in Finished
        /\ step[1] = "retire" => workerMu[step[2]] = Nobody /\ a # step[2]
        /\ step[1] = "joined" => thread[step[2]] \in Finished
        /\ step[1] = "raise" => Startable(step[2])
SessionReady ==
    \/ session \in {"fork", "publish", "kill", "paint"} \/ (session = "play" /\ stop)
    \/ session = "raise" /\ Startable("idle")
InputReady == thread["input"] = "call" /\ todo["input"] = <<>>
WorkerReady(w) == thread[w] = "paint" \/ (thread[w] = "check" /\ ~run[w])

\* The mutexes and the joins never wait in a circle, with the input poll calling
\* the player that joins it: while a call has not returned, some thread can move.
NoCircle ==
    (\E a \in Agents : todo[a] # <<>>) =>
        \/ \E a \in Agents : todo[a] # <<>> /\ Ready(a)
        \/ SessionReady \/ InputReady \/ \E w \in Workers : WorkerReady(w)

\* And who waits for nothing has a step to take.
ReadyGoes ==
    /\ \A a \in Agents : todo[a] # <<>> /\ Ready(a) => ENABLED Step(a)
    /\ SessionReady => ENABLED SessionStep
    /\ InputReady => ENABLED InputReturns
    /\ \A w \in Workers : WorkerReady(w) => ENABLED (WorkerChecks(w) \/ WorkerPaints(w))

\* One session at a time owns the decoder and the screen.
ScreenOwned == SessionsApart /\ IdleYields
================================================================================
