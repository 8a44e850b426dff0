---------------------------- MODULE PresentPipeline ----------------------------
(***************************************************************************)
(* The present pipeline of MediaPlayer::threadMain in                      *)
(* arm/misterplexd/media_player.cpp: the play thread reads decoded frames  *)
(* into a ring of two slots, a present thread hands them to the frame      *)
(* banks of the core.  At 480p ("strict") a frame is paced on the audible  *)
(* clock and a refused bank ends the session; at 720p ("live") every frame *)
(* is presented and the copy of the next one is hidden in the wait for the *)
(* swap of this one.  While playback is paused it is the play thread that  *)
(* repaints the last frame, with the overlay or to take it away.           *)
(*                                                                         *)
(* Frames are their numbers in the stream; 0 is none and -1 a slot the     *)
(* reader is filling.  Of the core only the displayed bank and the pending *)
(* swap are kept (module DdrPresent has the protocol).  Time passes        *)
(* freely: a hold, a timeout and the expiry of the overlay may happen at   *)
(* any moment.  A step that holds presentMu_ or ringMu across several      *)
(* actions names it in its guard.                                          *)
(***************************************************************************)
EXTENDS Integers

CONSTANTS
    Modes,         \* of {"strict", "live"}
    MaxDropRun,    \* consecutive resync drops, 1 in the code
    MaxFrames,     \* bound on the frames of the stream
    MaxPauses      \* bound on pauses

ASSUME PipelineAssumption ==
    /\ Modes \subseteq {"strict", "live"} /\ Modes # {}
    /\ MaxDropRun \in Nat /\ MaxFrames \in Nat \ {0} /\ MaxPauses \in Nat

VARIABLES
    mode,
    slots,      \* the two frame buffers
    ring,       \* fullCount, readSlot, presentSlot
    reader,     \* "top", "reading", "read", "leaving", "notify", "join", "done"
    frameIndex, \* frames the reader has published
    presenter,  \* where the present thread is, and the frame it has taken
    flags,      \* stop_, pipelineFatal, readerEof, paused_
    overlay,    \* overlay_.visible()
    core,       \* the contents of the banks, the displayed one, the pending one
    localBank,  \* the bank the next frame prefers
    prefetched, \* overlapReady, overlapBank
    last,       \* lastPresentedFrameValid, lastPresentedHadOverlay, the frame
    dropRun,
    pauses,
    result,     \* what the session reports at its end
    shown,      \* history: the last present: its frame, what the bank held, repaints since
    handled,    \* history: frames presented, refused or dropped
    missed      \* history: the last notify_all found the present thread before its wait

pipeVars == <<mode, slots, ring, reader, frameIndex, presenter, flags, overlay, core, localBank,
              prefetched, last, dropRun, pauses, result, shown, handled, missed>>

Idle(pc) == [pc |-> pc, frame |-> 0, drawn |-> FALSE]

PipeInit ==
    /\ mode \in Modes
    /\ slots = [s \in {0, 1} |-> 0]
    /\ ring = [full |-> 0, read |-> 0, present |-> 0]
    /\ reader = "top" /\ presenter = Idle("check") /\ frameIndex = 0
    /\ flags = [stop |-> FALSE, fatal |-> FALSE, eof |-> FALSE, paused |-> FALSE]
    /\ overlay = FALSE
    /\ core = [bank |-> [b \in {0, 1} |-> 0], disp |-> 0, pend |-> -1]
    /\ localBank = 0
    /\ prefetched = [ready |-> FALSE, bank |-> -1, repaints |-> 0]
    /\ last = [valid |-> FALSE, hadOverlay |-> FALSE, frame |-> 0]
    /\ dropRun = 0 /\ pauses = 0 /\ result = "none"
    /\ shown = [of |-> 0, frame |-> 0, before |-> 0, repaints |-> 0]
    /\ handled = 0 /\ missed = FALSE

-----------------------------------------------------------------------------
(* The banks.                                                              *)

\* Fault: the bank counter does not wrap.
nextBankUnwrapped(b) == b + 1

nextBank(b) == (b + 1) % 2
FreeBank == 1 - core.disp

\* sendYuv420pFrameDdr: a released bank, or at best effort the one not shown.
CanSend == mode = "live" \/ core.pend = -1
Sent(c, frame) == [c EXCEPT !.bank[1 - c.disp] = frame, !.pend = 1 - c.disp]

\* commitDdrBankIngest: the bank already holds the payload.
Committed(c, b) == [c EXCEPT !.pend = b]

Swap ==
    /\ core.pend # -1
    /\ core' = [core EXCEPT !.disp = core.pend, !.pend = -1]
    /\ UNCHANGED <<mode, slots, ring, reader, frameIndex, presenter, flags, overlay, localBank,
                   prefetched, last, dropRun, pauses, result, shown, handled, missed>>

-----------------------------------------------------------------------------
(* The play thread: the reader.                                            *)

\* notify_all wakes the present thread only once it waits.
Notified(p) == IF p.pc = "waiting" THEN Idle("check") ELSE p
RingMuFree == presenter.pc # "parking"
PresentMuFree == presenter.pc # "swap"

\* servicePipelinePause: with the overlay, and once more to take it away.
ServicePause ==
    /\ reader \in {"top", "reading"} /\ flags.paused /\ PresentMuFree
    /\ ~flags.stop /\ ~flags.fatal
    /\ last.valid /\ (overlay \/ last.hadOverlay)
    /\ \/ /\ CanSend
          /\ core' = Sent(core, last.frame)
          /\ localBank' = nextBank(localBank)
          /\ last' = [last EXCEPT !.hadOverlay = overlay]
          /\ prefetched' = [prefetched EXCEPT !.repaints = IF @ < 2 THEN @ + 1 ELSE @]
          /\ UNCHANGED flags
       \/ /\ flags' = [flags EXCEPT !.fatal = mode = "strict"]
          /\ UNCHANGED <<core, localBank, last, prefetched>>
    /\ UNCHANGED <<mode, slots, ring, reader, frameIndex, presenter, overlay, dropRun, pauses,
                   result, shown, handled, missed>>

\* A free slot is filled in place.
ReadBeginsAnyway ==
    /\ reader = "top" /\ ~flags.stop /\ ~flags.fatal /\ ~flags.paused
    /\ RingMuFree /\ ring.full < 3
    /\ reader' = "reading"
    /\ slots' = [slots EXCEPT ![ring.read] = -1]
    /\ UNCHANGED <<mode, ring, frameIndex, presenter, flags, overlay, core, localBank, prefetched,
                   last, dropRun, pauses, result, shown, handled, missed>>

ReadBegins ==
    /\ reader = "top" /\ ~flags.stop /\ ~flags.fatal /\ ~flags.paused
    /\ RingMuFree /\ ring.full < 2
    /\ reader' = "reading"
    /\ slots' = [slots EXCEPT ![ring.read] = -1]
    /\ UNCHANGED <<mode, ring, frameIndex, presenter, flags, overlay, core, localBank, prefetched,
                   last, dropRun, pauses, result, shown, handled, missed>>

ReadEnds ==
    /\ reader = "reading" /\ frameIndex < MaxFrames /\ ~flags.fatal
    /\ reader' = "read"
    /\ frameIndex' = frameIndex + 1
    /\ slots' = [slots EXCEPT ![ring.read] = frameIndex + 1]
    /\ UNCHANGED <<mode, ring, presenter, flags, overlay, core, localBank, prefetched, last,
                   dropRun, pauses, result, shown, handled, missed>>

Publish ==
    /\ reader = "read" /\ RingMuFree
    /\ reader' = "top"
    /\ ring' = [ring EXCEPT !.full = @ + 1, !.read = 1 - @]
    /\ presenter' = Notified(presenter)
    /\ UNCHANGED <<mode, slots, frameIndex, flags, overlay, core, localBank, prefetched, last,
                   dropRun, pauses, result, shown, handled, missed>>

\* A stop or a failure, or the end of the stream, or a short read.
ReaderLeaves ==
    /\ \/ reader = "top" /\ (flags.stop \/ flags.fatal)
       \/ reader = "reading"
    /\ reader' = "leaving"
    /\ UNCHANGED <<mode, slots, ring, frameIndex, presenter, flags, overlay, core, localBank,
                   prefetched, last, dropRun, pauses, result, shown, handled, missed>>

\* readerEof and the notification, neither of them under ringMu.
ReaderEof ==
    /\ reader = "leaving"
    /\ reader' = "notify"
    /\ flags' = [flags EXCEPT !.eof = TRUE]
    /\ UNCHANGED <<mode, slots, ring, frameIndex, presenter, overlay, core, localBank, prefetched,
                   last, dropRun, pauses, result, shown, handled, missed>>

ReaderSilent ==
    /\ reader = "notify"
    /\ reader' = "join"
    /\ UNCHANGED presenter
    /\ missed' = (presenter.pc = "parking")
    /\ UNCHANGED <<mode, slots, ring, frameIndex, flags, overlay, core, localBank, prefetched, last,
                   dropRun, pauses, result, shown, handled>>

ReaderNotifies ==
    /\ reader = "notify"
    /\ reader' = "join"
    /\ presenter' = Notified(presenter)
    /\ missed' = (presenter.pc = "parking")
    /\ UNCHANGED <<mode, slots, ring, frameIndex, flags, overlay, core, localBank, prefetched, last,
                   dropRun, pauses, result, shown, handled>>

\* classifyPlaybackTerminalState.
Terminal == IF flags.stop THEN "none"
            ELSE IF flags.fatal \/ frameIndex = 0 THEN "stopped" ELSE "ended"

SessionEnds ==
    /\ reader = "join" /\ presenter.pc = "done"
    /\ reader' = "done"
    /\ result' = Terminal
    /\ UNCHANGED <<mode, slots, ring, frameIndex, presenter, flags, overlay, core, localBank,
                   prefetched, last, dropRun, pauses, shown, handled, missed>>

-----------------------------------------------------------------------------
(* The present thread.                                                     *)

Leaving == flags.eof \/ flags.stop \/ flags.fatal

\* The wait's predicate, and what the thread does once it holds.
PresenterChecks ==
    /\ presenter.pc = "check"
    /\ presenter' =
         IF ring.full > 0
         THEN [pc |-> IF mode = "strict" THEN "pace" ELSE "present",
               frame |-> slots[ring.present], drawn |-> FALSE]
         ELSE Idle(IF Leaving THEN "done" ELSE "parking")
    /\ UNCHANGED <<mode, slots, ring, reader, frameIndex, flags, overlay, core, localBank,
                   prefetched, last, dropRun, pauses, result, shown, handled, missed>>

PresenterParks ==
    /\ presenter.pc = "parking"
    /\ presenter' = Idle("waiting")
    /\ UNCHANGED <<mode, slots, ring, reader, frameIndex, flags, overlay, core, localBank,
                   prefetched, last, dropRun, pauses, result, shown, handled, missed>>

\* avDecide: present, or drop a late frame while the run of drops allows it.
Pace ==
    /\ presenter.pc = "pace"
    /\ \/ /\ flags.stop \/ flags.fatal
          /\ presenter' = [presenter EXCEPT !.pc = "release"] /\ UNCHANGED <<dropRun, handled>>
       \/ /\ ~flags.stop /\ ~flags.fatal /\ ~flags.paused
          /\ presenter' = [presenter EXCEPT !.pc = "present"]
          /\ dropRun' = 0 /\ UNCHANGED handled
       \/ /\ ~flags.stop /\ ~flags.fatal /\ ~flags.paused /\ dropRun < MaxDropRun
          /\ presenter' = [presenter EXCEPT !.pc = "release"]
          /\ dropRun' = dropRun + 1 /\ handled' = handled + 1
    /\ UNCHANGED <<mode, slots, ring, reader, frameIndex, flags, overlay, core, localBank,
                   prefetched, last, pauses, result, shown, missed>>

\* The prefetched bank, if nobody has turned localBank away from it; else a send.
UsesPrefetch == prefetched.ready /\ prefetched.bank = localBank

Present ==
    /\ presenter.pc = "present"
    /\ prefetched' = [ready |-> FALSE, bank |-> -1, repaints |-> 0]
    /\ handled' = handled + 1
    /\ \/ /\ UsesPrefetch \/ CanSend
          /\ LET c == IF UsesPrefetch THEN Committed(core, localBank)
                      ELSE Sent(core, slots[ring.present])
             IN  /\ core' = c
                 /\ shown' = [of |-> presenter.frame, frame |-> c.bank[c.pend], before |-> shown.of,
                              repaints |-> IF UsesPrefetch THEN prefetched.repaints ELSE 0]
          /\ localBank' = nextBank(localBank)
          /\ presenter' = [presenter EXCEPT !.pc = "swap", !.drawn = overlay]
          /\ UNCHANGED flags
       \/ /\ presenter' = [presenter EXCEPT !.pc = "release"]
          /\ flags' = [flags EXCEPT !.fatal = @ \/ mode = "strict"]
          /\ UNCHANGED <<core, shown, localBank>>
    /\ UNCHANGED <<mode, slots, ring, reader, frameIndex, overlay, last, dropRun, pauses, result,
                   missed>>

\* prefetchOverlap: the next slot into the bank that is neither shown nor pending.
Prefetch ==
    /\ presenter.pc = "swap" /\ mode = "live"
    /\ ~prefetched.ready /\ ~overlay /\ ring.full >= 2 /\ core.pend = -1
    /\ core' = [core EXCEPT !.bank[FreeBank] = slots[1 - ring.present]]
    /\ prefetched' = [ready |-> TRUE, bank |-> FreeBank, repaints |-> 0]
    /\ localBank' = FreeBank
    /\ UNCHANGED <<mode, slots, ring, reader, frameIndex, presenter, flags, overlay, last, dropRun,
                   pauses, result, shown, handled, missed>>

\* The swap was seen, or 50 ms passed, or the session stops; presentMu_ is let go.
SwapWaited ==
    /\ presenter.pc = "swap"
    /\ last' = [valid |-> presenter.drawn \/ overlay, hadOverlay |-> presenter.drawn,
                frame |-> presenter.frame]
    /\ presenter' = [presenter EXCEPT !.pc = "release"]
    /\ UNCHANGED <<mode, slots, ring, reader, frameIndex, flags, overlay, core, localBank,
                   prefetched, dropRun, pauses, result, shown, handled, missed>>

\* The slot goes back to the reader; a failure ends the thread.
Release ==
    /\ presenter.pc = "release"
    /\ ring' = [ring EXCEPT !.full = @ - 1, !.present = 1 - @]
    /\ presenter' = Idle(IF flags.fatal THEN "done" ELSE "check")
    /\ UNCHANGED <<mode, slots, reader, frameIndex, flags, overlay, core, localBank, prefetched,
                   last, dropRun, pauses, result, shown, handled, missed>>

-----------------------------------------------------------------------------
(* The other threads: the user, and MediaPlayer::stop.                     *)

\* pause() and resume() show the overlay.
PauseOrResume ==
    /\ reader # "done" /\ (flags.paused \/ pauses < MaxPauses)
    /\ flags' = [flags EXCEPT !.paused = ~@]
    /\ pauses' = IF flags.paused THEN pauses ELSE pauses + 1
    /\ overlay' = TRUE
    /\ UNCHANGED <<mode, slots, ring, reader, frameIndex, presenter, core, localBank, prefetched,
                   last, dropRun, result, shown, handled, missed>>

OverlayExpires ==
    /\ overlay
    /\ overlay' = FALSE
    /\ UNCHANGED <<mode, slots, ring, reader, frameIndex, presenter, flags, core, localBank,
                   prefetched, last, dropRun, pauses, result, shown, handled, missed>>

StopRequested ==
    /\ ~flags.stop /\ reader # "done"
    /\ flags' = [flags EXCEPT !.stop = TRUE]
    /\ UNCHANGED <<mode, slots, ring, reader, frameIndex, presenter, overlay, core, localBank,
                   prefetched, last, dropRun, pauses, result, shown, handled, missed>>

-----------------------------------------------------------------------------

PipeNext ==
    \/ Swap
    \/ ServicePause \/ ReadBegins \/ ReadEnds \/ Publish
    \/ ReaderLeaves \/ ReaderEof \/ ReaderNotifies \/ SessionEnds
    \/ PresenterChecks \/ PresenterParks \/ Pace \/ Present \/ Prefetch \/ SwapWaited \/ Release
    \/ PauseOrResume \/ OverlayExpires \/ StopRequested

PipeSpec == PipeInit /\ [][PipeNext]_pipeVars

-----------------------------------------------------------------------------
(* Properties.                                                             *)

ReaderType ==
    /\ mode \in Modes /\ frameIndex \in 0..MaxFrames
    /\ reader \in {"top", "reading", "read", "leaving", "notify", "join", "done"}
    /\ flags \in [stop : BOOLEAN, fatal : BOOLEAN, eof : BOOLEAN, paused : BOOLEAN]
RingType ==
    /\ ring \in [full : 0..2, read : {0, 1}, present : {0, 1}]
    /\ slots \in [{0, 1} -> -1..MaxFrames]
PresenterType ==
    presenter \in [pc : {"check", "parking", "waiting", "pace", "present", "swap", "release", "done"},
                   frame : -1..MaxFrames, drawn : BOOLEAN]
BanksType ==
    /\ core \in [bank : [{0, 1} -> -1..MaxFrames], disp : {0, 1}, pend : {-1, 0, 1}]
    /\ localBank \in {0, 1}
    /\ prefetched \in [ready : BOOLEAN, bank : {-1, 0, 1}, repaints : 0..2]
    /\ last \in [valid : BOOLEAN, hadOverlay : BOOLEAN, frame : -1..MaxFrames]
    /\ overlay \in BOOLEAN
CountsType ==
    /\ dropRun \in 0..MaxDropRun /\ pauses \in 0..MaxPauses /\ handled \in 0..MaxFrames
    /\ result \in {"none", "stopped", "ended"} /\ missed \in BOOLEAN
    /\ shown \in [of : -1..MaxFrames, frame : -1..MaxFrames, before : -1..MaxFrames, repaints : 0..2]

\* The shape of the state; the ring never counts more than its two slots.
PipeTypeOK == ReaderType /\ RingType /\ PresenterType /\ BanksType /\ CountsType

\* What a present hands to the core is the frame it took from the ring, in the
\* order of the stream: no slot is overwritten while it is presented, and a
\* prefetched bank still holds the frame it was filled with.  The one exception
\* is a prefetch that two pause repaints went over: they turn localBank back to
\* the prefetched bank, which then holds what the first of them painted.
PresentsItsFrame ==
    /\ shown.of # shown.frame => shown.repaints = 2
    /\ shown.of # 0 => shown.before < shown.of

\* A session that reports "ended" has handed every frame it read to the core or
\* dropped it as late, and no strict present failed.
EndedMeansHandled == result = "ended" => handled = frameIndex /\ ~flags.fatal

\* The play thread joins a present thread that sleeps only if the notification
\* fell between the predicate and the wait (it is sent without ringMu, and the
\* wait has no timeout); and no frame waits for a sleeping present thread.
SleeperIsMissed ==
    presenter.pc = "waiting" => ring.full = 0 /\ (reader \in {"join", "done"} => missed)
================================================================================
