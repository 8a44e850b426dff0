----------------------------- MODULE SerialPresent -----------------------------
(***************************************************************************)
(* The serial present loop of MediaPlayer::threadMain in                   *)
(* arm/misterplexd/media_player.cpp, which runs when the pictures go to    *)
(* the framebuffer or to both screens (module PresentPipeline has the loop *)
(* of PRESENT=fpga), with the overlay of                                   *)
(* host/libmisterplex/playback_overlay.hpp that it draws into the picture  *)
(* and takes out again.                                                    *)
(*                                                                         *)
(* One buffer holds the picture.  It is read in two parts; the skip box of *)
(* the overlay lies in the first part and the transport panel in the       *)
(* second.  Pixels are not kept: a part is the number of the picture it is *)
(* of, and whether overlay pixels are in it.  Time passes freely: the      *)
(* overlay may expire and a hold may end at any moment.  The branch for a  *)
(* seek request is left out, as nothing stores one, and so is the direct   *)
(* ingest, whose condition is that of the other loop.                      *)
(***************************************************************************)
EXTENDS Integers

CONSTANTS
    Formats,    \* of {"packed", "i420"}: RGB for the framebuffer, or YUV for both screens
    Pictures,   \* bound on the pictures of the stream
    Toggles,    \* bound on pauses
    Flashes     \* bound on the times a skip is flashed

ASSUME SerialAssumption ==
    /\ Formats \subseteq {"packed", "i420"} /\ Formats # {}
    /\ Pictures \in Nat \ {0} /\ Toggles \in Nat /\ Flashes \in Nat

VARIABLES
    format,
    buffer,     \* frame: of each part its picture, and whether the overlay is in it
    got,        \* parts read of the next picture
    count,      \* frameIndex
    loop,       \* where the play thread is
    control,    \* stop_, paused_, videoEof, shortRead
    boxes,      \* the parts in which the overlay is visible now
    wasVisible, \* pausedOverlayWasVisible
    pass,       \* the present under way: counted or a repaint, the backup, boxes drawn
    lateRun,    \* dropRun
    tx,         \* ddrBank_, presentCount_
    screen,     \* what was last put on the screen
    outcome,    \* what the session reports at its end
    toggled, flashed,
    gap         \* history: a resume fell between the two looks at paused_

serialVars == <<format, buffer, got, count, loop, control, boxes, wasVisible, pass, lateRun, tx,
                screen, outcome, toggled, flashed, gap>>
others == <<format, toggled, flashed, gap>>

Parts == {1, 2}
SkipBox == 1
Panel == 2
NoPass == [counted |-> FALSE, saved |-> <<>>, dirty |-> {}, drawn |-> {}]

SerialInit ==
    /\ format \in Formats
    /\ buffer = [p \in Parts |-> [of |-> 0, osd |-> FALSE]]
    /\ got = 0 /\ count = 0 /\ loop = "top"
    /\ control = [stop |-> FALSE, paused |-> FALSE, eof |-> FALSE, short |-> FALSE]
    /\ boxes = {} /\ wasVisible = FALSE /\ pass = NoPass
    /\ lateRun = 0 /\ tx = [bank |-> 0, presents |-> 0]
    /\ screen = [parts |-> buffer, counted |-> FALSE, drawn |-> {}, got |-> 0, of |-> 0]
    /\ outcome = "none" /\ toggled = 0 /\ flashed = 0 /\ gap = FALSE

-----------------------------------------------------------------------------
(* The overlay, under its own mutex.                                       *)

\* show: the panel; a skip still flashed stays.
Shown(b) == b \cup {Panel}

\* flashSkip refreshes the panel too, so the skip box never outlasts it.
FlashSkip ==
    /\ flashed < Flashes /\ outcome = "none"
    /\ boxes' = {SkipBox, Panel}
    /\ flashed' = flashed + 1
    /\ UNCHANGED <<format, buffer, got, count, loop, control, wasVisible, pass, lateRun, tx, screen,
                   outcome, toggled, gap>>

\* alphaFor and skipAlphaFor: the skip is gone after 1.2 s, the panel after 3 s.
BoxExpires ==
    /\ boxes # {}
    /\ boxes' = IF SkipBox \in boxes THEN {Panel} ELSE {}
    /\ UNCHANGED <<others, buffer, got, count, loop, control, wasVisible, pass, lateRun, tx, screen,
                   outcome>>

\* capture and backupOverlayDirty; restore and restoreOverlayDirty.
Captured(buf, dirty) == [p \in dirty |-> buf[p]]
Restored(buf, saved) == [p \in Parts |-> IF p \in DOMAIN saved THEN saved[p] ELSE buf[p]]

\* render: blended over what is there.
Rendered(buf, drawn) == [p \in Parts |-> [buf[p] EXCEPT !.osd = @ \/ p \in drawn]]

-----------------------------------------------------------------------------
(* The top of the loop.                                                    *)

LoopLeaves ==
    /\ loop = "top" /\ control.stop
    /\ loop' = "left"
    /\ UNCHANGED <<others, buffer, got, count, control, boxes, wasVisible, pass, lateRun, tx, screen,
                   outcome>>

\* Paused: the buffer is painted again with the overlay, and once without it.
PausedRepaint ==
    /\ loop = "top" /\ ~control.stop /\ control.paused
    /\ (boxes # {} \/ wasVisible) /\ count > 0
    /\ wasVisible' = (boxes # {})
    /\ loop' = "bounds"
    /\ pass' = NoPass
    /\ UNCHANGED <<others, buffer, got, count, control, boxes, lateRun, tx, screen, outcome>>

ReadOn ==
    /\ loop = "top" /\ ~control.stop /\ ~control.paused
    /\ loop' = "read"
    /\ UNCHANGED <<others, buffer, got, count, control, boxes, wasVisible, pass, lateRun, tx, screen,
                   outcome>>

-----------------------------------------------------------------------------
(* Reading a picture; `got' survives a pause.                              *)

\* The condition of the read loop, its first look at paused_.
ReadLooks ==
    /\ loop = "read"
    /\ loop' = IF got < 2 /\ ~control.stop /\ ~control.paused THEN "reading" ELSE "leftRead"
    /\ UNCHANGED <<others, buffer, got, count, control, boxes, wasVisible, pass, lateRun, tx, screen,
                   outcome>>

ReadReturns ==
    /\ loop = "reading" /\ count < Pictures
    /\ got' = got + 1
    /\ buffer' = [buffer EXCEPT ![got + 1] = [of |-> count + 1, osd |-> FALSE]]
    /\ loop' = "read"
    /\ UNCHANGED <<others, count, control, boxes, wasVisible, pass, lateRun, tx, screen, outcome>>

\* The end of the stream, or the decoder died.
ReadEof ==
    /\ loop = "reading"
    /\ control' = [control EXCEPT !.eof = TRUE]
    /\ loop' = "leftRead"
    /\ UNCHANGED <<others, buffer, got, count, boxes, wasVisible, pass, lateRun, tx, screen, outcome>>

\* The second look at paused_; then a picture that is not whole ends the loop.
PictureRead ==
    /\ loop = "leftRead"
    /\ loop' = IF control.paused THEN "top" ELSE IF got < 2 THEN "left" ELSE "pacing"
    /\ control' = [control EXCEPT !.short = ~control.paused /\ got < 2]
    /\ got' = IF ~control.paused /\ got = 2 THEN 0 ELSE got
    /\ count' = IF ~control.paused /\ got = 2 THEN count + 1 ELSE count
    /\ UNCHANGED <<others, buffer, boxes, wasVisible, pass, lateRun, tx, screen, outcome>>

\* avDecide, as in AvLock; a stop or a pause ends the hold and presents.
Paced ==
    /\ loop = "pacing"
    /\ \/ /\ loop' = "bounds" /\ pass' = [NoPass EXCEPT !.counted = TRUE] /\ lateRun' = 0
       \/ /\ ~control.stop /\ ~control.paused /\ lateRun < 1
          /\ loop' = "top" /\ lateRun' = lateRun + 1 /\ UNCHANGED pass
    /\ UNCHANGED <<others, buffer, got, count, control, boxes, wasVisible, tx, screen, outcome>>

-----------------------------------------------------------------------------
(* presentCleanFrame.                                                      *)

\* renderI420WithBackup freezes the overlay once; the packed formats take its
\* bounds here and its pixels in a second look.
Bounds ==
    /\ loop = "bounds"
    /\ pass' = [pass EXCEPT !.saved = Captured(buffer, boxes), !.dirty = boxes,
                            !.drawn = IF format = "i420" THEN boxes ELSE {}]
    /\ buffer' = IF format = "i420" THEN Rendered(buffer, boxes) ELSE buffer
    /\ loop' = IF format = "packed" /\ boxes # {} THEN "render" ELSE "send"
    /\ UNCHANGED <<others, got, count, control, boxes, wasVisible, lateRun, tx, screen, outcome>>

Render ==
    /\ loop = "render"
    /\ buffer' = Rendered(buffer, boxes)
    /\ pass' = [pass EXCEPT !.drawn = boxes]
    /\ loop' = "send"
    /\ UNCHANGED <<others, got, count, control, boxes, wasVisible, lateRun, tx, screen, outcome>>

\* The blit, the bank of the core where there is one, and the overlay out again.
SendAndRestore ==
    /\ loop = "send"
    /\ screen' = [parts |-> buffer, counted |-> pass.counted, drawn |-> pass.drawn, got |-> got,
                  of |-> count]
    /\ \E ok \in IF format = "i420" THEN BOOLEAN ELSE {FALSE} :
         tx' = [bank |-> IF ok THEN 1 - tx.bank ELSE tx.bank,
                presents |-> IF ok /\ pass.counted THEN tx.presents + 1 ELSE tx.presents]
    /\ buffer' = Restored(buffer, pass.saved)
    /\ pass' = NoPass
    /\ loop' = "top"
    /\ UNCHANGED <<others, got, count, control, boxes, wasVisible, lateRun, outcome>>

SerialEnds ==
    /\ loop = "left" /\ outcome = "none"
    /\ outcome' = IF control.stop THEN "quiet" ELSE IF count = 0 THEN "stopped" ELSE "ended"
    /\ UNCHANGED <<others, buffer, got, count, loop, control, boxes, wasVisible, pass, lateRun, tx,
                   screen>>

-----------------------------------------------------------------------------
(* The other threads.                                                      *)

\* pause() and resume(), which show the overlay.
Toggle ==
    /\ outcome = "none" /\ (control.paused \/ toggled < Toggles)
    /\ control' = [control EXCEPT !.paused = ~@]
    /\ toggled' = IF control.paused THEN toggled ELSE toggled + 1
    /\ boxes' = Shown(boxes)
    /\ gap' = (gap \/ (control.paused /\ loop = "leftRead"))
    /\ UNCHANGED <<format, buffer, got, count, loop, wasVisible, pass, lateRun, tx, screen, outcome,
                   flashed>>

Stopped ==
    /\ outcome = "none" /\ ~control.stop
    /\ control' = [control EXCEPT !.stop = TRUE]
    /\ UNCHANGED <<others, buffer, got, count, loop, boxes, wasVisible, pass, lateRun, tx, screen,
                   outcome>>

SerialNext ==
    \/ LoopLeaves \/ PausedRepaint \/ ReadOn
    \/ ReadLooks \/ ReadReturns \/ ReadEof \/ PictureRead \/ Paced
    \/ Bounds \/ Render \/ SendAndRestore \/ SerialEnds
    \/ Toggle \/ Stopped \/ FlashSkip \/ BoxExpires

SerialSpec == SerialInit /\ [][SerialNext]_serialVars

-----------------------------------------------------------------------------
(* Properties.                                                             *)

LoopType ==
    /\ format \in Formats /\ got \in 0..2 /\ count \in 0..Pictures /\ lateRun \in 0..1
    /\ loop \in {"top", "read", "reading", "leftRead", "left", "pacing", "bounds", "render", "send"}
    /\ control \in [stop : BOOLEAN, paused : BOOLEAN, eof : BOOLEAN, short : BOOLEAN]
    /\ outcome \in {"none", "quiet", "stopped", "ended"}
    /\ toggled \in 0..Toggles /\ flashed \in 0..Flashes /\ gap \in BOOLEAN
PictureType ==
    /\ buffer \in [Parts -> [of : 0..Pictures, osd : BOOLEAN]]
    /\ boxes \in {{}, {Panel}, {SkipBox, Panel}} /\ wasVisible \in BOOLEAN
    /\ pass.counted \in BOOLEAN /\ pass.drawn \subseteq Parts /\ pass.dirty \subseteq Parts
TxType == tx \in [bank : {0, 1}, presents : 0..count]

\* The shape of the state; no more pictures are presented than were read.
SerialTypeOK == LoopType /\ PictureType /\ TxType

Boxes(s) == {p \in Parts : s.parts[p].osd}
Whole(s) == \A p \in Parts : s.parts[p].of = s.of

\* A picture presented in its turn is one picture, the newest: a pause in the
\* middle of a read loses no part of it.  Only a repaint may show something else,
\* when the pause came after a part of the next picture was read over the buffer.
\* And the overlay on the screen is the one drawn for this present: what an
\* earlier one drew has been taken out.  The exception is a skip flashed, in a
\* packed format, between the look at the bounds and the look at the pixels: its
\* box was not backed up and stays in the buffer.
TurnsAreWhole ==
    /\ Whole(screen) \/ (~screen.counted /\ screen.got > 0)
    /\ screen.drawn \subseteq Boxes(screen)
    /\ Boxes(screen) \ screen.drawn \subseteq
         IF format = "packed" /\ flashed > 0 THEN {SkipBox} ELSE {}

\* The loop takes a picture for cut short only when the stream has ended or a stop
\* is asked for; the exception is a resume that falls between its two looks at
\* paused_, which ends the title.
ShortIsTheEnd == control.short => control.eof \/ control.stop \/ gap
================================================================================
