------------------------------- MODULE NalStream -------------------------------
(***************************************************************************)
(* MediaPlayer::streamPump of arm/misterplexd/media_player.cpp and the     *)
(* dispatcher of host/libmisterplex/h264_nal_dispatch.hpp: the bytes of an *)
(* H.264 elementary stream arrive in pieces, are cut into NAL units, and   *)
(* each unit goes to the decoder in the fabric and, when it is a slice, to *)
(* the host's own I-slice decoder.  Pausing, resuming and stopping come    *)
(* from other threads.                                                     *)
(*                                                                         *)
(* Bytes are numbers; the low five bits of the byte after a start code are *)
(* the unit's type, and the byte after a PPS header is the entropy mode    *)
(* (Cabac or another).  Units are named by the offset of their header.     *)
(* What reconISlice makes of a slice, and what the ring makes of a push    *)
(* (module BitstreamRing), are choices.                                    *)
(***************************************************************************)
EXTENDS Integers, Sequences, FiniteSetsExt

CONSTANTS
    Streams,      \* the byte sequences a demuxer may write
    Reads,        \* how many bytes one read may return
    Cabac,        \* the payload byte of a PPS with entropy_coding_mode_flag set
    MaxAcc,       \* kMaxAcc
    MaxToggles    \* bound on pauses and resumes

ASSUME NalAssumption ==
    /\ \A s \in Streams : s \in Seq(0..255)
    /\ Reads \subseteq Nat \ {0} /\ MaxAcc \in Nat /\ MaxToggles \in Nat
    /\ \A n \in Reads : n + 4 <= MaxAcc     \* a buffer of 4096 bytes, a cap of 2 MiB

VARIABLES
    stream,    \* what the demuxer writes
    taken,     \* bytes read so far
    acc,       \* first offset kept, and parseFrom relative to it
    pump,      \* "begin", "read", "consume", "compact", "tail", "end", "done"
    paused,    \* paused_
    stopped,   \* stop_
    toggles,
    f3,        \* f3Active, f3Fatal, f3Paused
    disp,      \* the dispatcher: active, paused, delivered flags, parameter sets, seq
    host,      \* the host decoder: its parameter sets, cabacSkip_, reconPresentOk_
    cuts,      \* history: the units found, [from, to)
    fabric,    \* history: the parameter sets the fabric holds since begin or resume
    slices,    \* history: the last slice pushed, and the sets it was pushed after
    walked     \* history: the last slice reconISlice walked, and its sets

nalVars == <<stream, taken, acc, pump, paused, stopped, toggles, f3, disp, host, cuts,
             fabric, slices, walked>>

None == -1
NalHistory == <<cuts, fabric, slices, walked>>

NalInit ==
    /\ stream \in Streams /\ taken = 0 /\ acc = [base |-> 0, parseFrom |-> 0]
    /\ pump = "begin" /\ paused \in BOOLEAN /\ stopped = FALSE /\ toggles = 0
    /\ f3 = [active |-> FALSE, fatal |-> FALSE, paused |-> FALSE]
    /\ disp = [active |-> FALSE, paused |-> FALSE, spsDelivered |-> FALSE, ppsDelivered |-> FALSE,
               sps |-> None, pps |-> None, seq |-> 0]
    /\ host = [sps |-> None, pps |-> None, cabacSkip |-> FALSE, presented |-> FALSE]
    /\ cuts = <<>>
    /\ fabric = [sps |-> None, pps |-> None, seq |-> 0]
    /\ slices = [ok |-> TRUE] /\ walked = [ok |-> TRUE]

-----------------------------------------------------------------------------
(* Cutting.  Offsets are absolute: byte b of the stream is stream[b + 1].  *)

byte(b) == stream[b + 1]
size == taken - acc.base
absolute(i) == acc.base + i

annexBStartLen(i) ==
    IF i + 3 < size /\ \A k \in 0..2 : byte(absolute(i + k)) = 0 /\ byte(absolute(i + 3)) = 1 THEN 4
    ELSE IF i + 2 < size /\ byte(absolute(i)) = 0 /\ byte(absolute(i + 1)) = 0 /\ byte(absolute(i + 2)) = 1 THEN 3
    ELSE 0

\* The first start code at or after i, the scan stopping `short` bytes from the end.
FirstCodeAt(i, short) ==
    LET codes == {k \in i..(size - short - 1) : annexBStartLen(k) # 0}
    IN  IF codes # {} THEN Min(codes) ELSE None

\* Where the scan for the head of a unit ends when there is none.
UnfoundDropsAll(i) == IF i + 3 < size THEN size ELSE i
Unfound(i) == IF i + 3 < size THEN size - 3 ELSE i

\* history: the last unit of a type that was cut
LastCut(type) == Max({None} \cup {cuts[k].from : k \in {k \in 1..Len(cuts) : cuts[k].type = type}})

annexBNalType(from, to, sc) == IF sc >= to - from THEN 0 ELSE byte(from + sc) % 32

-----------------------------------------------------------------------------
(* NalDispatcher.                                                          *)

\* pushWithBackpressure: Full is retried, then escalates; another failure ends it.
Pushed(f, type, unit) ==
    [f EXCEPT !.seq = @ + 1,
              !.sps = IF type = 7 THEN unit ELSE @,
              !.pps = IF type = 8 THEN unit ELSE @]

\* replayParametersIfNeeded: what has to go before a slice.
Replayed(f) ==
    LET g == IF disp.spsDelivered THEN f ELSE Pushed(f, 7, disp.sps)
    IN  IF disp.ppsDelivered THEN g ELSE Pushed(g, 8, disp.pps)

ReplayImpossible ==
    (~disp.spsDelivered /\ disp.sps = None) \/ (~disp.ppsDelivered /\ disp.pps = None)

\* handleNal: the parameter sets are kept whatever happens to the push.
HandleNal(type, unit) ==
    LET kept  == [disp EXCEPT !.sps = IF type = 7 THEN unit ELSE @,
                              !.pps = IF type = 8 THEN unit ELSE @]
        slice == type \in {1, 5}
        before == IF slice THEN Replayed(fabric) ELSE fabric
        after  == Pushed(before, type, unit)
    IN  \/ /\ kept.paused /\ type # 0
           /\ disp' = kept /\ UNCHANGED <<f3, fabric, slices>>
        \/ /\ ~kept.paused /\ type # 0 /\ ~(slice /\ ReplayImpossible)
           /\ fabric' = after
           /\ disp' = [kept EXCEPT !.spsDelivered = @ \/ slice \/ type = 7,
                                   !.ppsDelivered = @ \/ slice \/ type = 8,
                                   !.seq = after.seq]
           /\ slices' = IF slice THEN [ok |-> before.sps = LastCut(7) /\ before.pps = LastCut(8)
                                             /\ before.sps # None /\ before.pps # None]
                        ELSE slices
           /\ UNCHANGED f3
        \/ \* Full to the last retry, Desync or Fatal: the session is ended
           /\ ~kept.paused \/ type = 0
           /\ f3' = [f3 EXCEPT !.fatal = TRUE]
           /\ \E ended \in BOOLEAN : disp' = [kept EXCEPT !.active = ~ended]
           /\ UNCHANGED <<fabric, slices>>

pushF3Nal(type, unit) ==
    IF f3.active /\ ~f3.fatal THEN HandleNal(type, unit)
    ELSE UNCHANGED <<f3, disp, fabric, slices>>

-----------------------------------------------------------------------------
(* The host decoder.                                                       *)

\* applyPpsEntropy: a PPS with no payload leaves the mode as it was.
applyPpsEntropy(skip, hasPayload, mode) == IF hasPayload THEN mode = Cabac ELSE skip

\* tryReconNal: a P slice is not walked, nor is anything while the mode is Cabac.
\* A walk may succeed and be presented, fail, or find out that it is Cabac.
tryReconNal ==
    \/ UNCHANGED <<host, walked>>
    \/ /\ host.sps # None /\ host.pps # None /\ ~host.cabacSkip
       /\ walked' = [ok |-> host.sps = LastCut(7) /\ host.pps = LastCut(8)]
       /\ \E cabac, presented \in BOOLEAN :
            host' = [host EXCEPT !.cabacSkip = cabac, !.presented = @ \/ (presented /\ ~cabac)]

\* One unit: to the fabric first, then to the host.
HandleUnit(from, to, sc) ==
    LET type == annexBNalType(from, to, sc)
        hasPayload == sc + 1 < to - from
    IN  /\ cuts' = Append(cuts, [from |-> from + sc, to |-> to, type |-> type])
        /\ pushF3Nal(type, from + sc)
        /\ CASE type = 7 -> host' = [host EXCEPT !.sps = from + sc] /\ UNCHANGED walked
             [] type = 8 ->
                  /\ host' = [host EXCEPT !.pps = from + sc,
                               !.cabacSkip = applyPpsEntropy(@, hasPayload,
                                   IF hasPayload THEN byte(from + sc + 1) ELSE 0)]
                  /\ UNCHANGED walked
             [] type \in {1, 5} /\ ~paused -> tryReconNal
             [] OTHER -> UNCHANGED <<host, walked>>

-----------------------------------------------------------------------------
(* The pump.                                                               *)

\* begin, with the fabric or without it.
Begin ==
    /\ pump = "begin"
    /\ \E ok \in BOOLEAN :
         /\ f3' = [active |-> ok, fatal |-> ~ok, paused |-> FALSE]
         /\ disp' = [disp EXCEPT !.active = ok]
    /\ pump' = "read"
    /\ UNCHANGED <<stream, taken, acc, paused, stopped, toggles, host, NalHistory>>

\* syncF3Pause, before every read.
SyncDone == ~f3.active \/ f3.fatal \/ f3.paused = paused

SyncF3Pause ==
    /\ pump = "read" /\ ~stopped /\ ~SyncDone
    /\ \/ /\ f3' = [f3 EXCEPT !.paused = paused]
          /\ disp' = [disp EXCEPT !.paused = paused,
                                  !.spsDelivered = @ /\ paused, !.ppsDelivered = @ /\ paused]
          /\ fabric' = IF paused THEN fabric ELSE [fabric EXCEPT !.sps = None, !.pps = None]
       \/ f3' = [f3 EXCEPT !.fatal = TRUE] /\ UNCHANGED <<disp, fabric>>
    /\ UNCHANGED <<stream, taken, acc, pump, paused, stopped, toggles, host, cuts, slices, walked>>

Read(n) ==
    /\ pump = "read" /\ ~stopped /\ SyncDone /\ taken + n <= Len(stream)
    /\ taken' = taken + n
    /\ pump' = "consume"
    /\ UNCHANGED <<stream, acc, paused, stopped, toggles, f3, disp, host, NalHistory>>

NothingComplete ==
    LET i == FirstCodeAt(acc.parseFrom, 3)
    IN  IF i = None THEN TRUE ELSE FirstCodeAt(i + annexBStartLen(i), 2) = None

\* consumeCompleteNals: one unit whose end is in sight.
ConsumeUnit ==
    /\ pump = "consume" /\ ~stopped
    /\ ~NothingComplete
    /\ LET i  == FirstCodeAt(acc.parseFrom, 3)
           sc == annexBStartLen(i)
           j  == FirstCodeAt(i + sc, 2)
       IN  /\ acc' = [acc EXCEPT !.parseFrom = j]
           /\ IF i + sc < j THEN HandleUnit(absolute(i), absolute(j), sc)
              ELSE UNCHANGED <<f3, disp, host, cuts, fabric, slices, walked>>
    /\ UNCHANGED <<stream, taken, pump, paused, stopped, toggles>>

\* The rest is kept from the head of its unit, which the scan in front of the loop
\* finds stopped or not.  compactAcc drops what is before it, and everything when
\* the rest is past the cap; with nothing to drop it returns before the cap.
Compact ==
    /\ pump = "consume" /\ (stopped \/ NothingComplete)
    /\ LET i    == FirstCodeAt(acc.parseFrom, 3)
           head == IF i = None THEN Unfound(acc.parseFrom) ELSE i
           over == head > 0 /\ size - head > MaxAcc
       IN  acc' = [base |-> IF over THEN taken ELSE absolute(head), parseFrom |-> 0]
    /\ pump' = "read"
    /\ UNCHANGED <<stream, taken, paused, stopped, toggles, f3, disp, host, NalHistory>>

\* The loop ends at a stop, a failed read or the end of the stream.
LoopEnds ==
    /\ pump = "read" /\ (stopped \/ SyncDone)
    /\ pump' = "tail"
    /\ UNCHANGED <<stream, taken, acc, paused, stopped, toggles, f3, disp, host, NalHistory>>

\* The last unit has no start code behind it.
TailUnit ==
    /\ pump = "tail"
    /\ LET sc == annexBStartLen(acc.parseFrom)
       IN  IF ~stopped /\ acc.parseFrom + 3 < size /\ sc # 0 /\ acc.parseFrom + sc < size
           THEN HandleUnit(absolute(acc.parseFrom), taken, sc)
           ELSE UNCHANGED <<f3, disp, host, cuts, fabric, slices, walked>>
    /\ pump' = "end"
    /\ UNCHANGED <<stream, taken, acc, paused, stopped, toggles>>

End ==
    /\ pump = "end"
    /\ \E ended \in BOOLEAN : disp' = [disp EXCEPT !.active = @ /\ ~(f3.active /\ ended)]
    /\ pump' = "done"
    /\ UNCHANGED <<stream, taken, acc, paused, stopped, toggles, f3, host, NalHistory>>

PauseToggles ==
    /\ pump # "done" /\ toggles < MaxToggles
    /\ paused' = ~paused /\ toggles' = toggles + 1
    /\ UNCHANGED <<stream, taken, acc, pump, stopped, f3, disp, host, NalHistory>>

StopPump ==
    /\ pump # "done" /\ ~stopped
    /\ stopped' = TRUE
    /\ UNCHANGED <<stream, taken, acc, pump, paused, toggles, f3, disp, host, NalHistory>>

NalNext ==
    \/ Begin \/ SyncF3Pause \/ \E n \in Reads : Read(n)
    \/ ConsumeUnit \/ Compact \/ LoopEnds \/ TailUnit \/ End
    \/ PauseToggles \/ StopPump

NalSpec == NalInit /\ [][NalNext]_nalVars

-----------------------------------------------------------------------------
(* Properties.                                                             *)

\* The shape of the state; parseFrom stays inside the accumulator.
NalTypeOK ==
    /\ taken \in 0..Len(stream) /\ acc.base \in 0..taken /\ acc.parseFrom \in 0..size
    /\ pump \in {"begin", "read", "consume", "tail", "end", "done"}
    /\ f3 \in [active : BOOLEAN, fatal : BOOLEAN, paused : BOOLEAN]
    /\ disp.sps \in -1..taken /\ disp.pps \in -1..taken /\ host.sps \in -1..taken

\* Where the units of the stream are, whatever the reads: from behind a start
\* code to the next one, or to the end, and not empty.
Codes == {p \in 0..(Len(stream) - 3) : byte(p) = 0 /\ byte(p + 1) = 0 /\ byte(p + 2) = 1}
UnitEnd(p) ==
    LET next == {q \in Codes : q > p}
        q    == Min(next)
    IN  IF next = {} THEN Len(stream)
        ELSE IF q > p + 3 /\ byte(q - 1) = 0 THEN q - 1 ELSE q
Units == {[from |-> p + 3, to |-> UnitEnd(p)] : p \in {q \in Codes : q + 3 < UnitEnd(q)}}

\* However the stream falls into reads - inside a start code, inside a unit - the
\* pump finds units of the stream and nothing else, in order; all of them if it
\* ran to the end, those longer than the cap of the accumulator too.
CutsExact ==
    LET found == {[from |-> cuts[k].from, to |-> cuts[k].to] : k \in 1..Len(cuts)}
        whole == {u \in Units : u.to < Len(stream) \/ taken = Len(stream)}
    IN  pump # "begin" =>
          /\ taken = Len(stream) \/ pump \notin {"end", "done"} => found \subseteq Units
          /\ \A k \in 1..(Len(cuts) - 1) : cuts[k].to <= cuts[k + 1].from
          /\ pump = "done" /\ taken = Len(stream) /\ ~stopped => found = whole

\* A slice reaches the fabric only behind the SPS and the PPS that were last in
\* the stream, sent since the session began or resumed, with no gap in the
\* sequence numbers; and the host walks a slice only with the last sets.
SetsBeforeSlices ==
    /\ slices.ok /\ walked.ok
    /\ f3.active /\ ~f3.fatal => disp.seq = fabric.seq

\* The records are the stream: its units as they were cut, each slice behind
\* the sets it needs.
StreamIntact == CutsExact /\ SetsBeforeSlices
================================================================================
